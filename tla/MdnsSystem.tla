------------------------------ MODULE MdnsSystem ------------------------------
(***************************************************************************)
(* One browser thread (Browser) and its client (MDNSBrowser) around the    *)
(* channel they share, and the properties of the protocol between them.    *)
(***************************************************************************)
EXTENDS Browser, MDNSBrowser

vars == <<channelVars, workerVars, clientVars>>

Init == ChannelInit /\ WorkerInit /\ ClientInit

\* The first popmsg of the page: MDNSBrowser::init up to pthread_create.
Start ==
    /\ InitClient
    /\ pc' = "pump"
    /\ UNCHANGED <<state, event, conn, todo, marks>>

ClientStep == Client /\ UNCHANGED workerVars
WorkerStep == Worker /\ UNCHANGED clientVars

Exiting == state \in {"ST_EXIT", "ST_WMARK1", "ST_WMARK2", "ST_FCLEAN", "ST_QUIT"}

\* Both sides are through: nothing is left to happen.
Over == cpc = "done" /\ pc = "done" /\ UNCHANGED vars

Next == Start \/ ClientStep \/ WorkerStep \/ Over

Spec == Init /\ [][Next]_vars

\* Both threads are scheduled: the browser thread never stops for good, the
\* client completes a call it is in (it need not make another one), and a
\* thread blocked on a mutex that is released again and again gets it.
Fairness ==
    /\ WF_vars(WorkerStep)
    /\ SF_vars(PushLock /\ UNCHANGED clientVars)
    /\ WF_vars((PopTake \/ PushPutIn) /\ UNCHANGED workerVars)

FairSpec == Spec /\ Fairness

-----------------------------------------------------------------------------
(* Safety.                                                                 *)

Pcs == { "none", "pump", "filter", "poll", "row", "connect", "exit", "flush_in",
         "flush_out", "destroy_in", "destroy_out", "free_cc", "push", "done" }

TypeOK ==
    /\ items \in [Queues -> Seq(Msgs)]
    /\ lock \in [Queues -> Threads \cup {"none"}]
    /\ freed \subseteq Blocks
    /\ pc \in Pcs
    /\ state \in States
    /\ event \in Events
    /\ conn \in {"NULL", "open", "gone"}
    /\ todo \in Seq(Pushes)
    /\ marks \in 0 .. 2
    /\ cpc \in {"new", "idle", "pop", "push", "done"}
    /\ cmd \in CommandMsgs \cup {"NULL"}
    /\ got \in Msgs \cup {"NULL"}

\* "queues are empty at this point", ActionFinalCleanup says before it destroys
\* them: no message is left to leak, whatever the backlog was at the release.
QueuesDrained == pc \in {"destroy_in", "destroy_out"} => \A q \in Queues : items[q] = <<>>

\* What each thread is about to touch, or has the mutex of.
WorkerTouches ==
    CASE pc \in {"poll", "flush_in", "destroy_in"} -> {"in", "cc"}
      [] pc \in {"flush_out", "destroy_out"}       -> {"out", "cc"}
      [] pc \in {"push", "filter"}                 -> {Head(todo).queue, "cc"}
      [] pc = "free_cc"                            -> {"cc"}
      [] OTHER                                     -> {}

ClientTouches == IF cpc \in {"new", "done"} THEN {} ELSE Blocks

\* Nobody touches what ActionFinalCleanup has freed, and nothing is freed twice.
NoUseAfterFree == freed \cap (WorkerTouches \cup ClientTouches) = {}

\* A client that keeps polling until its release never meets the markers the
\* browser thread sends itself through the client's queue.
ClientMeetsNoMarker == got # "BMSG_FLUSH_MARKER"

\* "exited" is the browser thread's last word: only its markers follow it.
ExitedIsLast ==
    \A i, j \in 1 .. Len(items["out"]) :
        /\ i < j
        /\ items["out"][i] = "BMSG_EXITED"
        => items["out"][j] = "BMSG_FLUSH_MARKER"

\* run_fsm never looks up a pair of state and event without a row of its own,
\* which the last row of the table would turn into a new connection.
TrapNotTaken == pc = "row" => ~ FallsToTrap(state, event)

\* A thread that ends leaves the channel to the right party: all of it freed
\* after "exit & clean", none of it after "exit" ("clean-up performed by client").
QuitOwnership ==
    pc = "done" => freed = IF cmd = "BMSG_EXIT_CLEAN" THEN Blocks ELSE {}

\* Even a thread that lost messages of its own exit sequence leaves all of the channel or
\* nothing of it, and nothing but "exit & clean" makes it free any (ActionFinalCleanup).
WholeOrNothing ==
    pc = "done" => freed = {} \/ (freed = Blocks /\ cmd = "BMSG_EXIT_CLEAN")

\* From the first ActionWaitMarkers on nobody adds to either queue, whatever was lost:
\* the client is through, and a thread without a connection dispatches no filter.  So
\* each round of FlushQueues that finds something comes nearer to the end.
Draining == state \in {"ST_WMARK1", "ST_WMARK2", "ST_FCLEAN"}

DrainOnly ==
    [][ Draining => \A q \in Queues :
            items'[q] = items[q] \/ (items[q] # <<>> /\ items'[q] = Tail(items[q])) ]_vars

\* The channel's memory protocol, see ChannelOwnership.
Owner ==
    IF pc = "none" THEN "none"
    ELSE IF freed # {} THEN "gone"
    ELSE IF cpc = "done" THEN "worker" ELSE "shared"

Ownership == INSTANCE ChannelOwnership
                WITH owner <- Owner, using <- cpc \in {"pop", "push"}

OwnershipSpec == Ownership!Spec

\* The request to leave that the client has queued.
Asked == IF cmd \in Closing /\ cpc # "push" THEN cmd ELSE "NULL"

Queued(c) == \E i \in 1 .. Len(items["in"]) : items["in"][i] = c

\* The request is neither waiting nor at hand nor obeyed: it was taken as the
\* event of ST_START, whose row connects whatever the event is.
RequestLost ==
    /\ Asked # "NULL" /\ ~ Queued(Asked) /\ ~ Exiting
    /\ ~ (pc = "row" /\ state # "ST_START" /\ event \in {"E_CMD_EXIT", "E_CMD_EXIT_CLEAN"})

Reclaimed == freed = Blocks

\* Where the thread is in the life that ThreadLife describes.
Phase ==
    IF pc = "none" THEN "none"
    ELSE IF pc = "done" \/ Reclaimed THEN "done"
    ELSE IF pc \in {"pump", "poll"} /\ state = "ST_START" THEN "starting"
    ELSE IF RequestLost THEN "deaf" ELSE "running"

Life == INSTANCE ThreadLife
            WITH phase <- Phase, asked <- Asked, reclaimed <- Reclaimed,
                 OtherCommands <- "BMSG_RECONNECT" \in Commands

\* Through queues, events and table, in every state and with any backlog, a request to
\* leave, once it is read, is dropped in ST_START alone, as the first event; and no thread
\* leaves, or reclaims the channel, without the request for it (run_fsm, event_pump and the
\* rows of the table).  Whether it is read is not said here: see ExitRead and WaitReadsCommands.
LifeSpec == Life!Spec

\* Until the client has handed the channel over, only the client takes messages
\* out of `out': nothing sent to the page is dropped by the thread itself.
ClientAloneTakes ==
    [][ cpc' # "done" /\ Len(items'["out"]) < Len(items["out"])
        => cpc = "pop" /\ got' = Head(items["out"]) ]_vars

-----------------------------------------------------------------------------
(* Liveness, and what the documentation promises.                          *)

\* A request to leave is eventually read by the browser thread: no state of the
\* thread, and no client that keeps polling `out', starves the command queue.
ExitRead ==
    \A c \in Closing : Queued(c) ~> ~ Queued(c)

\* A client's release, met by a thread past its first event, ends with the
\* channel freed and the thread gone, whatever is left in the queues.
ReleaseCompletes ==
    (Queued("BMSG_EXIT_CLEAN") /\ state # "ST_START")
        ~> (freed = Blocks /\ pc = "done")

\* "the event_pump takes care of the waiting" (ActionWait): a thread in ST_WAIT
\* with a command at hand reads it, as the rows of the table for that state
\* expect, and does not wait for ever.
WaitReadsCommands ==
    (state = "ST_WAIT" /\ items["in"] # <<>>)
        ~> (state # "ST_WAIT" \/ items["in"] = <<>>)

\* "The worker thread will take care of all cleaning" (mdnsbrowser.cc, release).
ReleaseCleans == (cpc = "done") ~> (freed = Blocks)
=============================================================================
