------------------------------ MODULE SharedBus ------------------------------
(***************************************************************************)
(* The browser threads of several plugin instances in one process.  They   *)
(* share nothing of their own, but dbus_bus_get gives all of them the same *)
(* connection: its filters are called in the order in which they were      *)
(* added, the code never removes one, and libdbus keeps the connection     *)
(* open after the last dbus_connection_unref.  Every dispatch, whichever   *)
(* thread calls it, runs the filters one message at a time, and the first  *)
(* one answers DBUS_HANDLER_RESULT_HANDLED.                                *)
(*                                                                         *)
(* What Browser does step by step is coarser here: the set-up is a step    *)
(* per call that can fail, the dispatch two steps, and the command queue   *)
(* is the set of clients that have released.  A filter that uses a channel *)
(* already freed finds it as it was; stale records that it did.            *)
(***************************************************************************)
EXTENDS Integers, Sequences, FiniteSets

CONSTANTS Threads,      \* browser threads, each with a client and a channel
          MaxSignals,   \* signals that Avahi sends
          MaxFilters,   \* add_filter fails when there are so many filters
          MaxBacklog    \* a client does not reconnect with so many messages unread

ASSUME BusAssumption ==
    IsFiniteSet(Threads) /\ MaxSignals \in Nat /\ MaxFilters \in Nat /\ MaxBacklog \in Nat

\* What is in the queue `out' of a thread: the signals, which are numbered as they are
\* sent, "disconnected", which libdbus puts behind them, and the thread's own messages.
Signals      == 1 .. MaxSignals
Disconnected == MaxSignals + 1
FromBus      == 1 .. Disconnected
SetupError   == 0
Exited       == MaxSignals + 2
Marker       == MaxSignals + 3
Messages     == 0 .. Marker

VARIABLES
    (* the connection *)
    link,       \* "up", "lost" with messages left to dispatch, or "gone"
    filters,    \* the bp of each filter, in the order they were added
    refs,       \* references to it, libdbus' own apart
    asked,      \* has a ServiceBrowserNew been sent?
    sent,       \* signals that have arrived
    taken,      \* the message dispatched last
    (* each thread *)
    stage,      \* where it is in the table
    conn,       \* bp->conn
    out,        \* the queue to its client
    heard,      \* what its client took from it, errors apart
    released,   \* the threads whose client has sent exit & clean
    freed,      \* the threads whose channel is freed
    stale       \* has a filter used a channel that was freed?

busVars    == <<link, filters, refs, asked, sent, taken>>
threadVars == <<stage, conn, out, heard, released, freed, stale>>
vars       == <<busVars, threadVars>>

Init ==
    /\ link = "up" /\ filters = <<>> /\ refs = 0 /\ asked = FALSE
    /\ sent = 0 /\ taken = 0
    /\ stage = [t \in Threads |-> "off"]
    /\ conn = [t \in Threads |-> "NULL"]
    /\ out = [t \in Threads |-> <<>>]
    /\ heard = [t \in Threads |-> <<>>]
    /\ released = {} /\ freed = {} /\ stale = FALSE

At(t, s)   == stage[t] = s
GoTo(t, s) == stage' = [stage EXCEPT ![t] = s]

Push(t, messages) == out' = [out EXCEPT ![t] = @ \o messages]

-----------------------------------------------------------------------------
(* The set-up: __browser_setup_dbus_conn.                                  *)

Start(t) ==
    /\ At(t, "off") /\ GoTo(t, "bus")
    /\ UNCHANGED <<busVars, conn, out, heard, released, freed, stale>>

GetBus(t) ==
    /\ At(t, "bus") /\ link # "gone"
    /\ refs' = refs + 1
    /\ GoTo(t, "filter")
    /\ UNCHANGED <<link, filters, asked, sent, taken>>
    /\ UNCHANGED <<conn, out, heard, released, freed, stale>>

NoBus(t) ==
    /\ At(t, "bus")
    /\ conn' = [conn EXCEPT ![t] = "NULL"]
    /\ GoTo(t, "wait")
    /\ UNCHANGED <<busVars, out, heard, released, freed, stale>>

AddFilter(t) ==
    /\ At(t, "filter") /\ Len(filters) < MaxFilters
    /\ filters' = Append(filters, t)
    /\ GoTo(t, "match")
    /\ UNCHANGED <<link, refs, asked, sent, taken>>
    /\ UNCHANGED <<conn, out, heard, released, freed, stale>>

AddMatch(t) ==
    /\ At(t, "match") /\ GoTo(t, "request")
    /\ UNCHANGED <<busVars, conn, out, heard, released, freed, stale>>

Request(t) ==
    /\ At(t, "request")
    /\ asked' = TRUE
    /\ conn' = [conn EXCEPT ![t] = "open"]
    /\ GoTo(t, "serve")
    /\ UNCHANGED <<link, filters, refs, sent, taken>>
    /\ UNCHANGED <<out, heard, released, freed, stale>>

SettingUp == {"filter", "match", "request"}

\* Mutant of SetupFails: the reference is kept.
FailsWithoutUnref(t) ==
    /\ stage[t] \in SettingUp
    /\ Push(t, <<SetupError>>)
    /\ conn' = [conn EXCEPT ![t] = "NULL"]
    /\ GoTo(t, "wait")
    /\ UNCHANGED <<busVars, heard, released, freed, stale>>

\* A filter that has been added stays.
SetupFails(t) ==
    /\ stage[t] \in SettingUp
    /\ Push(t, <<SetupError>>)
    /\ refs' = refs - 1
    /\ conn' = [conn EXCEPT ![t] = "NULL"]
    /\ GoTo(t, "wait")
    /\ UNCHANGED <<link, filters, asked, sent, taken>>
    /\ UNCHANGED <<heard, released, freed, stale>>

\* BMSG_RECONNECT, whatever the client has read of what it was sent; MaxBacklog bounds
\* the errors that attempts leave behind.
Reconnect(t) ==
    /\ At(t, "wait") /\ t \notin released /\ Len(out[t]) < MaxBacklog
    /\ GoTo(t, "bus")
    /\ UNCHANGED <<busVars, conn, out, heard, released, freed, stale>>

-----------------------------------------------------------------------------
(* The bus.                                                                *)

Send ==
    /\ asked /\ link = "up" /\ sent < MaxSignals
    /\ sent' = sent + 1
    /\ UNCHANGED <<link, filters, refs, asked, taken, threadVars>>

Lose ==
    /\ link = "up"
    /\ link' = "lost"
    /\ UNCHANGED <<filters, refs, asked, sent, taken, threadVars>>

-----------------------------------------------------------------------------
(* The dispatch: dbus_connection_read_write_dispatch calls the first       *)
(* filter, while libdbus keeps other threads from dispatching.             *)

Dispatching == \E t \in Threads : At(t, "dispatch")

TakeSignal(t) ==
    /\ At(t, "serve") /\ conn[t] = "open" /\ ~ Dispatching
    /\ taken < sent
    /\ taken' = taken + 1
    /\ GoTo(t, "dispatch")
    /\ UNCHANGED <<link, filters, refs, asked, sent>>
    /\ UNCHANGED <<conn, out, heard, released, freed, stale>>

TakeDisconnected(t) ==
    /\ At(t, "serve") /\ conn[t] = "open" /\ ~ Dispatching
    /\ link = "lost" /\ taken = sent
    /\ link' = "gone"
    /\ taken' = Disconnected
    /\ GoTo(t, "dispatch")
    /\ UNCHANGED <<filters, refs, asked, sent>>
    /\ UNCHANGED <<conn, out, heard, released, freed, stale>>

\* Mutant of AfterDispatch: the row of ST_SERVE for any event goes to ST_WAIT.
WaitAfterDispatch(t) == GoTo(t, IF taken = Disconnected THEN "deaf" ELSE "wait")

\* After the disconnect message the dispatch returns FALSE: the thread is in ST_WAIT,
\* where it never looks at its commands again.
AfterDispatch(t) == GoTo(t, IF taken = Disconnected THEN "deaf" ELSE "serve")

\* Mutants of Filter: it answers NOT_YET_HANDLED, and every filter is called; it uses
\* the channel of the thread that dispatches.
NotYetHandled(t) ==
    /\ At(t, "dispatch")
    /\ out' = [u \in Threads |->
          LET mine == {i \in 1 .. Len(filters) : filters[i] = u}
          IN  out[u] \o [i \in 1 .. Cardinality(mine) |-> taken]]
    /\ AfterDispatch(t)
    /\ UNCHANGED <<busVars, conn, heard, released, freed, stale>>

OwnChannel(t) ==
    /\ At(t, "dispatch")
    /\ Push(t, <<taken>>)
    /\ AfterDispatch(t)
    /\ UNCHANGED <<busVars, conn, heard, released, freed, stale>>

\* __browser_filter_func: the first filter pushes to the channel of its own bp.
Filter(t) ==
    /\ At(t, "dispatch")
    /\ Push(filters[1], <<taken>>)
    /\ stale' = (stale \/ filters[1] \in freed)
    /\ AfterDispatch(t)
    /\ UNCHANGED <<busVars, conn, heard, released, freed>>

\* Another thread has dispatched the disconnect message.
SeeLoss(t) ==
    /\ At(t, "serve") /\ conn[t] = "open" /\ link = "gone" /\ ~ Dispatching
    /\ GoTo(t, "deaf")
    /\ UNCHANGED <<busVars, conn, out, heard, released, freed, stale>>

-----------------------------------------------------------------------------
(* The clients.                                                            *)

Pop(t) ==
    /\ ~ At(t, "off") /\ t \notin released /\ out[t] # <<>>
    /\ out' = [out EXCEPT ![t] = Tail(@)]
    /\ heard' = IF Head(out[t]) = SetupError THEN heard
                ELSE [heard EXCEPT ![t] = Append(@, Head(out[t]))]
    /\ UNCHANGED <<busVars, stage, conn, released, freed, stale>>

Release(t) ==
    /\ ~ At(t, "off") /\ t \notin released
    /\ released' = released \cup {t}
    /\ UNCHANGED <<busVars, stage, conn, out, heard, freed, stale>>

-----------------------------------------------------------------------------
(* The exit sequence.                                                      *)

\* ST_SERVE and ST_WAIT read the release.
ReadRelease(t) ==
    /\ stage[t] \in {"serve", "wait"} /\ t \in released
    /\ GoTo(t, "exit")
    /\ UNCHANGED <<busVars, conn, out, heard, released, freed, stale>>

\* Mutant of Exit: the marker comes first.
MarkerFirst(t) ==
    /\ At(t, "exit")
    /\ refs' = IF conn[t] = "open" THEN refs - 1 ELSE refs
    /\ conn' = [conn EXCEPT ![t] = "NULL"]
    /\ Push(t, <<Marker, Exited>>)
    /\ GoTo(t, "flush")
    /\ UNCHANGED <<link, filters, asked, sent, taken>>
    /\ UNCHANGED <<heard, released, freed, stale>>

\* ActionExit.
Exit(t) ==
    /\ At(t, "exit")
    /\ refs' = IF conn[t] = "open" THEN refs - 1 ELSE refs
    /\ conn' = [conn EXCEPT ![t] = "NULL"]
    /\ Push(t, <<Exited, Marker>>)
    /\ GoTo(t, "flush")
    /\ UNCHANGED <<link, filters, asked, sent, taken>>
    /\ UNCHANGED <<heard, released, freed, stale>>

\* FlushQueues, until the marker has come.
Flush(t) ==
    /\ At(t, "flush") /\ out[t] # <<>>
    /\ out' = [out EXCEPT ![t] = Tail(@)]
    /\ GoTo(t, IF Head(out[t]) = Marker THEN "clean" ELSE "flush")
    /\ UNCHANGED <<busVars, conn, heard, released, freed, stale>>

\* Mutant of Clean: the next event falls to the last row of the table.
CleanAndConnect(t) ==
    /\ At(t, "clean")
    /\ freed' = freed \cup {t}
    /\ GoTo(t, "bus")
    /\ UNCHANGED <<busVars, conn, out, heard, released, stale>>

\* ActionFinalCleanup.
Clean(t) ==
    /\ At(t, "clean")
    /\ freed' = freed \cup {t}
    /\ GoTo(t, "done")
    /\ UNCHANGED <<busVars, conn, out, heard, released, stale>>

-----------------------------------------------------------------------------
Setup(t)    == GetBus(t) \/ NoBus(t) \/ AddFilter(t) \/ AddMatch(t) \/ Request(t)
                 \/ SetupFails(t)
Dispatch(t) == TakeSignal(t) \/ TakeDisconnected(t) \/ Filter(t) \/ SeeLoss(t)
Leave(t)    == ReadRelease(t) \/ Exit(t) \/ Flush(t) \/ Clean(t)
Client(t)   == Start(t) \/ Pop(t) \/ Reconnect(t) \/ Release(t)
Thread(t)   == Setup(t) \/ Dispatch(t) \/ Leave(t)

Next == (\E t \in Threads : Client(t) \/ Thread(t)) \/ Send \/ Lose

Spec == Init /\ [][Next]_vars

\* Every thread is scheduled; the clients and the bus need not do anything.
FairSpec == Spec /\ \A t \in Threads : WF_vars(Thread(t))

-----------------------------------------------------------------------------
Stages == {"off", "bus", "filter", "match", "request", "serve", "dispatch", "wait",
           "deaf", "exit", "flush", "clean", "done"}

TypeOK ==
    /\ link \in {"up", "lost", "gone"}
    /\ filters \in Seq(Threads)
    /\ refs \in Nat
    /\ asked \in BOOLEAN
    /\ sent \in 0 .. MaxSignals
    /\ taken \in 0 .. Disconnected
    /\ stage \in [Threads -> Stages]
    /\ conn \in [Threads -> {"NULL", "open"}]
    /\ out \in [Threads -> Seq(Messages)]
    /\ heard \in [Threads -> Seq(Messages)]
    /\ released \subseteq Threads
    /\ freed \subseteq released
    /\ stale \in BOOLEAN

\* The references to the connection are those of the threads that set it up or use it:
\* no path through a failed set-up, a reconnect or an exit keeps one or gives back one
\* it has not got, which might be another thread's.
Holders == {t \in Threads : stage[t] \in SettingUp \/ conn[t] = "open"}

RefsExact == refs = Cardinality(Holders)

\* All that was pushed for a client and not drained, in its order.
Feed(t) == heard[t] \o out[t]

\* Whichever threads dispatched it, and however often a filter was added, what a client
\* gets from the bus comes in the order of the bus, each message once.
InOrderOnce ==
    \A t \in Threads : \A i, j \in 1 .. Len(Feed(t)) :
        i < j /\ Feed(t)[i] \in FromBus /\ Feed(t)[j] \in FromBus
            => Feed(t)[i] < Feed(t)[j]

\* The client whose filter was added first.
First(t) == filters # <<>> /\ filters[1] = t

\* The messages of the bus whose dispatch is over, the disconnect message included.
Dispatched ==
    {n \in FromBus : /\ n <= taken /\ (n <= sent \/ n = Disconnected)
                    /\ ~ (Dispatching /\ n = taken)}

\* The first client misses nothing as long as it stays, the loss of the bus included,
\* whichever threads dispatch and however many set-ups failed meanwhile.
FirstMissesNothing ==
    \A t \in Threads : First(t) /\ stage[t] \notin {"flush", "clean", "done"} =>
        \A n \in Dispatched : \E i \in 1 .. Len(Feed(t)) : Feed(t)[i] = n

\* Only one instance was created so far.
Alone == \A t, u \in Threads : ~ At(t, "off") /\ ~ At(u, "off") => t = u

\* "queues are empty at this point" (ActionFinalCleanup): so they are for every thread
\* but the one whose filter is first, and for that one as long as it is alone.  What its
\* clean-up loses otherwise is of the bus: the thread's own messages were all drained.
CleanFindsEmpty ==
    \A t \in Threads : At(t, "clean") =>
        \A i \in 1 .. Len(out[t]) : First(t) /\ ~ Alone /\ out[t][i] \in FromBus

\* "From hereon, no more access is allowed" (mdnsbrowser.cc, release): no dispatch
\* reaches, through a filter that was left behind, a channel that has been freed.
NoStaleFilter == ~ stale

\* It takes a second instance to get there: the filters of one instance, left behind by
\* its failed set-ups or not, are never called after its clean-up.
StaleTakesTwo == Alone => NoStaleFilter

\* While a thread serves and the bus is up, what Avahi sends is dispatched: the thread
\* does not leave ST_SERVE of itself and no thread keeps the dispatch from the others.
SignalsArrive ==
    \A n \in Signals :
        (sent >= n /\ \E t \in Threads : At(t, "serve"))
            ~> (taken >= n \/ link # "up" \/ released # {})
=============================================================================
