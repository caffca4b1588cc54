----------------------------- MODULE PluginObject -----------------------------
(***************************************************************************)
(* One plugin instance (plugin.cc) with its scriptable object NPBrowser    *)
(* (npobject_browser.cc), the MDNSBrowser the object creates on the first  *)
(* popmsg, and the browser thread behind it.                               *)
(*                                                                         *)
(* The host calls the plugin on its main thread, one call at a time; only  *)
(* the thread runs beside it.  What the two do to each other inside the    *)
(* queues is MdnsSystem's subject: here the thread is what its caller      *)
(* needs to know of it, and a call on the queues is one step.              *)
(*                                                                         *)
(* The program goes on after it has touched freed memory as if the old     *)
(* contents were still there, until the end of that call; nothing is said  *)
(* of it afterwards.  NPP_Destroy deletes the object through a pointer to  *)
(* the NPObject inside it, which is undefined: the allocator may find the  *)
(* block all the same, and the program goes on, or anything happens.       *)
(***************************************************************************)
EXTENDS Integers, Startup

CONSTANTS MaxRefs,        \* references to the object that the page holds
          PageOutlives,   \* may the page keep some beyond NPP_Destroy?
          HostOwns        \* is the reference of createobject the host's?

ASSUME HostAssumption ==
    MaxRefs \in Nat /\ PageOutlives \in BOOLEAN /\ HostOwns \in BOOLEAN

\* InstanceData, NPBrowser, MDNSBrowser, CommChannel, its queues, their mutexes and
\* condition variables, and browserParams.
Blocks == {"pdata", "npo", "mb", "cc", "in", "out", "locks", "bp"}

VARIABLES mem,        \* what the pointer to each block points at
          refs,       \* references of the page
          calling,    \* is Invoke running, past the creation of the client?
          answer,     \* what the page was told last
          started,    \* initState of the client
          thread,     \* the browser thread
          sent,       \* how often exit & clean was pushed
          turn,       \* changes with every operation on the queues
          wild        \* blocks touched after they were freed, or freed amiss

vars == <<mem, refs, calling, answer, started, thread, sent, turn, wild>>

Init ==
    /\ mem = [b \in Blocks |-> "none"]
    /\ refs = 0
    /\ calling = FALSE
    /\ answer = "nothing"
    /\ started = FALSE
    /\ thread = "none"
    /\ sent = 0
    /\ turn = FALSE
    /\ wild = {}

Defined  == wild = {}
Touch(S) == wild' = wild \cup {b \in S : mem[b] = "freed"}
Idle     == Defined /\ ~ calling

Changed(S, to) == [b \in Blocks |-> IF b \in S THEN to ELSE mem[b]]

-----------------------------------------------------------------------------
(* The host.                                                               *)

\* NPP_New.
New ==
    /\ Idle /\ mem["pdata"] = "none"
    /\ mem' = Changed({"pdata"}, "live")
    /\ UNCHANGED <<refs, calling, answer, started, thread, sent, turn, wild>>

\* NPP_GetValue: the object is created once; it is not retained for the caller.
GetObject ==
    /\ Idle /\ mem["pdata"] = "live" /\ refs < MaxRefs
    /\ mem' = IF mem["npo"] = "none" THEN Changed({"npo"}, "live") ELSE mem
    /\ refs' = refs + 1
    /\ UNCHANGED <<calling, answer, started, thread, sent, turn, wild>>

-----------------------------------------------------------------------------
(* The page.                                                               *)

\* HasMethod, and Invoke with another name: only popmsg is known.
Ask ==
    /\ Idle /\ refs > 0
    /\ answer' \in {"yes", "no"}
    /\ Touch({"npo", "pdata"})
    /\ UNCHANGED <<mem, refs, calling, started, thread, sent, turn>>

\* MDNSBrowser::init without memory for the channel.
NoChannel == [ok |-> FALSE, cc |-> "none", in |-> "none", out |-> "none",
              bp |-> "none", locks |-> "none", thread |-> "none", twice |-> FALSE]

\* MDNSBrowser::init: its result, what browser_init left behind, and where cc points.
InitResults ==
    (IF "cc" \in Faults THEN {NoChannel} ELSE {})
    \cup
    { [ok |-> r.ok, cc |-> IF r.ok THEN "live" ELSE "freed", in |-> r.in,
       out |-> r.out, bp |-> r.bp, locks |-> r.locks,
       thread |-> r.thread, twice |-> r.twice] : r \in Outcomes }

\* The blocks after an init with the result r.
Opened(r) == [mem EXCEPT !["mb"] = "live", !["cc"] = r.cc, !["in"] = r.in,
                         !["out"] = r.out, !["bp"] = r.bp, !["locks"] = r.locks]

\* Invoke of the first popmsg: a client is created, and what its init returns is
\* not looked at.
InvokeFirst ==
    /\ Idle /\ refs > 0 /\ mem["mb"] = "none"
    /\ \E r \in InitResults :
          /\ started' = r.ok
          /\ thread' = r.thread
          /\ mem' = Opened(r)
          /\ wild' = {b \in {"npo", "pdata"} : mem[b] = "freed"}
                       \cup {b \in {"in", "out"} : r.twice}
    /\ calling' = TRUE
    /\ UNCHANGED <<refs, answer, sent, turn>>

InvokeAgain ==
    /\ Idle /\ refs > 0 /\ mem["mb"] # "none"
    /\ calling' = TRUE
    /\ Touch({"npo", "pdata"})
    /\ UNCHANGED <<mem, refs, answer, started, thread, sent, turn>>

\* Mutant of PopMsg: the channel is looked at before initState.
PopsChannelFirst ==
    /\ calling
    /\ calling' = FALSE
    /\ IF mem["cc"] # "none"
       THEN /\ answer' \in {"null"}
                 \cup (IF thread \in {"none", "starting"} THEN {} ELSE {"message"})
            /\ turn' = ~ turn
            /\ Touch({"npo", "mb", "cc", "out"})
       ELSE /\ answer' = "null"
            /\ UNCHANGED turn
            /\ Touch({"npo", "mb"})
    /\ UNCHANGED <<mem, refs, started, thread, sent>>

\* popMsg, and what Invoke makes of it: without initState a message of its own,
\* otherwise what queue_get_nb finds, NULL for an empty or a busy queue.
PopMsg ==
    /\ calling
    /\ calling' = FALSE
    /\ IF started
       THEN /\ answer' \in {"null"}
                 \cup (IF thread \in {"none", "starting"} THEN {} ELSE {"message"})
            /\ turn' = ~ turn
            /\ Touch({"npo", "mb", "cc", "out"})
       ELSE /\ answer' = "init_error"
            /\ UNCHANGED turn
            /\ Touch({"npo", "mb"})
    /\ UNCHANGED <<mem, refs, started, thread, sent>>

-----------------------------------------------------------------------------
(* The end of the object.                                                  *)

\* Mutant of Releases: release does not test cc.
ReleasesAnyway == mem["mb"] # "none"

\* Deallocate with a client calls release, which pushes exit & clean if it has a
\* channel; mb and cc are tested for NULL and never set to it.
Releases == mem["mb"] # "none" /\ mem["cc"] # "none"

\* Mutant of Deallocated: "to be used in place of delete".
ReleasedOnly == {"npo"}

\* What Deallocate and the delete behind it free.
Deallocated == {"npo"} \cup (IF mem["mb"] = "none" THEN {} ELSE {"mb"})

\* What they touch, and what they do besides.
Deallocating == Deallocated \cup (IF Releases THEN {"cc", "in"} ELSE {})

Release ==
    /\ sent' = IF Releases THEN sent + 1 ELSE sent
    /\ turn' = IF Releases THEN ~ turn ELSE turn

\* The page gives a reference back; the count is in the object.
Drop ==
    /\ Idle /\ refs > 0 /\ (refs > 1 \/ ~ HostOwns)
    /\ refs' = refs - 1
    /\ Touch({"npo"})
    /\ UNCHANGED <<mem, calling, answer, started, thread, sent, turn>>

\* _NPDeallocate, when createobject's reference was the host's and all are gone.
DropLast ==
    /\ Idle /\ HostOwns /\ refs = 1
    /\ refs' = 0
    /\ mem' = Changed(Deallocated, "freed")
    /\ Touch(Deallocating)
    /\ Release
    /\ UNCHANGED <<calling, answer, started, thread>>

\* `delete instanceData->npo' besides: npo points at the NPObject inside an NPBrowser, which
\* only the derived class gives a virtual destructor.  The block is found, or it is not.
TouchAndDelete(S) ==
    \E found \in BOOLEAN :
        wild' = wild \cup {b \in S : mem[b] = "freed"}
                     \cup (IF found THEN {} ELSE {"npo"})

\* Mutants of Destroy: the object is deleted without Deallocate; the channel is
\* freed on the spot.
DestroyDeletes ==
    /\ Idle /\ mem["pdata"] = "live" /\ (PageOutlives \/ refs = 0)
    /\ mem' = Changed({"pdata", "npo"}, "freed")
    /\ IF mem["npo"] = "none" THEN Touch({"pdata"}) ELSE TouchAndDelete({"pdata", "npo"})
    /\ UNCHANGED <<refs, calling, answer, started, thread, sent, turn>>

DestroyFrees ==
    /\ Idle /\ mem["pdata"] = "live" /\ (PageOutlives \/ refs = 0)
    /\ IF mem["npo"] = "none"
       THEN /\ mem' = Changed({"pdata"}, "freed")
            /\ Touch({"pdata"})
            /\ UNCHANGED <<sent, turn>>
       ELSE /\ mem' = Changed({"pdata"} \cup Deallocating, "freed")
            /\ TouchAndDelete({"pdata"} \cup Deallocating)
            /\ Release
    /\ UNCHANGED <<refs, calling, answer, started, thread>>

\* NPP_Destroy deallocates and deletes the object itself, referenced or not.
Destroy ==
    /\ Idle /\ mem["pdata"] = "live" /\ (PageOutlives \/ refs = 0)
    /\ IF mem["npo"] = "none"
       THEN /\ mem' = Changed({"pdata"}, "freed")
            /\ Touch({"pdata"})
            /\ UNCHANGED <<sent, turn>>
       ELSE /\ mem' = Changed({"pdata"} \cup Deallocated, "freed")
            /\ TouchAndDelete({"pdata"} \cup Deallocating)
            /\ Release
    /\ UNCHANGED <<refs, calling, answer, started, thread>>

-----------------------------------------------------------------------------
(* The browser thread.                                                     *)

\* The first event ends ST_START, and is lost when it is the release.
FirstEvent ==
    /\ Defined /\ thread = "starting"
    /\ thread' = IF sent > 0 THEN "deaf" ELSE "running"
    /\ Touch({"cc", "in"})
    /\ UNCHANGED <<mem, refs, calling, answer, started, sent, turn>>

\* Mutant of Clean: the thread does not end after ActionFinalCleanup.
CleansAgain ==
    /\ Defined /\ thread = "running" /\ sent > 0
    /\ mem' = Changed({"cc", "in", "out"}, "freed")
    /\ Touch({"cc", "in", "out"})
    /\ UNCHANGED <<refs, calling, answer, started, thread, sent, turn>>

\* The exit sequence, which ends with ActionFinalCleanup: the queues and the channel are
\* freed, their locks and the bp are not.
Clean ==
    /\ Defined /\ thread = "running" /\ sent > 0
    /\ thread' = "done"
    /\ mem' = Changed({"cc", "in", "out"}, "freed")
    /\ Touch({"cc", "in", "out"})
    /\ UNCHANGED <<refs, calling, answer, started, sent, turn>>

Host   == New \/ GetObject \/ DropLast \/ Destroy
Page   == Ask \/ InvokeFirst \/ InvokeAgain \/ PopMsg \/ Drop
Worker == FirstEvent \/ Clean

Next == Host \/ Page \/ Worker

Spec == Init /\ [][Next]_vars

-----------------------------------------------------------------------------
TypeOK ==
    /\ mem \in [Blocks -> {"none", "live", "freed"}]
    /\ refs \in 0 .. MaxRefs
    /\ calling \in BOOLEAN
    /\ answer \in {"nothing", "yes", "no", "null", "message", "init_error"}
    /\ started \in BOOLEAN
    /\ thread \in {"none", "starting", "running", "deaf", "done"}
    /\ sent \in Nat
    /\ turn \in BOOLEAN
    /\ wild \subseteq Blocks

\* A host that gives every reference back before NPP_Destroy, and takes the one of
\* createobject to be the plugin's.
Kept == ~ PageOutlives /\ ~ HostOwns

\* Where at most the channel or the thread cannot be had: no memory is misused before the
\* object has been deleted, and then first through the object, whatever the host does.  With
\* a host that gives its references back, the one thing amiss is the delete itself, in
\* NPP_Destroy: what it and the browser thread free besides, through pointers nobody
\* clears, is freed once and not touched again.
OnlyTheObject ==
    wild # {} => /\ mem["npo"] = "freed" /\ "npo" \in wild
                 /\ Kept => mem["pdata"] = "freed" /\ wild = {"npo"}

\* Whatever the host does and whatever fails: memory is first misused through the object,
\* after or by its deletion, or by a client whose init failed and whose cc still points at
\* what init freed, or through a queue that queue_create freed for want of a mutex.  The
\* browser thread, and a client that was started, never do so with the channel itself.
WildHasCause ==
    wild # {} => \/ mem["npo"] = "freed" /\ "npo" \in wild
                 \/ mem["cc"] = "freed" /\ ~ started
                 \/ "mutex" \in Faults /\ wild \subseteq {"in", "out"}

\* The plugin keeps to the note at the head of browser.cc: it uses the queues only
\* while its channel is up, and not after exit & clean (see ChannelClient).
Stage ==
    IF mem["mb"] = "none" THEN "new"
    ELSE IF sent > 0 THEN "closed"
    ELSE IF started THEN "up" ELSE "failed"

Client == INSTANCE ChannelClient WITH stage <- Stage

ClientSpec == Client!Spec

\* What ThreadLife sees of the thread behind the object.
Asked == IF thread = "none" \/ sent = 0 THEN "NULL" ELSE "BMSG_EXIT_CLEAN"

\* The block of the channel itself is the last of it to be freed.
Reclaimed == thread # "none" /\ mem["cc"] = "freed"

Life == INSTANCE ThreadLife
            WITH phase <- thread, asked <- Asked, reclaimed <- Reclaimed,
                 OtherCommands <- FALSE

\* Whatever host and fault, the thread that this module assumes lives the life that
\* MdnsSystem shows of the real one; and its channel is freed by its own clean-up alone,
\* never by the object under a thread that still serves.
LifeSpec == Life!Spec

\* No instance goes away and leaves its thread without exit & clean.
DestroyReleases ==
    Defined /\ mem["pdata"] = "freed" /\ thread # "none" => sent = 1

\* A page that is told that there is no message yet has a thread that may still
\* send one: the failure of init is never answered with NULL.
NullMeansAThread == answer = "null" => thread # "none"

\* When the instance is gone, and its thread or for want of one, this is what nobody frees any
\* more: nothing of an instance without a channel; of any other the bp, and the mutexes and
\* condition variables that queue_destroy lets go of; and where pthread_create failed, the whole
\* channel.
WhatIsLeft ==
    Defined /\ mem["pdata"] = "freed" /\ thread \in {"none", "done"} =>
        {b \in Blocks : mem[b] = "live"} =
            IF ~ started THEN {}
            ELSE IF thread = "done" THEN {"locks", "bp"}
            ELSE {"cc", "in", "out", "locks", "bp"}
=============================================================================
