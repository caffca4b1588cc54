------------------------------ MODULE ThreadLife ------------------------------
(***************************************************************************)
(* The life of a browser thread as its client must reckon with it, without *)
(* queues, bus or transition table: a request to leave that was read is    *)
(* not dropped, unless it is the first event the thread takes; a thread    *)
(* leaves only on request, and reclaims the channel exactly when "exit &   *)
(* clean" asked for it.  That a request is read at all is not said: after  *)
(* the loss of the bus the thread may never look for it.  MdnsSystem shows *)
(* how the thread comes to live this life, and PluginObject relies on it.  *)
(***************************************************************************)
CONSTANT OtherCommands      \* may the client send commands beside a request?

VARIABLES phase,     \* "none", "starting", "running", "deaf" or "done"
          asked,     \* the request that was queued, or "NULL"
          reclaimed  \* has the thread freed all of the channel?

Requests == {"BMSG_EXIT", "BMSG_EXIT_CLEAN"}

Init == phase = "none" /\ asked = "NULL" /\ reclaimed = FALSE

Create == phase = "none" /\ phase' = "starting" /\ UNCHANGED <<asked, reclaimed>>

Ask ==
    /\ phase \in {"starting", "running"} /\ asked = "NULL"
    /\ asked' \in Requests
    /\ UNCHANGED <<phase, reclaimed>>

\* The event that ends ST_START: some other event ...
Begin ==
    /\ phase = "starting" /\ (asked = "NULL" \/ OtherCommands)
    /\ phase' = "running"
    /\ UNCHANGED <<asked, reclaimed>>

\* ... or the request, for which the row of ST_START has no ear.
Lose ==
    /\ phase = "starting" /\ asked # "NULL"
    /\ phase' = "deaf"
    /\ UNCHANGED <<asked, reclaimed>>

Quit ==
    /\ phase = "running" /\ asked = "BMSG_EXIT"
    /\ phase' = "done"
    /\ UNCHANGED <<asked, reclaimed>>

Clean ==
    /\ phase = "running" /\ asked = "BMSG_EXIT_CLEAN"
    /\ phase' = "done" /\ reclaimed' = TRUE
    /\ UNCHANGED asked

Next == Create \/ Ask \/ Begin \/ Lose \/ Quit \/ Clean

Spec == Init /\ [][Next]_<<phase, asked, reclaimed>>
=============================================================================
