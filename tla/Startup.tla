------------------------------- MODULE Startup -------------------------------
(***************************************************************************)
(* browser_init and queue_create when something they call fails.           *)
(*                                                                         *)
(* A result is what a pointer is left pointing at: "none" is NULL, "live"  *)
(* a block in use, "freed" the address of a block that was freed.          *)
(***************************************************************************)
CONSTANT Faults     \* what may fail: any one call of these, at any time

QueueParts == {"cond", "mutex", "queue"}

ASSUME FaultAssumption ==
    Faults \subseteq QueueParts \cup {"cc", "bp", "thread"}

\* queue_create: with a queue and no mutex the queue is freed and returned.  Once there
\* is a condition variable, it and the mutex stay allocated on every path.
QueueCreate(failed) ==
    [q |-> CASE failed \cap {"cond", "queue"} # {} -> "none"
             [] failed = {"mutex"}                 -> "freed"
             [] OTHER                              -> "live",
     locks |-> IF "cond" \in failed THEN "none" ELSE "live"]

Queue == {QueueCreate(failed) : failed \in SUBSET (QueueParts \cap Faults)}

Failed == [ok |-> FALSE, in |-> "none", out |-> "none",
           bp |-> "none", locks |-> "none", thread |-> "none", twice |-> FALSE]

\* What browser_init leaves behind with these two queues: when one is NULL the other
\* is freed, which frees it a second time when queue_create did so already.
LeftBy(i, o, t) ==
    IF "none" \in {i.q, o.q}
    THEN [Failed EXCEPT !.bp = "live",
                        !.locks = IF "live" \in {i.locks, o.locks} THEN "live" ELSE "none",
                        !.twice = "freed" \in {i.q, o.q}]
    ELSE [ok |-> TRUE, in |-> i.q, out |-> o.q, bp |-> "live", locks |-> "live",
          thread |-> t, twice |-> FALSE]

ThreadLeft == {"starting"} \cup (IF "thread" \in Faults THEN {"none"} ELSE {})

\* Without a bp no queue is created.  The bp is freed on no path, nor are the locks:
\* the mutexes and condition variables of the queues.
Outcomes ==
    (IF "bp" \in Faults THEN {Failed} ELSE {})
    \cup {LeftBy(i, o, t) : i \in Queue, o \in Queue, t \in ThreadLeft}
=============================================================================
