-------------------------------- MODULE Deque --------------------------------
(***************************************************************************)
(* What a queue promises: a sequence of nodes that is extended at its end, *)
(* or at its head for messages of high priority, and taken from its head.  *)
(***************************************************************************)
EXTENDS Sequences

CONSTANTS Threads, Values

VARIABLES items,   \* the nodes queued, next one first
          got      \* what the last `get' of each thread returned

Init ==
    /\ items = <<>>
    /\ got = [t \in Threads |-> "NULL"]

PutTail(v) == items' = Append(items, v) /\ UNCHANGED got
PutHead(v) == items' = <<v>> \o items /\ UNCHANGED got

Get(t) ==
    /\ items # <<>>
    /\ got' = [got EXCEPT ![t] = Head(items)]
    /\ items' = Tail(items)

\* "NULL => No node OR BUSY"
GetNothing(t) == got' = [got EXCEPT ![t] = "NULL"] /\ UNCHANGED items

Next ==
    \/ \E v \in Values : PutTail(v) \/ PutHead(v)
    \/ \E t \in Threads : Get(t) \/ GetNothing(t)

Spec == Init /\ [][Next]_<<items, got>>
=============================================================================
