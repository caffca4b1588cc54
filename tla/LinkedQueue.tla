----------------------------- MODULE LinkedQueue -----------------------------
(***************************************************************************)
(* The linked list of queue.cc: the three functions that work on it with   *)
(* the mutex held, and what it means for the list to be in order.          *)
(***************************************************************************)
EXTENDS Integers, Sequences

CONSTANTS Cells,      \* the addresses malloc may return for a queue_node
          Values      \* the nodes clients queue

ASSUME CellAssumption == "NULL" \notin Cells \cup Values

VARIABLES heap,       \* the allocated queue_nodes: address -> [node, next]
          head, tail, num, total_in, total_out

listVars == <<heap, head, tail, num, total_in, total_out>>

\* queue_create.
ListInit ==
    /\ heap = [c \in {} |-> "NULL"]
    /\ head = "NULL" /\ tail = "NULL"
    /\ num = 0 /\ total_in = 0 /\ total_out = 0

Counted == total_in' = total_in + 1 /\ num' = num + 1 /\ UNCHANGED total_out

\* Mutant of PutSafe: tail is not moved to the new element.
PutForgetsTail(v) ==
    \E c \in Cells \ DOMAIN heap :
       /\ heap' = [d \in DOMAIN heap \cup {c} |->
                     IF d = c THEN [node |-> v, next |-> "NULL"]
                     ELSE IF d = tail THEN [heap[d] EXCEPT !.next = c]
                     ELSE heap[d]]
       /\ tail' = IF tail = "NULL" THEN c ELSE tail
       /\ head' = IF head = "NULL" THEN c ELSE head
       /\ Counted

\* queue_put_safe, when its malloc succeeds.
PutSafe(v) ==
    \E c \in Cells \ DOMAIN heap :
       /\ heap' = [d \in DOMAIN heap \cup {c} |->
                     IF d = c THEN [node |-> v, next |-> "NULL"]
                     ELSE IF d = tail THEN [heap[d] EXCEPT !.next = c]
                     ELSE heap[d]]
       /\ tail' = c
       /\ head' = IF head = "NULL" THEN c ELSE head
       /\ Counted

\* queue_put_head_safe, when its malloc succeeds.
PutHeadSafe(v) ==
    \E c \in Cells \ DOMAIN heap :
       /\ heap' = [d \in DOMAIN heap \cup {c} |->
                     IF d = c THEN [node |-> v, next |-> head] ELSE heap[d]]
       /\ head' = c
       /\ tail' = IF tail = "NULL" THEN c ELSE tail
       /\ Counted

\* __queue_get_safe.
GetSafe ==
    IF head = "NULL" THEN UNCHANGED listVars
    ELSE /\ head' = IF head = tail THEN "NULL" ELSE heap[head].next
         /\ tail' = IF head = tail THEN "NULL" ELSE tail
         /\ heap' = [d \in DOMAIN heap \ {head} |-> heap[d]]
         /\ total_out' = total_out + 1
         /\ num' = num - 1
         /\ UNCHANGED total_in

\* Mutant of GetNode: the node is read after head has moved on.
NodeOfNext ==
    IF head = "NULL" \/ head = tail THEN "NULL" ELSE heap[heap[head].next].node

\* What __queue_get_safe returns.
GetNode == IF head = "NULL" THEN "NULL" ELSE heap[head].node

-----------------------------------------------------------------------------
ListTypeOK ==
    /\ DOMAIN heap \subseteq Cells
    /\ heap \in [DOMAIN heap -> [node : Values, next : Cells \cup {"NULL"}]]
    /\ {head, tail} \subseteq DOMAIN heap \cup {"NULL"}
    /\ num \in Nat /\ total_in \in Nat /\ total_out \in Nat

\* s lists the allocated cells in the order of the links, from head to tail.
Chain(s) ==
    /\ \A c \in DOMAIN heap : \E i \in 1 .. num : s[i] = c
    /\ \A i, j \in 1 .. num : s[i] = s[j] => i = j
    /\ \A i \in 1 .. num : heap[s[i]].next = IF i = num THEN "NULL" ELSE s[i + 1]
    /\ head = IF num = 0 THEN "NULL" ELSE s[1]
    /\ tail = IF num = 0 THEN "NULL" ELSE s[num]

Listings == {s \in [1 .. num -> DOMAIN heap] : Chain(s)}

\* The list is in order: nothing allocated is off the list, tail is its end, and
\* the counters say how long it is, which is what the loop at the end of
\* __queue_get_safe counts.
ListOK == Listings # {} /\ num = total_in - total_out

\* The nodes queued, from head to tail.
Queued ==
    IF Listings = {} THEN <<>>
    ELSE [i \in 1 .. num |-> heap[(CHOOSE s \in Listings : TRUE)[i]].node]
=============================================================================
