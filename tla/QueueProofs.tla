----------------------------- MODULE QueueProofs -----------------------------
(***************************************************************************)
(* The linked list of queue.cc is in order after every call, for any       *)
(* number of threads and nodes, and implements Deque.                      *)
(***************************************************************************)
EXTENDS QueueCalls, TLAPS, WellFoundedInduction, SequenceTheorems

-----------------------------------------------------------------------------
(* Listings.                                                               *)

Less == {p \in Nat \X Nat : p[1] < p[2]}

\* A set of natural numbers has a least element.
LEMMA LeastElement ==
    ASSUME NEW D, D \subseteq Nat, D # {}
    PROVE  \E m \in D : \A k \in D : ~ (k < m)
<1>1. IsWellFoundedOn(Less, Nat)
  BY NatLessThanWellFounded, Zenon DEF OpToRel, Less
<1>2. \E m \in D : \A k \in D : ~ (<<k, m>> \in Less)
  BY <1>1, WFMin
<1> QED
  BY <1>2 DEF Less

\* Tail, element for element.
LEMMA TailIs ==
    ASSUME NEW S, NEW s \in Seq(S), s # <<>>
    PROVE  Tail(s) = [i \in 1 .. Len(s) - 1 |-> s[i + 1]]
<1>1. Tail(s) \in Seq(S) /\ Len(Tail(s)) = Len(s) - 1
  OBVIOUS
<1>2. Tail(s) \in [1 .. Len(s) - 1 -> S]
  BY <1>1, LenProperties
<1>3. \A i \in 1 .. Len(s) - 1 : Tail(s)[i] = s[i + 1]
  OBVIOUS
<1> QED
  BY <1>2, <1>3

\* Two listings of the same list agree: from head on, the links leave no choice.
LEMMA ListingUnique ==
    ListTypeOK => \A s, r \in Listings : s = r
<1> SUFFICES ASSUME ListTypeOK, NEW s \in Listings, NEW r \in Listings PROVE s = r
  OBVIOUS
<1> DEFINE D == {i \in 1 .. num : s[i] # r[i]}
<1>1. s \in [1 .. num -> DOMAIN heap] /\ r \in [1 .. num -> DOMAIN heap] /\ num \in Nat
  BY DEF Listings, ListTypeOK
<1>2. ASSUME NEW i \in 1 .. num PROVE (s[i] = head /\ r[i] = head) \/ i > 1
  BY <1>1 DEF Listings, Chain
<1>3. ASSUME NEW i \in 1 .. num, i > 1
      PROVE  s[i] = heap[s[i - 1]].next /\ r[i] = heap[r[i - 1]].next
  <2>1. i - 1 \in 1 .. num /\ i - 1 # num /\ (i - 1) + 1 = i
    BY <1>1, <1>3
  <2> QED
    BY <2>1 DEF Listings, Chain
<1>4. CASE D # {}
  <2>0. D \subseteq Nat
    BY <1>1
  <2>1. PICK m \in D : \A k \in D : ~ (k < m)
    <3> HIDE DEF D
    <3> QED
      BY <2>0, <1>4, LeastElement
  <2>2. m > 1
    BY <2>1, <1>2
  <2>3. m - 1 \in 1 .. num /\ m - 1 \notin D
    BY <2>1, <2>2, <1>1
  <2> QED
    BY <2>1, <2>2, <2>3, <1>3
<1>5. CASE D = {}
  BY <1>1, <1>5
<1> QED
  BY <1>4, <1>5

\* The nodes queued can be read off any listing.
LEMMA QueuedListing ==
    ListTypeOK => \A s \in Listings : Queued = [i \in 1 .. num |-> heap[s[i]].node]
<1> SUFFICES ASSUME ListTypeOK, NEW s \in Listings
             PROVE  Queued = [i \in 1 .. num |-> heap[s[i]].node]
  OBVIOUS
<1>1. (CHOOSE r \in Listings : TRUE) = s
  BY ListingUnique
<1> QED
  BY <1>1 DEF Queued

\* The same of the list after a step.
LEMMA QueuedListingNext ==
    (ListTypeOK => \A s \in Listings : Queued = [i \in 1 .. num |-> heap[s[i]].node])'
  BY QueuedListing, PTL

\* Queued is a sequence of nodes as long as num says.
LEMMA QueuedType ==
    ListTypeOK /\ Listings # {} =>
       Queued \in Seq(Values) /\ Len(Queued) = num /\ (num = 0 <=> head = "NULL")
<1> SUFFICES ASSUME ListTypeOK, Listings # {}
             PROVE  Queued \in Seq(Values) /\ Len(Queued) = num /\ (num = 0 <=> head = "NULL")
  OBVIOUS
<1>1. PICK s \in Listings : TRUE
  OBVIOUS
<1>2. s \in [1 .. num -> DOMAIN heap] /\ num \in Nat
  BY <1>1 DEF Listings, ListTypeOK
<1>3. Queued = [i \in 1 .. num |-> heap[s[i]].node]
  BY QueuedListing, <1>1
<1>4. \A i \in 1 .. num : heap[s[i]].node \in Values
  BY <1>2 DEF ListTypeOK
<1>5. num = 0 <=> head = "NULL"
  <2>1. CASE num = 0
    BY <2>1, <1>1 DEF Listings, Chain
  <2>2. CASE num # 0
    <3>1. 1 \in 1 .. num /\ head = s[1]
      BY <2>2, <1>1, <1>2 DEF Listings, Chain
    <3> QED
      BY <3>1, <2>2, <1>2, CellAssumption DEF ListTypeOK
  <2> QED
    BY <2>1, <2>2
<1> QED
  BY <1>2, <1>3, <1>4, <1>5

-----------------------------------------------------------------------------
(* The three functions that work on the list.                              *)

\* queue_put_safe puts the node behind all others.
LEMMA PutSafeEffect ==
    ASSUME ListTypeOK, ListOK, NEW v \in Values, PutSafe(v)
    PROVE  ListTypeOK' /\ ListOK' /\ Queued' = Append(Queued, v)
<1>1. PICK c \in Cells \ DOMAIN heap :
         /\ heap' = [d \in DOMAIN heap \cup {c} |->
                       IF d = c THEN [node |-> v, next |-> "NULL"]
                       ELSE IF d = tail THEN [heap[d] EXCEPT !.next = c]
                       ELSE heap[d]]
         /\ tail' = c
         /\ head' = IF head = "NULL" THEN c ELSE head
         /\ Counted
  BY DEF PutSafe
<1>2. PICK s \in Listings : TRUE
  BY DEF ListOK
<1>3. /\ s \in [1 .. num -> DOMAIN heap] /\ Chain(s) /\ num \in Nat
      /\ num' = num + 1 /\ num' \in Nat
      /\ DOMAIN heap' = DOMAIN heap \cup {c} /\ DOMAIN heap \subseteq Cells
  BY <1>1, <1>2 DEF Listings, ListTypeOK, Counted
<1>4. PICK r : r = [i \in 1 .. num + 1 |-> IF i = num + 1 THEN c ELSE s[i]]
  OBVIOUS
<1>5. ListTypeOK'
  BY <1>1, <1>3 DEF ListTypeOK, Counted
<1>6. r \in [1 .. num' -> DOMAIN heap']
  BY <1>3, <1>4
<1>7. Chain(r)'
  <2>1. \A d \in DOMAIN heap' : \E i \in 1 .. num' : r[i] = d
    BY <1>3, <1>4 DEF Chain
  <2>2. \A i, j \in 1 .. num' : r[i] = r[j] => i = j
    BY <1>3, <1>4 DEF Chain
  <2>3. ASSUME NEW i \in 1 .. num'
        PROVE  heap'[r[i]].next = IF i = num' THEN "NULL" ELSE r[i + 1]
    <3>1. CASE i = num + 1
      BY <3>1, <1>1, <1>3, <1>4
    <3>2. CASE i = num /\ i \in 1 .. num
      <4>1. r[i] = s[num] /\ r[i] = tail /\ r[i] # c /\ r[i] \in DOMAIN heap
            /\ r[i + 1] = c /\ i # num'
        BY <3>2, <1>3, <1>4 DEF Chain
      <4>2. heap'[r[i]] = [heap[r[i]] EXCEPT !.next = c]
        BY <4>1, <1>1
      <4>3. heap[r[i]] \in [node : Values, next : Cells \cup {"NULL"}]
        BY <4>1 DEF ListTypeOK
      <4> QED
        BY <4>1, <4>2, <4>3
    <3>3. CASE i \in 1 .. (num - 1)
      <4>1. i \in 1 .. num /\ num \in 1 .. num /\ i # num /\ i # num' /\ i + 1 \in 1 .. num
        BY <3>3, <1>3
      <4>2. r[i] = s[i] /\ r[i + 1] = s[i + 1] /\ s[i] # s[num] /\ tail = s[num]
        BY <4>1, <1>3, <1>4 DEF Chain
      <4>3. heap'[s[i]] = heap[s[i]]
        BY <4>1, <4>2, <1>1, <1>3
      <4> QED
        BY <4>1, <4>2, <4>3, <1>3 DEF Chain
    <3> QED
      BY <3>1, <3>2, <3>3, <1>3
  <2>4. head' = IF num' = 0 THEN "NULL" ELSE r[1]
    <3>1. CASE num = 0
      BY <3>1, <1>1, <1>3, <1>4 DEF Chain
    <3>2. CASE num # 0
      <4>1. 1 \in 1 .. num /\ head = s[1] /\ head # "NULL"
        BY <3>2, <1>3, CellAssumption DEF Chain
      <4> QED
        BY <4>1, <1>1, <1>3, <1>4
    <3> QED
      BY <3>1, <3>2
  <2>5. tail' = IF num' = 0 THEN "NULL" ELSE r[num']
    BY <1>1, <1>3, <1>4
  <2> QED
    BY <2>1, <2>2, <2>3, <2>4, <2>5 DEF Chain
<1>8. r \in Listings'
  BY <1>6, <1>7 DEF Listings
<1>9. ListOK'
  BY <1>1, <1>8 DEF ListOK, Counted, ListTypeOK
<1>10. Queued = [i \in 1 .. num |-> heap[s[i]].node] /\ Queued \in Seq(Values)
  BY <1>2, QueuedListing, QueuedType
<1>11. Queued' = [i \in 1 .. num' |-> heap'[r[i]].node]
  BY QueuedListingNext, <1>5, <1>8
<1>12. \A i \in 1 .. num' : heap'[r[i]].node = IF i = num' THEN v ELSE heap[s[i]].node
  <2>1. \A i \in 1 .. num : heap[s[i]] \in [node : Values, next : Cells \cup {"NULL"}]
    BY <1>3 DEF ListTypeOK
  <2> QED
    BY <2>1, <1>1, <1>3, <1>4
<1>13. Queued' = [i \in 1 .. num + 1 |-> IF i = num + 1 THEN v ELSE heap[s[i]].node]
  BY <1>11, <1>12, <1>3
<1> QED
  BY <1>5, <1>9, <1>10, <1>13, <1>3

\* queue_put_head_safe puts the node before all others.
LEMMA PutHeadSafeEffect ==
    ASSUME ListTypeOK, ListOK, NEW v \in Values, PutHeadSafe(v)
    PROVE  ListTypeOK' /\ ListOK' /\ Queued' = <<v>> \o Queued
<1>1. PICK c \in Cells \ DOMAIN heap :
         /\ heap' = [d \in DOMAIN heap \cup {c} |->
                       IF d = c THEN [node |-> v, next |-> head] ELSE heap[d]]
         /\ head' = c
         /\ tail' = IF tail = "NULL" THEN c ELSE tail
         /\ Counted
  BY DEF PutHeadSafe
<1>2. PICK s \in Listings : TRUE
  BY DEF ListOK
<1>3. /\ s \in [1 .. num -> DOMAIN heap] /\ Chain(s) /\ num \in Nat
      /\ num' = num + 1 /\ num' \in Nat
      /\ DOMAIN heap' = DOMAIN heap \cup {c} /\ DOMAIN heap \subseteq Cells
  BY <1>1, <1>2 DEF Listings, ListTypeOK, Counted
<1>4. PICK r : r = [i \in 1 .. num + 1 |-> IF i = 1 THEN c ELSE s[i - 1]]
  OBVIOUS
<1>5. ListTypeOK'
  BY <1>1, <1>3 DEF ListTypeOK, Counted
<1>6. /\ r \in [1 .. num' -> DOMAIN heap'] /\ r[1] = c
      /\ \A i \in 2 .. num' : r[i] = s[i - 1] /\ i - 1 \in 1 .. num
  BY <1>3, <1>4
<1>7. Chain(r)'
  <2>1. ASSUME NEW d \in DOMAIN heap' PROVE \E i \in 1 .. num' : r[i] = d
    <3>1. CASE d = c
      BY <3>1, <1>3, <1>6
    <3>2. CASE d \in DOMAIN heap
      <4>1. PICK j \in 1 .. num : s[j] = d
        BY <3>2, <1>3 DEF Chain
      <4>2. j + 1 \in 2 .. num' /\ j + 1 \in 1 .. num' /\ (j + 1) - 1 = j
        BY <1>3
      <4> QED
        BY <4>1, <4>2, <1>6
    <3> QED
      BY <3>1, <3>2, <1>3
  <2>2. \A i, j \in 1 .. num' : r[i] = r[j] => i = j
    BY <1>3, <1>4 DEF Chain
  <2>3. ASSUME NEW i \in 1 .. num'
        PROVE  heap'[r[i]].next = IF i = num' THEN "NULL" ELSE r[i + 1]
    <3>1. CASE i = 1
      <4>1. heap'[r[i]].next = head
        BY <3>1, <1>1, <1>3, <1>6
      <4>2. CASE num = 0
        BY <4>1, <4>2, <3>1, <1>3 DEF Chain
      <4>3. CASE num # 0
        <5>1. 2 \in 2 .. num' /\ 2 - 1 = 1 /\ i # num' /\ i + 1 = 2
          BY <4>3, <3>1, <1>3
        <5> QED
          BY <4>1, <4>3, <5>1, <1>3, <1>6 DEF Chain
      <4> QED
        BY <4>2, <4>3
    <3>2. CASE i # 1
      <4>1. PICK j \in 1 .. num : i = j + 1
        <5>1. i - 1 \in 1 .. num /\ i = (i - 1) + 1
          BY <3>2, <1>3
        <5> QED
          BY <5>1
      <4>2. r[i] = s[j] /\ s[j] \in DOMAIN heap /\ heap'[s[j]] = heap[s[j]]
        <5>1. i \in 2 .. num' /\ i - 1 = j
          BY <4>1, <1>3
        <5> QED
          BY <5>1, <1>1, <1>3, <1>6
      <4>3. heap[s[j]].next = IF j = num THEN "NULL" ELSE s[j + 1]
        BY <1>3 DEF Chain
      <4>4. j = num <=> i = num'
        BY <4>1, <1>3
      <4>5. j # num => r[i + 1] = s[j + 1]
        <5>1. j # num => i + 1 \in 2 .. num' /\ (i + 1) - 1 = j + 1
          BY <4>1, <1>3
        <5> QED
          BY <5>1, <1>6
      <4> QED
        BY <4>2, <4>3, <4>4, <4>5
    <3> QED
      BY <3>1, <3>2
  <2>4. head' = IF num' = 0 THEN "NULL" ELSE r[1]
    BY <1>1, <1>3, <1>6
  <2>5. tail' = IF num' = 0 THEN "NULL" ELSE r[num']
    <3>1. CASE num = 0
      BY <3>1, <1>1, <1>3, <1>6 DEF Chain
    <3>2. CASE num # 0
      <4>1. num' \in 2 .. num' /\ num' - 1 = num /\ num \in 1 .. num
        BY <3>2, <1>3
      <4>2. r[num'] = s[num] /\ tail = s[num] /\ tail # "NULL"
        BY <4>1, <3>2, <1>3, <1>6, CellAssumption DEF Chain
      <4> QED
        BY <4>2, <3>2, <1>1, <1>3
    <3> QED
      BY <3>1, <3>2
  <2> QED
    BY <2>1, <2>2, <2>3, <2>4, <2>5 DEF Chain
<1>8. r \in Listings'
  BY <1>6, <1>7 DEF Listings
<1>9. ListOK'
  BY <1>1, <1>8 DEF ListOK, Counted, ListTypeOK
<1>10. /\ Queued = [i \in 1 .. num |-> heap[s[i]].node]
       /\ Queued \in Seq(Values) /\ Len(Queued) = num
  BY <1>2, QueuedListing, QueuedType
<1>11. Queued' = [i \in 1 .. num' |-> heap'[r[i]].node]
  BY QueuedListingNext, <1>5, <1>8
<1>12. \A i \in 1 .. num' : heap'[r[i]].node = IF i = 1 THEN v ELSE Queued[i - 1]
  BY <1>1, <1>3, <1>4, <1>10
<1>13. <<v>> \o Queued = [i \in 1 .. num + 1 |-> IF i = 1 THEN v ELSE Queued[i - 1]]
  BY <1>10, <1>3
<1> QED
  BY <1>5, <1>9, <1>11, <1>12, <1>13, <1>3

\* __queue_get_safe takes the first node, if there is one.
LEMMA GetSafeEffect ==
    ASSUME ListTypeOK, ListOK, GetSafe
    PROVE  /\ ListTypeOK' /\ ListOK'
           /\ IF Queued = <<>> THEN GetNode = "NULL" /\ Queued' = Queued
              ELSE GetNode = Head(Queued) /\ Queued' = Tail(Queued)
<1>1. PICK s \in Listings : TRUE
  BY DEF ListOK
<1>2. s \in [1 .. num -> DOMAIN heap] /\ Chain(s) /\ num \in Nat
  BY <1>1 DEF Listings, ListTypeOK
<1>3. /\ Queued = [i \in 1 .. num |-> heap[s[i]].node]
      /\ Queued \in Seq(Values) /\ Len(Queued) = num /\ (num = 0 <=> head = "NULL")
  BY <1>1, QueuedListing, QueuedType
<1>4. CASE head = "NULL"
  <2>1. UNCHANGED listVars /\ Queued = <<>> /\ GetNode = "NULL"
    BY <1>3, <1>4 DEF GetSafe, GetNode
  <2>2. ListTypeOK' /\ s \in Listings' /\ num' = total_in' - total_out'
    BY <2>1, <1>1 DEF listVars, ListTypeOK, ListOK, Listings, Chain
  <2>3. Queued' = [i \in 1 .. num' |-> heap'[s[i]].node]
    BY <2>2, QueuedListingNext
  <2> QED
    BY <2>1, <2>2, <2>3, <1>3 DEF listVars, ListOK
<1>5. CASE head # "NULL"
  <2>1. /\ head' = IF head = tail THEN "NULL" ELSE heap[head].next
        /\ tail' = IF head = tail THEN "NULL" ELSE tail
        /\ heap' = [d \in DOMAIN heap \ {head} |-> heap[d]]
        /\ total_out' = total_out + 1 /\ num' = num - 1 /\ total_in' = total_in
    BY <1>5 DEF GetSafe
  <2>2. /\ num \in Nat \ {0} /\ num' \in Nat /\ 1 \in 1 .. num /\ num \in 1 .. num
        /\ head = s[1] /\ tail = s[num] /\ DOMAIN heap' = DOMAIN heap \ {s[1]}
        /\ (head = tail <=> num = 1)
    BY <1>2, <1>3, <1>5, <2>1 DEF Chain
  <2>3. PICK r : r = [i \in 1 .. num - 1 |-> s[i + 1]]
    OBVIOUS
  <2>4. ASSUME NEW i \in 1 .. num'
        PROVE  /\ i + 1 \in 1 .. num /\ i \in 1 .. num /\ r[i] = s[i + 1]
               /\ r[i] # s[1] /\ r[i] \in DOMAIN heap' /\ heap'[r[i]] = heap[s[i + 1]]
    <3>1. i + 1 \in 1 .. num /\ i \in 1 .. num /\ i + 1 # 1 /\ i \in 1 .. num - 1
      BY <2>1, <2>2
    <3>2. r[i] = s[i + 1] /\ r[i] # s[1]
      BY <3>1, <2>2, <2>3, <1>2 DEF Chain
    <3> QED
      BY <3>1, <3>2, <2>1, <2>2, <1>2
  <2>5. head' = IF num' = 0 THEN "NULL" ELSE r[1]
    <3>1. CASE num = 1
      BY <3>1, <2>1, <2>2
    <3>2. CASE num # 1
      <4>1. 1 \in 1 .. num' /\ 1 + 1 = 2 /\ 1 # num
        BY <3>2, <2>1, <2>2
      <4>2. heap[s[1]].next = s[2]
        BY <4>1, <2>2, <1>2 DEF Chain
      <4> QED
        BY <4>1, <4>2, <3>2, <2>1, <2>2, <2>4
    <3> QED
      BY <3>1, <3>2
  <2>6. tail' = IF num' = 0 THEN "NULL" ELSE r[num']
    <3>1. CASE num = 1
      BY <3>1, <2>1, <2>2
    <3>2. CASE num # 1
      <4>1. num' \in 1 .. num' /\ num' + 1 = num /\ num' # 0
        BY <3>2, <2>1, <2>2
      <4> QED
        BY <4>1, <3>2, <2>1, <2>2, <2>4
    <3> QED
      BY <3>1, <3>2
  <2>7. ListTypeOK'
    <3>1. heap' \in [DOMAIN heap' -> [node : Values, next : Cells \cup {"NULL"}]]
      BY <2>1, <2>2 DEF ListTypeOK
    <3>2. head' \in DOMAIN heap' \cup {"NULL"} /\ tail' \in DOMAIN heap' \cup {"NULL"}
      <4>1. num' # 0 => 1 \in 1 .. num' /\ num' \in 1 .. num'
        BY <2>2
      <4> QED
        BY <4>1, <2>4, <2>5, <2>6
    <3> QED
      BY <3>1, <3>2, <2>1, <2>2 DEF ListTypeOK
  <2>8. r \in Listings'
    <3>1. r \in [1 .. num' -> DOMAIN heap']
      BY <2>1, <2>3, <2>4
    <3>2. ASSUME NEW d \in DOMAIN heap' PROVE \E i \in 1 .. num' : r[i] = d
      <4>1. PICK j \in 1 .. num : s[j] = d
        BY <2>2, <1>2 DEF Chain
      <4>2. j # 1
        BY <4>1, <2>2
      <4>3. j - 1 \in 1 .. num' /\ (j - 1) + 1 = j
        BY <4>2, <2>1, <2>2
      <4> QED
        BY <4>1, <4>3, <2>4
    <3>3. \A i, j \in 1 .. num' : r[i] = r[j] => i = j
      <4> SUFFICES ASSUME NEW i \in 1 .. num', NEW j \in 1 .. num', r[i] = r[j] PROVE i = j
        OBVIOUS
      <4>1. s[i + 1] = s[j + 1] /\ i + 1 \in 1 .. num /\ j + 1 \in 1 .. num
        BY <2>4
      <4>2. i + 1 = j + 1
        BY <4>1, <1>2 DEF Chain
      <4> QED
        BY <4>2, <2>2
    <3>4. ASSUME NEW i \in 1 .. num'
          PROVE  heap'[r[i]].next = IF i = num' THEN "NULL" ELSE r[i + 1]
      <4>1. heap[s[i + 1]].next = IF i + 1 = num THEN "NULL" ELSE s[(i + 1) + 1]
        BY <2>4, <1>2 DEF Chain
      <4>2. i + 1 = num <=> i = num'
        BY <2>1, <2>2
      <4>3. i # num' => r[i + 1] = s[(i + 1) + 1]
        <5>1. i # num' => i + 1 \in 1 .. num'
          BY <2>2
        <5> QED
          BY <5>1, <2>4
      <4> QED
        BY <4>1, <4>2, <4>3, <2>4
    <3>5. Chain(r)'
      BY <3>2, <3>3, <3>4, <2>5, <2>6 DEF Chain
    <3> QED
      BY <3>1, <3>5 DEF Listings
  <2>9. ListOK'
    BY <2>1, <2>2, <2>8 DEF ListOK, ListTypeOK
  <2>10. Queued' = [i \in 1 .. num' |-> heap'[r[i]].node]
    BY QueuedListingNext, <2>7, <2>8
  <2>11. \A i \in 1 .. num' : heap'[r[i]].node = Queued[i + 1]
    BY <2>4, <1>3
  <2>12. Queued # <<>> /\ GetNode = Head(Queued)
    BY <1>3, <1>5, <2>2 DEF GetNode
  <2>13. Tail(Queued) = [i \in 1 .. num - 1 |-> Queued[i + 1]]
    BY <1>3, <2>12, <2>2, TailIs
  <2> QED
    BY <2>1, <2>7, <2>9, <2>10, <2>11, <2>12, <2>13
<1> QED
  BY <1>4, <1>5

\* A step that leaves the list alone leaves it in order.
LEMMA ListSame ==
    ASSUME ListTypeOK, ListOK, UNCHANGED listVars
    PROVE  ListTypeOK' /\ ListOK' /\ Queued' = Queued
<1>1. PICK s \in Listings : TRUE
  BY DEF ListOK
<1>2. ListTypeOK' /\ s \in Listings' /\ num' = total_in' - total_out'
  BY <1>1 DEF listVars, ListTypeOK, ListOK, Listings, Chain
<1>3. Queued' = [i \in 1 .. num' |-> heap'[s[i]].node]
  BY <1>2, QueuedListingNext
<1> QED
  BY <1>1, <1>2, <1>3, QueuedListing DEF listVars, ListOK

-----------------------------------------------------------------------------
(* The calls.                                                              *)

CallType ==
    /\ call \in [Threads -> [at : Places, op : Calls \cup {"none"},
                             arg : Values \cup {"NULL"}]]
    /\ \A t \in Threads : call[t].op \in Puts => call[t].arg \in Values

\* Moving a call on, ending it and waking a sleeper keep the types of the calls.
LEMMA CallMoves ==
    ASSUME CallType, NEW t \in Threads, NEW p \in Places,
           GoTo(t, p) \/ Return(t) \/ SignalAndReturn(t)
    PROVE  CallType'
<1>1. CASE GoTo(t, p)
  BY <1>1 DEF GoTo, CallType
<1>2. CASE Return(t)
  BY <1>2 DEF Return, CallType, Idle, Places, Puts, TailPuts, HeadPuts
<1>3. CASE SignalAndReturn(t)
  <2>1. PICK w \in Threads : call' = [call EXCEPT ![w].at = "woken", ![t] = Idle]
    BY <1>3 DEF SignalAndReturn, Sleepers
  <2>2. \A u \in Threads : call'[u] = IF u = t THEN Idle
                                      ELSE IF u = w THEN [call[u] EXCEPT !.at = "woken"]
                                      ELSE call[u]
    BY <2>1 DEF CallType
  <2>3. DOMAIN call' = Threads
    BY <2>1 DEF CallType
  <2>4. \A u \in Threads :
           /\ call[u] \in [at : Places, op : Calls \cup {"none"}, arg : Values \cup {"NULL"}]
           /\ call[u].op \in Puts => call[u].arg \in Values
    BY DEF CallType
  <2>i. /\ Idle \in [at : Places, op : Calls \cup {"none"}, arg : Values \cup {"NULL"}]
        /\ Idle.op \notin Puts
    BY DEF Idle, Places, Puts, TailPuts, HeadPuts
  <2>5. \A u \in Threads :
           /\ call'[u] \in [at : Places, op : Calls \cup {"none"}, arg : Values \cup {"NULL"}]
           /\ call'[u].op \in Puts => call'[u].arg \in Values
    <3> SUFFICES ASSUME NEW u \in Threads
                 PROVE  /\ call'[u] \in [at : Places, op : Calls \cup {"none"},
                                         arg : Values \cup {"NULL"}]
                        /\ call'[u].op \in Puts => call'[u].arg \in Values
      OBVIOUS
    <3>1. CASE u = t
      BY <2>2, <2>i, <3>1
    <3>2. CASE u # t /\ u = w
      <4>1. call'[u] = [call[u] EXCEPT !.at = "woken"]
        BY <2>2, <3>2
      <4>2. /\ call[u] \in [at : Places, op : Calls \cup {"none"}, arg : Values \cup {"NULL"}]
            /\ call[u].op \in Puts => call[u].arg \in Values
        BY <2>4
      <4>3. "woken" \in Places
        BY DEF Places
      <4> QED
        BY <4>1, <4>2, <4>3
    <3>3. CASE u # t /\ u # w
      BY <2>2, <2>4, <3>3
    <3> QED
      BY <3>1, <3>2, <3>3
  <2> QED
    BY <2>1, <2>3, <2>5 DEF CallType
<1> QED
  BY <1>1, <1>2, <1>3

\* What a call of thread t does to the rest of the state, and what Deque sees.
Kept(t) ==
    /\ CallType'
    /\ mutex' \in Threads \cup {"none"}
    /\ ListTypeOK' /\ ListOK'
    /\ got' \in [Threads -> Values \cup {"NULL"}]
    /\ [Abstract!Next]_<<Queued, got>>

\* A step that leaves the list and the results alone.
LEMMA Aside ==
    ASSUME TypeOK, ListOK, NEW t \in Threads, UNCHANGED <<listVars, got>>,
           CallType', mutex' \in Threads \cup {"none"}
    PROVE  Kept(t)
  BY ListSame DEF TypeOK, Kept, listVars

\* The calls that put.
LEMMA PutStep ==
    ASSUME TypeOK, ListOK, NEW t \in Threads, Put(t)
    PROVE  Kept(t)
<1>1. CallType /\ call[t].arg \in Values /\ mutex' = "none" /\ got' = got
  BY DEF TypeOK, CallType, Put, Release
<1>2. CASE call[t].op \in TailPuts /\ PutSafe(call[t].arg) /\ SignalAndReturn(t)
  <2>1. ListTypeOK' /\ ListOK' /\ Queued' = Append(Queued, call[t].arg)
    BY <1>1, <1>2, PutSafeEffect DEF TypeOK
  <2>2. CallType'
    BY <1>1, <1>2, CallMoves DEF Places
  <2> QED
    BY <1>1, <2>1, <2>2 DEF Kept, TypeOK, Abstract!Next, Abstract!PutTail
<1>3. CASE call[t].op \in HeadPuts /\ PutHeadSafe(call[t].arg) /\ SignalAndReturn(t)
  <2>1. ListTypeOK' /\ ListOK' /\ Queued' = <<call[t].arg>> \o Queued
    BY <1>1, <1>3, PutHeadSafeEffect DEF TypeOK
  <2>2. CallType'
    BY <1>1, <1>3, CallMoves DEF Places
  <2> QED
    BY <1>1, <2>1, <2>2 DEF Kept, TypeOK, Abstract!Next, Abstract!PutHead
<1>4. CASE UNCHANGED listVars /\ Return(t)
  BY <1>1, <1>4, CallMoves, Aside DEF Places
<1> QED
  BY <1>2, <1>3, <1>4 DEF Put

\* The calls that get.
LEMMA GetStep ==
    ASSUME TypeOK, ListOK, NEW t \in Threads, Get(t)
    PROVE  Kept(t)
<1>1. CallType' /\ mutex' = "none"
  BY CallMoves DEF TypeOK, CallType, Get, Release, Places
<1>2. /\ ListTypeOK' /\ ListOK'
      /\ IF Queued = <<>> THEN GetNode = "NULL" /\ Queued' = Queued
         ELSE GetNode = Head(Queued) /\ Queued' = Tail(Queued)
  BY GetSafeEffect DEF TypeOK, Get
<1>3. Queued \in Seq(Values) /\ got' = [got EXCEPT ![t] = GetNode]
  BY QueuedType DEF TypeOK, ListOK, Get
<1>4. GetNode \in Values \cup {"NULL"}
  BY <1>2, <1>3
<1>5. got' \in [Threads -> Values \cup {"NULL"}]
  BY <1>3, <1>4 DEF TypeOK
<1>6. Abstract!Get(t) \/ Abstract!GetNothing(t)
  BY <1>2, <1>3 DEF Abstract!Get, Abstract!GetNothing
<1> QED
  BY <1>1, <1>2, <1>5, <1>6 DEF Kept, Abstract!Next

\* A call begins.
LEMMA BeginStep ==
    ASSUME TypeOK, ListOK, NEW t \in Threads, CallPut(t) \/ CallOther(t)
    PROVE  Kept(t)
<1>1. PICK op \in Operations, arg \in Values \cup {"NULL"} :
         Begin(t, op, arg) /\ (op \in Puts => arg \in Values)
  BY DEF CallPut, CallOther
<1>2. CallType'
  BY <1>1, QueueAssumption DEF Begin, TypeOK, CallType, Places
<1> QED
  BY <1>1, <1>2, Aside DEF Begin, TypeOK

\* Finding the mutex taken: the get that does not block returns NULL.
LEMMA BusyStep ==
    ASSUME TypeOK, ListOK, NEW t \in Threads, TryBusy(t)
    PROVE  Kept(t)
<1>1. CallType'
  BY CallMoves DEF TypeOK, CallType, TryBusy, Places
<1>2. ListTypeOK' /\ ListOK' /\ Queued' = Queued
  BY ListSame DEF TypeOK, TryBusy
<1>3. got' = got \/ got' = [got EXCEPT ![t] = "NULL"]
  BY DEF TryBusy
<1>4. UNCHANGED <<Queued, got>> \/ Abstract!GetNothing(t)
  BY <1>2, <1>3 DEF Abstract!GetNothing
<1> QED
  BY <1>1, <1>2, <1>3, <1>4 DEF Kept, Abstract!Next, TypeOK, TryBusy

\* The steps that only take or release the mutex and move the call on.
LEMMA MoveStep ==
    ASSUME TypeOK, ListOK, NEW t \in Threads,
           \/ TryOk(t) \/ Lock(t) \/ Peek(t) \/ Signal(t) \/ Sleep(t) \/ Refused(t)
           \/ Timeout(t) \/ Relock(t) \/ Awake(t) \/ Spurious(t)
    PROVE  Kept(t)
<1>1. UNCHANGED <<listVars, got>> /\ mutex' \in Threads \cup {"none"}
  BY DEF TypeOK, TryOk, Lock, Peek, Signal, Sleep, Refused, Timeout, Relock, Awake,
         Spurious, Hold, Release
<1>2. \/ Return(t) \/ SignalAndReturn(t)
      \/ \E p \in Places : GoTo(t, p)
  BY DEF TryOk, Lock, Peek, Signal, Sleep, Refused, Timeout, Relock, Awake, Spurious,
         Places
<1>3. CallType'
  BY <1>2, CallMoves DEF TypeOK, CallType, Places
<1> QED
  BY <1>1, <1>3, Aside

\* The types, and the list in order, are kept by every step, and every step is one
\* of Deque or changes nothing Deque can see.
LEMMA QueueStep ==
    ASSUME TypeOK, ListOK, [Next]_vars
    PROVE  TypeOK' /\ ListOK' /\ [Abstract!Next]_<<Queued, got>>
<1>1. CASE UNCHANGED vars
  <2>1. ListTypeOK' /\ ListOK' /\ Queued' = Queued
    BY <1>1, ListSame DEF vars, TypeOK
  <2> QED
    BY <1>1, <2>1 DEF vars, TypeOK
<1>2. ASSUME NEW t \in Threads, CallPut(t) \/ CallOther(t) \/ Run(t) \/ Spurious(t)
      PROVE  Kept(t)
  BY <1>2, BeginStep, BusyStep, PutStep, GetStep, MoveStep DEF Run
<1>3. CASE Next
  <2>1. PICK t \in Threads : Kept(t)
    BY <1>2, <1>3 DEF Next
  <2> QED
    BY <2>1 DEF Kept, CallType, TypeOK
<1> QED
  BY <1>1, <1>3

\* The queue starts empty and in order.
LEMMA QueueStart ==
    ASSUME Init
    PROVE  TypeOK /\ ListOK /\ Abstract!Init
<1>1. ListTypeOK
  BY DEF Init, ListInit, ListTypeOK
<1>2. PICK s \in [1 .. 0 -> {}] : TRUE
  <2>1. [i \in 1 .. 0 |-> "NULL"] \in [1 .. 0 -> {}]
    OBVIOUS
  <2> QED
    BY <2>1
<1>3. s \in Listings
  BY <1>2 DEF Init, ListInit, Listings, Chain
<1>4. Queued \in Seq(Values) /\ Len(Queued) = 0
  BY <1>1, <1>3, QueuedType DEF Init, ListInit
<1>5. ListOK /\ Queued = <<>>
  BY <1>3, <1>4 DEF ListOK, Init, ListInit
<1> QED
  BY <1>1, <1>5 DEF Init, TypeOK, Idle, Places, Puts, TailPuts, HeadPuts, Abstract!Init

-----------------------------------------------------------------------------
(* The mutex.                                                              *)

Critical == {"in", "wait", "awake"}

\* A call that moves on, returns or signals changes its own place, and that of another
\* thread only when it wakes a sleeper.
LEMMA OtherPlaces ==
    ASSUME TypeOK, NEW t \in Threads, NEW p \in Places,
           GoTo(t, p) \/ Return(t) \/ SignalAndReturn(t)
    PROVE  /\ GoTo(t, p) => call'[t].at = p
           /\ ~ GoTo(t, p) => call'[t].at = "idle"
           /\ \A u \in Threads \ {t} :
                 call'[u].at \in Critical <=> call[u].at \in Critical
<1>1. call \in [Threads -> [at : Places, op : Calls \cup {"none"},
                            arg : Values \cup {"NULL"}]]
  BY DEF TypeOK
<1>2. CASE GoTo(t, p)
  BY <1>1, <1>2 DEF GoTo
<1>3. CASE Return(t)
  BY <1>1, <1>3 DEF GoTo, Return, Idle
<1>4. CASE SignalAndReturn(t)
  <2>1. PICK w \in {t} \cup Sleepers : call' = [call EXCEPT ![w].at = "woken", ![t] = Idle]
    BY <1>4 DEF SignalAndReturn
  <2>2. call'[t].at = "idle"
    BY <1>1, <2>1 DEF Idle
  <2>3. \A u \in Threads \ {t} :
           call'[u].at = call[u].at \/ (call[u].at = "asleep" /\ call'[u].at = "woken")
    BY <1>1, <2>1 DEF Sleepers, At
  <2>4. GoTo(t, p) => call'[t].at = p
    BY <1>1 DEF GoTo
  <2> QED
    BY <2>2, <2>3, <2>4 DEF Critical
<1> QED
  BY <1>2, <1>3, <1>4

\* A step of a call, as the mutex sees it: the call enters the part of its function that
\* needs the mutex with it, leaves that part without it, or stays on its side.
Guarded(t) ==
    /\ \A u \in Threads \ {t} : call'[u].at \in Critical <=> call[u].at \in Critical
    /\ \/ call'[t].at \in Critical /\ mutex = "none" /\ mutex' = t
       \/ call[t].at \in Critical /\ call'[t].at \notin Critical /\ mutex' = "none"
       \/ call[t].at \notin Critical /\ call'[t].at \notin Critical /\ mutex' = mutex

\* Every step of every function is guarded.
LEMMA StepsGuarded ==
    ASSUME TypeOK, NEW t \in Threads,
           CallPut(t) \/ CallOther(t) \/ Run(t) \/ Spurious(t)
    PROVE  Guarded(t)
<1>1. ASSUME NEW op \in Operations, NEW arg \in Values \cup {"NULL"}, Begin(t, op, arg)
      PROVE  Guarded(t)
  BY <1>1 DEF Begin, TypeOK, Guarded, Critical, Idle
<1>2. CASE TryOk(t) \/ Lock(t) \/ Relock(t)
  BY <1>2, OtherPlaces DEF TryOk, Lock, Relock, Hold, Guarded, Critical, Places
<1>3. CASE TryBusy(t)
  <2>1. call[t].at = "try" /\ mutex' = mutex
    BY <1>3 DEF TryBusy, At
  <2>2. GoTo(t, "lock") \/ Return(t)
    BY <1>3 DEF TryBusy
  <2>3. call'[t].at \in {"lock", "idle"}
    BY <2>2, OtherPlaces DEF Places
  <2>4. \A u \in Threads \ {t} : call'[u].at \in Critical <=> call[u].at \in Critical
    BY <2>2, OtherPlaces DEF Places
  <2> QED
    BY <2>1, <2>3, <2>4 DEF Guarded, Critical
<1>4. CASE Put(t) \/ Get(t) \/ Peek(t) \/ Signal(t) \/ Refused(t)
  <2>1. call[t].at \in Critical /\ mutex' = "none"
    BY <1>4 DEF Put, Get, Peek, Signal, Refused, At, Release, Critical
  <2>2. Return(t) \/ SignalAndReturn(t)
    BY <1>4 DEF Put, Get, Peek, Signal, Refused
  <2>3. call'[t].at \in {"idle", "asleep"}
    BY <2>2, OtherPlaces DEF Places
  <2>4. \A u \in Threads \ {t} : call'[u].at \in Critical <=> call[u].at \in Critical
    BY <2>2, OtherPlaces DEF Places
  <2> QED
    BY <2>1, <2>3, <2>4 DEF Guarded, Critical
<1>5. CASE Sleep(t) \/ Awake(t)
  <2>1. call[t].at \in Critical /\ mutex' = "none"
    BY <1>5 DEF Sleep, Awake, At, Release, Critical
  <2>2. GoTo(t, "asleep") \/ GoTo(t, "try") \/ Return(t)
    BY <1>5 DEF Sleep, Awake
  <2>3. call'[t].at \in {"idle", "asleep", "try"}
    BY <2>2, OtherPlaces DEF Places
  <2>4. \A u \in Threads \ {t} : call'[u].at \in Critical <=> call[u].at \in Critical
    BY <2>2, OtherPlaces DEF Places
  <2> QED
    BY <2>1, <2>3, <2>4 DEF Guarded, Critical
<1>6. CASE Timeout(t) \/ Spurious(t)
  BY <1>6, OtherPlaces DEF Timeout, Spurious, At, Guarded, Critical, Places
<1> QED
  BY <1>1, <1>2, <1>3, <1>4, <1>5, <1>6 DEF CallPut, CallOther, Run

-----------------------------------------------------------------------------
(* The theorems.                                                           *)

\* After any calls of any threads the list is in order: no queue_node is off the
\* list, tail is its last element, the counters say how long it is.
THEOREM ListInOrder == Spec => [](TypeOK /\ ListOK)
  BY QueueStart, QueueStep, PTL DEF Spec

\* The variables of the queue keep their types, for every number of threads.
THEOREM QueueTypesHold == Spec => []TypeOK
<1>1. TypeOK /\ ListOK => TypeOK
  OBVIOUS
<1> QED
  BY <1>1, ListInOrder, PTL

\* The mutex is held by the thread whose call is between its lock and its unlock, and by
\* nobody when there is none, for every number of threads and every mix of functions.
THEOREM MutexHeldExactly == Spec => []MutexExact
<1>1. Init => MutexExact
  BY QueueAssumption DEF Init, MutexExact, Idle
<1>2. TypeOK /\ MutexExact /\ [Next]_vars => MutexExact'
  <2> SUFFICES ASSUME TypeOK, MutexExact, [Next]_vars PROVE MutexExact'
    OBVIOUS
  <2>1. CASE UNCHANGED vars
    BY <2>1 DEF vars, MutexExact
  <2>2. CASE Next
    <3>1. PICK t \in Threads : Guarded(t)
      BY <2>2, StepsGuarded DEF Next
    <3> QED
      BY <3>1, QueueAssumption DEF MutexExact, Guarded, Critical
  <2> QED
    BY <2>1, <2>2
<1> QED
  BY <1>1, <1>2, QueueTypesHold, PTL DEF Spec

\* The list with its mutex and condition variable implements Deque: nothing is
\* lost, duplicated or reordered by any mix of calls.
THEOREM QueueImplementsDeque == Spec => DequeSpec
<1>1. Spec => [](TypeOK /\ ListOK)
  BY ListInOrder
<1>2. Init => Abstract!Init
  BY QueueStart
<1>3. TypeOK /\ ListOK /\ [Next]_vars => [Abstract!Next]_<<Queued, got>>
  BY QueueStep
<1> QED
  BY <1>1, <1>2, <1>3, PTL DEF Spec, DequeSpec, Abstract!Spec
=============================================================================
