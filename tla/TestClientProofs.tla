---------------------------- MODULE TestClientProofs ----------------------------
(***************************************************************************)
(* The test program keeps its promise for every number of cycles and       *)
(* whatever fails while it starts.                                         *)
(***************************************************************************)
EXTENDS TestClient, TLAPS

\* Exit & clean has been sent when the loop is left, and not before.
SentInv ==
    /\ at \in {"start", "aborted", "failed", "loop", "wait", "get", "leave", "sleep", "exited"}
    /\ sent \in BOOLEAN /\ turn \in BOOLEAN
    /\ sent <=> at \in {"sleep", "exited"}

\* Each step keeps SentInv and is a use, the opening or the closing of the channel,
\* or unseen.
LEMMA TestStep ==
    ASSUME SentInv, [Next]_vars
    PROVE  SentInv' /\ [Client!Next]_<<Stage, turn>>
<1> USE DEF SentInv, Stage, Client!Next, Client!Open, Client!Use, Client!Close
<1>1. CASE NoChannel
  BY <1>1 DEF NoChannel
<1>2. CASE Initialise
  BY <1>2 DEF Initialise
<1>3. CASE Cycle
  BY <1>3 DEF Cycle
<1>4. CASE Wait
  BY <1>4 DEF Wait
<1>5. CASE Get
  BY <1>5 DEF Get
<1>6. CASE Leave
  BY <1>6 DEF Leave
<1>7. CASE Return
  BY <1>7 DEF Return
<1>8. CASE UNCHANGED vars
  BY <1>8 DEF vars
<1> QED
  BY <1>1, <1>2, <1>3, <1>4, <1>5, <1>6, <1>7, <1>8 DEF Next

\* No path through main, for any number of cycles and any failure of browser_init, uses
\* the queues before they are there or after exit & clean.
THEOREM TestKeepsItsPromise == Spec => ClientSpec
<1>1. Init => SentInv /\ Client!Init
  BY DEF Init, SentInv, Client!Init, Stage
<1>2. SentInv /\ [Next]_vars => SentInv' /\ [Client!Next]_<<Stage, turn>>
  BY TestStep
<1> QED
  BY <1>1, <1>2, PTL DEF Spec, ClientSpec, Client!Spec
=============================================================================
