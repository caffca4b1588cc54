--------------------------- MODULE ChannelOwnership ---------------------------
(***************************************************************************)
(* What the channel promises, without queues, messages or state machine:   *)
(* its memory is shared while the client may use it, passes to the browser *)
(* thread when a client's operation on it ends with the release, and is    *)
(* reclaimed at most once, by its last owner, while nobody uses it.        *)
(***************************************************************************)
VARIABLES owner,   \* "none", "shared", "worker" or "gone"
          using    \* is the client inside an operation on the channel?

Init == owner = "none" /\ using = FALSE

Create   == owner = "none" /\ owner' = "shared" /\ UNCHANGED using
Enter    == owner = "shared" /\ ~ using /\ using' = TRUE /\ UNCHANGED owner
Leave    == using /\ using' = FALSE /\ UNCHANGED owner
HandOver == owner = "shared" /\ using /\ owner' = "worker" /\ using' = FALSE
Reclaim  == owner = "worker" /\ ~ using /\ owner' = "gone" /\ UNCHANGED using

Next == Create \/ Enter \/ Leave \/ HandOver \/ Reclaim

Spec == Init /\ [][Next]_<<owner, using>>
=============================================================================
