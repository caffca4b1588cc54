---------------------------- MODULE ChannelClient ----------------------------
(***************************************************************************)
(* What a client of a browser thread promises, from the note at the head   *)
(* of browser.cc: "Once the client user of this class sends an "exit &     *)
(* clean" command msg, the said client shouldn't be using the message      *)
(* queues either way."  There is nothing to use either before a channel    *)
(* was opened, or when it could not be.                                    *)
(*                                                                         *)
(* turn changes with every operation on the queues, exit & clean included, *)
(* so that an operation is a step even when nothing else can be seen of it.*)
(***************************************************************************)
VARIABLES stage, turn

Init == stage = "new" /\ turn \in BOOLEAN

\* browser_init succeeds or fails; neither is an operation on the queues.
Open == stage = "new" /\ stage' \in {"up", "failed"} /\ UNCHANGED turn

Use == stage = "up" /\ turn' = ~ turn /\ UNCHANGED stage

\* The last use: exit & clean.
Close == stage = "up" /\ turn' = ~ turn /\ stage' = "closed"

Next == Open \/ Use \/ Close

Spec == Init /\ [][Next]_<<stage, turn>>
=============================================================================
