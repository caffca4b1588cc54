------------------------------ MODULE TestClient ------------------------------
(***************************************************************************)
(* main.cc, the test program: it starts a browser thread, takes messages   *)
(* for a number of cycles, sends exit & clean and exits.  The thread and   *)
(* the queues are what the program sees of them: a wait that succeeds or   *)
(* fails, a queue that may be empty after a wait that succeeded.           *)
(***************************************************************************)
EXTENDS Integers, Startup

CONSTANT Cycles     \* 100: the loop is left when it is entered for that time

ASSUME CyclesAssumption == Cycles \in Nat \ {0}

VARIABLES at,       \* the place in main
          cycles,
          sent,     \* has exit & clean been sent?
          turn      \* changes with every operation on the queues

vars == <<at, cycles, sent, turn>>

Init == /\ at = "start" /\ cycles = 0
        /\ sent = FALSE /\ turn = FALSE

\* main does not test its malloc; browser_init asserts cc.
NoChannel ==
    /\ at = "start" /\ "cc" \in Faults
    /\ at' = "aborted"
    /\ UNCHANGED <<cycles, sent, turn>>

\* browser_init, with any outcome; exit(1) when it failed.
Initialise ==
    /\ at = "start"
    /\ \E r \in Outcomes : at' = IF r.ok THEN "loop" ELSE "failed"
    /\ UNCHANGED <<cycles, sent, turn>>

\* The head of the loop.
Cycle ==
    /\ at = "loop"
    /\ cycles' = cycles + 1
    /\ at' = IF cycles' = Cycles THEN "leave" ELSE "wait"
    /\ UNCHANGED <<sent, turn>>

\* Mutant of Wait: only the cycles that get past the wait are counted.
WaitNotCounted ==
    /\ at = "wait"
    /\ turn' = ~ turn
    /\ \/ at' = "get" /\ UNCHANGED cycles
       \/ at' = "loop" /\ cycles' = cycles - 1
    /\ UNCHANGED sent

\* queue_wait_timer: zero, or the cycle is over.
Wait ==
    /\ at = "wait"
    /\ turn' = ~ turn
    /\ at' \in {"get", "loop"}
    /\ UNCHANGED <<cycles, sent>>

\* queue_get_nb: a message, which is printed and deleted, or NULL.
Get ==
    /\ at = "get"
    /\ turn' = ~ turn
    /\ at' = "loop"
    /\ UNCHANGED <<cycles, sent>>

\* Mutant of Leave: exit & clean is sent inside the loop, which goes on.
LeaveAndLoop ==
    /\ at = "leave"
    /\ sent' = TRUE /\ turn' = ~ turn
    /\ at' = "loop"
    /\ UNCHANGED cycles

\* Exit & clean, ten seconds of sleep, and the end.
Leave ==
    /\ at = "leave"
    /\ sent' = TRUE /\ turn' = ~ turn
    /\ at' = "sleep"
    /\ UNCHANGED cycles

Return ==
    /\ at = "sleep"
    /\ at' = "exited"
    /\ UNCHANGED <<cycles, sent, turn>>

Next == NoChannel \/ Initialise \/ Cycle \/ Wait \/ Get \/ Leave \/ Return

Spec == Init /\ [][Next]_vars

\* The wait has a deadline and nothing else blocks: the program runs on.
FairSpec == Spec /\ WF_vars(Next)

-----------------------------------------------------------------------------
\* The test program keeps to the note at the head of browser.cc (see ChannelClient):
\* no path through its `continue's uses the queues after exit & clean.
Stage ==
    IF at = "start" THEN "new"
    ELSE IF at \in {"aborted", "failed"} THEN "failed"
    ELSE IF sent THEN "closed" ELSE "up"

Client == INSTANCE ChannelClient WITH stage <- Stage

ClientSpec == Client!Spec

\* The program ends, and not without exit & clean when there is a thread to clean up:
\* a wait that fails, or succeeds without a message, uses up its cycle.
Ends == <> (at \in {"aborted", "failed"} \/ (at = "exited" /\ sent))
=============================================================================
