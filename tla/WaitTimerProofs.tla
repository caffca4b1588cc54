--------------------------- MODULE WaitTimerProofs ---------------------------
(***************************************************************************)
(* The deadline of queue_wait_timer for every clock, every timer and every *)
(* width of int in which a second of nanoseconds fits.                     *)
(***************************************************************************)
EXTENDS WaitTimer, TLAPS

\* A product keeps the order of its factors.
LEMMA Monotone ==
    ASSUME NEW k \in Nat \ {0}, NEW a \in Int, NEW b \in Int, a <= b
    PROVE  a * k <= b * k
<1>1. b - a \in Nat
  OBVIOUS
<1>2. (b - a) * k \in Nat
  BY <1>1
<1>3. (b - a) * k = b * k - a * k
  OBVIOUS
<1> QED
  BY <1>2, <1>3

\* And strictly so.
LEMMA StrictlyMonotone ==
    ASSUME NEW k \in Nat \ {0}, NEW a \in Int, NEW b \in Int, a < b
    PROVE  a * k < b * k
<1>1. (a + 1) * k <= b * k
  BY Monotone
<1>2. (a + 1) * k = a * k + k
  OBVIOUS
<1>3. a * k \in Int /\ b * k \in Int
  OBVIOUS
<1> QED
  BY <1>1, <1>2, <1>3

\* A remainder is at most what was divided.
LEMMA RemainderBelow ==
    ASSUME NEW x \in Nat, NEW k \in Nat \ {0}
    PROVE  x % k <= x /\ x % k \in 0 .. k - 1
  OBVIOUS

\* What becomes of usec_timer * 1000: at most the product, and the product if it fits.
LEMMA ProductBounds ==
    ASSUME NEW us \in Nat, NEW p \in Products(us)
    PROVE  /\ p \in Int /\ p <= us * NsPerUs
           /\ us * NsPerUs <= IntMax => p = us * NsPerUs
<1> USE TimerAssumption
<1> DEFINE n == us * NsPerUs
           span == 2 * IntMax + 2
<1>1. n \in Nat /\ span \in Nat \ {0} /\ n + IntMax + 1 \in Nat
  OBVIOUS
<1>2. /\ (n + IntMax + 1) % span \in 0 .. span - 1
      /\ (n + IntMax + 1) % span <= n + IntMax + 1
  BY <1>1, RemainderBelow
<1>3. ASSUME n <= IntMax
      PROVE  (n + IntMax + 1) % span = n + IntMax + 1
  BY <1>1, <1>3
<1>4. CASE p = n
  BY <1>1, <1>4
<1>5. CASE p = AsInt(n)
  <2>1. p = ((n + IntMax + 1) % span) - (IntMax + 1)
    BY <1>5 DEF AsInt
  <2> HIDE DEF n, span
  <2>2. p \in Int /\ p <= n
    BY <1>1, <1>2, <2>1
  <2>3. n <= IntMax => p = n
    BY <1>1, <1>3, <2>1
  <2> QED
    BY <2>2, <2>3 DEF n
<1> QED
  BY <1>4, <1>5 DEF Products

\* The carry changes how the time is written, not the time.
LEMMA CarryKeepsTime ==
    ASSUME NEW sec \in Nat, NEW nsec \in Int, NEW d, d = Normalised(sec, nsec)
    PROVE  /\ d \in [sec : Nat, nsec : Int]
           /\ d.sec * NsPerSec + d.nsec = sec * NsPerSec + nsec
<1>1. NsPerSec \in Nat
  BY TimerAssumption DEF NsPerSec
<1>2. (sec + 1) * NsPerSec = sec * NsPerSec + NsPerSec
  BY <1>1
<1>3. sec * NsPerSec \in Int
  BY <1>1
<1>4. CASE nsec > NsPerSec
  <2>1. d = [sec |-> sec + 1, nsec |-> nsec - NsPerSec]
    BY <1>4 DEF Normalised
  <2> QED
    BY <2>1, <1>1, <1>2, <1>3
<1>5. CASE ~ nsec > NsPerSec
  BY <1>5 DEF Normalised
<1> QED
  BY <1>4, <1>5

\* The timespec of a call at time c: its type; the time it stands for, which is never
\* later than meant; and, for a product that fits, the only sums that are refused.
LEMMA DeadlineOf ==
    ASSUME NEW us \in Nat, NEW c \in Times, NEW p \in Products(us),
           NEW d, d = Normalised(c.sec, c.usec * NsPerUs + p)
    PROVE  LET meant == (c.sec * UsPerSec + c.usec + us) * NsPerUs
           IN  /\ d \in [sec : Nat, nsec : Int]
               /\ d.sec * NsPerSec + d.nsec <= meant
               /\ us * NsPerUs <= IntMax =>
                    /\ d.sec * NsPerSec + d.nsec = meant
                    /\ ~ Accepted(d) <=> \/ c.usec + us = UsPerSec
                                         \/ c.usec + us >= 2 * UsPerSec
<1> USE TimerAssumption
<1> DEFINE sum == c.usec + us
           meant == (c.sec * UsPerSec + c.usec + us) * NsPerUs
<1>1. c.sec \in Nat /\ c.usec \in Nat /\ c.usec < UsPerSec /\ sum \in Nat
  BY DEF Times
<1>2. /\ p \in Int /\ p <= us * NsPerUs
      /\ us * NsPerUs <= IntMax => p = us * NsPerUs
  BY ProductBounds
<1>3. NsPerSec \in Nat \ {0} /\ sum * NsPerUs \in Nat
  BY <1>1 DEF NsPerSec
<1>4. c.usec * NsPerUs + us * NsPerUs = sum * NsPerUs
  BY <1>1
<1>5. c.usec * NsPerUs \in Int /\ us * NsPerUs \in Int /\ c.sec * NsPerSec \in Int
  BY <1>1, <1>3
<1>6. meant = c.sec * NsPerSec + sum * NsPerUs
  BY <1>1 DEF NsPerSec
<1>7. /\ d \in [sec : Nat, nsec : Int]
      /\ d.sec * NsPerSec + d.nsec = c.sec * NsPerSec + (c.usec * NsPerUs + p)
  <2> DEFINE nsec == c.usec * NsPerUs + p
  <2>1. nsec \in Int /\ d = Normalised(c.sec, nsec)
    BY <1>2, <1>5
  <2> HIDE DEF nsec
  <2>2. /\ d \in [sec : Nat, nsec : Int]
        /\ d.sec * NsPerSec + d.nsec = c.sec * NsPerSec + nsec
    BY <1>1, <2>1, CarryKeepsTime
  <2> QED
    BY <2>2 DEF nsec
<1>8. d.sec * NsPerSec + d.nsec <= meant
  BY <1>2, <1>4, <1>5, <1>6, <1>7
<1>9. ASSUME us * NsPerUs <= IntMax
      PROVE  /\ d.sec * NsPerSec + d.nsec = meant
             /\ ~ Accepted(d) <=> sum = UsPerSec \/ sum >= 2 * UsPerSec
  <2>1. c.usec * NsPerUs + p = sum * NsPerUs
    BY <1>2, <1>4, <1>9
  <2>2. d.sec * NsPerSec + d.nsec = meant
    BY <2>1, <1>6, <1>7
  <2>3. CASE sum > UsPerSec
    <3>1. sum * NsPerUs > NsPerSec
      BY <1>1, <2>3, StrictlyMonotone DEF NsPerSec
    <3>2. d.nsec = sum * NsPerUs - NsPerSec
      BY <3>1, <2>1 DEF Normalised
    <3>3. (2 * UsPerSec) * NsPerUs = 2 * NsPerSec
      BY DEF NsPerSec
    <3>4. sum < 2 * UsPerSec => sum * NsPerUs < 2 * NsPerSec
      BY <1>1, <3>3, StrictlyMonotone
    <3>5. sum >= 2 * UsPerSec => sum * NsPerUs >= 2 * NsPerSec
      BY <1>1, <3>3, Monotone
    <3>6. Accepted(d) <=> sum * NsPerUs < 2 * NsPerSec
      BY <3>1, <3>2, <1>3 DEF Accepted
    <3> QED
      BY <2>2, <2>3, <3>4, <3>5, <3>6, <1>1, <1>3
  <2>4. CASE sum <= UsPerSec
    <3>1. sum * NsPerUs <= NsPerSec
      BY <1>1, <2>4, Monotone DEF NsPerSec
    <3>2. d.nsec = sum * NsPerUs
      BY <3>1, <2>1, <1>3 DEF Normalised
    <3>3. sum < UsPerSec => sum * NsPerUs < NsPerSec
      BY <1>1, StrictlyMonotone DEF NsPerSec
    <3>4. sum = UsPerSec => sum * NsPerUs = NsPerSec
      BY DEF NsPerSec
    <3>5. Accepted(d) <=> sum < UsPerSec
      BY <3>2, <3>3, <3>4, <2>4, <1>1, <1>3 DEF Accepted
    <3> QED
      BY <2>2, <2>4, <3>5, <1>1
  <2> QED
    BY <2>3, <2>4, <1>1
<1> QED
  BY <1>7, <1>8, <1>9

\* What is true of every state: whoever sleeps, sleeps on a valid timespec, and a
\* timespec stands for the time meant unless the product did not fit, and then for an
\* earlier one.
AsleepAccepted == at = "asleep" => Accepted(deadline)

DeadlineExact ==
    at # "idle" =>
        /\ deadline.sec * NsPerSec + deadline.nsec <= Meant * NsPerUs
        /\ Fits => deadline.sec * NsPerSec + deadline.nsec = Meant * NsPerUs

TimerInv == TypeOK /\ AsleepAccepted /\ DeadlineExact /\ NotEarly /\ RefusedExactly

\* At the start nothing was waited for.
LEMMA TimerStart == Init => TimerInv
  BY TimerAssumption
  DEF Init, TimerInv, TypeOK, AsleepAccepted, DeadlineExact, NotEarly, RefusedExactly, Times

\* The call.
LEMMA WaitStep ==
    ASSUME TimerInv, NEW us \in Timers, Wait(us)
    PROVE  TimerInv'
<1>1. us \in Nat /\ clock \in Times
  BY TimerAssumption DEF TimerInv, TypeOK
<1>2. PICK product \in Products(us) :
        deadline' = Normalised(clock.sec, clock.usec * NsPerUs + product)
  BY DEF Wait
<1>3. start' = clock /\ timer' = us /\ at' \in {"asleep", "refused"}
      /\ (at' = "refused" <=> ~ Accepted(deadline'))
  BY DEF Wait
<1>4. LET meant == (clock.sec * UsPerSec + clock.usec + us) * NsPerUs
      IN  /\ deadline' \in [sec : Nat, nsec : Int]
          /\ deadline'.sec * NsPerSec + deadline'.nsec <= meant
          /\ us * NsPerUs <= IntMax =>
               /\ deadline'.sec * NsPerSec + deadline'.nsec = meant
               /\ ~ Accepted(deadline') <=> \/ clock.usec + us = UsPerSec
                                            \/ clock.usec + us >= 2 * UsPerSec
  BY <1>1, <1>2, DeadlineOf
<1>5. TypeOK'
  BY <1>1, <1>3, <1>4 DEF Wait, TypeOK
<1>6. Meant' = clock.sec * UsPerSec + clock.usec + us /\ (Fits' <=> us * NsPerUs <= IntMax)
  BY <1>3 DEF Meant, Fits
<1> QED
  BY <1>3, <1>4, <1>5, <1>6 DEF TimerInv, AsleepAccepted, DeadlineExact, NotEarly, RefusedExactly

\* Nanoseconds of the clock and of the deadline of one who sleeps.
LEMMA InNanoseconds ==
    ASSUME TypeOK
    PROVE  /\ {clock.sec, clock.usec, start.sec, start.usec, timer, deadline.sec} \subseteq Nat
           /\ deadline.nsec \in Int /\ NsPerSec \in Nat \ {0}
           /\ Now \in Nat /\ Meant \in Nat
           /\ Now * NsPerUs = clock.sec * NsPerSec + clock.usec * NsPerUs
           /\ clock.usec * NsPerUs \in 0 .. NsPerSec - 1
           /\ clock.sec * NsPerSec \in Nat /\ deadline.sec * NsPerSec \in Nat
           /\ (clock.sec + 1) * NsPerSec = clock.sec * NsPerSec + NsPerSec
           /\ (deadline.sec + 1) * NsPerSec = deadline.sec * NsPerSec + NsPerSec
<1> USE TimerAssumption
<1>1. /\ {clock.sec, clock.usec, start.sec, start.usec, timer, deadline.sec} \subseteq Nat
      /\ deadline.nsec \in Int /\ clock.usec < UsPerSec
  BY DEF TypeOK, Times
<1>2. NsPerSec \in Nat \ {0}
  BY DEF NsPerSec
<1>3. Now \in Nat /\ Meant \in Nat
  BY <1>1 DEF Now, Meant
<1>4. Now * NsPerUs = clock.sec * NsPerSec + clock.usec * NsPerUs
  BY <1>1 DEF Now, NsPerSec
<1>5. clock.usec * NsPerUs \in 0 .. NsPerSec - 1
  <2>1. clock.usec * NsPerUs < UsPerSec * NsPerUs
    BY <1>1, StrictlyMonotone
  <2>2. clock.usec * NsPerUs \in Nat
    BY <1>1
  <2> QED
    BY <2>1, <2>2, <1>2 DEF NsPerSec
<1>6. clock.sec * NsPerSec \in Nat /\ deadline.sec * NsPerSec \in Nat
  BY <1>1, <1>2
<1>7. /\ (clock.sec + 1) * NsPerSec = clock.sec * NsPerSec + NsPerSec
      /\ (deadline.sec + 1) * NsPerSec = deadline.sec * NsPerSec + NsPerSec
  BY <1>1, <1>2
<1> QED
  BY <1>1, <1>2, <1>3, <1>4, <1>5, <1>6, <1>7

\* pthread_cond_timedwait compares seconds first and nanoseconds then; of timespecs it
\* accepts, that is the order of the times they stand for.
LEMMA PassedIsLater ==
    ASSUME TypeOK, Accepted(deadline)
    PROVE  Passed <=> Now * NsPerUs >= deadline.sec * NsPerSec + deadline.nsec
<1> DEFINE cs == clock.sec * NsPerSec
           cn == clock.usec * NsPerUs
           ds == deadline.sec * NsPerSec
<1>1. deadline.nsec \in 0 .. NsPerSec - 1
  BY DEF Accepted
<1>2. /\ clock.sec \in Nat /\ deadline.sec \in Nat /\ NsPerSec \in Nat \ {0}
      /\ Now * NsPerUs = cs + cn /\ cn \in 0 .. NsPerSec - 1 /\ cs \in Nat /\ ds \in Nat
      /\ (clock.sec + 1) * NsPerSec = cs + NsPerSec
      /\ (deadline.sec + 1) * NsPerSec = ds + NsPerSec
  BY InNanoseconds
<1>3. CASE clock.sec > deadline.sec
  <2>1. (deadline.sec + 1) * NsPerSec <= clock.sec * NsPerSec
    BY <1>2, <1>3, Monotone
  <2> HIDE DEF cn
  <2>2. cs >= ds + NsPerSec
    BY <2>1, <1>2
  <2>3. cs + cn >= ds + deadline.nsec
    <3> HIDE DEF cs, ds
    <3> QED
      BY <2>2, <1>1, <1>2
  <2> QED
    BY <2>3, <1>2, <1>3 DEF Passed
<1>4. CASE clock.sec < deadline.sec
  <2>1. (clock.sec + 1) * NsPerSec <= deadline.sec * NsPerSec
    BY <1>2, <1>4, Monotone
  <2>2. ds >= cs + NsPerSec
    BY <2>1, <1>2
  <2>3. ~ cs + cn >= ds + deadline.nsec
    <3> HIDE DEF cs, cn, ds
    <3> QED
      BY <2>2, <1>1, <1>2
  <2> QED
    BY <2>3, <1>2, <1>4 DEF Passed
<1>5. CASE clock.sec = deadline.sec
  <2>1. cs = ds
    BY <1>5
  <2>2. cs + cn >= ds + deadline.nsec <=> cn >= deadline.nsec
    <3> HIDE DEF cs, cn, ds
    <3> QED
      BY <2>1, <1>1, <1>2
  <2> QED
    BY <2>2, <1>2, <1>5 DEF Passed
<1> QED
  BY <1>2, <1>3, <1>4, <1>5

\* The end of a wait whose deadline has passed.
LEMMA TimedOutStep ==
    ASSUME TimerInv, TimedOut
    PROVE  TimerInv'
<1> USE TimerAssumption
<1>1. UNCHANGED <<clock, start, timer, deadline>> /\ at = "asleep" /\ at' = "timedout"
  BY DEF TimedOut
<1>2. UNCHANGED <<Now, Meant, Fits>>
  BY <1>1 DEF Now, Meant, Fits
<1>3. TypeOK' /\ AsleepAccepted' /\ DeadlineExact'
  BY <1>1, <1>2 DEF TimerInv, TypeOK, AsleepAccepted, DeadlineExact
<1>4. RefusedExactly'
  BY <1>1, <1>2 DEF TimerInv, RefusedExactly
<1>5. ASSUME Fits
      PROVE  Now >= Meant
  <2>1. deadline.sec * NsPerSec + deadline.nsec = Meant * NsPerUs
    BY <1>1, <1>5 DEF TimerInv, DeadlineExact
  <2>2. Now * NsPerUs >= Meant * NsPerUs
    BY <1>1, <2>1, PassedIsLater DEF TimedOut, TimerInv, AsleepAccepted
  <2>3. Now \in Nat /\ Meant \in Nat
    BY InNanoseconds DEF TimerInv
  <2>4. Now < Meant => Now * NsPerUs < Meant * NsPerUs
    BY <2>3, StrictlyMonotone
  <2>5. Now * NsPerUs \in Int /\ Meant * NsPerUs \in Int
    BY <2>3
  <2> QED
    BY <2>2, <2>3, <2>4, <2>5
<1> QED
  BY <1>2, <1>3, <1>4, <1>5 DEF TimerInv, NotEarly

\* The signal and the clock disturb no wait.
LEMMA OtherStep ==
    ASSUME TimerInv, Woken \/ Tick \/ UNCHANGED vars
    PROVE  TimerInv'
  BY TimerAssumption
  DEF Woken, Tick, vars, TimerInv, TypeOK, AsleepAccepted, DeadlineExact, NotEarly,
      RefusedExactly, Fits, Now, Meant, Times

\* The invariant, for every value of the constants.
THEOREM TimerInvariant == Spec => []TimerInv
<1>1. TimerInv /\ [Next]_vars => TimerInv'
  BY WaitStep, TimedOutStep, OtherStep DEF Next
<1> QED
  BY TimerStart, <1>1, PTL DEF Spec

\* A wait that timed out did not end early, if its product was an int.
THEOREM TimerRunsOut == Spec => []NotEarly
<1>1. TimerInv => NotEarly
  BY DEF TimerInv
<1> QED
  BY TimerInvariant, <1>1, PTL

\* Nobody sleeps longer than meant, whatever the timer and whatever the build makes of
\* a product that overflows.
THEOREM NobodyOversleeps == Spec => []NotLate
<1>1. ASSUME TimerInv, at = "asleep", Now >= Meant
      PROVE  Passed
  <2>1. Now \in Nat /\ Meant \in Nat
    BY <1>1, InNanoseconds DEF TimerInv
  <2>2. Meant * NsPerUs <= Now * NsPerUs
    BY <2>1, <1>1, Monotone, TimerAssumption
  <2>3. deadline.sec * NsPerSec + deadline.nsec <= Meant * NsPerUs
    BY <1>1 DEF TimerInv, DeadlineExact
  <2>4. deadline.sec * NsPerSec \in Int /\ deadline.nsec \in Int
    BY <1>1, InNanoseconds DEF TimerInv
  <2>5. Meant * NsPerUs \in Int /\ Now * NsPerUs \in Int
    BY <2>1, TimerAssumption
  <2>6. Now * NsPerUs >= deadline.sec * NsPerSec + deadline.nsec
    BY <2>2, <2>3, <2>4, <2>5
  <2> QED
    BY <1>1, <2>6, PassedIsLater DEF TimerInv, AsleepAccepted
<1>2. TimerInv => NotLate
  BY <1>1 DEF NotLate
<1> QED
  BY TimerInvariant, <1>2, PTL

\* Which waits are refused: a full second, and two seconds or more.
THEOREM WhatIsRefused == Spec => []RefusedExactly
<1>1. TimerInv => RefusedExactly
  BY DEF TimerInv
<1> QED
  BY TimerInvariant, <1>1, PTL
=============================================================================
