------------------------------ MODULE WaitTimer ------------------------------
(***************************************************************************)
(* The deadline of queue_wait_timer: gettimeofday, the sum of the timer    *)
(* and its conversion to a timespec, pthread_cond_timedwait.  One caller,  *)
(* which like main.cc waits again and again; the other side of the queue   *)
(* is a signal that may come at any time.                                  *)
(*                                                                         *)
(* On the platforms the project builds for UsPerSec is 1 000 000, NsPerUs  *)
(* 1 000 and IntMax 2^31 - 1.                                              *)
(***************************************************************************)
EXTENDS Integers

CONSTANTS UsPerSec,    \* microseconds in a second
          NsPerUs,     \* nanoseconds in a microsecond
          IntMax,      \* the largest int
          Timers,      \* the values of usec_timer, in microseconds
          MaxSec       \* the clock stops at the end of this second

NsPerSec == UsPerSec * NsPerUs

ASSUME TimerAssumption ==
    /\ {UsPerSec, NsPerUs} \subseteq Nat \ {0}
    /\ IntMax \in Nat /\ NsPerSec <= IntMax
    /\ Timers \subseteq 0 .. IntMax
    /\ MaxSec \in Nat

VARIABLES clock,      \* the time: seconds and microseconds
          at,         \* idle, asleep or how the last wait ended
          start,      \* what gettimeofday answered
          timer,      \* usec_timer
          deadline    \* the timespec

vars == <<clock, at, start, timer, deadline>>

Init ==
    /\ clock \in [sec : {0}, usec : 0 .. UsPerSec - 1]
    /\ at = "idle" /\ timer = 0
    /\ start = clock
    /\ deadline = [sec |-> 0, nsec |-> 0]

\* usec_timer * 1000 is a product of two ints.  When it does not fit the build may
\* keep the low bits, as the processor's instruction does, or compute the product in
\* the width of the long it is added to.
AsInt(n) == ((n + IntMax + 1) % (2 * IntMax + 2)) - (IntMax + 1)
Products(us) == {us * NsPerUs, AsInt(us * NsPerUs)}

\* Mutants of Normalised: the seconds are not carried; nothing is carried at all; a
\* second is added whether or not there is one to carry.
CarryLost(sec, nsec) ==
    [sec |-> sec, nsec |-> IF nsec > NsPerSec THEN nsec - NsPerSec ELSE nsec]

NeverCarried(sec, nsec) == [sec |-> sec, nsec |-> nsec]

AlwaysCarried(sec, nsec) ==
    [sec |-> sec + 1, nsec |-> IF nsec > NsPerSec THEN nsec - NsPerSec ELSE nsec]

\* The carry of a second, if there is one.
Normalised(sec, nsec) ==
    IF nsec > NsPerSec THEN [sec |-> sec + 1, nsec |-> nsec - NsPerSec]
                       ELSE [sec |-> sec, nsec |-> nsec]

\* What pthread_cond_timedwait accepts; otherwise it returns EINVAL at once.
Accepted(ts) == ts.nsec \in 0 .. NsPerSec - 1

Wait(us) ==
    /\ at # "asleep"
    /\ start' = clock /\ timer' = us
    /\ \E product \in Products(us) :
          deadline' = Normalised(clock.sec, clock.usec * NsPerUs + product)
    /\ at' = IF Accepted(deadline') THEN "asleep" ELSE "refused"
    /\ UNCHANGED clock

\* The wait ends because of a signal, or, some time after the deadline, for itself.
Woken ==
    /\ at = "asleep"
    /\ at' = "woken"
    /\ UNCHANGED <<clock, start, timer, deadline>>

Passed ==
    \/ clock.sec > deadline.sec
    \/ clock.sec = deadline.sec /\ clock.usec * NsPerUs >= deadline.nsec

TimedOut ==
    /\ at = "asleep" /\ Passed
    /\ at' = "timedout"
    /\ UNCHANGED <<clock, start, timer, deadline>>

\* The clock runs; what the last wait returned is read before it does.
Tick ==
    /\ \/ clock.usec < UsPerSec - 1 /\ clock' = [clock EXCEPT !.usec = @ + 1]
       \/ /\ clock.usec = UsPerSec - 1 /\ clock.sec < MaxSec
          /\ clock' = [sec |-> clock.sec + 1, usec |-> 0]
    /\ at' = IF at = "asleep" THEN at ELSE "idle"
    /\ UNCHANGED <<start, timer, deadline>>

Next == (\E us \in Timers : Wait(us)) \/ Woken \/ TimedOut \/ Tick

Spec == Init /\ [][Next]_vars

-----------------------------------------------------------------------------
Times == [sec : Nat, usec : 0 .. UsPerSec - 1]

TypeOK ==
    /\ clock \in Times /\ start \in Times
    /\ at \in {"idle", "asleep", "woken", "timedout", "refused"}
    /\ timer \in Nat
    /\ deadline \in [sec : Nat, nsec : Int]

\* In microseconds: the time of the clock, and the time up to which the caller meant
\* to wait.
Now == clock.sec * UsPerSec + clock.usec
Meant == start.sec * UsPerSec + start.usec + timer

\* The timers whose product is an int: on the platforms of the project those up to
\* 2.147483 seconds.
Fits == timer * NsPerUs <= IntMax

\* A wait whose time is up did not end before the timer had run: the seconds and
\* nanoseconds of queue.cc:354-359 together say the time of the call plus the timer.
NotEarly == (at = "timedout" /\ Fits) => Now >= Meant

\* Whatever the timer, a product that overflows included, and whatever is carried or
\* not: a wait that was accepted is over when the timer has run.  It may be cut short,
\* but nobody sleeps longer than meant.
NotLate == (at = "asleep" /\ Now >= Meant) => Passed

\* The one carry of queue.cc:356 covers exactly the sums below two seconds other than a
\* full second: the rest are refused, and nothing else is.
RefusedExactly ==
    (at # "idle" /\ Fits) =>
        (at = "refused" <=> \/ start.usec + timer = UsPerSec
                            \/ start.usec + timer >= 2 * UsPerSec)
=============================================================================
