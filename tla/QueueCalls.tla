------------------------------ MODULE QueueCalls ------------------------------
(***************************************************************************)
(* The functions of queue.h as threads call them: around the list of       *)
(* LinkedQueue a mutex and a condition variable.                           *)
(*                                                                         *)
(* A call is at                                                            *)
(*   "idle"     not running                                                *)
(*   "try"      pthread_mutex_trylock                                      *)
(*   "lock"     pthread_mutex_lock                                         *)
(*   "in"       the mutex held, before the work on the list                *)
(*   "wait"     the mutex held, before pthread_cond_wait or _timedwait     *)
(*   "asleep"   waiting for the condition, without the mutex               *)
(*   "woken"    waiting for the mutex again                                *)
(*   "awake"    back from the wait, the mutex held                         *)
(* The queue and the nodes put are never NULL here, which every function   *)
(* tests first.                                                            *)
(***************************************************************************)
EXTENDS LinkedQueue

CONSTANTS Threads,
          Operations,   \* the functions the threads call
          MaxPuts       \* no call that puts begins once so many nodes were put

TailPuts == {"put", "put_nb", "put_wait"}
HeadPuts == {"put_head", "put_head_nb", "put_head_wait"}
Puts     == TailPuts \cup HeadPuts
PutWaits == {"put_wait", "put_head_wait"}
Gets     == {"get", "get_nb"}
Waits    == {"wait", "wait_timer"}
Trying   == {"put_nb", "put_head_nb", "get_nb"} \cup PutWaits
Calls    == Puts \cup Gets \cup Waits \cup {"peek", "signal"}

ASSUME QueueAssumption ==
    Operations \subseteq Calls /\ MaxPuts \in Nat /\ "none" \notin Threads

VARIABLES mutex,        \* the thread that holds q->mutex
          call,         \* what each thread is doing
          got           \* what the last get of each thread returned

vars == <<listVars, mutex, call, got>>

Idle == [at |-> "idle", op |-> "none", arg |-> "NULL"]

Init ==
    /\ ListInit
    /\ mutex = "none"
    /\ call = [t \in Threads |-> Idle]
    /\ got = [t \in Threads |-> "NULL"]

At(t, place) == call[t].at = place
GoTo(t, place) == call' = [call EXCEPT ![t].at = place]
Return(t) == call' = [call EXCEPT ![t] = Idle]

Hold(t) == mutex = "none" /\ mutex' = t
Release == mutex' = "none"

-----------------------------------------------------------------------------
Begin(t, op, arg) ==
    /\ call[t] = Idle
    /\ call' = [call EXCEPT ![t] = [at |-> IF op \in Trying THEN "try" ELSE "lock",
                                    op |-> op, arg |-> arg]]
    /\ UNCHANGED <<listVars, mutex, got>>

CallPut(t) ==
    total_in < MaxPuts /\ \E op \in Operations \cap Puts, v \in Values : Begin(t, op, v)

CallOther(t) == \E op \in Operations \ Puts : Begin(t, op, "NULL")

TryOk(t) ==
    /\ At(t, "try") /\ Hold(t)
    /\ GoTo(t, "in")
    /\ UNCHANGED <<listVars, got>>

\* EBUSY: the _nb functions give up, the _wait functions go to sleep.
TryBusy(t) ==
    /\ At(t, "try") /\ mutex # "none"
    /\ IF call[t].op \in PutWaits THEN GoTo(t, "lock") ELSE Return(t)
    /\ got' = IF call[t].op = "get_nb" THEN [got EXCEPT ![t] = "NULL"] ELSE got
    /\ UNCHANGED <<listVars, mutex>>

Lock(t) ==
    /\ At(t, "lock") /\ Hold(t)
    /\ GoTo(t, IF call[t].op \in Waits \cup PutWaits THEN "wait" ELSE "in")
    /\ UNCHANGED <<listVars, got>>

-----------------------------------------------------------------------------
Sleepers == {t \in Threads : At(t, "asleep")}

\* The end of a function that signals: pthread_cond_signal wakes one of the
\* threads asleep on q->cond, if there is one; then the unlock and the return.
SignalAndReturn(t) ==
    \E w \in IF Sleepers = {} THEN {t} ELSE Sleepers :
       call' = [call EXCEPT ![w].at = "woken", ![t] = Idle]

\* Mutant of Put: no unlock on the path of the failed malloc.
PutKeepsMutex(t) ==
    /\ At(t, "in") /\ call[t].op \in Puts
    /\ \/ /\ call[t].op \in TailPuts /\ PutSafe(call[t].arg)
          /\ SignalAndReturn(t) /\ Release
       \/ /\ call[t].op \in HeadPuts /\ PutHeadSafe(call[t].arg)
          /\ SignalAndReturn(t) /\ Release
       \/ UNCHANGED <<listVars, mutex>> /\ Return(t)
    /\ UNCHANGED got

Put(t) ==
    /\ At(t, "in") /\ call[t].op \in Puts
    /\ \/ /\ call[t].op \in TailPuts /\ PutSafe(call[t].arg)
          /\ SignalAndReturn(t)
       \/ /\ call[t].op \in HeadPuts /\ PutHeadSafe(call[t].arg)
          /\ SignalAndReturn(t)
       \/ UNCHANGED listVars /\ Return(t)     \* no memory: code 0, no signal
    /\ Release
    /\ UNCHANGED got

Get(t) ==
    /\ At(t, "in") /\ call[t].op \in Gets
    /\ got' = [got EXCEPT ![t] = GetNode]
    /\ GetSafe
    /\ Release /\ Return(t)

Peek(t) ==
    /\ At(t, "in") /\ call[t].op = "peek"
    /\ Release /\ Return(t)
    /\ UNCHANGED <<listVars, got>>

Signal(t) ==
    /\ At(t, "in") /\ call[t].op = "signal"
    /\ SignalAndReturn(t) /\ Release
    /\ UNCHANGED <<listVars, got>>

-----------------------------------------------------------------------------
\* pthread_cond_wait and pthread_cond_timedwait: the mutex is released and the
\* thread asleep in one step.
Sleep(t) ==
    /\ At(t, "wait") /\ Release
    /\ GoTo(t, "asleep")
    /\ UNCHANGED <<listVars, got>>

\* pthread_cond_timedwait does not take a deadline out of range (see WaitTimer).
Refused(t) ==
    /\ At(t, "wait") /\ call[t].op = "wait_timer"
    /\ Release /\ Return(t)
    /\ UNCHANGED <<listVars, got>>

\* The deadline of queue_wait_timer has passed.
Timeout(t) ==
    /\ At(t, "asleep") /\ call[t].op = "wait_timer"
    /\ GoTo(t, "woken")
    /\ UNCHANGED <<listVars, mutex, got>>

\* A condition variable may wake a thread for no reason.
Spurious(t) ==
    /\ At(t, "asleep")
    /\ GoTo(t, "woken")
    /\ UNCHANGED <<listVars, mutex, got>>

Relock(t) ==
    /\ At(t, "woken") /\ Hold(t)
    /\ GoTo(t, "awake")
    /\ UNCHANGED <<listVars, got>>

\* Mutant of Awake: queue_wait_timer waits again after its deadline.
AwakeWaitsAgain(t) ==
    /\ At(t, "awake")
    /\ IF call[t].op = "wait_timer" THEN GoTo(t, "wait") /\ UNCHANGED mutex
       ELSE /\ Release
            /\ IF call[t].op \in PutWaits THEN GoTo(t, "try") ELSE Return(t)
    /\ UNCHANGED <<listVars, got>>

\* The waits return; the put_wait functions unlock and go round their loop.  Their branch
\* for ETIMEDOUT would leave the function with the mutex held: it is left out, because
\* pthread_cond_wait, which has no deadline, does not return that.
Awake(t) ==
    /\ At(t, "awake") /\ Release
    /\ IF call[t].op \in PutWaits THEN GoTo(t, "try") ELSE Return(t)
    /\ UNCHANGED <<listVars, got>>

Run(t) ==
    \/ TryOk(t) \/ TryBusy(t) \/ Lock(t)
    \/ Put(t) \/ Get(t) \/ Peek(t) \/ Signal(t)
    \/ Sleep(t) \/ Refused(t) \/ Timeout(t) \/ Relock(t) \/ Awake(t)

Next ==
    \E t \in Threads : CallPut(t) \/ CallOther(t) \/ Run(t) \/ Spurious(t)

Spec == Init /\ [][Next]_vars

\* A call that can go on does, and a thread that waits for a mutex which is
\* released again and again gets it.
FairSpec ==
    /\ Spec
    /\ \A t \in Threads :
          /\ WF_vars(Run(t))
          /\ SF_vars(Lock(t)) /\ SF_vars(Relock(t))

-----------------------------------------------------------------------------
Places == {"idle", "try", "lock", "in", "wait", "asleep", "woken", "awake"}

TypeOK ==
    /\ ListTypeOK
    /\ mutex \in Threads \cup {"none"}
    /\ call \in [Threads -> [at : Places, op : Calls \cup {"none"},
                             arg : Values \cup {"NULL"}]]
    /\ \A t \in Threads : call[t].op \in Puts => call[t].arg \in Values
    /\ got \in [Threads -> Values \cup {"NULL"}]

\* The mutex is held exactly while its holder is in the middle of a function: none of
\* the twelve returns, sleeps or goes round its loop with it, and none works on the list
\* without it, so that whoever waits for it waits behind a call that can go on.  (On every
\* path that can be taken: see Awake for the one that cannot.)
MutexExact ==
    \A t \in Threads : mutex = t <=> call[t].at \in {"in", "wait", "awake"}

\* The list with its mutex implements Deque: whatever mix of blocking,
\* non-blocking and waiting calls is interleaved, nodes leave from the head in the
\* order they were put at the end, or in reverse when put at the head, each once.
Abstract == INSTANCE Deque WITH items <- Queued

DequeSpec == Abstract!Spec

\* Every call returns, whatever the others do, but for those that wait for a
\* signal without a deadline: queue_wait and the put_wait functions.
CallsReturn ==
    \A t \in Threads :
        call[t].op \in Calls \ ({"wait"} \cup PutWaits) ~> call[t] = Idle
=============================================================================
