--------------------------- MODULE OwnershipProofs ---------------------------
(***************************************************************************)
(* OwnershipInv is an invariant of MdnsSystem, whatever message is lost,   *)
(* and with it the channel implements ChannelOwnership.                    *)
(***************************************************************************)
EXTENDS MdnsInvariant, FsmProofs

-----------------------------------------------------------------------------
(* Sequences, pushes and the queues.                                       *)

\* What is left of a sequence without its first element.
LEMMA TailLen ==
    ASSUME NEW S, NEW s \in Seq(S), s # <<>>
    PROVE  /\ Head(s) \in S
           /\ Tail(s) \in Seq(S)
           /\ Len(Tail(s)) = Len(s) - 1
           /\ Len(s) > 1 <=> Tail(s) # <<>>
<1>1. /\ Head(s) \in S
      /\ Tail(s) \in Seq(S)
      /\ Len(Tail(s)) = Len(s) - 1
      /\ Len(s) \in Nat
  OBVIOUS
<1>2. \A t \in Seq(S) : t = <<>> <=> Len(t) = 0
  OBVIOUS
<1>3. Len(s) # 0 /\ (Tail(s) = <<>> <=> Len(s) - 1 = 0)
  BY <1>1, <1>2
<1> QED
  BY <1>1, <1>3

\* The pushes left to an action or to the filter function have the right type.
LEMMA KnownPushes ==
    /\ \A m \in BusMessages : HandleMessage(m) \in Seq(Pushes)
    /\ \A error \in DOMAIN SetupErrors : SetupErrors[error] \in Seq(Pushes)
    /\ \A e : ExitPushes(e) \in Seq(Pushes)
    /\ <<Push("out", "BMSG_DBUS_DISCONNECTED")>> \in Seq(Pushes)
<1>1. \A m \in Msgs \ CommandMsgs, q \in Queues : Push(q, m) \in Pushes
  BY DEF Push, Pushes
<1>2. \A m \in Msgs \ CommandMsgs : <<Push("out", m)>> \in Seq(Pushes)
  BY <1>1 DEF Queues
<1>3. (SignalMsgs \cup ErrorMsgs \cup {"BMSG_DBUS_DISCONNECTED", "BMSG_EXITED",
        "BMSG_FLUSH_MARKER"}) \subseteq Msgs \ CommandMsgs
  BY DEF Msgs, CommandMsgs, SignalMsgs, ErrorMsgs
<1>4. \A m \in BusMessages : HandleMessage(m) \in Seq(Pushes)
  BY <1>2, <1>3 DEF BusMessages, HandleMessage, SignalMsgs
<1>5. \A error \in DOMAIN SetupErrors : SetupErrors[error] \in Seq(Pushes)
  <2>1. \A error \in DOMAIN SetupErrors :
            \/ SetupErrors[error] = <<>>
            \/ SetupErrors[error] = <<Push("out", "BMSG_DBUS_ADDFILTER_ERROR")>>
            \/ SetupErrors[error] = <<Push("out", "BMSG_DBUS_ADDMATCH_ERROR")>>
            \/ SetupErrors[error] = <<Push("out", "BMSG_DBUS_SERVICE_BROWSER_ERROR")>>
    BY DEF SetupErrors
  <2>2. /\ <<Push("out", "BMSG_DBUS_ADDFILTER_ERROR")>> \in Seq(Pushes)
        /\ <<Push("out", "BMSG_DBUS_ADDMATCH_ERROR")>> \in Seq(Pushes)
        /\ <<Push("out", "BMSG_DBUS_SERVICE_BROWSER_ERROR")>> \in Seq(Pushes)
    BY <1>2, <1>3 DEF ErrorMsgs
  <2>3. <<>> \in Seq(Pushes)
    OBVIOUS
  <2> QED
    BY <2>1, <2>2, <2>3
<1>6. \A e : ExitPushes(e) \in Seq(Pushes)
  <2>1. /\ Push("out", "BMSG_EXITED") \in Pushes
        /\ Push("out", "BMSG_FLUSH_MARKER") \in Pushes
        /\ Push("in", "BMSG_FLUSH_MARKER") \in Pushes
    BY <1>1, <1>3 DEF Queues
  <2> QED
    BY <2>1 DEF ExitPushes
<1> QED
  BY <1>2, <1>3, <1>4, <1>5, <1>6

\* The next push of a thread that is pushing.
LEMMA NextPush ==
    ASSUME TypeOK, PlaceInv, Pushing
    PROVE  /\ Head(todo).queue \in Queues
           /\ Head(todo).msg \in Msgs \ CommandMsgs
           /\ Tail(todo) \in Seq(Pushes)
           /\ Len(todo) > 1 <=> Tail(todo) # <<>>
<1>1. todo \in Seq(Pushes) /\ todo # <<>>
  BY DEF TypeOK, PlaceInv
<1>2. Head(todo) \in Pushes
  BY <1>1, TailLen
<1> QED
  BY <1>1, <1>2, TailLen DEF Pushes

\* queue_put leaves well-typed queues; what is in a queue afterwards was in it
\* before or is the message put.
LEMMA PutEffect ==
    ASSUME TypeOK, NEW q \in Queues, NEW m \in Msgs, Put(q, m)
    PROVE  /\ items' \in [Queues -> Seq(Msgs)]
           /\ lock' \in [Queues -> Threads \cup {"none"}]
           /\ \A c : Queued(c)' => Queued(c) \/ (q = "in" /\ m = c)
<1>1. items \in [Queues -> Seq(Msgs)] /\ items[q] \in Seq(Msgs)
  BY DEF TypeOK
<1>2. \/ items' = [items EXCEPT ![q] = Append(items[q], m)]
      \/ items' = items
  BY DEF Put
<1>3. Append(items[q], m) \in Seq(Msgs)
  BY <1>1
<1>4. items' \in [Queues -> Seq(Msgs)]
  BY <1>1, <1>2, <1>3
<1>5. lock' \in [Queues -> Threads \cup {"none"}]
  BY DEF TypeOK, Put, Unlock
<1>6. ASSUME NEW c, Queued(c)' PROVE Queued(c) \/ (q = "in" /\ m = c)
  <2>1. CASE items'["in"] = items["in"]
    BY <1>6, <2>1 DEF Queued
  <2>2. CASE q = "in" /\ items'["in"] = Append(items["in"], m)
    <3>1. PICK i \in 1 .. Len(items'["in"]) : items'["in"][i] = c
      BY <1>6 DEF Queued
    <3>2. i \in 1 .. Len(items["in"]) \/ m = c
      BY <1>1, <2>2, <3>1
    <3> QED
      BY <1>1, <2>2, <3>1, <3>2 DEF Queued
  <2> QED
    BY <1>1, <1>2, <2>1, <2>2 DEF Queues
<1> QED
  BY <1>4, <1>5, <1>6

\* queue_get_nb leaves well-typed queues and returns a message that was queued.
LEMMA TakeEffect ==
    ASSUME TypeOK, NEW q \in Queues, NEW t \in Threads, Take(q, t)
    PROVE  /\ items' \in [Queues -> Seq(Msgs)]
           /\ lock' \in [Queues -> Threads \cup {"none"}]
           /\ Taken(q, t) \in Msgs \cup {"NULL"}
           /\ \A c : Queued(c)' => Queued(c)
           /\ \A c \in Msgs : q = "in" /\ Taken(q, t) = c => Queued(c)
<1>1. items \in [Queues -> Seq(Msgs)] /\ items[q] \in Seq(Msgs)
  BY DEF TypeOK
<1>2. lock' \in [Queues -> Threads \cup {"none"}]
  BY DEF TypeOK, Take, Unlock
<1>3. CASE items' = items
  <2>1. Taken(q, t) \in Msgs \cup {"NULL"}
    BY <1>1 DEF Taken
  <2>2. \A c : Queued(c)' => Queued(c)
    BY <1>3 DEF Queued
  <2>3. \A c \in Msgs : q = "in" /\ Taken(q, t) = c => Queued(c)
    BY <1>1 DEF Taken, Queued, Msgs, SignalMsgs, ErrorMsgs, CommandMsgs
  <2> QED
    BY <1>1, <1>2, <1>3, <2>1, <2>2, <2>3
<1>4. CASE /\ items[q] # <<>> /\ lock[q] = t
           /\ items' = [items EXCEPT ![q] = Tail(items[q])]
  <2>1. Tail(items[q]) \in Seq(Msgs) /\ Head(items[q]) \in Msgs
    BY <1>1, <1>4, TailLen
  <2>2. items' \in [Queues -> Seq(Msgs)]
    BY <1>1, <1>4, <2>1
  <2>3. \A c : Queued(c)' => Queued(c)
    BY <1>1, <1>4 DEF Queued, Queues
  <2>4. \A c \in Msgs : q = "in" /\ Taken(q, t) = c => Queued(c)
    BY <1>1, <1>4 DEF Taken, Queued
  <2> QED
    BY <1>2, <1>4, <2>1, <2>2, <2>3, <2>4 DEF Taken
<1>5. \/ items' = items
      \/ /\ items[q] # <<>> /\ lock[q] = t
         /\ items' = [items EXCEPT ![q] = Tail(items[q])]
  BY <1>1 DEF Take
<1> QED
  BY <1>3, <1>4, <1>5

\* What is queued for the thread does not depend on anything but the queues.
LEMMA QueuedSame ==
    ASSUME UNCHANGED items
    PROVE  \A c : Queued(c)' <=> Queued(c)
  BY DEF Queued

\* The row run_fsm dispatches, as a step of the thread.
LEMMA RunRowCases ==
    ASSUME TypeOK, PlaceInv, RunRow
    PROVE  \/ /\ state' = "ST_CONNECT" /\ pc' = "connect"
              /\ state \in {"ST_START", "ST_CONNECT", "ST_WAIT", "ST_WMARK1"}
              /\ state = "ST_WMARK1" => event # "E_MARKER"
           \/ /\ state' \in {"ST_SERVE", "ST_WAIT"} /\ pc' = "pump"
              /\ state \in {"ST_CONNECT", "ST_SERVE", "ST_WAIT"}
           \/ /\ state' = "ST_EXIT" /\ pc' = "exit"
              /\ state \in {"ST_SERVE", "ST_WAIT"}
              /\ event \in {"E_CMD_EXIT", "E_CMD_EXIT_CLEAN"}
           \/ /\ state' = "ST_WMARK1" /\ pc' = "flush_in"
              /\ state = "ST_EXIT" /\ event = "E_PUSHED_MARKERS"
           \/ /\ state' = "ST_WMARK2" /\ pc' = "flush_in"
              /\ \/ state = "ST_WMARK1" /\ event = "E_MARKER"
                 \/ /\ state = "ST_WMARK2"
                    /\ event \notin {"E_MARKER", "E_MARKERS", "E_QUIT"}
           \/ /\ state' = "ST_FCLEAN" /\ pc' = "destroy_in"
              /\ state = "ST_WMARK2" /\ event \in {"E_MARKER", "E_MARKERS", "E_QUIT"}
           \/ /\ state' = "ST_QUIT" /\ pc' = "done"
              /\ \/ state = "ST_EXIT" /\ event # "E_PUSHED_MARKERS"
                 \/ state = "ST_WMARK1" /\ event # "E_MARKER"
                 \/ state = "ST_FCLEAN"
<1>1. state \in States \ {"ST_QUIT", "ST_TRAP"}
  BY DEF PlaceInv, StatesAt, RunRow
<1>2. /\ state' = Transition(state, event).to
      /\ pc' = IF Transition(state, event).to = "ST_QUIT" THEN "done"
               ELSE Entry[Transition(state, event).do]
  BY DEF RunRow
<1> QED
  BY <1>1, <1>2, RowCases DEF Entry

-----------------------------------------------------------------------------
\* Every step keeps the types.
LEMMA TypeStep ==
    ASSUME OwnershipInv, [Next]_vars
    PROVE  TypeOK'
<1> USE DEF OwnershipInv, channelVars, workerVars, clientVars, TypeOK, Pcs, Threads
<1>1. ASSUME Start PROVE TypeOK'
  BY <1>1 DEF Start, InitClient
<1>2. ASSUME PumpUnconnected, UNCHANGED clientVars PROVE TypeOK'
  BY <1>2 DEF PumpUnconnected
<1>3. ASSUME PumpTimeout, UNCHANGED clientVars PROVE TypeOK'
  BY <1>3 DEF PumpTimeout
<1>4. ASSUME PumpMessage, UNCHANGED clientVars PROVE TypeOK'
  BY <1>4, KnownPushes DEF PumpMessage
<1>5. ASSUME PumpDisconnected, UNCHANGED clientVars PROVE TypeOK'
  BY <1>5, KnownPushes DEF PumpDisconnected, Events
<1>6. ASSUME PumpGone, UNCHANGED clientVars PROVE TypeOK'
  BY <1>6 DEF PumpGone, Events
<1>7. ASSUME PollLock, UNCHANGED clientVars PROVE TypeOK'
  BY <1>7 DEF PollLock, Lock
<1>8. ASSUME PollTake, UNCHANGED clientVars PROVE TypeOK'
  <2>1. /\ items' \in [Queues -> Seq(Msgs)]
        /\ lock' \in [Queues -> Threads \cup {"none"}]
    BY <1>8, TakeEffect DEF PollTake, Queues
  <2>2. event' \in Events
    BY <1>8 DEF PollTake, CommandEvent, Events
  <2> QED
    BY <1>8, <2>1, <2>2 DEF PollTake
<1>9. ASSUME RunRow, UNCHANGED clientVars PROVE TypeOK'
  <2>1. pc' \in Pcs /\ state' \in States /\ marks' = 0
    BY <1>9, RunRowCases DEF RunRow, States
  <2> QED
    BY <1>9, <2>1 DEF RunRow
<1>10. ASSUME ConnectOk, UNCHANGED clientVars PROVE TypeOK'
  BY <1>10 DEF ConnectOk, Events
<1>11. ASSUME ConnectError, UNCHANGED clientVars PROVE TypeOK'
  BY <1>11, KnownPushes DEF ConnectError, Events
<1>12. ASSUME Exit, UNCHANGED clientVars PROVE TypeOK'
  BY <1>12, KnownPushes DEF Exit, Events
<1>13. ASSUME PushLock, UNCHANGED clientVars PROVE TypeOK'
  BY <1>13, NextPush DEF PushLock, Lock, Pushing
<1>14. ASSUME PushPut, UNCHANGED clientVars PROVE TypeOK'
  <2>1. Head(todo).queue \in Queues /\ Head(todo).msg \in Msgs
    BY <1>14, NextPush DEF PushPut, Pushing
  <2>2. /\ items' \in [Queues -> Seq(Msgs)]
        /\ lock' \in [Queues -> Threads \cup {"none"}]
    BY <1>14, <2>1, PutEffect DEF PushPut
  <2> QED
    BY <1>14, <2>2, NextPush DEF PushPut, Pushing
<1>15. ASSUME NEW q \in Queues, FlushLock(q), UNCHANGED clientVars PROVE TypeOK'
  BY <1>15 DEF FlushLock, Lock, FlushPc
<1>16. ASSUME NEW q \in Queues, FlushTake(q), UNCHANGED clientVars PROVE TypeOK'
  <2>1. /\ items' \in [Queues -> Seq(Msgs)]
        /\ lock' \in [Queues -> Threads \cup {"none"}]
    BY <1>16, TakeEffect DEF FlushTake
  <2>2. event' \in Events /\ marks' \in 0 .. 2 /\ pc' \in Pcs
    BY <1>16 DEF FlushTake, FlushedOne, FlushPc, MarkerEvent, Events, PlaceInv
  <2> QED
    BY <1>16, <2>1, <2>2 DEF FlushTake
<1>17. ASSUME DestroyIn, UNCHANGED clientVars PROVE TypeOK'
  BY <1>17 DEF DestroyIn, Destroy, Blocks, Queues
<1>18. ASSUME DestroyOut, UNCHANGED clientVars PROVE TypeOK'
  BY <1>18 DEF DestroyOut, Destroy, Blocks, Queues
<1>19. ASSUME FreeChannel, UNCHANGED clientVars PROVE TypeOK'
  BY <1>19 DEF FreeChannel, Events, Blocks
<1>20. ASSUME PopBusy, UNCHANGED workerVars PROVE TypeOK'
  BY <1>20 DEF PopBusy
<1>21. ASSUME PopLock, UNCHANGED workerVars PROVE TypeOK'
  BY <1>21 DEF PopLock, Lock
<1>22. ASSUME PopTake, UNCHANGED workerVars PROVE TypeOK'
  <2>1. /\ items' \in [Queues -> Seq(Msgs)]
        /\ lock' \in [Queues -> Threads \cup {"none"}]
        /\ got' \in Msgs \cup {"NULL"}
    BY <1>22, TakeEffect DEF PopTake, Queues
  <2> QED
    BY <1>22, <2>1 DEF PopTake
<1>23. ASSUME PushMsg, UNCHANGED workerVars PROVE TypeOK'
  BY <1>23, ClientAssumption DEF PushMsg, PushLockIn, Lock, CommandMsgs
<1>24. ASSUME Release, UNCHANGED workerVars PROVE TypeOK'
  BY <1>24 DEF Release, PushLockIn, Lock, CommandMsgs
<1>25. ASSUME PushPutIn, UNCHANGED workerVars PROVE TypeOK'
  <2>1. cmd \in Msgs
    BY <1>25 DEF PushPutIn, PlaceInv, Msgs
  <2>2. /\ items' \in [Queues -> Seq(Msgs)]
        /\ lock' \in [Queues -> Threads \cup {"none"}]
    BY <1>25, <2>1, PutEffect DEF PushPutIn, Queues
  <2> QED
    BY <1>25, <2>2 DEF PushPutIn
<1>26. ASSUME UNCHANGED vars PROVE TypeOK'
  BY <1>26 DEF vars
<1> QED
  BY <1>1, <1>2, <1>3, <1>4, <1>5, <1>6, <1>7, <1>8, <1>9, <1>10,
     <1>11, <1>12, <1>13, <1>14, <1>15, <1>16, <1>17, <1>18, <1>19, <1>20,
     <1>21, <1>22, <1>23, <1>24, <1>25, <1>26
  DEF Next, Over, ClientStep, WorkerStep, Client, PopMsg, Worker, Pump, Poll,
      Connect, Flush, Cleanup

\* Every step keeps the mutexes with the operations that hold them.
LEMMA LockStep ==
    ASSUME OwnershipInv, [Next]_vars
    PROVE  LockInv'
<1> USE DEF OwnershipInv, channelVars, workerVars, clientVars, LockInv, PlaceInv,
           Pushing, TypeOK, Pcs, Queues, Threads
<1>1. ASSUME Start PROVE LockInv'
  BY <1>1 DEF Start, InitClient
<1>2. ASSUME PumpUnconnected, UNCHANGED clientVars PROVE LockInv'
  BY <1>2 DEF PumpUnconnected
<1>3. ASSUME PumpTimeout, UNCHANGED clientVars PROVE LockInv'
  BY <1>3 DEF PumpTimeout
<1>4. ASSUME PumpMessage, UNCHANGED clientVars PROVE LockInv'
  BY <1>4 DEF PumpMessage
<1>5. ASSUME PumpDisconnected, UNCHANGED clientVars PROVE LockInv'
  BY <1>5 DEF PumpDisconnected
<1>6. ASSUME PumpGone, UNCHANGED clientVars PROVE LockInv'
  BY <1>6 DEF PumpGone
<1>7. ASSUME PollLock, UNCHANGED clientVars PROVE LockInv'
  BY <1>7 DEF PollLock, Lock
<1>8. ASSUME PollTake, UNCHANGED clientVars PROVE LockInv'
  BY <1>8 DEF PollTake, Take, Taken, Unlock, CommandEvent
<1>9. ASSUME RunRow, UNCHANGED clientVars PROVE LockInv'
  BY <1>9 DEF RunRow
<1>10. ASSUME ConnectOk, UNCHANGED clientVars PROVE LockInv'
  BY <1>10 DEF ConnectOk
<1>11. ASSUME ConnectError, UNCHANGED clientVars PROVE LockInv'
  BY <1>11 DEF ConnectError
<1>12. ASSUME Exit, UNCHANGED clientVars PROVE LockInv'
  BY <1>12 DEF Exit
<1>13. ASSUME PushLock, UNCHANGED clientVars PROVE LockInv'
  BY <1>13 DEF PushLock, Lock
<1>14. ASSUME PushPut, UNCHANGED clientVars PROVE LockInv'
  BY <1>14 DEF PushPut, Put, Unlock
<1>15. ASSUME NEW q \in Queues, FlushLock(q), UNCHANGED clientVars PROVE LockInv'
  BY <1>15 DEF FlushLock, Lock, FlushPc
<1>16. ASSUME NEW q \in Queues, FlushTake(q), UNCHANGED clientVars PROVE LockInv'
  BY <1>16 DEF FlushTake, Take, Taken, Unlock, FlushPc, FlushedOne, MarkerEvent
<1>17. ASSUME DestroyIn, UNCHANGED clientVars PROVE LockInv'
  BY <1>17 DEF DestroyIn, Destroy
<1>18. ASSUME DestroyOut, UNCHANGED clientVars PROVE LockInv'
  BY <1>18 DEF DestroyOut, Destroy
<1>19. ASSUME FreeChannel, UNCHANGED clientVars PROVE LockInv'
  BY <1>19 DEF FreeChannel
<1>20. ASSUME PopBusy, UNCHANGED workerVars PROVE LockInv'
  BY <1>20 DEF PopBusy
<1>21. ASSUME PopLock, UNCHANGED workerVars PROVE LockInv'
  BY <1>21 DEF PopLock, Lock
<1>22. ASSUME PopTake, UNCHANGED workerVars PROVE LockInv'
  BY <1>22 DEF PopTake, Take, Taken, Unlock
<1>23. ASSUME PushMsg, UNCHANGED workerVars PROVE LockInv'
  BY <1>23 DEF PushMsg, PushLockIn, Lock
<1>24. ASSUME Release, UNCHANGED workerVars PROVE LockInv'
  BY <1>24 DEF Release, PushLockIn, Lock
<1>25. ASSUME PushPutIn, UNCHANGED workerVars PROVE LockInv'
  BY <1>25 DEF PushPutIn, Put, Unlock
<1>26. ASSUME UNCHANGED vars PROVE LockInv'
  BY <1>26 DEF vars
<1> QED
  BY <1>1, <1>2, <1>3, <1>4, <1>5, <1>6, <1>7, <1>8, <1>9, <1>10,
     <1>11, <1>12, <1>13, <1>14, <1>15, <1>16, <1>17, <1>18, <1>19, <1>20,
     <1>21, <1>22, <1>23, <1>24, <1>25, <1>26
  DEF Next, Over, ClientStep, WorkerStep, Client, PopMsg, Worker, Pump, Poll,
      Connect, Flush, Cleanup

\* Every step keeps run_fsm in a place of the code that fits its state.
LEMMA PlaceStep ==
    ASSUME OwnershipInv, [Next]_vars
    PROVE  PlaceInv'
<1> USE DEF OwnershipInv, channelVars, workerVars, clientVars,
           LockInv, PlaceInv, StatesAt, Running, Unconnected, Pushing, NoBusAfterExit,
           Exiting, TypeOK, States
<1>1. ASSUME Start PROVE PlaceInv'
  BY <1>1 DEF Start, InitClient
<1>2. ASSUME PumpUnconnected, UNCHANGED clientVars PROVE PlaceInv'
  BY <1>2 DEF PumpUnconnected
<1>3. ASSUME PumpTimeout, UNCHANGED clientVars PROVE PlaceInv'
  BY <1>3 DEF PumpTimeout
<1>4. ASSUME PumpMessage, UNCHANGED clientVars PROVE PlaceInv'
  <2>1. \A m \in BusMessages : HandleMessage(m) = <<>> \/ Len(HandleMessage(m)) = 1
    BY DEF BusMessages, HandleMessage
  <2> QED
    BY <1>4, <2>1 DEF PumpMessage
<1>5. ASSUME PumpDisconnected, UNCHANGED clientVars PROVE PlaceInv'
  BY <1>5 DEF PumpDisconnected
<1>6. ASSUME PumpGone, UNCHANGED clientVars PROVE PlaceInv'
  BY <1>6 DEF PumpGone
<1>7. ASSUME PollLock, UNCHANGED clientVars PROVE PlaceInv'
  BY <1>7 DEF PollLock, Lock
<1>8. ASSUME PollTake, UNCHANGED clientVars PROVE PlaceInv'
  BY <1>8 DEF PollTake, Take, Taken, Unlock, CommandEvent
<1>9. ASSUME RunRow, UNCHANGED clientVars PROVE PlaceInv'
  BY <1>9, RunRowCases DEF RunRow
<1>10. ASSUME ConnectOk, UNCHANGED clientVars PROVE PlaceInv'
  BY <1>10 DEF ConnectOk
<1>11. ASSUME ConnectError, UNCHANGED clientVars PROVE PlaceInv'
  BY <1>11 DEF ConnectError
<1>12. ASSUME Exit, UNCHANGED clientVars PROVE PlaceInv'
  <2>1. \A e : ExitPushes(e) # <<>>
    BY DEF ExitPushes
  <2> QED
    BY <1>12, <2>1 DEF Exit
<1>13. ASSUME PushLock, UNCHANGED clientVars PROVE PlaceInv'
  BY <1>13 DEF PushLock, Lock
<1>14. ASSUME PushPut, UNCHANGED clientVars PROVE PlaceInv'
  BY <1>14, NextPush DEF PushPut
<1>15. ASSUME NEW q \in Queues, FlushLock(q), UNCHANGED clientVars PROVE PlaceInv'
  BY <1>15 DEF FlushLock, Lock, FlushPc
<1>16. ASSUME NEW q \in Queues, FlushTake(q), UNCHANGED clientVars PROVE PlaceInv'
  BY <1>16 DEF FlushTake, Take, Taken, Unlock, FlushPc, FlushedOne, MarkerEvent
<1>17. ASSUME DestroyIn, UNCHANGED clientVars PROVE PlaceInv'
  BY <1>17 DEF DestroyIn, Destroy
<1>18. ASSUME DestroyOut, UNCHANGED clientVars PROVE PlaceInv'
  BY <1>18 DEF DestroyOut, Destroy
<1>19. ASSUME FreeChannel, UNCHANGED clientVars PROVE PlaceInv'
  BY <1>19 DEF FreeChannel
<1>20. ASSUME PopBusy, UNCHANGED workerVars PROVE PlaceInv'
  BY <1>20 DEF PopBusy
<1>21. ASSUME PopLock, UNCHANGED workerVars PROVE PlaceInv'
  BY <1>21 DEF PopLock, Lock
<1>22. ASSUME PopTake, UNCHANGED workerVars PROVE PlaceInv'
  BY <1>22 DEF PopTake, Take, Taken, Unlock
<1>23. ASSUME PushMsg, UNCHANGED workerVars PROVE PlaceInv'
  BY <1>23, ClientAssumption DEF PushMsg, PushLockIn, Lock, CommandMsgs
<1>24. ASSUME Release, UNCHANGED workerVars PROVE PlaceInv'
  BY <1>24 DEF Release, PushLockIn, Lock, CommandMsgs
<1>25. ASSUME PushPutIn, UNCHANGED workerVars PROVE PlaceInv'
  BY <1>25 DEF PushPutIn, Put, Unlock
<1>26. ASSUME UNCHANGED vars PROVE PlaceInv'
  BY <1>26 DEF vars
<1> QED
  BY <1>1, <1>2, <1>3, <1>4, <1>5, <1>6, <1>7, <1>8, <1>9, <1>10,
     <1>11, <1>12, <1>13, <1>14, <1>15, <1>16, <1>17, <1>18, <1>19, <1>20,
     <1>21, <1>22, <1>23, <1>24, <1>25, <1>26
  DEF Next, Over, ClientStep, WorkerStep, Client, PopMsg, Worker, Pump, Poll,
      Connect, Flush, Cleanup

\* Every step keeps the memory of the channel with its owner.
LEMMA FreeStep ==
    ASSUME OwnershipInv, [Next]_vars
    PROVE  FreeInv'
<1> USE DEF OwnershipInv, channelVars, workerVars, clientVars,
           FreeInv, PlaceInv, LockInv, Pushing, StatesAt, Running, Unconnected,
           FreedAt, Blocks, Queues, TypeOK
<1>1. ASSUME Start PROVE FreeInv'
  BY <1>1, QueuedSame DEF Start, InitClient
<1>2. ASSUME PumpUnconnected, UNCHANGED clientVars PROVE FreeInv'
  BY <1>2, QueuedSame DEF PumpUnconnected
<1>3. ASSUME PumpTimeout, UNCHANGED clientVars PROVE FreeInv'
  BY <1>3, QueuedSame DEF PumpTimeout
<1>4. ASSUME PumpMessage, UNCHANGED clientVars PROVE FreeInv'
  BY <1>4, QueuedSame DEF PumpMessage
<1>5. ASSUME PumpDisconnected, UNCHANGED clientVars PROVE FreeInv'
  BY <1>5, QueuedSame DEF PumpDisconnected
<1>6. ASSUME PumpGone, UNCHANGED clientVars PROVE FreeInv'
  BY <1>6, QueuedSame DEF PumpGone
<1>7. ASSUME PollLock, UNCHANGED clientVars PROVE FreeInv'
  BY <1>7, QueuedSame DEF PollLock, Lock
<1>8. ASSUME PollTake, UNCHANGED clientVars PROVE FreeInv'
  <2>1. Queued("BMSG_EXIT_CLEAN")' => Queued("BMSG_EXIT_CLEAN")
    BY <1>8, TakeEffect DEF PollTake, Threads
  <2>2. event' = "E_CMD_EXIT_CLEAN" => Queued("BMSG_EXIT_CLEAN")
    BY <1>8, TakeEffect DEF PollTake, CommandEvent, Threads, Msgs, CommandMsgs
  <2>3. event' # "E_PUSHED_MARKERS"
    BY <1>8 DEF PollTake, CommandEvent
  <2> QED
    BY <1>8, <2>1, <2>2, <2>3 DEF PollTake
<1>9. ASSUME RunRow, UNCHANGED clientVars PROVE FreeInv'
  BY <1>9, RunRowCases, QueuedSame DEF RunRow
<1>10. ASSUME ConnectOk, UNCHANGED clientVars PROVE FreeInv'
  BY <1>10, QueuedSame DEF ConnectOk
<1>11. ASSUME ConnectError, UNCHANGED clientVars PROVE FreeInv'
  BY <1>11, QueuedSame DEF ConnectError
<1>12. ASSUME Exit, UNCHANGED clientVars PROVE FreeInv'
  BY <1>12, QueuedSame DEF Exit
<1>13. ASSUME PushLock, UNCHANGED clientVars PROVE FreeInv'
  BY <1>13, QueuedSame DEF PushLock, Lock
<1>14. ASSUME PushPut, UNCHANGED clientVars PROVE FreeInv'
  <2>1. Head(todo).queue \in Queues /\ Head(todo).msg \in Msgs \ CommandMsgs
    BY <1>14, NextPush DEF PushPut
  <2>2. Queued("BMSG_EXIT_CLEAN")' => Queued("BMSG_EXIT_CLEAN")
    BY <1>14, <2>1, PutEffect DEF PushPut, CommandMsgs
  <2> QED
    BY <1>14, <2>2 DEF PushPut
<1>15. ASSUME NEW q \in Queues, FlushLock(q), UNCHANGED clientVars PROVE FreeInv'
  BY <1>15, QueuedSame DEF FlushLock, Lock, FlushPc
<1>16. ASSUME NEW q \in Queues, FlushTake(q), UNCHANGED clientVars PROVE FreeInv'
  <2>1. Queued("BMSG_EXIT_CLEAN")' => Queued("BMSG_EXIT_CLEAN")
    BY <1>16, TakeEffect DEF FlushTake, Threads
  <2> QED
    BY <1>16, <2>1 DEF FlushTake, FlushPc, FlushedOne, MarkerEvent
<1>17. ASSUME DestroyIn, UNCHANGED clientVars PROVE FreeInv'
  BY <1>17, QueuedSame DEF DestroyIn, Destroy
<1>18. ASSUME DestroyOut, UNCHANGED clientVars PROVE FreeInv'
  BY <1>18, QueuedSame DEF DestroyOut, Destroy
<1>19. ASSUME FreeChannel, UNCHANGED clientVars PROVE FreeInv'
  BY <1>19, QueuedSame DEF FreeChannel
<1>20. ASSUME PopBusy, UNCHANGED workerVars PROVE FreeInv'
  BY <1>20, QueuedSame DEF PopBusy
<1>21. ASSUME PopLock, UNCHANGED workerVars PROVE FreeInv'
  BY <1>21, QueuedSame DEF PopLock, Lock
<1>22. ASSUME PopTake, UNCHANGED workerVars PROVE FreeInv'
  <2>1. Queued("BMSG_EXIT_CLEAN")' => Queued("BMSG_EXIT_CLEAN")
    BY <1>22, TakeEffect DEF PopTake, Threads
  <2> QED
    BY <1>22, <2>1 DEF PopTake
<1>23. ASSUME PushMsg, UNCHANGED workerVars PROVE FreeInv'
  BY <1>23, QueuedSame DEF PushMsg, PushLockIn, Lock
<1>24. ASSUME Release, UNCHANGED workerVars PROVE FreeInv'
  BY <1>24, QueuedSame DEF Release, PushLockIn, Lock
<1>25. ASSUME PushPutIn, UNCHANGED workerVars PROVE FreeInv'
  <2>1. cmd \in Msgs
    BY <1>25 DEF PushPutIn, PlaceInv, Msgs
  <2>2. Queued("BMSG_EXIT_CLEAN")' =>
          Queued("BMSG_EXIT_CLEAN") \/ cmd = "BMSG_EXIT_CLEAN"
    BY <1>25, <2>1, PutEffect DEF PushPutIn
  <2> QED
    BY <1>25, <2>2 DEF PushPutIn
<1>26. ASSUME UNCHANGED vars PROVE FreeInv'
  BY <1>26, QueuedSame DEF vars
<1> QED
  BY <1>1, <1>2, <1>3, <1>4, <1>5, <1>6, <1>7, <1>8, <1>9, <1>10,
     <1>11, <1>12, <1>13, <1>14, <1>15, <1>16, <1>17, <1>18, <1>19, <1>20,
     <1>21, <1>22, <1>23, <1>24, <1>25, <1>26
  DEF Next, Over, ClientStep, WorkerStep, Client, PopMsg, Worker, Pump, Poll,
      Connect, Flush, Cleanup

-----------------------------------------------------------------------------
(* The theorems.                                                           *)

\* OwnershipInv holds at the start and every step keeps it.
LEMMA OwnershipInvInductive ==
    /\ Init => OwnershipInv
    /\ OwnershipInv /\ [Next]_vars => OwnershipInv'
<1>1. Init => OwnershipInv
  <2> SUFFICES ASSUME Init PROVE OwnershipInv
    OBVIOUS
  <2> USE DEF Init, ChannelInit, WorkerInit, ClientInit
  <2>1. TypeOK
    BY DEF TypeOK, Queues, Threads, Blocks, Pcs, States, Events
  <2>2. LockInv
    BY DEF LockInv, Queues
  <2>3. PlaceInv
    BY DEF PlaceInv, StatesAt, Pushing, NoBusAfterExit, Exiting
  <2>4. FreeInv
    BY DEF FreeInv, FreedAt, Queued, Queues
  <2> QED
    BY <2>1, <2>2, <2>3, <2>4 DEF OwnershipInv
<1>2. OwnershipInv /\ [Next]_vars => OwnershipInv'
  BY TypeStep, LockStep, PlaceStep, FreeStep DEF OwnershipInv
<1> QED
  BY <1>1, <1>2

\* Whatever is lost, every state reached satisfies OwnershipInv.
THEOREM OwnershipInvariant == Spec => []OwnershipInv
  BY OwnershipInvInductive, PTL DEF Spec

\* The variables keep their types.
THEOREM TypeCorrect == Spec => []TypeOK
<1>1. OwnershipInv => TypeOK
  BY DEF OwnershipInv
<1> QED
  BY <1>1, OwnershipInvariant, PTL

\* Neither thread touches what ActionFinalCleanup has freed, and nothing is freed
\* twice: for every size of the queues, every set of commands, a bus that goes
\* away at any time and queue nodes that cannot be allocated.
THEOREM NothingFreedIsTouched == Spec => []NoUseAfterFree
<1>1. OwnershipInv => NoUseAfterFree
  BY DEF OwnershipInv, NoUseAfterFree, FreeInv, PlaceInv, WorkerTouches, TypeOK,
         ClientTouches, FreedAt, StatesAt, Unconnected, Running, Blocks, Queues
<1> QED
  BY <1>1, OwnershipInvariant, PTL

\* Until the client has handed the channel over, a message leaves `out' only to
\* the client: the browser thread drops nothing that was sent to the page.
THEOREM NothingSentIsDropped == Spec => ClientAloneTakes
<1>1. ASSUME OwnershipInv, [Next]_vars,
             cpc' # "done", Len(items'["out"]) < Len(items["out"])
      PROVE  cpc = "pop" /\ got' = Head(items["out"])
  <2> USE DEF OwnershipInv, channelVars, workerVars, clientVars
  <2>1. items["out"] \in Seq(Msgs) /\ Len(items["out"]) \in Nat
    BY <1>1 DEF TypeOK, Queues
  <2>2. items'["out"] # items["out"]
    BY <1>1, <2>1
  <2>3. ASSUME NEW q \in Queues, NEW m, Put(q, m) PROVE FALSE
    <3>1. items'["out"] = Append(items["out"], m)
      BY <2>2, <2>3, <1>1 DEF Put, TypeOK, Queues
    <3>2. Len(Append(items["out"], m)) = Len(items["out"]) + 1
      BY <2>1
    <3> QED
      BY <1>1, <2>1, <3>1, <3>2
  <2>4. ASSUME PushPut PROVE FALSE
    BY <2>3, <2>4, <1>1, NextPush DEF PushPut, Pushing
  <2>5. ASSUME PushPutIn PROVE FALSE
    BY <2>3, <2>5 DEF PushPutIn, Queues
  <2>6. ASSUME PollTake PROVE FALSE
    BY <2>2, <2>6, <1>1 DEF PollTake, Take, TypeOK, Queues
  <2>7. ASSUME NEW q \in Queues, FlushTake(q), UNCHANGED clientVars PROVE FALSE
    BY <2>7, <1>1 DEF FlushTake, FlushPc, PlaceInv, StatesAt, Unconnected, FreeInv
  <2>8. ASSUME PopTake PROVE cpc = "pop" /\ got' = Head(items["out"])
    <3>1. lock["out"] = "client"
      BY <2>8, <1>1 DEF PopTake, LockInv
    <3>2. items["out"] # <<>>
      BY <2>2, <2>8, <1>1, <3>1 DEF PopTake, Take, TypeOK, Queues
    <3> QED
      BY <2>8, <3>1, <3>2 DEF PopTake, Taken
  <2>9. \/ UNCHANGED items \/ PushPut \/ PushPutIn \/ PollTake \/ PopTake
        \/ UNCHANGED clientVars /\ \E q \in Queues : FlushTake(q)
    BY <1>1 DEF Next, Over, vars, Start, InitClient, ClientStep, Client, PopMsg,
         PopBusy, PopLock, PushMsg, Release, PushLockIn, WorkerStep, Worker, Pump,
         PumpUnconnected, PumpTimeout, PumpMessage, PumpDisconnected, PumpGone,
         Poll, PollLock, RunRow, Connect, ConnectOk, ConnectError, Exit, PushLock,
         Flush, FlushLock, Cleanup, DestroyIn, DestroyOut, FreeChannel
  <2> QED
    BY <2>2, <2>4, <2>5, <2>6, <2>7, <2>8, <2>9
<1>2. OwnershipInv /\ [Next]_vars =>
        [ cpc' # "done" /\ Len(items'["out"]) < Len(items["out"])
          => cpc = "pop" /\ got' = Head(items["out"]) ]_vars
  BY <1>1
<1> QED
  BY <1>2, OwnershipInvariant, PTL DEF Spec, ClientAloneTakes

\* A step of the drain takes from a queue or leaves it alone: the client has handed the
\* channel over, and without a connection no filter runs.
LEMMA DrainStep ==
    ASSUME OwnershipInv, [Next]_vars, Draining, NEW q \in Queues
    PROVE  items'[q] = items[q] \/ (items[q] # <<>> /\ items'[q] = Tail(items[q]))
<1> USE DEF OwnershipInv, channelVars, workerVars, clientVars
<1>1. cpc = "done" /\ ~ Pushing
  BY DEF FreeInv, PlaceInv, StatesAt, Draining, Pushing, Running, Exiting
<1>2. ASSUME NEW p \in Queues, NEW t, Take(p, t)
      PROVE  items'[q] = items[q] \/ (items[q] # <<>> /\ items'[q] = Tail(items[q]))
  BY <1>2 DEF Take, TypeOK
<1>3. \/ UNCHANGED items \/ PollTake
      \/ \E p \in Queues : FlushTake(p)
  BY <1>1 DEF Next, Over, vars, Start, InitClient, ClientStep, Client, PopMsg,
       PopBusy, PopLock, PopTake, PushMsg, Release, PushLockIn, PushPutIn, WorkerStep,
       Worker, Pump, PumpUnconnected, PumpTimeout, PumpMessage, PumpDisconnected,
       PumpGone, Poll, PollLock, RunRow, Connect, ConnectOk, ConnectError, Exit,
       PushLock, PushPut, Pushing, Flush, FlushLock, Cleanup, DestroyIn, DestroyOut,
       FreeChannel
<1> QED
  BY <1>2, <1>3 DEF PollTake, FlushTake, Queues

\* Once the thread drains the queues, no step adds to either of them, whatever message
\* the queues lost before: FlushQueues works on backlogs that only shrink.
THEOREM DrainOnlyShrinks == Spec => DrainOnly
<1>1. OwnershipInv /\ [Next]_vars =>
        [ Draining => \A q \in Queues :
            items'[q] = items[q] \/ (items[q] # <<>> /\ items'[q] = Tail(items[q])) ]_vars
  BY DrainStep
<1> QED
  BY <1>1, OwnershipInvariant, PTL DEF Spec, DrainOnly

\* A thread that ends has freed the whole channel or nothing of it: the rows into
\* ST_QUIT start before the first free or after the last.
LEMMA WholeStep ==
    ASSUME OwnershipInv, WholeOrNothing, [Next]_vars
    PROVE  WholeOrNothing'
<1> USE DEF OwnershipInv, channelVars, workerVars, clientVars, WholeOrNothing
<1>1. CASE pc = "done"
  <2>1. UNCHANGED <<pc, freed>>
    BY <1>1 DEF Next, Over, vars, Start, InitClient, PlaceInv, ClientStep, Client,
       PopMsg, PopBusy, PopLock, PopTake, PushMsg, Release, PushLockIn, PushPutIn,
       WorkerStep, Worker, Pump, PumpUnconnected, PumpTimeout, PumpMessage,
       PumpDisconnected, PumpGone, Poll, PollLock, PollTake, RunRow, Connect, ConnectOk,
       ConnectError, Exit, PushLock, PushPut, Flush, FlushLock, FlushTake, FlushPc,
       Cleanup, DestroyIn, DestroyOut, FreeChannel
  <2>2. cpc = "done" => UNCHANGED cmd
    BY <1>1 DEF Next, Over, vars, Start, InitClient, PlaceInv, ClientStep, Client,
       PopMsg, PopBusy, PopLock, PopTake, PushMsg, Release, PushLockIn, PushPutIn,
       WorkerStep
  <2>3. freed # {} => cpc = "done"
    BY DEF FreeInv
  <2> QED
    BY <1>1, <2>1, <2>2, <2>3
<1>2. CASE pc # "done" /\ pc' = "done"
  <2>1. RunRow /\ UNCHANGED clientVars
    BY <1>2 DEF Next, Over, vars, Start, InitClient, ClientStep, WorkerStep, Worker, Pump,
       PumpUnconnected, PumpTimeout, PumpMessage, PumpDisconnected, PumpGone, Poll,
       PollLock, PollTake, Connect, ConnectOk, ConnectError, Exit, PushLock, PushPut,
       Flush, FlushLock, FlushTake, FlushPc, FlushedOne, Cleanup, DestroyIn, DestroyOut,
       FreeChannel
  <2>2. freed' = FreedAt("row", state)
    BY <2>1 DEF RunRow, FreeInv
  <2>3. freed' # {} => cpc' = "done" /\ cmd' = "BMSG_EXIT_CLEAN"
    BY <2>1 DEF FreeInv, RunRow
  <2> QED
    BY <2>2, <2>3 DEF FreedAt
<1> QED
  BY <1>1, <1>2

\* A thread that ends, even one that lost the messages of its own exit sequence, leaves
\* the whole channel or nothing of it, and frees it only for "exit & clean".
THEOREM AllOrNothingIsFreed == Spec => []WholeOrNothing
<1>1. Init => WholeOrNothing
  BY DEF Init, WorkerInit, WholeOrNothing
<1>2. OwnershipInv /\ WholeOrNothing /\ [Next]_vars => WholeOrNothing'
  BY WholeStep
<1> QED
  BY <1>1, <1>2, OwnershipInvariant, PTL DEF Spec

-----------------------------------------------------------------------------
(* The refinement.                                                         *)

\* A step that neither starts the thread nor moves the client nor frees anything
\* is a stutter for ChannelOwnership.
LEMMA Stutter ==
    ASSUME pc # "none", pc' # "none", UNCHANGED <<cpc, freed>>
    PROVE  UNCHANGED <<Owner, cpc \in {"pop", "push"}>>
  BY DEF Owner

\* The browser thread reclaims the channel with the first queue it destroys and
\* does nothing else ChannelOwnership can see.
LEMMA WorkerRefines ==
    ASSUME OwnershipInv, WorkerStep
    PROVE  [Ownership!Next]_<<Owner, cpc \in {"pop", "push"}>>
<1> USE DEF OwnershipInv, channelVars, workerVars, clientVars
<1>1. pc # "none" /\ pc' # "none" /\ UNCHANGED cpc
  BY RunRowCases DEF WorkerStep, Worker, Pump, PumpUnconnected, PumpTimeout,
     PumpMessage, PumpDisconnected, PumpGone, Poll, PollLock, PollTake, RunRow,
     Connect, ConnectOk, ConnectError, Exit, PushLock, PushPut, Flush, FlushLock,
     FlushTake, FlushPc, FlushedOne, Cleanup, DestroyIn, DestroyOut, FreeChannel
<1>2. CASE DestroyIn
  <2>1. freed = {} /\ freed' = {"in"} /\ cpc = "done"
    BY <1>2 DEF DestroyIn, Destroy, FreeInv, FreedAt, PlaceInv, StatesAt
  <2> QED
    BY <1>1, <2>1 DEF Owner, Ownership!Next, Ownership!Reclaim
<1>3. CASE DestroyOut \/ FreeChannel
  <2>1. freed # {} /\ freed' # {}
    BY <1>3 DEF DestroyOut, FreeChannel, Destroy, FreeInv, FreedAt
  <2> QED
    BY <1>1, <2>1 DEF Owner
<1>4. CASE UNCHANGED freed
  BY <1>1, <1>4, Stutter
<1> QED
  BY <1>2, <1>3, <1>4 DEF WorkerStep, Worker, Pump, PumpUnconnected, PumpTimeout,
     PumpMessage, PumpDisconnected, PumpGone, Poll, PollLock, PollTake, RunRow,
     Connect, ConnectOk, ConnectError, Exit, PushLock, PushPut, Flush, FlushLock,
     FlushTake, Cleanup

\* The client enters and leaves its operations on the channel and hands it over
\* at the end of the one that releases it.
LEMMA ClientRefines ==
    ASSUME OwnershipInv, ClientStep
    PROVE  [Ownership!Next]_<<Owner, cpc \in {"pop", "push"}>>
<1> USE DEF OwnershipInv, channelVars, workerVars, clientVars
<1>1. cpc \notin {"new", "done"} /\ pc # "none" /\ UNCHANGED <<pc, freed>> /\ freed = {}
  BY DEF ClientStep, Client, PopMsg, PopBusy, PopLock, PopTake, PushMsg, Release,
     PushLockIn, PushPutIn, PlaceInv, FreeInv
<1>2. CASE PopLock \/ PushMsg \/ Release
  BY <1>1, <1>2 DEF PopLock, PushMsg, Release, PushLockIn, Owner, Ownership!Next,
     Ownership!Enter
<1>3. CASE PopTake
  BY <1>1, <1>3 DEF PopTake, Owner, Ownership!Next, Ownership!Leave
<1>4. CASE PushPutIn /\ cpc' = "idle"
  BY <1>1, <1>4 DEF PushPutIn, Owner, Ownership!Next, Ownership!Leave
<1>5. CASE PushPutIn /\ cpc' = "done"
  BY <1>1, <1>5 DEF PushPutIn, Owner, Ownership!Next, Ownership!HandOver
<1>6. CASE PopBusy
  BY <1>1, <1>6 DEF PopBusy, Owner
<1> QED
  BY <1>2, <1>3, <1>4, <1>5, <1>6 DEF ClientStep, Client, PopMsg, PushPutIn

\* The system of client, thread and queues implements ChannelOwnership.
THEOREM OwnershipRefinement == Spec => OwnershipSpec
<1>1. Init => Ownership!Init
  BY DEF Init, WorkerInit, ClientInit, Owner, Ownership!Init
<1>2. ASSUME OwnershipInv, [Next]_vars
      PROVE  [Ownership!Next]_<<Owner, cpc \in {"pop", "push"}>>
  <2>1. CASE Start
    BY <1>2, <2>1 DEF Start, InitClient, Owner, OwnershipInv, FreeInv, PlaceInv,
       channelVars, Ownership!Next, Ownership!Create
  <2>2. CASE ClientStep
    BY <1>2, <2>2, ClientRefines
  <2>3. CASE WorkerStep
    BY <1>2, <2>3, WorkerRefines
  <2>4. CASE UNCHANGED vars
    BY <2>4 DEF vars, channelVars, workerVars, clientVars, Owner
  <2> QED
    BY <1>2, <2>1, <2>2, <2>3, <2>4 DEF Next, Over
<1> QED
  BY <1>1, <1>2, OwnershipInvariant, PTL DEF Spec, OwnershipSpec, Ownership!Spec
=============================================================================
