---------------------------- MODULE ShutdownProofs ----------------------------
(***************************************************************************)
(* When no queue node fails to be allocated, ShutdownInv is an invariant   *)
(* of MdnsSystem: the markers arrive behind everything else, so that the   *)
(* clean-up finds empty queues and happens if and only if it was asked for.*)
(***************************************************************************)
EXTENDS OwnershipProofs

-----------------------------------------------------------------------------
(* Queues before, in and after the exit sequence.                          *)

\* Taking a message keeps a queue plain, and the message is a plain one.
LEMMA PlainTail ==
    ASSUME NEW s \in Seq(Msgs), s # <<>>, Plain(s)
    PROVE  /\ Plain(Tail(s))
           /\ Head(s) \notin {"BMSG_EXITED", "BMSG_FLUSH_MARKER"}
<1>1. Len(s) \in Nat /\ Len(s) > 0 /\ Len(Tail(s)) = Len(s) - 1 /\ Head(s) = s[1]
  OBVIOUS
<1>2. \A i \in 1 .. Len(Tail(s)) : Tail(s)[i] = s[i + 1]
  OBVIOUS
<1> QED
  BY <1>1, <1>2 DEF Plain

\* The elements of a tail.
LEMMA TailElements ==
    ASSUME NEW S, NEW s \in Seq(S), s # <<>>
    PROVE  /\ Len(s) \in Nat /\ Len(s) > 0 /\ Len(Tail(s)) = Len(s) - 1
           /\ Head(s) = s[1] /\ Tail(s) \in Seq(S)
           /\ \A i \in 1 .. Len(Tail(s)) :
                 Tail(s)[i] = s[i + 1] /\ i + 1 \in 1 .. Len(s)
<1>1. Len(s) \in Nat /\ Len(s) > 0 /\ Len(Tail(s)) = Len(s) - 1 /\ Head(s) = s[1]
  OBVIOUS
<1>2. \A i \in 1 .. Len(Tail(s)) : Tail(s)[i] = s[i + 1]
  OBVIOUS
<1>3. Tail(s) \in Seq(S)
  OBVIOUS
<1> QED
  BY <1>1, <1>2, <1>3

\* Taking a message keeps BMSG_EXITED the last one, if it is there.
LEMMA ExitedTail ==
    ASSUME NEW s \in Seq(Msgs), s # <<>>, Exited(s)
    PROVE  Exited(Tail(s)) /\ Head(s) # "BMSG_FLUSH_MARKER"
<1>1. ASSUME NEW i \in 1 .. Len(Tail(s))
      PROVE  /\ Tail(s)[i] # "BMSG_FLUSH_MARKER"
             /\ Tail(s)[i] = "BMSG_EXITED" => i = Len(Tail(s))
  <2>1. Tail(s)[i] = s[i + 1] /\ i + 1 \in 1 .. Len(s)
    BY TailElements
  <2>2. s[i + 1] = "BMSG_EXITED" => i + 1 = Len(s)
    BY <2>1 DEF Exited
  <2>3. i + 1 = Len(s) => i = Len(Tail(s))
    BY TailElements
  <2>4. s[i + 1] # "BMSG_FLUSH_MARKER"
    BY <2>1 DEF Exited
  <2> QED
    BY <2>1, <2>2, <2>3, <2>4
<1>2. Head(s) # "BMSG_FLUSH_MARKER"
  BY TailElements DEF Exited
<1> QED
  BY <1>1, <1>2 DEF Exited

\* The marker is taken from a queue that ends with it as the last message and
\* never before.
LEMMA MarkedTail ==
    ASSUME NEW s \in Seq(Msgs), Marked(s)
    PROVE  /\ Head(s) # "BMSG_FLUSH_MARKER" => Marked(Tail(s))
           /\ Head(s) = "BMSG_FLUSH_MARKER" => Tail(s) = <<>>
           /\ Len(s) > 1 => Head(s) # "BMSG_FLUSH_MARKER"
<1>1. s # <<>>
  BY DEF Marked
<1>2. /\ Len(s) \in Nat /\ Len(s) > 0 /\ Len(Tail(s)) = Len(s) - 1
      /\ Head(s) = s[1] /\ Tail(s) \in Seq(Msgs)
  BY <1>1, TailElements
<1>3. 1 \in 1 .. Len(s)
  BY <1>2
<1>4. Head(s) = "BMSG_FLUSH_MARKER" <=> 1 = Len(s)
  BY <1>2, <1>3 DEF Marked
<1>5. Len(s) > 1 <=> Tail(s) # <<>>
  BY <1>1, TailLen
<1>6. ASSUME NEW i \in 1 .. Len(Tail(s))
      PROVE  /\ Tail(s)[i] = "BMSG_FLUSH_MARKER" <=> i = Len(Tail(s))
             /\ Tail(s)[i] = "BMSG_EXITED" => i = Len(Tail(s)) - 1
  <2>1. Tail(s)[i] = s[i + 1] /\ i + 1 \in 1 .. Len(s) /\ i \in Nat
    BY <1>1, TailElements
  <2>2. /\ s[i + 1] = "BMSG_FLUSH_MARKER" <=> i + 1 = Len(s)
        /\ s[i + 1] = "BMSG_EXITED" => i + 1 = Len(s) - 1
    BY <2>1 DEF Marked
  <2>3. /\ i + 1 = Len(s) <=> i = Len(Tail(s))
        /\ i + 1 = Len(s) - 1 <=> i = Len(Tail(s)) - 1
    BY <1>2, <2>1
  <2> QED
    BY <2>1, <2>2, <2>3
<1>7. Tail(s) # <<>> => Marked(Tail(s))
  BY <1>6 DEF Marked
<1> QED
  BY <1>2, <1>4, <1>5, <1>7

\* The elements of a sequence with one appended.
LEMMA AppendElements ==
    ASSUME NEW S, NEW s \in Seq(S), NEW m \in S
    PROVE  /\ Len(Append(s, m)) = Len(s) + 1 /\ Len(s) \in Nat
           /\ \A i \in 1 .. Len(s) : Append(s, m)[i] = s[i]
           /\ Append(s, m)[Len(s) + 1] = m
           /\ \A i \in 1 .. Len(Append(s, m)) : i \in 1 .. Len(s) \/ i = Len(s) + 1
           /\ Append(s, m) # <<>>
<1>1. /\ Len(Append(s, m)) = Len(s) + 1 /\ Len(s) \in Nat
      /\ \A i \in 1 .. Len(s) : Append(s, m)[i] = s[i]
      /\ Append(s, m)[Len(s) + 1] = m
  OBVIOUS
<1>2. Append(s, m) # <<>>
  <2>1. Len(Append(s, m)) # 0
    BY <1>1
  <2>2. Len(<<>>) = 0
    OBVIOUS
  <2> QED
    BY <2>1, <2>2
<1> QED
  BY <1>1, <1>2

\* What the pushes make of a queue.
LEMMA Appended ==
    ASSUME NEW s \in Seq(Msgs), NEW m \in Msgs
    PROVE  /\ Plain(s) /\ m \notin {"BMSG_EXITED", "BMSG_FLUSH_MARKER"} =>
                Plain(Append(s, m))
           /\ Plain(s) /\ m # "BMSG_FLUSH_MARKER" => Exited(Append(s, m))
           /\ (s # <<>> /\ Exited(s)) /\ m = "BMSG_FLUSH_MARKER" =>
                Marked(Append(s, m)) /\ Len(Append(s, m)) > 1
           /\ Append(s, m) # <<>>
<1>1. s # <<>> => Len(s) > 0
  BY TailElements
<1> QED
  BY <1>1, AppendElements DEF Plain, Exited, Marked

\* The pushes of a signal, an error or the loss of the bus are ordinary ones.
LEMMA OrdinaryPushes ==
    /\ \A m \in BusMessages : Ordinary(HandleMessage(m))
    /\ \A error \in DOMAIN SetupErrors : Ordinary(SetupErrors[error])
    /\ Ordinary(<<Push("out", "BMSG_DBUS_DISCONNECTED")>>)
    /\ Ordinary(<<>>)
<1>1. \A m \in Msgs \ {"BMSG_EXITED", "BMSG_FLUSH_MARKER"} :
          Ordinary(<<Push("out", m)>>)
  BY DEF Ordinary, Push
<1>2. Ordinary(<<>>)
  BY DEF Ordinary
<1>3. (SignalMsgs \cup ErrorMsgs \cup {"BMSG_DBUS_DISCONNECTED"})
        \subseteq Msgs \ {"BMSG_EXITED", "BMSG_FLUSH_MARKER"}
  BY DEF Msgs, SignalMsgs, ErrorMsgs
<1>4. \A m \in BusMessages : Ordinary(HandleMessage(m))
  BY <1>1, <1>2, <1>3 DEF BusMessages, HandleMessage, SignalMsgs
<1>5. \A error \in DOMAIN SetupErrors :
          \/ SetupErrors[error] = <<>>
          \/ SetupErrors[error] = <<Push("out", "BMSG_DBUS_ADDFILTER_ERROR")>>
          \/ SetupErrors[error] = <<Push("out", "BMSG_DBUS_ADDMATCH_ERROR")>>
          \/ SetupErrors[error] = <<Push("out", "BMSG_DBUS_SERVICE_BROWSER_ERROR")>>
  BY DEF SetupErrors
<1>6. /\ Ordinary(<<Push("out", "BMSG_DBUS_ADDFILTER_ERROR")>>)
      /\ Ordinary(<<Push("out", "BMSG_DBUS_ADDMATCH_ERROR")>>)
      /\ Ordinary(<<Push("out", "BMSG_DBUS_SERVICE_BROWSER_ERROR")>>)
  BY <1>1, <1>3 DEF ErrorMsgs
<1> QED
  BY <1>1, <1>2, <1>3, <1>4, <1>5, <1>6

\* The pushes of ActionExit, one by one.
LEMMA ExitPushList ==
    LET first  == Push("out", "BMSG_EXITED")
        second == Push("out", "BMSG_FLUSH_MARKER")
        third  == Push("in", "BMSG_FLUSH_MARKER")
    IN  /\ ExitPushes("E_CMD_EXIT") = <<first>>
        /\ ExitPushes("E_CMD_EXIT_CLEAN") = <<first, second, third>>
        /\ Tail(<<first, second, third>>) = <<second, third>>
        /\ Tail(<<second, third>>) = <<third>>
        /\ Tail(<<first>>) = <<>> /\ Tail(<<third>>) = <<>>
  BY DEF ExitPushes

\* queue_put of a node that could be allocated, exactly.
LEMMA PutExact ==
    ASSUME TypeOK, PutMayFail = FALSE, NEW q \in Queues, NEW m \in Msgs, Put(q, m)
    PROVE  /\ items'[q] = Append(items[q], m)
           /\ \A r \in Queues \ {q} : items'[r] = items[r]
  BY DEF TypeOK, Put

\* queue_get_nb with the mutex held or found taken, exactly.
LEMMA TakeExact ==
    ASSUME TypeOK, NEW q \in Queues, NEW t \in Threads, Take(q, t)
    PROVE  /\ \/ items'[q] = items[q] /\ Taken(q, t) = "NULL"
              \/ /\ items[q] # <<>> /\ items'[q] = Tail(items[q])
                 /\ Taken(q, t) = Head(items[q])
           /\ lock[q] = t /\ items[q] # <<>> => items'[q] = Tail(items[q])
           /\ \A r \in Queues \ {q} : items'[r] = items[r]
  BY DEF TypeOK, Take, Taken

\* Each queue is a sequence of messages.
LEMMA QueueTypes ==
    ASSUME TypeOK
    PROVE  /\ items["in"] \in Seq(Msgs) /\ items["out"] \in Seq(Msgs)
           /\ Len(items["in"]) \in Nat /\ Len(items["out"]) \in Nat
  BY DEF TypeOK, Queues

-----------------------------------------------------------------------------
\* Every step keeps a closing command the last message of the client.
LEMMA ClosingStep ==
    ASSUME PutMayFail = FALSE, ShutdownInv, [Next]_vars
    PROVE  ClosingInv'
<1> USE DEF ShutdownInv, OwnershipInv, channelVars, workerVars, clientVars,
           ClosingInv, ExitEvents, Closing, Exiting, Pushing, PlaceInv, LockInv,
           StatesAt, Running, Unconnected
<1>1. ASSUME Start PROVE ClosingInv'
  BY <1>1 DEF Start, InitClient
<1>2. ASSUME PumpUnconnected, UNCHANGED clientVars PROVE ClosingInv'
  BY <1>2 DEF PumpUnconnected
<1>3. ASSUME PumpTimeout, UNCHANGED clientVars PROVE ClosingInv'
  BY <1>3 DEF PumpTimeout
<1>4. ASSUME PumpMessage, UNCHANGED clientVars PROVE ClosingInv'
  BY <1>4 DEF PumpMessage
<1>5. ASSUME PumpDisconnected, UNCHANGED clientVars PROVE ClosingInv'
  BY <1>5 DEF PumpDisconnected
<1>6. ASSUME PumpGone, UNCHANGED clientVars PROVE ClosingInv'
  BY <1>6 DEF PumpGone
<1>7. ASSUME PollLock, UNCHANGED clientVars PROVE ClosingInv'
  BY <1>7 DEF PollLock, Lock
<1>8. ASSUME PollTake, UNCHANGED clientVars PROVE ClosingInv'
  <2>1. items["in"] \in Seq(Msgs)
    BY QueueTypes
  <2>2. CASE items'["in"] = items["in"] /\ Taken("in", "worker") = "NULL"
    BY <1>8, <2>2 DEF PollTake, CommandEvent
  <2>3. CASE /\ items["in"] # <<>> /\ items'["in"] = Tail(items["in"])
             /\ Taken("in", "worker") = Head(items["in"])
    <3>1. /\ Head(items["in"]) = items["in"][1] /\ 1 \in 1 .. Len(items["in"])
          /\ Len(items["in"]) = 1 => Tail(items["in"]) = <<>>
      BY <2>1, <2>3, TailElements, TailLen
    <3>2. \A i \in 1 .. Len(Tail(items["in"])) :
              /\ Tail(items["in"])[i] = items["in"][i + 1]
              /\ i + 1 \in 1 .. Len(items["in"])
              /\ i + 1 = Len(items["in"]) <=> i = Len(Tail(items["in"]))
      BY <2>1, <2>3, TailElements
    <3>3. event' \in ExitEvents => Head(items["in"]) \in Closing
      BY <1>8, <2>3 DEF PollTake, CommandEvent
    <3>4. event' \in ExitEvents => Tail(items["in"]) = <<>>
      BY <3>1, <3>3
    <3>5. /\ event' = "E_CMD_EXIT" => Head(items["in"]) = "BMSG_EXIT"
          /\ event' = "E_CMD_EXIT_CLEAN" => Head(items["in"]) = "BMSG_EXIT_CLEAN"
      BY <1>8, <2>3 DEF PollTake, CommandEvent
    <3>6. Len(<<>>) = 0
      OBVIOUS
    <3> QED
      BY <1>8, <2>3, <3>1, <3>2, <3>3, <3>4, <3>5, <3>6 DEF PollTake
  <2> QED
    BY <1>8, <2>2, <2>3, TakeExact DEF PollTake, Queues, Threads
<1>9. ASSUME RunRow, UNCHANGED clientVars PROVE ClosingInv'
  BY <1>9, RunRowCases DEF RunRow
<1>10. ASSUME ConnectOk, UNCHANGED clientVars PROVE ClosingInv'
  BY <1>10 DEF ConnectOk
<1>11. ASSUME ConnectError, UNCHANGED clientVars PROVE ClosingInv'
  BY <1>11 DEF ConnectError
<1>12. ASSUME Exit, UNCHANGED clientVars PROVE ClosingInv'
  BY <1>12 DEF Exit
<1>13. ASSUME PushLock, UNCHANGED clientVars PROVE ClosingInv'
  BY <1>13 DEF PushLock, Lock
<1>14. ASSUME PushPut, UNCHANGED clientVars PROVE ClosingInv'
  <2>1. /\ Head(todo).queue \in Queues /\ Head(todo).msg \in Msgs \ CommandMsgs
        /\ todo # <<>> /\ Head(todo) = todo[1] /\ 1 \in 1 .. Len(todo)
    BY <1>14, NextPush, TailElements DEF PushPut, TypeOK
  <2>2. CASE items'["in"] = items["in"]
    BY <1>14, <2>2 DEF PushPut
  <2>3. CASE Head(todo).queue = "in"
    <3>1. Exiting /\ event \notin ExitEvents
      BY <1>14, <2>1, <2>3 DEF MarkerInv, Ordinary, PushPut
    <3>2. items'["in"] = Append(items["in"], Head(todo).msg)
      BY <1>14, <2>1, <2>3, PutExact DEF PushPut
    <3>3. \A i \in 1 .. Len(items'["in"]) : items'["in"][i] \notin Closing
      BY <2>1, <3>1, <3>2, QueueTypes, AppendElements DEF CommandMsgs
    <3> QED
      BY <1>14, <3>1, <3>3 DEF PushPut
  <2> QED
    BY <1>14, <2>1, <2>2, <2>3, PutExact DEF PushPut, Queues
<1>15. ASSUME NEW q \in Queues, FlushLock(q), UNCHANGED clientVars PROVE ClosingInv'
  BY <1>15 DEF FlushLock, Lock, FlushPc
<1>16. ASSUME NEW q \in Queues, FlushTake(q), UNCHANGED clientVars PROVE ClosingInv'
  <2>1. Exiting /\ (event' \in ExitEvents => event' = event)
    BY <1>16 DEF FlushTake, FlushPc, FlushedOne, MarkerEvent
  <2>2. \A i \in 1 .. Len(items["in"]) : items["in"][i] \notin Closing
    BY <2>1
  <2>3. \/ items'["in"] = items["in"]
        \/ items["in"] # <<>> /\ items'["in"] = Tail(items["in"])
    BY <1>16, TakeExact DEF FlushTake, Queues, Threads
  <2>4. items["in"] # <<>> =>
          \A i \in 1 .. Len(Tail(items["in"])) : Tail(items["in"])[i] \notin Closing
    BY <2>2, QueueTypes, TailElements
  <2> QED
    BY <1>16, <2>1, <2>2, <2>3, <2>4 DEF FlushTake
<1>17. ASSUME DestroyIn, UNCHANGED clientVars PROVE ClosingInv'
  BY <1>17 DEF DestroyIn, Destroy
<1>18. ASSUME DestroyOut, UNCHANGED clientVars PROVE ClosingInv'
  BY <1>18 DEF DestroyOut, Destroy
<1>19. ASSUME FreeChannel, UNCHANGED clientVars PROVE ClosingInv'
  BY <1>19 DEF FreeChannel
<1>20. ASSUME PopBusy, UNCHANGED workerVars PROVE ClosingInv'
  BY <1>20 DEF PopBusy
<1>21. ASSUME PopLock, UNCHANGED workerVars PROVE ClosingInv'
  BY <1>21 DEF PopLock, Lock
<1>22. ASSUME PopTake, UNCHANGED workerVars PROVE ClosingInv'
  <2>1. items'["in"] = items["in"]
    BY <1>22, TakeExact DEF PopTake, Queues, Threads
  <2> QED
    BY <1>22, <2>1 DEF PopTake
<1>23. ASSUME PushMsg, UNCHANGED workerVars PROVE ClosingInv'
  BY <1>23 DEF PushMsg, PushLockIn, Lock
<1>24. ASSUME Release, UNCHANGED workerVars PROVE ClosingInv'
  BY <1>24 DEF Release, PushLockIn, Lock
<1>25. ASSUME PushPutIn, UNCHANGED workerVars PROVE ClosingInv'
  <2>1. cmd \in Msgs
    BY <1>25 DEF PushPutIn, Msgs
  <2>2. items'["in"] = Append(items["in"], cmd)
    BY <1>25, <2>1, PutExact DEF PushPutIn, Queues
  <2>3. \A i \in 1 .. Len(items["in"]) : items["in"][i] \notin Closing
    BY <1>25 DEF PushPutIn
  <2>4. \A i \in 1 .. Len(items'["in"]) :
            items'["in"][i] \in Closing => i = Len(items'["in"]) /\ items'["in"][i] = cmd
    BY <2>1, <2>2, <2>3, QueueTypes, AppendElements
  <2> QED
    BY <1>25, <2>4 DEF PushPutIn
<1>26. ASSUME UNCHANGED vars PROVE ClosingInv'
  BY <1>26 DEF vars
<1> QED
  BY <1>1, <1>2, <1>3, <1>4, <1>5, <1>6, <1>7, <1>8, <1>9, <1>10,
     <1>11, <1>12, <1>13, <1>14, <1>15, <1>16, <1>17, <1>18, <1>19, <1>20,
     <1>21, <1>22, <1>23, <1>24, <1>25, <1>26
  DEF Next, Over, ClientStep, WorkerStep, Client, PopMsg, Worker, Pump, Poll,
      Connect, Flush, Cleanup

\* Every step keeps the last message and the markers where they belong.
LEMMA MarkerStep ==
    ASSUME PutMayFail = FALSE, ShutdownInv, [Next]_vars
    PROVE  MarkerInv'
<1> USE DEF ShutdownInv, OwnershipInv, channelVars, workerVars, clientVars,
           MarkerInv, Quiet, ExitPushing, BothMarked, Drained, QuitOwnership,
           NoBusAfterExit, PlaceInv, FreeInv, FreedAt, StatesAt, Running,
           Unconnected, Pushing, Exiting, Queues
<1>1. ASSUME Start PROVE MarkerInv'
  BY <1>1 DEF Start, InitClient
<1>2. ASSUME PumpUnconnected, UNCHANGED clientVars PROVE MarkerInv'
  BY <1>2 DEF PumpUnconnected
<1>3. ASSUME PumpTimeout, UNCHANGED clientVars PROVE MarkerInv'
  BY <1>3 DEF PumpTimeout
<1>4. ASSUME PumpMessage, UNCHANGED clientVars PROVE MarkerInv'
  BY <1>4, OrdinaryPushes DEF PumpMessage
<1>5. ASSUME PumpDisconnected, UNCHANGED clientVars PROVE MarkerInv'
  BY <1>5, OrdinaryPushes DEF PumpDisconnected
<1>6. ASSUME PumpGone, UNCHANGED clientVars PROVE MarkerInv'
  BY <1>6 DEF PumpGone
<1>7. ASSUME PollLock, UNCHANGED clientVars PROVE MarkerInv'
  BY <1>7 DEF PollLock, Lock
<1>8. ASSUME PollTake, UNCHANGED clientVars PROVE MarkerInv'
  <2>1. CASE ~ Exiting
    <3>1. Plain(items'["in"]) /\ items'["out"] = items["out"]
      BY <1>8, <2>1, TakeExact, PlainTail, QueueTypes DEF PollTake, Threads
    <3> QED
      BY <1>8, <2>1, <3>1 DEF PollTake
  <2>2. CASE state = "ST_WMARK2"
    <3>1. items'["in"] = <<>> /\ items'["out"] = items["out"] /\ event' = "E_NULL"
      BY <1>8, <2>2, TakeExact DEF PollTake, CommandEvent, Threads
    <3> QED
      BY <1>8, <2>2, <3>1 DEF PollTake
  <2> QED
    BY <1>8, <2>1, <2>2 DEF PollTake, MarkerInv
<1>9. ASSUME RunRow, UNCHANGED clientVars PROVE MarkerInv'
  <2>1. todo = <<>> /\ UNCHANGED <<todo, items, freed, cmd>>
    BY <1>9 DEF RunRow
  <2>2. Exited(<<>>)
    BY DEF Exited
  <2>3. CASE state' \in {"ST_CONNECT", "ST_SERVE", "ST_WAIT", "ST_EXIT"}
    BY <1>9, <2>1, <2>3, RunRowCases, OrdinaryPushes DEF RunRow
  <2>4. CASE state' \in {"ST_WMARK1", "ST_WMARK2", "ST_FCLEAN"}
    BY <1>9, <2>1, <2>4, RunRowCases DEF RunRow
  <2>5. CASE state' = "ST_QUIT"
    BY <1>9, <2>1, <2>2, <2>5, RunRowCases DEF RunRow
  <2> QED
    BY <1>9, <2>3, <2>4, <2>5, RunRowCases
<1>10. ASSUME ConnectOk, UNCHANGED clientVars PROVE MarkerInv'
  BY <1>10 DEF ConnectOk
<1>11. ASSUME ConnectError, UNCHANGED clientVars PROVE MarkerInv'
  BY <1>11, OrdinaryPushes DEF ConnectError
<1>12. ASSUME Exit, UNCHANGED clientVars PROVE MarkerInv'
  BY <1>12 DEF Exit, ExitPushes, ClosingInv, ExitEvents, Closing
<1>13. ASSUME PushLock, UNCHANGED clientVars PROVE MarkerInv'
  BY <1>13 DEF PushLock, Lock
<1>14. ASSUME PushPut, UNCHANGED clientVars PROVE MarkerInv'
  <2>1. /\ Head(todo).queue \in Queues /\ Head(todo).msg \in Msgs
        /\ items'[Head(todo).queue] = Append(items[Head(todo).queue], Head(todo).msg)
        /\ \A r \in Queues \ {Head(todo).queue} : items'[r] = items[r]
    BY <1>14, NextPush, PutExact DEF PushPut
  <2>2. todo' = Tail(todo) /\ UNCHANGED <<state, event, cmd, freed, cpc>>
    BY <1>14 DEF PushPut
  <2>3. CASE ~ Exiting
    <3>1. todo \in Seq(Pushes) /\ todo # <<>>
      BY <1>14 DEF PushPut, TypeOK
    <3>2. Head(todo).queue = "out" /\ Ordinary(Tail(todo))
          /\ Head(todo).msg \notin {"BMSG_EXITED", "BMSG_FLUSH_MARKER"}
      BY <2>3, <3>1, TailElements DEF Ordinary
    <3>3. /\ items'["out"] = Append(items["out"], Head(todo).msg)
          /\ items'["in"] = items["in"]
      BY <2>1, <3>2
    <3>4. Plain(items'["out"])
      BY <2>1, <2>3, <3>2, <3>3, QueueTypes, Appended
    <3>5. pc # "exit" /\ pc' # "done" /\ pc # "done"
      BY <1>14 DEF PushPut
    <3> QED
      BY <2>2, <2>3, <3>2, <3>3, <3>4, <3>5
  <2>4. CASE state = "ST_EXIT" /\ event = "E_QUIT"
    <3>1. todo = <<Push("out", "BMSG_EXITED")>> /\ Quiet
      BY <1>14, <2>4, ExitPushList DEF PushPut
    <3>2. /\ Head(todo).queue = "out" /\ Head(todo).msg = "BMSG_EXITED"
          /\ Len(todo) = 1
      BY <3>1 DEF Push
    <3>3. Exited(items'["out"]) /\ items'["in"] = items["in"]
      BY <2>1, <3>1, <3>2, QueueTypes, Appended
    <3>4. pc' = "row"
      BY <1>14, <2>4, <3>2 DEF PushPut
    <3> QED
      BY <2>2, <2>4, <3>1, <3>3, <3>4
  <2>5. CASE state = "ST_EXIT" /\ event = "E_PUSHED_MARKERS"
    <3>0. items["in"] = <<>>
      BY <1>14, <2>5 DEF PushPut
    <3>1. CASE todo = ExitPushes("E_CMD_EXIT_CLEAN") /\ Quiet
      <4>1. /\ Head(todo).queue = "out" /\ Head(todo).msg = "BMSG_EXITED"
            /\ Len(todo) = 3
        BY <3>1, ExitPushList DEF Push
      <4>4. /\ items'["out"] = Append(items["out"], "BMSG_EXITED")
            /\ items'["in"] = items["in"] /\ "BMSG_EXITED" \in Msgs
        BY <2>1, <4>1
      <4>2. /\ Exited(items'["out"]) /\ items'["out"] # <<>>
            /\ items'["in"] = items["in"]
        BY <3>1, <4>4, QueueTypes, Appended
      <4>3. pc' = "push"
        BY <1>14, <2>5, <4>1 DEF PushPut
      <4> QED
        BY <2>2, <2>5, <3>0, <3>1, <4>2, <4>3
    <3>2. CASE /\ todo = Tail(ExitPushes("E_CMD_EXIT_CLEAN"))
               /\ items["out"] # <<>> /\ Exited(items["out"])
      <4>1. /\ Head(todo).queue = "out" /\ Head(todo).msg = "BMSG_FLUSH_MARKER"
            /\ Len(todo) = 2
        BY <3>2, ExitPushList DEF Push
      <4>4. /\ items'["out"] = Append(items["out"], "BMSG_FLUSH_MARKER")
            /\ items'["in"] = items["in"] /\ "BMSG_FLUSH_MARKER" \in Msgs
        BY <2>1, <4>1
      <4>2. /\ Marked(items'["out"]) /\ Len(items'["out"]) > 1
            /\ items'["in"] = items["in"]
        BY <3>2, <4>4, QueueTypes, Appended
      <4>3. pc' = "push"
        BY <1>14, <2>5, <4>1 DEF PushPut
      <4> QED
        BY <2>2, <2>5, <3>0, <3>2, <4>2, <4>3
    <3>3. CASE /\ todo = Tail(Tail(ExitPushes("E_CMD_EXIT_CLEAN")))
               /\ Len(items["out"]) > 1 /\ Marked(items["out"])
      <4>1. /\ Head(todo).queue = "in" /\ Head(todo).msg = "BMSG_FLUSH_MARKER"
            /\ Len(todo) = 1
        <5>1. todo = <<Push("in", "BMSG_FLUSH_MARKER")>>
          BY <3>3, ExitPushList
        <5> QED
          BY <5>1 DEF Push
      <4>2. Append(<<>>, "BMSG_FLUSH_MARKER") = <<"BMSG_FLUSH_MARKER">>
        OBVIOUS
      <4>3. items'["in"] = <<"BMSG_FLUSH_MARKER">> /\ items'["out"] = items["out"]
        BY <2>1, <3>0, <4>1, <4>2
      <4>4. pc' = "row"
        BY <1>14, <2>5, <4>1 DEF PushPut
      <4> QED
        BY <2>2, <2>5, <3>3, <4>3, <4>4
    <3> QED
      BY <1>14, <2>5, <3>1, <3>2, <3>3 DEF PushPut
  <2> QED
    BY <1>14, <2>3, <2>4, <2>5 DEF PushPut
<1>15. ASSUME NEW q \in Queues, FlushLock(q), UNCHANGED clientVars PROVE MarkerInv'
  BY <1>15 DEF FlushLock, Lock, FlushPc
<1>16. ASSUME NEW q \in Queues, FlushTake(q), UNCHANGED clientVars PROVE MarkerInv'
  <2>1. state \in {"ST_WMARK1", "ST_WMARK2"} /\ cpc = "done"
    BY <1>16 DEF FlushTake, FlushPc
  <2>2. lock[q] = "worker"
    BY <1>16, <2>1 DEF FlushTake, LockInv, TypeOK, Threads
  <2>3. /\ \/ items[q] = <<>> /\ items'[q] = <<>> /\ Taken(q, "worker") = "NULL"
           \/ /\ items[q] # <<>> /\ items'[q] = Tail(items[q])
              /\ Taken(q, "worker") = Head(items[q])
        /\ \A r \in Queues \ {q} : items'[r] = items[r]
    BY <1>16, <2>2, TakeExact DEF FlushTake, Taken, Threads
  <2>4. UNCHANGED <<state, todo, freed, cmd, cpc>> /\ pc' # "done"
    BY <1>16 DEF FlushTake, FlushedOne
  <2>5. CASE state = "ST_WMARK1" /\ q = "in"
    <3>1. items["in"] = <<"BMSG_FLUSH_MARKER">> /\ marks = 0
      BY <1>16, <2>5 DEF FlushTake, FlushPc
    <3>2. /\ items["in"] # <<>> /\ Head(items["in"]) = "BMSG_FLUSH_MARKER"
          /\ Tail(items["in"]) = <<>>
      BY <3>1
    <3>3. pc' = "flush_out" /\ marks' = 1 /\ items'["in"] = <<>>
      BY <1>16, <2>3, <2>5, <3>1, <3>2 DEF FlushTake, FlushedOne
    <3> QED
      BY <1>16, <2>3, <2>4, <2>5, <3>3 DEF FlushTake, FlushPc
  <2>6. CASE state = "ST_WMARK1" /\ q = "out"
    <3>1. /\ marks = 1 /\ items["in"] = <<>> /\ Len(items["out"]) > 1
          /\ Marked(items["out"])
      BY <1>16, <2>6 DEF FlushTake, FlushPc
    <3>2. Head(items["out"]) # "BMSG_FLUSH_MARKER" /\ Marked(Tail(items["out"]))
      BY <3>1, QueueTypes, MarkedTail
    <3>3. items["out"] # <<>>
      BY <3>1 DEF Marked
    <3>4. pc' = "row" /\ event' = "E_MARKER" /\ Marked(items'["out"])
      BY <1>16, <2>3, <2>6, <3>1, <3>2, <3>3 DEF FlushTake, FlushedOne, MarkerEvent
    <3> QED
      BY <2>3, <2>4, <2>6, <3>1, <3>4
  <2>7. CASE state = "ST_WMARK2" /\ q = "in"
    <3>1. items["in"] = <<>> /\ marks = 0 /\ Marked(items["out"])
      BY <1>16, <2>7 DEF FlushTake, FlushPc
    <3>2. pc' = "flush_out" /\ marks' = 0 /\ items'["in"] = <<>>
      BY <1>16, <2>3, <2>7, <3>1 DEF FlushTake, FlushedOne
    <3> QED
      BY <2>3, <2>4, <2>7, <3>1, <3>2
  <2>8. CASE state = "ST_WMARK2" /\ q = "out"
    <3>1. items["in"] = <<>> /\ marks = 0 /\ Marked(items["out"])
      BY <1>16, <2>8 DEF FlushTake, FlushPc
    <3>2. items["out"] # <<>>
      BY <3>1 DEF Marked
    <3>3. CASE Head(items["out"]) = "BMSG_FLUSH_MARKER"
      <4>1. items'["out"] = <<>>
        BY <2>3, <2>8, <3>1, <3>2, <3>3, QueueTypes, MarkedTail
      <4>2. pc' = "row" /\ event' = "E_MARKER"
        BY <1>16, <2>3, <2>8, <3>1, <3>2, <3>3 DEF FlushTake, FlushedOne, MarkerEvent
      <4> QED
        BY <2>3, <2>4, <2>8, <3>1, <4>1, <4>2
    <3>4. CASE Head(items["out"]) # "BMSG_FLUSH_MARKER"
      <4>1. Marked(items'["out"])
        BY <2>3, <2>8, <3>1, <3>2, <3>4, QueueTypes, MarkedTail
      <4>2. pc' = "pump"
        BY <1>16, <2>3, <2>8, <3>1, <3>2, <3>4 DEF FlushTake, FlushedOne, MarkerEvent
      <4> QED
        BY <2>3, <2>4, <2>8, <3>1, <4>1, <4>2
    <3> QED
      BY <3>3, <3>4
  <2> QED
    BY <2>1, <2>5, <2>6, <2>7, <2>8
<1>17. ASSUME DestroyIn, UNCHANGED clientVars PROVE MarkerInv'
  BY <1>17 DEF DestroyIn, Destroy
<1>18. ASSUME DestroyOut, UNCHANGED clientVars PROVE MarkerInv'
  BY <1>18 DEF DestroyOut, Destroy
<1>19. ASSUME FreeChannel, UNCHANGED clientVars PROVE MarkerInv'
  BY <1>19 DEF FreeChannel
<1>20. ASSUME PopBusy, UNCHANGED workerVars PROVE MarkerInv'
  BY <1>20 DEF PopBusy
<1>21. ASSUME PopLock, UNCHANGED workerVars PROVE MarkerInv'
  BY <1>21 DEF PopLock, Lock
<1>22. ASSUME PopTake, UNCHANGED workerVars PROVE MarkerInv'
  <2>1. cpc # "done" /\ items'["in"] = items["in"]
    BY <1>22, TakeExact DEF PopTake, Threads
  <2>2. Plain(items["out"]) => Plain(items'["out"])
    BY <1>22, TakeExact, PlainTail, QueueTypes DEF PopTake, Threads
  <2>3. Exited(items["out"]) => Exited(items'["out"])
    BY <1>22, TakeExact, ExitedTail, QueueTypes DEF PopTake, Threads
  <2> QED
    BY <1>22, <2>1, <2>2, <2>3 DEF PopTake
<1>23. ASSUME PushMsg, UNCHANGED workerVars PROVE MarkerInv'
  BY <1>23 DEF PushMsg, PushLockIn, Lock, ClosingInv
<1>24. ASSUME Release, UNCHANGED workerVars PROVE MarkerInv'
  BY <1>24 DEF Release, PushLockIn, Lock, ClosingInv
<1>25. ASSUME PushPutIn, UNCHANGED workerVars PROVE MarkerInv'
  <2>1. ~ Exiting /\ cmd \in Msgs /\ cmd \notin {"BMSG_EXITED", "BMSG_FLUSH_MARKER"}
    BY <1>25 DEF PushPutIn, ClosingInv, Msgs, CommandMsgs
  <2>2. Plain(items'["in"]) /\ items'["out"] = items["out"]
    BY <1>25, <2>1, PutExact, QueueTypes, Appended DEF PushPutIn
  <2> QED
    BY <1>25, <2>1, <2>2 DEF PushPutIn
<1>26. ASSUME UNCHANGED vars PROVE MarkerInv'
  BY <1>26 DEF vars
<1> QED
  BY <1>1, <1>2, <1>3, <1>4, <1>5, <1>6, <1>7, <1>8, <1>9, <1>10,
     <1>11, <1>12, <1>13, <1>14, <1>15, <1>16, <1>17, <1>18, <1>19, <1>20,
     <1>21, <1>22, <1>23, <1>24, <1>25, <1>26
  DEF Next, Over, ClientStep, WorkerStep, Client, PopMsg, Worker, Pump, Poll,
      Connect, Flush, Cleanup

\* Every step keeps what is known of the first event and of requests at hand.
LEMMA LifeStep ==
    ASSUME PutMayFail = FALSE, ShutdownInv, [Next]_vars
    PROVE  LifeInv'
<1> USE DEF ShutdownInv, OwnershipInv, channelVars, workerVars, clientVars,
           LifeInv, ExitEvents, Closing, Exiting, Pushing, PlaceInv, LockInv,
           StatesAt, Running, Unconnected, Asked
<1>1. ASSUME Start PROVE LifeInv'
  BY <1>1, QueuedSame DEF Start, InitClient
<1>2. ASSUME PumpUnconnected, UNCHANGED clientVars PROVE LifeInv'
  BY <1>2, QueuedSame DEF PumpUnconnected
<1>3. ASSUME PumpTimeout \/ PumpMessage \/ PumpDisconnected \/ PumpGone,
             UNCHANGED clientVars
      PROVE  LifeInv'
  BY <1>3, QueuedSame DEF PumpTimeout, PumpMessage, PumpDisconnected, PumpGone
<1>4. ASSUME PollLock \/ PushLock, UNCHANGED clientVars PROVE LifeInv'
  BY <1>4, QueuedSame DEF PollLock, PushLock, Lock
<1>5. ASSUME PollTake, UNCHANGED clientVars PROVE LifeInv'
  <2>1. items["in"] \in Seq(Msgs)
    BY QueueTypes
  <2>2. /\ pc = "poll" /\ pc' = "row" /\ UNCHANGED <<state, conn, cmd, cpc>>
        /\ event' = CommandEvent(Taken("in", "worker"))
    BY <1>5 DEF PollTake
  <2>3. \/ items'["in"] = items["in"] /\ Taken("in", "worker") = "NULL"
        \/ /\ items["in"] # <<>> /\ items'["in"] = Tail(items["in"])
           /\ Taken("in", "worker") = Head(items["in"])
    BY <1>5, TakeExact DEF PollTake, Queues, Threads
  <2>4. items["in"] # <<>> =>
            /\ Head(items["in"]) = items["in"][1] /\ 1 \in 1 .. Len(items["in"])
            /\ \A i \in 1 .. Len(Tail(items["in"])) :
                  /\ Tail(items["in"])[i] = items["in"][i + 1]
                  /\ i + 1 \in 1 .. Len(items["in"])
    BY <2>1, TailElements
  <2>5. event' \in ExitEvents => state \in Running
    BY <2>2, <2>3, <2>4 DEF ClosingInv, CommandEvent
  <2> QED
    BY <2>2, <2>3, <2>4, <2>5
<1>6. ASSUME RunRow, UNCHANGED clientVars PROVE LifeInv'
  <2>1. state' = Transition(state, event).to /\ pc = "row" /\ UNCHANGED <<event, conn, items>>
    BY <1>6 DEF RunRow
  <2>2. state' # "ST_START" /\ (Exiting => Exiting')
    BY <1>6, <2>1, RunRowCases DEF MarkerInv
  <2>3. event \in ExitEvents => pc' \in {"connect", "exit"}
    BY <1>6, <2>1, RunRowCases, ExitObeyed
  <2> QED
    BY <1>6, <2>1, <2>2, <2>3, QueuedSame
<1>7. ASSUME ConnectOk \/ ConnectError, UNCHANGED clientVars PROVE LifeInv'
  BY <1>7, QueuedSame DEF ConnectOk, ConnectError
<1>8. ASSUME Exit, UNCHANGED clientVars PROVE LifeInv'
  BY <1>8, QueuedSame DEF Exit
<1>9. ASSUME PushPut, UNCHANGED clientVars PROVE LifeInv'
  <2>1. /\ pc \in {"filter", "push"} /\ pc' \in {"filter", "push", "poll", "row"}
        /\ UNCHANGED <<state, event, conn, cmd, cpc>>
    BY <1>9 DEF PushPut
  <2>2. Head(todo).queue = "in" => Exiting
    BY <1>9, NextPush, TailElements DEF PushPut, TypeOK, MarkerInv, Ordinary
  <2>3. Head(todo).queue # "in" => items'["in"] = items["in"]
    BY <1>9, NextPush, PutExact DEF PushPut, Queues
  <2> QED
    BY <2>1, <2>2, <2>3
<1>10. ASSUME NEW q \in Queues, FlushLock(q) \/ FlushTake(q), UNCHANGED clientVars
       PROVE LifeInv'
  <2>1. Exiting /\ state # "ST_START" /\ UNCHANGED <<state, cmd>>
    BY <1>10 DEF FlushLock, FlushTake, FlushPc
  <2>2. event' \notin ExitEvents
    BY <1>10 DEF FlushLock, FlushTake, FlushPc, FlushedOne, MarkerEvent
  <2> QED
    BY <2>1, <2>2
<1>11. ASSUME DestroyIn \/ DestroyOut \/ FreeChannel, UNCHANGED clientVars
       PROVE  LifeInv'
  BY <1>11, QueuedSame DEF DestroyIn, DestroyOut, FreeChannel
<1>12. ASSUME PopBusy \/ PopLock, UNCHANGED workerVars PROVE LifeInv'
  BY <1>12, QueuedSame DEF PopBusy, PopLock, Lock
<1>13. ASSUME PopTake, UNCHANGED workerVars PROVE LifeInv'
  <2>1. items'["in"] = items["in"]
    BY <1>13, TakeExact DEF PopTake, Queues, Threads
  <2> QED
    BY <1>13, <2>1 DEF PopTake, Queued
<1>14. ASSUME PushMsg \/ Release, UNCHANGED workerVars PROVE LifeInv'
  BY <1>14, QueuedSame DEF PushMsg, Release, PushLockIn, Lock
<1>15. ASSUME PushPutIn, UNCHANGED workerVars PROVE LifeInv'
  <2>1. cmd \in Msgs /\ cpc = "push" /\ UNCHANGED cmd
    BY <1>15 DEF PushPutIn, Msgs
  <2>2. items'["in"] = Append(items["in"], cmd)
    BY <1>15, <2>1, PutExact DEF PushPutIn, Queues
  <2>3. /\ \A i \in 1 .. Len(items'["in"]) :
             \/ i \in 1 .. Len(items["in"]) /\ items'["in"][i] = items["in"][i]
             \/ items'["in"][i] = cmd
        /\ Len(items'["in"]) \in 1 .. Len(items'["in"])
        /\ items'["in"][Len(items'["in"])] = cmd
    BY <2>1, <2>2, QueueTypes
  <2>4. "BMSG_RECONNECT" \notin Commands => cmd \in Closing
    BY <2>1, ClientAssumption DEF CommandMsgs
  <2> QED
    BY <1>15, <2>1, <2>3, <2>4 DEF Queued
<1>16. ASSUME UNCHANGED vars PROVE LifeInv'
  BY <1>16, QueuedSame DEF vars
<1> QED
  BY <1>1, <1>2, <1>3, <1>4, <1>5, <1>6, <1>7, <1>8, <1>9, <1>10, <1>11, <1>12,
     <1>13, <1>14, <1>15, <1>16
  DEF Next, Over, ClientStep, WorkerStep, Client, PopMsg, Worker, Pump, Poll,
      Connect, Flush, Cleanup

-----------------------------------------------------------------------------
(* The theorems.                                                           *)

\* When no queue node fails to be allocated, ShutdownInv holds at the start and
\* every step keeps it.
LEMMA ShutdownInvInductive ==
    ASSUME PutMayFail = FALSE
    PROVE  /\ Init => ShutdownInv
           /\ ShutdownInv /\ [Next]_vars => ShutdownInv'
<1>1. Init => ShutdownInv
  <2> SUFFICES ASSUME Init PROVE ShutdownInv
    OBVIOUS
  <2>1. OwnershipInv
    BY OwnershipInvInductive
  <2> USE DEF Init, ChannelInit, WorkerInit, ClientInit, Exiting, Queues
  <2>2. ClosingInv
    BY DEF ClosingInv, ExitEvents
  <2>3. MarkerInv
    BY DEF MarkerInv, Quiet, Plain, Ordinary, QuitOwnership
  <2>4. LifeInv
    BY DEF LifeInv, ExitEvents, Asked, Closing
  <2> QED
    BY <2>1, <2>2, <2>3, <2>4 DEF ShutdownInv
<1>2. ShutdownInv /\ [Next]_vars => ShutdownInv'
  BY OwnershipInvInductive, ClosingStep, MarkerStep, LifeStep DEF ShutdownInv
<1> QED
  BY <1>1, <1>2

\* Every state reached without a failed allocation satisfies ShutdownInv.
THEOREM ShutdownInvariant == PutMayFail = FALSE => (Spec => []ShutdownInv)
<1> SUFFICES ASSUME PutMayFail = FALSE PROVE Spec => []ShutdownInv
  OBVIOUS
<1> QED
  BY ShutdownInvInductive, PTL DEF Spec

\* "queues are empty at this point": ActionFinalCleanup finds both queues empty,
\* however long the backlog was when the client released the channel.
THEOREM CleanupFindsEmptyQueues == PutMayFail = FALSE => (Spec => []QueuesDrained)
<1> SUFFICES ASSUME PutMayFail = FALSE PROVE Spec => []QueuesDrained
  OBVIOUS
<1>1. ShutdownInv => QueuesDrained
  BY DEF ShutdownInv, OwnershipInv, PlaceInv, StatesAt, MarkerInv, Drained,
         QueuesDrained
<1> QED
  BY <1>1, ShutdownInvariant, PTL

\* No event of the thread falls to the last row of the transition table, which
\* would open the bus again in the middle of the exit sequence.
THEOREM TrapUnreachable == PutMayFail = FALSE => (Spec => []TrapNotTaken)
<1> SUFFICES ASSUME PutMayFail = FALSE PROVE Spec => []TrapNotTaken
  OBVIOUS
<1>1. ShutdownInv => TrapNotTaken
  <2> SUFFICES ASSUME ShutdownInv, pc = "row" PROVE ~ FallsToTrap(state, event)
    BY DEF TrapNotTaken
  <2>1. state \in States \ {"ST_QUIT", "ST_TRAP"}
    BY DEF ShutdownInv, OwnershipInv, PlaceInv, StatesAt
  <2>2. CASE state # "ST_WMARK1"
    BY <2>1, <2>2, TrapOnlyFromMark1
  <2>3. CASE state = "ST_WMARK1"
    <3>1. event = "E_MARKER"
      BY <2>3 DEF ShutdownInv, MarkerInv
    <3>2. Matches(18, state, event) /\ Len(TransitionTable) = 25
      BY <2>3, <3>1 DEF Matches, TransitionTable, Row
    <3> QED
      BY <3>2 DEF FallsToTrap, Fires
  <2> QED
    BY <2>2, <2>3
<1> QED
  BY <1>1, ShutdownInvariant, PTL

\* A thread that has ended left all of the channel freed after "exit & clean" and
\* none of it after "exit".
THEOREM QuitLeavesOwner == PutMayFail = FALSE => (Spec => []QuitOwnership)
<1> SUFFICES ASSUME PutMayFail = FALSE PROVE Spec => []QuitOwnership
  OBVIOUS
<1>1. ShutdownInv => QuitOwnership
  BY DEF ShutdownInv, MarkerInv
<1> QED
  BY <1>1, ShutdownInvariant, PTL

\* Whatever the backlog, BMSG_EXITED is the last thing the thread says: only its
\* marker can be behind it.
THEOREM ExitedComesLast == PutMayFail = FALSE => (Spec => []ExitedIsLast)
<1> SUFFICES ASSUME PutMayFail = FALSE PROVE Spec => []ExitedIsLast
  OBVIOUS
<1>1. ShutdownInv => ExitedIsLast
  <2> SUFFICES ASSUME ShutdownInv PROVE ExitedIsLast
    OBVIOUS
  <2>1. items["out"] \in Seq(Msgs) /\ Len(items["out"]) \in Nat
    BY QueueTypes DEF ShutdownInv, OwnershipInv
  <2>2. Plain(items["out"]) => ExitedIsLast
    BY <2>1 DEF Plain, ExitedIsLast
  <2>3. Exited(items["out"]) => ExitedIsLast
    BY <2>1 DEF Exited, ExitedIsLast
  <2>4. Marked(items["out"]) => ExitedIsLast
    BY <2>1 DEF Marked, ExitedIsLast
  <2>5. items["out"] = <<>> => ExitedIsLast
    BY DEF ExitedIsLast
  <2>6. \/ Plain(items["out"]) \/ Exited(items["out"])
        \/ Marked(items["out"]) \/ items["out"] = <<>>
    <3> USE DEF ShutdownInv, MarkerInv
    <3>1. CASE ~ Exiting \/ pc = "exit"
      BY <3>1 DEF Quiet
    <3>2. CASE state = "ST_EXIT" /\ pc = "push"
      BY <3>2 DEF ExitPushing, Quiet
    <3>3. CASE state = "ST_EXIT" /\ pc = "row"
      BY <3>3 DEF BothMarked
    <3>4. CASE state \in {"ST_WMARK1", "ST_WMARK2"}
      BY <3>4 DEF BothMarked
    <3>5. CASE state \in {"ST_FCLEAN", "ST_QUIT"}
      BY <3>5 DEF Drained, Queues
    <3>6. state = "ST_EXIT" => pc \in {"exit", "push", "row"}
      BY DEF OwnershipInv, TypeOK, Pcs, PlaceInv, StatesAt, Unconnected, Running
    <3> QED
      BY <3>1, <3>2, <3>3, <3>4, <3>5, <3>6 DEF Exiting
  <2> QED
    BY <2>2, <2>3, <2>4, <2>5, <2>6
<1> QED
  BY <1>1, ShutdownInvariant, PTL

\* While the client has not released the channel, the thread has pushed no marker
\* into the client's queue.
LEMMA NoMarkerBeforeRelease ==
    ASSUME ShutdownInv, cpc # "done"
    PROVE  \A i \in 1 .. Len(items["out"]) : items["out"][i] # "BMSG_FLUSH_MARKER"
<1> USE DEF ShutdownInv, MarkerInv
<1>1. event # "E_PUSHED_MARKERS" /\ state \notin {"ST_WMARK1", "ST_WMARK2", "ST_FCLEAN"}
  BY DEF OwnershipInv, FreeInv
<1>2. CASE ~ Exiting \/ pc = "exit"
  BY <1>2 DEF Quiet, Plain
<1>3. CASE state = "ST_EXIT" /\ pc = "push"
  BY <1>1, <1>3 DEF ExitPushing, Quiet, Plain
<1>4. CASE state = "ST_EXIT" /\ pc = "row"
  BY <1>1, <1>4 DEF Exited
<1>5. CASE state = "ST_QUIT"
  BY <1>5 DEF Exited
<1>6. state = "ST_EXIT" => pc \in {"exit", "push", "row"}
  BY DEF OwnershipInv, TypeOK, Pcs, PlaceInv, StatesAt, Unconnected, Running
<1> QED
  BY <1>1, <1>2, <1>3, <1>4, <1>5, <1>6 DEF Exiting

\* A client that polls until its release never meets the thread's own markers.
THEOREM ClientNeverMeetsMarker == PutMayFail = FALSE => (Spec => []ClientMeetsNoMarker)
<1> SUFFICES ASSUME PutMayFail = FALSE PROVE Spec => []ClientMeetsNoMarker
  OBVIOUS
<1>1. Init => ClientMeetsNoMarker
  BY DEF Init, ClientInit, ClientMeetsNoMarker
<1>2. ShutdownInv /\ ClientMeetsNoMarker /\ [Next]_vars => ClientMeetsNoMarker'
  <2> SUFFICES ASSUME ShutdownInv, ClientMeetsNoMarker, [Next]_vars
               PROVE  ClientMeetsNoMarker'
    OBVIOUS
  <2>1. CASE PopTake
    <3>1. got' = Taken("out", "client") /\ cpc = "pop"
      BY <2>1 DEF PopTake
    <3>2. items["out"] \in Seq(Msgs)
      BY QueueTypes DEF ShutdownInv, OwnershipInv
    <3>3. \/ Taken("out", "client") = "NULL"
          \/ items["out"] # <<>> /\ Taken("out", "client") = Head(items["out"])
      BY <2>1, TakeExact DEF PopTake, ShutdownInv, OwnershipInv, Queues, Threads
    <3>4. items["out"] # <<>> => /\ 1 \in 1 .. Len(items["out"])
                                 /\ Head(items["out"]) = items["out"][1]
      BY <3>2
    <3> QED
      BY <3>1, <3>3, <3>4, NoMarkerBeforeRelease DEF ClientMeetsNoMarker
  <2>2. CASE PopBusy
    BY <2>2 DEF PopBusy, ClientMeetsNoMarker
  <2>3. got' = got \/ PopTake \/ PopBusy
    BY DEF Next, Start, InitClient, ClientStep, WorkerStep, Over, Client, PopMsg, PopLock,
           PushMsg, Release, PushLockIn, PushPutIn, clientVars, vars
  <2> QED
    BY <2>1, <2>2, <2>3 DEF ClientMeetsNoMarker
<1> QED
  BY <1>1, <1>2, ShutdownInvariant, PTL DEF Spec
-----------------------------------------------------------------------------
(* The thread implements ThreadLife.                                       *)

\* A step of the thread that ThreadLife does not see.
LEMMA Unnoticed ==
    ASSUME pc \notin {"none", "row", "done"}, pc' \notin {"none", "done"},
           UNCHANGED <<state, cmd, cpc, freed>>,
           pc' = "row" => event' \notin ExitEvents,
           Exiting \/ items'["in"] = items["in"],
           state = "ST_START" => {pc, pc'} \subseteq {"pump", "poll"}
    PROVE  UNCHANGED <<Phase, Asked, Reclaimed>>
<1>1. UNCHANGED <<Asked, Reclaimed, Exiting>>
  BY DEF Asked, Reclaimed, Exiting
<1>2. RequestLost' <=> RequestLost
  BY <1>1 DEF RequestLost, Queued, ExitEvents
<1> QED
  BY <1>1, <1>2 DEF Phase

\* Before the thread is through, it has not reclaimed the channel, and a request
\* that was obeyed or is about to be is not lost.
LEMMA NotYet ==
    ASSUME ShutdownInv
    PROVE  /\ Reclaimed => pc = "done" \/ (pc = "row" /\ state = "ST_FCLEAN")
           /\ Exiting => Asked = cmd /\ cmd \in Closing /\ ~ RequestLost
  BY DEF ShutdownInv, OwnershipInv, FreeInv, FreedAt, Reclaimed, Blocks, Queues,
         ClosingInv, Asked, Closing, RequestLost

\* The command taken in ST_START begins the service or loses the request; a
\* command taken in a later state is at hand for the next row.
LEMMA FirstPoll ==
    ASSUME ShutdownInv, ShutdownInv', PollTake, UNCHANGED clientVars
    PROVE  [Life!Next]_<<Phase, Asked, Reclaimed>>
<1> USE DEF ExitEvents, clientVars
<1>a. TypeOK /\ LockInv /\ PlaceInv /\ LifeInv /\ ClosingInv /\ ClosingInv'
  BY DEF ShutdownInv, OwnershipInv
<1>1. /\ pc = "poll" /\ pc' = "row" /\ lock["in"] # "none"
      /\ UNCHANGED <<state, freed, cmd, cpc, Asked, Reclaimed, Exiting>>
      /\ event' = CommandEvent(Taken("in", "worker")) /\ event \notin ExitEvents
  BY <1>a DEF PollTake, Asked, Reclaimed, Exiting, LifeInv
<1>2. ~ Reclaimed /\ state # "ST_QUIT"
  BY <1>1, NotYet, <1>a DEF PlaceInv, StatesAt, Running, Unconnected
<1>3. \/ items'["in"] = items["in"] /\ Taken("in", "worker") = "NULL"
      \/ /\ items["in"] # <<>> /\ items'["in"] = Tail(items["in"])
         /\ Taken("in", "worker") = Head(items["in"])
  BY <1>a, TakeExact DEF PollTake, Queues, Threads
<1>4. items["in"] # <<>> =>
          /\ Head(items["in"]) = items["in"][1] /\ 1 \in 1 .. Len(items["in"])
          /\ \A i \in 1 .. Len(items["in"]) :
                \/ i = 1
                \/ /\ i - 1 \in 1 .. Len(Tail(items["in"]))
                   /\ items["in"][i] = Tail(items["in"])[i - 1]
  BY <1>a, QueueTypes
<1>5. event' \in ExitEvents <=> Taken("in", "worker") \in Closing
  BY <1>1 DEF CommandEvent, Closing
<1>6. event' \in ExitEvents =>
          Asked # "NULL" /\ ~ Queued(Asked)' /\ (Exiting \/ Queued(Asked))
  <2>1. event' \in ExitEvents => items'["in"] = <<>> /\ Asked = cmd /\ cmd \in Closing
    BY <1>1, <1>a DEF ClosingInv, Asked, Closing
  <2>2. event' \in ExitEvents => items["in"][1] = cmd /\ 1 \in 1 .. Len(items["in"])
    BY <1>3, <1>4, <1>5, <1>a DEF ClosingInv, Closing
  <2> QED
    BY <1>1, <2>1, <2>2 DEF Queued, Closing
<1>7. event' \notin ExitEvents /\ Asked # "NULL" /\ Queued(Asked) => Queued(Asked)'
  <2> SUFFICES ASSUME event' \notin ExitEvents, Asked # "NULL", Queued(Asked)
               PROVE  Queued(Asked)'
    OBVIOUS
  <2>1. PICK i \in 1 .. Len(items["in"]) : items["in"][i] = Asked
    BY DEF Queued
  <2>2. Asked \in Closing
    BY DEF Asked
  <2> QED
    BY <1>1, <1>3, <1>4, <1>5, <2>1, <2>2 DEF Queued
<1>8. Asked # "NULL" /\ ~ Queued(Asked) => ~ Queued(Asked)'
  BY <1>1, <1>a, TakeEffect DEF PollTake, Queues, Threads
<1>9. CASE state = "ST_START"
  <2>1. Phase = "starting" /\ ~ Exiting
    BY <1>1, <1>2, <1>9 DEF Phase, Exiting
  <2>2. CASE event' \in ExitEvents
    <3>1. RequestLost'
      BY <1>1, <1>6, <1>9, <2>1, <2>2 DEF RequestLost
    <3> QED
      BY <1>1, <1>2, <1>6, <1>9, <2>1, <2>2, <3>1 DEF Phase, Life!Next, Life!Lose
  <2>3. CASE event' \notin ExitEvents
    <3>1. Asked # "NULL" => Queued(Asked)
      BY <1>1, <1>9, <1>a DEF LifeInv
    <3>2. ~ RequestLost'
      BY <1>1, <1>7, <2>3, <3>1 DEF RequestLost
    <3>3. Asked = "NULL" \/ "BMSG_RECONNECT" \in Commands
      <4> SUFFICES ASSUME Asked # "NULL", "BMSG_RECONNECT" \notin Commands PROVE FALSE
        OBVIOUS
      <4>1. cpc # "push" /\ lock["in"] = "worker"
        BY <1>1, <1>a DEF Asked, LockInv, TypeOK, Threads, Queues
      <4>2. items["in"] # <<>>
        BY <3>1 DEF Queued
      <4>3. Taken("in", "worker") = Head(items["in"])
        BY <4>1, <4>2 DEF Taken
      <4>4. Head(items["in"]) \in Closing
        BY <1>4, <1>a, <2>1, <4>2 DEF LifeInv
      <4> QED
        BY <1>5, <2>3, <4>3, <4>4
    <3> QED
      BY <1>1, <1>2, <1>9, <2>1, <3>2, <3>3 DEF Phase, Life!Next, Life!Begin
  <2> QED
    BY <2>2, <2>3
<1>10. CASE state # "ST_START"
  <2>1. RequestLost' <=> RequestLost
    BY <1>1, <1>6, <1>7, <1>8, <1>10 DEF RequestLost
  <2> QED
    BY <1>1, <1>2, <1>10, <2>1 DEF Phase
<1> QED
  BY <1>9, <1>10

\* A row of the table obeys the request at hand, or ends the exit sequence.
LEMMA RowLife ==
    ASSUME ShutdownInv, RunRow, UNCHANGED clientVars
    PROVE  [Life!Next]_<<Phase, Asked, Reclaimed>>
<1> USE DEF ExitEvents, clientVars
<1>a. TypeOK /\ PlaceInv /\ LifeInv /\ MarkerInv
  BY DEF ShutdownInv, OwnershipInv
<1>1. /\ pc = "row" /\ state' = Transition(state, event).to
      /\ UNCHANGED <<event, freed, items, cmd, cpc, Asked, Reclaimed>>
  BY DEF RunRow, channelVars, Asked, Reclaimed
<1>2. state = "ST_WMARK1" => event = "E_MARKER"
  BY <1>1, <1>a DEF MarkerInv
<1>3. event \in ExitEvents =>
          state = "ST_START" \/ (state \in {"ST_SERVE", "ST_WAIT"} /\ state' = "ST_EXIT")
  BY <1>1, <1>a, ExitObeyed DEF LifeInv, Running
<1>4. CASE ~ Exiting /\ ~ Exiting'
  <2>1. pc' \in {"connect", "pump"} /\ state' # "ST_START"
    BY <1>4, <1>a, RunRowCases DEF Exiting
  <2>2. RequestLost' <=> RequestLost
    BY <1>1, <1>3, <1>4, <2>1, QueuedSame DEF RequestLost, Exiting
  <2>3. ~ Reclaimed
    BY <1>1, <1>4, NotYet DEF Exiting
  <2> QED
    BY <1>1, <2>1, <2>2, <2>3 DEF Phase
<1>5. CASE ~ Exiting /\ Exiting'
  <2>1. pc' = "exit" /\ event \in ExitEvents /\ state # "ST_START"
    BY <1>5, <1>a, RunRowCases DEF Exiting
  <2>2. ~ RequestLost /\ ~ RequestLost' /\ ~ Reclaimed
    BY <1>1, <1>5, <2>1, NotYet DEF RequestLost, Exiting
  <2> QED
    BY <1>1, <2>1, <2>2 DEF Phase
<1>6. CASE Exiting /\ state' # "ST_QUIT"
  <2>1. Exiting' /\ pc' \in {"flush_in", "destroy_in"} /\ state # "ST_FCLEAN"
    BY <1>2, <1>6, <1>a, RunRowCases DEF Exiting
  <2>2. ~ RequestLost /\ ~ RequestLost' /\ ~ Reclaimed /\ state # "ST_START"
    BY <1>1, <1>6, <2>1, NotYet DEF RequestLost, Exiting
  <2> QED
    BY <1>1, <2>1, <2>2 DEF Phase
<1>7. CASE Exiting /\ state' = "ST_QUIT" /\ state = "ST_FCLEAN"
  <2>1. Reclaimed
    BY <1>1, <1>7 DEF ShutdownInv, OwnershipInv, FreeInv, FreedAt, Reclaimed
  <2>2. pc' = "done"
    BY <1>7, <1>a, RunRowCases
  <2> QED
    BY <1>1, <2>1, <2>2 DEF Phase
<1>8. CASE Exiting /\ state' = "ST_QUIT" /\ state # "ST_FCLEAN"
  <2>1. pc' = "done" /\ state = "ST_EXIT" /\ event # "E_PUSHED_MARKERS"
    BY <1>2, <1>8, <1>a, RunRowCases DEF Exiting
  <2>2. Asked = "BMSG_EXIT" /\ ~ RequestLost /\ ~ Reclaimed
    BY <1>1, <1>8, <1>a, <2>1, NotYet DEF MarkerInv
  <2>3. Phase = "running" /\ Phase' = "done"
    BY <1>1, <2>1, <2>2 DEF Phase
  <2> QED
    BY <1>1, <2>2, <2>3 DEF Life!Next, Life!Quit
<1> QED
  BY <1>4, <1>5, <1>6, <1>7, <1>8

\* The thread starts to serve, loses a request or leaves, and nothing else of
\* what it does is seen by ThreadLife.
LEMMA LifeWorkerRefines ==
    ASSUME PutMayFail = FALSE, ShutdownInv, ShutdownInv', WorkerStep
    PROVE  [Life!Next]_<<Phase, Asked, Reclaimed>>
<1> USE DEF ExitEvents, clientVars
<1>a. TypeOK /\ PlaceInv /\ LifeInv /\ ClosingInv /\ MarkerInv
  BY DEF ShutdownInv, OwnershipInv
<1>0. UNCHANGED clientVars /\ UNCHANGED Asked
  BY DEF WorkerStep, Asked
<1>1. CASE PumpUnconnected \/ PumpTimeout \/ PumpMessage \/ PumpDisconnected \/ PumpGone
  BY <1>0, <1>1, <1>a, Unnoticed DEF PumpUnconnected, PumpTimeout, PumpMessage,
     PumpDisconnected, PumpGone, LifeInv, channelVars
<1>2. CASE PollLock \/ PushLock
  BY <1>0, <1>2, <1>a, Unnoticed DEF PollLock, PushLock, Lock, LifeInv, workerVars
<1>3. CASE ConnectOk \/ ConnectError \/ Exit
  <2>1. state # "ST_START"
    BY <1>3, <1>a DEF ConnectOk, ConnectError, Exit, LifeInv
  <2> QED
    BY <1>0, <1>3, <2>1, Unnoticed DEF ConnectOk, ConnectError, Exit, channelVars
<1>4. CASE PushPut
  <2>1. /\ pc \in {"filter", "push"} /\ pc' \in {"filter", "push", "poll", "row"}
        /\ UNCHANGED <<state, event, freed>>
    BY <1>4 DEF PushPut
  <2>2. Head(todo).queue = "in" => Exiting
    BY <1>4, <1>a, NextPush, TailElements
    DEF PushPut, TypeOK, MarkerInv, Ordinary, PlaceInv, Pushing
  <2>3. Head(todo).queue # "in" => items'["in"] = items["in"]
    BY <1>4, <1>a, NextPush, PutExact DEF PushPut, Queues, Pushing
  <2>4. event \notin ExitEvents /\ state # "ST_START"
    BY <2>1, <1>a DEF LifeInv
  <2> QED
    BY <1>0, <2>1, <2>2, <2>3, <2>4, Unnoticed
<1>5. CASE \E q \in Queues : FlushLock(q) \/ FlushTake(q)
  <2>1. /\ pc \in {"flush_in", "flush_out"} /\ pc' \in {"flush_in", "flush_out", "row", "pump"}
        /\ UNCHANGED <<state, freed>>
    BY <1>5 DEF FlushLock, FlushTake, FlushPc, FlushedOne, workerVars
  <2>2. Exiting /\ state # "ST_START"
    BY <2>1, <1>a DEF PlaceInv, StatesAt, Unconnected, Exiting
  <2>3. pc' = "row" => event' \notin ExitEvents
    BY <1>5, <2>1 DEF FlushLock, FlushTake, FlushPc, FlushedOne, MarkerEvent, workerVars
  <2> QED
    BY <1>0, <2>1, <2>2, <2>3, Unnoticed
<1>6. CASE DestroyIn \/ DestroyOut
  <2>1. /\ Exiting /\ Exiting' /\ state # "ST_START" /\ UNCHANGED state
        /\ pc' \in {"destroy_out", "free_cc"}
    BY <1>6, <1>a DEF DestroyIn, DestroyOut, Exiting, PlaceInv, StatesAt
  <2>2. /\ ~ Reclaimed /\ ~ RequestLost
        /\ ~ Reclaimed' /\ ~ RequestLost'
    BY <1>6, <2>1, NotYet DEF DestroyIn, DestroyOut, ShutdownInv, OwnershipInv, FreeInv,
       FreedAt, Reclaimed, Blocks, Queues, RequestLost
  <2>3. UNCHANGED Reclaimed
    BY <2>2 DEF Reclaimed
  <2> QED
    BY <1>0, <1>6, <2>1, <2>2, <2>3 DEF Phase, DestroyIn, DestroyOut
<1>7. CASE FreeChannel
  <2>1. /\ pc = "free_cc" /\ pc' = "row" /\ freed' = Blocks /\ ~ Reclaimed
        /\ state = "ST_FCLEAN" /\ cpc = "done"
    BY <1>7, <1>a DEF FreeChannel, ShutdownInv, OwnershipInv, FreeInv, FreedAt, PlaceInv,
       StatesAt, Reclaimed, Blocks, Queues
  <2>2. Asked = "BMSG_EXIT_CLEAN" /\ ~ RequestLost
    BY <2>1, NotYet DEF ShutdownInv, OwnershipInv, FreeInv, Exiting
  <2> QED
    BY <1>0, <2>1, <2>2 DEF Phase, Reclaimed, Life!Next, Life!Clean
<1>8. CASE PollTake
  BY <1>8, <1>0, FirstPoll
<1>9. CASE RunRow
  BY <1>9, <1>0, RowLife
<1> QED
  BY <1>1, <1>2, <1>3, <1>4, <1>5, <1>6, <1>7, <1>8, <1>9
  DEF WorkerStep, Worker, Pump, Poll, Connect, Flush, Cleanup

\* The client's release and its exit are the requests of ThreadLife.
LEMMA LifeClientRefines ==
    ASSUME PutMayFail = FALSE, ShutdownInv, ClientStep
    PROVE  [Life!Next]_<<Phase, Asked, Reclaimed>>
<1>a. TypeOK /\ PlaceInv /\ LifeInv /\ ClosingInv /\ FreeInv
  BY DEF ShutdownInv, OwnershipInv
<1>1. UNCHANGED <<pc, state, event, freed, Exiting, Reclaimed>>
  BY DEF ClientStep, Client, PopMsg, PopBusy, PopLock, PopTake, PushMsg, Release,
         PushLockIn, PushPutIn, workerVars, channelVars, Exiting, Reclaimed
<1>2. CASE PopMsg
  <2>1. items'["in"] = items["in"] /\ UNCHANGED <<cmd, Asked>>
    BY <1>2, <1>a, TakeExact DEF PopMsg, PopBusy, PopLock, PopTake, channelVars, Queues,
       Threads, Asked
  <2>2. RequestLost' <=> RequestLost
    BY <1>1, <2>1 DEF RequestLost, Queued
  <2> QED
    BY <1>1, <2>1, <2>2 DEF Phase
<1>3. CASE PushMsg \/ Release
  <2>1. Asked = "NULL" /\ Asked' = "NULL"
    BY <1>3 DEF PushMsg, Release, PushLockIn, Asked
  <2>2. ~ RequestLost /\ ~ RequestLost'
    BY <2>1 DEF RequestLost
  <2> QED
    BY <1>1, <2>1, <2>2 DEF Phase
<1>4. CASE PushPutIn
  <2>1. cpc = "push" /\ cpc' # "push" /\ UNCHANGED cmd /\ cmd \in Msgs
    BY <1>4, <1>a DEF PushPutIn, PlaceInv, Msgs
  <2>2. pc \notin {"none", "done"} /\ ~ Reclaimed /\ Asked = "NULL" /\ ~ RequestLost
    BY <2>1, <1>a DEF PlaceInv, StatesAt, ClosingInv, Exiting, FreeInv, Reclaimed, Blocks,
       Queues, Asked, RequestLost
  <2>3. Queued(cmd)'
    <3>1. items'["in"] = Append(items["in"], cmd)
      BY <1>4, <1>a, <2>1, PutExact DEF PushPutIn, Queues
    <3>2. /\ Len(items'["in"]) \in 1 .. Len(items'["in"])
          /\ items'["in"][Len(items'["in"])] = cmd
      BY <1>a, <2>1, <3>1, QueueTypes
    <3> QED
      BY <2>1, <3>2 DEF Queued
  <2>4. ~ RequestLost'
    BY <2>1, <2>3 DEF RequestLost, Asked
  <2>5. Phase' = Phase /\ Phase \in {"starting", "running"}
    BY <1>1, <2>2, <2>4 DEF Phase
  <2>6. Asked' = "NULL" \/ Asked' \in Life!Requests
    BY <2>1 DEF Asked, Closing, Life!Requests
  <2> QED
    BY <1>1, <2>2, <2>5, <2>6 DEF Life!Next, Life!Ask
<1> QED
  BY <1>2, <1>3, <1>4 DEF ClientStep, Client

\* A browser thread with its client lives the life of ThreadLife: what it reads of a
\* request to leave it drops in ST_START alone, as its first event, and it leaves and
\* reclaims the channel only if it was asked to.  For every set of commands, every backlog
\* and a bus that goes away at any time, as long as no message is lost.  (Safety: that the
\* request is read at all is for the runs, and fails after the loss of the bus.)
THEOREM ThreadLives == PutMayFail = FALSE => (Spec => LifeSpec)
<1> SUFFICES ASSUME PutMayFail = FALSE PROVE Spec => LifeSpec
  OBVIOUS
<1>1. Init => Life!Init
  BY DEF Init, ChannelInit, WorkerInit, ClientInit, Life!Init, Phase, Asked, Closing,
         Reclaimed, Blocks, Queues
<1>2. ASSUME ShutdownInv, ShutdownInv', [Next]_vars
      PROVE  [Life!Next]_<<Phase, Asked, Reclaimed>>
  <2>1. CASE Start
    <3>1. /\ pc = "none" /\ pc' = "pump" /\ state = "ST_START" /\ cpc' # "push" /\ cpc # "push"
          /\ UNCHANGED <<state, cmd, freed>> /\ freed = {}
      BY <1>2, <2>1 DEF Start, InitClient, channelVars, ShutdownInv, OwnershipInv, PlaceInv,
         StatesAt, FreeInv, FreedAt
    <3> QED
      BY <3>1 DEF Life!Next, Life!Create, Phase, Asked, Reclaimed, Blocks, Queues
  <2>2. CASE ClientStep
    BY <1>2, <2>2, LifeClientRefines
  <2>3. CASE WorkerStep
    BY <1>2, <2>3, LifeWorkerRefines
  <2>4. CASE UNCHANGED vars
    <3>1. UNCHANGED <<pc, state, event, freed, cpc, cmd, items>>
      BY <2>4 DEF vars, channelVars, workerVars, clientVars
    <3> QED
      BY <3>1 DEF Phase, Asked, Reclaimed, RequestLost, Exiting, Queued
  <2> QED
    BY <1>2, <2>1, <2>2, <2>3, <2>4 DEF Next, Over
<1> QED
  BY <1>1, <1>2, ShutdownInvariant, PTL DEF Spec, LifeSpec, Life!Spec
=============================================================================
