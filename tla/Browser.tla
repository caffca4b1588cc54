------------------------------- MODULE Browser -------------------------------
(***************************************************************************)
(* The browser thread of browser.cc: run_fsm turns the events of           *)
(* event_pump and of its own actions into transitions of the table of Fsm. *)
(*                                                                         *)
(* pc is the place in run_fsm:                                             *)
(*   "none"        not created yet                                         *)
(*   "pump"        in event_pump, before the D-Bus dispatch                *)
(*   "filter"      in the filter function that the dispatch called         *)
(*   "poll"        in event_pump, at queue_get_nb                          *)
(*   "row"         an event is at hand, the table lookup is next           *)
(*   "connect", "exit", "flush_in", "flush_out", "destroy_in",             *)
(*   "destroy_out", "free_cc"    in the action of a row                    *)
(*   "push"        in an action, pushing the messages of todo              *)
(*   "done"        the thread function has returned                        *)
(***************************************************************************)
EXTENDS CommChannel, Fsm

CONSTANTS BusMayDrop,   \* may the connection to the bus be lost?
          MaxOut        \* signals and errors are not added to a longer `out'

ASSUME BrowserAssumption == BusMayDrop \in BOOLEAN /\ MaxOut \in Nat

VARIABLES pc,
          state,        \* currentState
          event,        \* currentEvent, or what the running action returns
          conn,         \* bp->conn: "NULL", "open", or "gone" (disconnected)
          todo,         \* the pushes left to the running action or filter
          marks         \* markerCount of FlushQueues

workerVars == <<pc, state, event, conn, todo, marks>>

WorkerInit ==
    /\ pc = "none"
    /\ state = "ST_START"
    /\ event = "E_NULL"
    /\ conn = "NULL"
    /\ todo = <<>>
    /\ marks = 0

\* The pushes of the browser thread: it sends itself markers, never a command.
Pushes == [queue : Queues, msg : Msgs \ CommandMsgs]

Push(q, m) == [queue |-> q, msg |-> m]

-----------------------------------------------------------------------------
(* event_pump, first half: dbus_connection_read_write_dispatch.            *)

\* The messages of the bus, as __browser_handle_message tells them apart:
\* signals by their member name; "Other" is any message it drops (another
\* type, another member, arguments that do not decode).
BusMessages == {"ItemNew", "ItemRemove", "CacheExhausted", "AllForNow", "Other"}

HandleMessage(member) ==
    CASE member \in {"ItemNew", "ItemRemove"} -> <<Push("out", "BMSG_JSON")>>
      [] member = "CacheExhausted" -> <<Push("out", "BMSG_CACHEEXHAUSTED")>>
      [] member = "AllForNow"      -> <<Push("out", "BMSG_ALLFORNOW")>>
      [] OTHER                     -> <<>>

\* Mutant of PumpUnconnected: event_pump returns when there is no connection.
UnconnectedReturns ==
    /\ pc = "pump" /\ conn = "NULL"
    /\ event' = "E_NULL"
    /\ pc' = "row"
    /\ UNCHANGED <<state, conn, todo, marks, channelVars>>

\* Not connected: event_pump goes straight to the command queue.
PumpUnconnected ==
    /\ pc = "pump" /\ conn = "NULL"
    /\ pc' = "poll"
    /\ UNCHANGED <<state, event, conn, todo, marks, channelVars>>

\* 100 ms without a message.
PumpTimeout ==
    /\ pc = "pump" /\ conn = "open"
    /\ pc' = "poll"
    /\ UNCHANGED <<state, event, conn, todo, marks, channelVars>>

\* One message is dispatched to the filter function.
PumpMessage ==
    /\ pc = "pump" /\ conn = "open"
    /\ Len(items["out"]) < MaxOut
    /\ \E member \in BusMessages :
          /\ todo' = HandleMessage(member)
          /\ pc' = IF HandleMessage(member) = <<>> THEN "poll" ELSE "filter"
    /\ UNCHANGED <<state, event, conn, marks, channelVars>>

\* The local Disconnected signal is dispatched and the call returns FALSE.
PumpDisconnected ==
    /\ pc = "pump" /\ conn = "open" /\ BusMayDrop
    /\ conn' = "gone"
    /\ todo' = <<Push("out", "BMSG_DBUS_DISCONNECTED")>>
    /\ event' = "E_DBUS_DISCONNECT"
    /\ pc' = "push"
    /\ UNCHANGED <<state, marks, channelVars>>

\* On a connection already disconnected the call returns FALSE at once.
PumpGone ==
    /\ pc = "pump" /\ conn = "gone"
    /\ event' = "E_DBUS_DISCONNECT"
    /\ pc' = "row"
    /\ UNCHANGED <<state, conn, todo, marks, channelVars>>

-----------------------------------------------------------------------------
(* event_pump, second half: queue_get_nb on the command queue.             *)

\* Mutant of CommandEvent: a missing break below BMSG_EXIT.
ExitFallsThrough(m) ==
    CASE m = "BMSG_RECONNECT"    -> "E_CMD_RECONNECT"
      [] m \in {"BMSG_EXIT", "BMSG_EXIT_CLEAN"} -> "E_CMD_EXIT_CLEAN"
      [] m = "BMSG_FLUSH_MARKER" -> "E_FLUSH_MARKER"
      [] OTHER                   -> "E_NULL"

CommandEvent(m) ==
    CASE m = "BMSG_RECONNECT"    -> "E_CMD_RECONNECT"
      [] m = "BMSG_EXIT"         -> "E_CMD_EXIT"
      [] m = "BMSG_EXIT_CLEAN"   -> "E_CMD_EXIT_CLEAN"
      [] m = "BMSG_FLUSH_MARKER" -> "E_FLUSH_MARKER"
      [] OTHER                   -> "E_NULL"

PollLock ==
    /\ pc = "poll" /\ Lock("in", "worker")
    /\ UNCHANGED <<workerVars, items, freed>>

PollTake ==
    /\ pc = "poll" /\ lock["in"] # "none"
    /\ event' = CommandEvent(Taken("in", "worker"))
    /\ Take("in", "worker")
    /\ pc' = "row"
    /\ UNCHANGED <<state, conn, todo, marks, freed>>

-----------------------------------------------------------------------------
(* run_fsm's loop body: the row for (state, event) is dispatched.  The     *)
(* code assigns currentState after the action returns; nothing reads it    *)
(* before, so it is assigned here.                                         *)

\* Where the action of a row begins.  ActionServe and ActionWait do nothing and
\* return E_NULL, a row without an action sets re to E_NULL: the pump is next.
Entry ==
    [ ActionConnect      |-> "connect",  ActionServe        |-> "pump",
      ActionWait         |-> "pump",     ActionExit         |-> "exit",
      ActionWaitMarkers1 |-> "flush_in", ActionWaitMarkers2 |-> "flush_in",
      ActionFinalCleanup |-> "destroy_in", NULL             |-> "pump" ]

RunRow ==
    /\ pc = "row"
    /\ LET row == Transition(state, event)
       IN  /\ state' = row.to
           /\ pc' = IF row.to = "ST_QUIT" THEN "done" ELSE Entry[row.do]
    /\ marks' = 0
    /\ UNCHANGED <<event, conn, todo, channelVars>>

-----------------------------------------------------------------------------
(* ActionConnect: __browser_setup_dbus_conn.                               *)

\* The step of the setup that fails, and what is pushed to the client for it.
SetupErrors ==
    [ BROWSER_DBUS_CONN_ERROR    |-> <<>>,
      BROWSER_DBUS_FILTER_ERROR  |-> <<Push("out", "BMSG_DBUS_ADDFILTER_ERROR")>>,
      BROWSER_DBUS_MATCH_ERROR   |-> <<Push("out", "BMSG_DBUS_ADDMATCH_ERROR")>>,
      BROWSER_DBUS_SERVICE_ERROR |->
          <<Push("out", "BMSG_DBUS_SERVICE_BROWSER_ERROR")>> ]

ConnectOk ==
    /\ pc = "connect"
    /\ conn' = "open"
    /\ event' = "E_CONNECT_OK"
    /\ pc' = "row"
    /\ UNCHANGED <<state, todo, marks, channelVars>>

ConnectError ==
    /\ pc = "connect"
    /\ \E error \in DOMAIN SetupErrors :
          /\ SetupErrors[error] = <<>> \/ Len(items["out"]) < MaxOut
          /\ todo' = SetupErrors[error]
          /\ pc' = IF SetupErrors[error] = <<>> THEN "row" ELSE "push"
    /\ conn' = "NULL"
    /\ event' = "E_CONNECT_ERROR"
    /\ UNCHANGED <<state, marks, channelVars>>

-----------------------------------------------------------------------------
(* ActionExit.                                                             *)

\* Mutants of ExitPushes: the markers before "exited", markers after a plain
\* exit too, no marker for `in'.
MarkersFirst(e) ==
    IF e = "E_CMD_EXIT_CLEAN"
    THEN << Push("out", "BMSG_FLUSH_MARKER"), Push("in", "BMSG_FLUSH_MARKER"),
            Push("out", "BMSG_EXITED") >>
    ELSE << Push("out", "BMSG_EXITED") >>

MarkersAlways(e) ==
    << Push("out", "BMSG_EXITED"), Push("out", "BMSG_FLUSH_MARKER"),
       Push("in", "BMSG_FLUSH_MARKER") >>

OneMarker(e) ==
    IF e = "E_CMD_EXIT_CLEAN"
    THEN << Push("out", "BMSG_EXITED"), Push("out", "BMSG_FLUSH_MARKER") >>
    ELSE << Push("out", "BMSG_EXITED") >>

ExitPushes(e) ==
    IF e = "E_CMD_EXIT_CLEAN"
    THEN << Push("out", "BMSG_EXITED"), Push("out", "BMSG_FLUSH_MARKER"),
            Push("in", "BMSG_FLUSH_MARKER") >>
    ELSE << Push("out", "BMSG_EXITED") >>

\* Mutants of Exit: it keeps the connection, it forgets that it has pushed the
\* markers, it flushes the queues after a plain exit as well.
ExitStaysConnected ==
    /\ pc = "exit"
    /\ todo' = ExitPushes(event)
    /\ event' = IF event = "E_CMD_EXIT_CLEAN" THEN "E_PUSHED_MARKERS" ELSE "E_QUIT"
    /\ pc' = "push"
    /\ UNCHANGED <<state, conn, marks, channelVars>>

ExitForgetsMarkers ==
    /\ pc = "exit"
    /\ conn' = "NULL"
    /\ todo' = ExitPushes(event)
    /\ event' = "E_QUIT"
    /\ pc' = "push"
    /\ UNCHANGED <<state, marks, channelVars>>

ExitAlwaysFlushes ==
    /\ pc = "exit"
    /\ conn' = "NULL"
    /\ todo' = ExitPushes(event)
    /\ event' = "E_PUSHED_MARKERS"
    /\ pc' = "push"
    /\ UNCHANGED <<state, marks, channelVars>>

Exit ==
    /\ pc = "exit"
    /\ conn' = "NULL"
    /\ todo' = ExitPushes(event)
    /\ event' = IF event = "E_CMD_EXIT_CLEAN" THEN "E_PUSHED_MARKERS" ELSE "E_QUIT"
    /\ pc' = "push"
    /\ UNCHANGED <<state, marks, channelVars>>

-----------------------------------------------------------------------------
(* The queue_puts of an action or of the filter function.                  *)

PushLock ==
    /\ pc \in {"filter", "push"}
    /\ Lock(Head(todo).queue, "worker")
    /\ UNCHANGED <<workerVars, items, freed>>

\* Mutant of PushPut: the pump dispatches until the bus is quiet.
DispatchesOn ==
    /\ pc \in {"filter", "push"}
    /\ lock[Head(todo).queue] = "worker"
    /\ Put(Head(todo).queue, Head(todo).msg)
    /\ todo' = Tail(todo)
    /\ pc' = IF Len(todo) > 1 THEN pc ELSE IF pc = "filter" THEN "pump" ELSE "row"
    /\ UNCHANGED <<state, event, conn, marks, freed>>

PushPut ==
    /\ pc \in {"filter", "push"}
    /\ lock[Head(todo).queue] = "worker"
    /\ Put(Head(todo).queue, Head(todo).msg)
    /\ todo' = Tail(todo)
    /\ pc' = IF Len(todo) > 1 THEN pc ELSE IF pc = "filter" THEN "poll" ELSE "row"
    /\ UNCHANGED <<state, event, conn, marks, freed>>

-----------------------------------------------------------------------------
(* FlushQueues, the body of ActionWaitMarkers1 and ActionWaitMarkers2.     *)

FlushPc(q) == IF q = "in" THEN "flush_in" ELSE "flush_out"

MarkerEvent(count) ==
    CASE count = 1 -> "E_MARKER" [] count = 2 -> "E_MARKERS" [] OTHER -> "E_NULL"

\* One queue is done and `count' markers were met: on to the other queue, or
\* return; after E_NULL run_fsm pumps before it looks at the table again.
FlushedOne(q, count) ==
    IF q = "in"
    THEN /\ marks' = count
         /\ pc' = "flush_out"
         /\ UNCHANGED event
    ELSE /\ marks' = 0
         /\ event' = MarkerEvent(count)
         /\ pc' = IF MarkerEvent(count) = "E_NULL" THEN "pump" ELSE "row"

FlushLock(q) ==
    /\ pc = FlushPc(q) /\ Lock(q, "worker")
    /\ UNCHANGED <<workerVars, items, freed>>

FlushTake(q) ==
    /\ pc = FlushPc(q) /\ lock[q] # "none"
    /\ FlushedOne(q, IF Taken(q, "worker") = "BMSG_FLUSH_MARKER"
                     THEN marks + 1 ELSE marks)
    /\ Take(q, "worker")
    /\ UNCHANGED <<state, conn, todo, freed>>

-----------------------------------------------------------------------------
(* ActionFinalCleanup.                                                     *)

\* Mutant of DestroyIn: the channel is freed before its queues.
FreesChannelFirst ==
    /\ pc = "destroy_in" /\ lock["in"] = "none"
    /\ freed' = freed \cup {"in", "cc"}
    /\ pc' = "destroy_out"
    /\ UNCHANGED <<state, event, conn, todo, marks, items, lock>>

DestroyIn ==
    /\ pc = "destroy_in" /\ Destroy("in")
    /\ pc' = "destroy_out"
    /\ UNCHANGED <<state, event, conn, todo, marks, items, lock>>

DestroyOut ==
    /\ pc = "destroy_out" /\ Destroy("out")
    /\ pc' = "free_cc"
    /\ UNCHANGED <<state, event, conn, todo, marks, items, lock>>

\* Mutant of FreeChannel: the struct is forgotten.
KeepsChannel ==
    /\ pc = "free_cc"
    /\ event' = "E_QUIT"
    /\ pc' = "row"
    /\ UNCHANGED <<state, conn, todo, marks, channelVars>>

FreeChannel ==
    /\ pc = "free_cc"
    /\ freed' = freed \cup {"cc"}
    /\ event' = "E_QUIT"
    /\ pc' = "row"
    /\ UNCHANGED <<state, conn, todo, marks, items, lock>>

-----------------------------------------------------------------------------
Pump    == \/ PumpUnconnected \/ PumpTimeout \/ PumpMessage
           \/ PumpDisconnected \/ PumpGone
Poll    == PollLock \/ PollTake
Connect == ConnectOk \/ ConnectError
Flush   == \E q \in Queues : FlushLock(q) \/ FlushTake(q)
Cleanup == DestroyIn \/ DestroyOut \/ FreeChannel

Worker  == Pump \/ Poll \/ RunRow \/ Connect \/ Exit \/ PushLock \/ PushPut
             \/ Flush \/ Cleanup
=============================================================================
