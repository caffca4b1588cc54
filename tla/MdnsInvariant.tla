---------------------------- MODULE MdnsInvariant ----------------------------
(***************************************************************************)
(* The inductive invariants behind the safety properties of MdnsSystem.    *)
(* OwnershipInv holds whatever message is lost; ShutdownInv is about       *)
(* queues that lose nothing (PutMayFail = FALSE) and says where the last   *)
(* message, the markers of the exit sequence and a request to leave can be.*)
(***************************************************************************)
EXTENDS MdnsSystem

Pushing == pc \in {"push", "filter"}

\* The mutex of a queue is held by a thread only in the middle of an operation
\* of that thread on that queue.
LockInv ==
    /\ lock["out"] = "client" <=> cpc = "pop"
    /\ lock["in"] = "client" <=> cpc = "push"
    /\ lock["in"] = "worker" =>
          pc \in {"poll", "flush_in"} \/ (Pushing /\ Head(todo).queue = "in")
    /\ lock["out"] = "worker" =>
          pc = "flush_out" \/ (Pushing /\ Head(todo).queue = "out")

Unconnected == {"ST_WMARK1", "ST_WMARK2"}
Running     == {"ST_START", "ST_SERVE", "ST_WAIT"}

\* Past ActionExit's first lines the thread keeps no connection to the bus.
NoBusAfterExit == Exiting /\ pc # "exit" => conn = "NULL"

\* The states in which run_fsm can be at each place of the code.
StatesAt(p) ==
    CASE p = "none"                                    -> {"ST_START"}
      [] p \in {"pump", "poll"}                        -> Running \cup Unconnected
      [] p = "filter"                                  -> Running
      [] p = "row"                                     -> States \ {"ST_QUIT", "ST_TRAP"}
      [] p = "connect"                                 -> {"ST_CONNECT"}
      [] p = "push"                                    -> Running \cup {"ST_CONNECT", "ST_EXIT"}
      [] p = "exit"                                    -> {"ST_EXIT"}
      [] p \in {"flush_in", "flush_out"}               -> Unconnected
      [] p \in {"destroy_in", "destroy_out", "free_cc"} -> {"ST_FCLEAN"}
      [] p = "done"                                    -> {"ST_QUIT"}

PlaceInv ==
    /\ cpc = "new" <=> pc = "none"
    /\ cpc = "push" => cmd \in CommandMsgs
    /\ state \in StatesAt(pc)
    /\ todo # <<>> <=> Pushing
    /\ pc = "filter" => Len(todo) = 1
    /\ state = "ST_EXIT" =>
          (pc = "exit" <=> event \in {"E_CMD_EXIT", "E_CMD_EXIT_CLEAN"})
    /\ pc = "flush_in" => marks = 0
    /\ pc = "flush_out" => marks \in {0, 1}
    /\ NoBusAfterExit

\* What ActionFinalCleanup has freed when it has come to a given place.
FreedAt(p, s) ==
    CASE p = "destroy_out" -> {"in"}
      [] p = "free_cc"     -> {"in", "out"}
      [] p = "row" /\ s = "ST_FCLEAN" -> Blocks
      [] OTHER             -> {}

\* The thread learns of a release only from a release that was completed, and
\* frees the channel in a fixed order after it has learned of it.
FreeInv ==
    /\ \/ Queued("BMSG_EXIT_CLEAN")
       \/ event \in {"E_CMD_EXIT_CLEAN", "E_PUSHED_MARKERS"}
       \/ state \in {"ST_WMARK1", "ST_WMARK2", "ST_FCLEAN"}
       \/ freed # {}
       => cpc = "done"
    /\ pc # "done" => freed = FreedAt(pc, state)
    /\ cpc = "done" => cmd = "BMSG_EXIT_CLEAN"

OwnershipInv == TypeOK /\ LockInv /\ PlaceInv /\ FreeInv

-----------------------------------------------------------------------------
(* With PutMayFail = FALSE.                                                *)

ExitEvents == {"E_CMD_EXIT", "E_CMD_EXIT_CLEAN"}

\* A closing command is the last message of the client: it is the last of `in',
\* and nothing is behind it when it has been taken.
ClosingInv ==
    /\ \A i \in 1 .. Len(items["in"]) :
          items["in"][i] \in Closing =>
              /\ i = Len(items["in"])
              /\ items["in"][i] = cmd
              /\ cpc # "push"
              /\ event \notin ExitEvents
              /\ ~ Exiting
    /\ event \in ExitEvents => items["in"] = <<>> /\ cpc # "push"
    /\ event = "E_CMD_EXIT" => cmd = "BMSG_EXIT"
    /\ event = "E_CMD_EXIT_CLEAN" => cmd = "BMSG_EXIT_CLEAN"
    /\ Exiting => cmd \in Closing /\ cpc # "push"

\* Queues before the exit sequence, after BMSG_EXITED, and after the marker.
Plain(s) ==
    \A i \in 1 .. Len(s) : s[i] \notin {"BMSG_EXITED", "BMSG_FLUSH_MARKER"}

Exited(s) ==
    \A i \in 1 .. Len(s) :
        s[i] # "BMSG_FLUSH_MARKER" /\ (s[i] = "BMSG_EXITED" => i = Len(s))

Marked(s) ==
    /\ s # <<>>
    /\ \A i \in 1 .. Len(s) :
          /\ s[i] = "BMSG_FLUSH_MARKER" <=> i = Len(s)
          /\ s[i] = "BMSG_EXITED" => i = Len(s) - 1

\* Before the exit sequence has pushed anything.
Quiet == Plain(items["in"]) /\ Plain(items["out"])

\* Pushes outside the exit sequence: signals and errors, to the client.
Ordinary(pushes) ==
    \A i \in 1 .. Len(pushes) :
        /\ pushes[i].queue = "out"
        /\ pushes[i].msg \notin {"BMSG_EXITED", "BMSG_FLUSH_MARKER"}

\* The pushes of ActionExit that are left, and where those before them are.
ExitPushing ==
    \/ /\ event = "E_QUIT" /\ todo = ExitPushes("E_CMD_EXIT")
       /\ Quiet
    \/ /\ event = "E_PUSHED_MARKERS" /\ items["in"] = <<>>
       /\ \/ todo = ExitPushes("E_CMD_EXIT_CLEAN") /\ Quiet
          \/ /\ todo = Tail(ExitPushes("E_CMD_EXIT_CLEAN"))
             /\ items["out"] # <<>> /\ Exited(items["out"])
          \/ /\ todo = Tail(Tail(ExitPushes("E_CMD_EXIT_CLEAN")))
             /\ Len(items["out"]) > 1 /\ Marked(items["out"])

BothMarked ==
    items["in"] = <<"BMSG_FLUSH_MARKER">>
      /\ Len(items["out"]) > 1 /\ Marked(items["out"])

Drained == \A q \in Queues : items[q] = <<>>

MarkerInv ==
    /\ pc = "exit" \/ ~ Exiting => Quiet
    /\ ~ Exiting => Ordinary(todo)
    /\ state = "ST_EXIT" /\ pc = "push" => ExitPushing
    /\ state = "ST_EXIT" /\ pc = "row" =>
          \/ event = "E_QUIT" /\ Exited(items["out"]) /\ Plain(items["in"])
          \/ event = "E_PUSHED_MARKERS" /\ BothMarked
    /\ state = "ST_EXIT" /\ event = "E_QUIT" => cmd = "BMSG_EXIT"
    /\ state = "ST_WMARK1" =>
          \/ pc = "flush_in" /\ BothMarked
          \/ /\ pc = "flush_out" /\ marks = 1 /\ items["in"] = <<>>
             /\ Len(items["out"]) > 1 /\ Marked(items["out"])
          \/ /\ pc = "row" /\ event = "E_MARKER" /\ items["in"] = <<>>
             /\ Marked(items["out"])
    /\ state = "ST_WMARK2" =>
          /\ items["in"] = <<>>
          /\ pc = "flush_out" => marks = 0
          /\ \/ Marked(items["out"]) /\ (pc = "row" => event = "E_NULL")
             \/ items["out"] = <<>> /\ pc = "row" /\ event = "E_MARKER"
    /\ state = "ST_FCLEAN" => Drained
    /\ state = "ST_QUIT" => Exited(items["out"])
    /\ QuitOwnership

\* A thread in ST_START has no connection and waits for its first command; a
\* closing command it has taken is looked at by the next row, or was lost.
LifeInv ==
    /\ state = "ST_START" => conn = "NULL" /\ pc \in {"none", "pump", "poll", "row"}
    /\ cmd \in Commands \cup {"BMSG_EXIT_CLEAN", "NULL"}
    /\ "BMSG_RECONNECT" \in Commands \/ Exiting
          \/ \A i \in 1 .. Len(items["in"]) : items["in"][i] \in Closing
    /\ event \in ExitEvents =>
          \/ pc = "row" /\ state \in Running
          \/ pc = "connect"
          \/ pc = "exit"
    /\ pc \in {"none", "pump", "poll"} /\ state = "ST_START" /\ Asked # "NULL" => Queued(Asked)

ShutdownInv == OwnershipInv /\ ClosingInv /\ MarkerInv /\ LifeInv
=============================================================================
