------------------------------ MODULE FsmProofs ------------------------------
(***************************************************************************)
(* What run_fsm's lookup finds for each state of the browser thread.       *)
(***************************************************************************)
EXTENDS Fsm, TLAPS

\* The row run_fsm dispatches is unique: it is the first that matches.
LEMMA FirstRow ==
    ASSUME NEW s, NEW e, NEW i, Fires(i, s, e)
    PROVE  Transition(s, e) = TransitionTable[i]
<1>1. \A k \in DOMAIN TransitionTable : Fires(k, s, e) => k = i
  BY DEF Fires, TransitionTable
<1> QED
  BY <1>1 DEF Transition, Fires

\* A thread that starts connects, whatever event comes first: a command read
\* in ST_START is dropped.
LEMMA StartRow ==
    ASSUME NEW e
    PROVE  Transition("ST_START", e) = TransitionTable[1]
<1>1. Fires(1, "ST_START", e)
  BY DEF Fires, Matches, TransitionTable, Row
<1> QED
  BY <1>1, FirstRow

\* An attempt to connect is followed by another one, by serving or by waiting.
LEMMA ConnectRow ==
    ASSUME NEW e
    PROVE  \E i \in 2 .. 5 : Transition("ST_CONNECT", e) = TransitionTable[i]
<1>1. \E i \in 2 .. 5 : Fires(i, "ST_CONNECT", e)
  <2>1. CASE e = "E_NULL"
    <3>1. Fires(2, "ST_CONNECT", e)
      BY <2>1 DEF Fires, Matches, TransitionTable, Row
    <3> QED BY <3>1
  <2>2. CASE e = "E_CONNECT_OK"
    <3>1. Fires(3, "ST_CONNECT", e)
      BY <2>2 DEF Fires, Matches, TransitionTable, Row
    <3> QED BY <3>1
  <2>3. CASE e = "E_CONNECT_ERROR"
    <3>1. Fires(4, "ST_CONNECT", e)
      BY <2>3 DEF Fires, Matches, TransitionTable, Row
    <3> QED BY <3>1
  <2>4. CASE e \notin {"E_NULL", "E_CONNECT_OK", "E_CONNECT_ERROR"}
    <3>1. Fires(5, "ST_CONNECT", e)
      BY <2>4 DEF Fires, Matches, TransitionTable, Row
    <3> QED BY <3>1
  <2> QED
    BY <2>1, <2>2, <2>3, <2>4
<1> QED
  BY <1>1, FirstRow

\* A thread that serves leaves for the exit sequence on an exit command only.
LEMMA ServeRow ==
    ASSUME NEW e
    PROVE  /\ e = "E_CMD_EXIT" => Transition("ST_SERVE", e) = TransitionTable[7]
           /\ e = "E_CMD_EXIT_CLEAN" =>
                Transition("ST_SERVE", e) = TransitionTable[8]
           /\ e \notin {"E_CMD_EXIT", "E_CMD_EXIT_CLEAN"} =>
                \E i \in {6, 9} : Transition("ST_SERVE", e) = TransitionTable[i]
<1>1. e = "E_DBUS_DISCONNECT" => Fires(6, "ST_SERVE", e)
  BY DEF Fires, Matches, TransitionTable, Row
<1>2. e = "E_CMD_EXIT" => Fires(7, "ST_SERVE", e)
  BY DEF Fires, Matches, TransitionTable, Row
<1>3. e = "E_CMD_EXIT_CLEAN" => Fires(8, "ST_SERVE", e)
  BY DEF Fires, Matches, TransitionTable, Row
<1>4. e \notin {"E_DBUS_DISCONNECT", "E_CMD_EXIT", "E_CMD_EXIT_CLEAN"} =>
        Fires(9, "ST_SERVE", e)
  BY DEF Fires, Matches, TransitionTable, Row
<1> QED
  BY <1>1, <1>2, <1>3, <1>4, FirstRow

\* A thread that waits reconnects or leaves on command, and waits otherwise.
LEMMA WaitRow ==
    ASSUME NEW e
    PROVE  /\ e = "E_CMD_EXIT" => Transition("ST_WAIT", e) = TransitionTable[11]
           /\ e = "E_CMD_EXIT_CLEAN" =>
                Transition("ST_WAIT", e) = TransitionTable[12]
           /\ e \notin {"E_CMD_EXIT", "E_CMD_EXIT_CLEAN"} =>
                \E i \in {10, 13} : Transition("ST_WAIT", e) = TransitionTable[i]
<1>1. e = "E_CMD_RECONNECT" => Fires(10, "ST_WAIT", e)
  BY DEF Fires, Matches, TransitionTable, Row
<1>2. e = "E_CMD_EXIT" => Fires(11, "ST_WAIT", e)
  BY DEF Fires, Matches, TransitionTable, Row
<1>3. e = "E_CMD_EXIT_CLEAN" => Fires(12, "ST_WAIT", e)
  BY DEF Fires, Matches, TransitionTable, Row
<1>4. e \notin {"E_CMD_RECONNECT", "E_CMD_EXIT", "E_CMD_EXIT_CLEAN"} =>
        Fires(13, "ST_WAIT", e)
  BY DEF Fires, Matches, TransitionTable, Row
<1> QED
  BY <1>1, <1>2, <1>3, <1>4, FirstRow

\* ActionExit is followed by the wait for the first marker if and only if it
\* has pushed the markers; otherwise the thread quits.
LEMMA ExitRow ==
    ASSUME NEW e
    PROVE  /\ e = "E_PUSHED_MARKERS" =>
                Transition("ST_EXIT", e) = TransitionTable[15]
           /\ e # "E_PUSHED_MARKERS" =>
                \E i \in {14, 16} : Transition("ST_EXIT", e) = TransitionTable[i]
<1>1. e = "E_QUIT" => Fires(14, "ST_EXIT", e)
  BY DEF Fires, Matches, TransitionTable, Row
<1>2. e = "E_PUSHED_MARKERS" => Fires(15, "ST_EXIT", e)
  BY DEF Fires, Matches, TransitionTable, Row
<1>3. e \notin {"E_QUIT", "E_PUSHED_MARKERS"} => Fires(16, "ST_EXIT", e)
  BY DEF Fires, Matches, TransitionTable, Row
<1> QED
  BY <1>1, <1>2, <1>3, FirstRow

\* ST_WMARK1 has rows for markers and E_QUIT only; anything else falls to the
\* last row of the table, which connects to the bus again.
LEMMA Mark1Row ==
    ASSUME NEW e
    PROVE  /\ e = "E_MARKER" => Transition("ST_WMARK1", e) = TransitionTable[18]
           /\ e # "E_MARKER" => \E i \in {17, 19, 25} :
                Transition("ST_WMARK1", e) = TransitionTable[i]
<1>1. e = "E_QUIT" => Fires(17, "ST_WMARK1", e)
  BY DEF Fires, Matches, TransitionTable, Row
<1>2. e = "E_MARKER" => Fires(18, "ST_WMARK1", e)
  BY DEF Fires, Matches, TransitionTable, Row
<1>3. e = "E_MARKERS" => Fires(19, "ST_WMARK1", e)
  BY DEF Fires, Matches, TransitionTable, Row
<1>4. e \notin {"E_QUIT", "E_MARKER", "E_MARKERS"} => Fires(25, "ST_WMARK1", e)
  BY DEF Fires, Matches, TransitionTable, Row
<1> QED
  BY <1>1, <1>2, <1>3, <1>4, FirstRow

\* The second marker leads to the clean-up; without it the flush goes on.
LEMMA Mark2Row ==
    ASSUME NEW e
    PROVE  /\ e \in {"E_MARKER", "E_MARKERS", "E_QUIT"} =>
                \E i \in 20 .. 22 : Transition("ST_WMARK2", e) = TransitionTable[i]
           /\ e \notin {"E_MARKER", "E_MARKERS", "E_QUIT"} =>
                Transition("ST_WMARK2", e) = TransitionTable[23]
<1>1. e = "E_MARKER" => Fires(20, "ST_WMARK2", e)
  BY DEF Fires, Matches, TransitionTable, Row
<1>2. e = "E_MARKERS" => Fires(21, "ST_WMARK2", e)
  BY DEF Fires, Matches, TransitionTable, Row
<1>3. e = "E_QUIT" => Fires(22, "ST_WMARK2", e)
  BY DEF Fires, Matches, TransitionTable, Row
<1>4. e \notin {"E_MARKER", "E_MARKERS", "E_QUIT"} => Fires(23, "ST_WMARK2", e)
  BY DEF Fires, Matches, TransitionTable, Row
<1> QED
  BY <1>1, <1>2, <1>3, <1>4, FirstRow

\* After the clean-up the thread quits.
LEMMA CleanRow ==
    ASSUME NEW e
    PROVE  Transition("ST_FCLEAN", e) = TransitionTable[24]
<1>1. Fires(24, "ST_FCLEAN", e)
  BY DEF Fires, Matches, TransitionTable, Row
<1> QED
  BY <1>1, FirstRow

-----------------------------------------------------------------------------
\* The table read by its targets: for every state a thread can be in and every
\* event, run_fsm dispatches one of these transitions.  In particular the exit
\* sequence is entered by an exit command only and walked through in order.
THEOREM RowCases ==
    ASSUME NEW s \in States \ {"ST_QUIT", "ST_TRAP"}, NEW e
    PROVE  LET r == Transition(s, e) IN
           \/ /\ r.to = "ST_CONNECT" /\ r.do = "ActionConnect"
              /\ s \in {"ST_START", "ST_CONNECT", "ST_WAIT", "ST_WMARK1"}
              /\ s = "ST_WMARK1" => e # "E_MARKER"
           \/ /\ r.to \in {"ST_SERVE", "ST_WAIT"}
              /\ r.do \in {"ActionServe", "ActionWait"}
              /\ s \in {"ST_CONNECT", "ST_SERVE", "ST_WAIT"}
           \/ /\ r.to = "ST_EXIT" /\ r.do = "ActionExit"
              /\ s \in {"ST_SERVE", "ST_WAIT"}
              /\ e \in {"E_CMD_EXIT", "E_CMD_EXIT_CLEAN"}
           \/ /\ r.to = "ST_WMARK1" /\ r.do = "ActionWaitMarkers1"
              /\ s = "ST_EXIT" /\ e = "E_PUSHED_MARKERS"
           \/ /\ r.to = "ST_WMARK2" /\ r.do = "ActionWaitMarkers2"
              /\ \/ s = "ST_WMARK1" /\ e = "E_MARKER"
                 \/ s = "ST_WMARK2" /\ e \notin {"E_MARKER", "E_MARKERS", "E_QUIT"}
           \/ /\ r.to = "ST_FCLEAN" /\ r.do = "ActionFinalCleanup"
              /\ s = "ST_WMARK2" /\ e \in {"E_MARKER", "E_MARKERS", "E_QUIT"}
           \/ /\ r.to = "ST_QUIT" /\ r.do = "NULL"
              /\ \/ s = "ST_EXIT" /\ e # "E_PUSHED_MARKERS"
                 \/ s = "ST_WMARK1" /\ e # "E_MARKER"
                 \/ s = "ST_FCLEAN"
<1>1. CASE s = "ST_START"
  BY <1>1, StartRow DEF TransitionTable, Row
<1>2. CASE s = "ST_CONNECT"
  BY <1>2, ConnectRow DEF TransitionTable, Row
<1>3. CASE s = "ST_SERVE"
  BY <1>3, ServeRow DEF TransitionTable, Row
<1>4. CASE s = "ST_WAIT"
  BY <1>4, WaitRow DEF TransitionTable, Row
<1>5. CASE s = "ST_EXIT"
  BY <1>5, ExitRow DEF TransitionTable, Row
<1>6. CASE s = "ST_WMARK1"
  BY <1>6, Mark1Row DEF TransitionTable, Row
<1>7. CASE s = "ST_WMARK2"
  BY <1>7, Mark2Row DEF TransitionTable, Row
<1>8. CASE s = "ST_FCLEAN"
  BY <1>8, CleanRow DEF TransitionTable, Row
<1> QED
  BY <1>1, <1>2, <1>3, <1>4, <1>5, <1>6, <1>7, <1>8 DEF States

\* A thread that serves or waits obeys a request to leave.
LEMMA ExitObeyed ==
    ASSUME NEW s \in {"ST_SERVE", "ST_WAIT"},
           NEW e \in {"E_CMD_EXIT", "E_CMD_EXIT_CLEAN"}
    PROVE  Transition(s, e).to = "ST_EXIT" /\ Transition(s, e).do = "ActionExit"
  BY ServeRow, WaitRow DEF TransitionTable, Row

\* Only ST_WMARK1 lets an event fall to the last row: in every other state the
\* rows written for it end with one for E_ANY.
THEOREM TrapOnlyFromMark1 ==
    ASSUME NEW s \in States \ {"ST_QUIT", "ST_TRAP", "ST_WMARK1"}, NEW e
    PROVE  ~ FallsToTrap(s, e)
<1>1. Len(TransitionTable) = 25
  BY DEF TransitionTable
<1>2. \E j \in 1 .. 24 : Matches(j, s, e)
  <2>1. s = "ST_START" => Matches(1, s, e)
    BY DEF Matches, TransitionTable, Row
  <2>2. s = "ST_CONNECT" => Matches(5, s, e)
    BY DEF Matches, TransitionTable, Row
  <2>3. s = "ST_SERVE" => Matches(9, s, e)
    BY DEF Matches, TransitionTable, Row
  <2>4. s = "ST_WAIT" => Matches(13, s, e)
    BY DEF Matches, TransitionTable, Row
  <2>5. s = "ST_EXIT" => Matches(16, s, e)
    BY DEF Matches, TransitionTable, Row
  <2>6. s = "ST_WMARK2" => Matches(23, s, e)
    BY DEF Matches, TransitionTable, Row
  <2>7. s = "ST_FCLEAN" => Matches(24, s, e)
    BY DEF Matches, TransitionTable, Row
  <2> QED
    BY <2>1, <2>2, <2>3, <2>4, <2>5, <2>6, <2>7 DEF States
<1> QED
  BY <1>1, <1>2 DEF FallsToTrap, Fires
=============================================================================
