--------------------------------- MODULE Fsm ---------------------------------
(***************************************************************************)
(* The transition table of the browser thread (browser.cc) and the way     *)
(* run_fsm looks a row up in it: the rows are tried from the top, the      *)
(* first one whose state and event match is taken, E_ANY matches every     *)
(* event and a row written for ST_TRAP matches every state.                *)
(***************************************************************************)
EXTENDS Naturals, Sequences

Events == { "E_NULL", "E_ANY", "E_DBUS_DISCONNECT", "E_CONNECT_OK",
            "E_CONNECT_ERROR", "E_CMD_RECONNECT", "E_CMD_EXIT",
            "E_CMD_EXIT_CLEAN", "E_PUSHED_MARKERS", "E_FLUSH_MARKER",
            "E_MARKER", "E_MARKERS", "E_QUIT" }

States == { "ST_START", "ST_CONNECT", "ST_SERVE", "ST_WAIT", "ST_EXIT",
            "ST_WMARK1", "ST_WMARK2", "ST_FCLEAN", "ST_QUIT", "ST_TRAP" }

Row(from, on, to, do) == [from |-> from, on |-> on, to |-> to, do |-> do]

\* "NULL" stands for a row without an action.
TransitionTable == <<
    Row("ST_START",   "E_ANY",             "ST_CONNECT", "ActionConnect"),

    Row("ST_CONNECT", "E_NULL",            "ST_CONNECT", "ActionConnect"),
    Row("ST_CONNECT", "E_CONNECT_OK",      "ST_SERVE",   "ActionServe"),
    Row("ST_CONNECT", "E_CONNECT_ERROR",   "ST_WAIT",    "ActionWait"),
    Row("ST_CONNECT", "E_ANY",             "ST_WAIT",    "ActionWait"),

    Row("ST_SERVE",   "E_DBUS_DISCONNECT", "ST_WAIT",    "ActionWait"),
    Row("ST_SERVE",   "E_CMD_EXIT",        "ST_EXIT",    "ActionExit"),
    Row("ST_SERVE",   "E_CMD_EXIT_CLEAN",  "ST_EXIT",    "ActionExit"),
    Row("ST_SERVE",   "E_ANY",             "ST_SERVE",   "ActionServe"),

    Row("ST_WAIT",    "E_CMD_RECONNECT",   "ST_CONNECT", "ActionConnect"),
    Row("ST_WAIT",    "E_CMD_EXIT",        "ST_EXIT",    "ActionExit"),
    Row("ST_WAIT",    "E_CMD_EXIT_CLEAN",  "ST_EXIT",    "ActionExit"),
    Row("ST_WAIT",    "E_ANY",             "ST_WAIT",    "ActionWait"),

    Row("ST_EXIT",    "E_QUIT",            "ST_QUIT",    "NULL"),
    Row("ST_EXIT",    "E_PUSHED_MARKERS",  "ST_WMARK1",  "ActionWaitMarkers1"),
    Row("ST_EXIT",    "E_ANY",             "ST_QUIT",    "NULL"),

    Row("ST_WMARK1",  "E_QUIT",            "ST_QUIT",    "NULL"),
    Row("ST_WMARK1",  "E_MARKER",          "ST_WMARK2",  "ActionWaitMarkers2"),
    Row("ST_WMARK1",  "E_MARKERS",         "ST_QUIT",    "NULL"),

    Row("ST_WMARK2",  "E_MARKER",          "ST_FCLEAN",  "ActionFinalCleanup"),
    Row("ST_WMARK2",  "E_MARKERS",         "ST_FCLEAN",  "ActionFinalCleanup"),
    Row("ST_WMARK2",  "E_QUIT",            "ST_FCLEAN",  "ActionFinalCleanup"),
    Row("ST_WMARK2",  "E_ANY",             "ST_WMARK2",  "ActionWaitMarkers2"),

    Row("ST_FCLEAN",  "E_ANY",             "ST_QUIT",    "NULL"),

    Row("ST_TRAP",    "E_ANY",             "ST_CONNECT", "ActionConnect") >>

\* run_fsm's test of row i against the current state and event.
Matches(i, s, e) ==
    /\ TransitionTable[i].from \in {s, "ST_TRAP"}
    /\ TransitionTable[i].on \in {e, "E_ANY"}

\* Row i is the one run_fsm dispatches: it matches and no row above it does.
Fires(i, s, e) ==
    /\ i \in DOMAIN TransitionTable
    /\ Matches(i, s, e)
    /\ \A j \in 1 .. (i - 1) : ~ Matches(j, s, e)

\* Mutants of Transition: the first marker is taken for both, the second one is never
\* recognised, or ST_WAIT has no row for exit & clean.
FirstMarkerCleans(s, e) ==
    IF s = "ST_WMARK1" /\ e = "E_MARKER"
    THEN Row("ST_WMARK1", "E_MARKER", "ST_FCLEAN", "ActionFinalCleanup")
    ELSE TransitionTable[CHOOSE i \in DOMAIN TransitionTable : Fires(i, s, e)]

SecondMarkerIgnored(s, e) ==
    IF s = "ST_WMARK2" /\ e = "E_MARKER"
    THEN Row("ST_WMARK2", "E_ANY", "ST_WMARK2", "ActionWaitMarkers2")
    ELSE TransitionTable[CHOOSE i \in DOMAIN TransitionTable : Fires(i, s, e)]

WaitingIgnoresRelease(s, e) ==
    IF s = "ST_WAIT" /\ e = "E_CMD_EXIT_CLEAN"
    THEN Row("ST_WAIT", "E_ANY", "ST_WAIT", "ActionWait")
    ELSE TransitionTable[CHOOSE i \in DOMAIN TransitionTable : Fires(i, s, e)]

Transition(s, e) ==
    TransitionTable[CHOOSE i \in DOMAIN TransitionTable : Fires(i, s, e)]

\* No row was written for this pair: the last row of the table catches it.
FallsToTrap(s, e) == Fires(Len(TransitionTable), s, e)
=============================================================================
