---------------------------- MODULE SharedBusProofs ----------------------------
(***************************************************************************)
(* SharedBus for every number of threads: references (BusInv), what the    *)
(* bus sends (OrderInv), and the end of a thread (EndInv).                 *)
(***************************************************************************)
EXTENDS SharedBus, FiniteSetTheorems, SequenceTheorems, TLAPS

-----------------------------------------------------------------------------
(* References and stages.                                                  *)

\* A thread has the connection in bp->conn while it serves, until ActionExit; nobody
\* serves before a filter was added; and nobody leaves without having been released.
StageInv ==
    \A t \in Threads :
        /\ conn[t] = "open" => stage[t] \in {"serve", "dispatch", "deaf", "exit"}
        /\ stage[t] \in {"serve", "dispatch", "deaf"} => conn[t] = "open"
        /\ stage[t] \in {"match", "request", "serve", "dispatch", "deaf"} => filters # <<>>
        /\ stage[t] \in {"exit", "flush", "clean", "done"} => t \in released
        /\ t \in freed <=> stage[t] = "done"

BusInv == TypeOK /\ StageInv /\ RefsExact

\* What GoTo does to the stages.
LEMMA GoToStep ==
    ASSUME stage \in [Threads -> Stages], NEW t \in Threads, NEW s \in Stages, GoTo(t, s)
    PROVE  /\ stage' \in [Threads -> Stages]
           /\ stage'[t] = s
           /\ \A u \in Threads \ {t} : stage'[u] = stage[u]
  BY DEF GoTo

\* The holders are finitely many.
LEMMA HoldersFinite ==
    /\ IsFiniteSet(Holders)
    /\ Cardinality(Holders) \in Nat
<1>1. IsFiniteSet(Holders)
  BY BusAssumption, FS_Subset DEF Holders
<1> QED
  BY <1>1, FS_CardinalityType

\* A thread that takes a reference, one that gives its own back, and a step that
\* changes nobody's.
LEMMA HoldersStep ==
    ASSUME TypeOK, RefsExact, NEW t \in Threads
    PROVE  /\ t \notin Holders /\ Holders' = Holders \cup {t} /\ refs' = refs + 1
                => RefsExact'
           /\ t \in Holders /\ Holders' = Holders \ {t} /\ refs' = refs - 1
                => RefsExact' /\ refs' \in Nat
           /\ Holders' = Holders /\ refs' = refs => RefsExact'
<1> USE DEF RefsExact
<1>1. ASSUME t \notin Holders, Holders' = Holders \cup {t}, refs' = refs + 1
      PROVE  RefsExact'
  BY <1>1, HoldersFinite, FS_AddElement
<1>2. ASSUME t \in Holders, Holders' = Holders \ {t}, refs' = refs - 1
      PROVE  RefsExact' /\ refs' \in Nat
  <2>1. Cardinality(Holders \ {t}) = Cardinality(Holders) - 1
    BY <1>2, HoldersFinite, FS_RemoveElement
  <2>2. Cardinality(Holders \ {t}) \in Nat
    BY HoldersFinite, FS_RemoveElement, FS_CardinalityType
  <2> QED
    BY <1>2, <2>1, <2>2
<1>3. ASSUME Holders' = Holders, refs' = refs
      PROVE  RefsExact'
  BY <1>3
<1> QED
  BY <1>1, <1>2, <1>3

\* Messages are pushed at the end.
LEMMA PushTypes ==
    ASSUME TypeOK, NEW t \in Threads, NEW ms \in Seq(Messages), Push(t, ms)
    PROVE  /\ out' \in [Threads -> Seq(Messages)]
           /\ out'[t] = out[t] \o ms
           /\ \A u \in Threads \ {t} : out'[u] = out[u]
  BY DEF Push, TypeOK

\* What Append does to a sequence.
LEMMA AppendFacts ==
    ASSUME NEW S, NEW s \in Seq(S), NEW x \in S
    PROVE  /\ Append(s, x) \in Seq(S) /\ Append(s, x) # <<>>
           /\ Len(s) \in Nat /\ Len(Append(s, x)) = Len(s) + 1
           /\ Append(s, x)[Len(s) + 1] = x
           /\ \A i \in 1 .. Len(s) : Append(s, x)[i] = s[i]
<1>1. Append(s, x) \in Seq(S) /\ Len(s) \in Nat /\ Len(Append(s, x)) = Len(s) + 1
  OBVIOUS
<1>2. Append(s, x) # <<>>
  BY <1>1
<1>3. /\ Append(s, x)[Len(s) + 1] = x
      /\ \A i \in 1 .. Len(s) : Append(s, x)[i] = s[i]
  OBVIOUS
<1> QED
  BY <1>1, <1>2, <1>3

\* The messages by name.
LEMMA MessageNames ==
    /\ SetupError \in Messages /\ Exited \in Messages /\ Marker \in Messages
    /\ Disconnected \in Nat /\ 0 .. Disconnected \subseteq Messages
    /\ SetupError \notin FromBus /\ Exited \notin FromBus /\ Marker \notin FromBus
    /\ Marker \notin 0 .. Disconnected /\ Marker # Exited /\ Marker # SetupError
    /\ Disconnected \in FromBus
  BY BusAssumption DEF SetupError, Exited, Marker, Disconnected, Messages, FromBus

\* The filter pushes what was dispatched to the channel of the first bp.
LEMMA FilterPush ==
    ASSUME BusInv, NEW t \in Threads, Filter(t)
    PROVE  /\ filters[1] \in Threads
           /\ out' \in [Threads -> Seq(Messages)]
           /\ out'[filters[1]] = Append(out[filters[1]], taken)
           /\ \A u \in Threads \ {filters[1]} : out'[u] = out[u]
<1> USE DEF BusInv, TypeOK
<1>1. filters \in Seq(Threads) /\ filters # <<>>
  BY DEF Filter, At, StageInv
<1>2. filters[1] \in Threads
  BY <1>1
<1>3. taken \in Messages /\ <<taken>> \in Seq(Messages)
  BY MessageNames
<1>4. /\ out' \in [Threads -> Seq(Messages)]
      /\ out'[filters[1]] = out[filters[1]] \o <<taken>>
      /\ \A u \in Threads \ {filters[1]} : out'[u] = out[u]
  BY <1>2, <1>3, PushTypes DEF Filter
<1>5. out[filters[1]] \in Seq(Messages)
  BY <1>2
<1>6. out[filters[1]] \o <<taken>> = Append(out[filters[1]], taken)
  BY <1>3, <1>5
<1> QED
  BY <1>2, <1>4, <1>6

\* The steps of the set-up.
LEMMA SetupStep ==
    ASSUME BusInv, NEW t \in Threads, Start(t) \/ Setup(t) \/ Reconnect(t)
    PROVE  BusInv'
<1> USE DEF BusInv, TypeOK, At, threadVars, busVars
<1>1. CASE Start(t) \/ AddMatch(t) \/ Reconnect(t)
  <2>1. PICK s \in {"bus", "request"} :
            /\ GoTo(t, s)
            /\ s = "bus" => stage[t] \in {"off", "wait"}
            /\ s = "request" => stage[t] = "match"
            /\ UNCHANGED <<busVars, conn, out, heard, released, freed, stale>>
    BY <1>1 DEF Start, AddMatch, Reconnect
  <2>2. /\ stage' \in [Threads -> Stages] /\ stage'[t] = s
        /\ \A u \in Threads \ {t} : stage'[u] = stage[u]
    BY <2>1, GoToStep DEF Stages
  <2>3. TypeOK'
    BY <2>1, <2>2
  <2>4. StageInv'
    BY <2>1, <2>2 DEF StageInv
  <2>5. Holders' = Holders
    BY <2>1, <2>2 DEF Holders, SettingUp
  <2> QED
    BY <2>1, <2>3, <2>4, <2>5, HoldersStep
<1>2. CASE GetBus(t)
  <2>2. /\ stage' \in [Threads -> Stages] /\ stage'[t] = "filter"
        /\ \A u \in Threads \ {t} : stage'[u] = stage[u]
    BY <1>2, GoToStep DEF GetBus, Stages
  <2>3. TypeOK'
    BY <1>2, <2>2 DEF GetBus
  <2>4. StageInv'
    BY <1>2, <2>2 DEF GetBus, StageInv
  <2>5. t \notin Holders /\ Holders' = Holders \cup {t}
    BY <1>2, <2>2 DEF GetBus, Holders, SettingUp, StageInv
  <2> QED
    BY <1>2, <2>3, <2>4, <2>5, HoldersStep DEF GetBus
<1>3. CASE NoBus(t)
  <2>2. /\ stage' \in [Threads -> Stages] /\ stage'[t] = "wait"
        /\ \A u \in Threads \ {t} : stage'[u] = stage[u]
    BY <1>3, GoToStep DEF NoBus, Stages
  <2>3. conn' = conn
    BY <1>3 DEF NoBus, StageInv
  <2>4. TypeOK'
    BY <1>3, <2>2, <2>3 DEF NoBus
  <2>5. StageInv'
    BY <1>3, <2>2, <2>3 DEF NoBus, StageInv
  <2>6. Holders' = Holders
    BY <1>3, <2>2, <2>3 DEF NoBus, Holders, SettingUp
  <2> QED
    BY <1>3, <2>4, <2>5, <2>6, HoldersStep DEF NoBus
<1>4. CASE AddFilter(t)
  <2>2. /\ stage' \in [Threads -> Stages] /\ stage'[t] = "match"
        /\ \A u \in Threads \ {t} : stage'[u] = stage[u]
    BY <1>4, GoToStep DEF AddFilter, Stages
  <2>3. filters' \in Seq(Threads) /\ filters' # <<>>
    <3>1. filters \in Seq(Threads) /\ filters' = Append(filters, t)
      BY <1>4 DEF AddFilter
    <3>2. filters' \in Seq(Threads) /\ Len(filters') = Len(filters) + 1
      BY <3>1
    <3>3. Len(filters) \in Nat
      BY <3>1
    <3> QED
      BY <3>2, <3>3
  <2>4. TypeOK'
    BY <1>4, <2>2, <2>3 DEF AddFilter
  <2>5. StageInv'
    BY <1>4, <2>2, <2>3 DEF AddFilter, StageInv
  <2>6. Holders' = Holders
    BY <1>4, <2>2 DEF AddFilter, Holders, SettingUp
  <2> QED
    BY <1>4, <2>4, <2>5, <2>6, HoldersStep DEF AddFilter
<1>5. CASE Request(t)
  <2>2. /\ stage' \in [Threads -> Stages] /\ stage'[t] = "serve"
        /\ \A u \in Threads \ {t} : stage'[u] = stage[u]
    BY <1>5, GoToStep DEF Request, Stages
  <2>3. /\ conn' \in [Threads -> {"NULL", "open"}] /\ conn'[t] = "open"
        /\ \A u \in Threads \ {t} : conn'[u] = conn[u]
    BY <1>5 DEF Request
  <2>4. TypeOK'
    BY <1>5, <2>2, <2>3 DEF Request
  <2>5. StageInv'
    BY <1>5, <2>2, <2>3 DEF Request, StageInv
  <2>6. Holders' = Holders
    BY <1>5, <2>2, <2>3 DEF Request, Holders, SettingUp
  <2> QED
    BY <1>5, <2>4, <2>5, <2>6, HoldersStep DEF Request
<1>6. CASE SetupFails(t)
  <2>2. /\ stage' \in [Threads -> Stages] /\ stage'[t] = "wait"
        /\ \A u \in Threads \ {t} : stage'[u] = stage[u]
    BY <1>6, GoToStep DEF SetupFails, Stages
  <2>3. conn' = conn
    BY <1>6 DEF SetupFails, StageInv, SettingUp
  <2>1. <<SetupError>> \in Seq(Messages)
    BY MessageNames
  <2>4. out' \in [Threads -> Seq(Messages)]
    BY <1>6, <2>1, PushTypes DEF SetupFails
  <2>5. t \in Holders /\ Holders' = Holders \ {t}
    BY <1>6, <2>2, <2>3 DEF SetupFails, Holders, SettingUp, StageInv
  <2>6. RefsExact' /\ refs' \in Nat
    BY <1>6, <2>5, HoldersStep DEF SetupFails
  <2>7. TypeOK'
    BY <1>6, <2>2, <2>3, <2>4, <2>6 DEF SetupFails
  <2>8. StageInv'
    BY <1>6, <2>2, <2>3 DEF SetupFails, StageInv, SettingUp
  <2> QED
    BY <2>6, <2>7, <2>8
<1> QED
  BY <1>1, <1>2, <1>3, <1>4, <1>5, <1>6 DEF Setup

\* The dispatch.
LEMMA DispatchStep ==
    ASSUME BusInv, NEW t \in Threads, Dispatch(t)
    PROVE  BusInv'
<1> USE DEF BusInv, TypeOK, At, threadVars, busVars
<1>1. CASE TakeSignal(t)
  <2>1. /\ stage' \in [Threads -> Stages] /\ stage'[t] = "dispatch"
        /\ \A u \in Threads \ {t} : stage'[u] = stage[u]
    BY <1>1, GoToStep DEF TakeSignal, Stages
  <2>2. taken' \in 0 .. Disconnected
    BY <1>1, BusAssumption DEF TakeSignal, Disconnected
  <2>3. TypeOK'
    BY <1>1, <2>1, <2>2 DEF TakeSignal
  <2>4. StageInv'
    BY <1>1, <2>1 DEF TakeSignal, StageInv
  <2>5. Holders' = Holders
    BY <1>1, <2>1 DEF TakeSignal, Holders, SettingUp
  <2> QED
    BY <1>1, <2>3, <2>4, <2>5, HoldersStep DEF TakeSignal
<1>2. CASE TakeDisconnected(t)
  <2>1. /\ stage' \in [Threads -> Stages] /\ stage'[t] = "dispatch"
        /\ \A u \in Threads \ {t} : stage'[u] = stage[u]
    BY <1>2, GoToStep DEF TakeDisconnected, Stages
  <2>2. taken' \in 0 .. Disconnected
    BY <1>2, BusAssumption DEF TakeDisconnected, Disconnected
  <2>3. TypeOK'
    BY <1>2, <2>1, <2>2 DEF TakeDisconnected
  <2>4. StageInv'
    BY <1>2, <2>1 DEF TakeDisconnected, StageInv
  <2>5. Holders' = Holders
    BY <1>2, <2>1 DEF TakeDisconnected, Holders, SettingUp
  <2> QED
    BY <1>2, <2>3, <2>4, <2>5, HoldersStep DEF TakeDisconnected
<1>3. CASE Filter(t)
  <2>1. PICK s \in {"serve", "deaf"} : GoTo(t, s)
    BY <1>3 DEF Filter, AfterDispatch
  <2>2. /\ stage' \in [Threads -> Stages] /\ stage'[t] = s
        /\ \A u \in Threads \ {t} : stage'[u] = stage[u]
    BY <2>1, GoToStep DEF Stages
  <2>3. out' \in [Threads -> Seq(Messages)]
    BY <1>3, FilterPush
  <2>4. stale' \in BOOLEAN /\ UNCHANGED <<busVars, conn, heard, released, freed>>
    BY <1>3 DEF Filter
  <2>5. TypeOK'
    BY <2>2, <2>3, <2>4
  <2>6. stage[t] = "dispatch"
    BY <1>3 DEF Filter
  <2>7. StageInv'
    BY <2>2, <2>4, <2>6 DEF StageInv
  <2>8. Holders' = Holders
    BY <2>2, <2>4, <2>6 DEF Holders, SettingUp
  <2> QED
    BY <2>4, <2>5, <2>7, <2>8, HoldersStep
<1>4. CASE SeeLoss(t)
  <2>1. /\ stage' \in [Threads -> Stages] /\ stage'[t] = "deaf"
        /\ \A u \in Threads \ {t} : stage'[u] = stage[u]
    BY <1>4, GoToStep DEF SeeLoss, Stages
  <2>3. TypeOK'
    BY <1>4, <2>1 DEF SeeLoss
  <2>4. StageInv'
    BY <1>4, <2>1 DEF SeeLoss, StageInv
  <2>5. Holders' = Holders
    BY <1>4, <2>1 DEF SeeLoss, Holders, SettingUp
  <2> QED
    BY <1>4, <2>3, <2>4, <2>5, HoldersStep DEF SeeLoss
<1> QED
  BY <1>1, <1>2, <1>3, <1>4 DEF Dispatch

\* The clients, and the exit sequence.
LEMMA LeaveStep ==
    ASSUME BusInv, NEW t \in Threads, Pop(t) \/ Release(t) \/ Leave(t)
    PROVE  BusInv'
<1> USE DEF BusInv, TypeOK, At, threadVars, busVars
<1>1. CASE Pop(t)
  <2>1. out'[t] = Tail(out[t]) /\ out' \in [Threads -> Seq(Messages)]
    BY <1>1 DEF Pop
  <2>2. heard' \in [Threads -> Seq(Messages)]
    <3>1. out[t] \in Seq(Messages) /\ out[t] # <<>> /\ heard[t] \in Seq(Messages)
      BY <1>1 DEF Pop
    <3>2. Append(heard[t], Head(out[t])) \in Seq(Messages)
      BY <3>1
    <3>3. CASE heard' = heard
      BY <3>3
    <3>4. CASE heard' = [heard EXCEPT ![t] = Append(@, Head(out[t]))]
      BY <3>2, <3>4
    <3> QED
      BY <1>1, <3>3, <3>4 DEF Pop
  <2>3. TypeOK'
    BY <1>1, <2>1, <2>2 DEF Pop
  <2>4. StageInv' /\ Holders' = Holders
    BY <1>1 DEF Pop, StageInv, Holders, SettingUp
  <2> QED
    BY <1>1, <2>3, <2>4, HoldersStep DEF Pop
<1>2. CASE Release(t)
  <2>1. TypeOK'
    BY <1>2 DEF Release
  <2>2. StageInv' /\ Holders' = Holders
    BY <1>2 DEF Release, StageInv, Holders, SettingUp
  <2> QED
    BY <1>2, <2>1, <2>2, HoldersStep DEF Release
<1>3. CASE ReadRelease(t)
  <2>1. /\ stage' \in [Threads -> Stages] /\ stage'[t] = "exit"
        /\ \A u \in Threads \ {t} : stage'[u] = stage[u]
    BY <1>3, GoToStep DEF ReadRelease, Stages
  <2>3. TypeOK'
    BY <1>3, <2>1 DEF ReadRelease
  <2>4. StageInv'
    BY <1>3, <2>1 DEF ReadRelease, StageInv
  <2>5. Holders' = Holders
    BY <1>3, <2>1 DEF ReadRelease, Holders, SettingUp
  <2> QED
    BY <1>3, <2>3, <2>4, <2>5, HoldersStep DEF ReadRelease
<1>4. CASE Exit(t)
  <2>1. /\ stage' \in [Threads -> Stages] /\ stage'[t] = "flush"
        /\ \A u \in Threads \ {t} : stage'[u] = stage[u]
    BY <1>4, GoToStep DEF Exit, Stages
  <2>2. /\ conn' \in [Threads -> {"NULL", "open"}] /\ conn'[t] = "NULL"
        /\ \A u \in Threads \ {t} : conn'[u] = conn[u]
    BY <1>4 DEF Exit
  <2>3. <<Exited, Marker>> \in Seq(Messages)
    BY MessageNames
  <2>4. out' \in [Threads -> Seq(Messages)]
    BY <1>4, <2>3, PushTypes DEF Exit
  <2>5. stage[t] = "exit"
    BY <1>4 DEF Exit
  <2>6. Holders' = Holders \ {t} /\ (t \in Holders <=> conn[t] = "open")
    BY <2>1, <2>2, <2>5 DEF Holders, SettingUp
  <2>7. CASE conn[t] = "open"
    <3>1. refs' = refs - 1
      BY <1>4, <2>7 DEF Exit
    <3> QED
      BY <2>6, <2>7, <3>1, HoldersStep, <1>4, <2>1, <2>2, <2>4, <2>5 DEF Exit, StageInv
  <2>8. CASE conn[t] # "open"
    <3>1. refs' = refs /\ Holders' = Holders
      BY <1>4, <2>6, <2>8 DEF Exit
    <3> QED
      BY <3>1, HoldersStep, <1>4, <2>1, <2>2, <2>4, <2>5 DEF Exit, StageInv
  <2> QED
    BY <2>7, <2>8
<1>5. CASE Flush(t)
  <2>1. PICK s \in {"flush", "clean"} : GoTo(t, s)
    BY <1>5 DEF Flush
  <2>2. /\ stage' \in [Threads -> Stages] /\ stage'[t] = s
        /\ \A u \in Threads \ {t} : stage'[u] = stage[u]
    BY <2>1, GoToStep DEF Stages
  <2>3. out' \in [Threads -> Seq(Messages)]
    BY <1>5 DEF Flush
  <2>4. TypeOK'
    BY <1>5, <2>2, <2>3 DEF Flush
  <2>5. StageInv'
    BY <1>5, <2>2 DEF Flush, StageInv
  <2>6. Holders' = Holders
    BY <1>5, <2>2 DEF Flush, Holders, SettingUp
  <2> QED
    BY <1>5, <2>4, <2>5, <2>6, HoldersStep DEF Flush
<1>6. CASE Clean(t)
  <2>1. /\ stage' \in [Threads -> Stages] /\ stage'[t] = "done"
        /\ \A u \in Threads \ {t} : stage'[u] = stage[u]
    BY <1>6, GoToStep DEF Clean, Stages
  <2>2. freed' = freed \cup {t} /\ t \in released /\ stage[t] = "clean"
    BY <1>6 DEF Clean, StageInv
  <2>3. TypeOK'
    BY <1>6, <2>1, <2>2 DEF Clean
  <2>4. StageInv'
    BY <1>6, <2>1, <2>2 DEF Clean, StageInv
  <2>5. Holders' = Holders
    BY <1>6, <2>1 DEF Clean, Holders, SettingUp
  <2> QED
    BY <1>6, <2>3, <2>4, <2>5, HoldersStep DEF Clean
<1> QED
  BY <1>1, <1>2, <1>3, <1>4, <1>5, <1>6 DEF Leave

\* Every step keeps BusInv.
LEMMA BusStep == BusInv /\ [Next]_vars => BusInv'
<1> SUFFICES ASSUME BusInv, [Next]_vars
             PROVE  BusInv'
  OBVIOUS
<1>1. ASSUME NEW t \in Threads, Client(t) \/ Thread(t)
      PROVE  BusInv'
  BY <1>1, SetupStep, DispatchStep, LeaveStep DEF Client, Thread
<1>2. CASE Send \/ Lose
  <2>1. TypeOK'
    <3>1. sent' \in 0 .. MaxSignals /\ link' \in {"up", "lost", "gone"}
      BY <1>2, BusAssumption DEF BusInv, TypeOK, Send, Lose
    <3>2. UNCHANGED <<filters, refs, taken, threadVars>> /\ asked' = asked
      BY <1>2 DEF Send, Lose
    <3> QED
      BY <3>1, <3>2 DEF BusInv, TypeOK, threadVars
  <2>2. StageInv' /\ RefsExact'
    BY <1>2 DEF BusInv, StageInv, RefsExact, Holders, SettingUp, Send, Lose, threadVars
  <2> QED
    BY <2>1, <2>2 DEF BusInv
<1>3. CASE UNCHANGED vars
  <2>1. TypeOK'
    BY <1>3 DEF BusInv, TypeOK, vars, busVars, threadVars
  <2>2. StageInv' /\ RefsExact'
    BY <1>3 DEF BusInv, StageInv, RefsExact, Holders, SettingUp, vars, busVars, threadVars
  <2> QED
    BY <2>1, <2>2 DEF BusInv
<1> QED
  BY <1>1, <1>2, <1>3 DEF Next

\* BusInv holds before any thread has started.
LEMMA BusStart == Init => BusInv
<1> SUFFICES ASSUME Init
             PROVE  BusInv
  OBVIOUS
<1>1. TypeOK
  <2>1. <<>> \in Seq(Threads) /\ <<>> \in Seq(Messages)
    OBVIOUS
  <2>2. out \in [Threads -> Seq(Messages)] /\ heard \in [Threads -> Seq(Messages)]
    BY <2>1 DEF Init
  <2>3. stage \in [Threads -> Stages] /\ conn \in [Threads -> {"NULL", "open"}]
    BY DEF Init, Stages
  <2>4. sent \in 0 .. MaxSignals /\ taken \in 0 .. Disconnected /\ refs \in Nat
    BY BusAssumption DEF Init, Disconnected
  <2> QED
    BY <2>1, <2>2, <2>3, <2>4 DEF Init, TypeOK
<1>2. StageInv
  BY DEF Init, StageInv
<1>3. Holders = {}
  BY DEF Init, Holders, SettingUp
<1>4. RefsExact
  BY <1>3, FS_EmptySet DEF Init, RefsExact
<1> QED
  BY <1>1, <1>2, <1>4 DEF BusInv

\* BusInv holds for every number of threads.
LEMMA BusAlways == Spec => []BusInv
  BY BusStart, BusStep, PTL DEF Spec

\* The variables keep their types, for every number of threads.
THEOREM BusTypes == Spec => []TypeOK
<1>1. BusInv => TypeOK
  BY DEF BusInv
<1> QED
  BY <1>1, BusAlways, PTL

\* However many instances share the connection, the references to it are those of the
\* threads that set it up or use it: failed set-ups and exits give back what they took.
THEOREM ReferencesBalance == Spec => []RefsExact
<1>1. BusInv => RefsExact
  BY DEF BusInv
<1> QED
  BY <1>1, BusAlways, PTL

-----------------------------------------------------------------------------
(* Feeds: sequences of messages.                                           *)

\* The messages from the bus are in order; they are below a number; one is there.
Ordered(s) ==
    \A i, j \in 1 .. Len(s) :
        i < j /\ s[i] \in FromBus /\ s[j] \in FromBus => s[i] < s[j]

Below(s, n) == \A i \in 1 .. Len(s) : s[i] \in FromBus => s[i] < n

Has(s, n) == \E i \in 1 .. Len(s) : s[i] = n

\* A message behind a feed: it is in order if it is from no bus or above the feed.
LEMMA AppendFeed ==
    ASSUME NEW s \in Seq(Messages), NEW m \in Messages, NEW n \in Nat
    PROVE  /\ Ordered(s) /\ (m \in FromBus => Below(s, m)) => Ordered(Append(s, m))
           /\ Below(s, n) /\ (m \in FromBus => m < n) => Below(Append(s, m), n)
           /\ Has(Append(s, m), m)
           /\ \A k : Has(s, k) => Has(Append(s, m), k)
<1> DEFINE a == Append(s, m)
<1>1. /\ Len(s) \in Nat /\ Len(a) = Len(s) + 1
      /\ a[Len(s) + 1] = m
      /\ \A i \in 1 .. Len(s) : a[i] = s[i]
  BY AppendFacts
<1> HIDE DEF a
<1>2. \A i \in 1 .. Len(a) : i \in 1 .. Len(s) \/ i = Len(s) + 1
  BY <1>1
<1>3. ASSUME Ordered(s), m \in FromBus => Below(s, m)
      PROVE  Ordered(a)
  <2> SUFFICES ASSUME NEW i \in 1 .. Len(a), NEW j \in 1 .. Len(a), i < j,
                      a[i] \in FromBus, a[j] \in FromBus
               PROVE  a[i] < a[j]
    BY DEF Ordered
  <2>1. i \in 1 .. Len(s)
    BY <1>1
  <2>2. CASE j \in 1 .. Len(s)
    BY <1>1, <1>3, <2>1, <2>2 DEF Ordered
  <2>3. CASE j = Len(s) + 1
    BY <1>1, <1>3, <2>1, <2>3 DEF Below
  <2> QED
    BY <1>2, <2>2, <2>3
<1>4. ASSUME Below(s, n), m \in FromBus => m < n
      PROVE  Below(a, n)
  BY <1>1, <1>2, <1>4 DEF Below
<1>5. Has(a, m)
  BY <1>1 DEF Has
<1>6. ASSUME NEW k, Has(s, k)
      PROVE  Has(a, k)
  <2>1. PICK i \in 1 .. Len(s) : s[i] = k
    BY <1>6 DEF Has
  <2>2. i \in 1 .. Len(a) /\ a[i] = k
    BY <1>1, <2>1
  <2> QED
    BY <2>2 DEF Has
<1> QED
  BY <1>3, <1>4, <1>5, <1>6 DEF a

\* A message less in the middle.
LEMMA DropFeed ==
    ASSUME NEW a \in Seq(Messages), NEW b \in Seq(Messages), b # <<>>, NEW n \in Nat
    PROVE  /\ Ordered(a \o b) => Ordered(a \o Tail(b))
           /\ Below(a \o b, n) => Below(a \o Tail(b), n)
           /\ \A k : Has(a \o b, k) /\ k # Head(b) => Has(a \o Tail(b), k)
<1> DEFINE c == a \o b
           d == a \o Tail(b)
           up(i) == IF i <= Len(a) THEN i ELSE i + 1
<1>1. /\ Len(a) \in Nat /\ Len(b) \in Nat /\ Len(b) > 0
      /\ Tail(b) \in Seq(Messages) /\ Len(Tail(b)) = Len(b) - 1
      /\ Head(b) = b[1]
  OBVIOUS
<1>2. \A i \in 1 .. Len(b) - 1 : Tail(b)[i] = b[i + 1]
  OBVIOUS
<1>3. /\ Len(c) = Len(a) + Len(b) /\ Len(d) = Len(a) + Len(b) - 1
      /\ \A i \in 1 .. Len(c) : c[i] = IF i <= Len(a) THEN a[i] ELSE b[i - Len(a)]
      /\ \A i \in 1 .. Len(d) : d[i] = IF i <= Len(a) THEN a[i] ELSE Tail(b)[i - Len(a)]
  BY <1>1
<1> HIDE DEF c, d
<1>4. \A i \in 1 .. Len(d) : up(i) \in 1 .. Len(c) /\ d[i] = c[up(i)]
  <2> SUFFICES ASSUME NEW i \in 1 .. Len(d)
               PROVE  up(i) \in 1 .. Len(c) /\ d[i] = c[up(i)]
    OBVIOUS
  <2>1. CASE i <= Len(a)
    BY <1>1, <1>3, <2>1
  <2>2. CASE ~ i <= Len(a)
    <3>1. i - Len(a) \in 1 .. Len(b) - 1
      BY <1>1, <1>3, <2>2
    <3>2. d[i] = Tail(b)[i - Len(a)] /\ Tail(b)[i - Len(a)] = b[i - Len(a) + 1]
      BY <1>2, <1>3, <2>2, <3>1
    <3>3. i + 1 \in 1 .. Len(c) /\ ~ i + 1 <= Len(a)
      BY <1>1, <1>3, <2>2
    <3>4. c[i + 1] = b[i + 1 - Len(a)]
      BY <1>3, <3>3
    <3>5. i + 1 - Len(a) = i - Len(a) + 1
      BY <1>1
    <3> QED
      BY <2>2, <3>2, <3>3, <3>4, <3>5
  <2> QED
    BY <2>1, <2>2
<1>5. \A i, j \in 1 .. Len(d) : i < j => up(i) < up(j)
  BY <1>1, <1>3
<1>6. ASSUME NEW k, Has(c, k), k # Head(b)
      PROVE  Has(d, k)
  <2>1. PICK i \in 1 .. Len(c) : c[i] = k
    BY <1>6 DEF Has
  <2>2. i # Len(a) + 1
    BY <1>1, <1>3, <1>6, <2>1
  <2>3. CASE i <= Len(a)
    <3>1. i \in 1 .. Len(d) /\ d[i] = k
      BY <1>1, <1>3, <2>1, <2>3
    <3> QED
      BY <3>1 DEF Has
  <2>4. CASE i > Len(a) + 1
    <3>1. i - 1 \in 1 .. Len(d) /\ up(i - 1) = i
      BY <1>1, <1>3, <2>4
    <3>2. d[i - 1] = k
      BY <1>4, <2>1, <3>1
    <3> QED
      BY <3>1, <3>2 DEF Has
  <2> QED
    BY <1>1, <1>3, <2>2, <2>3, <2>4
<1> HIDE DEF up
<1>7. Ordered(c) => Ordered(d)
  BY <1>4, <1>5 DEF Ordered
<1>8. Below(c, n) => Below(d, n)
  BY <1>4 DEF Below
<1> QED
  BY <1>6, <1>7, <1>8 DEF c, d

\* A message that goes from the queue to the client stays in the feed.
LEMMA MoveFeed ==
    ASSUME NEW a \in Seq(Messages), NEW b \in Seq(Messages), b # <<>>
    PROVE  Append(a, Head(b)) \o Tail(b) = a \o b
<1> DEFINE c == a \o b
           d == Append(a, Head(b)) \o Tail(b)
<1>1. /\ Len(a) \in Nat /\ Len(b) \in Nat /\ Len(b) > 0 /\ Head(b) \in Messages
      /\ Tail(b) \in Seq(Messages) /\ Len(Tail(b)) = Len(b) - 1
      /\ Head(b) = b[1]
  OBVIOUS
<1>2. \A i \in 1 .. Len(b) - 1 : Tail(b)[i] = b[i + 1]
  OBVIOUS
<1>3. /\ Append(a, Head(b)) \in Seq(Messages) /\ Len(Append(a, Head(b))) = Len(a) + 1
      /\ Append(a, Head(b))[Len(a) + 1] = Head(b)
      /\ \A i \in 1 .. Len(a) : Append(a, Head(b))[i] = a[i]
  BY <1>1, AppendFacts
<1>4. /\ c \in Seq(Messages) /\ d \in Seq(Messages)
      /\ Len(c) = Len(a) + Len(b) /\ Len(d) = Len(a) + Len(b)
  BY <1>1, <1>3
<1>5. ASSUME NEW i \in 1 .. Len(c)
      PROVE  c[i] = d[i]
  <2>1. CASE i <= Len(a)
    BY <1>1, <1>3, <2>1
  <2>2. CASE i = Len(a) + 1
    BY <1>1, <1>3, <2>2
  <2>3. CASE i > Len(a) + 1
    <3>1. i - (Len(a) + 1) \in 1 .. Len(b) - 1 /\ i - Len(a) \in 1 .. Len(b)
      BY <1>1, <1>4, <2>3
    <3>2. d[i] = Tail(b)[i - (Len(a) + 1)]
      BY <1>1, <1>3, <1>4, <2>3
    <3>3. Tail(b)[i - (Len(a) + 1)] = b[i - (Len(a) + 1) + 1]
      BY <1>2, <3>1
    <3>4. c[i] = b[i - Len(a)] /\ i - (Len(a) + 1) + 1 = i - Len(a)
      BY <1>1, <1>4, <2>3
    <3> QED
      BY <3>2, <3>3, <3>4
  <2> QED
    BY <1>1, <1>4, <2>1, <2>2, <2>3
<1> HIDE DEF c, d
<1>6. c = d
  BY <1>4, <1>5, SeqEqual
<1> QED
  BY <1>6 DEF c, d

-----------------------------------------------------------------------------
(* The order of the bus.                                                   *)

\* One dispatch at a time; what was dispatched has been sent, until the message that
\* libdbus puts behind everything; without a filter nothing was dispatched.  What is being
\* dispatched is of the bus.
TakenInv ==
    /\ \A t, u \in Threads : At(t, "dispatch") /\ At(u, "dispatch") => t = u
    /\ link = "gone" => taken = Disconnected
    /\ link # "gone" => taken <= sent
    /\ filters = <<>> => taken = 0 /\ link # "gone"
    /\ Dispatching => taken \in FromBus

\* No message from the bus that could be in a feed is as high as this.
Bound == IF Dispatching THEN taken ELSE taken + 1

FeedInv == \A t \in Threads : Ordered(Feed(t)) /\ Below(Feed(t), Bound)

\* The numbers of the bus.
LEMMA Numbers ==
    ASSUME TypeOK
    PROVE  /\ taken \in Nat /\ sent \in Nat /\ Disconnected \in Nat
           /\ sent < Disconnected /\ taken <= Disconnected /\ Bound \in Nat
  BY BusAssumption DEF TypeOK, Disconnected, Bound

\* What a step does to the dispatching threads.
LEMMA DispatchingStep ==
    ASSUME TypeOK, TakenInv, [Next]_vars
    PROVE  /\ UNCHANGED taken \/ \E t \in Threads : TakeSignal(t) \/ TakeDisconnected(t)
           /\ \A t \in Threads : TakeSignal(t) \/ TakeDisconnected(t) =>
                 /\ ~ Dispatching
                 /\ \A u \in Threads : stage'[u] = "dispatch" <=> u = t
           /\ \A t \in Threads : Filter(t) => ~ Dispatching' /\ At(t, "dispatch")
           /\ \/ \E t \in Threads : TakeSignal(t) \/ TakeDisconnected(t) \/ Filter(t)
              \/ \A u \in Threads : stage'[u] = "dispatch" <=> stage[u] = "dispatch"
<1> USE DEF TypeOK, At
<1>1. ASSUME NEW t \in Threads, TakeSignal(t) \/ TakeDisconnected(t)
      PROVE  /\ ~ Dispatching
             /\ \A u \in Threads : stage'[u] = "dispatch" <=> u = t
  <2>1. ~ Dispatching /\ GoTo(t, "dispatch")
    BY <1>1 DEF TakeSignal, TakeDisconnected
  <2> QED
    BY <2>1, GoToStep DEF Stages, Dispatching
<1>2. ASSUME NEW t \in Threads, Filter(t)
      PROVE  ~ Dispatching' /\ stage[t] = "dispatch"
  <2>1. PICK s \in {"serve", "deaf"} : GoTo(t, s)
    BY <1>2 DEF Filter, AfterDispatch
  <2>2. stage[t] = "dispatch"
    BY <1>2 DEF Filter
  <2> QED
    BY <2>1, <2>2, GoToStep DEF Stages, Dispatching, TakenInv
<1>3. ASSUME NEW t \in Threads, Client(t) \/ Setup(t) \/ Leave(t) \/ SeeLoss(t)
      PROVE  /\ UNCHANGED taken
             /\ \A u \in Threads : stage'[u] = "dispatch" <=> stage[u] = "dispatch"
  BY <1>3 DEF Client, Setup, Leave, SeeLoss, Start, Pop, Reconnect, Release, GetBus, NoBus,
              AddFilter, AddMatch, Request, SetupFails, SettingUp, ReadRelease, Exit, Flush,
              Clean, GoTo, busVars
<1>4. ASSUME NEW t \in Threads, Filter(t)
      PROVE  UNCHANGED taken
  BY <1>4 DEF Filter, busVars
<1>5. ASSUME Send \/ Lose \/ UNCHANGED vars
      PROVE  UNCHANGED <<taken, stage>>
  BY <1>5 DEF Send, Lose, vars, busVars, threadVars
<1>6. \/ \E t \in Threads : TakeSignal(t) \/ TakeDisconnected(t) \/ Filter(t)
      \/ \E t \in Threads : Client(t) \/ Setup(t) \/ Leave(t) \/ SeeLoss(t)
      \/ Send \/ Lose \/ UNCHANGED vars
  BY DEF Next, Thread, Dispatch
<1> QED
  BY <1>1, <1>2, <1>3, <1>4, <1>5, <1>6

\* Each step keeps TakenInv, and Bound never goes down.
LEMMA TakenStep ==
    ASSUME BusInv, TakenInv, [Next]_vars
    PROVE  TakenInv' /\ Bound <= Bound'
<1> USE DEF BusInv
<1>t. TypeOK /\ TypeOK'
  BY BusStep
<1>n. /\ taken \in Nat /\ sent \in Nat /\ Disconnected \in Nat /\ sent < Disconnected
      /\ taken' \in Nat /\ sent' \in Nat
  <2>1. taken' \in Nat /\ sent' \in Nat
    BY <1>t DEF TypeOK, Disconnected
  <2> QED
    BY <1>t, <2>1, Numbers
<1>1. ASSUME NEW t \in Threads, TakeSignal(t)
      PROVE  TakenInv' /\ Bound <= Bound'
  <2>1. ~ Dispatching /\ Dispatching' /\ \A u \in Threads : stage'[u] = "dispatch" <=> u = t
    BY <1>1, <1>t, DispatchingStep DEF Next, Thread, Dispatch, Dispatching, At
  <2>2. taken' = taken + 1 /\ taken < sent /\ UNCHANGED <<link, filters, sent>>
    BY <1>1 DEF TakeSignal
  <2>3. link # "gone" /\ filters # <<>>
    BY <1>1, <1>n, <2>2 DEF TakenInv, TakeSignal, StageInv, At
  <2> QED
    BY <1>n, <2>1, <2>2, <2>3 DEF TakenInv, Bound, At, FromBus
<1>2. ASSUME NEW t \in Threads, TakeDisconnected(t)
      PROVE  TakenInv' /\ Bound <= Bound'
  <2>1. ~ Dispatching /\ Dispatching' /\ \A u \in Threads : stage'[u] = "dispatch" <=> u = t
    BY <1>2, <1>t, DispatchingStep DEF Next, Thread, Dispatch, Dispatching, At
  <2>2. /\ taken' = Disconnected /\ taken = sent /\ link' = "gone"
        /\ UNCHANGED <<filters, sent>> /\ filters # <<>>
    BY <1>2 DEF TakeDisconnected, StageInv, At
  <2> QED
    BY <1>n, <2>1, <2>2 DEF TakenInv, Bound, At, FromBus
<1>3. ASSUME NEW t \in Threads, Filter(t)
      PROVE  TakenInv' /\ Bound <= Bound'
  <2>1. Dispatching /\ ~ Dispatching'
    BY <1>3, <1>t, DispatchingStep DEF Dispatching
  <2>2. UNCHANGED <<link, filters, sent, taken>>
    BY <1>3 DEF Filter, busVars
  <2> QED
    BY <1>n, <2>1, <2>2 DEF TakenInv, Bound, Dispatching
<1>4. CASE \A u \in Threads : ~ (TakeSignal(u) \/ TakeDisconnected(u) \/ Filter(u))
  <2>1. /\ UNCHANGED taken
        /\ \A u \in Threads : stage'[u] = "dispatch" <=> stage[u] = "dispatch"
    BY <1>4, <1>t, DispatchingStep
  <2>2. Bound' = Bound
    BY <2>1 DEF Bound, Dispatching, At
  <2>3. \/ UNCHANGED <<link, filters, sent>>
        \/ UNCHANGED <<link, sent>> /\ filters' # <<>>
        \/ Send \/ Lose
    <3>1. ASSUME NEW t \in Threads, AddFilter(t)
          PROVE  UNCHANGED <<link, sent>> /\ filters' # <<>>
      <4>1. filters \in Seq(Threads) /\ filters' = Append(filters, t)
        BY <1>t, <3>1 DEF AddFilter, TypeOK
      <4>2. Len(filters') = Len(filters) + 1 /\ Len(filters) \in Nat
        BY <4>1
      <4>3. filters' \in Seq(Threads)
        BY <4>1
      <4> QED
        BY <3>1, <4>2, <4>3 DEF AddFilter
    <3>2. ASSUME NEW t \in Threads, Client(t) \/ Leave(t) \/ SeeLoss(t) \/ GetBus(t) \/ NoBus(t)
                                      \/ AddMatch(t) \/ Request(t) \/ SetupFails(t)
          PROVE  UNCHANGED <<link, filters, sent>>
      BY <3>2 DEF Client, Leave, SeeLoss, Start, Pop, Reconnect, Release, GetBus, NoBus,
                  AddMatch, Request, SetupFails, ReadRelease, Exit, Flush, Clean, busVars
    <3> QED
      BY <1>4, <3>1, <3>2 DEF Next, Thread, Setup, Dispatch, vars, busVars
  <2>4. UNCHANGED <<link, filters, sent>> => TakenInv'
    BY <2>1 DEF TakenInv, At, Dispatching
  <2>5. UNCHANGED <<link, sent>> /\ filters' # <<>> => TakenInv'
    BY <2>1 DEF TakenInv, At, Dispatching
  <2>6. Send => TakenInv'
    BY <1>n, <2>1 DEF TakenInv, At, Send, Dispatching
  <2>7. Lose => TakenInv'
    BY <1>n, <2>1 DEF TakenInv, At, Lose, Dispatching
  <2> QED
    BY <1>n, <1>t, <2>2, <2>3, <2>4, <2>5, <2>6, <2>7, Numbers
<1> QED
  BY <1>1, <1>2, <1>3, <1>4

\* A feed is a sequence of messages.
LEMMA FeedType ==
    ASSUME TypeOK, NEW t \in Threads
    PROVE  /\ heard[t] \in Seq(Messages) /\ out[t] \in Seq(Messages)
           /\ Feed(t) \in Seq(Messages)
  BY DEF TypeOK, Feed

\* What is pushed to a queue comes at the end of the feed.
LEMMA PushFeed ==
    ASSUME NEW a \in Seq(Messages), NEW b \in Seq(Messages), NEW m \in Messages
    PROVE  a \o Append(b, m) = Append(a \o b, m)
<1>1. Append(b, m) = b \o <<m>> /\ Append(a \o b, m) = (a \o b) \o <<m>>
  OBVIOUS
<1>2. <<m>> \in Seq(Messages)
  OBVIOUS
<1> QED
  BY <1>1, <1>2, ConcatAssociative

\* Below any higher number, too.
LEMMA BelowMore ==
    ASSUME NEW s \in Seq(Messages), NEW m \in Nat, NEW n \in Nat, m <= n, Below(s, m)
    PROVE  Below(s, n)
  BY MessageNames DEF Below, FromBus

\* A feed keeps what it has of the bus.
Keeps(s, r) == \A k \in FromBus : Has(s, k) => Has(r, k)

\* A feed that goes from s to r is still in order and below n, and keeps what it has.
Good(s, r, n) ==
    Ordered(s) /\ Below(s, n) => Ordered(r) /\ Below(r, n) /\ Keeps(s, r)

\* The steps of one thread's own: its errors, its exit messages, its client's pops.
LEMMA OwnFeed ==
    ASSUME TypeOK, NEW t \in Threads, NEW n \in Nat,
           SetupFails(t) \/ Exit(t) \/ Pop(t)
    PROVE  Good(Feed(t), Feed(t)', n)
<1>0. /\ heard[t] \in Seq(Messages) /\ out[t] \in Seq(Messages)
      /\ Feed(t) \in Seq(Messages)
  BY FeedType
<1>1. CASE SetupFails(t)
  <2>1. <<SetupError>> \in Seq(Messages) /\ SetupError \in Messages
    BY MessageNames
  <2>2. out'[t] = out[t] \o <<SetupError>> /\ heard' = heard
    BY <1>1, <2>1, PushTypes DEF SetupFails
  <2>3. out[t] \o <<SetupError>> = Append(out[t], SetupError)
    BY <1>0, <2>1
  <2>a. heard[t] \o Append(out[t], SetupError) = Append(heard[t] \o out[t], SetupError)
    BY <1>0, <2>1, PushFeed
  <2>b. Feed(t)' = heard[t] \o Append(out[t], SetupError)
    BY <2>2, <2>3 DEF Feed
  <2>4. Feed(t)' = Append(Feed(t), SetupError)
    BY <2>a, <2>b DEF Feed
  <2> QED
    BY <1>0, <2>1, <2>4, AppendFeed, MessageNames DEF Good, Keeps
<1>2. CASE Exit(t)
  <2>1. /\ <<Exited, Marker>> \in Seq(Messages)
        /\ Exited \in Messages /\ Marker \in Messages
    BY MessageNames
  <2>2. out'[t] = out[t] \o <<Exited, Marker>> /\ heard' = heard
    BY <1>2, <2>1, PushTypes DEF Exit
  <2>3. out[t] \o <<Exited, Marker>> = Append(Append(out[t], Exited), Marker)
    BY <1>0, <2>1
  <2>4. Append(out[t], Exited) \in Seq(Messages)
    BY <1>0, <2>1
  <2>a. heard[t] \o Append(out[t], Exited) = Append(heard[t] \o out[t], Exited)
    BY <1>0, <2>1, PushFeed
  <2>b. heard[t] \o Append(Append(out[t], Exited), Marker)
          = Append(heard[t] \o Append(out[t], Exited), Marker)
    BY <1>0, <2>1, <2>4, PushFeed
  <2>c. Feed(t)' = heard[t] \o Append(Append(out[t], Exited), Marker)
    BY <2>2, <2>3 DEF Feed
  <2>5. Feed(t)' = Append(Append(Feed(t), Exited), Marker)
    BY <2>a, <2>b, <2>c DEF Feed
  <2>6. Append(Feed(t), Exited) \in Seq(Messages)
    BY <1>0, <2>1
  <2>7. Good(Feed(t), Append(Feed(t), Exited), n)
    BY <1>0, <2>1, AppendFeed, MessageNames DEF Good, Keeps
  <2>8. Good(Append(Feed(t), Exited), Feed(t)', n)
    BY <2>1, <2>5, <2>6, AppendFeed, MessageNames DEF Good, Keeps
  <2> QED
    BY <2>7, <2>8 DEF Good, Keeps
<1>3. CASE Pop(t)
  <2>1. out[t] # <<>> /\ out'[t] = Tail(out[t])
    BY <1>3 DEF Pop, TypeOK
  <2>2. CASE Head(out[t]) = SetupError
    <3>1. Feed(t)' = heard[t] \o Tail(out[t])
      BY <1>3, <2>1, <2>2 DEF Pop, Feed
    <3> QED
      BY <1>0, <2>1, <2>2, <3>1, DropFeed, MessageNames DEF Good, Keeps, Feed
  <2>3. CASE Head(out[t]) # SetupError
    <3>1. Feed(t)' = Append(heard[t], Head(out[t])) \o Tail(out[t])
      BY <1>3, <2>1, <2>3 DEF Pop, Feed, TypeOK
    <3>2. Feed(t)' = Feed(t)
      BY <1>0, <2>1, <3>1, MoveFeed DEF Feed
    <3> QED
      BY <3>2 DEF Good, Keeps
  <2> QED
    BY <2>2, <2>3
<1> QED
  BY <1>1, <1>2, <1>3

\* The flush drops a message from the feed of its thread.
LEMMA FlushFeed ==
    ASSUME TypeOK, NEW t \in Threads, NEW n \in Nat, Flush(t), Ordered(Feed(t)),
           Below(Feed(t), n)
    PROVE  Ordered(Feed(t)') /\ Below(Feed(t)', n)
<1>0. heard[t] \in Seq(Messages) /\ out[t] \in Seq(Messages)
  BY FeedType
<1>1. out[t] # <<>> /\ Feed(t)' = heard[t] \o Tail(out[t])
  BY DEF Flush, Feed, TypeOK
<1> QED
  BY <1>0, <1>1, DropFeed DEF Feed

\* The filter adds what was dispatched to the feed of the first thread.
LEMMA FilterFeed ==
    ASSUME BusInv, TakenInv, FeedInv, NEW t \in Threads, Filter(t)
    PROVE  /\ Ordered(Feed(filters[1])') /\ Below(Feed(filters[1])', taken + 1)
           /\ Keeps(Feed(filters[1]), Feed(filters[1])')
           /\ Has(Feed(filters[1])', taken)
<1> DEFINE f == filters[1]
<1>0. f \in Threads /\ TypeOK /\ taken \in Messages /\ taken \in Nat /\ f' = f
  <2>1. f \in Threads /\ TypeOK
    BY FilterPush DEF BusInv
  <2>2. taken \in 0 .. Disconnected /\ filters' = filters
    BY DEF BusInv, TypeOK, Filter, busVars
  <2> QED
    BY <2>1, <2>2, MessageNames
<1>1. /\ heard[f] \in Seq(Messages) /\ out[f] \in Seq(Messages)
      /\ Feed(f) \in Seq(Messages)
  BY <1>0, FeedType
<1>2. out'[f] = Append(out[f], taken) /\ heard' = heard
  BY FilterPush DEF Filter
<1>a. heard[f] \o Append(out[f], taken) = Append(heard[f] \o out[f], taken)
  BY <1>0, <1>1, PushFeed
<1>b. Feed(f)' = heard'[f'] \o out'[f']
  BY DEF Feed
<1>3. Feed(f)' = Append(Feed(f), taken)
  BY <1>0, <1>2, <1>a, <1>b DEF Feed
<1>4. Bound = taken
  BY DEF Bound, Dispatching, Filter
<1>5. Ordered(Feed(f)) /\ Below(Feed(f), taken)
  BY <1>0, <1>4 DEF FeedInv
<1>6. taken + 1 \in Nat /\ Below(Feed(f), taken + 1)
  BY <1>0, <1>1, <1>5, BelowMore
<1> HIDE DEF f
<1>7. Ordered(Feed(f)')
  BY <1>0, <1>1, <1>3, <1>5, AppendFeed
<1>8. Below(Feed(f)', taken + 1)
  BY <1>0, <1>1, <1>3, <1>6, AppendFeed
<1>9. Keeps(Feed(f), Feed(f)') /\ Has(Feed(f)', taken)
  BY <1>0, <1>1, <1>3, AppendFeed DEF Keeps
<1> QED
  BY <1>7, <1>8, <1>9 DEF f

\* Whose feed a step changes.
LEMMA FeedCases ==
    ASSUME BusInv, [Next]_vars, NEW u \in Threads
    PROVE  \/ Feed(u)' = Feed(u)
           \/ SetupFails(u) \/ Exit(u) \/ Pop(u)
           \/ Flush(u)
           \/ u = filters[1] /\ \E t \in Threads : Filter(t)
<1> DEFINE Same == heard'[u] = heard[u] /\ out'[u] = out[u]
<1>0. Same => Feed(u)' = Feed(u)
  BY DEF Feed
<1> HIDE DEF Same
<1>t. TypeOK
  BY DEF BusInv
<1>1. ASSUME NEW t \in Threads, t # u, SetupFails(t) \/ Exit(t) \/ Pop(t) \/ Flush(t)
      PROVE  Same
  BY <1>1, <1>t DEF Same, TypeOK, SetupFails, Exit, Pop, Flush, Push
<1>2. ASSUME NEW t \in Threads, Filter(t), u # filters[1]
      PROVE  Same
  BY <1>2, FilterPush DEF Same, Filter
<1>3. ASSUME NEW t \in Threads,
             \/ Start(t) \/ Reconnect(t) \/ Release(t) \/ GetBus(t) \/ NoBus(t)
             \/ AddFilter(t) \/ AddMatch(t) \/ Request(t) \/ TakeSignal(t)
             \/ TakeDisconnected(t) \/ SeeLoss(t) \/ ReadRelease(t) \/ Clean(t)
      PROVE  Same
  BY <1>3 DEF Same, Start, Reconnect, Release, GetBus, NoBus, AddFilter, AddMatch, Request,
              TakeSignal, TakeDisconnected, SeeLoss, ReadRelease, Clean, threadVars
<1>4. ASSUME Send \/ Lose \/ UNCHANGED vars
      PROVE  Same
  BY <1>4 DEF Same, Send, Lose, vars, threadVars
<1> QED
  BY <1>0, <1>1, <1>2, <1>3, <1>4
  DEF Next, Client, Thread, Setup, Dispatch, Leave

\* Each step keeps the feeds in order, and what a feed has of the bus stays in it
\* until its thread flushes.
LEMMA FeedStep ==
    ASSUME BusInv, TakenInv, FeedInv, [Next]_vars
    PROVE  /\ FeedInv'
           /\ \A u \in Threads : stage[u] # "flush" => Keeps(Feed(u), Feed(u)')
<1>t. TypeOK /\ TypeOK'
  BY BusStep DEF BusInv
<1>n. Bound \in Nat /\ Bound' \in Nat /\ Bound <= Bound' /\ taken \in Nat
  <2>1. Bound \in Nat /\ taken \in Nat
    BY <1>t, Numbers
  <2>2. taken' \in Nat
    BY <1>t, BusAssumption DEF TypeOK, Disconnected
  <2>3. Bound' \in Nat
    <3>1. Bound' = taken' \/ Bound' = taken' + 1
      BY DEF Bound
    <3> QED
      BY <2>2, <3>1
  <2>4. Bound <= Bound'
    BY TakenStep
  <2> QED
    BY <2>1, <2>3, <2>4
<1>1. ASSUME NEW u \in Threads
      PROVE  /\ Ordered(Feed(u)') /\ Below(Feed(u)', Bound')
             /\ stage[u] # "flush" => Keeps(Feed(u), Feed(u)')
  <2>0. Ordered(Feed(u)) /\ Below(Feed(u), Bound) /\ Feed(u) \in Seq(Messages)
    BY <1>t, FeedType DEF FeedInv
  <2>1. Below(Feed(u), Bound')
    BY <1>n, <2>0, BelowMore
  <2>2. CASE Feed(u)' = Feed(u)
    BY <2>0, <2>1, <2>2 DEF Keeps
  <2>3. CASE SetupFails(u) \/ Exit(u) \/ Pop(u)
    BY <1>n, <1>t, <2>0, <2>1, <2>3, OwnFeed DEF Good
  <2>4. CASE Flush(u)
    <3>1. stage[u] = "flush"
      BY <2>4 DEF Flush, At
    <3> QED
      BY <1>n, <1>t, <2>0, <2>1, <2>4, <3>1, FlushFeed
  <2>5. CASE u = filters[1] /\ \E t \in Threads : Filter(t)
    <3>1. PICK t \in Threads : Filter(t)
      BY <2>5
    <3>2. ~ Dispatching' /\ taken' = taken
      BY <1>t, <3>1, DispatchingStep DEF Filter, busVars
    <3>3. Bound' = taken + 1
      BY <3>2 DEF Bound
    <3>4. filters' = filters
      BY <3>1 DEF Filter, busVars
    <3> QED
      BY <2>5, <3>1, <3>3, <3>4, FilterFeed DEF Feed
  <2> QED
    BY <2>2, <2>3, <2>4, <2>5, FeedCases
<1>2. FeedInv'
  BY <1>1 DEF FeedInv
<1> QED
  BY <1>1, <1>2

\* The states of the flush and behind it are not left again.
LEMMA LeftStep ==
    ASSUME BusInv, [Next]_vars, NEW u \in Threads, stage[u] \in {"flush", "clean", "done"}
    PROVE  stage'[u] \in {"flush", "clean", "done"}
<1>t. TypeOK
  BY DEF BusInv
<1>1. ASSUME NEW t \in Threads, Client(t) \/ Thread(t)
      PROVE  \/ stage'[u] = stage[u]
             \/ u = t /\ stage'[u] \in {"clean", "done"}
             \/ u = t /\ stage[u] \notin {"flush", "clean", "done"}
  BY <1>1, <1>t DEF Client, Thread, Setup, Dispatch, Leave, Start, Pop, Reconnect, Release,
     GetBus, NoBus, AddFilter, AddMatch, Request, SetupFails, SettingUp, TakeSignal,
     TakeDisconnected, Filter, AfterDispatch, SeeLoss, ReadRelease, Exit, Flush, Clean,
     GoTo, At, TypeOK, busVars
<1>2. ASSUME Send \/ Lose \/ UNCHANGED vars
      PROVE  stage'[u] = stage[u]
  BY <1>2 DEF Send, Lose, vars, threadVars
<1> QED
  BY <1>1, <1>2 DEF Next

\* The first filter stays the first.
LEMMA FirstStays ==
    ASSUME TypeOK, [Next]_vars, filters # <<>>
    PROVE  filters' # <<>> /\ filters'[1] = filters[1]
<1>1. ASSUME NEW t \in Threads, AddFilter(t)
      PROVE  filters' # <<>> /\ filters'[1] = filters[1]
  <2>1. filters \in Seq(Threads) /\ filters' = Append(filters, t)
    BY <1>1 DEF AddFilter, TypeOK
  <2>2. Len(filters) \in Nat /\ Len(filters) > 0
    BY <2>1
  <2> QED
    BY <2>1, <2>2, AppendFacts
<1>2. ASSUME NEW t \in Threads, Client(t) \/ Leave(t) \/ Dispatch(t) \/ GetBus(t)
                        \/ NoBus(t) \/ AddMatch(t) \/ Request(t) \/ SetupFails(t)
      PROVE  UNCHANGED filters
  BY <1>2 DEF Client, Leave, Dispatch, SeeLoss, Start, Pop, Reconnect, Release, GetBus,
              NoBus, AddMatch, Request, SetupFails, TakeSignal, TakeDisconnected, Filter,
              ReadRelease, Exit, Flush, Clean, busVars
<1>3. ASSUME Send \/ Lose \/ UNCHANGED vars
      PROVE  UNCHANGED filters
  BY <1>3 DEF Send, Lose, vars, busVars
<1> QED
  BY <1>1, <1>2, <1>3 DEF Next, Thread, Setup

\* What a step adds to the messages whose dispatch is over.
LEMMA DispatchedStep ==
    ASSUME BusInv, TakenInv, [Next]_vars, NEW n \in Dispatched'
    PROVE  n \in Dispatched \/ (n = taken /\ \E t \in Threads : Filter(t))
<1>t. TypeOK /\ taken \in Nat /\ sent \in Nat /\ Disconnected \in Nat /\ sent < Disconnected
  BY Numbers DEF BusInv
<1>n. /\ n \in FromBus /\ n \in Nat /\ n <= taken' /\ (n <= sent' \/ n = Disconnected)
      /\ ~ (Dispatching' /\ n = taken')
  BY <1>t DEF Dispatched, FromBus, Disconnected
<1>1. CASE \E t \in Threads : TakeSignal(t)
  <2>1. PICK t \in Threads : TakeSignal(t)
    BY <1>1
  <2>2. ~ Dispatching /\ Dispatching'
    BY <1>t, <2>1, DispatchingStep DEF Dispatching, At
  <2>3. taken' = taken + 1 /\ UNCHANGED sent
    BY <2>1 DEF TakeSignal
  <2> QED
    BY <1>t, <1>n, <2>2, <2>3 DEF Dispatched
<1>2. CASE \E t \in Threads : TakeDisconnected(t)
  <2>1. PICK t \in Threads : TakeDisconnected(t)
    BY <1>2
  <2>2. ~ Dispatching /\ Dispatching'
    BY <1>t, <2>1, DispatchingStep DEF Dispatching, At
  <2>3. taken = sent /\ taken' = Disconnected /\ UNCHANGED sent
    BY <2>1 DEF TakeDisconnected
  <2> QED
    BY <1>t, <1>n, <2>2, <2>3 DEF Dispatched
<1>3. CASE \E t \in Threads : Filter(t)
  <2>1. UNCHANGED <<taken, sent>>
    BY <1>3 DEF Filter, busVars
  <2> QED
    BY <1>3, <1>n, <2>1 DEF Dispatched
<1>4. CASE \A t \in Threads : ~ (TakeSignal(t) \/ TakeDisconnected(t) \/ Filter(t))
  <2>1. /\ UNCHANGED taken
        /\ \A u \in Threads : stage'[u] = "dispatch" <=> stage[u] = "dispatch"
    BY <1>t, <1>4, DispatchingStep
  <2>2. Dispatching' <=> Dispatching
    BY <2>1 DEF Dispatching, At
  <2>3. CASE UNCHANGED sent
    BY <1>n, <2>1, <2>2, <2>3 DEF Dispatched
  <2>4. CASE Send
    <3>1. taken <= sent
      BY <2>4 DEF Send, TakenInv
    <3> QED
      BY <1>t, <1>n, <2>1, <2>2, <3>1 DEF Dispatched
  <2>5. sent' = sent \/ Send
    BY DEF Next, Client, Thread, Setup, Dispatch, Leave, Start, Pop, Reconnect, Release,
       GetBus, NoBus, AddFilter, AddMatch, Request, SetupFails, TakeSignal,
       TakeDisconnected, Filter, SeeLoss, ReadRelease, Exit, Flush, Clean, Lose,
       vars, busVars
  <2> QED
    BY <2>3, <2>4, <2>5
<1> QED
  BY <1>1, <1>2, <1>3, <1>4

\* Each step keeps what the first client has of the bus complete.
LEMMA FirstStep ==
    ASSUME BusInv, TakenInv, FeedInv, FirstMissesNothing, [Next]_vars
    PROVE  FirstMissesNothing'
<1>t. TypeOK
  BY DEF BusInv
<1> SUFFICES ASSUME NEW f \in Threads, First(f)',
                    stage'[f] \notin {"flush", "clean", "done"}, NEW n \in Dispatched'
             PROVE  Has(Feed(f)', n)
  BY DEF FirstMissesNothing, Has
<1>1. CASE filters = <<>>
  <2>1. taken = 0 /\ \A t \in Threads : ~ (TakeSignal(t) \/ TakeDisconnected(t))
    BY <1>1 DEF TakenInv, TakeSignal, TakeDisconnected, BusInv, StageInv, At
  <2>2. taken' = 0
    BY <1>t, <2>1, DispatchingStep
  <2>3. n \in FromBus /\ n <= taken'
    BY DEF Dispatched
  <2> QED
    BY <2>2, <2>3, MessageNames DEF FromBus
<1>2. CASE filters # <<>>
  <2>1. First(f)
    BY <1>2, <1>t, FirstStays DEF First
  <2>2. stage[f] \notin {"flush", "clean", "done"}
    BY LeftStep
  <2>3. Keeps(Feed(f), Feed(f)')
    BY <2>2, FeedStep
  <2>4. CASE n \in Dispatched
    <3>1. n \in FromBus /\ Has(Feed(f), n)
      BY <2>1, <2>2, <2>4 DEF FirstMissesNothing, Has, Dispatched
    <3> QED
      BY <2>3, <3>1 DEF Keeps
  <2>5. CASE n = taken /\ \E t \in Threads : Filter(t)
    <3>1. PICK t \in Threads : Filter(t)
      BY <2>5
    <3>2. UNCHANGED filters
      BY <3>1 DEF Filter, busVars
    <3> QED
      BY <2>1, <2>5, <3>1, <3>2, FilterFeed DEF Feed, First
  <2> QED
    BY <2>4, <2>5, DispatchedStep
<1> QED
  BY <1>1, <1>2

\* The inductive invariant for every number of threads.
OrderInv == BusInv /\ TakenInv /\ FeedInv /\ FirstMissesNothing

\* OrderInv holds at the start and after every step.
LEMMA OrderAlways == Spec => []OrderInv
<1>1. Init => OrderInv
  <2> SUFFICES ASSUME Init
               PROVE  OrderInv
    OBVIOUS
  <2>1. BusInv
    BY BusStart
  <2>2. TakenInv
    BY BusAssumption DEF Init, TakenInv, At, Dispatching
  <2>3. FeedInv
    <3>1. \A t \in Threads : Feed(t) = <<>>
      BY DEF Init, Feed
    <3> QED
      BY <3>1 DEF FeedInv, Ordered, Below
  <2>4. FirstMissesNothing
    BY DEF Init, FirstMissesNothing, First
  <2> QED
    BY <2>1, <2>2, <2>3, <2>4 DEF OrderInv
<1>2. OrderInv /\ [Next]_vars => OrderInv'
  BY BusStep, TakenStep, FeedStep, FirstStep DEF OrderInv
<1> QED
  BY <1>1, <1>2, PTL DEF Spec

\* Whichever threads dispatch and however often filters were added, each client gets
\* what it gets from the bus in the order of the bus, each message once.
THEOREM BusOrderIsKept == Spec => []InOrderOnce
<1>1. OrderInv => InOrderOnce
  BY DEF OrderInv, FeedInv, Ordered, InOrderOnce
<1> QED
  BY <1>1, OrderAlways, PTL

\* The client whose filter is the first misses no signal until its thread flushes, and is
\* told when the bus is gone.
THEOREM FirstGetsEverything == Spec => []FirstMissesNothing
<1>1. OrderInv => FirstMissesNothing
  BY DEF OrderInv
<1> QED
  BY <1>1, OrderAlways, PTL

-----------------------------------------------------------------------------
(* The end of a thread, and what the others can do to it.                  *)

\* Nobody dispatches to the client of t but t itself.
Undisturbed(t) == Alone \/ ~ First(t)

\* A message that may be behind the marker.
Late(t, i) == ~ Undisturbed(t) /\ out[t][i] \in FromBus

\* From ActionExit until the flush has met it there is one marker in the queue, and behind
\* it are only messages that somebody else dispatched.
DrainInv(t) ==
    /\ stage[t] \notin {"flush", "clean", "done"} =>
          \A i \in 1 .. Len(out[t]) : out[t][i] # Marker
    /\ stage[t] = "flush" =>
          \E k \in 1 .. Len(out[t]) :
              /\ out[t][k] = Marker
              /\ \A i \in 1 .. Len(out[t]) : (i < k => out[t][i] # Marker)
                                          /\ (i > k => Late(t, i))
    /\ stage[t] = "clean" => \A i \in 1 .. Len(out[t]) : Late(t, i)

EndInv == OrderInv /\ (\A t \in Threads : DrainInv(t)) /\ StaleTakesTwo

\* The elements of a tail.
LEMMA TailMessages ==
    ASSUME NEW s \in Seq(Messages), s # <<>>
    PROVE  /\ Len(s) \in Nat /\ Len(s) > 0 /\ Len(Tail(s)) = Len(s) - 1
           /\ Head(s) = s[1] /\ Tail(s) \in Seq(Messages)
           /\ \A i \in 1 .. Len(Tail(s)) :
                 Tail(s)[i] = s[i + 1] /\ i + 1 \in 1 .. Len(s)
<1>1. Len(s) \in Nat /\ Len(s) > 0 /\ Len(Tail(s)) = Len(s) - 1 /\ Head(s) = s[1]
  OBVIOUS
<1>2. \A i \in 1 .. Len(Tail(s)) : Tail(s)[i] = s[i + 1]
  OBVIOUS
<1> QED
  BY <1>1, <1>2

\* A thread that was started stays so, and who is disturbed remains so.
LEMMA UndisturbedStep ==
    ASSUME BusInv, [Next]_vars
    PROVE  /\ Alone' => Alone
           /\ \A t \in Threads : Undisturbed(t)' => Undisturbed(t)
<1>t. TypeOK
  BY DEF BusInv
<1>1. ASSUME NEW u \in Threads, stage[u] # "off"
      PROVE  stage'[u] # "off"
  <2>1. ASSUME NEW t \in Threads, Client(t) \/ Thread(t)
        PROVE  stage'[u] # "off"
    BY <1>1, <1>t, <2>1 DEF Client, Thread, Setup, Dispatch, Leave, Start, Pop, Reconnect,
       Release, GetBus, NoBus, AddFilter, AddMatch, Request, SetupFails, TakeSignal,
       TakeDisconnected, Filter, AfterDispatch, SeeLoss, ReadRelease, Exit, Flush, Clean,
       GoTo, At, TypeOK, busVars
  <2>2. ASSUME Send \/ Lose \/ UNCHANGED vars
        PROVE  stage'[u] = stage[u]
    BY <2>2 DEF Send, Lose, vars, threadVars
  <2> QED
    BY <1>1, <2>1, <2>2 DEF Next
<1>2. Alone' => Alone
  BY <1>1 DEF Alone, At
<1>3. ASSUME NEW t \in Threads, First(t)
      PROVE  First(t)'
  BY <1>t, <1>3, FirstStays DEF First
<1> QED
  BY <1>2, <1>3 DEF Undisturbed

\* What the steps of others, of the client and of the bus leave alone.
LEMMA OthersStep ==
    ASSUME BusInv, [Next]_vars, NEW t \in Threads
    PROVE  \/ UNCHANGED <<stage[t], out[t]>>
           \/ /\ UNCHANGED out[t]
              /\ stage[t] \notin {"flush", "clean", "done"}
              /\ stage'[t] \notin {"flush", "clean", "done"}
           \/ SetupFails(t) \/ Pop(t) \/ Exit(t) \/ Flush(t) \/ Clean(t)
           \/ \E u \in Threads : Filter(u) /\ (u = t \/ filters[1] = t)
<1>t. TypeOK
  BY DEF BusInv
<1>1. CASE \/ Start(t) \/ Reconnect(t) \/ Release(t) \/ GetBus(t) \/ NoBus(t)
           \/ AddFilter(t) \/ AddMatch(t) \/ Request(t) \/ TakeSignal(t)
           \/ TakeDisconnected(t) \/ SeeLoss(t) \/ ReadRelease(t)
  BY <1>1, <1>t DEF Start, Reconnect, Release, GetBus, NoBus, AddFilter, AddMatch, Request,
     TakeSignal, TakeDisconnected, SeeLoss, ReadRelease, GoTo, At, TypeOK
<1>2. ASSUME NEW u \in Threads, u # t, ~ Filter(u), Client(u) \/ Thread(u)
      PROVE  UNCHANGED <<stage[t], out[t]>>
  BY <1>2, <1>t DEF Client, Thread, Setup, Dispatch, Leave, Start, Pop, Reconnect,
     Release, GetBus, NoBus, AddFilter, AddMatch, Request, SetupFails, TakeSignal,
     TakeDisconnected, SeeLoss, ReadRelease, Exit, Flush, Clean, Push,
     GoTo, TypeOK, busVars
<1>3. ASSUME NEW u \in Threads, u # t, Filter(u), filters[1] # t
      PROVE  UNCHANGED <<stage[t], out[t]>>
  <2>1. out'[t] = out[t]
    BY <1>3, FilterPush
  <2>2. stage'[t] = stage[t]
    BY <1>3, <1>t DEF Filter, AfterDispatch, GoTo, TypeOK
  <2> QED
    BY <2>1, <2>2
<1>4. ASSUME Send \/ Lose \/ UNCHANGED vars
      PROVE  UNCHANGED <<stage, out>>
  BY <1>4 DEF Send, Lose, vars, threadVars
<1> QED
  BY <1>1, <1>2, <1>3, <1>4 DEF Next, Client, Thread, Setup, Dispatch, Leave

\* Each step keeps the queue of a thread as DrainInv says.
LEMMA DrainStep ==
    ASSUME BusInv, TakenInv, NEW t \in Threads, DrainInv(t), [Next]_vars
    PROVE  DrainInv(t)'
<1>t. TypeOK
  BY DEF BusInv
<1>o. out[t] \in Seq(Messages) /\ Len(out[t]) \in Nat
  BY <1>t, FeedType
<1>u. Undisturbed(t)' => Undisturbed(t)
  BY UndisturbedStep
<1> USE DEF DrainInv
<1>1. CASE UNCHANGED <<stage[t], out[t]>>
  BY <1>u, <1>1 DEF Late
<1>2. CASE /\ UNCHANGED out[t]
           /\ stage[t] \notin {"flush", "clean", "done"}
           /\ stage'[t] \notin {"flush", "clean", "done"}
  BY <1>2
<1>3. CASE SetupFails(t)
  <2>1. stage[t] \in SettingUp /\ stage'[t] = "wait"
    BY <1>3, <1>t DEF SetupFails, GoTo, TypeOK
  <2>2. <<SetupError>> \in Seq(Messages) /\ SetupError \in Messages
    BY MessageNames
  <2>3. out'[t] = Append(out[t], SetupError)
    <3>1. out'[t] = out[t] \o <<SetupError>>
      BY <1>3, <1>t, <2>2, PushTypes DEF SetupFails
    <3> QED
      BY <1>o, <2>2, <3>1
  <2>4. \A i \in 1 .. Len(out'[t]) : out'[t][i] # Marker
    BY <1>o, <2>1, <2>2, <2>3, AppendFacts, MessageNames DEF SettingUp
  <2> QED
    BY <2>1, <2>4
<1>4. CASE \E u \in Threads : Filter(u) /\ (u = t \/ filters[1] = t)
  <2>1. PICK u \in Threads : Filter(u) /\ (u = t \/ filters[1] = t)
    BY <1>4
  <2>2. stage[u] = "dispatch" /\ filters # <<>>
    BY <2>1 DEF Filter, At, BusInv, StageInv
  <2>3. /\ stage'[t] = stage[t] \/ (u = t /\ stage'[t] \in {"deaf", "serve"})
        /\ UNCHANGED filters
    BY <1>t, <2>1 DEF Filter, AfterDispatch, GoTo, TypeOK, busVars
  <2>4. stage[t] \in {"flush", "clean"} => ~ Undisturbed(t)
    <3>1. CASE u = t
      BY <2>2, <3>1
    <3>2. CASE u # t
      <4>1. First(t)
        BY <2>1, <2>2, <3>2 DEF First
      <4>2. stage[t] # "off" => ~ Alone
        BY <2>2, <3>2 DEF Alone, At
      <4> QED
        BY <4>1, <4>2 DEF Undisturbed
    <3> QED
      BY <3>1, <3>2
  <2>5. taken \in Messages /\ taken # Marker
    BY <1>t, MessageNames DEF TypeOK
  <2>a. taken \in FromBus
    BY <2>1 DEF Filter, TakenInv, Dispatching
  <2>6. out'[t] = out[t] \/ out'[t] = Append(out[t], taken)
    BY <2>1, FilterPush
  <2>7. (\A i \in 1 .. Len(out[t]) : out[t][i] # Marker)
           => \A i \in 1 .. Len(out'[t]) : out'[t][i] # Marker
    BY <1>o, <2>5, <2>6, AppendFacts
  <2>8. stage'[t] \in {"flush", "clean"} => stage[t] \in {"flush", "clean"}
    BY <2>3
  <2>9. stage'[t] \notin {"flush", "clean", "done"}
           => stage[t] \notin {"flush", "clean", "done"}
    BY <2>2, <2>3
  <2>b. stage'[t] = "clean" => \A i \in 1 .. Len(out'[t]) : Late(t, i)'
    <3>1. CASE stage[t] = "clean" /\ out'[t] = out[t]
      BY <1>u, <3>1 DEF Late
    <3>2. CASE stage[t] = "clean" /\ out'[t] = Append(out[t], taken)
      <4>1. /\ Len(out'[t]) = Len(out[t]) + 1 /\ out'[t][Len(out[t]) + 1] = taken
            /\ \A i \in 1 .. Len(out[t]) : out'[t][i] = out[t][i]
        BY <1>o, <2>5, <3>2, AppendFacts
      <4>2. ~ Undisturbed(t)'
        BY <1>u, <2>4, <3>2
      <4> QED
        BY <1>o, <2>a, <3>2, <4>1, <4>2 DEF Late
    <3> QED
      BY <2>3, <2>6, <3>1, <3>2
  <2>c. ASSUME stage'[t] = "flush"
        PROVE  \E k \in 1 .. Len(out'[t]) :
                  /\ out'[t][k] = Marker
                  /\ \A i \in 1 .. Len(out'[t]) : (i < k => out'[t][i] # Marker)
                                               /\ (i > k => Late(t, i)')
    <3>1. stage[t] = "flush" /\ ~ Undisturbed(t) /\ ~ Undisturbed(t)'
      BY <1>u, <2>3, <2>4, <2>c
    <3>2. PICK k \in 1 .. Len(out[t]) :
              /\ out[t][k] = Marker
              /\ \A i \in 1 .. Len(out[t]) : (i < k => out[t][i] # Marker)
                                          /\ (i > k => Late(t, i))
      BY <3>1
    <3>3. CASE out'[t] = out[t]
      BY <3>1, <3>2, <3>3 DEF Late
    <3>4. CASE out'[t] = Append(out[t], taken)
      <4>1. /\ Len(out'[t]) = Len(out[t]) + 1 /\ out'[t][Len(out[t]) + 1] = taken
            /\ \A i \in 1 .. Len(out[t]) : out'[t][i] = out[t][i]
        BY <1>o, <2>5, <3>4, AppendFacts
      <4>2. k \in 1 .. Len(out'[t]) /\ out'[t][k] = Marker
        BY <1>o, <3>2, <4>1
      <4>3. \A i \in 1 .. Len(out'[t]) : (i < k => out'[t][i] # Marker)
                                      /\ (i > k => Late(t, i)')
        BY <1>o, <2>5, <2>a, <3>1, <3>2, <4>1 DEF Late
      <4> QED
        BY <4>2, <4>3
    <3> QED
      BY <2>6, <3>3, <3>4
  <2> QED
    BY <2>7, <2>9, <2>b, <2>c
<1>5. CASE Pop(t)
  <2>1. out[t] # <<>> /\ out'[t] = Tail(out[t]) /\ UNCHANGED stage
    BY <1>5, <1>t DEF Pop, TypeOK
  <2>2. stage[t] \notin {"flush", "clean", "done"}
    BY <1>5 DEF Pop, BusInv, StageInv
  <2>3. \A i \in 1 .. Len(out'[t]) : out'[t][i] # Marker
    BY <1>o, <2>1, <2>2, TailMessages
  <2> QED
    BY <2>1, <2>2, <2>3
<1>6. CASE Exit(t)
  <2>1. stage[t] = "exit" /\ stage'[t] = "flush"
    BY <1>6, <1>t DEF Exit, GoTo, At, TypeOK
  <2>2. <<Exited, Marker>> \in Seq(Messages) /\ Exited \in Messages /\ Marker \in Messages
    BY MessageNames
  <2>3. out'[t] = Append(Append(out[t], Exited), Marker)
    <3>1. out'[t] = out[t] \o <<Exited, Marker>>
      BY <1>6, <1>t, <2>2, PushTypes DEF Exit
    <3> QED
      BY <1>o, <2>2, <3>1
  <2> DEFINE s == Append(out[t], Exited)
  <2>4. /\ s \in Seq(Messages) /\ Len(s) \in Nat /\ Len(s) = Len(out[t]) + 1
        /\ s[Len(out[t]) + 1] = Exited
        /\ \A i \in 1 .. Len(out[t]) : s[i] = out[t][i]
    BY <1>o, <2>2, AppendFacts
  <2> HIDE DEF s
  <2>5. \A i \in 1 .. Len(s) : s[i] # Marker
    BY <1>o, <2>1, <2>4, MessageNames
  <2>6. /\ out'[t] = Append(s, Marker)
        /\ Append(s, Marker) # <<>> /\ Len(Append(s, Marker)) = Len(s) + 1
        /\ Append(s, Marker)[Len(s) + 1] = Marker
        /\ \A i \in 1 .. Len(s) : Append(s, Marker)[i] = s[i]
    <3>1. out'[t] = Append(s, Marker)
      BY <2>3 DEF s
    <3> QED
      BY <2>2, <2>4, <3>1, AppendFacts
  <2>7. /\ Len(out'[t]) \in 1 .. Len(out'[t]) /\ out'[t][Len(out'[t])] = Marker
        /\ \A i \in 1 .. Len(out'[t]) : i < Len(out'[t]) => out'[t][i] # Marker
    BY <2>4, <2>5, <2>6
  <2> QED
    BY <2>1, <2>7
<1>7. CASE Flush(t)
  <2>1. /\ stage[t] = "flush" /\ out[t] # <<>> /\ out'[t] = Tail(out[t])
        /\ stage'[t] = IF Head(out[t]) = Marker THEN "clean" ELSE "flush"
    BY <1>7, <1>t DEF Flush, GoTo, At, TypeOK
  <2>2. /\ Len(out[t]) > 0 /\ Len(Tail(out[t])) = Len(out[t]) - 1
        /\ Head(out[t]) = out[t][1] /\ Tail(out[t]) \in Seq(Messages)
        /\ \A i \in 1 .. Len(Tail(out[t])) :
              Tail(out[t])[i] = out[t][i + 1] /\ i + 1 \in 1 .. Len(out[t])
    BY <1>o, <2>1, TailMessages
  <2>3. PICK k \in 1 .. Len(out[t]) :
            /\ out[t][k] = Marker
            /\ \A i \in 1 .. Len(out[t]) : (i < k => out[t][i] # Marker)
                                        /\ (i > k => Late(t, i))
    BY <2>1
  <2>4. \A i \in 1 .. Len(out'[t]) : Late(t, i + 1) => Late(t, i)'
    BY <1>u, <2>1, <2>2 DEF Late
  <2>5. CASE Head(out[t]) = Marker
    <3>1. k = 1
      BY <1>o, <2>2, <2>3, <2>5
    <3>2. \A i \in 1 .. Len(out'[t]) : Late(t, i)'
      BY <1>o, <2>1, <2>2, <2>3, <2>4, <3>1
    <3> QED
      BY <2>1, <2>5, <3>2
  <2>6. CASE Head(out[t]) # Marker
    <3>1. k > 1 /\ k - 1 \in 1 .. Len(out'[t])
      BY <1>o, <2>1, <2>2, <2>3, <2>6
    <3>2. out'[t][k - 1] = Marker
      BY <2>1, <2>2, <2>3, <3>1
    <3>3. \A i \in 1 .. Len(out'[t]) : (i < k - 1 => out'[t][i] # Marker)
                                    /\ (i > k - 1 => Late(t, i)')
      BY <1>o, <2>1, <2>2, <2>3, <2>4
    <3> QED
      BY <2>1, <2>6, <3>1, <3>2, <3>3
  <2> QED
    BY <2>5, <2>6
<1>8. CASE Clean(t)
  <2>1. stage'[t] = "done"
    BY <1>8, <1>t DEF Clean, GoTo, TypeOK
  <2> QED
    BY <2>1
<1> QED
  BY <1>1, <1>2, <1>3, <1>4, <1>5, <1>6, <1>7, <1>8, OthersStep

\* Each step of a single thread leaves stale as it is.
LEMMA StaleStep ==
    ASSUME BusInv, StaleTakesTwo, [Next]_vars
    PROVE  StaleTakesTwo'
<1> SUFFICES ASSUME Alone'
             PROVE  ~ stale'
  BY DEF StaleTakesTwo, NoStaleFilter
<1>1. Alone /\ ~ stale
  BY UndisturbedStep DEF StaleTakesTwo, NoStaleFilter
<1>2. ASSUME NEW t \in Threads, Filter(t)
      PROVE  ~ stale'
  <2>1. filters[1] \in Threads /\ stage[t] = "dispatch"
    BY <1>2, FilterPush DEF Filter, At
  <2>2. filters[1] \in freed => stage[filters[1]] = "done"
    BY <2>1 DEF BusInv, StageInv
  <2>3. filters[1] \notin freed
    BY <1>1, <2>1, <2>2 DEF Alone, At
  <2> QED
    BY <1>1, <1>2, <2>3 DEF Filter
<1>3. (\E t \in Threads : Filter(t)) \/ UNCHANGED stale
  BY DEF Next, Client, Thread, Setup, Dispatch, Leave, Start, Pop, Reconnect, Release,
     GetBus, NoBus, AddFilter, AddMatch, Request, SetupFails, TakeSignal,
     TakeDisconnected, SeeLoss, ReadRelease, Exit, Flush, Clean, Send, Lose,
     vars, threadVars
<1> QED
  BY <1>1, <1>2, <1>3

\* EndInv holds at the start and after every step.
LEMMA EndAlways == Spec => []EndInv
<1>1. Init => (\A t \in Threads : DrainInv(t)) /\ StaleTakesTwo
  BY DEF Init, DrainInv, StaleTakesTwo, NoStaleFilter
<1>2. EndInv /\ [Next]_vars /\ OrderInv' => EndInv'
  BY DrainStep, StaleStep DEF EndInv, OrderInv
<1> QED
  BY <1>1, <1>2, OrderAlways, PTL DEF Spec, EndInv

\* The flush leaves an empty queue to clean up; to the thread whose filter is first, when
\* there is another instance, perhaps messages of the bus, never the thread's own.
THEOREM CleanUpFindsEmpty == Spec => []CleanFindsEmpty
<1>1. EndInv => CleanFindsEmpty
  BY DEF EndInv, DrainInv, Late, Undisturbed, CleanFindsEmpty, At
<1> QED
  BY <1>1, EndAlways, PTL

\* As long as there is one instance in the process, no filter reaches a channel that has
\* been freed, whatever set-ups failed and were tried again.
THEOREM OneInstanceIsSafe == Spec => []StaleTakesTwo
<1>1. EndInv => StaleTakesTwo
  BY DEF EndInv
<1> QED
  BY <1>1, EndAlways, PTL
=============================================================================
