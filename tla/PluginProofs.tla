----------------------------- MODULE PluginProofs -----------------------------
(***************************************************************************)
(* PluginObject for every host and every fault first (BlocksInv, LifeInv,  *)
(* CauseInv), then for a host that keeps no reference beyond NPP_Destroy   *)
(* and a process in which only the channel and the thread may be missing   *)
(* (SafeInv).                                                              *)
(***************************************************************************)
EXTENDS PluginObject, TLAPS

-----------------------------------------------------------------------------
(* The results of init.                                                    *)

\* Each result of MDNSBrowser::init: types; a thread comes with success only;
\* after a failure there are no queues.
LEMMA InitResultTypes ==
    ASSUME NEW r \in InitResults
    PROVE  /\ r.ok \in BOOLEAN /\ r.twice \in BOOLEAN
           /\ r.cc \in {"none", "live", "freed"}
           /\ r.in \in {"none", "live", "freed"}
           /\ r.out \in {"none", "live", "freed"}
           /\ r.bp \in {"none", "live"} /\ r.locks \in {"none", "live"}
           /\ r.thread \in {"none", "starting"}
           /\ r.ok <=> r.cc = "live"
           /\ ~ r.ok => r.thread = "none" /\ r.in = "none" /\ r.out = "none"
           /\ r.cc = "none" => r = NoChannel
           /\ "cc" \notin Faults => r.cc # "none"
           /\ r.ok => /\ r.in # "none" /\ r.out # "none" /\ ~ r.twice
                      /\ r.bp = "live" /\ r.locks = "live"
           /\ r.ok /\ "mutex" \notin Faults => r.in = "live" /\ r.out = "live"
           /\ r.ok /\ "thread" \notin Faults => r.thread = "starting"
<1>1. \A q \in Queue : /\ q.q \in {"none", "live", "freed"}
                       /\ q.q = "freed" => "mutex" \in Faults
  BY DEF Queue, QueueCreate, QueueParts
<1> DEFINE Sane(s) ==
        /\ s.ok \in BOOLEAN /\ s.twice \in BOOLEAN
        /\ s.in \in {"none", "live", "freed"}
        /\ s.out \in {"none", "live", "freed"}
        /\ s.bp \in {"none", "live"} /\ s.locks \in {"none", "live"}
        /\ s.thread \in {"none", "starting"}
        /\ ~ s.ok => s.thread = "none" /\ s.in = "none" /\ s.out = "none"
        /\ s.ok => /\ s.in # "none" /\ s.out # "none" /\ ~ s.twice
                   /\ s.bp = "live" /\ s.locks = "live"
        /\ s.ok /\ "mutex" \notin Faults => s.in = "live" /\ s.out = "live"
        /\ s.ok /\ "thread" \notin Faults => s.thread = "starting"
<1>2. ASSUME NEW s \in Outcomes
      PROVE  Sane(s)
  <2>1. CASE s = Failed
    BY <2>1 DEF Failed
  <2>2. ASSUME NEW i \in Queue, NEW o \in Queue, NEW t \in ThreadLeft, s = LeftBy(i, o, t)
        PROVE  Sane(s)
    <3>1. CASE "none" \in {i.q, o.q}
      BY <2>2, <3>1 DEF LeftBy, Failed
    <3>2. CASE "none" \notin {i.q, o.q}
      BY <1>1, <2>2, <3>2 DEF LeftBy, ThreadLeft
    <3> QED
      BY <3>1, <3>2
  <2>3. s = Failed \/ \E i \in Queue, o \in Queue, t \in ThreadLeft : s = LeftBy(i, o, t)
    BY DEF Outcomes
  <2> QED
    BY <2>1, <2>2, <2>3
<1>3. CASE r = NoChannel /\ "cc" \in Faults
  BY <1>3 DEF NoChannel
<1>4. CASE \E s \in Outcomes :
              r = [ok |-> s.ok, cc |-> IF s.ok THEN "live" ELSE "freed", in |-> s.in,
                   out |-> s.out, bp |-> s.bp, locks |-> s.locks,
                   thread |-> s.thread, twice |-> s.twice]
  BY <1>2, <1>4
<1> QED
  BY <1>3, <1>4 DEF InitResults

-----------------------------------------------------------------------------
(* For every host and every fault.                                         *)

\* What there is, there is because of what is before it in the chain instance data,
\* object, client, channel; a live object has released nothing yet.
BlocksInv ==
    /\ TypeOK
    /\ mem["npo"] # "none" => mem["pdata"] # "none"
    /\ mem["mb"] # "none" => mem["npo"] # "none"
    /\ mem["pdata"] = "freed" => mem["npo"] # "live"
    /\ mem["mb"] = "none" =>
          /\ mem["cc"] = "none" /\ mem["in"] = "none" /\ mem["out"] = "none"
          /\ thread = "none" /\ ~ started /\ ~ calling /\ sent = 0
    /\ refs > 0 => mem["npo"] # "none"
    /\ thread # "none" => started
    /\ started => mem["cc"] # "none"
    /\ Defined /\ mem["pdata"] = "live" /\ mem["npo"] # "freed" =>
          sent = 0 /\ mem["mb"] # "freed"
    /\ DestroyReleases

\* The blocks of a set change, the others do not.
LEMMA ChangedBlocks ==
    ASSUME NEW S \in SUBSET Blocks, NEW to \in {"none", "live", "freed"},
           mem \in [Blocks -> {"none", "live", "freed"}]
    PROVE  /\ Changed(S, to) \in [Blocks -> {"none", "live", "freed"}]
           /\ \A b \in Blocks : Changed(S, to)[b] = IF b \in S THEN to ELSE mem[b]
  BY DEF Changed

\* The blocks by name.
LEMMA BlockNames ==
    /\ "pdata" \in Blocks /\ "npo" \in Blocks /\ "mb" \in Blocks
    /\ "cc" \in Blocks /\ "in" \in Blocks /\ "out" \in Blocks
    /\ "locks" \in Blocks /\ "bp" \in Blocks
  BY DEF Blocks

\* What init sets, and that it sets nothing else.
LEMMA OpenedBlocks ==
    ASSUME NEW r \in InitResults, mem \in [Blocks -> {"none", "live", "freed"}]
    PROVE  /\ Opened(r) \in [Blocks -> {"none", "live", "freed"}]
           /\ Opened(r)["pdata"] = mem["pdata"] /\ Opened(r)["npo"] = mem["npo"]
           /\ Opened(r)["mb"] = "live" /\ Opened(r)["cc"] = r.cc
           /\ Opened(r)["in"] = r.in /\ Opened(r)["out"] = r.out
           /\ Opened(r)["bp"] = r.bp /\ Opened(r)["locks"] = r.locks
<1>1. /\ r.cc \in {"none", "live", "freed"} /\ r.in \in {"none", "live", "freed"}
      /\ r.out \in {"none", "live", "freed"}
      /\ r.bp \in {"none", "live", "freed"} /\ r.locks \in {"none", "live", "freed"}
  BY InitResultTypes
<1> QED
  BY <1>1, BlockNames DEF Opened

\* What Destroy does to the object's block and to others, whether the block is found or not.
LEMMA TouchAndDeleteBlocks ==
    ASSUME NEW S \in SUBSET Blocks, TouchAndDelete(S), wild \subseteq Blocks
    PROVE  /\ wild' \subseteq Blocks
           /\ wild \subseteq wild' /\ {b \in S : mem[b] = "freed"} \subseteq wild'
           /\ wild' \subseteq wild \cup {"npo"} \cup {b \in S : mem[b] = "freed"}
  BY BlockNames DEF TouchAndDelete

\* Deallocate frees the object and its client, and touches both.
LEMMA DeallocatedBlocks ==
    /\ Deallocated \in SUBSET Blocks /\ Deallocating \in SUBSET Blocks
    /\ "npo" \in Deallocated /\ Deallocated \subseteq Deallocating
    /\ Deallocated \subseteq {"npo", "mb"}
    /\ "mb" \in Deallocated <=> mem["mb"] # "none"
  BY BlockNames DEF Deallocated, Deallocating

\* The release, with or without a channel.
LEMMA ReleaseTypes ==
    ASSUME Release, sent \in Nat, turn \in BOOLEAN
    PROVE  /\ sent' \in Nat /\ turn' \in BOOLEAN
           /\ sent' = IF Releases THEN sent + 1 ELSE sent
           /\ mem["mb"] = "none" => sent' = sent
<1>1. CASE Releases
  BY <1>1 DEF Release, Releases
<1>2. CASE ~ Releases
  BY <1>2 DEF Release
<1> QED
  BY <1>1, <1>2

\* Each step keeps the chain in order, whatever the host does and whatever fails.
LEMMA BlocksStep ==
    ASSUME BlocksInv, [Next]_vars
    PROVE  BlocksInv'
<1> USE HostAssumption, BlockNames DEF BlocksInv, TypeOK
<1>1. CASE New
  BY <1>1 DEF New, Idle, Defined, Changed, DestroyReleases, Blocks
<1>2. CASE GetObject
  <2>1. mem' \in [Blocks -> {"none", "live", "freed"}]
    BY <1>2, ChangedBlocks DEF GetObject
  <2>2. \A b \in Blocks \ {"npo"} : mem'[b] = mem[b]
    BY <1>2, ChangedBlocks DEF GetObject
  <2>3. mem'["npo"] = IF mem["npo"] = "none" THEN "live" ELSE mem["npo"]
    BY <1>2, ChangedBlocks DEF GetObject
  <2>4. refs' \in 0 .. MaxRefs
    BY <1>2 DEF GetObject
  <2> QED
    BY <1>2, <2>1, <2>2, <2>3, <2>4 DEF GetObject, Idle, Defined, DestroyReleases
<1>3. CASE Ask
  BY <1>3 DEF Ask, Idle, Defined, Touch, DestroyReleases
<1>4. CASE InvokeFirst
  <2>1. PICK r \in InitResults :
            /\ started' = r.ok /\ thread' = r.thread
            /\ mem' = Opened(r)
            /\ wild' = {b \in {"npo", "pdata"} : mem[b] = "freed"}
                         \cup {b \in {"in", "out"} : r.twice}
    BY <1>4 DEF InvokeFirst
  <2>2. /\ r.ok \in BOOLEAN
        /\ r.cc \in {"none", "live", "freed"}
        /\ r.in \in {"none", "live", "freed"}
        /\ r.out \in {"none", "live", "freed"}
        /\ r.thread \in {"none", "starting"}
        /\ r.ok => r.cc # "none"
        /\ r.thread # "none" => r.ok
    BY InitResultTypes
  <2>3. mem' \in [Blocks -> {"none", "live", "freed"}]
    BY <2>1, OpenedBlocks
  <2>4. /\ mem'["pdata"] = mem["pdata"] /\ mem'["npo"] = mem["npo"]
        /\ mem'["mb"] = "live" /\ mem'["cc"] = r.cc
    BY <2>1, OpenedBlocks
  <2>5. mem["npo"] # "none" /\ refs > 0
    BY <1>4 DEF InvokeFirst
  <2>6. mem["npo"] = "freed" => ~ Defined'
    BY <2>1 DEF Defined
  <2>7. DestroyReleases'
    BY <2>4, <2>5, <2>6 DEF DestroyReleases
  <2> QED
    BY <1>4, <2>1, <2>2, <2>3, <2>4, <2>5, <2>6, <2>7 DEF InvokeFirst, Idle, Defined
<1>5. CASE InvokeAgain
  BY <1>5 DEF InvokeAgain, Idle, Defined, Touch, DestroyReleases
<1>6. CASE PopMsg
  <2>1. wild' \subseteq Blocks /\ (Defined' => Defined)
    BY <1>6 DEF PopMsg, Touch, Defined
  <2>2. /\ calling' = FALSE /\ turn' \in BOOLEAN
        /\ answer' \in {"nothing", "yes", "no", "null", "message", "init_error"}
    BY <1>6 DEF PopMsg
  <2> QED
    BY <1>6, <2>1, <2>2 DEF PopMsg, DestroyReleases
<1>7. CASE Drop
  <2>1. refs' \in 0 .. MaxRefs
    BY <1>7 DEF Drop
  <2> QED
    BY <1>7, <2>1 DEF Drop, Idle, Defined, Touch, DestroyReleases
<1>8. CASE DropLast
  <2>1. /\ mem' \in [Blocks -> {"none", "live", "freed"}]
        /\ \A b \in Blocks : mem'[b] = IF b \in Deallocated THEN "freed" ELSE mem[b]
    <3>1. Deallocated \in SUBSET Blocks
      BY DeallocatedBlocks
    <3>2. mem' = Changed(Deallocated, "freed")
      BY <1>8 DEF DropLast
    <3> QED
      BY <3>1, <3>2, ChangedBlocks
  <2>2. /\ mem'["npo"] = "freed"
        /\ mem'["mb"] = IF mem["mb"] = "none" THEN "none" ELSE "freed"
        /\ \A b \in Blocks \ {"npo", "mb"} : mem'[b] = mem[b]
    BY <2>1, DeallocatedBlocks
  <2>3. /\ sent' \in Nat /\ turn' \in BOOLEAN
        /\ mem["mb"] = "none" => sent' = sent
    BY <1>8, ReleaseTypes DEF DropLast
  <2>4. mem["npo"] # "none" /\ wild' \subseteq Blocks
    <3>1. refs > 0
      BY <1>8 DEF DropLast
    <3>2. wild' \subseteq Blocks
      BY <1>8 DEF DropLast, Touch, Deallocating, Deallocated
    <3> QED
      BY <3>1, <3>2
  <2>5. mem["npo"] = "freed" => ~ Defined'
    BY <1>8, DeallocatedBlocks DEF DropLast, Touch, Defined
  <2>6. DestroyReleases'
    BY <1>8, <2>2, <2>4, <2>5 DEF DropLast, DestroyReleases
  <2> QED
    BY <1>8, <2>1, <2>2, <2>3, <2>4, <2>6 DEF DropLast, Idle, Defined
<1>9. CASE Destroy
  <2>1. CASE mem["npo"] = "none"
    BY <1>9, <2>1, ChangedBlocks DEF Destroy, Idle, Defined, Touch, DestroyReleases
  <2>2. CASE mem["npo"] # "none"
    <3>1. {"pdata"} \cup Deallocated \in SUBSET Blocks
      BY DeallocatedBlocks
    <3>2. /\ mem' \in [Blocks -> {"none", "live", "freed"}]
          /\ \A b \in Blocks : mem'[b] = IF b \in {"pdata"} \cup Deallocated
                                      THEN "freed" ELSE mem[b]
      BY <1>9, <2>2, <3>1, ChangedBlocks DEF Destroy
    <3>3. /\ mem'["npo"] = "freed" /\ mem'["pdata"] = "freed"
          /\ mem'["mb"] = IF mem["mb"] = "none" THEN "none" ELSE "freed"
          /\ \A b \in {"cc", "in", "out"} : mem'[b] = mem[b]
      BY <3>2, DeallocatedBlocks
    <3>4. /\ sent' \in Nat /\ turn' \in BOOLEAN
          /\ sent' = IF Releases THEN sent + 1 ELSE sent
      BY <1>9, <2>2, ReleaseTypes DEF Destroy
    <3>a. {"pdata"} \cup Deallocating \in SUBSET Blocks /\ "npo" \in Deallocating
      BY DeallocatedBlocks
    <3>b. TouchAndDelete({"pdata"} \cup Deallocating)
      BY <1>9, <2>2 DEF Destroy
    <3>5. wild' \subseteq Blocks
      BY <3>a, <3>b, TouchAndDeleteBlocks
    <3>6. mem["npo"] = "freed" => ~ Defined'
      BY <3>a, <3>b, TouchAndDeleteBlocks DEF Defined
    <3>7. Defined /\ mem["pdata"] = "live"
      BY <1>9 DEF Destroy, Idle
    <3>8. thread # "none" /\ mem["npo"] # "freed" => sent' = 1
      BY <3>4, <3>7 DEF Releases
    <3>9. DestroyReleases'
      BY <1>9, <3>6, <3>8 DEF Destroy, DestroyReleases
    <3> QED
      BY <1>9, <2>2, <3>2, <3>3, <3>4, <3>5, <3>9 DEF Destroy, Releases
  <2> QED
    BY <2>1, <2>2
<1>10. CASE FirstEvent
  BY <1>10 DEF FirstEvent, Defined, Touch, DestroyReleases
<1>11. CASE Clean
  <2>1. {"cc", "in", "out"} \in SUBSET Blocks
    OBVIOUS
  <2>2. /\ mem' \in [Blocks -> {"none", "live", "freed"}]
        /\ mem'["cc"] = "freed"
        /\ \A b \in {"pdata", "npo", "mb"} : mem'[b] = mem[b]
    BY <1>11, <2>1, ChangedBlocks DEF Clean
  <2>3. wild' \subseteq Blocks /\ mem["mb"] # "none" /\ started
    BY <1>11 DEF Clean, Touch
  <2> QED
    BY <1>11, <2>2, <2>3 DEF Clean, Defined, DestroyReleases
<1>12. CASE UNCHANGED vars
  BY <1>12 DEF vars, Defined, DestroyReleases
<1> QED
  BY <1>1, <1>2, <1>3, <1>4, <1>5, <1>6, <1>7, <1>8, <1>9, <1>10, <1>11, <1>12
  DEF Next, Host, Page, Worker

\* Before NPP_New there is nothing.
LEMMA BlocksStart == Init => BlocksInv
<1> SUFFICES ASSUME Init
             PROVE  BlocksInv
  OBVIOUS
<1>1. mem \in [Blocks -> {"none", "live", "freed"}]
  BY DEF Init
<1>2. \A b \in Blocks : mem[b] = "none"
  BY DEF Init
<1>3. refs = 0 /\ 0 \in 0 .. MaxRefs /\ 0 \in Nat
  BY HostAssumption DEF Init
<1>4. TypeOK
  BY <1>1, <1>3 DEF Init, TypeOK
<1>5. /\ mem["pdata"] = "none" /\ mem["npo"] = "none" /\ mem["mb"] = "none"
      /\ mem["cc"] = "none" /\ mem["in"] = "none" /\ mem["out"] = "none"
  BY <1>2, BlockNames
<1> QED
  BY <1>3, <1>4, <1>5 DEF Init, BlocksInv, DestroyReleases

\* Whatever the host does and whatever fails, the chain of blocks is in order.
LEMMA BlocksAlways == Spec => []BlocksInv
  BY BlocksStart, BlocksStep, PTL DEF Spec

\* The variables keep their types, for every host and every fault.
THEOREM PluginTypes == Spec => []TypeOK
<1>1. BlocksInv => TypeOK
  BY DEF BlocksInv
<1> QED
  BY <1>1, BlocksAlways, PTL

\* NPP_Destroy, or the deallocation before it, has told a thread to leave, exactly
\* once, unless freed memory was touched first; for every host and every fault.
THEOREM DestroyAlwaysReleases == Spec => []DestroyReleases
<1>1. BlocksInv => DestroyReleases
  BY DEF BlocksInv
<1> QED
  BY <1>1, BlocksAlways, PTL

\* With a thread for every client whose init succeeded.
ThreadInv == (started => thread # "none") /\ NullMeansAThread

\* It stays so: only init starts a client.
LEMMA ThreadStep ==
    ASSUME "thread" \notin Faults, BlocksInv, ThreadInv, [Next]_vars
    PROVE  ThreadInv'
<1> USE DEF ThreadInv, NullMeansAThread
<1>1. CASE InvokeFirst
  <2>1. PICK r \in InitResults : started' = r.ok /\ thread' = r.thread
    BY <1>1 DEF InvokeFirst
  <2>2. r.ok => r.thread = "starting"
    BY InitResultTypes
  <2>3. answer' = answer /\ thread = "none"
    BY <1>1 DEF InvokeFirst, BlocksInv
  <2> QED
    BY <2>1, <2>2, <2>3
<1>2. CASE PopMsg
  BY <1>2 DEF PopMsg
<1>3. CASE Ask
  BY <1>3 DEF Ask
<1>4. CASE FirstEvent \/ Clean
  BY <1>4 DEF FirstEvent, Clean
<1>5. CASE New \/ GetObject \/ InvokeAgain \/ Drop \/ DropLast \/ Destroy \/ UNCHANGED vars
  BY <1>5 DEF New, GetObject, InvokeAgain, Drop, DropLast, Destroy, vars
<1> QED
  BY <1>1, <1>2, <1>3, <1>4, <1>5 DEF Next, Host, Page, Worker

\* If no thread is refused, it is so from the start.
LEMMA ThreadAlways ==
    ASSUME "thread" \notin Faults
    PROVE  Spec => []ThreadInv
<1>1. Init => ThreadInv
  BY DEF Init, ThreadInv, NullMeansAThread
<1> QED
  BY <1>1, ThreadStep, BlocksAlways, PTL DEF Spec

\* If no thread is refused, a page is answered "no message yet" only by a client that
\* has a thread; a failed init is always answered with its error.
THEOREM NullIsHonest ==
    ASSUME "thread" \notin Faults
    PROVE  Spec => []NullMeansAThread
<1>1. ThreadInv => NullMeansAThread
  BY DEF ThreadInv
<1> QED
  BY <1>1, ThreadAlways, PTL

-----------------------------------------------------------------------------
(* The thread behind the object lives the life of ThreadLife.               *)

\* A thread that is not done has a channel, one that is done has freed all of it, and
\* both deafness and the end have been asked for.
LifeInv ==
    /\ thread \notin {"none", "done"} => mem["cc"] = "live"
    /\ thread = "done" => \A b \in {"cc", "in", "out"} : mem[b] = "freed"
    /\ thread \in {"deaf", "done"} => sent > 0

\* The main thread frees nothing of the channel and asks the thread at most to leave.
LEMMA LifeMainStep ==
    ASSUME BlocksInv, LifeInv, New \/ GetObject \/ DropLast \/ Destroy
    PROVE  /\ \A b \in {"cc", "in", "out"} : mem'[b] = mem[b]
           /\ thread' = thread /\ sent' \in {sent, sent + 1}
<1> USE BlockNames DEF BlocksInv, TypeOK
<1>1. CASE New \/ GetObject
  BY <1>1, ChangedBlocks DEF New, GetObject
<1>2. CASE DropLast
  <2>1. Deallocated \in SUBSET Blocks /\ "cc" \notin Deallocated
          /\ "in" \notin Deallocated /\ "out" \notin Deallocated
    BY DeallocatedBlocks
  <2>2. mem' = Changed(Deallocated, "freed") /\ thread' = thread
    BY <1>2 DEF DropLast
  <2>3. sent' \in {sent, sent + 1}
    BY <1>2, ReleaseTypes DEF DropLast
  <2> QED
    BY <2>1, <2>2, <2>3, ChangedBlocks
<1>3. CASE Destroy
  <2>1. thread' = thread /\ sent' \in {sent, sent + 1}
    BY <1>3, ReleaseTypes DEF Destroy
  <2>2. PICK S \in SUBSET {"pdata", "npo", "mb"} : mem' = Changed(S, "freed")
    BY <1>3, DeallocatedBlocks DEF Destroy
  <2>3. S \in SUBSET Blocks /\ "cc" \notin S /\ "in" \notin S /\ "out" \notin S
    BY <2>2
  <2>4. \A b \in Blocks : mem'[b] = IF b \in S THEN "freed" ELSE mem[b]
    BY <2>2 DEF Changed
  <2> QED
    BY <2>1, <2>3, <2>4
<1> QED
  BY <1>1, <1>2, <1>3

\* Each step keeps LifeInv and is a step of ThreadLife, or is not seen by it.
LEMMA PluginLifeStep ==
    ASSUME BlocksInv, LifeInv, [Next]_vars
    PROVE  LifeInv' /\ [Life!Next]_<<thread, Asked, Reclaimed>>
<1> USE BlockNames DEF BlocksInv, TypeOK, LifeInv
<1>1. CASE New \/ GetObject \/ DropLast \/ Destroy
  <2>1. /\ \A b \in {"cc", "in", "out"} : mem'[b] = mem[b]
        /\ thread' = thread /\ sent' \in {sent, sent + 1}
    BY <1>1, LifeMainStep
  <2>2. UNCHANGED Reclaimed
    BY <2>1 DEF Reclaimed
  <2>3. CASE Asked' = Asked
    BY <2>1, <2>2, <2>3
  <2>4. CASE Asked' # Asked
    <3>1. /\ thread # "none" /\ sent = 0
          /\ Asked = "NULL" /\ Asked' = "BMSG_EXIT_CLEAN"
      BY <2>1, <2>4 DEF Asked
    <3>2. thread \in {"starting", "running"}
      BY <3>1
    <3> QED
      BY <2>1, <2>2, <3>1, <3>2 DEF Life!Next, Life!Ask, Life!Requests
  <2> QED
    BY <2>3, <2>4
<1>2. CASE Ask \/ InvokeAgain \/ PopMsg \/ Drop \/ UNCHANGED vars
  <2>1. UNCHANGED <<mem, thread, sent>>
    BY <1>2 DEF Ask, InvokeAgain, PopMsg, Drop, vars
  <2> QED
    BY <2>1 DEF Asked, Reclaimed
<1>3. CASE InvokeFirst
  <2>1. PICK r \in InitResults :
            /\ thread' = r.thread
            /\ mem' = Opened(r)
    BY <1>3 DEF InvokeFirst
  <2>2. r.thread \in {"none", "starting"} /\ (r.thread = "starting" => r.cc = "live")
    BY InitResultTypes
  <2>3. mem'["cc"] = r.cc
    BY <2>1, OpenedBlocks
  <2>4. thread = "none" /\ sent = 0 /\ sent' = 0
    BY <1>3 DEF InvokeFirst
  <2>5. Asked = "NULL" /\ Asked' = "NULL" /\ Reclaimed = FALSE /\ Reclaimed' = FALSE
    BY <2>1, <2>2, <2>3, <2>4 DEF Asked, Reclaimed
  <2> QED
    BY <2>1, <2>2, <2>3, <2>4, <2>5 DEF Life!Next, Life!Create
<1>4. CASE FirstEvent
  <2>1. /\ thread = "starting" /\ thread' = IF sent > 0 THEN "deaf" ELSE "running"
        /\ UNCHANGED <<mem, sent>>
    BY <1>4 DEF FirstEvent
  <2>2. UNCHANGED <<Asked, Reclaimed>> /\ (Asked = "NULL" <=> ~ sent > 0)
    BY <2>1 DEF Asked, Reclaimed
  <2> QED
    BY <2>1, <2>2 DEF Life!Next, Life!Begin, Life!Lose
<1>5. CASE Clean
  <2>1. thread = "running" /\ thread' = "done" /\ sent > 0 /\ sent' = sent
    BY <1>5 DEF Clean
  <2>2. \A b \in {"cc", "in", "out"} : mem'[b] = "freed"
    <3>1. {"cc", "in", "out"} \in SUBSET Blocks
      OBVIOUS
    <3> QED
      BY <1>5, <3>1, ChangedBlocks DEF Clean
  <2>3. Asked = "BMSG_EXIT_CLEAN" /\ Asked' = Asked /\ Reclaimed' = TRUE
    BY <2>1, <2>2 DEF Asked, Reclaimed
  <2> QED
    BY <2>1, <2>2, <2>3 DEF Life!Next, Life!Clean
<1> QED
  BY <1>1, <1>2, <1>3, <1>4, <1>5 DEF Next, Host, Page, Worker

\* Whatever the host does and whatever allocation fails, what the object takes its
\* thread for is a thread that lives the life of ThreadLife, the life ThreadLives
\* proves of the thread itself.
THEOREM PluginThreadLives == Spec => LifeSpec
<1>1. Init => LifeInv /\ Life!Init
  BY DEF Init, LifeInv, Life!Init, Asked, Reclaimed
<1>2. BlocksInv /\ LifeInv /\ [Next]_vars =>
        LifeInv' /\ [Life!Next]_<<thread, Asked, Reclaimed>>
  BY PluginLifeStep
<1> QED
  BY <1>1, <1>2, BlocksAlways, PTL DEF Spec, LifeSpec, Life!Spec

\* A client that was started has its channel until the thread has cleaned up, with queues
\* that are not freed unless queue_create did so; the thread cleans up after a release, and a
\* release comes with the deletion of the object.
CauseInv ==
    /\ started /\ thread # "done" =>
          mem["cc"] = "live" /\ mem["in"] # "none" /\ mem["out"] # "none"
    /\ started /\ thread # "done" /\ "mutex" \notin Faults =>
          mem["in"] = "live" /\ mem["out"] = "live"
    /\ ~ started => mem["cc"] # "live"
    /\ thread = "done" => sent > 0
    /\ sent > 0 => mem["npo"] = "freed"
    /\ mem["mb"] = "freed" => mem["npo"] = "freed"
    /\ WildHasCause

\* The two functions that delete the object.
LEMMA CauseDeletion ==
    ASSUME BlocksInv, CauseInv, DropLast \/ (Destroy /\ mem["npo"] # "none")
    PROVE  CauseInv'
<1> USE BlockNames DEF BlocksInv, TypeOK, CauseInv
<1>1. PICK S \in SUBSET Blocks :
          /\ mem' = Changed(S, "freed")
          /\ "npo" \in S /\ "cc" \notin S /\ "in" \notin S /\ "out" \notin S
  <2>1. CASE DropLast
    BY <2>1, DeallocatedBlocks DEF DropLast
  <2>2. CASE Destroy /\ mem["npo"] # "none"
    <3>1. mem' = Changed({"pdata"} \cup Deallocated, "freed")
      BY <2>2 DEF Destroy
    <3>2. {"pdata"} \cup Deallocated \in SUBSET Blocks
      BY DeallocatedBlocks
    <3> QED
      BY <3>1, <3>2, DeallocatedBlocks
  <2> QED
    BY <2>1, <2>2
<1>2. /\ mem'["npo"] = "freed"
      /\ \A b \in {"cc", "in", "out"} : mem'[b] = mem[b]
      /\ mem["mb"] # "none" => mem'["mb"] # "none"
  BY <1>1, ChangedBlocks
<1>3. /\ wild = {} /\ UNCHANGED <<started, thread>> /\ Release
  BY DEF DropLast, Destroy, Idle, Defined
<1>4. sent' \in Nat /\ sent' >= sent
  BY <1>3, ReleaseTypes
<1>5. /\ wild' \subseteq Blocks
      /\ wild' \subseteq {"npo"} \cup {b \in {"pdata"} \cup Deallocating : mem[b] = "freed"}
      /\ "pdata" \in wild' => "npo" \in wild'
  <2>1. CASE DropLast
    BY <1>3, <2>1, DeallocatedBlocks DEF DropLast, Touch, Deallocating, Deallocated
  <2>2. CASE Destroy /\ mem["npo"] # "none"
    <3>1. TouchAndDelete({"pdata"} \cup Deallocating)
      BY <2>2 DEF Destroy
    <3>2. {"pdata"} \cup Deallocating \in SUBSET Blocks /\ mem["pdata"] = "live"
      BY <2>2, DeallocatedBlocks DEF Destroy
    <3>3. /\ wild' \subseteq Blocks
          /\ wild' \subseteq {"npo"} \cup {b \in {"pdata"} \cup Deallocating : mem[b] = "freed"}
      BY <1>3, <3>1, <3>2, TouchAndDeleteBlocks
    <3> QED
      BY <3>2, <3>3
  <2> QED
    BY <2>1, <2>2
<1>6. ASSUME wild' # {}, "npo" \notin wild'
      PROVE  \/ mem'["cc"] = "freed" /\ ~ started'
             \/ "mutex" \in Faults /\ wild' \subseteq {"in", "out"}
  <2>1. mem["npo"] # "freed"
    BY <1>6, <1>3, <1>4, <1>2, DeallocatedBlocks DEF DropLast, Destroy, Touch, TouchAndDelete
  <2>2. sent = 0 /\ thread # "done" /\ mem["mb"] # "freed"
    BY <2>1
  <2>3. wild' \subseteq {b \in {"cc", "in"} : mem[b] = "freed" /\ Releases}
    BY <1>5, <1>6, <2>2, DeallocatedBlocks DEF Deallocating, Deallocated
  <2>4. CASE ~ started
    <3>1. Releases
      BY <1>6, <2>3
    <3>2. mem["cc"] = "freed"
      BY <2>4, <3>1 DEF Releases
    <3> QED
      BY <1>2, <1>3, <2>4, <3>2
  <2>5. CASE started
    BY <1>6, <2>2, <2>3, <2>5
  <2> QED
    BY <2>4, <2>5
<1> QED
  BY <1>2, <1>3, <1>4, <1>6 DEF WildHasCause

\* Each step keeps CauseInv.
LEMMA CauseStep ==
    ASSUME BlocksInv, CauseInv, [Next]_vars
    PROVE  CauseInv'
<1> USE BlockNames DEF BlocksInv, TypeOK, CauseInv
<1>1. CASE DropLast \/ (Destroy /\ mem["npo"] # "none")
  BY <1>1, CauseDeletion
<1>2. CASE Destroy /\ mem["npo"] = "none"
  <2>1. mem' = Changed({"pdata"}, "freed") /\ UNCHANGED <<started, thread, sent>> /\ wild' = wild
    BY <1>2 DEF Destroy, Touch, Idle
  <2> QED
    BY <2>1, ChangedBlocks DEF WildHasCause
<1>3. CASE New \/ GetObject
  <2>1. UNCHANGED <<started, thread, sent, wild>>
    BY <1>3 DEF New, GetObject
  <2>2. \A b \in Blocks : mem'[b] = mem[b] \/ (mem[b] = "none" /\ mem'[b] = "live"
                                              /\ b \in {"pdata", "npo"})
    BY <1>3, ChangedBlocks DEF New, GetObject
  <2> QED
    BY <2>1, <2>2 DEF WildHasCause
<1>4. CASE Ask \/ InvokeAgain \/ Drop
  <2>1. /\ UNCHANGED <<mem, started, thread, sent>> /\ refs > 0
        /\ wild = {} /\ wild' \subseteq {b \in {"npo", "pdata"} : mem[b] = "freed"}
    BY <1>4 DEF Ask, InvokeAgain, Drop, Idle, Defined, Touch
  <2>2. wild' # {} => "npo" \in wild'
    <3>1. CASE Ask \/ InvokeAgain
      BY <3>1, <2>1 DEF Ask, InvokeAgain, Touch
    <3>2. CASE Drop
      BY <3>2 DEF Drop, Idle, Defined, Touch
    <3> QED
      BY <1>4, <3>1, <3>2
  <2> QED
    BY <2>1, <2>2 DEF WildHasCause
<1>5. CASE PopMsg
  <2>1. UNCHANGED <<mem, started, thread, sent>>
    BY <1>5 DEF PopMsg
  <2>2. wild' = wild \cup {b \in (IF started THEN {"npo", "mb", "cc", "out"}
                                             ELSE {"npo", "mb"}) : mem[b] = "freed"}
    BY <1>5 DEF PopMsg, Touch
  <2>3. ASSUME mem["npo"] # "freed"
        PROVE  /\ wild' \subseteq wild \cup {"out"}
               /\ "mutex" \notin Faults \/ ~ started => wild' = wild
    <3>1. sent = 0 /\ thread # "done" /\ mem["mb"] # "freed"
      BY <2>3
    <3>2. CASE started
      BY <2>2, <2>3, <3>1, <3>2
    <3>3. CASE ~ started
      BY <2>2, <2>3, <3>1, <3>3
    <3> QED
      BY <3>2, <3>3
  <2>4. mem["npo"] = "freed" => "npo" \in wild'
    BY <2>2
  <2>5. WildHasCause'
    <3>1. CASE mem["npo"] = "freed"
      BY <2>1, <2>4, <3>1 DEF WildHasCause
    <3>2. CASE mem["npo"] # "freed" /\ wild' = wild
      BY <2>1, <3>2 DEF WildHasCause
    <3>3. CASE mem["npo"] # "freed" /\ wild' # wild
      <4>1. "mutex" \in Faults /\ started /\ wild' \subseteq wild \cup {"out"}
        BY <2>3, <3>3
      <4>2. wild \subseteq {"in", "out"}
        BY <3>3, <4>1 DEF WildHasCause
      <4> QED
        BY <4>1, <4>2 DEF WildHasCause
    <3> QED
      BY <3>1, <3>2, <3>3
  <2> QED
    BY <2>1, <2>5
<1>6. CASE InvokeFirst
  <2>1. PICK r \in InitResults :
            /\ started' = r.ok /\ thread' = r.thread
            /\ mem' = Opened(r)
            /\ wild' = {b \in {"npo", "pdata"} : mem[b] = "freed"}
                         \cup {b \in {"in", "out"} : r.twice}
    BY <1>6 DEF InvokeFirst
  <2>2. /\ r.ok <=> r.cc = "live"
        /\ r.ok => r.in # "none" /\ r.out # "none" /\ ~ r.twice
        /\ r.ok /\ "mutex" \notin Faults => r.in = "live" /\ r.out = "live"
        /\ r.cc = "none" => ~ r.twice
        /\ r.cc \in {"none", "live", "freed"}
        /\ r.thread \in {"none", "starting"} /\ r.ok \in BOOLEAN
    BY InitResultTypes DEF NoChannel
  <2>3. /\ mem'["npo"] = mem["npo"] /\ mem'["mb"] = "live"
        /\ mem'["cc"] = r.cc /\ mem'["in"] = r.in /\ mem'["out"] = r.out
    BY <2>1, OpenedBlocks
  <2>4. sent' = 0 /\ mem["npo"] # "none"
    BY <1>6 DEF InvokeFirst
  <2>5. mem["pdata"] = "freed" => mem["npo"] = "freed"
    BY <2>4
  <2>6. WildHasCause'
    <3>1. CASE mem["npo"] = "freed"
      BY <2>1, <2>3, <3>1 DEF WildHasCause
    <3>2. CASE mem["npo"] # "freed" /\ r.twice
      BY <2>1, <2>2, <2>3, <3>2 DEF WildHasCause
    <3>3. CASE mem["npo"] # "freed" /\ ~ r.twice
      BY <2>1, <2>5, <3>3 DEF WildHasCause
    <3> QED
      BY <3>1, <3>2, <3>3
  <2> QED
    BY <2>1, <2>2, <2>3, <2>4, <2>6
<1>7. CASE FirstEvent
  <2>1. /\ UNCHANGED <<mem, started, sent>> /\ wild = {} /\ thread = "starting"
        /\ thread' \in {"deaf", "running"}
        /\ wild' = {b \in {"cc", "in"} : mem[b] = "freed"}
    BY <1>7 DEF FirstEvent, Defined, Touch
  <2>2. started /\ mem["cc"] = "live" /\ ("mutex" \notin Faults => mem["in"] = "live")
    BY <2>1
  <2>3. wild' \subseteq {"in", "out"} /\ (wild' # {} => "mutex" \in Faults)
    BY <2>1, <2>2
  <2> QED
    BY <2>1, <2>2, <2>3 DEF WildHasCause
<1>8. CASE Clean
  <2>1. /\ UNCHANGED <<started, sent>> /\ wild = {} /\ thread = "running" /\ sent > 0
        /\ thread' = "done" /\ wild' = {b \in {"cc", "in", "out"} : mem[b] = "freed"}
        /\ mem' = Changed({"cc", "in", "out"}, "freed")
    BY <1>8 DEF Clean, Defined, Touch
  <2>2. started /\ mem["cc"] = "live"
        /\ ("mutex" \notin Faults => mem["in"] = "live" /\ mem["out"] = "live")
    BY <2>1
  <2>3. wild' \subseteq {"in", "out"} /\ (wild' # {} => "mutex" \in Faults)
    BY <2>1, <2>2
  <2>4. {"cc", "in", "out"} \in SUBSET Blocks
    OBVIOUS
  <2>5. mem'["npo"] = mem["npo"] /\ mem'["mb"] = mem["mb"]
    BY <2>1, <2>4, ChangedBlocks
  <2> QED
    BY <2>1, <2>2, <2>3, <2>5 DEF WildHasCause
<1>9. CASE UNCHANGED vars
  BY <1>9 DEF vars, WildHasCause
<1> QED
  BY <1>1, <1>2, <1>3, <1>4, <1>5, <1>6, <1>7, <1>8, <1>9 DEF Next, Host, Page, Worker

\* From the start.
LEMMA CauseAlways == Spec => []CauseInv
<1>1. Init => CauseInv
  BY BlockNames DEF Init, CauseInv, WildHasCause
<1> QED
  BY <1>1, CauseStep, BlocksAlways, PTL DEF Spec

\* Under any host, and whatever fails, memory is first misused through the object, after or
\* by its deletion, through the channel of a failed init, or through a queue that came
\* without a mutex.
THEOREM FirstTouchHasCause == Spec => []WildHasCause
<1>1. CauseInv => WildHasCause
  BY DEF CauseInv
<1> QED
  BY <1>1, CauseAlways, PTL

-----------------------------------------------------------------------------
(* For a host that gives every reference back before NPP_Destroy and leaves *)
(* the object's own to the plugin (Kept), in a process that may only be     *)
(* short of channels and of threads.                                        *)

\* As long as nothing went wrong the page's references are to live blocks, the object and
\* its client go with the instance data, and the channel with its queues at the end of the
\* thread that was told to leave; and nothing goes wrong but the delete of NPP_Destroy.
SafeInv ==
    /\ BlocksInv
    /\ Defined =>
         /\ refs > 0 => mem["npo"] = "live" /\ mem["pdata"] = "live"
         /\ calling => refs > 0
         /\ mem["npo"] = "freed" => mem["pdata"] = "freed"
         /\ mem["pdata"] = "freed" => mem["mb"] # "live"
         /\ mem["mb"] = "freed" => mem["pdata"] = "freed"
         /\ started <=> mem["cc"] # "none"
         /\ mem["in"] = mem["cc"] /\ mem["out"] = mem["cc"]
         /\ started <=> mem["bp"] = "live"
         /\ started <=> mem["locks"] = "live"
         /\ mem["cc"] = "freed" => thread = "done"
         /\ thread = "done" => mem["cc"] = "freed" /\ sent > 0
         /\ thread # "none" => mem["cc"] # "none"
    /\ ~ Defined => /\ wild = {"npo"} /\ ~ calling
                    /\ mem["pdata"] = "freed" /\ mem["npo"] = "freed"

\* Init's results, if nothing but the channel and the thread may be missing.
LEMMA PlainResults ==
    ASSUME Faults \subseteq {"cc", "thread"}, NEW r \in InitResults
    PROVE  /\ ~ r.twice /\ r.in = r.cc /\ r.out = r.cc /\ r.cc # "freed"
           /\ r.bp = r.cc /\ r.locks = r.cc
<1>1. \A q \in Queue : q.q = "live"
  BY DEF Queue, QueueCreate, QueueParts
<1>2. \A s \in Outcomes : /\ s.ok /\ ~ s.twice /\ s.in = "live" /\ s.out = "live"
                          /\ s.bp = "live" /\ s.locks = "live"
  <2>1. \A i \in Queue, o \in Queue, t \in ThreadLeft :
            LeftBy(i, o, t) = [ok |-> TRUE, in |-> "live", out |-> "live", bp |-> "live",
                               locks |-> "live", thread |-> t, twice |-> FALSE]
    BY <1>1 DEF LeftBy
  <2>2. ASSUME NEW s \in Outcomes
        PROVE  \E i \in Queue, o \in Queue, t \in ThreadLeft : s = LeftBy(i, o, t)
    BY DEF Outcomes
  <2> QED
    BY <2>1, <2>2
<1>3. CASE r = NoChannel
  BY <1>3 DEF NoChannel
<1>4. CASE \E s \in Outcomes :
              r = [ok |-> s.ok, cc |-> IF s.ok THEN "live" ELSE "freed", in |-> s.in,
                   out |-> s.out, bp |-> s.bp, locks |-> s.locks,
                   thread |-> s.thread, twice |-> s.twice]
  BY <1>2, <1>4
<1> QED
  BY <1>3, <1>4 DEF InitResults

\* Nothing is touched when every block of the set is there.
LEMMA TouchLive ==
    ASSUME NEW S \in SUBSET Blocks, Defined, Touch(S), \A b \in S : mem[b] # "freed"
    PROVE  Defined'
  BY DEF Touch, Defined

\* NPP_Destroy with an object: everything is in order before, and the delete decides what
\* can be said afterwards.
LEMMA SafeDestroy ==
    ASSUME Kept, SafeInv, BlocksInv', Destroy, mem["npo"] # "none"
    PROVE  SafeInv'
<1> USE BlockNames DEF SafeInv, Kept, BlocksInv, TypeOK
<1>1. refs = 0 /\ mem["pdata"] = "live" /\ ~ calling /\ Defined
  BY DEF Destroy, Idle
<1>2. {"pdata"} \cup Deallocated \in SUBSET Blocks
      /\ {"pdata"} \cup Deallocating \in SUBSET Blocks
  BY DeallocatedBlocks
<1>3. \A b \in Blocks : mem'[b] = IF b \in {"pdata"} \cup Deallocated
                                    THEN "freed" ELSE mem[b]
  BY <1>2, ChangedBlocks DEF Destroy
<1>4. /\ mem'["npo"] = "freed" /\ mem'["pdata"] = "freed"
      /\ mem'["mb"] # "live"
      /\ \A b \in {"cc", "in", "out", "locks", "bp"} : mem'[b] = mem[b]
  BY <1>3, DeallocatedBlocks
<1>5. mem["npo"] = "live" /\ mem["mb"] # "freed"
  BY <1>1
<1>6. sent = 0
  BY <1>1, <1>5
<1>7. mem["cc"] # "freed" /\ mem["in"] # "freed" /\ thread # "done"
  BY <1>1, <1>6
<1>8. \A b \in {"pdata"} \cup Deallocating : mem[b] # "freed"
  BY <1>1, <1>5, <1>7 DEF Deallocating, Deallocated
<1>9. wild' \in {{}, {"npo"}}
  <2>1. TouchAndDelete({"pdata"} \cup Deallocating)
    BY DEF Destroy
  <2>2. {b \in {"pdata"} \cup Deallocating : mem[b] = "freed"} = {}
    BY <1>8
  <2> QED
    BY <1>1, <2>1, <2>2 DEF TouchAndDelete, Defined
<1>10. UNCHANGED <<refs, calling, started, thread>>
  BY DEF Destroy
<1> QED
  BY <1>1, <1>4, <1>7, <1>9, <1>10 DEF Defined

\* Each step keeps the order in which they go.
LEMMA SafeStep ==
    ASSUME Kept, Faults \subseteq {"cc", "thread"}, SafeInv, [Next]_vars
    PROVE  SafeInv'
<1>a. BlocksInv'
  BY BlocksStep DEF SafeInv
<1>b. TypeOK /\ TypeOK'
  BY <1>a DEF SafeInv, BlocksInv
<1> USE BlockNames DEF SafeInv, Kept
<1>1. CASE New
  <2>1. /\ mem'["pdata"] = "live"
        /\ \A b \in Blocks \ {"pdata"} : mem'[b] = mem[b]
    BY <1>1, <1>b, ChangedBlocks DEF New, TypeOK
  <2>2. mem["mb"] # "live" /\ Defined /\ Defined'
    BY <1>1 DEF New, BlocksInv, Idle, Defined
  <2> QED
    BY <1>1, <1>a, <2>1, <2>2 DEF New, Idle, BlocksInv
<1>2. CASE GetObject
  <2>1. /\ mem'["npo"] = IF mem["npo"] = "none" THEN "live" ELSE mem["npo"]
        /\ \A b \in Blocks \ {"npo"} : mem'[b] = mem[b]
    BY <1>2, <1>b, ChangedBlocks DEF GetObject, TypeOK
  <2>2. mem["pdata"] = "live" /\ Defined /\ Defined'
    BY <1>2 DEF GetObject, Idle, Defined
  <2>3. mem'["npo"] = "live" /\ mem'["pdata"] = "live"
    BY <1>b, <2>1, <2>2 DEF TypeOK
  <2>4. \A b \in {"pdata", "mb", "cc", "in", "out", "locks", "bp"} : mem'[b] = mem[b]
    BY <2>1
  <2>5. ~ calling' /\ UNCHANGED <<started, thread, sent, wild>>
    BY <1>2 DEF GetObject, Idle
  <2> QED
    BY <1>a, <2>2, <2>3, <2>4, <2>5
<1>3. CASE Ask
  <2>1. Defined /\ Defined'
    BY <1>3, TouchLive DEF Ask, Idle
  <2> QED
    BY <1>3, <1>a, <2>1 DEF Ask
<1>4. CASE InvokeFirst
  <2>1. PICK r \in InitResults :
            /\ started' = r.ok /\ thread' = r.thread
            /\ mem' = Opened(r)
            /\ wild' = {b \in {"npo", "pdata"} : mem[b] = "freed"}
                         \cup {b \in {"in", "out"} : r.twice}
    BY <1>4 DEF InvokeFirst
  <2>2. /\ ~ r.twice /\ r.in = r.cc /\ r.out = r.cc /\ r.bp = r.cc /\ r.locks = r.cc
        /\ r.cc \in {"none", "live"} /\ (r.ok <=> r.cc = "live")
        /\ r.thread \in {"none", "starting"} /\ (~ r.ok => r.thread = "none")
    BY InitResultTypes, PlainResults
  <2>3. /\ mem'["pdata"] = mem["pdata"] /\ mem'["npo"] = mem["npo"]
        /\ mem'["mb"] = "live" /\ mem'["cc"] = r.cc
        /\ mem'["in"] = r.cc /\ mem'["out"] = r.cc
        /\ mem'["bp"] = r.cc /\ mem'["locks"] = r.cc
    BY <1>b, <2>1, <2>2, OpenedBlocks DEF TypeOK
  <2>4. mem["npo"] = "live" /\ mem["pdata"] = "live" /\ refs' > 0
    BY <1>4 DEF InvokeFirst, Idle
  <2>5. Defined'
    BY <2>1, <2>2, <2>4 DEF Defined
  <2> QED
    BY <1>a, <2>1, <2>2, <2>3, <2>4, <2>5
<1>5. CASE InvokeAgain
  <2>1. Defined /\ Defined'
    BY <1>5, TouchLive DEF InvokeAgain, Idle
  <2> QED
    BY <1>5, <1>a, <2>1 DEF InvokeAgain
<1>6. CASE PopMsg
  <2>1. /\ Defined /\ refs > 0 /\ mem["npo"] = "live" /\ mem["pdata"] = "live"
        /\ mem["mb"] # "freed"
    BY <1>6 DEF PopMsg
  <2>2. sent = 0
    BY <2>1 DEF BlocksInv
  <2>3. \A b \in {"npo", "mb", "cc", "out"} : mem[b] # "freed"
    BY <2>1, <2>2, <1>b DEF TypeOK
  <2>4. Defined'
    BY <1>6, <2>1, <2>3, TouchLive DEF PopMsg
  <2> QED
    BY <1>6, <1>a, <2>1, <2>4 DEF PopMsg
<1>7. CASE Drop
  <2>1. Defined /\ Defined'
    BY <1>7, TouchLive DEF Drop, Idle
  <2> QED
    BY <1>7, <1>a, <1>b, <2>1 DEF Drop, Idle, TypeOK
<1>8. CASE DropLast
  BY <1>8 DEF DropLast
<1>9. CASE Destroy
  <2>1. CASE mem["npo"] = "none"
    <3>1. /\ mem'["pdata"] = "freed"
          /\ \A b \in Blocks \ {"pdata"} : mem'[b] = mem[b]
      BY <1>9, <2>1, <1>b, ChangedBlocks DEF Destroy, TypeOK
    <3>2. Defined /\ Defined' /\ refs = 0 /\ ~ calling
      BY <1>9, <2>1, <1>b, TouchLive DEF Destroy, Idle, TypeOK
    <3>3. mem["mb"] = "none"
      BY <2>1 DEF BlocksInv
    <3> QED
      BY <1>9, <1>a, <2>1, <3>1, <3>2, <3>3 DEF Destroy
  <2>2. CASE mem["npo"] # "none"
    BY <1>9, <1>a, <2>2, SafeDestroy
  <2> QED
    BY <2>1, <2>2
<1>10. CASE FirstEvent
  <2>1. Defined /\ mem["cc"] # "freed" /\ mem["in"] # "freed"
    BY <1>10 DEF FirstEvent
  <2>2. Defined'
    BY <1>10, <2>1, TouchLive DEF FirstEvent
  <2> QED
    BY <1>10, <1>a, <2>1, <2>2 DEF FirstEvent
<1>11. CASE Clean
  <2>1. Defined /\ \A b \in {"cc", "in", "out"} : mem[b] # "freed"
    BY <1>11 DEF Clean
  <2>2. Defined'
    BY <1>11, <2>1, TouchLive DEF Clean
  <2>3. {"cc", "in", "out"} \in SUBSET Blocks
    OBVIOUS
  <2>4. /\ \A b \in {"cc", "in", "out"} : mem'[b] = "freed"
        /\ \A b \in {"pdata", "npo", "mb", "locks", "bp"} : mem'[b] = mem[b]
    BY <1>11, <2>3, <1>b, ChangedBlocks DEF Clean, TypeOK
  <2>5. started
    BY <1>11 DEF Clean, BlocksInv
  <2> QED
    BY <1>11, <1>a, <2>1, <2>2, <2>4, <2>5 DEF Clean
<1>12. CASE UNCHANGED vars
  BY <1>12, <1>a DEF vars, Defined
<1> QED
  BY <1>1, <1>2, <1>3, <1>4, <1>5, <1>6, <1>7, <1>8, <1>9, <1>10, <1>11, <1>12
  DEF Next, Host, Page, Worker

\* It is so from the start.
LEMMA SafeAlways ==
    ASSUME Kept, Faults \subseteq {"cc", "thread"}
    PROVE  Spec => []SafeInv
<1>1. Init => SafeInv
  <2> SUFFICES ASSUME Init
               PROVE  SafeInv
    OBVIOUS
  <2>1. BlocksInv
    BY BlocksStart
  <2>2. \A b \in Blocks : mem[b] = "none"
    BY DEF Init
  <2> QED
    BY <2>1, <2>2, BlockNames DEF Init, SafeInv, Defined
<1>2. SafeInv /\ [Next]_vars => SafeInv'
  BY SafeStep
<1> QED
  BY <1>1, <1>2, PTL DEF Spec

\* In such a process, whatever the host: no client has a channel that its init freed.
LEMMA PlainStart ==
    ASSUME Faults \subseteq {"cc", "thread"}
    PROVE  Spec => [](~ started => mem["cc"] # "freed")
<1> DEFINE J == ~ started => mem["cc"] # "freed"
<1>1. Init => J
  BY BlockNames DEF Init
<1>2. BlocksInv /\ J /\ [Next]_vars => J'
  <2> SUFFICES ASSUME BlocksInv, J, [Next]_vars, ~ started'
               PROVE  mem'["cc"] # "freed"
    OBVIOUS
  <2> USE BlockNames DEF BlocksInv, TypeOK
  <2>1. CASE InvokeFirst
    <3>1. PICK r \in InitResults : mem' = Opened(r)
      BY <2>1 DEF InvokeFirst
    <3> QED
      BY <3>1, OpenedBlocks, PlainResults
  <2>2. CASE New \/ GetObject
    BY <2>2, ChangedBlocks DEF New, GetObject
  <2>3. CASE DropLast \/ Destroy
    <3>1. PICK S \in SUBSET {"pdata", "npo", "mb"} : mem' = Changed(S, "freed")
      BY <2>3, DeallocatedBlocks DEF DropLast, Destroy
    <3>2. mem'["cc"] = mem["cc"]
      BY <3>1 DEF Changed
    <3> QED
      BY <2>3, <3>2 DEF DropLast, Destroy
  <2>4. CASE Clean
    BY <2>4 DEF Clean
  <2>5. CASE Ask \/ InvokeAgain \/ PopMsg \/ Drop \/ FirstEvent \/ UNCHANGED vars
    BY <2>5 DEF Ask, InvokeAgain, PopMsg, Drop, FirstEvent, vars
  <2> QED
    BY <2>1, <2>2, <2>3, <2>4, <2>5 DEF Next, Host, Page, Worker
<1> QED
  BY <1>1, <1>2, BlocksAlways, PTL DEF Spec

\* Where at most the channel or the thread cannot be had, no memory is misused before the
\* object has been deleted, by NPP_Destroy or by the host, whatever host it is; and with one
\* that gives its references back nothing is amiss but the delete of NPP_Destroy itself.
THEOREM OnlyTheObjectIsMisused ==
    ASSUME Faults \subseteq {"cc", "thread"}
    PROVE  Spec => []OnlyTheObject
<1> DEFINE J == ~ started => mem["cc"] # "freed"
           K == wild # {} => mem["npo"] = "freed" /\ "npo" \in wild
<1>1. CauseInv /\ J => K
  BY DEF CauseInv, WildHasCause
<1>2. Spec => []K
  BY <1>1, CauseAlways, PlainStart, PTL
<1>3. CASE Kept
  <2>1. K /\ SafeInv => OnlyTheObject
    BY DEF SafeInv, Defined, OnlyTheObject
  <2> QED
    BY <1>2, <1>3, <2>1, SafeAlways, PTL
<1>4. CASE ~ Kept
  <2>1. K => OnlyTheObject
    BY <1>4 DEF OnlyTheObject
  <2> QED
    BY <1>2, <2>1, PTL
<1> QED
  BY <1>3, <1>4

\* With a host that gives its references back, what is left of an instance that is gone, and of
\* its thread, is exactly the bp and the locks of its queues, or all of the channel if there was no
\* thread to free it, or nothing if there was no channel.
THEOREM WhatIsLeftIsKnown ==
    ASSUME Kept, Faults \subseteq {"cc", "thread"}
    PROVE  Spec => []WhatIsLeft
<1>1. SafeInv => WhatIsLeft
  <2> SUFFICES ASSUME SafeInv, Defined, mem["pdata"] = "freed", thread \in {"none", "done"}
               PROVE  {b \in Blocks : mem[b] = "live"} =
                          IF ~ started THEN {}
                          ELSE IF thread = "done" THEN {"locks", "bp"}
                          ELSE {"cc", "in", "out", "locks", "bp"}
    BY DEF WhatIsLeft
  <2>1. mem["npo"] # "live" /\ mem["mb"] # "live"
    BY DEF SafeInv, BlocksInv
  <2>2. /\ mem["in"] = mem["cc"] /\ mem["out"] = mem["cc"]
        /\ mem["bp"] = "live" <=> started
        /\ mem["locks"] = "live" <=> started
        /\ mem["cc"] = "live" <=> started /\ thread # "done"
    BY BlockNames DEF SafeInv, BlocksInv, TypeOK
  <2>3. \A b \in Blocks : mem[b] = "live" <=>
            b \in (IF ~ started THEN {}
                   ELSE IF thread = "done" THEN {"locks", "bp"}
                   ELSE {"cc", "in", "out", "locks", "bp"})
    BY <2>1, <2>2 DEF Blocks
  <2> QED
    BY <2>3, BlockNames
<1> QED
  BY <1>1, SafeAlways, PTL

-----------------------------------------------------------------------------
(* The plugin as a client of its channel (ChannelClient).                   *)

\* What the client can see of a step that leaves these alone.
LEMMA UnseenStep ==
    ASSUME mem'["mb"] = mem["mb"], UNCHANGED <<started, sent, turn>>
    PROVE  UNCHANGED <<Stage, turn>>
  BY DEF Stage

\* Each step is a use, the opening or the closing of the channel, or unseen.
LEMMA ClientStep ==
    ASSUME Kept, Faults \subseteq {"cc", "thread"}, SafeInv, [Next]_vars
    PROVE  [Client!Next]_<<Stage, turn>>
<1>b. TypeOK
  BY DEF SafeInv, BlocksInv
<1> USE BlockNames
<1>1. CASE New \/ GetObject
  <2>1. mem'["mb"] = mem["mb"]
    BY <1>1, <1>b, ChangedBlocks DEF New, GetObject, TypeOK
  <2>2. UNCHANGED <<started, sent, turn>>
    BY <1>1 DEF New, GetObject
  <2> QED
    BY <2>1, <2>2, UnseenStep
<1>2. CASE Ask \/ InvokeAgain \/ Drop \/ FirstEvent \/ UNCHANGED vars
  <2>1. mem'["mb"] = mem["mb"] /\ UNCHANGED <<started, sent, turn>>
    BY <1>2 DEF Ask, InvokeAgain, Drop, FirstEvent, vars
  <2> QED
    BY <2>1, UnseenStep
<1>3. CASE InvokeFirst
  <2>1. mem["mb"] = "none" /\ sent = 0
    BY <1>3 DEF InvokeFirst, SafeInv, BlocksInv
  <2>2. mem'["mb"] = "live" /\ UNCHANGED <<sent, turn>>
    <3>1. PICK r \in InitResults :
              mem' = Opened(r)
      BY <1>3 DEF InvokeFirst
    <3> QED
      BY <1>3, <1>b, <3>1, OpenedBlocks DEF InvokeFirst, TypeOK
  <2>3. Stage = "new"
    BY <2>1 DEF Stage
  <2>4. Stage' \in {"up", "failed"}
    BY <2>1, <2>2 DEF Stage
  <2> QED
    BY <2>2, <2>3, <2>4 DEF Client!Next, Client!Open
<1>4. CASE PopMsg /\ started
  <2>1. mem["mb"] # "none" /\ mem["pdata"] = "live" /\ mem["npo"] # "freed"
    BY <1>4 DEF PopMsg, SafeInv, BlocksInv
  <2>2. sent = 0
    BY <2>1 DEF SafeInv, BlocksInv
  <2>3. turn' = ~ turn /\ UNCHANGED <<mem, started, sent>>
    BY <1>4 DEF PopMsg
  <2>4. Stage = "up" /\ Stage' = "up"
    BY <1>4, <2>1, <2>2, <2>3 DEF Stage
  <2> QED
    BY <2>3, <2>4 DEF Client!Next, Client!Use
<1>5. CASE PopMsg /\ ~ started
  <2>1. mem'["mb"] = mem["mb"] /\ UNCHANGED <<started, sent, turn>>
    BY <1>5 DEF PopMsg
  <2> QED
    BY <2>1, UnseenStep
<1>6. CASE DropLast
  BY <1>6 DEF DropLast, Kept
<1>7. CASE Destroy /\ mem["npo"] = "none"
  <2>1. mem'["mb"] = mem["mb"]
    BY <1>7, <1>b, ChangedBlocks DEF Destroy, TypeOK
  <2>2. UNCHANGED <<started, sent, turn>>
    BY <1>7 DEF Destroy
  <2> QED
    BY <2>1, <2>2, UnseenStep
<1>8. CASE Destroy /\ mem["npo"] # "none"
  <2>1. {"pdata"} \cup Deallocated \in SUBSET Blocks
    BY DeallocatedBlocks
  <2>2. \A b \in Blocks : mem'[b] = IF b \in {"pdata"} \cup Deallocated
                                      THEN "freed" ELSE mem[b]
    BY <1>8, <2>1, <1>b, ChangedBlocks DEF Destroy, TypeOK
  <2>3. mem'["mb"] = IF mem["mb"] = "none" THEN "none" ELSE "freed"
    BY <2>2, DeallocatedBlocks
  <2>4. Release /\ UNCHANGED started /\ sent \in Nat
    BY <1>8, <1>b DEF Destroy, TypeOK
  <2>5. CASE Releases
    <3>1. mem["mb"] # "none" /\ started
      BY <1>8, <2>5 DEF Releases, SafeInv, Destroy, Idle
    <3>2. sent = 0
      BY <1>8 DEF Destroy, SafeInv, BlocksInv
    <3>3. sent' = 1 /\ turn' = ~ turn
      BY <2>4, <2>5, <3>2 DEF Release
    <3>4. Stage = "up" /\ Stage' = "closed"
      BY <2>3, <3>1, <3>2, <3>3 DEF Stage
    <3> QED
      BY <3>3, <3>4 DEF Client!Next, Client!Close
  <2>6. CASE ~ Releases
    <3>1. UNCHANGED <<started, sent, turn>>
      BY <2>4, <2>6 DEF Release
    <3>2. Stage' = Stage
      BY <2>3, <3>1 DEF Stage
    <3> QED
      BY <3>1, <3>2
  <2> QED
    BY <2>5, <2>6
<1>9. CASE Clean
  <2>1. mem'["mb"] = mem["mb"]
    BY <1>9, <1>b, ChangedBlocks DEF Clean, TypeOK
  <2>2. UNCHANGED <<started, sent, turn>>
    BY <1>9 DEF Clean
  <2> QED
    BY <2>1, <2>2, UnseenStep
<1> QED
  BY <1>1, <1>2, <1>3, <1>4, <1>5, <1>6, <1>7, <1>8, <1>9 DEF Next, Host, Page, Worker

\* With such a host and such a process the plugin is the client that browser.cc asks
\* for: it uses the queues while its channel is up, and never after exit & clean.
THEOREM PluginKeepsItsPromise ==
    ASSUME Kept, Faults \subseteq {"cc", "thread"}
    PROVE  Spec => ClientSpec
<1>1. Init => Client!Init
  BY BlockNames DEF Init, Client!Init, Stage
<1>2. SafeInv /\ [Next]_vars => [Client!Next]_<<Stage, turn>>
  BY ClientStep
<1> QED
  BY <1>1, <1>2, SafeAlways, PTL DEF Spec, ClientSpec, Client!Spec
=============================================================================
