------------------------- MODULE AccelerationsProofs -------------------------
(***************************************************************************)
(* Proofs about ForceLoops, for any number of tasks and particles, any     *)
(* buffers of more than NTask particles, any pairing of the tasks, and     *)
(* whatever the loops are called with; then about ParticleMesh, for any    *)
(* mesh, any cut of it into ranges and any places of the particles.        *)
(*                                                                         *)
(* The argument for a loop is that of DensityExportProofs; what is added   *)
(* is (1) that results lie where requests lay, and a request is only       *)
(* overwritten when it was sent; (2) that the marks in Ti_endstep and the  *)
(* numbers of particles counted elsewhere name the particles that the loop *)
(* is for; (3) that every particle has an acceleration when the relative   *)
(* criterion asks for it; (4) what one loop leaves to the next.            *)
(*                                                                         *)
(* For the mesh the invariant is MeshIInv: after some levels the slabs of  *)
(* a task have the parts of the particles of all tasks it has met, and its *)
(* patch the potential of all slabs that those tasks hold.                 *)
(***************************************************************************)
EXTENDS FiniteSetsExt, BagsExt, SequencesExt, ForceLoops, ParticleMesh, FiniteSetTheorems, TLAPS

WF == INSTANCE WellFoundedInduction

Filling == {"fill", "counts"}

Meeting == {"send", "barrier", "return", "round"}

CallLists ==
  {<<"potential">>, <<"gravity", "gravity", "direct", "hydro">>, <<"gravity", "direct", "hydro">>,
   <<"direct", "hydro">>, <<"hydro">>}

Typed ==
  /\ case \in Situations /\ calls \in CallLists
  /\ lpc \in [Task -> LoopPlace]
  /\ start \in [Task -> Nat]
  /\ IndexTable \in [Task -> [Task -> Seq(Nat)]]
  /\ exported \in [Task -> Nat]
  /\ llevel \in [Task -> 1 .. Groups] /\ lngrp \in [Task -> 1 .. Groups]
  /\ lnbuffer \in [Task -> [Task -> Nat]]
  /\ DOMAIN DataGet = Task

(* Before the last particle there was room for NTask copies.               *)
ListsFit ==
  \A t \in Task : /\ exported[t] < BunchSize
                  /\ \A u \in Task : Nsend(t, u) <= exported[t]
                  /\ lpc[t] \notin Filling \cup Meeting => exported[t] = 0

Counted ==
  \A t \in Task :
    /\ DOMAIN DataGet[t] \subseteq 1 .. BunchSize
    /\ lpc[t] = "send" => 1 .. lnbuffer[t][t] \subseteq DOMAIN DataGet[t]

LevelBegins ==
  \A t \in Task :
    /\ llevel[t] <= lngrp[t]
    /\ lpc[t] \in {"send", "return"} /\ lngrp[t] = llevel[t] => lnbuffer[t] = EveryTask(0)

IInv == Typed /\ ListsFit /\ Counted /\ LevelBegins

LEMMA Constants ==
  /\ NTask \in Nat \ {0} /\ Groups \in Nat \ {0}
  /\ BunchSizeForce \in Nat /\ BunchSizeForce > NTask
  /\ BunchSizeHydro \in Nat /\ BunchSizeHydro > NTask
  /\ \A t \in Task : NumPart[t] \in Nat /\ NumGas[t] \in Nat /\ NumGas[t] <= NumPart[t]
  /\ \A t \in Task : OnTask(t) \subseteq Nat
  /\ 0 \in Task
  <1>1. \A t \in Task : NumPart[t] \in Nat /\ NumGas[t] \in Nat /\ NumGas[t] <= NumPart[t]
    BY LoopSizesAssumption
  <1> QED BY <1>1, LoopSizesAssumption, XorAssumption DEF OnTask, Task

LEMMA Bunches == BunchSize \in Nat /\ BunchSize > NTask
  BY Constants DEF BunchSize

LEMMA InLoop ==
  ASSUME Typed
  PROVE  /\ Loop \in {"gravity", "potential", "direct", "hydro"}
         /\ \A t \in Task : EndOfLoop(t) \in Nat /\ EndOfLoop(t) <= NumPart[t]
         /\ \A t \in Task : \A i \in OnTask(t) : Exportflag(t, i) \subseteq Task \ {t}
  <1>1. Loop \in {"gravity", "potential", "direct", "hydro"}
    BY DEF Typed, CallLists, Loop
  <1>2. \A t \in Task : EndOfLoop(t) \in Nat /\ EndOfLoop(t) <= NumPart[t]
    BY Constants DEF EndOfLoop
  <1>3. \A t \in Task : \A i \in OnTask(t) : case.walk[t][i] \subseteq Task \ {t}
    BY SituationsAssumption DEF Typed
  <1> QED BY <1>1, <1>2, <1>3 DEF Exportflag

(* What does not change while a loop runs.                                 *)
LEMMA SameLoop ==
  ASSUME UNCHANGED called
  PROVE  /\ Loop' = Loop /\ (OfGravity' <=> OfGravity) /\ Now' = Now /\ BunchSize' = BunchSize
         /\ \A t : EndOfLoop(t)' = EndOfLoop(t)
         /\ \A t, i : Exportflag(t, i)' = Exportflag(t, i)
         /\ \A t, i : Due(t, i)' = Due(t, i)
  <1>1. case' = case /\ calls' = calls
    BY DEF called
  <1> QED BY <1>1 DEF Loop, OfGravity, Now, BunchSize, EndOfLoop, Exportflag, Due

(* A particle goes to fewer tasks than there are.                          *)
LEMMA FewCopies ==
  ASSUME Typed, NEW t \in Task, NEW i \in OnTask(t), NEW S, S = Exportflag(t, i)
  PROVE  /\ Cardinality(S) \in Nat /\ Cardinality(S) < NTask
         /\ \A u \in S : Cardinality(S) >= 1
  <1>1. S \subseteq Task \ {t}
    BY InLoop
  <1>2. IsFiniteSet(Task) /\ Cardinality(Task) = NTask
    <2>1. 0 \in Int /\ NTask - 1 \in Int /\ 0 <= NTask - 1
      BY Constants
    <2>2. IsFiniteSet(0 .. NTask - 1) /\ Cardinality(0 .. NTask - 1) = (NTask - 1) - 0 + 1
      BY <2>1, FS_Interval
    <2> QED BY <2>2, Constants DEF Task
  <1>3. IsFiniteSet(Task \ {t}) /\ Cardinality(Task \ {t}) = NTask - 1
    BY <1>2, FS_RemoveElement
  <1>4. IsFiniteSet(S) /\ Cardinality(S) <= NTask - 1
    BY <1>1, <1>3, FS_Subset
  <1>5. Cardinality(S) \in Nat
    BY <1>4, FS_CardinalityType
  <1>6. S # {} => Cardinality(S) # 0
    BY <1>4, FS_EmptySet
  <1> QED BY <1>4, <1>5, <1>6, Constants

LEMMA InitIInv == LoopsInit => IInv
  <1> SUFFICES ASSUME LoopsInit PROVE IInv
    OBVIOUS
  <1>1. Typed
    <2>1. <<>> \in Seq(Nat)
      OBVIOUS
    <2>2. calls \in CallLists
      BY DEF LoopsInit, Accelerations, CallLists
    <2>3. lpc \in [Task -> LoopPlace] /\ IndexTable \in [Task -> [Task -> Seq(Nat)]]
      BY <2>1 DEF LoopsInit, EveryTask, LoopPlace, NoLists
    <2> QED BY <2>2, <2>3, Constants DEF LoopsInit, Typed, EveryTask
  <1>2. \A t, u \in Task : Nsend(t, u) = 0 /\ exported[t] = 0
    BY DEF LoopsInit, Nsend, NoLists, EveryTask
  <1>3. ListsFit
    BY <1>2, Bunches, Constants DEF ListsFit
  <1>4. Counted
    <2>1. \A t \in Task : DOMAIN DataGet[t] = {} /\ lpc[t] = "begin"
      BY DEF LoopsInit, EveryTask
    <2> QED BY <2>1 DEF Counted
  <1>5. LevelBegins
    BY DEF LoopsInit, LevelBegins, EveryTask
  <1> QED BY <1>1, <1>3, <1>4, <1>5 DEF IInv
-------------------------------------------------------------------------------
(* The steps of the four functions, by stages.                             *)
Begins == GravityBegins \/ PotentialBegins \/ DirectBegins \/ HydroBegins

Ends == GravityEnds \/ LoopEnds \/ DirectPrints

LEMMA LoopsSteps ==
  ASSUME [LoopsNext]_loop_vars
  PROVE  \/ Begins \/ GatherNsend \/ AfterImported \/ RoundOver \/ Ends \/ NextCall
         \/ \E t \in Task : FillList(t) \/ ListEnds(t) \/ EvaluateImported(t) \/ PassGroup(t) \/ LevelDone(t)
         \/ \E t \in Task : \E u \in Task : Exchange(t, u) \/ GiveBack(t, u)
         \/ UNCHANGED loop_vars
  BY DEF LoopsNext, Begins, Ends, GravityFill, PotentialFill, DirectFill, HydroFill, GravityEvaluate,
         PotentialEvaluate, DirectEvaluate, HydroEvaluate, GravitySend, PotentialSend, DirectSend, HydroSend,
         GravityReturn, PotentialReturn, DirectReturn, HydroReturn

LEMMA BeginsSteps ==
  ASSUME Begins
  PROVE  /\ \A t \in Task : lpc[t] = "begin"
         /\ lpc' \in {EveryTask("fill"), EveryTask("finish")}
         /\ start' = EveryTask(0) /\ parts' = NoParts
         /\ UNCHANGED <<called, IndexTable, exported, numdone, buffered, pairing, criterion, forcetest>>
  <1>1. PICK count : Begin(count)
    BY DEF Begins, GravityBegins, PotentialBegins, DirectBegins, HydroBegins
  <1> QED BY <1>1 DEF Begin, LoopAt

LEMMA EndsSteps ==
  ASSUME Ends
  PROVE  /\ \A t \in Task : lpc[t] = "finish"
         /\ lpc' = EveryTask("returned")
         /\ UNCHANGED <<called, NumForceUpdate, listed, buffered, numleft, pairing, parts>>
  BY DEF Ends, GravityEnds, LoopEnds, DirectPrints, LoopAt, marks
-------------------------------------------------------------------------------
(* Steps that leave lists, buffers and groups of pairs alone.              *)
LEMMA ElsewhereIInv ==
  ASSUME IInv, lpc' \in [Task -> LoopPlace],
         \A t \in Task : lpc'[t] = lpc[t] \/ /\ lpc'[t] \notin {"send", "return"}
                                             /\ lpc[t] \in Filling \cup Meeting => lpc'[t] \in Filling \cup Meeting,
         start' \in [Task -> Nat], UNCHANGED <<called, IndexTable, exported, DataGet, pairing>>
  PROVE  IInv'
  <1>1. case' = case /\ calls' = calls /\ UNCHANGED <<llevel, lngrp, lnbuffer>> /\ BunchSize' = BunchSize
    BY SameLoop DEF called, pairing
  <1>2. Typed'
    BY <1>1 DEF IInv, Typed
  <1>3. ListsFit'
    <2>1. \A t, u : Nsend(t, u)' = Nsend(t, u)
      BY DEF Nsend
    <2>2. \A t \in Task : lpc'[t] \notin Filling \cup Meeting => exported[t] = 0
      BY DEF IInv, ListsFit
    <2> QED BY <1>1, <2>1, <2>2 DEF IInv, ListsFit
  <1>4. Counted'
    BY <1>1 DEF IInv, Counted
  <1>5. LevelBegins'
    BY <1>1 DEF IInv, LevelBegins, EveryTask
  <1> QED BY <1>2, <1>3, <1>4, <1>5 DEF IInv

LEMMA BeginsIInv == ASSUME IInv, Begins PROVE IInv'
  <1>1. lpc' \in [Task -> {"fill", "finish"}] /\ start' \in [Task -> Nat]
    BY BeginsSteps DEF EveryTask
  <1>2. \A t \in Task : lpc[t] = "begin"
    BY BeginsSteps
  <1>3. lpc' \in [Task -> LoopPlace]
    BY <1>1 DEF LoopPlace
  <1> QED BY <1>1, <1>2, <1>3, BeginsSteps, ElsewhereIInv DEF buffered, Filling, Meeting

LEMMA EndsIInv == ASSUME IInv, Ends PROVE IInv'
  <1>1. lpc' \in [Task -> {"returned"}] /\ start' \in [Task -> Nat]
    BY EndsSteps DEF EveryTask, listed, IInv, Typed
  <1>2. \A t \in Task : lpc[t] = "finish"
    BY EndsSteps
  <1>3. lpc' \in [Task -> LoopPlace]
    BY <1>1 DEF LoopPlace
  <1> QED BY <1>1, <1>2, <1>3, EndsSteps, ElsewhereIInv DEF buffered, listed, Filling, Meeting

LEMMA ListEndsIInv == ASSUME IInv, NEW t \in Task, ListEnds(t) PROVE IInv'
  <1>1. /\ lpc' \in [Task -> LoopPlace] /\ start' \in [Task -> Nat]
        /\ lpc'[t] = "counts" /\ \A a \in Task \ {t} : lpc'[a] = lpc[a]
    BY DEF ListEnds, Towards, LoopPlace, listed, IInv, Typed
  <1>2. UNCHANGED <<called, IndexTable, exported, DataGet, pairing>>
    BY DEF ListEnds, listed
  <1> QED BY <1>1, <1>2, ElsewhereIInv DEF Filling, Meeting

LEMMA FillListIInv ==
  ASSUME IInv, NEW t \in Task, FillList(t)
  PROVE  IInv'
  <1>1. /\ lpc' = lpc /\ llevel' = llevel /\ lngrp' = lngrp /\ lnbuffer' = lnbuffer
        /\ case' = case /\ calls' = calls /\ DataGet' = DataGet
        /\ start' = [start EXCEPT ![t] = @ + 1]
        /\ BunchSize' = BunchSize
    BY SameLoop DEF FillList, called, buffered, pairing
  <1>2. Counted' /\ LevelBegins'
    BY <1>1 DEF IInv, Counted, LevelBegins, EveryTask
  <1>3. CASE ~Wanted(t, start[t])
    <2>1. IndexTable' = IndexTable /\ exported' = exported
      BY <1>3 DEF FillList
    <2>2. Typed'
      BY <1>1, <2>1 DEF IInv, Typed
    <2>3. ListsFit'
      BY <1>1, <2>1 DEF IInv, ListsFit, Nsend
    <2> QED BY <1>2, <2>2, <2>3 DEF IInv
  <1>4. CASE Wanted(t, start[t])
    <2>1. PICK i : i = start[t]
      OBVIOUS
    <2>2. i \in OnTask(t) /\ i \in Nat
      <3>1. i \in Nat /\ i < EndOfLoop(t)
        BY <2>1 DEF FillList, IInv, Typed
      <3>2. EndOfLoop(t) \in Nat /\ EndOfLoop(t) <= NumPart[t] /\ NumPart[t] \in Nat
        BY InLoop, Constants DEF IInv
      <3> QED BY <3>1, <3>2 DEF OnTask
    <2>3. PICK S : S = Exportflag(t, i)
      OBVIOUS
    <2>4. /\ IndexTable' = [IndexTable EXCEPT ![t] =
                  [u \in Task |-> IF u \in S THEN Append(@[u], i) ELSE @[u]]]
          /\ exported' = [exported EXCEPT ![t] = @ + Cardinality(S)]
      BY <1>4, <2>1, <2>3 DEF FillList, Export
    <2>5. /\ Cardinality(S) \in Nat /\ Cardinality(S) < NTask
          /\ \A u \in S : Cardinality(S) >= 1
      BY <2>2, <2>3, FewCopies DEF IInv
    <2>6. /\ \A a, u \in Task : IndexTable'[a][u] =
                IF a = t /\ u \in S THEN Append(IndexTable[t][u], i) ELSE IndexTable[a][u]
          /\ \A a \in Task : exported'[a] =
                IF a = t THEN exported[t] + Cardinality(S) ELSE exported[a]
      BY <2>4 DEF IInv, Typed
    <2>7. \A u \in Task : Append(IndexTable[t][u], i) \in Seq(Nat)
                          /\ Len(Append(IndexTable[t][u], i)) = Nsend(t, u) + 1
                          /\ Nsend(t, u) \in Nat
      BY <2>2 DEF IInv, Typed, Nsend
    <2>8. IndexTable' \in [Task -> [Task -> Seq(Nat)]]
      <3>1. [u \in Task |-> IF u \in S THEN Append(IndexTable[t][u], i) ELSE IndexTable[t][u]]
               \in [Task -> Seq(Nat)]
        BY <2>7 DEF IInv, Typed
      <3> QED BY <2>4, <3>1 DEF IInv, Typed
    <2>9. Typed'
      <3>1. exported' \in [Task -> Nat]
        BY <2>4, <2>5 DEF IInv, Typed
      <3>2. start' \in [Task -> Nat]
        BY <1>1 DEF IInv, Typed
      <3> QED BY <1>1, <2>8, <3>1, <3>2 DEF IInv, Typed
    <2>10. ListsFit'
      <3>1. \A a \in Task : exported'[a] < BunchSize
        <4>1. exported[t] < BunchSize - NTask /\ exported[t] \in Nat
          BY DEF FillList, ListHasRoom, IInv, Typed
        <4>2. exported[t] + Cardinality(S) < BunchSize
          BY <2>5, <4>1, Constants, Bunches
        <4> QED BY <2>6, <4>2 DEF IInv, ListsFit
      <3>2. \A a, u \in Task : Nsend(a, u)' <= exported'[a]
        <4> SUFFICES ASSUME NEW a \in Task, NEW u \in Task PROVE Nsend(a, u)' <= exported'[a]
          OBVIOUS
        <4>1. Nsend(a, u) <= exported[a] /\ exported[a] \in Nat /\ Nsend(t, u) \in Nat
          BY <2>7 DEF IInv, ListsFit, Typed
        <4>2. CASE a = t /\ u \in S
          <5>1. Nsend(a, u)' = Nsend(t, u) + 1
            BY <2>6, <2>7, <4>2 DEF Nsend
          <5> QED BY <2>5, <2>6, <4>1, <4>2, <5>1
        <4>3. CASE ~(a = t /\ u \in S)
          <5>1. Nsend(a, u)' = Nsend(a, u)
            BY <2>6, <4>3 DEF Nsend
          <5>2. exported'[a] >= exported[a]
            BY <2>5, <2>6, <4>1
          <5>3. Nsend(a, u) \in Nat
            BY DEF Nsend, IInv, Typed
          <5>4. exported'[a] \in Nat
            BY <2>9 DEF Typed
          <5> QED BY <4>1, <5>1, <5>2, <5>3, <5>4
        <4> QED BY <4>2, <4>3
      <3>3. \A a \in Task : lpc'[a] \notin Filling \cup Meeting => exported'[a] = 0
        <4>1. lpc[t] \in Filling
          BY DEF FillList, Filling
        <4> QED BY <1>1, <2>6, <4>1 DEF IInv, ListsFit
      <3> QED BY <1>1, <3>1, <3>2, <3>3 DEF ListsFit
    <2> QED BY <1>2, <2>9, <2>10 DEF IInv
  <1> QED BY <1>3, <1>4

LEMMA GatherNsendIInv == ASSUME IInv, GatherNsend PROVE IInv'
  <1>1. /\ \A t \in Task : lpc[t] = "counts"
        /\ lpc' \in [Task -> {"send", "round"}]
        /\ case' = case /\ calls' = calls /\ BunchSize' = BunchSize
        /\ UNCHANGED <<start, IndexTable, exported, DataGet>>
        /\ llevel' = EveryTask(1) /\ lngrp' = EveryTask(1) /\ lnbuffer' = EveryTask(EveryTask(0))
    BY SameLoop DEF GatherNsend, LoopAt, EveryTask, called, listed, buffered
  <1>2. Typed'
    <2>1. 1 \in 1 .. Groups
      BY Constants
    <2>2. lpc' \in [Task -> LoopPlace]
      BY <1>1 DEF LoopPlace
    <2> QED BY <1>1, <2>1, <2>2 DEF IInv, Typed, EveryTask
  <1>3. ListsFit'
    <2>1. \A t \in Task : lpc'[t] \in Filling \cup Meeting
      BY <1>1 DEF Meeting
    <2> QED BY <1>1, <2>1 DEF IInv, ListsFit, Nsend
  <1>4. Counted'
    <2>1. \A t \in Task : 1 .. lnbuffer'[t][t] = {}
      BY <1>1 DEF EveryTask
    <2> QED BY <1>1, <2>1 DEF IInv, Counted
  <1>5. LevelBegins'
    BY <1>1 DEF LevelBegins, EveryTask
  <1> QED BY <1>2, <1>3, <1>4, <1>5 DEF IInv

LEMMA AfterImportedIInv == ASSUME IInv, AfterImported PROVE IInv'
  <1>1. /\ \A t \in Task : lpc[t] = "barrier"
        /\ lpc' \in [Task -> {"return"}]
        /\ case' = case /\ calls' = calls /\ BunchSize' = BunchSize
        /\ UNCHANGED <<start, IndexTable, exported, DataGet, llevel>>
        /\ lngrp' = llevel /\ lnbuffer' = EveryTask(EveryTask(0))
    BY SameLoop DEF AfterImported, LoopAt, EveryTask, called, listed, buffered
  <1>2. Typed'
    <2>1. lpc' \in [Task -> LoopPlace]
      BY <1>1 DEF LoopPlace
    <2> QED BY <1>1, <2>1 DEF IInv, Typed, EveryTask
  <1>3. ListsFit'
    <2>1. \A t \in Task : lpc'[t] \in Filling \cup Meeting
      BY <1>1 DEF Meeting
    <2> QED BY <1>1, <2>1 DEF IInv, ListsFit, Nsend
  <1>4. Counted'
    BY <1>1 DEF IInv, Counted
  <1>5. LevelBegins'
    <2>1. llevel \in [Task -> Int]
      BY Constants DEF IInv, Typed
    <2> QED BY <1>1, <2>1 DEF LevelBegins, EveryTask
  <1> QED BY <1>2, <1>3, <1>4, <1>5 DEF IInv

(* New lists are empty, in the present loop or in another one.             *)
LEMMA EmptyIInv ==
  ASSUME IInv, case' = case, calls' \in CallLists, start' \in [Task -> Nat],
         lpc' \in [Task -> LoopPlace \ {"send", "return"}],
         \A t, u \in Task : IndexTable'[t][u] = <<>> /\ exported'[t] = 0,
         IndexTable' \in [Task -> [Task -> Seq(Nat)]], exported' \in [Task -> Nat],
         DataGet' = EveryTask(<<>>) \/ (DataGet' = DataGet /\ BunchSize' = BunchSize),
         UNCHANGED <<llevel, lngrp, lnbuffer>>
  PROVE  IInv'
  <1>1. \A t \in Task : lpc'[t] \notin {"send", "return"}
    OBVIOUS
  <1>2. lpc' \in [Task -> LoopPlace]
    OBVIOUS
  <1>3. Typed'
    <2>1. DOMAIN DataGet' = Task
      BY DEF EveryTask, IInv, Typed
    <2> QED BY <1>2, <2>1 DEF IInv, Typed
  <1>4. BunchSize' \in Nat /\ BunchSize' > 0
    <2>1. BunchSize' \in {BunchSizeForce, BunchSizeHydro}
      BY DEF BunchSize
    <2> QED BY <2>1, Constants
  <1>5. ListsFit'
    <2>1. \A t, u \in Task : Nsend(t, u)' = 0
      BY DEF Nsend
    <2> QED BY <1>4, <2>1 DEF ListsFit
  <1>6. Counted'
    <2>1. CASE DataGet' = EveryTask(<<>>)
      <3>1. \A t \in Task : DOMAIN DataGet'[t] = {}
        BY <2>1 DEF EveryTask
      <3> QED BY <1>1, <3>1 DEF Counted
    <2>2. CASE DataGet' = DataGet /\ BunchSize' = BunchSize
      BY <1>1, <2>2 DEF IInv, Counted
    <2> QED BY <2>1, <2>2
  <1>7. LevelBegins'
    BY <1>1 DEF IInv, LevelBegins
  <1> QED BY <1>3, <1>5, <1>6, <1>7 DEF IInv

LEMMA RoundOverIInv == ASSUME IInv, RoundOver PROVE IInv'
  <1>1. /\ case' = case /\ calls' = calls /\ BunchSize' = BunchSize /\ DataGet' = DataGet
        /\ UNCHANGED <<start, llevel, lngrp, lnbuffer>>
        /\ IndexTable' = NoLists /\ exported' = EveryTask(0)
    BY SameLoop DEF RoundOver, called, buffered, pairing
  <1>2. lpc' \in [Task -> {"fill", "finish"}]
    BY DEF RoundOver, EveryTask
  <1>3. lpc' \in [Task -> LoopPlace \ {"send", "return"}]
    BY <1>2 DEF LoopPlace
  <1>4. <<>> \in Seq(Nat)
    OBVIOUS
  <1>5. /\ \A t, u \in Task : IndexTable'[t][u] = <<>> /\ exported'[t] = 0
        /\ IndexTable' \in [Task -> [Task -> Seq(Nat)]] /\ exported' \in [Task -> Nat]
    BY <1>1, <1>4 DEF NoLists, EveryTask
  <1>6. calls' \in CallLists /\ start' \in [Task -> Nat]
    BY <1>1 DEF IInv, Typed
  <1> QED BY <1>1, <1>3, <1>5, <1>6, EmptyIInv

(* What follows a loop.                                                    *)
LEMMA NextCalls ==
  ASSUME Typed, NextCall
  PROVE  /\ case' = case /\ calls' \in CallLists
         /\ Loop' = "gravity" => Loop = "gravity"
         /\ Loop' = "potential" => Loop = "potential"
  <1>1. case' = case /\ calls' = IF Len(calls) > 1 THEN Tail(calls) ELSE calls
    BY DEF NextCall
  <1>2. CASE calls = <<"potential">>
    <2>1. calls' = calls
      BY <1>1, <1>2
    <2> QED BY <1>1, <2>1 DEF Loop, Typed
  <1>3. CASE calls = <<"gravity", "gravity", "direct", "hydro">>
    <2>1. calls' = <<"gravity", "direct", "hydro">>
      BY <1>1, <1>3
    <2> QED BY <1>1, <1>3, <2>1 DEF Loop, CallLists
  <1>4. CASE calls = <<"gravity", "direct", "hydro">>
    <2>1. calls' = <<"direct", "hydro">>
      BY <1>1, <1>4
    <2> QED BY <1>1, <1>4, <2>1 DEF Loop, CallLists
  <1>5. CASE calls = <<"direct", "hydro">>
    <2>1. calls' = <<"hydro">>
      BY <1>1, <1>5
    <2> QED BY <1>1, <1>5, <2>1 DEF Loop, CallLists
  <1>6. CASE calls = <<"hydro">>
    <2>1. calls' = calls
      BY <1>1, <1>6
    <2> QED BY <1>1, <2>1 DEF Loop, Typed
  <1> QED BY <1>2, <1>3, <1>4, <1>5, <1>6 DEF Typed, CallLists

LEMMA NextCallIInv == ASSUME IInv, NextCall PROVE IInv'
  <1>1. case' = case /\ calls' \in CallLists
    BY NextCalls DEF IInv
  <1>2. /\ UNCHANGED <<start, llevel, lngrp, lnbuffer, IndexTable, exported>>
        /\ DataGet' = EveryTask(<<>>)
        /\ \A t \in Task : lpc[t] = "returned"
    BY DEF NextCall, listed, pairing, LoopAt
  <1>3. lpc' \in [Task -> {"begin", "over"}]
    BY DEF NextCall, EveryTask
  <1>4. lpc' \in [Task -> LoopPlace \ {"send", "return"}]
    BY <1>3 DEF LoopPlace
  <1>5. \A t \in Task : exported[t] = 0 /\ \A u \in Task : IndexTable[t][u] = <<>>
    <2>1. \A t \in Task : exported[t] = 0
      BY <1>2 DEF IInv, ListsFit, Filling, Meeting
    <2> SUFFICES ASSUME NEW t \in Task, NEW u \in Task PROVE IndexTable[t][u] = <<>>
      BY <2>1
    <2>2. PICK d \in Seq(Nat) : d = IndexTable[t][u]
      BY DEF IInv, Typed
    <2>3. Len(d) <= 0
      BY <2>1, <2>2 DEF IInv, ListsFit, Nsend
    <2>4. d = <<>>
      BY <2>3
    <2> QED BY <2>2, <2>4
  <1>6. /\ start' \in [Task -> Nat] /\ IndexTable' \in [Task -> [Task -> Seq(Nat)]]
        /\ exported' \in [Task -> Nat]
    BY <1>2 DEF IInv, Typed
  <1> QED BY <1>1, <1>2, <1>4, <1>5, <1>6, EmptyIInv
-------------------------------------------------------------------------------
LEMMA InflowNat ==
  ASSUME IInv, NEW j \in Task, NEW n \in 1 .. Groups - 1
  PROVE  Inflow(j, n) \in Nat
  <1>1. PairedBy[<<j, n>>] \in Nat
    BY XorAssumption
  <1>2. PairedBy[<<j, n>>] < NTask => PairedBy[<<j, n>>] \in Task
    BY <1>1, Constants DEF Task
  <1> QED BY <1>2 DEF Inflow, Nsend, IInv, Typed

(* The next group of pairs leaves every receive buffer with room.          *)
LEMMA GroupFits ==
  ASSUME IInv, NEW t \in Task, ~LevelBreaks(t)
  PROVE  /\ lngrp[t] \in 1 .. Groups - 1
         /\ \A j \in Task : /\ lnbuffer[t][j] + Inflow(j, lngrp[t]) \in Nat
                            /\ PairedBy[<<j, lngrp[t]>>] < NTask =>
                                 lnbuffer[t][j] + Inflow(j, lngrp[t]) < BunchSize
  <1>1. lngrp[t] \in 1 .. Groups - 1
    BY Constants DEF LevelBreaks, IInv, Typed
  <1>2. \A j \in Task : Inflow(j, lngrp[t]) \in Nat /\ lnbuffer[t][j] \in Nat
    BY <1>1, InflowNat DEF IInv, Typed
  <1>3. \A j \in Task : PairedBy[<<j, lngrp[t]>>] < NTask =>
                         ~(lnbuffer[t][j] + Inflow(j, lngrp[t]) >= BunchSize)
    BY DEF LevelBreaks, Overfull
  <1> QED BY <1>1, <1>2, <1>3, Bunches

(* What counting does to the books of the groups.                          *)
LEMMA NextGroupKeeps ==
  ASSUME IInv, NEW T \in SUBSET Task, NextGroup(T), \A t \in T : ~LevelBreaks(t)
  PROVE  /\ lpc' = lpc /\ llevel' = llevel
         /\ lngrp' \in [Task -> 1 .. Groups] /\ lnbuffer' \in [Task -> [Task -> Nat]]
         /\ \A t \in T : lnbuffer'[t][t] = lnbuffer[t][t] + Inflow(t, lngrp[t])
         /\ \A t \in Task \ T : lnbuffer'[t] = lnbuffer[t]
         /\ LevelBegins'
  <1>1. /\ lpc' = lpc /\ llevel' = llevel
        /\ \A t \in Task : lngrp'[t] = IF t \in T THEN lngrp[t] + 1 ELSE lngrp[t]
        /\ \A t \in Task : lnbuffer'[t] =
             IF t \in T THEN [j \in Task |-> lnbuffer[t][j] + Inflow(j, lngrp[t])] ELSE lnbuffer[t]
    BY DEF NextGroup
  <1>2. \A t \in T : lngrp[t] \in 1 .. Groups - 1
    BY GroupFits
  <1>3. \A t \in T : [j \in Task |-> lnbuffer[t][j] + Inflow(j, lngrp[t])] \in [Task -> Nat]
    BY GroupFits
  <1>4. \A t \in Task : lngrp[t] \in 1 .. Groups /\ llevel[t] \in 1 .. Groups
    BY DEF IInv, Typed
  <1>5. \A t \in Task : lngrp'[t] \in 1 .. Groups
    BY <1>1, <1>2, <1>4, Constants
  <1>6. lngrp' \in [Task -> 1 .. Groups]
    BY <1>5 DEF NextGroup
  <1>7. lnbuffer' \in [Task -> [Task -> Nat]]
    <2>1. \A t \in Task : lnbuffer'[t] \in [Task -> Nat]
      <3>1. \A t \in Task : lnbuffer[t] \in [Task -> Nat]
        BY DEF IInv, Typed
      <3>2. \A t \in T : lnbuffer'[t] \in [Task -> Nat]
        BY <1>1, <1>3
      <3>3. \A t \in Task \ T : lnbuffer'[t] = lnbuffer[t]
        BY <1>1
      <3> QED BY <3>1, <3>2, <3>3
    <2>2. lnbuffer' = [t \in Task |-> lnbuffer'[t]]
      BY DEF NextGroup
    <2> QED BY <2>1, <2>2
  <1>8. LevelBegins'
    <2> SUFFICES ASSUME NEW t \in Task
                 PROVE  /\ llevel'[t] <= lngrp'[t]
                        /\ lpc'[t] \in {"send", "return"} /\ lngrp'[t] = llevel'[t] =>
                             lnbuffer'[t] = EveryTask(0)
      BY DEF LevelBegins, EveryTask
    <2>1. llevel[t] <= lngrp[t]
      BY DEF IInv, LevelBegins
    <2>2. CASE t \in T
      BY <1>1, <1>4, <2>1, <2>2
    <2>3. CASE t \notin T
      BY <1>1, <2>3 DEF IInv, LevelBegins
    <2> QED BY <2>2, <2>3
  <1> QED BY <1>1, <1>6, <1>7, <1>8

(* A step that only moves to the next group, or changes parts.             *)
LEMMA GroupPassedIInv ==
  ASSUME IInv, NEW T \in SUBSET Task, NextGroup(T), \A t \in T : ~LevelBreaks(t),
         UNCHANGED <<called, listed, DataGet>>,
         \A t \in T : lpc[t] = "send" => Inflow(t, lngrp[t]) = 0
  PROVE  IInv'
  <1>1. /\ lpc' = lpc /\ llevel' = llevel
        /\ lngrp' \in [Task -> 1 .. Groups] /\ lnbuffer' \in [Task -> [Task -> Nat]]
        /\ \A t \in T : lnbuffer'[t][t] = lnbuffer[t][t] + Inflow(t, lngrp[t])
        /\ \A t \in Task \ T : lnbuffer'[t] = lnbuffer[t]
        /\ LevelBegins'
    BY NextGroupKeeps
  <1>2. /\ case' = case /\ calls' = calls /\ BunchSize' = BunchSize
        /\ UNCHANGED <<start, IndexTable, exported, DataGet>>
    BY SameLoop DEF called, listed
  <1>3. Typed'
    BY <1>1, <1>2 DEF IInv, Typed
  <1>4. ListsFit'
    BY <1>1, <1>2 DEF IInv, ListsFit, Nsend
  <1>5. Counted'
    <2> SUFFICES ASSUME NEW t \in Task, lpc'[t] = "send"
                 PROVE  1 .. lnbuffer'[t][t] \subseteq DOMAIN DataGet'[t]
      BY <1>2 DEF IInv, Counted
    <2>1. lnbuffer[t][t] \in Nat /\ 1 .. lnbuffer[t][t] \subseteq DOMAIN DataGet[t]
      BY <1>1 DEF IInv, Typed, Counted
    <2>2. lnbuffer'[t][t] = lnbuffer[t][t]
      BY <1>1, <2>1
    <2> QED BY <1>2, <2>1, <2>2
  <1> QED BY <1>1, <1>3, <1>4, <1>5 DEF IInv

LEMMA PassGroupIInv == ASSUME IInv, NEW t \in Task, PassGroup(t) PROVE IInv'
  <1>1. NextGroup({t}) /\ ~LevelBreaks(t) /\ Quiet(t) /\ UNCHANGED <<called, listed, DataGet>>
    BY DEF PassGroup, buffered
  <1>2. Inflow(t, lngrp[t]) = 0
    BY <1>1 DEF Inflow, Quiet, recvTask
  <1> QED BY <1>1, <1>2, GroupPassedIInv

LEMMA GiveBackIInv ==
  ASSUME IInv, NEW t \in Task, NEW u \in Task, GiveBack(t, u)
  PROVE  IInv'
  <1>1. /\ lpc[t] = "return" /\ lpc[u] = "return" /\ UNCHANGED <<called, listed, DataGet>>
        /\ ~LevelBreaks(t) /\ ~LevelBreaks(u) /\ NextGroup({t, u})
    BY DEF GiveBack, Pair
  <1> QED BY <1>1, GroupPassedIInv

(* What one of two tasks receives in a meeting.                            *)
LEMMA ArrivalsFit ==
  ASSUME IInv, NEW t \in Task, NEW u \in Task, ~LevelBreaks(t), recvTask(t) = u
  PROVE  /\ Inflow(t, lngrp[t]) = Nsend(u, t)
         /\ DOMAIN Arrivals(t, u) \subseteq 1 .. BunchSize
         /\ 1 .. lnbuffer[t][t] + Nsend(u, t) \subseteq DOMAIN Arrivals(t, u)
  <1>1. u < NTask
    BY Constants DEF Task
  <1>2. Inflow(t, lngrp[t]) = Nsend(u, t)
    BY <1>1 DEF Inflow, recvTask
  <1>3. PICK n : n = lnbuffer[t][t] + Nsend(u, t)
    OBVIOUS
  <1>4. n \in Nat /\ n < BunchSize
    BY <1>1, <1>2, <1>3, GroupFits DEF recvTask
  <1>5. DOMAIN Arrivals(t, u) = DOMAIN DataGet[t] \cup 1 .. n
    BY <1>3 DEF Arrivals
  <1>6. 1 .. n \subseteq 1 .. BunchSize
    BY <1>4, Bunches
  <1> QED BY <1>2, <1>3, <1>5, <1>6 DEF IInv, Counted

LEMMA ExchangeIInv ==
  ASSUME IInv, NEW t \in Task, NEW u \in Task, Exchange(t, u)
  PROVE  IInv'
  <1>1. /\ t # u /\ lpc[t] = "send" /\ lpc[u] = "send"
        /\ ~LevelBreaks(t) /\ ~LevelBreaks(u) /\ recvTask(t) = u /\ recvTask(u) = t
        /\ NextGroup({t, u})
        /\ DataGet' = [DataGet EXCEPT ![t] = Arrivals(t, u), ![u] = Arrivals(u, t)]
        /\ UNCHANGED <<called, listed>>
    BY DEF Exchange, Pair, Task
  <1>2. /\ lpc' = lpc /\ llevel' = llevel
        /\ lngrp' \in [Task -> 1 .. Groups] /\ lnbuffer' \in [Task -> [Task -> Nat]]
        /\ lnbuffer'[t][t] = lnbuffer[t][t] + Inflow(t, lngrp[t])
        /\ lnbuffer'[u][u] = lnbuffer[u][u] + Inflow(u, lngrp[u])
        /\ \A a \in Task \ {t, u} : lnbuffer'[a] = lnbuffer[a]
        /\ LevelBegins'
    BY <1>1, NextGroupKeeps
  <1>3. /\ Inflow(t, lngrp[t]) = Nsend(u, t) /\ Inflow(u, lngrp[u]) = Nsend(t, u)
        /\ DOMAIN Arrivals(t, u) \subseteq 1 .. BunchSize
        /\ DOMAIN Arrivals(u, t) \subseteq 1 .. BunchSize
        /\ 1 .. lnbuffer[t][t] + Nsend(u, t) \subseteq DOMAIN Arrivals(t, u)
        /\ 1 .. lnbuffer[u][u] + Nsend(t, u) \subseteq DOMAIN Arrivals(u, t)
    BY <1>1, ArrivalsFit
  <1>4. /\ DOMAIN DataGet' = Task
        /\ DataGet'[t] = Arrivals(t, u) /\ DataGet'[u] = Arrivals(u, t)
        /\ \A a \in Task \ {t, u} : DataGet'[a] = DataGet[a]
    BY <1>1 DEF IInv, Typed
  <1>5. case' = case /\ calls' = calls /\ BunchSize' = BunchSize /\ UNCHANGED <<start, IndexTable, exported>>
    BY <1>1, SameLoop DEF called, listed
  <1>6. Typed'
    BY <1>2, <1>4, <1>5 DEF IInv, Typed
  <1>7. ListsFit'
    BY <1>2, <1>5 DEF IInv, ListsFit, Nsend
  <1>8. Counted'
    <2> SUFFICES ASSUME NEW a \in Task
                 PROVE  /\ DOMAIN DataGet'[a] \subseteq 1 .. BunchSize
                        /\ lpc'[a] = "send" => 1 .. lnbuffer'[a][a] \subseteq DOMAIN DataGet'[a]
      BY <1>5 DEF Counted
    <2>1. CASE a = t
      BY <1>2, <1>3, <1>4, <2>1
    <2>2. CASE a = u
      BY <1>2, <1>3, <1>4, <2>2
    <2>3. CASE a \notin {t, u}
      BY <1>2, <1>4, <2>3 DEF IInv, Counted
    <2> QED BY <2>1, <2>2, <2>3
  <1> QED BY <1>2, <1>6, <1>7, <1>8 DEF IInv

(* The two ways on from the evaluation of what was received.               *)
LEMMA EvaluateSteps ==
  ASSUME IInv, NEW t \in Task, EvaluateImported(t)
  PROVE  /\ lpc[t] = "send" /\ LevelBreaks(t)
         /\ \A a \in Task \ {t} : /\ lpc'[a] = lpc[a] /\ lngrp'[a] = lngrp[a] /\ lnbuffer'[a] = lnbuffer[a]
                                  /\ DataGet'[a] = DataGet[a]
         /\ DataGet'[t] = Evaluated(t) /\ DOMAIN DataGet' = Task
         /\ UNCHANGED <<called, listed, DataIn, numleft, parts, llevel, marks, criterion, forcetest>>
         /\ lngrp' \in [Task -> 1 .. Groups] /\ lnbuffer' \in [Task -> [Task -> Nat]]
         /\ \/ lpc'[t] = "barrier" /\ lngrp'[t] = lngrp[t] /\ lnbuffer'[t] = lnbuffer[t]
            \/ lpc'[t] = "return" /\ lngrp'[t] = llevel[t] /\ lnbuffer'[t] = EveryTask(0)
         /\ lpc' \in [Task -> LoopPlace]
  <1>1. /\ lpc[t] = "send" /\ LevelBreaks(t)
        /\ DataGet' = [DataGet EXCEPT ![t] = Evaluated(t)]
        /\ UNCHANGED <<called, listed, DataIn, numleft, parts, marks, criterion, forcetest>>
    BY DEF EvaluateImported
  <1>2. /\ DataGet'[t] = Evaluated(t) /\ DOMAIN DataGet' = Task
        /\ \A a \in Task \ {t} : DataGet'[a] = DataGet[a]
    BY <1>1 DEF IInv, Typed
  <1>3. /\ lpc \in [Task -> LoopPlace] /\ lngrp \in [Task -> 1 .. Groups]
        /\ lnbuffer \in [Task -> [Task -> Nat]] /\ llevel[t] \in 1 .. Groups
        /\ EveryTask(0) \in [Task -> Nat]
    BY DEF IInv, Typed, EveryTask
  <1>4. CASE Loop \in {"gravity", "hydro"}
    <2>1. Towards(t, "barrier") /\ UNCHANGED pairing
      BY <1>4 DEF EvaluateImported
    <2>2. /\ lpc' \in [Task -> LoopPlace] /\ lpc'[t] = "barrier"
          /\ \A a \in Task \ {t} : lpc'[a] = lpc[a]
      BY <1>3, <2>1 DEF Towards, LoopPlace
    <2> QED BY <1>1, <1>2, <1>3, <2>1, <2>2 DEF pairing
  <1>5. CASE Loop \notin {"gravity", "hydro"}
    <2>1. /\ Towards(t, "return")
          /\ lngrp' = [lngrp EXCEPT ![t] = llevel[t]]
          /\ lnbuffer' = [lnbuffer EXCEPT ![t] = EveryTask(0)]
          /\ UNCHANGED llevel
      BY <1>5 DEF EvaluateImported
    <2>2. /\ lpc' \in [Task -> LoopPlace] /\ lpc'[t] = "return"
          /\ \A a \in Task \ {t} : lpc'[a] = lpc[a]
      BY <1>3, <2>1 DEF Towards, LoopPlace
    <2> QED BY <1>1, <1>2, <1>3, <2>1, <2>2
  <1> QED BY <1>4, <1>5

LEMMA EvaluateImportedIInv ==
  ASSUME IInv, NEW t \in Task, EvaluateImported(t)
  PROVE  IInv'
  <1>1. /\ lpc[t] = "send" /\ lpc'[t] \in {"barrier", "return"}
        /\ \A a \in Task \ {t} : /\ lpc'[a] = lpc[a] /\ lngrp'[a] = lngrp[a] /\ lnbuffer'[a] = lnbuffer[a]
                                 /\ DataGet'[a] = DataGet[a]
        /\ DataGet'[t] = Evaluated(t) /\ DOMAIN DataGet' = Task
        /\ UNCHANGED <<called, listed, llevel>>
        /\ lngrp' \in [Task -> 1 .. Groups] /\ lnbuffer' \in [Task -> [Task -> Nat]]
        /\ \/ lpc'[t] = "barrier" /\ lngrp'[t] = lngrp[t]
           \/ lngrp'[t] = llevel[t] /\ lnbuffer'[t] = EveryTask(0)
        /\ lpc' \in [Task -> LoopPlace]
    BY EvaluateSteps
  <1>2. case' = case /\ calls' = calls /\ BunchSize' = BunchSize /\ UNCHANGED <<start, IndexTable, exported>>
    BY <1>1, SameLoop DEF called, listed
  <1>3. Typed'
    BY <1>1, <1>2 DEF IInv, Typed
  <1>4. ListsFit'
    <2>1. \A a \in Task : lpc'[a] \notin Filling \cup Meeting => exported[a] = 0
      BY <1>1 DEF IInv, ListsFit, Meeting
    <2> QED BY <1>2, <2>1 DEF IInv, ListsFit, Nsend
  <1>5. Counted'
    <2>1. DOMAIN DataGet'[t] = DOMAIN DataGet[t]
      BY <1>1 DEF Evaluated
    <2> QED BY <1>1, <1>2, <2>1 DEF IInv, Counted
  <1>6. LevelBegins'
    <2>1. llevel[t] \in Int /\ llevel' = llevel
      BY <1>1, Constants DEF IInv, Typed
    <2> QED BY <1>1, <2>1 DEF IInv, LevelBegins, EveryTask
  <1> QED BY <1>3, <1>4, <1>5, <1>6 DEF IInv

LEMMA LevelDoneIInv ==
  ASSUME IInv, NEW t \in Task, LevelDone(t)
  PROVE  IInv'
  <1>1. /\ lpc' \in [Task -> LoopPlace]
        /\ lpc[t] = "return" /\ lpc'[t] \in {"send", "round"}
        /\ \A a \in Task \ {t} : lpc'[a] = lpc[a] /\ llevel'[a] = llevel[a] /\ lnbuffer'[a] = lnbuffer[a]
        /\ llevel'[t] = lngrp[t] /\ lnbuffer'[t] = EveryTask(0)
        /\ DataGet' = DataGet /\ lngrp' = lngrp
    BY DEF LevelDone, Towards, IInv, Typed, LoopPlace, buffered
  <1>2. case' = case /\ calls' = calls /\ BunchSize' = BunchSize /\ UNCHANGED <<start, IndexTable, exported>>
    BY SameLoop DEF LevelDone, called, listed
  <1>3. Typed'
    <2>1. llevel' \in [Task -> 1 .. Groups] /\ lnbuffer' \in [Task -> [Task -> Nat]]
      BY DEF LevelDone, IInv, Typed, EveryTask
    <2> QED BY <1>1, <1>2, <2>1 DEF IInv, Typed
  <1>4. ListsFit'
    <2>1. \A a \in Task : lpc'[a] \notin Filling \cup Meeting => exported[a] = 0
      BY <1>1 DEF IInv, ListsFit, Meeting
    <2> QED BY <1>2, <2>1 DEF IInv, ListsFit, Nsend
  <1>5. Counted'
    <2>1. 1 .. lnbuffer'[t][t] = {}
      BY <1>1 DEF EveryTask
    <2> QED BY <1>1, <1>2, <2>1 DEF IInv, Counted
  <1>6. LevelBegins'
    <2>1. lngrp[t] \in Int
      BY Constants DEF IInv, Typed
    <2> QED BY <1>1, <2>1 DEF IInv, LevelBegins, EveryTask
  <1> QED BY <1>3, <1>4, <1>5, <1>6 DEF IInv

LEMMA NextIInv == IInv /\ [LoopsNext]_loop_vars => IInv'
  <1> SUFFICES ASSUME IInv, [LoopsNext]_loop_vars PROVE IInv'
    OBVIOUS
  <1>1. CASE Begins \/ GatherNsend \/ AfterImported \/ RoundOver \/ Ends \/ NextCall
    BY <1>1, BeginsIInv, GatherNsendIInv, AfterImportedIInv, RoundOverIInv, EndsIInv, NextCallIInv
  <1>2. ASSUME NEW t \in Task,
               FillList(t) \/ ListEnds(t) \/ EvaluateImported(t) \/ PassGroup(t) \/ LevelDone(t)
        PROVE  IInv'
    BY <1>2, FillListIInv, ListEndsIInv, EvaluateImportedIInv, PassGroupIInv, LevelDoneIInv
  <1>3. ASSUME NEW t \in Task, NEW u \in Task, Exchange(t, u) \/ GiveBack(t, u)
        PROVE  IInv'
    BY <1>3, ExchangeIInv, GiveBackIInv
  <1>4. CASE UNCHANGED loop_vars
    <2>1. UNCHANGED <<called, lpc, start, IndexTable, exported, DataGet, pairing>>
      BY <1>4 DEF loop_vars, listed, buffered
    <2>2. lpc' \in [Task -> LoopPlace] /\ start' \in [Task -> Nat] /\ \A t \in Task : lpc'[t] = lpc[t]
      BY <2>1 DEF IInv, Typed
    <2> QED BY <2>1, <2>2, ElsewhereIInv
  <1> QED BY <1>1, <1>2, <1>3, <1>4, LoopsSteps

LEMMA AlwaysIInv == LoopsSpec => []IInv
  BY InitIInv, NextIInv, PTL DEF LoopsSpec

(* The export list and the receive buffer of every loop always fit their   *)
(* arrays, however many tasks a walk ends on and in whatever order the     *)
(* tasks meet.                                                             *)
THEOREM LoopBuffersFit == LoopsSpec => []LoopBuffersHold
  <1>1. IInv => LoopBuffersHold
    <2> SUFFICES ASSUME IInv, NEW t \in Task
                 PROVE  exported[t] <= BunchSize /\ DOMAIN DataGet[t] \subseteq 1 .. BunchSize
      BY DEF LoopBuffersHold
    <2>1. exported[t] \in Nat
      BY DEF IInv, Typed
    <2> QED BY <2>1, Bunches DEF IInv, ListsFit, Counted
  <1> QED BY <1>1, AlwaysIInv, PTL

(* The first group of pairs of a level always fits, so that every level of *)
(* every loop goes on: none can stay where it is.                          *)
FirstGroupFits ==
  \A t \in Task :
    lpc[t] \in {"send", "return"} /\ lngrp[t] = llevel[t] /\ lngrp[t] < Groups => ~LevelBreaks(t)

THEOREM LoopLevelsAdvance == LoopsSpec => []FirstGroupFits
  <1>1. IInv => FirstGroupFits
    <2> SUFFICES ASSUME IInv, NEW t \in Task,
                        lpc[t] \in {"send", "return"}, lngrp[t] = llevel[t], lngrp[t] < Groups
                 PROVE  ~LevelBreaks(t)
      BY DEF FirstGroupFits
    <2>1. lnbuffer[t] = EveryTask(0) /\ lngrp[t] \in 1 .. Groups - 1
      BY Constants DEF IInv, LevelBegins, Typed
    <2>2. ASSUME NEW j \in Task, PairedBy[<<j, lngrp[t]>>] < NTask
          PROVE  ~(lnbuffer[t][j] + Inflow(j, lngrp[t]) >= BunchSize)
      <3>1. PairedBy[<<j, lngrp[t]>>] \in Nat
        BY <2>1, XorAssumption
      <3>2. PairedBy[<<j, lngrp[t]>>] \in Task
        BY <2>2, <3>1, Constants DEF Task
      <3>3. Inflow(j, lngrp[t]) = Nsend(PairedBy[<<j, lngrp[t]>>], j)
        BY <2>2 DEF Inflow
      <3>4. Inflow(j, lngrp[t]) < BunchSize /\ Inflow(j, lngrp[t]) \in Nat
        <4> DEFINE a == PairedBy[<<j, lngrp[t]>>]
        <4>1. Nsend(a, j) \in Nat /\ exported[a] \in Nat
          BY <3>2 DEF IInv, Typed, Nsend
        <4>2. Nsend(a, j) <= exported[a] /\ exported[a] < BunchSize
          BY <3>2 DEF IInv, ListsFit
        <4> QED BY <3>3, <4>1, <4>2, Bunches
      <3>5. lnbuffer[t][j] = 0
        BY <2>1 DEF EveryTask
      <3> QED BY <3>4, <3>5, Bunches
    <2> QED BY <2>2 DEF LevelBreaks, Overfull
  <1> QED BY <1>1, AlwaysIInv, PTL

-------------------------------------------------------------------------------
(* What is used of the sum over the tasks.                                 *)
Stacks(count) == UNION {{t} \X (1 .. count[t]) : t \in Task}

LEMMA InStacks ==
  ASSUME NEW count
  PROVE  \A t, k : <<t, k>> \in Stacks(count) <=> t \in Task /\ k \in 1 .. count[t]
  BY DEF Stacks

LEMMA StacksFinite ==
  ASSUME NEW count \in [Task -> Nat]
  PROVE  IsFiniteSet(Stacks(count))
  <1> DEFINE stack == [t \in Task |-> {t} \X (1 .. count[t])]
             stacks == {{t} \X (1 .. count[t]) : t \in Task}
  <1>1. IsFiniteSet(Task)
    BY FS_Interval, Constants DEF Task
  <1>2. stack \in Surjection(Task, stacks)
    BY DEF Surjection
  <1>3. IsFiniteSet(stacks)
    <2> HIDE DEF stack, stacks
    <2> QED BY <1>1, <1>2, FS_Surjection
  <1>4. ASSUME NEW t \in Task
        PROVE  IsFiniteSet({t} \X (1 .. count[t]))
    <2>1. PICK n \in Int : n = count[t]
      OBVIOUS
    <2>2. IsFiniteSet(1 .. n)
      BY FS_Interval
    <2>3. IsFiniteSet({t})
      BY FS_Singleton
    <2> QED BY <2>1, <2>2, <2>3, FS_Product
  <1>5. \A s \in stacks : IsFiniteSet(s)
    BY <1>4
  <1>6. IsFiniteSet(UNION stacks)
    <2> HIDE DEF stacks
    <2> QED BY <1>3, <1>5, FS_UNION
  <1> QED BY <1>6 DEF Stacks

LEMMA TotalNat ==
  ASSUME NEW count \in [Task -> Nat]
  PROVE  /\ Total(count) \in Nat
         /\ Total(count) = 0 => \A t \in Task : count[t] = 0
  <1>1. IsFiniteSet(Stacks(count)) /\ Total(count) = Cardinality(Stacks(count))
    BY StacksFinite DEF Total, Stacks
  <1>2. ASSUME Stacks(count) = {}, NEW t \in Task
        PROVE  count[t] = 0
    <2>1. <<t, 1>> \notin Stacks(count)
      BY <1>2
    <2>2. 1 \notin 1 .. count[t] /\ count[t] \in Nat
      BY <2>1, InStacks
    <2> QED BY <2>2
  <1> QED BY <1>1, <1>2, FS_CardinalityType, FS_EmptySet

LEMMA TotalOfSum ==
  ASSUME NEW a \in [Task -> Nat], NEW b \in [Task -> Nat]
  PROVE  Total([t \in Task |-> a[t] + b[t]]) = Total(a) + Total(b)
  <1> DEFINE both == [t \in Task |-> a[t] + b[t]]
             above == {x \in Stacks(both) : x \notin Stacks(a)}
             lift == [x \in Stacks(b) |-> <<x[1], x[2] + a[x[1]]>>]
  <1>1. both \in [Task -> Nat]
    OBVIOUS
  <1>2. \A t \in Task : a[t] \in Nat /\ b[t] \in Nat /\ both[t] = a[t] + b[t]
    OBVIOUS
  <1> HIDE DEF both
  <1>3. \A x : x \in Stacks(a) \/ x \in Stacks(b) \/ x \in Stacks(both) =>
                 x = <<x[1], x[2]>> /\ x[1] \in Task /\ x[2] \in Nat
    BY <1>1 DEF Stacks
  <1>4. Stacks(a) \subseteq Stacks(both)
    <2>1. ASSUME NEW t, NEW k, t \in Task, k \in 1 .. a[t]
          PROVE  k \in 1 .. both[t]
      BY <1>2, <2>1
    <2> QED BY <1>3, <2>1, InStacks
  <1>5. \A t, k : <<t, k>> \in above <=> t \in Task /\ k \in a[t] + 1 .. both[t]
    <2>1. ASSUME NEW t \in Task, NEW k
          PROVE  k \in 1 .. both[t] /\ k \notin 1 .. a[t] <=> k \in a[t] + 1 .. both[t]
      BY <1>2
    <2> QED BY <2>1, InStacks
  <1>6. lift \in Bijection(Stacks(b), above)
    <2>1. \A x \in Stacks(b) : x = <<x[1], x[2]>> /\ x[1] \in Task /\ x[2] \in 1 .. b[x[1]]
      BY <1>3, InStacks
    <2>2. \A x \in Stacks(b) : x[2] + a[x[1]] \in a[x[1]] + 1 .. both[x[1]]
      BY <1>2, <2>1
    <2>3. \A x \in Stacks(b) : lift[x] \in above
      BY <1>5, <2>1, <2>2
    <2>4. \A x, y \in Stacks(b) : lift[x] = lift[y] => x = y
      <3> SUFFICES ASSUME NEW x \in Stacks(b), NEW y \in Stacks(b), lift[x] = lift[y]
                   PROVE  x = y
        OBVIOUS
      <3>1. x[1] = y[1] /\ x[2] + a[x[1]] = y[2] + a[y[1]]
        OBVIOUS
      <3>2. x[2] \in Nat /\ y[2] \in Nat /\ a[x[1]] \in Nat
        BY <1>2, <2>1
      <3>3. x[2] = y[2]
        BY <3>1, <3>2
      <3> QED BY <2>1, <3>1, <3>3
    <2>5. \A z \in above : \E x \in Stacks(b) : lift[x] = z
      <3> SUFFICES ASSUME NEW z \in above PROVE \E x \in Stacks(b) : lift[x] = z
        OBVIOUS
      <3>1. z = <<z[1], z[2]>> /\ z[1] \in Task /\ z[2] \in a[z[1]] + 1 .. both[z[1]]
        BY <1>3, <1>5
      <3>2. PICK k : k = z[2] - a[z[1]]
        OBVIOUS
      <3>3. k \in 1 .. b[z[1]] /\ k + a[z[1]] = z[2]
        BY <1>2, <3>1, <3>2
      <3>4. <<z[1], k>> \in Stacks(b)
        BY <3>1, <3>3, InStacks
      <3>5. lift[<<z[1], k>>] = z
        BY <3>1, <3>3, <3>4
      <3> QED BY <3>4, <3>5
    <2> QED BY <2>3, <2>4, <2>5 DEF Bijection, Injection, Surjection, IsInjective
  <1>7. IsFiniteSet(Stacks(a)) /\ IsFiniteSet(Stacks(b)) /\ IsFiniteSet(Stacks(both))
    BY <1>1, StacksFinite
  <1>8. IsFiniteSet(above) /\ Cardinality(above) = Cardinality(Stacks(b))
    <2> HIDE DEF lift, above
    <2>1. ExistsBijection(Stacks(b), above)
      BY <1>6 DEF ExistsBijection
    <2> QED BY <1>7, <2>1, FS_Bijection
  <1>9. Stacks(both) = Stacks(a) \cup above /\ Stacks(a) \cap above = {}
    BY <1>4
  <1>10. Cardinality(Stacks(both)) = Cardinality(Stacks(a)) + Cardinality(above) - 0
    <2> HIDE DEF above
    <2> QED BY <1>7, <1>8, <1>9, FS_Union, FS_EmptySet
  <1>11. Cardinality(Stacks(a)) \in Nat /\ Cardinality(Stacks(b)) \in Nat
    BY <1>7, FS_CardinalityType
  <1>12. Total(both) = Total(a) + Total(b)
    BY <1>8, <1>10, <1>11 DEF Total, Stacks
  <1> QED BY <1>12 DEF both
-------------------------------------------------------------------------------
(* For the results: in which stage the tasks are, what is marked, what the *)
(* lists hold, how the buffers are laid out, which results are to come.    *)
Together ==
  \E stage \in {{"begin"}, Filling, Meeting, {"finish"}, {"returned"}, {"over"}} :
    \A t \in Task : lpc[t] \in stage

Shapes ==
  /\ DOMAIN parts = Task /\ DOMAIN DataIn = Task
  /\ numdone \in [Task -> Nat]
  /\ \A t \in Task : /\ DOMAIN parts[t] = OnTask(t) /\ DOMAIN DataIn[t] = Task
                     /\ start[t] <= NumPart[t] /\ numdone[t] <= start[t]

(* Where the loop has marked time steps.                                   *)
IsMarked(t, i) ==
  /\ lpc[t] \notin {"begin", "returned", "over"}
  /\ \/ Loop = "gravity" /\ <<t, i>> \in NoGravity
     \/ Loop = "direct" /\ case.Ti_endstep[t][i] = Now /\ <<t, i>> \in case.random

MarkedNow ==
  \A t \in Task :
    endstep[t] = [i \in OnTask(t) |-> IF IsMarked(t, i) THEN Mark(case.Ti_endstep[t][i])
                                      ELSE case.Ti_endstep[t][i]]

(* The particles that a loop is for were counted when gravity asks.        *)
AllDue(t) == {i \in OnTask(t) : Due(t, i)}

Updates ==
  /\ NumForceUpdate \in [Task -> Nat]
  /\ Loop = "gravity" => \A t \in Task : NumForceUpdate[t] = Cardinality(AllDue(t))

(* The relative criterion is used when there is something to compare with. *)
Known ==
  /\ ErrTolTheta \in {"set", "zero"}
  /\ \A t \in Task : OldAcc[t] \in [OnTask(t) -> BOOLEAN]
  /\ ErrTolTheta = "zero" =>
       \A t \in Task : \A i \in OnTask(t) :
         case.Ti_endstep[t][i] = Now \/ Loop = "potential" => OldAcc[t][i] \/ <<t, i>> \in NoGravity

(* A list names particles of this round, each once, that go to its task.   *)
Lists ==
  \A t, u \in Task :
    /\ \A x \in 1 .. Nsend(t, u) : /\ IndexTable[t][u][x] \in OnTask(t)
                                   /\ IndexTable[t][u][x] < start[t]
                                   /\ Due(t, IndexTable[t][u][x])
                                   /\ u \in Exportflag(t, IndexTable[t][u][x])
    /\ \A x, y \in 1 .. Nsend(t, u) : IndexTable[t][u][x] = IndexTable[t][u][y] => x = y
    /\ lpc[t] \notin Filling \cup Meeting => IndexTable[t][u] = <<>>

(* The first group whose results are still to come, and those tasks.       *)
Ahead(t) ==
  CASE lpc[t] = "return" -> lngrp[t]
    [] lpc[t] \in {"send", "barrier"} -> llevel[t]
    [] lpc[t] = "round" -> Groups
    [] OTHER -> 1

Awaited(t) == {u \in Task : \E n \in Ahead(t) .. Groups - 1 : PairedBy[<<t, n>>] = u}

(* What is sent for the x-th particle in a list.                           *)
CopyOf(t, u, x) == [particle |-> <<t, IndexTable[t][u][x]>>, informed |-> TRUE]

(* As long as a result is awaited, the request for it is still there.      *)
Asked ==
  \A t \in Task : lpc[t] \in {"counts"} \cup Meeting =>
    \A u \in Awaited(t) : \A x \in 1 .. Nsend(t, u) : DataIn[t][u][x] = CopyOf(t, u, x)

(* A group of pairs for which there is no room.                            *)
Full(fill, n) ==
  \E j \in Task : PairedBy[<<j, n>>] < NTask /\ fill[j] + Inflow(j, n) >= BunchSize

(* The groups from the task's level to last belong together, and off says  *)
(* how full the buffers are before each of them.                           *)
Passed(t, off, last) ==
  /\ off \in [1 .. Groups -> [Task -> Nat]]
  /\ last \in llevel[t] .. Groups
  /\ off[llevel[t]] = EveryTask(0)
  /\ \A n \in llevel[t] .. last - 1 :
       /\ off[n + 1] = [j \in Task |-> off[n][j] + Inflow(j, n)]
       /\ ~Full(off[n], n)

(* The buffer of task t holds something for each particle received, in the *)
(* order of the groups.                                                    *)
LaidOut(t, off, last, Holds(_, _)) ==
  \A n \in llevel[t] .. last - 1 : PairedBy[<<t, n>>] < NTask =>
    /\ off[n][t] + Nsend(PairedBy[<<t, n>>], t) <= off[last][t]
    /\ \A x \in 1 .. Nsend(PairedBy[<<t, n>>], t) :
         Holds(off[n][t] + x, CopyOf(PairedBy[<<t, n>>], t, x))

GetHolds(t, off, last) ==
  LaidOut(t, off, last, LAMBDA x, c : DataGet[t][x] = c)

ResultOf(c, t) == [for |-> c.particle, by |-> t, informed |-> c.informed]

ResultHolds(t, off, last) ==
  LaidOut(t, off, last, LAMBDA x, c : DataGet[t][x] = ResultOf(c, t))

(* Where a task is in the groups of its level.                             *)
Stands(t, off, last) ==
  /\ Passed(t, off, last)
  /\ lpc[t] = "send" => lngrp[t] = last /\ lnbuffer[t] = off[last] /\ GetHolds(t, off, last)
  /\ lpc[t] # "send" => (last < Groups => Full(off[last], last)) /\ ResultHolds(t, off, last)
  /\ lpc[t] = "return" => lngrp[t] \in llevel[t] .. last /\ lnbuffer[t] = off[lngrp[t]]

Booked == \A t \in Task : lpc[t] \in Meeting \ {"round"} => \E off, last : Stands(t, off, last)

Listed(t, u) == {IndexTable[t][u][x] : x \in 1 .. Nsend(t, u)}

Pending(t, i) == {u \in Awaited(t) : i \in Listed(t, u)}

(* The tasks that work on a particle, if it had its turn.                  *)
Workers(t, i) == IF Due(t, i) /\ i < start[t] THEN {t} \cup Exportflag(t, i) ELSE {}

(* The parts from the tasks in U have been added once, and no others.      *)
AddedFrom(t, i, U) ==
  parts[t][i] = [number |-> Cardinality(U), of |-> {Part(t, i, u, TRUE) : u \in U}]

Exact ==
  \A t \in Task : lpc[t] \notin {"begin", "over"} =>
    \A i \in OnTask(t) : AddedFrom(t, i, Workers(t, i) \ Pending(t, i))

(* The particles that are still to be looked at.                           *)
Rest(t) == {i \in OnTask(t) : Due(t, i) /\ start[t] <= i}

Reckoned ==
  /\ numleft \in Nat
  /\ (\E t \in Task : lpc[t] \in Filling \cup Meeting) =>
       numleft = Total([t \in Task |-> Cardinality(Rest(t)) + numdone[t]])
  /\ \A t \in Task :
       /\ lpc[t] \notin Filling \cup Meeting => numdone[t] = 0
       /\ lpc[t] \in {"finish", "returned"} => Rest(t) = {}

Printed ==
  (\E t \in Task : lpc[t] = "returned") /\ Loop = "direct" =>
    forcetest = [t \in Task |-> AllDue(t)]

MInv == IInv /\ Together /\ Shapes /\ MarkedNow /\ Updates /\ Known

JInv == MInv /\ Lists /\ Asked /\ Booked /\ Exact /\ Reckoned /\ Printed

LEMMA OnTaskNat == \A t \in Task : NumPart[t] \in Nat /\ OnTask(t) \subseteq Nat
  BY Constants
-------------------------------------------------------------------------------
LEMMA NextTogether ==
  ASSUME IInv, Together, [LoopsNext]_loop_vars
  PROVE  Together'
  <1> USE DEF Filling, Meeting
  <1>1. lpc \in [Task -> LoopPlace] /\ 0 \in Task
    BY Constants DEF IInv, Typed, Task
  <1>2. CASE lpc' = lpc
    BY <1>2 DEF Together
  <1>3. CASE \E place \in LoopPlace : lpc' = EveryTask(place)
    BY <1>3 DEF Together, EveryTask, LoopPlace
  <1>4. ASSUME NEW t \in Task, NEW place,
               \/ lpc[t] \in Filling /\ place \in Filling
               \/ lpc[t] \in Meeting /\ place \in Meeting,
               lpc'[t] = place, \A a \in Task \ {t} : lpc'[a] = lpc[a]
        PROVE  Together'
    <2>1. PICK stage \in {{"begin"}, Filling, Meeting, {"finish"}, {"returned"}, {"over"}} :
            \A u \in Task : lpc[u] \in stage
      BY DEF Together
    <2>2. place \in stage
      BY <1>4, <2>1
    <2>3. \A u \in Task : lpc'[u] \in stage
      BY <1>4, <2>1, <2>2
    <2> QED BY <2>1, <2>3 DEF Together
  <1>5. CASE Begins \/ GatherNsend \/ AfterImported \/ RoundOver \/ Ends \/ NextCall
    <2>1. Begins => \E place \in LoopPlace : lpc' = EveryTask(place)
      BY BeginsSteps DEF LoopPlace
    <2>2. Ends => \E place \in LoopPlace : lpc' = EveryTask(place)
      BY EndsSteps DEF LoopPlace
    <2>3. GatherNsend \/ AfterImported \/ RoundOver \/ NextCall => \E place \in LoopPlace : lpc' = EveryTask(place)
      BY DEF GatherNsend, AfterImported, RoundOver, NextCall, LoopPlace
    <2> QED BY <1>3, <1>5, <2>1, <2>2, <2>3
  <1>6. ASSUME NEW t \in Task,
               FillList(t) \/ ListEnds(t) \/ EvaluateImported(t) \/ PassGroup(t) \/ LevelDone(t)
        PROVE  Together'
    <2>1. CASE FillList(t) \/ PassGroup(t)
      BY <1>2, <2>1 DEF FillList, PassGroup, NextGroup
    <2>2. CASE ListEnds(t)
      BY <1>1, <1>4, <2>2 DEF ListEnds, Towards
    <2>3. CASE EvaluateImported(t)
      BY <1>4, <2>3, EvaluateSteps
    <2>4. CASE LevelDone(t)
      <3>1. /\ lpc[t] = "return" /\ lpc'[t] \in {"send", "round"}
            /\ \A a \in Task \ {t} : lpc'[a] = lpc[a]
        BY <1>1, <2>4 DEF LevelDone, Towards
      <3> QED BY <1>4, <3>1
    <2> QED BY <1>6, <2>1, <2>2, <2>3, <2>4
  <1>7. ASSUME NEW t \in Task, NEW u \in Task, Exchange(t, u) \/ GiveBack(t, u)
        PROVE  Together'
    BY <1>2, <1>7 DEF Exchange, GiveBack, NextGroup
  <1>8. CASE UNCHANGED loop_vars
    BY <1>2, <1>8 DEF loop_vars
  <1> QED BY <1>5, <1>6, <1>7, <1>8, LoopsSteps

(* If one task is in a stage, all are.                                     *)
LEMMA SameStage ==
  ASSUME IInv, Together, NEW t \in Task, NEW u \in Task
  PROVE  /\ lpc[t] \in Filling <=> lpc[u] \in Filling
         /\ lpc[t] \in Meeting <=> lpc[u] \in Meeting
         /\ \A place \in {"begin", "finish", "returned", "over"} : lpc[t] = place <=> lpc[u] = place
  BY DEF Together, Filling, Meeting

(* A task that does something alone leaves the others in its stage.        *)
LEMMA StepInStage ==
  ASSUME IInv, NEW t \in Task,
         FillList(t) \/ ListEnds(t) \/ EvaluateImported(t) \/ PassGroup(t) \/ LevelDone(t)
  PROVE  /\ \A a \in Task \ {t} : lpc'[a] = lpc[a]
         /\ \/ lpc[t] \in Filling /\ lpc'[t] \in Filling
            \/ lpc[t] \in Meeting /\ lpc'[t] \in Meeting
  <1> USE DEF Filling, Meeting
  <1>1. lpc \in [Task -> LoopPlace]
    BY DEF IInv, Typed
  <1>2. CASE FillList(t) \/ PassGroup(t)
    BY <1>2 DEF FillList, PassGroup, NextGroup
  <1>3. CASE ListEnds(t)
    BY <1>1, <1>3 DEF ListEnds, Towards
  <1>4. CASE EvaluateImported(t)
    BY <1>4, EvaluateSteps
  <1>5. CASE LevelDone(t)
    BY <1>1, <1>5 DEF LevelDone, Towards
  <1> QED BY <1>2, <1>3, <1>4, <1>5

LEMMA CountOnTask ==
  ASSUME NEW t \in Task, NEW S \in SUBSET OnTask(t)
  PROVE  IsFiniteSet(S) /\ Cardinality(S) \in Nat /\ Cardinality(S) <= NumPart[t]
  <1>1. PICK n \in Nat : n = NumPart[t]
    BY Constants
  <1>2. IsFiniteSet(0 .. n - 1) /\ Cardinality(0 .. n - 1) = n
    <2>1. n - 1 \in Int
      OBVIOUS
    <2> QED BY <2>1, FS_Interval
  <1>3. S \in SUBSET (0 .. n - 1)
    BY <1>1 DEF OnTask
  <1> QED BY <1>1, <1>2, <1>3, FS_Subset, FS_CardinalityType
-------------------------------------------------------------------------------
LEMMA Given ==
  ASSUME Typed
  PROVE  /\ Now \in Nat
         /\ \A t \in Task : case.Ti_endstep[t] \in [OnTask(t) -> Nat]
  BY SituationsAssumption DEF Typed, Now

LEMMA Marked == \A n \in Nat : Mark(n) \in Int /\ Mark(n) < 0 /\ Mark(Mark(n)) = n
  BY DEF Mark

(* The marks are those of the loop, and a mark is seen from the sign.      *)
LEMMA MarksSeen ==
  ASSUME Typed, MarkedNow, NEW t \in Task, NEW i \in OnTask(t)
  PROVE  /\ case.Ti_endstep[t][i] \in Nat
         /\ endstep[t][i] < 0 <=> IsMarked(t, i)
         /\ ~IsMarked(t, i) => endstep[t][i] = case.Ti_endstep[t][i]
         /\ (IF endstep[t][i] < 0 THEN Mark(endstep[t][i]) ELSE endstep[t][i]) = case.Ti_endstep[t][i]
  <1>1. PICK n \in Nat : n = case.Ti_endstep[t][i]
    BY Given
  <1>2. endstep[t][i] = IF IsMarked(t, i) THEN Mark(n) ELSE n
    BY <1>1 DEF MarkedNow
  <1>3. Mark(n) < 0 /\ Mark(Mark(n)) = n /\ ~(n < 0)
    BY Marked
  <1> QED BY <1>1, <1>2, <1>3

(* A loop works on the particles it is for.                                *)
LEMMA WantedDue ==
  ASSUME Typed, MarkedNow, NEW t \in Task, lpc[t] \notin {"begin", "returned", "over"}, NEW i \in OnTask(t)
  PROVE  Wanted(t, i) /\ i < EndOfLoop(t) <=> Due(t, i)
  <1>1. PICK n \in Nat : n = case.Ti_endstep[t][i]
    BY MarksSeen
  <1>2. /\ endstep[t][i] < 0 <=> IsMarked(t, i)
        /\ endstep[t][i] = IF IsMarked(t, i) THEN Mark(n) ELSE n
    BY <1>1, MarksSeen DEF MarkedNow
  <1>3. Mark(n) # Now
    BY Marked, Given
  <1>4. i < NumPart[t] /\ i \in Nat
    BY Constants DEF OnTask
  <1>5. CASE Loop = "gravity"
    BY <1>1, <1>2, <1>3, <1>4, <1>5 DEF Wanted, Due, EndOfLoop, OfGravity, IsMarked
  <1>6. CASE Loop = "potential"
    BY <1>4, <1>6 DEF Wanted, Due, EndOfLoop, OfGravity
  <1>7. CASE Loop = "direct"
    BY <1>1, <1>2, <1>4, <1>7 DEF Wanted, Due, EndOfLoop, OfGravity, IsMarked
  <1>8. CASE Loop = "hydro"
    BY <1>1, <1>2, <1>8 DEF Wanted, Due, EndOfLoop, OfGravity, IsMarked
  <1> QED BY <1>5, <1>6, <1>7, <1>8, InLoop

(* With the relative criterion they have an acceleration to compare with.  *)
LEMMA DueInformed ==
  ASSUME Typed, Known, NEW t \in Task, NEW i \in OnTask(t), Due(t, i)
  PROVE  Informed(t, i) = TRUE
  <1>1. case.Ti_endstep[t][i] = Now \/ Loop = "potential"
    BY InLoop DEF Due
  <1>2. CASE ErrTolTheta = "set"
    BY <1>2 DEF Informed
  <1>3. CASE ErrTolTheta = "zero"
    <2>1. OldAcc[t][i] \/ <<t, i>> \in NoGravity
      BY <1>1, <1>3 DEF Known
    <2> QED BY <2>1 DEF Informed
  <1> QED BY <1>2, <1>3 DEF Known

LEMMA SameMarks ==
  ASSUME MarkedNow, endstep' = endstep, case' = case,
         \A t \in Task : \A i \in OnTask(t) : IsMarked(t, i)' <=> IsMarked(t, i)
  PROVE  MarkedNow'
  BY DEF MarkedNow

LEMMA BeginsMarks == ASSUME IInv, MarkedNow, Begins PROVE MarkedNow'
  <1>1. /\ case' = case /\ Loop' = Loop /\ Now' = Now
        /\ \A t \in Task : lpc[t] = "begin" /\ lpc'[t] \in {"fill", "finish"}
    BY BeginsSteps, SameLoop DEF called, EveryTask
  <1>2. \A t \in Task : \A i \in OnTask(t) : ~IsMarked(t, i)
    BY <1>1 DEF IsMarked
  <1>3. \A t \in Task : \A i \in OnTask(t) : endstep[t][i] = case.Ti_endstep[t][i]
    BY <1>2 DEF MarkedNow
  <1>4. \A t \in Task : \A i \in OnTask(t) :
          IsMarked(t, i)' <=> \/ Loop = "gravity" /\ <<t, i>> \in NoGravity
                              \/ Loop = "direct" /\ case.Ti_endstep[t][i] = Now /\ <<t, i>> \in case.random
    BY <1>1 DEF IsMarked
  <1>5. ASSUME NEW S,
               endstep' = [t \in Task |-> [i \in OnTask(t) |->
                             IF <<t, i>> \in S THEN Mark(endstep[t][i]) ELSE endstep[t][i]]],
               \A t \in Task : \A i \in OnTask(t) : IsMarked(t, i)' <=> <<t, i>> \in S
        PROVE  MarkedNow'
    <2> SUFFICES ASSUME NEW t \in Task
                 PROVE  endstep'[t] = [i \in OnTask(t) |-> IF IsMarked(t, i)' THEN Mark(case'.Ti_endstep[t][i])
                                                           ELSE case'.Ti_endstep[t][i]]
      BY DEF MarkedNow
    <2>1. \A i \in OnTask(t) :
            (IF <<t, i>> \in S THEN Mark(endstep[t][i]) ELSE endstep[t][i])
              = IF IsMarked(t, i)' THEN Mark(case'.Ti_endstep[t][i]) ELSE case'.Ti_endstep[t][i]
      BY <1>1, <1>3, <1>5
    <2>2. endstep'[t] = [i \in OnTask(t) |-> IF <<t, i>> \in S THEN Mark(endstep[t][i]) ELSE endstep[t][i]]
      BY <1>5
    <2> QED BY <2>1, <2>2, Zenon
  <1>6. CASE GravityBegins
    <2>1. endstep' = [t \in Task |-> [i \in OnTask(t) |->
                        IF <<t, i>> \in NoGravity THEN Mark(endstep[t][i]) ELSE endstep[t][i]]]
      BY <1>6 DEF GravityBegins
    <2>2. \A t \in Task : \A i \in OnTask(t) : IsMarked(t, i)' <=> <<t, i>> \in NoGravity
      BY <1>4, <1>6 DEF GravityBegins
    <2> QED BY <1>5, <2>1, <2>2
  <1>7. CASE DirectBegins
    <2>1. PICK S : S = UNION {{t} \X Chosen(t) : t \in Task}
      OBVIOUS
    <2>2. \A t \in Task : \A i : <<t, i>> \in S <=> i \in Chosen(t)
      BY <2>1
    <2>3. /\ endstep' = [t \in Task |-> [i \in OnTask(t) |->
                           IF i \in Chosen(t) THEN Mark(endstep[t][i]) ELSE endstep[t][i]]]
          /\ Loop = "direct"
      BY <1>7 DEF DirectBegins
    <2>4. endstep' = [t \in Task |-> [i \in OnTask(t) |->
                        IF <<t, i>> \in S THEN Mark(endstep[t][i]) ELSE endstep[t][i]]]
      <3>1. \A t \in Task : \A i \in OnTask(t) :
              (IF i \in Chosen(t) THEN Mark(endstep[t][i]) ELSE endstep[t][i])
                = IF <<t, i>> \in S THEN Mark(endstep[t][i]) ELSE endstep[t][i]
        BY <2>2
      <3>2. \A t \in Task :
              [i \in OnTask(t) |-> IF i \in Chosen(t) THEN Mark(endstep[t][i]) ELSE endstep[t][i]]
                = [i \in OnTask(t) |-> IF <<t, i>> \in S THEN Mark(endstep[t][i]) ELSE endstep[t][i]]
        BY <3>1, Zenon
      <3> QED BY <2>3, <3>2, Zenon
    <2>5. \A t \in Task : \A i \in OnTask(t) : IsMarked(t, i)' <=> <<t, i>> \in S
      <3> SUFFICES ASSUME NEW t \in Task, NEW i \in OnTask(t)
                   PROVE  IsMarked(t, i)' <=> <<t, i>> \in S
        OBVIOUS
      <3>1. IsMarked(t, i)' <=> case.Ti_endstep[t][i] = Now /\ <<t, i>> \in case.random
        BY <1>4, <2>3
      <3>2. i \in Chosen(t) <=> endstep[t][i] = Now /\ <<t, i>> \in case.random
        BY DEF Chosen
      <3> QED BY <1>3, <2>2, <3>1, <3>2
    <2> QED BY <1>5, <2>4, <2>5
  <1>8. CASE PotentialBegins \/ HydroBegins
    <2>1. endstep' = endstep /\ Loop \in {"potential", "hydro"}
      BY <1>8 DEF PotentialBegins, HydroBegins, marks
    <2> QED BY <1>1, <1>2, <1>4, <2>1, SameMarks
  <1> QED BY <1>6, <1>7, <1>8 DEF Begins

LEMMA EndsMarks == ASSUME IInv, MarkedNow, Ends PROVE MarkedNow'
  <1>1. /\ case' = case
        /\ \A t \in Task : lpc[t] = "finish" /\ lpc'[t] = "returned"
    BY EndsSteps DEF called, EveryTask
  <1>2. \A t \in Task : \A i \in OnTask(t) : ~IsMarked(t, i)'
    BY <1>1 DEF IsMarked
  <1>3. CASE GravityEnds \/ DirectPrints
    <2>1. endstep' = Unmarked
      BY <1>3 DEF GravityEnds, DirectPrints
    <2>2. \A t \in Task : \A i \in OnTask(t) :
            (IF endstep[t][i] < 0 THEN Mark(endstep[t][i]) ELSE endstep[t][i]) = case.Ti_endstep[t][i]
      BY MarksSeen DEF IInv
    <2>3. \A t \in Task : endstep'[t] = [i \in OnTask(t) |-> case.Ti_endstep[t][i]]
      BY <2>1, <2>2 DEF Unmarked
    <2> QED BY <1>1, <1>2, <2>3 DEF MarkedNow
  <1>4. CASE LoopEnds
    <2>1. /\ endstep' = endstep
          /\ \A t \in Task : \A i \in OnTask(t) : ~IsMarked(t, i)
      BY <1>4 DEF LoopEnds, marks, IsMarked
    <2> QED BY <1>1, <1>2, <2>1, SameMarks
  <1> QED BY <1>3, <1>4 DEF Ends

LEMMA NextMarked == ASSUME IInv, MarkedNow, [LoopsNext]_loop_vars PROVE MarkedNow'
  <1>1. ASSUME UNCHANGED <<called, endstep>>,
               \A t \in Task : lpc'[t] \in {"begin", "returned", "over"} <=> lpc[t] \in {"begin", "returned", "over"}
        PROVE  MarkedNow'
    <2>1. case' = case /\ Loop' = Loop /\ Now' = Now
      BY <1>1, SameLoop DEF called
    <2>2. \A t \in Task : \A i \in OnTask(t) : IsMarked(t, i)' <=> IsMarked(t, i)
      BY <1>1, <2>1 DEF IsMarked
    <2> QED BY <1>1, <2>1, <2>2, SameMarks
  <1>2. CASE GatherNsend \/ AfterImported \/ RoundOver
    <2>1. UNCHANGED <<called, endstep>>
      BY <1>2 DEF GatherNsend, AfterImported, RoundOver, marks
    <2>2. \A t \in Task : lpc[t] \in {"counts", "barrier", "round"} /\ lpc'[t] \in {"send", "round", "return", "fill", "finish"}
      BY <1>2 DEF GatherNsend, AfterImported, RoundOver, LoopAt, EveryTask
    <2> QED BY <1>1, <2>1, <2>2
  <1>3. CASE NextCall
    <2>1. case' = case /\ endstep' = endstep
      BY <1>3 DEF NextCall, marks
    <2>2. \A t \in Task : lpc[t] = "returned" /\ lpc'[t] \in {"begin", "over"}
      BY <1>3 DEF NextCall, LoopAt, EveryTask
    <2>3. \A t \in Task : \A i \in OnTask(t) : ~IsMarked(t, i) /\ ~IsMarked(t, i)'
      BY <2>2 DEF IsMarked
    <2> QED BY <2>1, <2>3, SameMarks
  <1>4. ASSUME NEW t \in Task,
               FillList(t) \/ ListEnds(t) \/ EvaluateImported(t) \/ PassGroup(t) \/ LevelDone(t)
        PROVE  MarkedNow'
    <2>1. UNCHANGED <<called, endstep>>
      BY <1>4 DEF FillList, ListEnds, EvaluateImported, PassGroup, LevelDone, marks
    <2>2. /\ \A a \in Task \ {t} : lpc'[a] = lpc[a]
          /\ lpc[t] \in Filling \cup Meeting /\ lpc'[t] \in Filling \cup Meeting
      BY <1>4, StepInStage
    <2> QED BY <1>1, <2>1, <2>2 DEF Filling, Meeting
  <1>5. ASSUME NEW t \in Task, NEW u \in Task, Exchange(t, u) \/ GiveBack(t, u)
        PROVE  MarkedNow'
    <2>1. UNCHANGED <<called, endstep, lpc>>
      BY <1>5 DEF Exchange, GiveBack, NextGroup, marks
    <2> QED BY <1>1, <2>1
  <1>6. CASE UNCHANGED loop_vars
    BY <1>1, <1>6 DEF loop_vars, marks
  <1> QED BY <1>2, <1>3, <1>4, <1>5, <1>6, BeginsMarks, EndsMarks, LoopsSteps

LEMMA NextUpdates == ASSUME IInv, Updates, [LoopsNext]_loop_vars PROVE Updates'
  <1>1. ASSUME NumForceUpdate' = NumForceUpdate, case' = case, Loop' = "gravity" => Loop = "gravity"
        PROVE  Updates'
    <2>1. Loop' = "gravity" => \A t \in Task : AllDue(t)' = AllDue(t)
      BY <1>1 DEF AllDue, Due, Now
    <2> QED BY <1>1, <2>1 DEF Updates
  <1>2. ASSUME NumForceUpdate' = NumForceUpdate, UNCHANGED called
        PROVE  Updates'
    <2>1. case' = case /\ Loop' = Loop
      BY <1>2, SameLoop DEF called
    <2> QED BY <1>1, <1>2, <2>1
  <1>3. CASE NextCall
    <2>1. NumForceUpdate' = NumForceUpdate
      BY <1>3 DEF NextCall, marks
    <2> QED BY <1>1, <1>3, <2>1, NextCalls DEF IInv
  <1>4. CASE DirectBegins
    <2>1. Loop = "direct" /\ Loop' = Loop /\ NumForceUpdate' = [t \in Task |-> Cardinality(Chosen(t))]
      BY <1>4, SameLoop DEF DirectBegins, Begin
    <2>2. \A t \in Task : Cardinality(Chosen(t)) \in Nat
      BY CountOnTask DEF Chosen
    <2> QED BY <2>1, <2>2 DEF Updates
  <1>5. CASE Begins /\ ~DirectBegins
    BY <1>2, <1>5 DEF Begins, GravityBegins, PotentialBegins, HydroBegins, Begin, marks
  <1>6. CASE Ends
    BY <1>2, <1>6, EndsSteps
  <1>7. CASE \/ GatherNsend \/ AfterImported \/ RoundOver \/ UNCHANGED loop_vars
             \/ \E t \in Task : FillList(t) \/ ListEnds(t) \/ EvaluateImported(t) \/ PassGroup(t) \/ LevelDone(t)
             \/ \E t \in Task : \E u \in Task : Exchange(t, u) \/ GiveBack(t, u)
    <2>1. UNCHANGED <<called, NumForceUpdate>>
      BY <1>7 DEF GatherNsend, AfterImported, RoundOver, FillList, ListEnds, EvaluateImported, PassGroup,
                  LevelDone, Exchange, GiveBack, loop_vars, marks
    <2> QED BY <1>2, <2>1
  <1> QED BY <1>3, <1>4, <1>5, <1>6, <1>7, LoopsSteps

LEMMA NextKnown == ASSUME IInv, MarkedNow, Known, [LoopsNext]_loop_vars PROVE Known'
  <1>1. ASSUME UNCHANGED criterion, case' = case, Loop' = "potential" => Loop = "potential"
        PROVE  Known'
    BY <1>1 DEF Known, criterion, Now
  <1>2. ASSUME UNCHANGED <<criterion, called>>
        PROVE  Known'
    <2>1. case' = case /\ Loop' = Loop
      BY <1>2, SameLoop DEF called
    <2> QED BY <1>1, <1>2, <2>1
  <1>3. CASE NextCall
    <2>1. UNCHANGED criterion
      BY <1>3 DEF NextCall
    <2> QED BY <1>1, <1>3, <2>1, NextCalls DEF IInv
  <1>4. CASE GravityEnds
    <2>1. /\ case' = case /\ Loop' = "gravity" /\ Now' = Now /\ Loop = "gravity"
          /\ \A t \in Task : lpc[t] = "finish"
          /\ OldAcc' = [t \in Task |-> [i \in OnTask(t) |-> OldAcc[t][i] \/ endstep[t][i] = Now]]
          /\ ErrTolTheta' \in {"zero", ErrTolTheta}
      BY <1>4, SameLoop DEF GravityEnds, LoopAt, called
    <2>2. ErrTolTheta' \in {"set", "zero"}
      BY <2>1 DEF Known
    <2>3. \A t \in Task : OldAcc'[t] \in [OnTask(t) -> BOOLEAN]
      BY <2>1
    <2>4. ASSUME NEW t \in Task, NEW i \in OnTask(t), case.Ti_endstep[t][i] = Now, <<t, i>> \notin NoGravity
          PROVE  OldAcc'[t][i]
      <3>1. endstep[t][i] = Now
        BY <2>1, <2>4, MarksSeen DEF IInv, IsMarked
      <3>2. OldAcc'[t][i] = (OldAcc[t][i] \/ endstep[t][i] = Now)
        BY <2>1, Zenon
      <3> QED BY <3>1, <3>2
    <2> QED BY <2>1, <2>2, <2>3, <2>4 DEF Known
  <1>5. CASE \/ Begins \/ LoopEnds \/ DirectPrints
             \/ GatherNsend \/ AfterImported \/ RoundOver \/ UNCHANGED loop_vars
             \/ \E t \in Task : FillList(t) \/ ListEnds(t) \/ EvaluateImported(t) \/ PassGroup(t) \/ LevelDone(t)
             \/ \E t \in Task : \E u \in Task : Exchange(t, u) \/ GiveBack(t, u)
    <2>1. Begins => UNCHANGED <<criterion, called>>
      BY BeginsSteps
    <2>2. ~Begins => UNCHANGED <<criterion, called>>
      BY <1>5 DEF LoopEnds, DirectPrints, GatherNsend, AfterImported, RoundOver, FillList, ListEnds,
                  EvaluateImported, PassGroup, LevelDone, Exchange, GiveBack, loop_vars
    <2> QED BY <1>2, <2>1, <2>2
  <1> QED BY <1>3, <1>4, <1>5, LoopsSteps DEF Ends
-------------------------------------------------------------------------------
(* The particle that has its turn.                                         *)
LEMMA Turn ==
  ASSUME IInv, NEW t \in Task, FillList(t)
  PROVE  /\ start[t] \in Nat /\ start[t] < NumPart[t] /\ NumPart[t] \in Nat
         /\ start[t] \in OnTask(t) /\ start[t] < EndOfLoop(t)
         /\ start' = [start EXCEPT ![t] = start[t] + 1] /\ start'[t] = start[t] + 1
         /\ \A a \in Task \ {t} : start'[a] = start[a]
         /\ \A n \in Nat : n < start'[t] <=> n < start[t] \/ n = start[t]
         /\ lpc[t] = "fill" /\ lpc' = lpc
         /\ UNCHANGED <<called, marks, buffered, numleft, pairing, criterion, forcetest>>
  <1>1. PICK n \in Nat : n = start[t]
    BY DEF IInv, Typed
  <1>2. PICK m \in Nat : m = NumPart[t]
    BY Constants
  <1>3. n < EndOfLoop(t)
    BY <1>1 DEF FillList
  <1>4. EndOfLoop(t) \in Nat /\ EndOfLoop(t) <= m
    BY <1>2, InLoop DEF IInv
  <1>5. n < m
    BY <1>3, <1>4
  <1>6. n \in OnTask(t)
    BY <1>2, <1>5 DEF OnTask
  <1>7. start' = [start EXCEPT ![t] = n + 1] /\ start \in [Task -> Nat]
    BY <1>1 DEF FillList, IInv, Typed
  <1>8. \A k \in Nat : k < n + 1 <=> k < n \/ k = n
    OBVIOUS
  <1> QED BY <1>1, <1>2, <1>3, <1>5, <1>6, <1>7, <1>8 DEF FillList

(* A particle has been put on the lists for the tasks it goes to.          *)
OnLists(t, i) ==
  \A a, u \in Task : IndexTable'[a][u] =
     IF a = t /\ u \in Exportflag(t, i) THEN Append(IndexTable[t][u], i) ELSE IndexTable[a][u]

LEMMA Exported ==
  ASSUME IInv, Shapes, NEW t \in Task, FillList(t), NEW i, i = start[t], Wanted(t, i)
  PROVE  /\ OnLists(t, i)
         /\ parts'[t][i] = [number |-> 1, of |-> {Part(t, i, t, Informed(t, i))}]
         /\ \A a \in Task : \A k \in OnTask(a) : ~(a = t /\ k = i) => parts'[a][k] = parts[a][k]
         /\ DOMAIN parts' = Task /\ \A a \in Task : DOMAIN parts'[a] = OnTask(a)
         /\ numdone' = [numdone EXCEPT ![t] = @ + 1]
  <1>1. i \in OnTask(t)
    BY Turn
  <1>2. Export(t, i)
    BY DEF FillList
  <1>3. IndexTable \in [Task -> [Task -> Seq(Nat)]]
    BY DEF IInv, Typed
  <1>4. OnLists(t, i)
    BY <1>2, <1>3 DEF Export, OnLists
  <1>5. PICK one : one = [number |-> 1, of |-> {Part(t, i, t, Informed(t, i))}]
    OBVIOUS
  <1>6. parts' = [parts EXCEPT ![t][i] = one]
    BY <1>2, <1>5 DEF Export
  <1>7. /\ parts'[t][i] = one
        /\ \A a \in Task : \A k \in OnTask(a) : ~(a = t /\ k = i) => parts'[a][k] = parts[a][k]
        /\ DOMAIN parts' = Task /\ \A a \in Task : DOMAIN parts'[a] = OnTask(a)
    BY <1>1, <1>6 DEF Shapes
  <1> QED BY <1>2, <1>4, <1>5, <1>7 DEF Export

LEMMA NextShapes ==
  ASSUME IInv, Shapes, Reckoned, [LoopsNext]_loop_vars
  PROVE  Shapes'
  <1>1. ASSUME UNCHANGED <<start, numdone, parts, DataIn>>
        PROVE  Shapes'
    BY <1>1 DEF Shapes
  <1>2. ASSUME NEW t \in Task, FillList(t)
        PROVE  Shapes'
    <2>1. /\ start[t] \in Nat /\ start[t] < NumPart[t] /\ NumPart[t] \in Nat
          /\ start'[t] = start[t] + 1 /\ \A a \in Task \ {t} : start'[a] = start[a]
          /\ DataIn' = DataIn
      BY <1>2, Turn DEF buffered
    <2>2. start'[t] <= NumPart[t]
      BY <2>1
    <2>3. CASE ~Wanted(t, start[t])
      <3>1. UNCHANGED <<parts, numdone>>
        BY <1>2, <2>3 DEF FillList
      <3>2. numdone[t] \in Nat /\ numdone[t] <= start[t]
        BY DEF Shapes
      <3>3. numdone'[t] <= start'[t]
        BY <2>1, <3>1, <3>2
      <3> QED BY <2>1, <2>2, <3>1, <3>3 DEF Shapes
    <2>4. CASE Wanted(t, start[t])
      <3>1. /\ DOMAIN parts' = Task /\ \A a \in Task : DOMAIN parts'[a] = OnTask(a)
            /\ numdone' = [numdone EXCEPT ![t] = @ + 1]
        BY <1>2, <2>4, Exported
      <3>2. numdone[t] \in Nat /\ numdone[t] <= start[t]
        BY DEF Shapes
      <3>3. /\ numdone'[t] = numdone[t] + 1 /\ \A a \in Task \ {t} : numdone'[a] = numdone[a]
            /\ numdone' \in [Task -> Nat]
        BY <3>1 DEF Shapes
      <3>4. numdone'[t] <= start'[t]
        BY <2>1, <3>2, <3>3
      <3> QED BY <2>1, <2>2, <3>1, <3>3, <3>4 DEF Shapes
    <2> QED BY <2>3, <2>4
  <1>3. CASE Begins
    <2>1. /\ \A t \in Task : lpc[t] = "begin"
          /\ start' = EveryTask(0) /\ parts' = NoParts /\ UNCHANGED <<numdone, DataIn>>
      BY <1>3, BeginsSteps DEF buffered
    <2>2. \A t \in Task : numdone[t] = 0
      BY <2>1 DEF Reckoned, Filling, Meeting
    <2>3. DOMAIN parts' = Task /\ \A t \in Task : DOMAIN parts'[t] = OnTask(t)
      BY <2>1 DEF NoParts
    <2> QED BY <2>1, <2>2, <2>3, Constants DEF Shapes, EveryTask
  <1>4. CASE RoundOver
    <2>1. UNCHANGED <<start, parts, DataIn>> /\ numdone' = EveryTask(0)
      BY <1>4 DEF RoundOver, buffered
    <2>2. \A t \in Task : start[t] \in Nat
      BY DEF IInv, Typed
    <2> QED BY <2>1, <2>2 DEF Shapes, EveryTask
  <1>5. CASE NextCall
    <2>1. UNCHANGED <<start, numdone, parts>> /\ DataIn' = NoLists
      BY <1>5 DEF NextCall, listed
    <2> QED BY <2>1 DEF Shapes, NoLists, EveryTask
  <1>6. ASSUME NEW t \in Task, ListEnds(t)
        PROVE  Shapes'
    <2>1. UNCHANGED <<start, numdone, parts>> /\ DataIn' = [DataIn EXCEPT ![t] = [u \in Task |-> Requests(t, u)]]
      BY <1>6 DEF ListEnds, listed
    <2>2. DOMAIN DataIn' = Task /\ \A a \in Task : DOMAIN DataIn'[a] = Task
      BY <2>1 DEF Shapes
    <2> QED BY <2>1, <2>2 DEF Shapes
  <1>7. ASSUME NEW t \in Task, NEW u \in Task, GiveBack(t, u)
        PROVE  Shapes'
    <2>1. /\ UNCHANGED <<start, numdone>>
          /\ parts' = [parts EXCEPT ![t] = WithResults(t, u), ![u] = WithResults(u, t)]
          /\ \/ DataIn' = [DataIn EXCEPT ![t][u] = Results(t, u), ![u][t] = Results(u, t)]
             \/ DataIn' = DataIn
      BY <1>7 DEF GiveBack, listed
    <2>2. DOMAIN WithResults(t, u) = OnTask(t) /\ DOMAIN WithResults(u, t) = OnTask(u)
      BY DEF WithResults
    <2>3. DOMAIN parts' = Task /\ \A a \in Task : DOMAIN parts'[a] = OnTask(a)
      BY <2>1, <2>2 DEF Shapes
    <2>4. DOMAIN DataIn' = Task /\ \A a \in Task : DOMAIN DataIn'[a] = Task
      BY <2>1 DEF Shapes
    <2> QED BY <2>1, <2>3, <2>4 DEF Shapes
  <1>8. CASE Ends
    BY <1>1, <1>8, EndsSteps DEF listed, buffered
  <1>9. CASE \/ GatherNsend \/ AfterImported \/ UNCHANGED loop_vars
             \/ \E t \in Task : EvaluateImported(t) \/ PassGroup(t) \/ LevelDone(t)
             \/ \E t \in Task : \E u \in Task : Exchange(t, u)
    BY <1>1, <1>9 DEF GatherNsend, AfterImported, EvaluateImported, PassGroup, LevelDone, Exchange,
                      loop_vars, listed, buffered
  <1> QED BY <1>2, <1>3, <1>4, <1>5, <1>6, <1>7, <1>8, <1>9, LoopsSteps

LEMMA Appended ==
  ASSUME NEW S, NEW old \in Seq(S), NEW e \in S
  PROVE  /\ Len(Append(old, e)) = Len(old) + 1 /\ Len(old) \in Nat
         /\ \A x \in 1 .. Len(old) : Append(old, e)[x] = old[x]
         /\ Append(old, e)[Len(old) + 1] = e
  OBVIOUS

(* What is in a list of one task for another.                              *)
Entries(a, u, d, first) ==
  /\ \A x \in 1 .. Len(d) : /\ d[x] \in OnTask(a) /\ d[x] < first /\ Due(a, d[x])
                            /\ u \in Exportflag(a, d[x])
  /\ \A x, y \in 1 .. Len(d) : d[x] = d[y] => x = y

LEMMA ListEntries ==
  Lists <=> \A t, u \in Task : /\ Entries(t, u, IndexTable[t][u], start[t])
                               /\ lpc[t] \notin Filling \cup Meeting => IndexTable[t][u] = <<>>
  BY DEF Lists, Entries, Nsend

LEMMA FillListLists ==
  ASSUME MInv, Lists, NEW t \in Task, FillList(t)
  PROVE  Lists'
  <1> USE DEF MInv
  <1>1. PICK i : i = start[t]
    OBVIOUS
  <1>2. /\ i \in Nat /\ i \in OnTask(t) /\ i < EndOfLoop(t)
        /\ \A n \in Nat : n < start'[t] <=> n < i \/ n = i
        /\ \A a \in Task \ {t} : start'[a] = start[a]
        /\ lpc[t] = "fill" /\ lpc' = lpc /\ UNCHANGED called
    BY <1>1, Turn
  <1>3. \A a \in Task : lpc'[a] \in Filling
    BY <1>2, SameStage DEF Filling
  <1>4. \A a, u \in Task : IndexTable[a][u] \in Seq(Nat) /\ Entries(a, u, IndexTable[a][u], start[a])
    BY ListEntries DEF IInv, Typed
  <1>5. ASSUME NEW a \in Task, NEW u \in Task, NEW d \in Seq(Nat), d = IndexTable[a][u]
        PROVE  Entries(a, u, d, start'[a])
    <2>1. Entries(a, u, d, start[a]) /\ \A x \in 1 .. Len(d) : d[x] \in Nat
      BY <1>4, <1>5
    <2>2. \A n \in Nat : n < start[a] => n < start'[a]
      BY <1>1, <1>2
    <2> QED BY <2>1, <2>2 DEF Entries
  <1>6. ASSUME \A a, u \in Task : Entries(a, u, IndexTable'[a][u], start'[a])
        PROVE  Lists'
    <2>1. /\ \A a, u : Due(a, u)' = Due(a, u)
          /\ \A a, u : Exportflag(a, u)' = Exportflag(a, u)
      BY <1>2, SameLoop
    <2> QED BY <1>3, <1>6, <2>1 DEF Lists, Entries, Nsend
  <1>7. CASE ~Wanted(t, i)
    <2>1. IndexTable' = IndexTable
      BY <1>1, <1>7 DEF FillList
    <2>2. ASSUME NEW a \in Task, NEW u \in Task
          PROVE  Entries(a, u, IndexTable'[a][u], start'[a])
      <3>1. PICK d \in Seq(Nat) : d = IndexTable[a][u]
        BY <1>4
      <3> QED BY <1>5, <2>1, <3>1
    <2> QED BY <1>6, <2>2
  <1>8. CASE Wanted(t, i)
    <2>1. \A a, u \in Task : IndexTable'[a][u] =
            IF a = t /\ u \in Exportflag(t, i) THEN Append(IndexTable[t][u], i) ELSE IndexTable[a][u]
      <3>1. OnLists(t, i)
        BY <1>1, <1>8, Exported
      <3> QED BY <3>1 DEF OnLists
    <2>2. Due(t, i)
      BY <1>2, <1>8, WantedDue DEF IInv
    <2>3. ASSUME NEW a \in Task, NEW u \in Task
          PROVE  Entries(a, u, IndexTable'[a][u], start'[a])
      <3>1. PICK old \in Seq(Nat) : old = IndexTable[a][u]
        BY <1>4
      <3>2. Entries(a, u, old, start'[a])
        BY <1>5, <3>1
      <3>3. CASE a = t /\ u \in Exportflag(t, i)
        <4>1. PICK new : new = Append(old, i)
          OBVIOUS
        <4>2. /\ Len(new) = Len(old) + 1 /\ Len(old) \in Nat
              /\ \A x \in 1 .. Len(old) : new[x] = old[x]
              /\ new[Len(old) + 1] = i
          BY <1>2, <4>1, Appended
        <4>3. \A x \in 1 .. Len(new) : x \in 1 .. Len(old) \/ x = Len(old) + 1
          BY <4>2
        <4>4. i < start'[t]
          BY <1>2
        <4>5. \A x \in 1 .. Len(old) : old[x] # i
          <5>1. Entries(t, u, old, i)
            BY <1>1, <1>4, <3>1, <3>3
          <5> QED BY <1>2, <5>1 DEF Entries
        <4>6. Entries(t, u, new, start'[t])
          <5>1. ASSUME NEW x \in 1 .. Len(new)
                PROVE  new[x] \in OnTask(t) /\ new[x] < start'[t] /\ Due(t, new[x]) /\ u \in Exportflag(t, new[x])
            <6>1. CASE x \in 1 .. Len(old)
              BY <3>2, <3>3, <4>2, <6>1 DEF Entries
            <6>2. CASE x = Len(old) + 1
              BY <1>2, <2>2, <3>3, <4>2, <4>4, <6>2
            <6> QED BY <4>3, <6>1, <6>2
          <5>2. ASSUME NEW x \in 1 .. Len(new), NEW y \in 1 .. Len(new), new[x] = new[y]
                PROVE  x = y
            <6>1. CASE x \in 1 .. Len(old) /\ y \in 1 .. Len(old)
              BY <3>2, <3>3, <4>2, <5>2, <6>1 DEF Entries
            <6>2. CASE ~(x \in 1 .. Len(old) /\ y \in 1 .. Len(old))
              BY <4>2, <4>3, <4>5, <5>2, <6>2
            <6> QED BY <6>1, <6>2
          <5> QED BY <5>1, <5>2 DEF Entries
        <4> QED BY <2>1, <3>1, <3>3, <4>1, <4>6
      <3>4. CASE ~(a = t /\ u \in Exportflag(t, i))
        BY <2>1, <3>1, <3>2, <3>4
      <3> QED BY <3>3, <3>4
    <2> QED BY <1>6, <2>3
  <1> QED BY <1>7, <1>8

LEMMA NextLists ==
  ASSUME MInv, Lists, [LoopsNext]_loop_vars
  PROVE  Lists'
  <1> USE DEF MInv
  <1>1. ASSUME UNCHANGED <<called, IndexTable, start>>,
               \A t \in Task : lpc'[t] \notin Filling \cup Meeting => lpc[t] \notin Filling \cup Meeting
        PROVE  Lists'
    <2>1. /\ \A a, u : Due(a, u)' = Due(a, u)
          /\ \A a, u : Exportflag(a, u)' = Exportflag(a, u)
      BY <1>1, SameLoop
    <2> QED BY <1>1, <2>1 DEF Lists, Nsend
  <1>2. ASSUME \A t, u \in Task : IndexTable'[t][u] = <<>>
        PROVE  Lists'
    BY <1>2 DEF Lists, Nsend
  <1>3. ASSUME IndexTable' = IndexTable, \A t \in Task : lpc[t] \notin Filling \cup Meeting
        PROVE  Lists'
    BY <1>2, <1>3 DEF Lists
  <1>4. CASE Begins
    <2>1. IndexTable' = IndexTable /\ \A t \in Task : lpc[t] = "begin"
      BY <1>4, BeginsSteps
    <2> QED BY <1>3, <2>1 DEF Filling, Meeting
  <1>5. CASE Ends
    <2>1. IndexTable' = IndexTable /\ \A t \in Task : lpc[t] = "finish"
      BY <1>5, EndsSteps DEF listed
    <2> QED BY <1>3, <2>1 DEF Filling, Meeting
  <1>6. CASE NextCall
    <2>1. IndexTable' = IndexTable /\ \A t \in Task : lpc[t] = "returned"
      BY <1>6 DEF NextCall, LoopAt, listed
    <2> QED BY <1>3, <2>1 DEF Filling, Meeting
  <1>7. CASE RoundOver
    <2>1. IndexTable' = NoLists
      BY <1>7 DEF RoundOver
    <2> QED BY <1>2, <2>1 DEF NoLists, EveryTask
  <1>8. CASE GatherNsend \/ AfterImported
    <2>1. /\ UNCHANGED <<called, IndexTable, start>>
          /\ \A t \in Task : lpc'[t] \in {"send", "round", "return"}
      BY <1>8 DEF GatherNsend, AfterImported, EveryTask, listed
    <2> QED BY <1>1, <2>1 DEF Meeting
  <1>9. ASSUME NEW t \in Task, ListEnds(t) \/ EvaluateImported(t) \/ PassGroup(t) \/ LevelDone(t)
        PROVE  Lists'
    <2>1. UNCHANGED <<called, IndexTable, start>>
      BY <1>9 DEF ListEnds, EvaluateImported, PassGroup, LevelDone, listed
    <2>2. /\ \A a \in Task \ {t} : lpc'[a] = lpc[a]
          /\ lpc'[t] \in Filling \cup Meeting
      BY <1>9, StepInStage
    <2> QED BY <1>1, <2>1, <2>2
  <1>10. ASSUME NEW t \in Task, NEW u \in Task, Exchange(t, u) \/ GiveBack(t, u)
         PROVE  Lists'
    <2>1. UNCHANGED <<called, IndexTable, start, lpc>>
      BY <1>10 DEF Exchange, GiveBack, NextGroup, listed
    <2> QED BY <1>1, <2>1
  <1>11. CASE UNCHANGED loop_vars
    BY <1>1, <1>11 DEF loop_vars, listed
  <1> HIDE DEF MInv
  <1> QED BY <1>4, <1>5, <1>6, <1>7, <1>8, <1>9, <1>10, <1>11, FillListLists, LoopsSteps
-------------------------------------------------------------------------------
LEMMA Partnership ==
  ASSUME NEW t \in Task, NEW n \in 1 .. Groups - 1, PairedBy[<<t, n>>] < NTask
  PROVE  /\ PairedBy[<<t, n>>] \in Task /\ PairedBy[<<t, n>>] # t
         /\ PairedBy[<<PairedBy[<<t, n>>], n>>] = t
  <1>1. PairedBy[<<t, n>>] \in Nat
    BY XorAssumption
  <1>2. PairedBy[<<t, n>>] \in Task
    BY <1>1, Constants DEF Task
  <1> QED BY <1>2, XorAssumption

(* As long as the lists stay, so does the order in which they are passed.  *)
LEMMA SameBooks ==
  ASSUME UNCHANGED <<called, IndexTable>>
  PROVE  /\ \A j, m : Inflow(j, m)' = Inflow(j, m)
         /\ \A f, m : Full(f, m)' <=> Full(f, m)
         /\ \A a, b : Nsend(a, b)' = Nsend(a, b)
         /\ \A a, b, x : CopyOf(a, b, x)' = CopyOf(a, b, x)
         /\ EveryTask(0)' = EveryTask(0)
  <1>1. BunchSize' = BunchSize
    BY SameLoop
  <1>2. \A a, b : Nsend(a, b)' = Nsend(a, b)
    BY DEF Nsend
  <1>3. \A j, m : Inflow(j, m)' = Inflow(j, m)
    BY <1>2 DEF Inflow
  <1>4. \A f, m : Full(f, m)' <=> Full(f, m)
    BY <1>1, <1>3 DEF Full
  <1> QED BY <1>2, <1>3, <1>4 DEF CopyOf, EveryTask

LEMMA SamePassed ==
  ASSUME NEW t \in Task, NEW off, NEW last, Passed(t, off, last),
         UNCHANGED <<called, IndexTable>>, llevel'[t] = llevel[t]
  PROVE  Passed(t, off, last)'
  <1>1. /\ \A j, m : Inflow(j, m)' = Inflow(j, m)
        /\ \A f, m : Full(f, m)' <=> Full(f, m)
        /\ EveryTask(0)' = EveryTask(0)
    BY SameBooks
  <1>2. \A n : [j \in Task |-> off[n][j] + Inflow(j, n)'] = [j \in Task |-> off[n][j] + Inflow(j, n)]
    BY <1>1
  <1> QED BY <1>1, <1>2 DEF Passed

LEMMA SameGetHolds ==
  ASSUME NEW t \in Task, NEW off, NEW last, GetHolds(t, off, last),
         UNCHANGED <<called, IndexTable>>, llevel'[t] = llevel[t], DataGet'[t] = DataGet[t]
  PROVE  GetHolds(t, off, last)'
  BY SameBooks DEF GetHolds, LaidOut

LEMMA SameResultHolds ==
  ASSUME NEW t \in Task, NEW off, NEW last, ResultHolds(t, off, last),
         UNCHANGED <<called, IndexTable>>, llevel'[t] = llevel[t], DataGet'[t] = DataGet[t]
  PROVE  ResultHolds(t, off, last)'
  BY SameBooks DEF ResultHolds, LaidOut, ResultOf

(* What the books of a task say does not depend on anything else.          *)
LEMMA BooksUnchanged ==
  ASSUME NEW t \in Task, NEW off, NEW last, Stands(t, off, last),
         lpc'[t] = lpc[t], llevel'[t] = llevel[t], lngrp'[t] = lngrp[t], lnbuffer'[t] = lnbuffer[t],
         DataGet'[t] = DataGet[t], UNCHANGED <<called, IndexTable>>
  PROVE  Stands(t, off, last)'
  <1>1. Passed(t, off, last)'
    BY SamePassed DEF Stands
  <1>2. GetHolds(t, off, last) => GetHolds(t, off, last)'
    BY SameGetHolds
  <1>3. ResultHolds(t, off, last) => ResultHolds(t, off, last)'
    BY SameResultHolds
  <1>4. Full(off[last], last)' <=> Full(off[last], last)
    BY SameBooks
  <1> QED BY <1>1, <1>2, <1>3, <1>4 DEF Stands

(* A level begins: nothing has been sent.                                  *)
LEMMA LevelStarts ==
  ASSUME NEW t \in Task, llevel'[t] \in 1 .. Groups, lpc'[t] = "send", lngrp'[t] = llevel'[t],
         lnbuffer'[t] = EveryTask(0)
  PROVE  \E off, last : Stands(t, off, last)'
  <1>1. PICK off : off = [n \in 1 .. Groups |-> EveryTask(0)]
    OBVIOUS
  <1>2. PICK last : last = llevel'[t] /\ last \in 1 .. Groups
    OBVIOUS
  <1>3. last \in Nat /\ last \in last .. Groups /\ last .. last - 1 = {}
    BY <1>2, Constants
  <1>4. EveryTask(0) \in [Task -> Nat]
    BY DEF EveryTask
  <1>5. off \in [1 .. Groups -> [Task -> Nat]] /\ off[last] = EveryTask(0)
    BY <1>1, <1>2, <1>4
  <1>6. Passed(t, off, last)'
    BY <1>2, <1>3, <1>5 DEF Passed, EveryTask
  <1>7. GetHolds(t, off, last)'
    BY <1>2, <1>3 DEF GetHolds, LaidOut
  <1>8. Stands(t, off, last)'
    BY <1>2, <1>5, <1>6, <1>7 DEF Stands, EveryTask
  <1> QED BY <1>8

(* What a meeting does to a buffer: the particles already counted stay     *)
(* where they are, those of the other task are put behind them.            *)
Stored(t) ==
  /\ \A x \in 1 .. lnbuffer[t][t] : DataGet'[t][x] = DataGet[t][x]
  /\ recvTask(t) < NTask =>
       \A x \in 1 .. Nsend(recvTask(t), t) :
         DataGet'[t][lnbuffer[t][t] + x] = CopyOf(recvTask(t), t, x)

LEMMA ArrivalsStored ==
  ASSUME IInv, Asked, NEW t \in Task, NEW u \in Task, recvTask(t) = u, recvTask(u) = t,
         lpc[u] = "send", ~LevelBreaks(u), lpc[t] = "send", DataGet'[t] = Arrivals(t, u)
  PROVE  Stored(t)
  <1>1. PICK n \in Nat, k \in Nat : n = lnbuffer[t][t] /\ k = Nsend(u, t)
    <2>1. lnbuffer[t][t] \in Nat /\ Nsend(u, t) \in Nat
      BY DEF IInv, Typed, Nsend
    <2> QED BY <2>1
  <1>2. t \in Awaited(u)
    <2>1. lngrp[u] \in 1 .. Groups - 1 /\ llevel[u] <= lngrp[u] /\ llevel[u] \in 1 .. Groups
      BY GroupFits DEF IInv, LevelBegins, Typed
    <2>2. lngrp[u] \in llevel[u] .. Groups - 1 /\ Ahead(u) = llevel[u]
      BY <2>1, Constants DEF Ahead
    <2> QED BY <2>2 DEF Awaited, recvTask
  <1>3. \A x \in 1 .. k : DataIn[u][t][x] = CopyOf(u, t, x)
    BY <1>1, <1>2 DEF Asked, Meeting
  <1>4. 1 .. n \subseteq DOMAIN DataGet[t]
    BY <1>1 DEF IInv, Counted
  <1>5. Arrivals(t, u) = [x \in DOMAIN DataGet[t] \cup 1 .. n + k |->
                            IF x > n /\ x <= n + k THEN DataIn[u][t][x - n] ELSE DataGet[t][x]]
    BY <1>1 DEF Arrivals
  <1>6. \A x \in 1 .. n : DataGet'[t][x] = DataGet[t][x]
    BY <1>4, <1>5
  <1>7. ASSUME NEW x \in 1 .. k PROVE DataGet'[t][n + x] = CopyOf(u, t, x)
    <2>1. n + x \in 1 .. n + k /\ n + x > n /\ n + x <= n + k /\ (n + x) - n = x
      OBVIOUS
    <2>2. DataGet'[t][n + x] = DataIn[u][t][(n + x) - n]
      BY <1>5, <2>1
    <2> QED BY <1>3, <2>1, <2>2
  <1> QED BY <1>1, <1>6, <1>7 DEF Stored

(* A group of pairs has been passed in sending.                            *)
LEMMA GroupSent ==
  ASSUME IInv, NEW t \in Task, NEW off, NEW last, Stands(t, off, last),
         lpc[t] = "send", lpc'[t] = "send", ~LevelBreaks(t), UNCHANGED <<called, IndexTable>>,
         llevel'[t] = llevel[t], lngrp'[t] = lngrp[t] + 1,
         lnbuffer'[t] = [j \in Task |-> lnbuffer[t][j] + Inflow(j, lngrp[t])], Stored(t)
  PROVE  \E o, l : Stands(t, o, l)'
  <1>1. /\ Passed(t, off, last) /\ lngrp[t] = last /\ lnbuffer[t] = off[last]
        /\ GetHolds(t, off, last)
    BY DEF Stands
  <1>2. last \in 1 .. Groups - 1 /\ \A j \in Task : off[last][j] + Inflow(j, last) \in Nat
    BY <1>1, GroupFits
  <1>3. PICK n : n = last + 1
    OBVIOUS
  <1>4. PICK fill : fill = [j \in Task |-> off[last][j] + Inflow(j, last)]
    OBVIOUS
  <1>5. PICK o : o = [off EXCEPT ![n] = fill]
    OBVIOUS
  <1>6. PICK low : low = llevel[t] /\ low \in 1 .. Groups
    BY DEF IInv, Typed
  <1>7. /\ last \in Nat /\ low \in Nat /\ n \in Nat /\ n \in 1 .. Groups /\ n \in low .. Groups
        /\ low <= last /\ last < Groups
        /\ \A m \in low .. n - 1 : m \in low .. last - 1 \/ m = last
        /\ \A m \in low .. last : m \in 1 .. Groups /\ m # n
        /\ \A m \in low .. last - 1 : m \in low .. last /\ m + 1 \in low .. last
        /\ last \in low .. last
    <2>1. last \in low .. Groups
      BY <1>1, <1>6 DEF Passed
    <2>2. PICK g \in Nat : g = Groups
      BY Constants
    <2>3. last \in 1 .. g - 1 /\ low \in 1 .. g /\ last \in low .. g /\ n = last + 1
      BY <1>2, <1>3, <1>6, <2>1, <2>2
    <2>4. last \in Nat /\ low \in Nat /\ n \in Nat /\ n \in 1 .. g /\ n \in low .. g /\ low <= last /\ last < g
      BY <2>3
    <2>5. \A m \in low .. n - 1 : m \in low .. last - 1 \/ m = last
      BY <2>3
    <2>6. \A m \in low .. last : m \in 1 .. g /\ m # n
      BY <2>3
    <2>7. \A m \in low .. last - 1 : m \in low .. last /\ m + 1 \in low .. last
      BY <2>3
    <2> QED BY <2>2, <2>4, <2>5, <2>6, <2>7
  <1>8. /\ off \in [1 .. Groups -> [Task -> Nat]]
        /\ off[low] = EveryTask(0)
        /\ \A m \in low .. last - 1 : /\ off[m + 1] = [j \in Task |-> off[m][j] + Inflow(j, m)]
                                      /\ ~Full(off[m], m)
    BY <1>1, <1>6 DEF Passed
  <1>9. fill \in [Task -> Nat]
    BY <1>2, <1>4
  <1>10. /\ o \in [1 .. Groups -> [Task -> Nat]] /\ o[n] = fill
         /\ \A m \in low .. last : o[m] = off[m]
    BY <1>5, <1>7, <1>8, <1>9
  <1>11. ~Full(off[last], last)
    BY <1>1, <1>7 DEF LevelBreaks, Overfull, Full
  <1>12. /\ \A m : \A f : (Full(f, m)' <=> Full(f, m)) /\ \A j : Inflow(j, m)' = Inflow(j, m)
         /\ \A a, b : Nsend(a, b)' = Nsend(a, b)
         /\ \A a, b, x : CopyOf(a, b, x)' = CopyOf(a, b, x)
         /\ EveryTask(0)' = EveryTask(0)
    BY SameBooks
  <1>13. ASSUME NEW m \in low .. n - 1
         PROVE  o[m + 1] = [j \in Task |-> o[m][j] + Inflow(j, m)] /\ ~Full(o[m], m)
    <2>1. CASE m \in low .. last - 1
      BY <1>7, <1>8, <1>10, <2>1
    <2>2. CASE m = last
      BY <1>3, <1>4, <1>7, <1>10, <1>11, <2>2
    <2> QED BY <1>7, <2>1, <2>2
  <1>14. Passed(t, o, n)'
    <2>1. o[low] = EveryTask(0)
      BY <1>7, <1>8, <1>10
    <2>2. llevel'[t] = low
      BY <1>6
    <2>3. \A m \in low .. n - 1 :
            /\ o[m + 1] = [j \in Task |-> o[m][j] + Inflow(j, m)']
            /\ ~Full(o[m], m)'
      BY <1>12, <1>13
    <2> QED BY <1>7, <1>10, <1>12, <2>1, <2>2, <2>3 DEF Passed
  <1>15. /\ \A m \in low .. n - 1 : m \in 1 .. Groups - 1 /\ m \in low .. last
         /\ \A m \in low .. last : off[m][t] \in Nat
    <2>1. \A m \in low .. n - 1 : m \in 1 .. Groups - 1 /\ m \in low .. last
      <3>1. PICK g \in Nat : g = Groups
        BY Constants
      <3>2. last \in 1 .. g - 1 /\ low \in 1 .. g /\ n = last + 1 /\ low <= last
        BY <1>2, <1>3, <1>6, <1>7, <3>1
      <3>3. \A m \in low .. n - 1 : m \in 1 .. g - 1 /\ m \in low .. last
        BY <3>2
      <3> QED BY <3>1, <3>3
    <2> QED BY <1>7, <1>8, <2>1
  <1>16. PICK full \in Nat : full = off[last][t]
    BY <1>7, <1>15
  <1>17. ASSUME NEW m \in low .. n - 1, PairedBy[<<t, m>>] < NTask
         PROVE  /\ o[m][t] + Nsend(PairedBy[<<t, m>>], t) <= o[n][t]
                /\ \A x \in 1 .. Nsend(PairedBy[<<t, m>>], t) :
                     DataGet'[t][o[m][t] + x] = CopyOf(PairedBy[<<t, m>>], t, x)
    <2>1. PICK k : k = Nsend(PairedBy[<<t, m>>], t)
      OBVIOUS
    <2>2. k \in Nat
      BY <1>15, <1>17, <2>1, Partnership DEF IInv, Typed, Nsend
    <2>3. PICK more \in Nat : more = Inflow(t, last)
      BY <1>2, InflowNat
    <2>4. o[n][t] = full + more
      BY <1>4, <1>10, <1>16, <2>3
    <2>5. CASE m = last
      <3>1. o[m][t] = full /\ recvTask(t) = PairedBy[<<t, m>>] /\ more = k
        BY <1>1, <1>7, <1>10, <1>16, <1>17, <2>1, <2>3, <2>5 DEF recvTask, Inflow
      <3>2. \A x \in 1 .. k : DataGet'[t][full + x] = CopyOf(PairedBy[<<t, m>>], t, x)
        BY <1>1, <1>16, <1>17, <2>1, <3>1 DEF Stored
      <3>3. full + k <= o[n][t]
        BY <2>2, <2>4, <3>1
      <3> QED BY <2>1, <3>1, <3>2, <3>3
    <2>6. CASE m \in low .. last - 1
      <3>1. PICK z \in Nat : z = off[m][t]
        BY <1>15
      <3>2. o[m][t] = z
        BY <1>10, <1>15, <3>1
      <3>3. /\ z + k <= full
            /\ \A x \in 1 .. k : DataGet[t][z + x] = CopyOf(PairedBy[<<t, m>>], t, x)
        BY <1>1, <1>6, <1>16, <1>17, <2>1, <2>6, <3>1 DEF GetHolds, LaidOut
      <3>4. \A x \in 1 .. k : z + x \in 1 .. full
        BY <2>2, <3>3
      <3>5. \A x \in 1 .. full : DataGet'[t][x] = DataGet[t][x]
        BY <1>1, <1>16 DEF Stored
      <3>6. z + k <= o[n][t]
        BY <2>2, <2>4, <3>3
      <3> QED BY <2>1, <3>2, <3>3, <3>4, <3>5, <3>6
    <2> QED BY <1>7, <2>5, <2>6
  <1>18. GetHolds(t, o, n)'
    <2>1. llevel'[t] = low
      BY <1>6
    <2> QED BY <1>12, <1>17, <2>1 DEF GetHolds, LaidOut
  <1>19. Stands(t, o, n)'
    <2>1. lngrp'[t] = n /\ lnbuffer'[t] = o[n]
      BY <1>1, <1>3, <1>4, <1>10
    <2> QED BY <1>14, <1>18, <2>1 DEF Stands
  <1> QED BY <1>19

(* On the way back a task passes the groups of the level, and no others.   *)
LEMMA WithinLevel ==
  ASSUME IInv, NEW t \in Task, NEW off, NEW last, Stands(t, off, last),
         lpc[t] = "return", ~LevelBreaks(t)
  PROVE  /\ lngrp[t] \in llevel[t] .. last - 1 /\ lngrp[t] \in 1 .. Groups - 1
         /\ lnbuffer[t] = off[lngrp[t]] /\ ResultHolds(t, off, last)
         /\ off[lngrp[t] + 1] = [j \in Task |-> lnbuffer[t][j] + Inflow(j, lngrp[t])]
  <1>1. /\ Passed(t, off, last) /\ lngrp[t] \in llevel[t] .. last /\ lnbuffer[t] = off[lngrp[t]]
        /\ last < Groups => Full(off[last], last)
        /\ ResultHolds(t, off, last)
    BY DEF Stands
  <1>2. lngrp[t] \in 1 .. Groups - 1
    BY GroupFits
  <1>3. ~Full(off[lngrp[t]], lngrp[t])
    BY <1>1, <1>2, Constants DEF LevelBreaks, Overfull, Full
  <1>4. PICK n \in Nat : n = lngrp[t]
    BY <1>2
  <1>5. last \in llevel[t] .. Groups /\ llevel[t] \in Nat /\ Groups \in Nat
    BY <1>1, Constants DEF Passed, IInv, Typed
  <1>6. n # last
    BY <1>1, <1>2, <1>3, <1>4, <1>5
  <1>7. n \in llevel[t] .. last - 1
    BY <1>1, <1>4, <1>5, <1>6
  <1>8. off[n + 1] = [j \in Task |-> off[n][j] + Inflow(j, n)]
    BY <1>1, <1>7 DEF Passed
  <1> QED BY <1>1, <1>2, <1>4, <1>7, <1>8

LEMMA GroupReturned ==
  ASSUME IInv, NEW t \in Task, NEW off, NEW last, Stands(t, off, last),
         lpc[t] = "return", lpc'[t] = "return", ~LevelBreaks(t), UNCHANGED <<called, IndexTable>>,
         llevel'[t] = llevel[t], lngrp'[t] = lngrp[t] + 1,
         lnbuffer'[t] = [j \in Task |-> lnbuffer[t][j] + Inflow(j, lngrp[t])],
         DataGet'[t] = DataGet[t]
  PROVE  Stands(t, off, last)'
  <1>1. /\ lngrp[t] \in llevel[t] .. last - 1 /\ lnbuffer'[t] = off[lngrp[t] + 1]
        /\ ResultHolds(t, off, last)
    BY WithinLevel
  <1>2. /\ Passed(t, off, last)
        /\ last < Groups => Full(off[last], last)
    BY DEF Stands
  <1>3. Passed(t, off, last)'
    BY <1>2, SamePassed
  <1>4. ResultHolds(t, off, last)'
    BY <1>1, SameResultHolds
  <1>5. lngrp'[t] \in llevel'[t] .. last
    <2>1. last \in llevel[t] .. Groups
      BY <1>2 DEF Passed
    <2>2. llevel[t] \in Nat /\ Groups \in Nat /\ lngrp[t] \in Nat
      BY Constants DEF IInv, Typed
    <2> QED BY <1>1, <2>1, <2>2
  <1>6. last < Groups => Full(off[last], last)'
    BY <1>2, SameBooks
  <1>7. lnbuffer'[t] = off[lngrp'[t]]
    BY <1>1
  <1> QED BY <1>3, <1>4, <1>5, <1>6, <1>7 DEF Stands

LEMMA ImportedEvaluated ==
  ASSUME IInv, NEW t \in Task, EvaluateImported(t), NEW off, NEW last, Stands(t, off, last)
  PROVE  Stands(t, off, last)'
  <1>1. /\ Passed(t, off, last) /\ lngrp[t] = last /\ lnbuffer[t] = off[last]
        /\ GetHolds(t, off, last) /\ lpc[t] = "send" /\ LevelBreaks(t)
    BY EvaluateSteps DEF Stands
  <1>2. /\ UNCHANGED <<called, IndexTable, llevel>>
        /\ DataGet'[t] = Evaluated(t)
        /\ \/ lpc'[t] = "barrier" /\ lngrp'[t] = lngrp[t] /\ lnbuffer'[t] = lnbuffer[t]
           \/ lpc'[t] = "return" /\ lngrp'[t] = llevel[t] /\ lnbuffer'[t] = EveryTask(0)
    BY EvaluateSteps DEF listed
  <1>3. Passed(t, off, last)'
    BY <1>1, <1>2, SamePassed
  <1>4. last < Groups => Full(off[last], last)'
    <2>1. last < Groups => Full(off[last], last)
      BY <1>1 DEF LevelBreaks, Overfull, Full
    <2> QED BY <1>2, <2>1, SameBooks
  <1>5. /\ last \in llevel[t] .. Groups /\ llevel[t] \in 1 .. Groups /\ off \in [1 .. Groups -> [Task -> Nat]]
        /\ off[llevel[t]] = EveryTask(0)
    BY <1>1 DEF IInv, Typed, Passed
  <1>6. PICK full \in Nat : full = off[last][t]
    BY <1>5, Constants
  <1>7. \A x \in 1 .. full : DataGet'[t][x] = ResultOf(DataGet[t][x], t)
    <2>1. 1 .. full \subseteq DOMAIN DataGet[t]
      BY <1>1, <1>6 DEF IInv, Counted
    <2> QED BY <1>1, <1>2, <1>6, <2>1 DEF Evaluated, ResultOf
  <1>8. ASSUME NEW m \in llevel[t] .. last - 1, PairedBy[<<t, m>>] < NTask
        PROVE  /\ off[m][t] + Nsend(PairedBy[<<t, m>>], t) <= off[last][t]
               /\ \A x \in 1 .. Nsend(PairedBy[<<t, m>>], t) :
                    DataGet'[t][off[m][t] + x] = ResultOf(CopyOf(PairedBy[<<t, m>>], t, x), t)
    <2>1. m \in 1 .. Groups - 1 /\ last \in 1 .. Groups
      BY <1>5, Constants
    <2>2. PICK k : k = Nsend(PairedBy[<<t, m>>], t)
      OBVIOUS
    <2>3. k \in Nat
      BY <1>8, <2>1, <2>2, Partnership DEF IInv, Typed, Nsend
    <2>4. PICK z \in Nat : z = off[m][t]
      BY <1>5, <2>1, Constants
    <2>5. /\ z + k <= full
          /\ \A x \in 1 .. k : DataGet[t][z + x] = CopyOf(PairedBy[<<t, m>>], t, x)
      BY <1>1, <1>6, <1>8, <2>2, <2>4 DEF GetHolds, LaidOut
    <2>6. \A x \in 1 .. k : z + x \in 1 .. full
      BY <2>3, <2>5
    <2> QED BY <1>6, <1>7, <2>2, <2>4, <2>5, <2>6
  <1>9. ResultHolds(t, off, last)'
    <2>1. /\ \A a, b : Nsend(a, b)' = Nsend(a, b)
          /\ \A a, b, x : CopyOf(a, b, x)' = CopyOf(a, b, x)
      BY <1>2, SameBooks
    <2>2. llevel'[t] = llevel[t]
      BY <1>2
    <2> QED BY <1>8, <2>1, <2>2 DEF ResultHolds, LaidOut, ResultOf
  <1>10. lpc'[t] = "return" => lngrp'[t] \in llevel'[t] .. last /\ lnbuffer'[t] = off[lngrp'[t]]
    <2>1. last \in llevel[t] .. Groups /\ llevel[t] \in Nat /\ Groups \in Nat
      BY <1>5, Constants
    <2> QED BY <1>2, <1>5, <2>1
  <1> QED BY <1>2, <1>3, <1>4, <1>9, <1>10 DEF Stands

LEMMA BarrierPassed ==
  ASSUME IInv, NEW t \in Task, AfterImported, NEW off, NEW last, Stands(t, off, last)
  PROVE  Stands(t, off, last)'
  <1>1. /\ Passed(t, off, last) /\ lpc[t] = "barrier"
        /\ last < Groups => Full(off[last], last)
        /\ ResultHolds(t, off, last)
    BY DEF Stands, AfterImported, LoopAt
  <1>2. /\ lpc'[t] = "return" /\ UNCHANGED <<called, IndexTable, llevel, DataGet>>
        /\ lngrp'[t] = llevel[t] /\ lnbuffer'[t] = EveryTask(0)
    BY DEF AfterImported, listed, buffered, EveryTask
  <1>3. Passed(t, off, last)'
    BY <1>1, <1>2, SamePassed
  <1>4. ResultHolds(t, off, last)'
    BY <1>1, <1>2, SameResultHolds
  <1>5. last < Groups => Full(off[last], last)'
    BY <1>1, <1>2, SameBooks
  <1>6. lngrp'[t] \in llevel'[t] .. last /\ lnbuffer'[t] = off[lngrp'[t]]
    <2>1. last \in llevel[t] .. Groups /\ llevel[t] \in Nat /\ Groups \in Nat
      BY <1>1, Constants DEF Passed, IInv, Typed
    <2> QED BY <1>1, <1>2, <2>1 DEF Passed
  <1> QED BY <1>2, <1>3, <1>4, <1>5, <1>6 DEF Stands

(* The books of a task that others do not disturb.                         *)
LEMMA CountedOn ==
  ASSUME IInv, NEW T \in SUBSET Task, NextGroup(T), NEW a \in Task
  PROVE  /\ lpc' = lpc /\ llevel' = llevel
         /\ a \notin T => lngrp'[a] = lngrp[a] /\ lnbuffer'[a] = lnbuffer[a]
         /\ a \in T => /\ lngrp'[a] = lngrp[a] + 1
                       /\ lnbuffer'[a] = [j \in Task |-> lnbuffer[a][j] + Inflow(j, lngrp[a])]
  BY DEF NextGroup

LEMMA NextBooked ==
  ASSUME IInv, Together, Asked, Booked, [LoopsNext]_loop_vars
  PROVE  Booked'
  <1> USE DEF Filling, Meeting
  <1>1. \A t \in Task : lpc[t] \in {"send", "barrier", "return"} => \E off, last : Stands(t, off, last)
    BY DEF Booked
  <1>2. SUFFICES ASSUME NEW a \in Task, lpc'[a] \in {"send", "barrier", "return"}
                 PROVE  \E off, last : Stands(a, off, last)'
    BY DEF Booked
  <1>3. IInv'
    BY NextIInv
  <1>4. ASSUME lpc'[a] = lpc[a], llevel'[a] = llevel[a], lngrp'[a] = lngrp[a], lnbuffer'[a] = lnbuffer[a],
               DataGet'[a] = DataGet[a], UNCHANGED <<called, IndexTable>>
        PROVE  \E off, last : Stands(a, off, last)'
    <2>1. PICK off, last : Stands(a, off, last)
      BY <1>1, <1>2, <1>4
    <2>2. Stands(a, off, last)'
      BY <1>4, <2>1, BooksUnchanged
    <2> QED BY <2>2
  <1>5. CASE GatherNsend
    <2>1. lpc'[a] = "send" /\ llevel'[a] = 1 /\ lngrp'[a] = llevel'[a] /\ lnbuffer'[a] = EveryTask(0)
      BY <1>2, <1>5 DEF GatherNsend, EveryTask
    <2>2. llevel'[a] \in 1 .. Groups
      BY <1>3 DEF IInv, Typed
    <2> QED BY <2>1, <2>2, LevelStarts
  <1>6. CASE AfterImported
    <2>1. lpc[a] = "barrier"
      BY <1>6 DEF AfterImported, LoopAt
    <2>2. PICK off, last : Stands(a, off, last)
      BY <1>1, <2>1
    <2>3. Stands(a, off, last)'
      BY <1>6, <2>2, BarrierPassed
    <2> QED BY <2>3
  <1>7. CASE Begins \/ Ends \/ RoundOver \/ NextCall
    <2>1. ~Begins
      BY <1>2, BeginsSteps DEF EveryTask
    <2>2. ~Ends
      BY <1>2, EndsSteps DEF EveryTask
    <2>3. CASE RoundOver \/ NextCall
      BY <1>2, <2>3 DEF RoundOver, NextCall, EveryTask
    <2> QED BY <1>7, <2>1, <2>2, <2>3
  <1>8. ASSUME NEW t \in Task, FillList(t) \/ ListEnds(t)
        PROVE  \E off, last : Stands(a, off, last)'
    <2>1. lpc[t] \notin Meeting
      BY <1>8 DEF FillList, ListEnds
    <2>2. lpc[a] \notin Meeting
      BY <2>1, SameStage
    <2>3. lpc'[a] \notin Meeting
      BY <1>8, <2>1, <2>2, StepInStage
    <2> QED BY <1>2, <2>3
  <1>9. ASSUME NEW t \in Task, EvaluateImported(t)
        PROVE  \E off, last : Stands(a, off, last)'
    <2>1. CASE a = t
      <3>1. lpc[t] = "send"
        BY <1>9 DEF EvaluateImported
      <3>2. PICK off, last : Stands(t, off, last)
        BY <1>1, <3>1
      <3>3. Stands(t, off, last)'
        BY <1>9, <3>2, ImportedEvaluated
      <3> QED BY <2>1, <3>3
    <2>2. CASE a # t
      <3>1. /\ lpc'[a] = lpc[a] /\ lngrp'[a] = lngrp[a] /\ lnbuffer'[a] = lnbuffer[a]
            /\ DataGet'[a] = DataGet[a] /\ UNCHANGED <<called, IndexTable, llevel>>
        BY <1>9, <2>2, EvaluateSteps DEF listed
      <3> QED BY <1>4, <3>1
    <2> QED BY <2>1, <2>2
  <1>10. ASSUME NEW t \in Task, LevelDone(t)
         PROVE  \E off, last : Stands(a, off, last)'
    <2>1. /\ lpc[t] = "return" /\ lpc'[t] \in {"send", "round"}
          /\ \A b \in Task \ {t} : lpc'[b] = lpc[b] /\ llevel'[b] = llevel[b] /\ lnbuffer'[b] = lnbuffer[b]
          /\ llevel'[t] = lngrp[t] /\ lnbuffer'[t] = EveryTask(0)
          /\ UNCHANGED <<called, IndexTable, DataGet, lngrp>>
      BY <1>10 DEF LevelDone, Towards, IInv, Typed, LoopPlace, buffered, listed
    <2>2. CASE a = t
      <3>1. llevel'[t] \in 1 .. Groups
        BY <1>3 DEF IInv, Typed
      <3> QED BY <1>2, <2>1, <2>2, <3>1, LevelStarts
    <2>3. CASE a # t
      BY <1>4, <2>1, <2>3
    <2> QED BY <2>2, <2>3
  <1>11. ASSUME NEW T \in SUBSET Task, NextGroup(T), a \notin T, UNCHANGED <<called, IndexTable>>,
                DataGet'[a] = DataGet[a]
         PROVE  \E off, last : Stands(a, off, last)'
    <2>1. lpc' = lpc /\ llevel' = llevel /\ lngrp'[a] = lngrp[a] /\ lnbuffer'[a] = lnbuffer[a]
      BY <1>11, CountedOn
    <2> QED BY <1>4, <1>11, <2>1
  <1>12. ASSUME NEW T \in SUBSET Task, NextGroup(T), a \in T, ~LevelBreaks(a),
                UNCHANGED <<called, IndexTable>>, lpc[a] \in {"send", "return"},
                lpc[a] = "send" => Stored(a), lpc[a] = "return" => DataGet'[a] = DataGet[a]
         PROVE  \E off, last : Stands(a, off, last)'
    <2>1. /\ lpc' = lpc /\ llevel'[a] = llevel[a] /\ lngrp'[a] = lngrp[a] + 1
          /\ lnbuffer'[a] = [j \in Task |-> lnbuffer[a][j] + Inflow(j, lngrp[a])]
      BY <1>12, CountedOn
    <2>2. PICK off, last : Stands(a, off, last)
      BY <1>1, <1>12
    <2>3. CASE lpc[a] = "send"
      BY <1>12, <2>1, <2>2, <2>3, GroupSent
    <2>4. CASE lpc[a] = "return"
      <3>1. Stands(a, off, last)'
        BY <1>12, <2>1, <2>2, <2>4, GroupReturned
      <3> QED BY <3>1
    <2> QED BY <1>12, <2>3, <2>4
  <1>13. ASSUME NEW t \in Task, PassGroup(t)
         PROVE  \E off, last : Stands(a, off, last)'
    <2>1. /\ NextGroup({t}) /\ ~LevelBreaks(t) /\ Quiet(t) /\ lpc[t] \in {"send", "return"}
          /\ UNCHANGED <<called, IndexTable, DataGet>>
      BY <1>13 DEF PassGroup, listed, buffered
    <2>2. CASE a # t
      BY <1>11, <2>1, <2>2
    <2>3. CASE a = t
      <3>1. recvTask(t) < NTask => Nsend(recvTask(t), t) = 0
        BY <2>1 DEF Quiet
      <3>2. Stored(t)
        BY <2>1, <3>1 DEF Stored
      <3> QED BY <1>12, <2>1, <2>3, <3>2
    <2> QED BY <2>2, <2>3
  <1>14. ASSUME NEW t \in Task, NEW u \in Task, Exchange(t, u)
         PROVE  \E off, last : Stands(a, off, last)'
    <2>1. /\ NextGroup({t, u}) /\ ~LevelBreaks(t) /\ ~LevelBreaks(u) /\ t # u
          /\ lpc[t] = "send" /\ lpc[u] = "send" /\ recvTask(t) = u /\ recvTask(u) = t
          /\ UNCHANGED <<called, IndexTable>>
          /\ DataGet' = [DataGet EXCEPT ![t] = Arrivals(t, u), ![u] = Arrivals(u, t)]
      BY <1>14 DEF Exchange, Pair, listed, Task
    <2>2. /\ DataGet'[t] = Arrivals(t, u) /\ DataGet'[u] = Arrivals(u, t)
          /\ \A b \in Task \ {t, u} : DataGet'[b] = DataGet[b]
      BY <2>1 DEF IInv, Typed
    <2>3. CASE a \notin {t, u}
      BY <1>11, <2>1, <2>2, <2>3
    <2>4. CASE a = t
      <3>1. Stored(t)
        BY <2>1, <2>2, ArrivalsStored
      <3> QED BY <1>12, <2>1, <2>4, <3>1
    <2>5. CASE a = u
      <3>1. Stored(u)
        BY <2>1, <2>2, ArrivalsStored
      <3> QED BY <1>12, <2>1, <2>5, <3>1
    <2> QED BY <2>3, <2>4, <2>5
  <1>15. ASSUME NEW t \in Task, NEW u \in Task, GiveBack(t, u)
         PROVE  \E off, last : Stands(a, off, last)'
    <2>1. /\ NextGroup({t, u}) /\ ~LevelBreaks(t) /\ ~LevelBreaks(u)
          /\ lpc[t] = "return" /\ lpc[u] = "return"
          /\ UNCHANGED <<called, IndexTable, DataGet>>
      BY <1>15 DEF GiveBack, Pair, listed
    <2>2. CASE a \notin {t, u}
      BY <1>11, <2>1, <2>2
    <2>3. CASE a \in {t, u}
      BY <1>12, <2>1, <2>3
    <2> QED BY <2>2, <2>3
  <1>16. CASE UNCHANGED loop_vars
    BY <1>4, <1>16 DEF loop_vars, listed, pairing, buffered
  <1> QED BY <1>5, <1>6, <1>7, <1>8, <1>9, <1>10, <1>13, <1>14, <1>15, <1>16, LoopsSteps
-------------------------------------------------------------------------------
(* Most steps do not change for whom a task waits.                         *)
LEMMA AheadKept ==
  ASSUME IInv,
         \/ GatherNsend \/ AfterImported
         \/ \E t \in Task : FillList(t) \/ ListEnds(t) \/ EvaluateImported(t) \/ LevelDone(t)
         \/ \E t \in Task : \E u \in Task : Exchange(t, u),
         NEW a \in Task
  PROVE  Ahead(a)' = Ahead(a)
  <1>1. CASE GatherNsend
    <2>1. /\ lpc[a] = "counts" /\ lpc'[a] = IF Groups > 1 THEN "send" ELSE "round"
          /\ llevel'[a] = 1
      BY <1>1 DEF GatherNsend, LoopAt, EveryTask
    <2>2. Groups > 1 \/ Groups = 1
      BY Constants
    <2> QED BY <2>1, <2>2 DEF Ahead
  <1>2. CASE AfterImported
    <2>1. lpc[a] = "barrier" /\ lpc'[a] = "return" /\ lngrp'[a] = llevel[a]
      BY <1>2 DEF AfterImported, LoopAt, EveryTask
    <2> QED BY <2>1 DEF Ahead
  <1>3. ASSUME NEW t \in Task, FillList(t) \/ ListEnds(t) PROVE Ahead(a)' = Ahead(a)
    <2>1. UNCHANGED <<llevel, lngrp>> /\ lpc[t] \in Filling
      BY <1>3 DEF FillList, ListEnds, pairing, Filling
    <2>2. /\ a # t => lpc'[a] = lpc[a]
          /\ lpc'[t] \in Filling
      BY <1>3, <2>1, StepInStage DEF Filling, Meeting
    <2> QED BY <2>1, <2>2 DEF Ahead, Filling
  <1>4. ASSUME NEW t \in Task, EvaluateImported(t) PROVE Ahead(a)' = Ahead(a)
    <2>1. /\ lpc[t] = "send" /\ llevel' = llevel
          /\ a # t => lpc'[a] = lpc[a] /\ lngrp'[a] = lngrp[a]
          /\ lpc'[t] = "barrier" \/ (lpc'[t] = "return" /\ lngrp'[t] = llevel[t])
      BY <1>4, EvaluateSteps
    <2> QED BY <2>1 DEF Ahead
  <1>5. ASSUME NEW t \in Task, LevelDone(t) PROVE Ahead(a)' = Ahead(a)
    <2>1. /\ lpc[t] = "return" /\ lpc'[t] = IF lngrp[t] < Groups THEN "send" ELSE "round"
          /\ \A b \in Task \ {t} : lpc'[b] = lpc[b] /\ llevel'[b] = llevel[b]
          /\ llevel'[t] = lngrp[t] /\ lngrp' = lngrp
      BY <1>5 DEF LevelDone, Towards, IInv, Typed
    <2>2. lngrp[t] < Groups \/ lngrp[t] = Groups
      BY Constants DEF IInv, Typed
    <2> QED BY <2>1, <2>2 DEF Ahead
  <1>6. ASSUME NEW t \in Task, NEW u \in Task, Exchange(t, u) PROVE Ahead(a)' = Ahead(a)
    <2>1. NextGroup({t, u}) /\ lpc[t] = "send" /\ lpc[u] = "send"
      BY <1>6 DEF Exchange, Pair
    <2>2. /\ lpc' = lpc /\ llevel' = llevel
          /\ a \notin {t, u} => lngrp'[a] = lngrp[a]
      BY <2>1, CountedOn
    <2> QED BY <2>1, <2>2 DEF Ahead
  <1> QED BY <1>1, <1>2, <1>3, <1>4, <1>5, <1>6

(* One group of pairs further, one task less to wait for.                  *)
LEMMA AwaitedLess ==
  ASSUME IInv, NEW t \in Task, lpc[t] = "return", lpc'[t] = "return", ~LevelBreaks(t),
         lngrp'[t] = lngrp[t] + 1
  PROVE  /\ Awaited(t)' = Awaited(t) \ {recvTask(t)}
         /\ recvTask(t) < NTask => recvTask(t) \in Awaited(t)
  <1>1. PICK n : n = lngrp[t] /\ n \in 1 .. Groups - 1
    BY GroupFits
  <1>2. Ahead(t) = n /\ Ahead(t)' = n + 1 /\ recvTask(t) = PairedBy[<<t, n>>]
    BY <1>1 DEF Ahead, recvTask
  <1>3. /\ n \in Nat /\ n \in n .. Groups - 1
        /\ \A m \in n .. Groups - 1 : m \in 1 .. Groups - 1 /\ (m # n <=> m \in n + 1 .. Groups - 1)
        /\ \A m \in n + 1 .. Groups - 1 : m \in n .. Groups - 1 /\ m # n
    <2>1. PICK g \in Nat : g = Groups
      BY Constants
    <2>2. n \in 1 .. g - 1
      BY <1>1, <2>1
    <2> QED BY <2>1, <2>2
  <1>4. \A m \in n .. Groups - 1 : PairedBy[<<t, m>>] = PairedBy[<<t, n>>] => m = n
    BY <1>3, XorAssumption
  <1>5. Awaited(t)' = Awaited(t) \ {recvTask(t)}
    BY <1>2, <1>3, <1>4 DEF Awaited
  <1>6. recvTask(t) < NTask => recvTask(t) \in Awaited(t)
    <2>1. recvTask(t) < NTask => PairedBy[<<t, n>>] \in Task
      BY <1>1, <1>2, Partnership
    <2> QED BY <1>2, <1>3, <2>1 DEF Awaited
  <1> QED BY <1>5, <1>6

(* What one task has to send or has sent.                                  *)
AskedBy(t) == \A u \in Awaited(t) : \A x \in 1 .. Nsend(t, u) : DataIn[t][u][x] = CopyOf(t, u, x)

LEMMA AskedOn ==
  ASSUME NEW a \in Task, AskedBy(a), Awaited(a)' \subseteq Awaited(a), IndexTable'[a] = IndexTable[a],
         \A u \in Awaited(a)' : DataIn'[a][u] = DataIn[a][u]
  PROVE  AskedBy(a)'
  <1>1. /\ \A u : Nsend(a, u)' = Nsend(a, u)
        /\ \A u, x : CopyOf(a, u, x)' = CopyOf(a, u, x)
    BY DEF Nsend, CopyOf
  <1> QED BY <1>1 DEF AskedBy

LEMMA NextAsked ==
  ASSUME MInv, Lists, Asked, [LoopsNext]_loop_vars
  PROVE  Asked'
  <1> USE DEF MInv
  <1>1. SUFFICES ASSUME NEW a \in Task, lpc'[a] \in {"counts"} \cup Meeting
                 PROVE  AskedBy(a)'
    BY DEF Asked, AskedBy
  <1>2. lpc[a] \in {"counts"} \cup Meeting => AskedBy(a)
    BY DEF Asked, AskedBy
  <1>3. ASSUME lpc[a] \in {"counts"} \cup Meeting, Ahead(a)' = Ahead(a), IndexTable'[a] = IndexTable[a],
               DataIn'[a] = DataIn[a]
        PROVE  AskedBy(a)'
    <2>1. Awaited(a)' = Awaited(a)
      BY <1>3 DEF Awaited
    <2> QED BY <1>2, <1>3, <2>1, AskedOn
  <1>4. CASE Begins \/ Ends \/ RoundOver \/ NextCall
    <2>1. ~Begins
      BY <1>1, BeginsSteps DEF EveryTask, Meeting
    <2>2. ~Ends
      BY <1>1, EndsSteps DEF EveryTask, Meeting
    <2>3. CASE RoundOver \/ NextCall
      BY <1>1, <2>3 DEF RoundOver, NextCall, EveryTask, Meeting
    <2> QED BY <1>4, <2>1, <2>2, <2>3
  <1>5. CASE GatherNsend \/ AfterImported
    <2>1. UNCHANGED <<IndexTable, DataIn>> /\ lpc[a] \in {"counts", "barrier"}
      BY <1>5 DEF GatherNsend, AfterImported, LoopAt, listed, buffered
    <2>2. Ahead(a)' = Ahead(a)
      BY <1>5, AheadKept
    <2> QED BY <1>3, <2>1, <2>2 DEF Meeting
  <1>6. ASSUME NEW t \in Task, FillList(t)
        PROVE  AskedBy(a)'
    <2>1. lpc[t] = "fill" /\ lpc' = lpc /\ DataIn' = DataIn
      BY <1>6, Turn DEF buffered
    <2>2. a # t
      BY <1>1, <2>1 DEF Meeting
    <2>3. IndexTable'[a] = IndexTable[a]
      BY <1>6, <2>2 DEF FillList, Export, IInv, Typed
    <2>4. Ahead(a)' = Ahead(a)
      BY <1>6, AheadKept
    <2> QED BY <1>1, <1>3, <2>1, <2>3, <2>4
  <1>7. ASSUME NEW t \in Task, ListEnds(t)
        PROVE  AskedBy(a)'
    <2>1. /\ IndexTable' = IndexTable
          /\ DataIn' = [DataIn EXCEPT ![t] = [u \in Task |-> Requests(t, u)]]
          /\ \A b \in Task \ {t} : lpc'[b] = lpc[b]
      BY <1>7, StepInStage DEF ListEnds, listed
    <2>2. CASE a # t
      <3>1. DataIn'[a] = DataIn[a]
        BY <2>1, <2>2 DEF Shapes
      <3>2. Ahead(a)' = Ahead(a)
        BY <1>7, AheadKept
      <3> QED BY <1>1, <1>3, <2>1, <2>2, <3>1, <3>2
    <2>3. CASE a = t
      <3>1. \A u \in Task : DataIn'[a][u] = Requests(a, u)
        BY <2>1, <2>3 DEF Shapes
      <3>2. ASSUME NEW u \in Task, NEW x \in 1 .. Nsend(a, u)
            PROVE  DataIn'[a][u][x] = CopyOf(a, u, x)
        <4>1. PICK i : i = IndexTable[a][u][x]
          OBVIOUS
        <4>2. i \in OnTask(a) /\ Due(a, i)
          BY <4>1 DEF Lists
        <4>3. Informed(a, i) = TRUE
          BY <4>2, DueInformed DEF IInv
        <4>4. DataIn'[a][u][x] = Request(a, i)
          BY <3>1, <4>1 DEF Requests
        <4> QED BY <4>1, <4>3, <4>4 DEF Request, CopyOf
      <3>3. /\ \A u : Nsend(a, u)' = Nsend(a, u)
            /\ \A u, x : CopyOf(a, u, x)' = CopyOf(a, u, x)
        BY <2>1 DEF Nsend, CopyOf
      <3>4. Awaited(a)' \subseteq Task
        BY DEF Awaited
      <3> QED BY <3>2, <3>3, <3>4 DEF AskedBy
    <2> QED BY <2>2, <2>3
  <1>8. ASSUME NEW t \in Task, EvaluateImported(t) \/ LevelDone(t)
        PROVE  AskedBy(a)'
    <2>1. UNCHANGED <<IndexTable, DataIn>> /\ lpc[t] \in {"send", "return"}
      BY <1>8 DEF EvaluateImported, LevelDone, listed, buffered
    <2>2. lpc[a] \in {"counts"} \cup Meeting
      BY <1>1, <1>8, <2>1, StepInStage DEF Meeting
    <2>3. Ahead(a)' = Ahead(a)
      BY <1>8, AheadKept
    <2> QED BY <1>3, <2>1, <2>2, <2>3
  <1>9. ASSUME NEW t \in Task, NEW u \in Task, Exchange(t, u)
        PROVE  AskedBy(a)'
    <2>1. UNCHANGED <<IndexTable, DataIn, lpc>>
      BY <1>9 DEF Exchange, NextGroup, listed
    <2>2. Ahead(a)' = Ahead(a)
      BY <1>9, AheadKept
    <2> QED BY <1>1, <1>3, <2>1, <2>2
  <1>10. ASSUME NEW T \in SUBSET Task, NextGroup(T), a \in T, ~LevelBreaks(a), IndexTable' = IndexTable,
                lpc[a] \in {"send", "return"},
                lpc[a] = "send" => DataIn'[a] = DataIn[a],
                lpc[a] = "return" => \A u \in Task \ {recvTask(a)} : DataIn'[a][u] = DataIn[a][u]
         PROVE  AskedBy(a)'
    <2>1. lpc' = lpc /\ llevel' = llevel /\ lngrp'[a] = lngrp[a] + 1
      BY <1>10, CountedOn
    <2>2. CASE lpc[a] = "send"
      <3>1. Ahead(a)' = Ahead(a)
        BY <2>1, <2>2 DEF Ahead
      <3> QED BY <1>3, <1>10, <2>2, <3>1 DEF Meeting
    <2>3. CASE lpc[a] = "return"
      <3>1. Awaited(a)' = Awaited(a) \ {recvTask(a)}
        BY <1>10, <2>1, <2>3, AwaitedLess
      <3>2. Awaited(a) \subseteq Task
        BY DEF Awaited
      <3>3. AskedBy(a) /\ \A u \in Awaited(a)' : DataIn'[a][u] = DataIn[a][u]
        BY <1>2, <1>10, <2>3, <3>1, <3>2 DEF Meeting
      <3> QED BY <1>10, <3>1, <3>3, AskedOn
    <2> QED BY <1>10, <2>2, <2>3
  <1>11. ASSUME NEW T \in SUBSET Task, NextGroup(T), a \notin T, IndexTable' = IndexTable,
                DataIn'[a] = DataIn[a]
         PROVE  AskedBy(a)'
    <2>1. lpc' = lpc /\ llevel' = llevel /\ lngrp'[a] = lngrp[a]
      BY <1>11, CountedOn
    <2>2. Ahead(a)' = Ahead(a)
      BY <2>1 DEF Ahead
    <2> QED BY <1>1, <1>3, <1>11, <2>1, <2>2
  <1>12. ASSUME NEW t \in Task, PassGroup(t)
         PROVE  AskedBy(a)'
    <2>1. /\ NextGroup({t}) /\ ~LevelBreaks(t) /\ lpc[t] \in {"send", "return"}
          /\ UNCHANGED <<IndexTable, DataIn>>
      BY <1>12 DEF PassGroup, listed, buffered
    <2>2. CASE a = t
      BY <1>10, <2>1, <2>2
    <2>3. CASE a # t
      BY <1>11, <2>1, <2>3
    <2> QED BY <2>2, <2>3
  <1>13. ASSUME NEW t \in Task, NEW u \in Task, GiveBack(t, u)
         PROVE  AskedBy(a)'
    <2>1. /\ NextGroup({t, u}) /\ ~LevelBreaks(t) /\ ~LevelBreaks(u) /\ IndexTable' = IndexTable
          /\ lpc[t] = "return" /\ lpc[u] = "return" /\ recvTask(t) = u /\ recvTask(u) = t
          /\ \/ DataIn' = [DataIn EXCEPT ![t][u] = Results(t, u), ![u][t] = Results(u, t)]
             \/ DataIn' = DataIn
      BY <1>13 DEF GiveBack, Pair, listed
    <2>2. t # u
      BY <1>13 DEF GiveBack, Pair, Task
    <2>3. /\ \A b \in Task \ {t, u} : DataIn'[b] = DataIn[b]
          /\ \A v \in Task \ {u} : DataIn'[t][v] = DataIn[t][v]
          /\ \A v \in Task \ {t} : DataIn'[u][v] = DataIn[u][v]
      BY <2>1, <2>2 DEF Shapes
    <2>4. CASE a = t
      BY <1>10, <2>1, <2>3, <2>4
    <2>5. CASE a = u
      BY <1>10, <2>1, <2>3, <2>5
    <2>6. CASE a \notin {t, u}
      BY <1>11, <2>1, <2>3, <2>6
    <2> QED BY <2>4, <2>5, <2>6
  <1>14. CASE UNCHANGED loop_vars
    <2>1. UNCHANGED <<IndexTable, DataIn, lpc, llevel, lngrp>>
      BY <1>14 DEF loop_vars, listed, buffered, pairing
    <2>2. Ahead(a)' = Ahead(a)
      BY <2>1 DEF Ahead
    <2> QED BY <1>1, <1>3, <2>1, <2>2
  <1> HIDE DEF MInv
  <1> QED BY <1>4, <1>5, <1>6, <1>7, <1>8, <1>9, <1>12, <1>13, <1>14, LoopsSteps
-------------------------------------------------------------------------------
ExactFor(t) == \A i \in OnTask(t) : AddedFrom(t, i, Workers(t, i) \ Pending(t, i))

LEMMA SamePending ==
  ASSUME NEW a \in Task, IndexTable'[a] = IndexTable[a], Ahead(a)' = Ahead(a)
  PROVE  \A i : Pending(a, i)' = Pending(a, i)
  <1>1. \A u : Listed(a, u)' = Listed(a, u)
    BY DEF Listed, Nsend
  <1>2. Awaited(a)' = Awaited(a)
    BY DEF Awaited
  <1> QED BY <1>1, <1>2 DEF Pending

LEMMA SameWorkers ==
  ASSUME NEW a \in Task, UNCHANGED called, start'[a] = start[a]
  PROVE  \A i : Workers(a, i)' = Workers(a, i)
  BY SameLoop DEF Workers

LEMMA SameParts ==
  ASSUME NEW a \in Task, ExactFor(a), parts'[a] = parts[a], UNCHANGED called, start'[a] = start[a],
         \A i : Pending(a, i)' = Pending(a, i)
  PROVE  ExactFor(a)'
  <1>1. \A i : Workers(a, i)' = Workers(a, i)
    BY SameWorkers
  <1> QED BY <1>1 DEF ExactFor, AddedFrom

LEMMA WorkersFinite ==
  ASSUME Typed, NEW t \in Task, NEW i \in OnTask(t), NEW U \in SUBSET Workers(t, i)
  PROVE  U \subseteq Task /\ IsFiniteSet(U) /\ Cardinality(U) \in Nat
  <1>1. U \in SUBSET Task
    BY InLoop DEF Workers
  <1>2. IsFiniteSet(Task)
    BY FS_Interval, Constants DEF Task
  <1> QED BY <1>1, <1>2, FS_Subset, FS_CardinalityType

(* Results that come back are those of the particles they are added to.    *)
LEMMA ResultsRight ==
  ASSUME IInv, Booked, NEW t \in Task, NEW u \in Task, lpc[t] = "return", lpc[u] = "return",
         ~LevelBreaks(t), ~LevelBreaks(u), recvTask(t) = u, recvTask(u) = t
  PROVE  \A x \in 1 .. Nsend(t, u) : Results(t, u)[x] = Part(t, IndexTable[t][u][x], u, TRUE)
  <1>1. PICK n : n = lngrp[t] /\ n \in 1 .. Groups - 1
    BY GroupFits
  <1>2. PairedBy[<<t, n>>] = u /\ t < NTask /\ u < NTask
    BY <1>1, Constants DEF recvTask, Task
  <1>3. PairedBy[<<u, n>>] = t /\ t # u
    BY <1>1, <1>2, Partnership
  <1>4. lngrp[u] = n
    BY <1>1, <1>3, GroupFits, XorAssumption DEF recvTask
  <1>5. PICK off, last : Stands(u, off, last)
    BY DEF Booked, Meeting
  <1>6. n \in llevel[u] .. last - 1 /\ lnbuffer[u] = off[n] /\ ResultHolds(u, off, last)
    BY <1>4, <1>5, WithinLevel
  <1>7. \A x \in 1 .. Nsend(t, u) :
          DataGet[u][lnbuffer[u][u] + x] = ResultOf(CopyOf(t, u, x), u)
    BY <1>2, <1>3, <1>6 DEF ResultHolds, LaidOut
  <1>8. \A x \in 1 .. Nsend(t, u) : Results(t, u)[x] = DataGet[u][lnbuffer[u][u] + x]
    BY DEF Results
  <1> QED BY <1>7, <1>8 DEF ResultOf, CopyOf, Part

LEMMA ReturnExact ==
  ASSUME IInv, Lists, Booked, NEW t \in Task, NEW u \in Task, ExactFor(t),
         lpc[t] = "return", lpc'[t] = "return", lpc[u] = "return", ~LevelBreaks(t), ~LevelBreaks(u),
         recvTask(t) = u, recvTask(u) = t, lngrp'[t] = lngrp[t] + 1,
         IndexTable' = IndexTable, start' = start, UNCHANGED called, parts'[t] = WithResults(t, u)
  PROVE  ExactFor(t)'
  <1> SUFFICES ASSUME NEW i \in OnTask(t)
               PROVE  AddedFrom(t, i, Workers(t, i) \ Pending(t, i))'
    BY DEF ExactFor
  <1>1. \A x \in 1 .. Nsend(t, u) : Results(t, u)[x] = Part(t, IndexTable[t][u][x], u, TRUE)
    BY ResultsRight
  <1>2. PICK for : for = {x \in 1 .. Nsend(t, u) : IndexTable[t][u][x] = i}
    OBVIOUS
  <1> DEFINE got == {Results(t, u)[x] : x \in for}
             PartsOf(U) == {Part(t, i, v, TRUE) : v \in U}
  <1>3. parts'[t][i] = [number |-> parts[t][i].number + Cardinality(for), of |-> parts[t][i].of \cup got]
    BY <1>2 DEF WithResults
  <1>4. PICK workers, pending : workers = Workers(t, i) /\ pending = Pending(t, i)
    OBVIOUS
  <1>5. PICK before : before = workers \ pending
    OBVIOUS
  <1>6. parts[t][i] = [number |-> Cardinality(before), of |-> PartsOf(before)]
    BY <1>4, <1>5 DEF ExactFor, AddedFrom
  <1>7. IsFiniteSet(before) /\ Cardinality(before) \in Nat
    <2>1. before \in SUBSET Workers(t, i)
      BY <1>4, <1>5
    <2> QED BY <2>1, WorkersFinite DEF IInv
  <1>8. Awaited(t)' = Awaited(t) \ {u} /\ u \in Awaited(t)
    <2>1. u < NTask
      BY Constants DEF Task
    <2> QED BY <2>1, AwaitedLess
  <1>9. \A v : Listed(t, v)' = Listed(t, v)
    BY DEF Listed, Nsend
  <1>10. Pending(t, i)' = pending \ {u}
    BY <1>4, <1>8, <1>9 DEF Pending
  <1>11. Workers(t, i)' = workers
    BY <1>4, SameWorkers
  <1>12. ASSUME NEW after, after = workers \ (pending \ {u}),
                parts'[t][i] = [number |-> Cardinality(after), of |-> PartsOf(after)]
         PROVE  AddedFrom(t, i, Workers(t, i) \ Pending(t, i))'
    BY <1>10, <1>11, <1>12 DEF AddedFrom
  <1>13. CASE i \in Listed(t, u)
    <2>1. PICK x \in 1 .. Nsend(t, u) : IndexTable[t][u][x] = i
      BY <1>13 DEF Listed
    <2>2. for = {x}
      BY <1>2, <2>1 DEF Lists
    <2>3. Cardinality(for) = 1 /\ got = {Part(t, i, u, TRUE)}
      <3>1. Cardinality({x}) = 1
        BY FS_Singleton
      <3>2. Results(t, u)[x] = Part(t, i, u, TRUE)
        BY <1>1, <2>1
      <3>3. {Results(t, u)[y] : y \in {x}} = {Results(t, u)[x]}
        OBVIOUS
      <3> QED BY <2>2, <3>1, <3>2, <3>3
    <2>4. u \in workers /\ u \in pending
      <3>1. i < start[t] /\ Due(t, i) /\ u \in Exportflag(t, i)
        BY <2>1 DEF Lists
      <3>2. u \in workers
        BY <1>4, <3>1 DEF Workers
      <3>3. u \in pending
        BY <1>4, <1>8, <1>13 DEF Pending
      <3> QED BY <3>2, <3>3
    <2>5. PICK after : after = before \cup {u}
      OBVIOUS
    <2>6. after = workers \ (pending \ {u}) /\ u \notin before
      BY <1>5, <2>4, <2>5
    <2>7. Cardinality(after) = Cardinality(before) + 1
      BY <1>7, <2>5, <2>6, FS_AddElement
    <2>8. PartsOf(after) = PartsOf(before) \cup {Part(t, i, u, TRUE)}
      BY <2>5
    <2>9. parts'[t][i] = [number |-> Cardinality(after), of |-> PartsOf(after)]
      <3> HIDE DEF got, PartsOf
      <3> QED BY <1>3, <1>6, <2>3, <2>7, <2>8
    <2> QED BY <1>12, <2>6, <2>9
  <1>14. CASE i \notin Listed(t, u)
    <2>1. for = {}
      BY <1>2, <1>14 DEF Listed
    <2>2. Cardinality(for) = 0 /\ got = {}
      BY <2>1, FS_EmptySet
    <2>3. before = workers \ (pending \ {u})
      <3>1. u \notin pending
        BY <1>4, <1>14 DEF Pending
      <3> QED BY <1>5, <3>1
    <2>4. parts'[t][i] = [number |-> Cardinality(before), of |-> PartsOf(before)]
      <3> HIDE DEF got, PartsOf
      <3> QED BY <1>3, <1>6, <1>7, <2>2
    <2> QED BY <1>12, <2>3, <2>4
  <1> QED BY <1>13, <1>14

LEMMA BackExact ==
  ASSUME MInv, Lists, Booked, Exact, NEW t \in Task, NEW u \in Task, GiveBack(t, u)
  PROVE  Exact'
  <1> USE DEF MInv
  <1>1. /\ IndexTable' = IndexTable /\ start' = start /\ UNCHANGED called
        /\ NextGroup({t, u}) /\ lpc[t] = "return" /\ lpc[u] = "return" /\ t # u
        /\ ~LevelBreaks(t) /\ ~LevelBreaks(u) /\ recvTask(t) = u /\ recvTask(u) = t
        /\ parts' = [parts EXCEPT ![t] = WithResults(t, u), ![u] = WithResults(u, t)]
    BY DEF GiveBack, Pair, listed, Task
  <1>2. /\ lpc' = lpc /\ llevel' = llevel /\ \A a \in Task \ {t, u} : lngrp'[a] = lngrp[a]
        /\ lngrp'[t] = lngrp[t] + 1 /\ lngrp'[u] = lngrp[u] + 1
    BY <1>1, CountedOn
  <1>3. /\ parts'[t] = WithResults(t, u) /\ parts'[u] = WithResults(u, t)
        /\ \A a \in Task \ {t, u} : parts'[a] = parts[a]
    BY <1>1 DEF Shapes
  <1> SUFFICES ASSUME NEW a \in Task, lpc'[a] \notin {"begin", "over"}
               PROVE  ExactFor(a)'
    BY DEF Exact, ExactFor
  <1>4. ExactFor(a)
    BY <1>2 DEF Exact, ExactFor
  <1>5. IInv
    OBVIOUS
  <1> HIDE DEF MInv
  <1>6. CASE a = t
    BY <1>1, <1>2, <1>3, <1>4, <1>5, <1>6, ReturnExact
  <1>7. CASE a = u
    BY <1>1, <1>2, <1>3, <1>4, <1>5, <1>7, ReturnExact
  <1>8. CASE a \notin {t, u}
    <2>1. Ahead(a)' = Ahead(a)
      BY <1>2, <1>8 DEF Ahead
    <2>2. \A i : Pending(a, i)' = Pending(a, i)
      BY <1>1, <2>1, SamePending
    <2> QED BY <1>1, <1>3, <1>4, <1>8, <2>2, SameParts
  <1> QED BY <1>6, <1>7, <1>8

(* One more particle on a list.                                            *)
LEMMA ListedOn ==
  ASSUME NEW t \in Task, NEW u \in Task, NEW i \in Nat, NEW old \in Seq(Nat), old = IndexTable[t][u],
         IndexTable'[t][u] = Append(old, i)
  PROVE  Listed(t, u)' = Listed(t, u) \cup {i}
  <1>1. PICK new : new = Append(old, i)
    OBVIOUS
  <1>2. /\ Len(new) = Len(old) + 1 /\ Len(old) \in Nat
        /\ \A x \in 1 .. Len(old) : new[x] = old[x]
        /\ new[Len(old) + 1] = i
    BY <1>1, Appended
  <1>3. {new[x] : x \in 1 .. Len(new)} = {old[x] : x \in 1 .. Len(old)} \cup {i}
    <2>1. \A x \in 1 .. Len(new) : x \in 1 .. Len(old) \/ x = Len(old) + 1
      BY <1>2
    <2>2. \A x \in 1 .. Len(old) : x \in 1 .. Len(new)
      BY <1>2
    <2>3. Len(old) + 1 \in 1 .. Len(new)
      BY <1>2
    <2> QED BY <1>2, <2>1, <2>2, <2>3
  <1>4. IndexTable'[t][u] = new
    BY <1>1
  <1> QED BY <1>3, <1>4 DEF Listed, Nsend

LEMMA FillExact ==
  ASSUME MInv, Lists, Exact, NEW t \in Task, FillList(t)
  PROVE  Exact'
  <1>0. IInv /\ Together /\ Shapes /\ MarkedNow /\ Known /\ Typed
    BY DEF MInv, IInv
  <1>1. PICK i : i = start[t]
    OBVIOUS
  <1>2. /\ i \in Nat /\ i \in OnTask(t) /\ i < EndOfLoop(t)
        /\ \A n \in Nat : n < start'[t] <=> n < i \/ n = i
        /\ \A a \in Task \ {t} : start'[a] = start[a]
        /\ lpc[t] = "fill" /\ lpc' = lpc /\ UNCHANGED called
    BY <1>0, <1>1, Turn
  <1>3. \A a \in Task : lpc[a] \in Filling /\ Ahead(a)' = Ahead(a) /\ Ahead(a) = 1
    <2>1. \A a \in Task : lpc[a] \in Filling
      BY <1>0, <1>2, SameStage DEF Filling
    <2>2. \A a \in Task : Ahead(a)' = Ahead(a)
      BY <1>0, AheadKept
    <2> QED BY <2>1, <2>2 DEF Ahead, Filling
  <1>4. \A a \in Task : ExactFor(a)
    BY <1>3 DEF Exact, ExactFor, Filling
  <1> SUFFICES ASSUME NEW a \in Task PROVE ExactFor(a)'
    BY DEF Exact, ExactFor
  <1>5. \A k \in OnTask(t) : k # i => Workers(t, k)' = Workers(t, k)
    <2>1. /\ \A b, k : Exportflag(b, k)' = Exportflag(b, k)
          /\ \A b, k : Due(b, k)' <=> Due(b, k)
      BY <1>2, SameLoop
    <2>2. \A k \in OnTask(t) : k # i => (k < start'[t] <=> k < start[t])
      BY <1>1, <1>2, OnTaskNat
    <2> QED BY <2>1, <2>2 DEF Workers
  <1>6. ASSUME NEW k \in OnTask(t), AddedFrom(t, k, Workers(t, k) \ Pending(t, k)),
               parts'[t][k] = parts[t][k], Workers(t, k)' = Workers(t, k), Pending(t, k)' = Pending(t, k)
        PROVE  AddedFrom(t, k, Workers(t, k) \ Pending(t, k))'
    BY <1>6 DEF AddedFrom
  <1>7. CASE ~Wanted(t, i)
    <2>1. UNCHANGED <<parts, IndexTable>>
      BY <1>1, <1>7 DEF FillList
    <2>2. \A b \in Task : \A k : Pending(b, k)' = Pending(b, k)
      BY <1>3, <2>1, SamePending
    <2>3. CASE a # t
      BY <1>2, <1>4, <2>1, <2>2, <2>3, SameParts
    <2>4. CASE a = t
      <3>1. ~Due(t, i)
        BY <1>0, <1>2, <1>7, WantedDue
      <3>2. Workers(t, i)' = Workers(t, i)
        <4>1. Due(t, i)' <=> Due(t, i)
          BY <1>2, SameLoop
        <4> QED BY <3>1, <4>1 DEF Workers
      <3>3. \A k \in OnTask(t) : AddedFrom(t, k, Workers(t, k) \ Pending(t, k))'
        BY <1>4, <1>5, <1>6, <2>1, <2>2, <3>2 DEF ExactFor
      <3> QED BY <2>4, <3>3 DEF ExactFor
    <2> QED BY <2>3, <2>4
  <1>8. CASE Wanted(t, i)
    <2>1. PICK S : S = Exportflag(t, i)
      OBVIOUS
    <2>2. S \subseteq Task \ {t}
      BY <1>0, <1>2, <2>1, InLoop
    <2>3. /\ parts'[t][i] = [number |-> 1, of |-> {Part(t, i, t, Informed(t, i))}]
          /\ \A b \in Task : \A k \in OnTask(b) : ~(b = t /\ k = i) => parts'[b][k] = parts[b][k]
          /\ OnLists(t, i)
      BY <1>0, <1>1, <1>8, Exported
    <2>4. \A b, u \in Task : IndexTable'[b][u] =
            IF b = t /\ u \in S THEN Append(IndexTable[t][u], i) ELSE IndexTable[b][u]
      BY <2>1, <2>3 DEF OnLists
    <2>5. Due(t, i)
      BY <1>0, <1>2, <1>8, WantedDue
    <2>6. \A b, u \in Task : IndexTable[b][u] \in Seq(Nat) /\ Nsend(b, u) \in Nat
      BY <1>0 DEF Typed, Nsend
    <2>7. \A u \in Task : Listed(t, u)' = IF u \in S THEN Listed(t, u) \cup {i} ELSE Listed(t, u)
      <3> SUFFICES ASSUME NEW u \in Task
                   PROVE  Listed(t, u)' = IF u \in S THEN Listed(t, u) \cup {i} ELSE Listed(t, u)
        OBVIOUS
      <3>1. PICK old \in Seq(Nat) : old = IndexTable[t][u]
        BY <2>6
      <3>2. CASE u \in S
        BY <1>2, <2>4, <3>1, <3>2, ListedOn
      <3>3. CASE u \notin S
        BY <2>4, <3>3 DEF Listed, Nsend
      <3> QED BY <3>2, <3>3
    <2>8. \A b \in Task : Awaited(b)' = Awaited(b) /\ Awaited(b) \subseteq Task
      BY <1>3 DEF Awaited
    <2>9. \A k : k # i => Pending(t, k)' = Pending(t, k)
      BY <2>7, <2>8 DEF Pending
    <2>10. CASE a # t
      <3>1. \A u \in Task : Listed(a, u)' = Listed(a, u)
        BY <2>4, <2>10 DEF Listed, Nsend
      <3>2. \A k : Pending(a, k)' = Pending(a, k)
        BY <2>8, <3>1 DEF Pending
      <3>3. \A k : Workers(a, k)' = Workers(a, k)
        BY <1>2, <2>10, SameWorkers
      <3>4. \A k \in OnTask(a) : parts'[a][k] = parts[a][k]
        BY <2>3, <2>10
      <3> QED BY <1>4, <3>2, <3>3, <3>4 DEF ExactFor, AddedFrom
    <2>11. CASE a = t
      <3>1. S \subseteq Awaited(t)
        <4> SUFFICES ASSUME NEW u \in S PROVE u \in Awaited(t)
          OBVIOUS
        <4>1. u \in Task /\ u # t
          BY <2>2
        <4>2. \E n \in 1 .. Groups - 1 : PairedBy[<<t, n>>] = u
          BY <4>1, XorAssumption
        <4> QED BY <1>3, <4>1, <4>2 DEF Awaited
      <3>2. \A u \in Task : i \notin Listed(t, u)
        BY <1>1, <1>2, <2>6 DEF Lists, Listed
      <3>3. Pending(t, i)' = S
        BY <2>2, <2>7, <2>8, <3>1, <3>2 DEF Pending
      <3>4. Workers(t, i)' = {t} \cup S
        <4>1. Due(t, i)' /\ Exportflag(t, i)' = S
          BY <1>2, <2>1, <2>5, SameLoop
        <4>2. i < start'[t]
          BY <1>2
        <4> QED BY <4>1, <4>2 DEF Workers
      <3>5. (Workers(t, i) \ Pending(t, i))' = {t}
        BY <2>2, <3>3, <3>4
      <3>6. Informed(t, i) = TRUE
        BY <1>0, <1>2, <2>5, DueInformed
      <3>7. AddedFrom(t, i, Workers(t, i) \ Pending(t, i))'
        <4>1. Cardinality({t}) = 1
          BY FS_Singleton
        <4>2. {Part(t, i, v, TRUE) : v \in {t}} = {Part(t, i, t, TRUE)}
          OBVIOUS
        <4>3. parts'[t][i] = [number |-> Cardinality({t}), of |-> {Part(t, i, v, TRUE) : v \in {t}}]
          BY <2>3, <3>6, <4>1, <4>2
        <4> QED BY <3>5, <4>3 DEF AddedFrom
      <3>8. ASSUME NEW k \in OnTask(t) PROVE AddedFrom(t, k, Workers(t, k) \ Pending(t, k))'
        <4>1. CASE k = i
          BY <3>7, <4>1
        <4>2. CASE k # i
          BY <1>4, <1>5, <1>6, <2>3, <2>9, <4>2 DEF ExactFor
        <4> QED BY <4>1, <4>2
      <3> QED BY <2>11, <3>8 DEF ExactFor
    <2> QED BY <2>10, <2>11
  <1> QED BY <1>7, <1>8

LEMMA PassExact ==
  ASSUME IInv, Exact, NEW t \in Task, PassGroup(t)
  PROVE  Exact'
  <1>1. /\ UNCHANGED <<called, IndexTable, start, parts>>
        /\ NextGroup({t}) /\ lpc[t] \in {"send", "return"} /\ ~LevelBreaks(t) /\ Quiet(t)
    BY DEF PassGroup, listed
  <1>2. /\ lpc' = lpc /\ llevel' = llevel /\ lngrp'[t] = lngrp[t] + 1
        /\ \A a \in Task \ {t} : lngrp'[a] = lngrp[a]
    BY <1>1, CountedOn
  <1> SUFFICES ASSUME NEW a \in Task, lpc'[a] \notin {"begin", "over"}
               PROVE  ExactFor(a)'
    BY DEF Exact, ExactFor
  <1>3. ExactFor(a)
    BY <1>2 DEF Exact, ExactFor
  <1>4. \A i : Pending(a, i)' = Pending(a, i)
    <2>1. CASE a # t \/ lpc[t] = "send"
      <3>1. Ahead(a)' = Ahead(a)
        BY <1>2, <2>1 DEF Ahead
      <3> QED BY <1>1, <3>1, SamePending
    <2>2. CASE a = t /\ lpc[t] = "return"
      <3>1. Awaited(t)' = Awaited(t) \ {recvTask(t)}
        BY <1>1, <1>2, <2>2, AwaitedLess
      <3>2. \A u : Listed(t, u)' = Listed(t, u)
        BY <1>1 DEF Listed, Nsend
      <3>3. recvTask(t) \in Task => Listed(t, recvTask(t)) = {}
        <4>1. ASSUME recvTask(t) \in Task
              PROVE  Nsend(t, recvTask(t)) = 0
          <5>1. recvTask(t) < NTask
            BY <4>1, Constants DEF Task
          <5> QED BY <1>1, <5>1 DEF Quiet
        <4> QED BY <4>1 DEF Listed
      <3>4. Awaited(t) \subseteq Task /\ Awaited(t)' \subseteq Task
        BY DEF Awaited
      <3> QED BY <2>2, <3>1, <3>2, <3>3, <3>4 DEF Pending
    <2> QED BY <1>1, <2>1, <2>2
  <1> QED BY <1>1, <1>3, <1>4, SameParts

LEMMA NextExact ==
  ASSUME MInv, Lists, Booked, Exact, [LoopsNext]_loop_vars
  PROVE  Exact'
  <1>0. IInv /\ Together /\ Shapes
    BY DEF MInv
  <1>1. ASSUME UNCHANGED <<called, IndexTable, start, parts>>, \A a \in Task : Ahead(a)' = Ahead(a),
               \A a \in Task : lpc'[a] \notin {"begin", "over"} => lpc[a] \notin {"begin", "over"}
        PROVE  Exact'
    <2> SUFFICES ASSUME NEW a \in Task, lpc'[a] \notin {"begin", "over"}
                 PROVE  ExactFor(a)'
      BY DEF Exact, ExactFor
    <2>1. ExactFor(a)
      BY <1>1 DEF Exact, ExactFor
    <2>2. \A i : Pending(a, i)' = Pending(a, i)
      BY <1>1, SamePending
    <2> QED BY <1>1, <2>1, <2>2, SameParts
  <1>2. CASE Begins
    <2>1. parts' = NoParts /\ start' = EveryTask(0)
      BY <1>2, BeginsSteps
    <2>2. \A a \in Task : \A i \in OnTask(a) : Workers(a, i)' = {}
      <3>1. \A a \in Task : \A i \in OnTask(a) : ~(i < start'[a])
        BY <2>1, OnTaskNat DEF EveryTask
      <3> QED BY <3>1 DEF Workers
    <2> SUFFICES ASSUME NEW a \in Task, NEW i \in OnTask(a)
                 PROVE  AddedFrom(a, i, Workers(a, i) \ Pending(a, i))'
      BY DEF Exact
    <2>3. (Workers(a, i) \ Pending(a, i))' = {}
      BY <2>2
    <2>4. parts'[a][i] = [number |-> Cardinality({}), of |-> {Part(a, i, v, TRUE) : v \in {}}]
      <3>1. {Part(a, i, v, TRUE) : v \in {}} = {}
        OBVIOUS
      <3>2. parts'[a][i] = [number |-> 0, of |-> {}]
        BY <2>1 DEF NoParts
      <3> QED BY <3>1, <3>2, FS_EmptySet
    <2> QED BY <2>3, <2>4 DEF AddedFrom
  <1>3. CASE Ends
    <2>1. /\ UNCHANGED <<called, IndexTable, start, parts>>
          /\ \A a \in Task : lpc[a] = "finish" /\ lpc'[a] = "returned"
      BY <1>3, EndsSteps DEF listed, EveryTask
    <2>2. \A a \in Task : Ahead(a)' = Ahead(a)
      BY <2>1 DEF Ahead
    <2> QED BY <1>1, <2>1, <2>2
  <1>4. CASE NextCall
    BY <1>4 DEF NextCall, EveryTask, Exact
  <1>5. CASE RoundOver
    <2>1. /\ UNCHANGED <<called, start, parts>> /\ IndexTable' = NoLists
          /\ \A t \in Task : lpc[t] = "round"
      BY <1>5 DEF RoundOver, LoopAt
    <2>2. \A t \in Task : \A i : Pending(t, i) = {}
      <3>1. Groups .. Groups - 1 = {}
        BY Constants
      <3> QED BY <2>1, <3>1 DEF Pending, Awaited, Ahead
    <2>3. \A t \in Task : \A i : Pending(t, i)' = {}
      <3>1. \A t, u \in Task : IndexTable'[t][u] = <<>>
        BY <2>1 DEF NoLists, EveryTask
      <3>2. \A t, u \in Task : Listed(t, u)' = {}
        BY <3>1 DEF Listed, Nsend
      <3> QED BY <3>2 DEF Pending, Awaited
    <2> SUFFICES ASSUME NEW a \in Task PROVE ExactFor(a)'
      BY DEF Exact, ExactFor
    <2>4. ExactFor(a)
      BY <2>1 DEF Exact, ExactFor
    <2> QED BY <2>1, <2>2, <2>3, <2>4, SameParts
  <1>6. CASE GatherNsend \/ AfterImported
    <2>1. /\ UNCHANGED <<called, IndexTable, start, parts>>
          /\ \A a \in Task : lpc[a] \in {"counts", "barrier"}
      BY <1>6 DEF GatherNsend, AfterImported, LoopAt, listed
    <2>2. \A a \in Task : Ahead(a)' = Ahead(a)
      BY <1>0, <1>6, AheadKept
    <2> QED BY <1>1, <2>1, <2>2
  <1>7. ASSUME NEW t \in Task, ListEnds(t) \/ EvaluateImported(t) \/ LevelDone(t)
        PROVE  Exact'
    <2>1. UNCHANGED <<called, IndexTable, start, parts>>
      BY <1>7 DEF ListEnds, EvaluateImported, LevelDone, listed
    <2>2. \A a \in Task : Ahead(a)' = Ahead(a)
      BY <1>0, <1>7, AheadKept
    <2>3. /\ \A a \in Task \ {t} : lpc'[a] = lpc[a]
          /\ lpc[t] \in Filling \cup Meeting
      BY <1>0, <1>7, StepInStage
    <2> QED BY <1>1, <2>1, <2>2, <2>3 DEF Filling, Meeting
  <1>8. ASSUME NEW t \in Task, NEW u \in Task, Exchange(t, u)
        PROVE  Exact'
    <2>1. UNCHANGED <<called, IndexTable, start, parts, lpc>>
      BY <1>8 DEF Exchange, NextGroup, listed
    <2>2. \A a \in Task : Ahead(a)' = Ahead(a)
      BY <1>0, <1>8, AheadKept
    <2> QED BY <1>1, <2>1, <2>2
  <1>9. CASE UNCHANGED loop_vars
    <2>1. UNCHANGED <<called, IndexTable, start, parts, lpc, llevel, lngrp>>
      BY <1>9 DEF loop_vars, listed, pairing
    <2>2. \A a \in Task : Ahead(a)' = Ahead(a)
      BY <2>1 DEF Ahead
    <2> QED BY <1>1, <2>1, <2>2
  <1> QED BY <1>0, <1>2, <1>3, <1>4, <1>5, <1>6, <1>7, <1>8, <1>9, FillExact, PassExact, BackExact, LoopsSteps
-------------------------------------------------------------------------------
(* How many particles are left to do, on all tasks together.               *)
LEMMA RestFinite ==
  ASSUME NEW t \in Task
  PROVE  IsFiniteSet(Rest(t)) /\ Cardinality(Rest(t)) \in Nat
  <1>1. Rest(t) \in SUBSET OnTask(t)
    BY DEF Rest
  <1> QED BY <1>1, CountOnTask

LEMMA SameDue ==
  ASSUME UNCHANGED called
  PROVE  \A t, i : Due(t, i)' <=> Due(t, i)
  <1>1. case' = case /\ Loop' = Loop
    BY SameLoop DEF called
  <1> QED BY <1>1 DEF Due, Now

LEMMA ReckonedUnchanged ==
  ASSUME Reckoned, UNCHANGED <<called, start, numdone, numleft>>,
         \A a \in Task : \/ lpc'[a] = lpc[a]
                         \/ lpc[a] \in Filling \cup Meeting /\ lpc'[a] \in Filling \cup Meeting
                         \/ lpc[a] = "finish" /\ lpc'[a] = "returned"
                         \/ lpc[a] = "returned" /\ lpc'[a] \in {"begin", "over"}
  PROVE  Reckoned'
  <1>1. \A a \in Task : Rest(a)' = Rest(a)
    BY SameDue DEF Rest
  <1>2. [a \in Task |-> Cardinality(Rest(a)) + numdone[a]]' = [a \in Task |-> Cardinality(Rest(a)) + numdone[a]]
    BY <1>1
  <1>3. Total([a \in Task |-> Cardinality(Rest(a)) + numdone[a]])' = Total([a \in Task |-> Cardinality(Rest(a)) + numdone[a]])
    BY <1>2 DEF Total
  <1>4. (\E t \in Task : lpc'[t] \in Filling \cup Meeting) => \E t \in Task : lpc[t] \in Filling \cup Meeting
    BY DEF Filling, Meeting
  <1>5. ASSUME NEW a \in Task
        PROVE  /\ lpc'[a] \notin Filling \cup Meeting => numdone'[a] = 0
               /\ lpc'[a] \in {"finish", "returned"} => Rest(a)' = {}
    BY <1>1 DEF Reckoned, Filling, Meeting
  <1> QED BY <1>3, <1>4, <1>5 DEF Reckoned

(* The counts that the loops begin with are those of their particles.      *)
LEMMA BeginCounts ==
  ASSUME MInv, Begins
  PROVE  /\ numleft' = Total([t \in Task |-> Cardinality(AllDue(t))])
         /\ lpc' = EveryTask(IF numleft' > 0 THEN "fill" ELSE "finish")
  <1>0. IInv /\ MarkedNow /\ Updates /\ Typed
    BY DEF MInv, IInv
  <1>1. \A t \in Task : \A i \in OnTask(t) : endstep[t][i] = case.Ti_endstep[t][i]
    <2>1. \A t \in Task : \A i \in OnTask(t) : ~IsMarked(t, i)
      BY BeginsSteps DEF IsMarked
    <2> QED BY <1>0, <2>1, MarksSeen
  <1>2. ASSUME NEW count, Begin(count), \A t \in Task : count[t] = Cardinality(AllDue(t))
        PROVE  /\ numleft' = Total([t \in Task |-> Cardinality(AllDue(t))])
               /\ lpc' = EveryTask(IF numleft' > 0 THEN "fill" ELSE "finish")
    <2>1. PICK due : due = [t \in Task |-> Cardinality(AllDue(t))]
      OBVIOUS
    <2>2. Total(count) = Total(due)
      <3>1. {{t} \X (1 .. count[t]) : t \in Task} = {{t} \X (1 .. due[t]) : t \in Task}
        BY <1>2, <2>1
      <3> QED BY <3>1 DEF Total
    <2> QED BY <1>2, <2>1, <2>2 DEF Begin
  <1>3. CASE GravityBegins
    <2>1. Loop = "gravity" /\ Begin(NumForceUpdate)
      BY <1>3 DEF GravityBegins
    <2> QED BY <1>0, <1>2, <2>1 DEF Updates
  <1>4. CASE PotentialBegins
    <2>1. Loop = "potential" /\ Begin(NumPart)
      BY <1>4 DEF PotentialBegins
    <2>2. ASSUME NEW t \in Task
          PROVE  NumPart[t] = Cardinality(AllDue(t))
      <3>1. PICK n \in Nat : n = NumPart[t]
        BY Constants
      <3>2. Cardinality(0 .. n - 1) = n
        <4>1. n - 1 \in Int
          OBVIOUS
        <4> QED BY <4>1, FS_Interval
      <3>3. AllDue(t) = 0 .. n - 1
        BY <2>1, <3>1 DEF AllDue, Due, OnTask
      <3> QED BY <3>1, <3>2, <3>3
    <2> QED BY <1>2, <2>1, <2>2
  <1>5. CASE DirectBegins
    <2>1. Loop = "direct" /\ Begin([t \in Task |-> Cardinality(Chosen(t))])
      BY <1>5 DEF DirectBegins
    <2>2. \A t \in Task : Chosen(t) = AllDue(t)
      BY <1>1, <2>1 DEF Chosen, AllDue, Due
    <2> QED BY <1>2, <2>1, <2>2
  <1>6. CASE HydroBegins
    <2>1. /\ Loop = "hydro"
          /\ Begin([t \in Task |-> Cardinality({i \in 0 .. NumGas[t] - 1 : endstep[t][i] = Now})])
      BY <1>6 DEF HydroBegins
    <2>2. ASSUME NEW t \in Task
          PROVE  {i \in 0 .. NumGas[t] - 1 : endstep[t][i] = Now} = AllDue(t)
      <3>1. NumGas[t] \in Nat /\ NumPart[t] \in Nat /\ NumGas[t] <= NumPart[t]
        BY Constants
      <3>2. \A i : i \in 0 .. NumGas[t] - 1 <=> i \in OnTask(t) /\ i < NumGas[t]
        BY <3>1 DEF OnTask
      <3> QED BY <1>1, <2>1, <3>2 DEF AllDue, Due
    <2> QED BY <1>2, <2>1, <2>2
  <1> QED BY <1>3, <1>4, <1>5, <1>6 DEF Begins

LEMMA BeginsReckoned ==
  ASSUME MInv, Reckoned, Begins
  PROVE  Reckoned'
  <1>1. PICK due : due = [t \in Task |-> Cardinality(AllDue(t))]
    OBVIOUS
  <1>2. /\ numleft' = Total(due)
        /\ lpc' = EveryTask(IF numleft' > 0 THEN "fill" ELSE "finish")
        /\ start' = EveryTask(0) /\ UNCHANGED <<called, numdone>>
        /\ \A t \in Task : lpc[t] = "begin"
    BY <1>1, BeginCounts, BeginsSteps
  <1>3. \A t \in Task : IsFiniteSet(AllDue(t)) /\ Cardinality(AllDue(t)) \in Nat
    BY CountOnTask DEF AllDue
  <1>4. due \in [Task -> Nat] /\ \A t \in Task : due[t] = Cardinality(AllDue(t))
    BY <1>1, <1>3
  <1>5. Total(due) \in Nat /\ (Total(due) > 0 \/ \A t \in Task : AllDue(t) = {})
    <2>1. Total(due) \in Nat /\ (Total(due) = 0 => \A t \in Task : due[t] = 0)
      BY <1>4, TotalNat
    <2>2. \A t \in Task : Cardinality(AllDue(t)) = 0 => AllDue(t) = {}
      BY <1>3, FS_EmptySet
    <2> QED BY <1>4, <2>1, <2>2
  <1>6. \A t \in Task : numdone'[t] = 0 /\ start'[t] = 0
    BY <1>2 DEF Reckoned, Filling, Meeting, EveryTask
  <1>7. \A t \in Task : Rest(t)' = AllDue(t)
    <2>1. \A t \in Task : \A i \in OnTask(t) : 0 <= i
      BY OnTaskNat
    <2> QED BY <1>2, <1>6, <2>1, SameDue DEF Rest, AllDue
  <1>8. Total([t \in Task |-> Cardinality(Rest(t)) + numdone[t]])' = Total(due)
    <2>1. \A t \in Task : Cardinality(Rest(t)') + numdone'[t] = due[t]
      BY <1>3, <1>4, <1>6, <1>7
    <2>2. [t \in Task |-> Cardinality(Rest(t)) + numdone[t]]' = due
      BY <1>1, <1>4, <2>1
    <2> QED BY <2>2 DEF Total
  <1>9. \A t \in Task : lpc'[t] \in {"finish", "returned"} => Rest(t)' = {}
    BY <1>2, <1>5, <1>7 DEF EveryTask
  <1> QED BY <1>2, <1>5, <1>6, <1>8, <1>9 DEF Reckoned

LEMMA FillReckoned ==
  ASSUME MInv, Reckoned, NEW t \in Task, FillList(t)
  PROVE  Reckoned'
  <1>0. IInv /\ Together /\ Shapes /\ MarkedNow /\ Typed
    BY DEF MInv, IInv
  <1>1. PICK i : i = start[t]
    OBVIOUS
  <1>2. /\ i \in Nat /\ i \in OnTask(t) /\ i < EndOfLoop(t) /\ start'[t] = i + 1
        /\ \A a \in Task \ {t} : start'[a] = start[a]
        /\ lpc[t] = "fill" /\ lpc' = lpc /\ UNCHANGED <<called, numleft>>
    BY <1>0, <1>1, Turn
  <1>3. \A a \in Task : lpc[a] \in Filling
    BY <1>0, <1>2, SameStage DEF Filling
  <1>4. \A a \in Task \ {t} : Rest(a)' = Rest(a)
    BY <1>2, SameDue DEF Rest
  <1>5. Rest(t)' = Rest(t) \ {i}
    <2>1. \A k \in OnTask(t) : i + 1 <= k <=> i <= k /\ k # i
      BY <1>2, OnTaskNat
    <2> QED BY <1>1, <1>2, <2>1, SameDue DEF Rest
  <1>6. Wanted(t, i) <=> Due(t, i)
    BY <1>0, <1>2, WantedDue
  <1>7. Cardinality(Rest(t)') + numdone'[t] = Cardinality(Rest(t)) + numdone[t] /\ \A a \in Task \ {t} : numdone'[a] = numdone[a]
    <2>1. CASE Wanted(t, i)
      <3>1. numdone' = [numdone EXCEPT ![t] = @ + 1] /\ numdone \in [Task -> Nat]
        BY <1>0, <1>1, <2>1, Exported DEF Shapes
      <3>2. i \in Rest(t)
        BY <1>1, <1>2, <1>6, <2>1 DEF Rest
      <3>3. Cardinality(Rest(t)') = Cardinality(Rest(t)) - 1
        BY <1>5, <3>2, RestFinite, FS_RemoveElement
      <3>4. Cardinality(Rest(t)) \in Nat /\ numdone[t] \in Nat /\ numdone'[t] = numdone[t] + 1
        BY <3>1, RestFinite
      <3>5. Cardinality(Rest(t)') + numdone'[t] = Cardinality(Rest(t)) + numdone[t]
        BY <3>3, <3>4
      <3> QED BY <3>1, <3>5
    <2>2. CASE ~Wanted(t, i)
      <3>1. UNCHANGED numdone
        BY <1>1, <2>2 DEF FillList
      <3>2. i \notin Rest(t)
        BY <1>6, <2>2 DEF Rest
      <3> QED BY <1>5, <3>1, <3>2
    <2> QED BY <2>1, <2>2
  <1>8. Total([a \in Task |-> Cardinality(Rest(a)) + numdone[a]])' = Total([a \in Task |-> Cardinality(Rest(a)) + numdone[a]])
    <2>1. \A a \in Task : Cardinality(Rest(a)') + numdone'[a] = Cardinality(Rest(a)) + numdone[a]
      BY <1>4, <1>7
    <2>2. [a \in Task |-> Cardinality(Rest(a)) + numdone[a]]' = [a \in Task |-> Cardinality(Rest(a)) + numdone[a]]
      BY <2>1
    <2> QED BY <2>2 DEF Total
  <1> QED BY <1>2, <1>3, <1>8 DEF Reckoned, Filling, Meeting

LEMMA RoundOverReckoned ==
  ASSUME Shapes, Reckoned, RoundOver
  PROVE  Reckoned'
  <1>1. /\ UNCHANGED <<called, start>>
        /\ numleft' = numleft - Total(numdone) /\ numdone' = EveryTask(0)
        /\ lpc' = EveryTask(IF numleft' > 0 THEN "fill" ELSE "finish")
        /\ \A t \in Task : lpc[t] = "round"
    BY DEF RoundOver, LoopAt
  <1>2. PICK rest : rest = [t \in Task |-> Cardinality(Rest(t))]
    OBVIOUS
  <1>3. rest \in [Task -> Nat] /\ numdone \in [Task -> Nat] /\ 0 \in Task
    BY <1>2, RestFinite, Constants DEF Shapes
  <1>4. numleft = Total(rest) + Total(numdone)
    <2>1. numleft = Total([t \in Task |-> Cardinality(Rest(t)) + numdone[t]])
      BY <1>1, <1>3 DEF Reckoned, Meeting
    <2>2. [t \in Task |-> Cardinality(Rest(t)) + numdone[t]] = [t \in Task |-> rest[t] + numdone[t]]
      BY <1>2
    <2> QED BY <1>3, <2>1, <2>2, TotalOfSum
  <1>5. numleft' = Total(rest) /\ Total(rest) \in Nat
    <2>1. Total(rest) \in Nat /\ Total(numdone) \in Nat
      BY <1>3, TotalNat
    <2> QED BY <1>1, <1>4, <2>1
  <1>6. \A t \in Task : Rest(t)' = Rest(t)
    BY <1>1, SameDue DEF Rest
  <1>7. Total([t \in Task |-> Cardinality(Rest(t)) + numdone[t]])' = Total(rest)
    <2>1. \A t \in Task : Cardinality(Rest(t)') + numdone'[t] = rest[t]
      BY <1>1, <1>2, <1>3, <1>6 DEF EveryTask
    <2>2. [t \in Task |-> Cardinality(Rest(t)) + numdone[t]]' = rest
      BY <1>2, <2>1
    <2> QED BY <2>2 DEF Total
  <1>8. numleft' > 0 \/ \A t \in Task : Rest(t) = {}
    <2>1. Total(rest) = 0 => \A t \in Task : rest[t] = 0
      BY <1>3, TotalNat
    <2>2. \A t \in Task : Cardinality(Rest(t)) = 0 => Rest(t) = {}
      BY RestFinite, FS_EmptySet
    <2> QED BY <1>2, <1>5, <2>1, <2>2
  <1>9. \A t \in Task : /\ numdone'[t] = 0
                        /\ lpc'[t] \in {"finish", "returned"} => Rest(t)' = {}
    BY <1>1, <1>6, <1>8 DEF EveryTask
  <1> QED BY <1>5, <1>7, <1>9 DEF Reckoned

LEMMA NextReckoned ==
  ASSUME MInv, Reckoned, [LoopsNext]_loop_vars
  PROVE  Reckoned'
  <1>0. IInv /\ Shapes
    BY DEF MInv
  <1>1. CASE Begins \/ RoundOver
    BY <1>0, <1>1, BeginsReckoned, RoundOverReckoned
  <1>2. ASSUME NEW t \in Task, FillList(t)
        PROVE  Reckoned'
    BY <1>2, FillReckoned
  <1>3. CASE Ends
    <2>1. /\ UNCHANGED <<called, start, numdone, numleft>>
          /\ \A a \in Task : lpc[a] = "finish" /\ lpc'[a] = "returned"
      BY <1>3, EndsSteps DEF listed, EveryTask
    <2> QED BY <2>1, ReckonedUnchanged
  <1>4. CASE NextCall
    <2>1. /\ UNCHANGED <<numdone, numleft>>
          /\ \A a \in Task : lpc[a] = "returned" /\ lpc'[a] \in {"begin", "over"}
      BY <1>4 DEF NextCall, LoopAt, listed, EveryTask
    <2> QED BY <2>1 DEF Reckoned, Filling, Meeting
  <1>5. CASE GatherNsend \/ AfterImported
    <2>1. /\ UNCHANGED <<called, start, numdone, numleft>>
          /\ \A a \in Task : lpc[a] \in Filling \cup Meeting /\ lpc'[a] \in Filling \cup Meeting
      BY <1>5 DEF GatherNsend, AfterImported, LoopAt, EveryTask, listed, Filling, Meeting
    <2> QED BY <2>1, ReckonedUnchanged
  <1>6. ASSUME NEW t \in Task, ListEnds(t) \/ EvaluateImported(t) \/ PassGroup(t) \/ LevelDone(t)
        PROVE  Reckoned'
    <2>1. UNCHANGED <<called, start, numdone, numleft>>
      BY <1>6 DEF ListEnds, EvaluateImported, PassGroup, LevelDone, listed
    <2>2. /\ \A a \in Task \ {t} : lpc'[a] = lpc[a]
          /\ lpc[t] \in Filling \cup Meeting /\ lpc'[t] \in Filling \cup Meeting
      BY <1>0, <1>6, StepInStage
    <2> QED BY <2>1, <2>2, ReckonedUnchanged
  <1>7. CASE UNCHANGED loop_vars \/ \E t \in Task : \E u \in Task : Exchange(t, u) \/ GiveBack(t, u)
    <2>1. UNCHANGED <<called, start, numdone, numleft>> /\ lpc' = lpc
      BY <1>7 DEF Exchange, GiveBack, NextGroup, loop_vars, listed
    <2> QED BY <2>1, ReckonedUnchanged
  <1> QED BY <1>1, <1>2, <1>3, <1>4, <1>5, <1>6, <1>7, LoopsSteps
-------------------------------------------------------------------------------
LEMMA NextPrinted ==
  ASSUME MInv, Printed, [LoopsNext]_loop_vars
  PROVE  Printed'
  <1>0. IInv /\ Together /\ MarkedNow /\ Typed
    BY DEF MInv, IInv
  <1>1. CASE DirectPrints
    <2>1. /\ Loop = "direct" /\ \A t \in Task : lpc[t] = "finish"
          /\ forcetest' = [t \in Task |-> {i \in OnTask(t) : endstep[t][i] < 0}]
          /\ UNCHANGED called
      BY <1>1 DEF DirectPrints, LoopAt
    <2>2. \A t \in Task : {i \in OnTask(t) : endstep[t][i] < 0} = AllDue(t)
      <3>1. \A t \in Task : \A i \in OnTask(t) : endstep[t][i] < 0 <=> IsMarked(t, i)
        BY <1>0, MarksSeen
      <3>2. \A t \in Task : \A i \in OnTask(t) : IsMarked(t, i) <=> Due(t, i)
        BY <2>1 DEF IsMarked, Due
      <3> QED BY <3>1, <3>2 DEF AllDue
    <2>3. \A t \in Task : AllDue(t)' = AllDue(t)
      BY <2>1, SameDue DEF AllDue
    <2> QED BY <2>1, <2>2, <2>3 DEF Printed
  <1>2. CASE GravityEnds \/ LoopEnds
    <2>1. Loop # "direct" /\ Loop' = Loop
      BY <1>2, SameLoop DEF GravityEnds, LoopEnds
    <2> QED BY <2>1 DEF Printed
  <1>3. ASSUME \A t \in Task : lpc'[t] # "returned"
        PROVE  Printed'
    BY <1>3 DEF Printed
  <1>4. CASE Begins
    BY <1>3, <1>4, BeginsSteps DEF EveryTask
  <1>5. CASE GatherNsend \/ AfterImported \/ RoundOver \/ NextCall
    BY <1>3, <1>5 DEF GatherNsend, AfterImported, RoundOver, NextCall, EveryTask
  <1>6. ASSUME NEW t \in Task,
               FillList(t) \/ ListEnds(t) \/ EvaluateImported(t) \/ PassGroup(t) \/ LevelDone(t)
        PROVE  Printed'
    <2>1. /\ lpc[t] \in Filling \cup Meeting /\ lpc'[t] \in Filling \cup Meeting
          /\ \A a \in Task \ {t} : lpc'[a] = lpc[a]
      BY <1>0, <1>6, StepInStage
    <2>2. \A a \in Task : lpc[a] # "returned"
      BY <1>0, <2>1, SameStage DEF Filling, Meeting
    <2> QED BY <1>3, <2>1, <2>2 DEF Filling, Meeting
  <1>7. CASE UNCHANGED loop_vars \/ \E t \in Task : \E u \in Task : Exchange(t, u) \/ GiveBack(t, u)
    <2>1. UNCHANGED <<called, lpc, forcetest>>
      BY <1>7 DEF Exchange, GiveBack, NextGroup, loop_vars
    <2>2. (\A t \in Task : AllDue(t)' = AllDue(t)) /\ Loop' = Loop
      BY <2>1, SameDue, SameLoop DEF AllDue
    <2> QED BY <2>1, <2>2 DEF Printed
  <1> QED BY <1>1, <1>2, <1>4, <1>5, <1>6, <1>7, LoopsSteps DEF Ends

LEMMA InitMInv == LoopsInit => MInv
  <1> SUFFICES ASSUME LoopsInit PROVE MInv
    OBVIOUS
  <1>1. IInv
    BY InitIInv
  <1>2. Typed
    BY <1>1 DEF IInv
  <1>3. \A t \in Task : lpc[t] = "begin" /\ start[t] = 0 /\ numdone[t] = 0
    BY DEF LoopsInit, EveryTask
  <1>4. Together
    BY <1>3 DEF Together
  <1>5. Shapes
    BY <1>3, Constants DEF LoopsInit, Shapes, EveryTask, NoParts, NoLists
  <1>6. MarkedNow
    <2>1. \A t \in Task : case.Ti_endstep[t] \in [OnTask(t) -> Nat] /\ endstep[t] = case.Ti_endstep[t]
      BY <1>2, Given DEF LoopsInit
    <2>2. \A t \in Task : \A i \in OnTask(t) : ~IsMarked(t, i)
      BY <1>3 DEF IsMarked
    <2> QED BY <2>1, <2>2 DEF MarkedNow
  <1>7. Updates
    <2>1. \A t \in Task : Cardinality(ToUpdate(t)) \in Nat
      BY CountOnTask DEF ToUpdate
    <2>2. NumForceUpdate = [t \in Task |-> Cardinality(ToUpdate(t))]
      BY DEF LoopsInit
    <2>3. Loop = "gravity" => \A t \in Task : ToUpdate(t) = AllDue(t)
      BY DEF LoopsInit, ToUpdate, AllDue, Due
    <2> QED BY <2>1, <2>2, <2>3 DEF Updates
  <1>8. Known
    <2>1. OldAcc = [t \in Task |-> [i \in OnTask(t) |-> Now > 0]] /\ Now \in Nat
      BY <1>2, Given DEF LoopsInit
    <2>2. ErrTolTheta = IF RelativeCriterion /\ Now > 0 THEN "zero" ELSE "set"
      BY DEF LoopsInit
    <2>3. \A t \in Task : OldAcc[t] = [i \in OnTask(t) |-> Now > 0]
      BY <2>1
    <2>4. (Now > 0) \in BOOLEAN
      BY <2>1
    <2>5. \A t \in Task : OldAcc[t] \in [OnTask(t) -> BOOLEAN]
      BY <2>3, <2>4
    <2>6. ErrTolTheta = "zero" => \A t \in Task : \A i \in OnTask(t) : OldAcc[t][i]
      BY <2>2, <2>3
    <2> QED BY <2>2, <2>5, <2>6 DEF Known
  <1> QED BY <1>1, <1>4, <1>5, <1>6, <1>7, <1>8 DEF MInv

LEMMA InitJInv == LoopsInit => JInv
  <1> SUFFICES ASSUME LoopsInit PROVE JInv
    OBVIOUS
  <1>1. MInv
    BY InitMInv
  <1>2. \A t \in Task : lpc[t] = "begin" /\ numdone[t] = 0 /\ \A u \in Task : IndexTable[t][u] = <<>>
    BY DEF LoopsInit, EveryTask, NoLists
  <1>3. Lists
    BY <1>2 DEF Lists, Nsend
  <1>4. Asked /\ Booked /\ Exact /\ Printed
    BY <1>2 DEF Asked, Booked, Exact, Printed, Meeting
  <1>5. numleft = 0
    BY DEF LoopsInit
  <1>6. Reckoned
    BY <1>2, <1>5 DEF Reckoned, Filling, Meeting
  <1> QED BY <1>1, <1>3, <1>4, <1>6 DEF JInv

LEMMA AlwaysJInv == LoopsSpec => []JInv
  <1>1. JInv /\ [LoopsNext]_loop_vars => JInv'
    <2> SUFFICES ASSUME JInv, [LoopsNext]_loop_vars PROVE JInv'
      OBVIOUS
    <2>1. /\ MInv /\ Lists /\ Asked /\ Booked /\ Exact /\ Reckoned /\ Printed
          /\ IInv /\ Together /\ Shapes /\ MarkedNow /\ Updates /\ Known
      BY DEF JInv, MInv
    <2>2. IInv' /\ Together' /\ Shapes'
      BY <2>1, NextIInv, NextTogether, NextShapes
    <2>3. MarkedNow' /\ Updates' /\ Known'
      BY <2>1, NextMarked, NextUpdates, NextKnown
    <2>4. Lists' /\ Asked' /\ Booked'
      BY <2>1, NextLists, NextAsked, NextBooked
    <2>5. Exact' /\ Reckoned' /\ Printed'
      BY <2>1, NextExact, NextReckoned, NextPrinted
    <2> QED BY <2>2, <2>3, <2>4, <2>5 DEF JInv, MInv
  <1> QED BY <1>1, InitJInv, PTL DEF LoopsSpec
-------------------------------------------------------------------------------
(* All counts stay in their ranges in every loop, though none of them      *)
(* clears what the one before it counted; what is left to do, only ever    *)
(* counted down by what the tasks report, never gets negative.             *)
THEOREM LoopsTypeCorrect == LoopsSpec => []LoopsTypeOK
  <1>1. JInv => LoopsTypeOK
    <2> SUFFICES ASSUME JInv PROVE LoopsTypeOK
      OBVIOUS
    <2>1. IInv /\ Shapes /\ Updates /\ Known /\ Reckoned /\ Typed /\ LevelBegins
      BY DEF JInv, MInv, IInv
    <2>2. ASSUME NEW t \in Task
          PROVE  /\ start[t] \in 0 .. NumPart[t] /\ numdone[t] \in 0 .. NumPart[t]
                 /\ exported[t] \in Nat
                 /\ llevel[t] \in 1 .. Groups /\ lngrp[t] \in llevel[t] .. Groups
                 /\ OldAcc[t] \in [OnTask(t) -> BOOLEAN]
      <3>1. /\ start[t] \in Nat /\ numdone[t] \in Nat /\ NumPart[t] \in Nat
            /\ start[t] <= NumPart[t] /\ numdone[t] <= start[t]
        BY <2>1, OnTaskNat DEF Typed, Shapes
      <3>2. start[t] \in 0 .. NumPart[t] /\ numdone[t] \in 0 .. NumPart[t]
        BY <3>1
      <3>3. llevel[t] \in 1 .. Groups /\ lngrp[t] \in 1 .. Groups /\ llevel[t] <= lngrp[t]
        BY <2>1 DEF Typed, LevelBegins
      <3>4. lngrp[t] \in llevel[t] .. Groups
        BY <3>3, Constants
      <3>5. exported[t] \in Nat
        BY <2>1 DEF Typed
      <3> QED BY <2>1, <3>2, <3>3, <3>4, <3>5 DEF Known
    <2> QED BY <2>1, <2>2 DEF LoopsTypeOK, Typed, Updates, Known, Reckoned
  <1> QED BY <1>1, AlwaysJInv, PTL

(* When gravity, the potential, the force test or the SPH forces are done, *)
(* each particle the loop is for has the part of its own task and of every *)
(* task it went to once, and no other particle has any; no buffer was used *)
(* beyond its end; the time steps are as they were, and the force test has *)
(* a line for each of its particles.  For all ways in which the lists fill,*)
(* the groups are cut into levels and the tasks run, and whatever loops    *)
(* came before.                                                            *)
THEOREM LoopsAreExact == LoopsSpec => []LoopsExact
  <1>1. ASSUME JInv PROVE EachPartOnce
    <2>0. /\ IInv /\ Together /\ Lists /\ Exact /\ Reckoned /\ Typed
      BY <1>1 DEF JInv, MInv, IInv
    <2> SUFFICES ASSUME LoopAt("returned"), NEW t \in Task, NEW i \in OnTask(t),
                        NEW by, by = IF Due(t, i) THEN {t} \cup Exportflag(t, i) ELSE {}
                 PROVE  parts[t][i] = [number |-> Cardinality(by), of |-> {Part(t, i, u, TRUE) : u \in by}]
      BY DEF EachPartOnce
    <2>1. lpc[t] = "returned"
      BY DEF LoopAt
    <2>2. Pending(t, i) = {}
      <3>1. \A u \in Task : Listed(t, u) = {}
        BY <2>0, <2>1 DEF Lists, Filling, Meeting, Listed, Nsend
      <3> QED BY <3>1 DEF Pending, Awaited
    <2>3. Due(t, i) => i < start[t]
      <3>1. i \notin Rest(t)
        BY <2>0, <2>1 DEF Reckoned
      <3>2. i \in Nat /\ start[t] \in Nat
        BY <2>0, OnTaskNat DEF Typed
      <3> QED BY <3>1, <3>2 DEF Rest
    <2>4. Workers(t, i) \ Pending(t, i) = by
      BY <2>2, <2>3 DEF Workers
    <2>5. AddedFrom(t, i, by)
      BY <2>0, <2>1, <2>4 DEF Exact
    <2> QED BY <2>5 DEF AddedFrom
  <1>2. JInv => EachPartOnce
    BY <1>1
  <1>3. ASSUME JInv PROVE MarksUndone
    <2>0. MarkedNow /\ Printed /\ Typed
      BY <1>3 DEF JInv, MInv, IInv
    <2> SUFFICES ASSUME LoopAt("returned") PROVE MarksUndone
      BY DEF MarksUndone
    <2>1. \A t \in Task : lpc[t] = "returned"
      BY DEF LoopAt
    <2>2. \A t \in Task : \A i \in OnTask(t) : ~IsMarked(t, i)
      BY <2>1 DEF IsMarked
    <2>3. \A t \in Task : endstep[t] = [i \in OnTask(t) |-> case.Ti_endstep[t][i]]
      BY <2>0, <2>2 DEF MarkedNow
    <2>4. \A t \in Task : endstep[t] = case.Ti_endstep[t]
      BY <2>0, <2>3, Given
    <2>5. Loop = "direct" => forcetest = [t \in Task |-> AllDue(t)]
      BY <2>0, <2>1, Constants DEF Printed
    <2> QED BY <2>4, <2>5 DEF MarksUndone, AllDue
  <1>4. JInv => MarksUndone
    BY <1>3
  <1>5. EachPartOnce /\ LoopBuffersHold /\ MarksUndone => LoopsExact
    BY DEF LoopsExact
  <1> QED BY <1>2, <1>4, <1>5, AlwaysJInv, LoopBuffersFit, PTL

-------------------------------------------------------------------------------
(* The mesh.                                                               *)
(* Numbers.                                                                *)

LEMMA LeastOf ==
  ASSUME NEW T, T \subseteq Nat, T # {}
  PROVE  \E n \in T : \A m \in T : n <= m
  <1> DEFINE R == {ss \in Nat \X Nat : ss[1] < ss[2]}
  <1>1. WF!IsWellFoundedOn(R, Nat)
    BY WF!NatLessThanWellFounded, Zenon DEF WF!OpToRel
  <1>2. PICK n \in T : \A m \in T : <<m, n>> \notin R
    <2> HIDE DEF R
    <2> QED BY <1>1, WF!WFMin
  <1>3. \A m \in T : ~(m < n)
    BY <1>2
  <1> QED BY <1>3

LEMMA MinIs ==
  ASSUME NEW a \in Int, NEW T, T \subseteq Int, T # {}, \A x \in T : a <= x
  PROVE  Min(T) \in T /\ \A x \in T : Min(T) <= x
  <1> DEFINE U == {n \in Nat : a + n \in T}
  <1>1. PICK k \in T : TRUE
    OBVIOUS
  <1>2. \A x \in T : x - a \in U
    <2>1. \A x \in T : x - a \in Nat /\ a + (x - a) = x
      OBVIOUS
    <2> QED BY <2>1
  <1>3. PICK n \in U : \A m \in U : n <= m
    <2>1. U # {} /\ U \subseteq Nat
      BY <1>1, <1>2
    <2> HIDE DEF U
    <2> QED BY <2>1, LeastOf
  <1>4. a + n \in T
    BY <1>3
  <1>5. ASSUME NEW x \in T
        PROVE  a + n <= x
    <2>1. n <= x - a /\ n \in Int
      BY <1>2, <1>3
    <2> QED BY <2>1
  <1> QED BY <1>4, <1>5 DEF Min

LEMMA MaxIs ==
  ASSUME NEW b \in Int, NEW T, T \subseteq Int, T # {}, \A x \in T : x <= b
  PROVE  Max(T) \in T /\ \A x \in T : Max(T) >= x
  <1> DEFINE U == {n \in Nat : b - n \in T}
  <1>1. PICK k \in T : TRUE
    OBVIOUS
  <1>2. \A x \in T : b - x \in U
    <2>1. \A x \in T : b - x \in Nat /\ b - (b - x) = x
      OBVIOUS
    <2> QED BY <2>1
  <1>3. PICK n \in U : \A m \in U : n <= m
    <2>1. U # {} /\ U \subseteq Nat
      BY <1>1, <1>2
    <2> HIDE DEF U
    <2> QED BY <2>1, LeastOf
  <1>4. b - n \in T
    BY <1>3
  <1>5. ASSUME NEW x \in T
        PROVE  b - n >= x
    <2>1. b - x \in U /\ n \in U
      BY <1>2
    <2>2. n <= b - x /\ n \in Int
      <3>1. n <= b - x
        <4> HIDE DEF U
        <4> QED BY <1>3, <2>1
      <3> QED BY <2>1, <3>1
    <2> QED BY <2>2
  <1> QED BY <1>4, <1>5 DEF Max

LEMMA MonoTimes ==
  ASSUME NEW a \in Int, NEW b \in Int, NEW c \in Nat, a <= b
  PROVE  a * c <= b * c
  <1>1. PICK k \in Nat : b = a + k
    <2>1. b - a \in Nat /\ b = a + (b - a)
      OBVIOUS
    <2> QED BY <2>1
  <1>2. b * c = a * c + k * c /\ k * c \in Nat /\ a * c \in Int
    BY <1>1
  <1> QED BY <1>2

LEMMA DivNat ==
  ASSUME NEW n \in Nat, NEW d \in Nat \ {0}
  PROVE  n \div d \in Nat
  OBVIOUS

LEMMA DivBetween ==
  ASSUME NEW n \in Int, NEW d \in Nat \ {0}, NEW a \in Int, NEW b \in Int,
         a * d <= n, n < b * d
  PROVE  n \div d \in Int /\ a <= n \div d /\ n \div d < b
  <1>1. PICK q \in Int, r \in Nat : q = n \div d /\ r = n % d /\ n = q * d + r /\ r < d
    <2>1. n \div d \in Int /\ n % d \in Nat /\ n = (n \div d) * d + (n % d) /\ n % d < d
      OBVIOUS
    <2> QED BY <2>1
  <1>2. a <= q
    <2>1. ASSUME q + 1 <= a PROVE FALSE
      <3>1. (q + 1) * d <= a * d
        BY <2>1, MonoTimes
      <3>2. (q + 1) * d = q * d + d /\ q * d \in Int /\ a * d \in Int
        OBVIOUS
      <3> QED BY <1>1, <3>1, <3>2
    <2> QED BY <2>1
  <1>3. q < b
    <2>1. ASSUME b <= q PROVE FALSE
      <3>1. b * d <= q * d
        BY <2>1, MonoTimes
      <3>2. q * d \in Int /\ b * d \in Int
        OBVIOUS
      <3> QED BY <1>1, <3>1, <3>2
    <2> QED BY <2>1
  <1> QED BY <1>1, <1>2, <1>3

(* A place within the region of a mesh lies two cells from its corner and  *)
(* three from the end of its used half.                                    *)
LEMMA PlaceOnGrid ==
  ASSUME NEW h \in Nat, h > 5, NEW E \in Nat \ {0}, NEW y \in 0 .. E
  PROVE  (4001 * 2001 * E + y * (2 * h - 10) * 2000000) \div (4002000 * E) \in 2 .. h - 3
  <1>1. PICK d \in Nat \ {0} : d = 4002000 * E
    OBVIOUS
  <1>2. PICK z \in Nat : z = y * (2 * h - 10)
    <2>1. y \in Nat /\ 2 * h - 10 \in Nat
      OBVIOUS
    <2>2. y * (2 * h - 10) \in Nat
      BY <2>1
    <2> QED BY <2>2
  <1>3. PICK e \in Nat : e = E * (2 * h - 10)
    <2>1. 2 * h - 10 \in Nat
      OBVIOUS
    <2>2. E * (2 * h - 10) \in Nat
      BY <2>1
    <2> QED BY <2>2
  <1>4. z <= e
    <2>1. 2 * h - 10 \in Nat /\ y \in Int /\ E \in Int /\ y <= E
      OBVIOUS
    <2> QED BY <1>2, <1>3, <2>1, MonoTimes
  <1>5. PICK n \in Nat : n = 4001 * 2001 * E + z * 2000000
    OBVIOUS
  <1>6. 2 * d <= n
    BY <1>1, <1>5
  <1>7. PICK w \in Int : w = E * h
    OBVIOUS
  <1>8. e = 2 * w - 10 * E /\ (h - 2) * d = 4002000 * w - 2 * d
    <2>1. E * (2 * h - 10) = 2 * (E * h) - 10 * E
      OBVIOUS
    <2>2. (h - 2) * (4002000 * E) = 4002000 * (E * h) - 2 * (4002000 * E)
      OBVIOUS
    <2> QED BY <1>1, <1>3, <1>7, <2>1, <2>2
  <1>9. w >= E
    <2>1. 1 * E <= h * E /\ h * E = E * h /\ 1 * E = E
      BY MonoTimes
    <2> QED BY <1>7, <2>1
  <1>10. n < (h - 2) * d
    BY <1>1, <1>4, <1>5, <1>8, <1>9
  <1>11. n \div d \in Int /\ 2 <= n \div d /\ n \div d < h - 2
    BY <1>6, <1>10, DivBetween
  <1>12. n = 4001 * 2001 * E + y * (2 * h - 10) * 2000000
    BY <1>2, <1>5
  <1>13. n \div d \in 2 .. h - 3
    BY <1>11
  <1> QED BY <1>1, <1>12, <1>13, SMT

LEMMA PlaceOnEnlarged ==
  ASSUME NEW h \in Nat, h > 5, NEW E \in Nat, NEW y \in 0 .. E, NEW R \in Nat,
         2 * E * 200 < R * (2 * h - 10)
  PROVE  ((100 * y + R) * (2 * h - 2)) \div (2 * (100 * E + 2 * R)) \in 2 .. h - 3
  <1>1. PICK w \in Int : w = R * h
    OBVIOUS
  <1>2. R * (2 * h - 10) = 2 * w - 10 * R
    <2>1. R * (2 * h - 10) = 2 * (R * h) - 10 * R
      OBVIOUS
    <2> QED BY <1>1, <2>1
  <1>3. 400 * E < 2 * w - 10 * R
    BY <1>2
  <1>4. R # 0
    BY <1>1, <1>3
  <1>5. w >= 6 * R
    <2>1. 6 * R <= h * R /\ h * R = R * h
      BY MonoTimes
    <2> QED BY <1>1, <2>1
  <1>6. PICK d \in Nat \ {0} : d = 2 * (100 * E + 2 * R)
    BY <1>4
  <1>7. PICK x \in Int : x = y * h
    OBVIOUS
  <1>8. PICK e \in Int : e = E * h
    OBVIOUS
  <1>9. x - y <= e - E
    <2>1. y * (h - 1) <= E * (h - 1)
      <3>1. h - 1 \in Nat /\ y \in Int /\ y <= E
        OBVIOUS
      <3> QED BY <3>1, MonoTimes
    <2>2. y * (h - 1) = y * h - y /\ E * (h - 1) = E * h - E
      OBVIOUS
    <2> QED BY <1>7, <1>8, <2>1, <2>2
  <1>10. PICK n \in Int : n = (100 * y + R) * (2 * h - 2)
    OBVIOUS
  <1>11. n = 200 * x - 200 * y + 2 * w - 2 * R
    <2>1. (100 * y + R) * (2 * h - 2) = 200 * (y * h) - 200 * y + 2 * (R * h) - 2 * R
      OBVIOUS
    <2> QED BY <1>1, <1>7, <1>10, <2>1
  <1>12. x >= y
    <2>1. 1 * y <= h * y /\ h * y = y * h /\ 1 * y = y
      <3>1. y \in Nat
        OBVIOUS
      <3> QED BY <3>1, MonoTimes
    <2> QED BY <1>7, <2>1
  <1>13. 2 * d <= n
    BY <1>3, <1>6, <1>11, <1>12
  <1>14. (h - 2) * d = 200 * e - 400 * E + 4 * w - 8 * R
    <2>1. (h - 2) * (2 * (100 * E + 2 * R)) = 200 * (E * h) - 400 * E + 4 * (R * h) - 8 * R
      OBVIOUS
    <2> QED BY <1>1, <1>6, <1>8, <2>1
  <1>15. n < (h - 2) * d
    BY <1>3, <1>5, <1>9, <1>11, <1>14
  <1>16. n \div d \in Int /\ 2 <= n \div d /\ n \div d < h - 2
    BY <1>13, <1>15, DivBetween
  <1>17. n \div d \in 2 .. h - 3
    BY <1>16
  <1> QED BY <1>6, <1>10, <1>17, Zenon

-------------------------------------------------------------------------------
(* Calls: what does not change while one mesh is worked out.               *)

RegionOK(r) ==
  \A m \in build \ {"box"} : r[m].min \in Int /\ r[m].max \in Int /\ r[m].min < r[m].max

Called ==
  /\ \E c \in Calls : /\ Pos = c.pos /\ build = Range(c.todo) /\ potential = c.potential
                      /\ todo = c.todo \/ ("high" \in build /\ todo = <<"high">>)
  /\ DOMAIN region = {"coarse", "high"} /\ RegionOK(region)

LEMMA Meshes ==
  ASSUME Called
  PROVE  /\ Pos \in [Particle -> Nat] /\ potential \in BOOLEAN
         /\ Mesh \in {"box", "coarse", "high"} /\ Mesh \in build
         /\ build \in {{"box"}, {"box", "high"}, {"coarse"}, {"coarse", "high"}}
         /\ Mesh = "high" => todo = <<"high">>
         /\ Mesh # "high" => \/ todo = <<Mesh>> /\ build = {Mesh}
                             \/ todo = <<Mesh, "high">> /\ build = {Mesh, "high"}
  <1>1. PICK c \in Calls : /\ Pos = c.pos /\ build = Range(c.todo) /\ potential = c.potential
                           /\ todo = c.todo \/ ("high" \in build /\ todo = <<"high">>)
    BY DEF Called
  <1>2. /\ c.pos \in [Particle -> Nat] /\ c.potential \in BOOLEAN
        /\ c.todo \in {<<"box">>, <<"box", "high">>, <<"coarse">>, <<"coarse", "high">>}
    BY CallsAssumption
  <1>3. /\ Range(<<"box">>) = {"box"} /\ Range(<<"coarse">>) = {"coarse"}
        /\ Range(<<"box", "high">>) = {"box", "high"} /\ Range(<<"coarse", "high">>) = {"coarse", "high"}
    BY DEF Range
  <1>4. CASE todo = c.todo
    <2>1. CASE c.todo = <<"box">>
      BY <1>1, <1>2, <1>3, <1>4, <2>1 DEF Mesh
    <2>2. CASE c.todo = <<"coarse">>
      BY <1>1, <1>2, <1>3, <1>4, <2>2 DEF Mesh
    <2>3. CASE c.todo = <<"box", "high">>
      BY <1>1, <1>2, <1>3, <1>4, <2>3 DEF Mesh
    <2>4. CASE c.todo = <<"coarse", "high">>
      BY <1>1, <1>2, <1>3, <1>4, <2>4 DEF Mesh
    <2> QED BY <1>2, <2>1, <2>2, <2>3, <2>4
  <1>5. CASE "high" \in build /\ todo = <<"high">>
    <2>1. Mesh = "high"
      BY <1>5 DEF Mesh
    <2>2. build \in {{"box"}, {"box", "high"}, {"coarse"}, {"coarse", "high"}}
      BY <1>1, <1>2, <1>3
    <2> QED BY <1>1, <1>2, <1>5, <2>1, <2>2
  <1> QED BY <1>1, <1>4, <1>5

LEMMA SizeFits ==
  ASSUME Called
  PROVE  /\ Size \in {PMGRID, 2 * PMGRID} /\ Size \in Nat /\ Size > 5
         /\ Mesh = "box" => Size = PMGRID
         /\ Mesh # "box" => Size = 2 * PMGRID /\ Size \div 2 = PMGRID
  BY Meshes, SlabsAssumption DEF Size

(* Ranges of slabs.                                                        *)
LEMMA SlabOwner ==
  ASSUME Called
  PROVE  /\ \A t \in Task : first_slab(t) \in Nat /\ Slabs[Size][t] \in Nat
         /\ \A t \in Task : \A s \in 0 .. Slabs[Size][t] - 1 : first_slab(t) + s \in 0 .. Size - 1
         /\ \A x \in Int : x + Size >= 0 =>
              /\ slab_to_task(x) \in Task
              /\ Wrapped(x) \in 0 .. Size - 1
              /\ \A t \in Task : slab_to_task(x) = t <=> Wrapped(x) - first_slab(t) \in 0 .. Slabs[Size][t] - 1
  <1> DEFINE n == Size
  <1>1. n \in {PMGRID, 2 * PMGRID} /\ n \in Nat /\ n > 5
    BY SizeFits
  <1> HIDE DEF n
  <1>2. /\ \A t \in Task : first_slab_of_task[n][t] \in Nat /\ Slabs[n][t] \in Nat
        /\ \A s \in 0 .. n - 1 : \E t \in Task : s \in SlabsAt(n, t)
        /\ \A t, u \in Task : t # u => SlabsAt(n, t) \cap SlabsAt(n, u) = {}
        /\ \A t \in Task : SlabsAt(n, t) \subseteq 0 .. n - 1
    BY <1>1, SlabsAssumption
  <1>3. \A t \in Task : \A s \in Int :
          s \in SlabsAt(n, t) <=> s - first_slab_of_task[n][t] \in 0 .. Slabs[n][t] - 1
    BY <1>2 DEF SlabsAt
  <1>4. ASSUME NEW x \in Int, x + n >= 0
        PROVE  /\ slab_to_task(x) \in Task
               /\ Wrapped(x) \in 0 .. n - 1
               /\ \A t \in Task : slab_to_task(x) = t <=> Wrapped(x) - first_slab_of_task[n][t] \in 0 .. Slabs[n][t] - 1
    <2>1. PICK w \in Int : w = Wrapped(x) /\ w \in 0 .. n - 1
      <3>1. (x + n) % n \in 0 .. n - 1
        BY <1>1, <1>4
      <3> QED BY <3>1 DEF Wrapped, n
    <2>2. slab_to_task(x) = CHOOSE t \in Task : w \in SlabsAt(n, t)
      BY <1>1, <2>1 DEF slab_to_task, TaskOfSlab, n
    <2>3. PICK t \in Task : w \in SlabsAt(n, t)
      BY <1>2, <2>1
    <2>4. slab_to_task(x) \in Task /\ w \in SlabsAt(n, slab_to_task(x))
      <3> DEFINE In(y) == w \in SlabsAt(n, y)
      <3>1. In(t)
        BY <2>3
      <3> HIDE DEF In
      <3>2. (CHOOSE y \in Task : In(y)) \in Task /\ In(CHOOSE y \in Task : In(y))
        BY <3>1, Zenon
      <3> QED BY <2>2, <3>2 DEF In
    <2>5. ASSUME NEW u \in Task
          PROVE  slab_to_task(x) = u <=> w \in SlabsAt(n, u)
      BY <1>2, <2>4
    <2> QED BY <1>3, <2>1, <2>4, <2>5
  <1>5. ASSUME NEW t \in Task, NEW s \in 0 .. Slabs[n][t] - 1
        PROVE  first_slab_of_task[n][t] + s \in 0 .. n - 1
    <2>1. first_slab_of_task[n][t] + s \in SlabsAt(n, t)
      BY <1>2 DEF SlabsAt
    <2> QED BY <1>2, <2>1
  <1> QED BY <1>2, <1>4, <1>5 DEF n, first_slab

(* Places on the mesh.                                                     *)
LEMMA OnMeshPlace ==
  ASSUME Called, NEW p \in Particle, OnMesh(p)
  PROVE  Slab(p) \in 0 .. Size - 1 /\ (Mesh # "box" => Slab(p) \in 0 .. PMGRID - 2)
  <1>1. CASE Mesh = "box"
    <2>1. Pos[p] \in Nat /\ PMGRID \in Nat /\ PMGRID > 5 /\ BoxSize \in Nat \ {0}
      BY Meshes, SlabsAssumption, CallsAssumption
    <2>2. Slab(p) = Min({(Pos[p] * PMGRID) \div BoxSize, PMGRID - 1})
      BY <1>1, SMT DEF Slab, SlabOf
    <2>3. PICK z \in Nat : z = (Pos[p] * PMGRID) \div BoxSize
      <3>1. Pos[p] * PMGRID \in Nat
        BY <2>1
      <3>2. (Pos[p] * PMGRID) \div BoxSize \in Nat
        BY <2>1, <3>1
      <3> QED BY <3>2
    <2>4. Min({z, PMGRID - 1}) \in {z, PMGRID - 1} /\ Min({z, PMGRID - 1}) <= PMGRID - 1
      <3>1. /\ {z, PMGRID - 1} \subseteq Int /\ {z, PMGRID - 1} # {} /\ PMGRID - 1 \in {z, PMGRID - 1}
            /\ \A x \in {z, PMGRID - 1} : 0 <= x
        BY <2>1
      <3> QED BY <3>1, MinIs
    <2>5. Slab(p) \in Nat /\ Slab(p) <= PMGRID - 1
      BY <2>1, <2>2, <2>3, <2>4
    <2> QED BY <1>1, <2>5, SizeFits
  <1>2. CASE Mesh # "box"
    BY <1>2, SizeFits DEF OnMesh
  <1> QED BY <1>1, <1>2

(* A particle within the region of a mesh can be used with it.             *)
LEMMA InsideOnMesh ==
  ASSUME Called, NEW p \in Particle, ~Outside(p), Mesh = "high" => p \in HighRes
  PROVE  OnMesh(p) /\ (Mesh # "box" => Slab(p) \in 2 .. PMGRID - 3)
  <1>1. CASE Mesh = "box"
    BY <1>1 DEF OnMesh
  <1>2. CASE Mesh # "box"
    <2>1. PMGRID \in Nat /\ PMGRID > 5 /\ Size = 2 * PMGRID /\ Size \div 2 = PMGRID
      BY <1>2, SlabsAssumption, SizeFits
    <2>2. Mesh \in {"coarse", "high"} /\ Mesh \in build \ {"box"}
      BY <1>2, Meshes
    <2>3. PICK low \in Int, high \in Int : low = region[Mesh].min /\ high = region[Mesh].max /\ low < high
      BY <2>2 DEF Called, RegionOK
    <2>4. low <= Pos[p] /\ Pos[p] <= high /\ Pos[p] \in Nat
      <3>1. Pos[p] \in Nat
        BY Meshes
      <3>2. ~(Pos[p] < low \/ Pos[p] > high)
        BY <1>2, <2>3 DEF Outside
      <3> QED BY <3>1, <3>2
    <2>5. PICK E \in Nat \ {0} : E = high - low
      BY <2>3
    <2>6. PICK y \in 0 .. E : y = Pos[p] - low
      BY <2>4, <2>5
    <2>7. Extension(Mesh) = E
      BY <2>3, <2>5 DEF Extension
    <2>8. CASE Mesh = "high" /\ Enlarged
      <3>1. Rcut \in Nat
        <4>1. CASE "box" \in build
          <5>1. (563 * BoxSize) \in Nat
            BY CallsAssumption
          <5>2. (563 * BoxSize) \div PMGRID \in Nat
            BY <2>1, <5>1
          <5> QED BY <4>1, <5>2, SMT DEF Rcut
        <4>2. CASE "box" \notin build
          <5>1. "coarse" \in build \ {"box"}
            BY <4>2, Meshes
          <5>2. PICK e \in Nat : e = Extension("coarse")
            <6>1. region.coarse.min \in Int /\ region.coarse.max \in Int /\ region.coarse.min < region.coarse.max
              BY <5>1 DEF Called, RegionOK
            <6>2. region.coarse.max - region.coarse.min \in Nat
              BY <6>1
            <6> QED BY <6>2 DEF Extension
          <5>3. 2 * PMGRID - 10 \in Nat \ {0} /\ 1126 * e \in Nat
            BY <2>1
          <5>4. (1126 * e) \div (2 * PMGRID - 10) \in Nat
            <6>1. PICK n \in Nat : n = 1126 * e
              OBVIOUS
            <6>2. PICK d \in Nat \ {0} : d = 2 * PMGRID - 10
              BY <2>1
            <6>3. n \div d \in Nat
              BY DivNat
            <6> QED BY <6>1, <6>2, <6>3, Zenon
          <5> QED BY <4>2, <5>2, <5>4, SMT DEF Rcut
        <4> QED BY <4>1, <4>2
      <3>2. PICK R \in Nat : R = Rcut
        BY <3>1
      <3>3. 2 * E * 200 < R * (2 * PMGRID - 10)
        BY <2>7, <2>8, <3>2, SMT DEF Enlarged
      <3>4. Slab(p) = ((100 * y + R) * (2 * PMGRID - 2)) \div (2 * (100 * E + 2 * R))
        <4>1. Mesh # "box" /\ Mesh = "high" /\ Enlarged
          BY <2>8
        <4>2. Slab(p) = ((100 * (Pos[p] - region.high.min) + Rcut) * (Size - 2))
                           \div (2 * (100 * Extension("high") + 2 * Rcut))
          BY <4>1, SMT DEF Slab, SlabOf
        <4>3. Pos[p] - region.high.min = y /\ Extension("high") = E
          BY <2>3, <2>6, <2>7, <4>1
        <4>4. Size - 2 = 2 * PMGRID - 2
          BY <2>1
        <4> QED BY <3>2, <4>2, <4>3, <4>4, Zenon
      <3>5. Slab(p) \in 2 .. PMGRID - 3
        BY <2>1, <3>3, <3>4, PlaceOnEnlarged
      <3> QED BY <2>1, <3>5, SMT DEF OnMesh
    <2>9. CASE ~(Mesh = "high" /\ Enlarged)
      <3>1. Slab(p) = (4001 * 2001 * Extension(Mesh) + (Pos[p] - region[Mesh].min) * (Size - 10) * 2000000)
                         \div (4002000 * Extension(Mesh))
        BY <1>2, <2>9, SMT DEF Slab, SlabOf
      <3>2. Slab(p) = (4001 * 2001 * E + y * (2 * PMGRID - 10) * 2000000) \div (4002000 * E)
        BY <2>1, <2>3, <2>6, <2>7, <3>1, SMT
      <3>3. Slab(p) \in 2 .. PMGRID - 3
        BY <2>1, <3>2, PlaceOnGrid, SMT
      <3> QED BY <2>1, <3>3, SMT DEF OnMesh
    <2> QED BY <2>8, <2>9
  <1> QED BY <1>1, <1>2

-------------------------------------------------------------------------------
(* Bags and folds.                                                         *)

LEMMA BagsAdd ==
  ASSUME NEW S, NEW T, S \cap T = {}
  PROVE  SetToBag(S) (+) SetToBag(T) = SetToBag(S \cup T)
  <1>1. \A e \in S \cup T : (IF e \in S THEN SetToBag(S)[e] ELSE 0) + (IF e \in T THEN SetToBag(T)[e] ELSE 0) = 1
    BY DEF SetToBag
  <1>2. DOMAIN SetToBag(S) = S /\ DOMAIN SetToBag(T) = T
    BY DEF SetToBag
  <1>3. SetToBag(S) (+) SetToBag(T) =
          [e \in S \cup T |-> (IF e \in S THEN SetToBag(S)[e] ELSE 0) + (IF e \in T THEN SetToBag(T)[e] ELSE 0)]
    BY <1>2 DEF (+)
  <1>4. SetToBag(S) (+) SetToBag(T) = [e \in S \cup T |-> 1]
    BY <1>1, <1>3
  <1> QED BY <1>4 DEF SetToBag

(* Two functions of sets that take out c and go on with the rest.          *)
SameTurns(S, c, f, g) ==
  /\ \A s \in SUBSET S : s # {} => c[s] \in s
  /\ f[{}] = g[{}]
  /\ \A s \in SUBSET S : s # {} /\ f[s \ {c[s]}] = g[s \ {c[s]}] => f[s] = g[s]

LEMMA SameFold ==
  ASSUME NEW S, IsFiniteSet(S), NEW c, NEW f, NEW g, SameTurns(S, c, f, g)
  PROVE  f[S] = g[S]
  <1> DEFINE Bad == {s \in SUBSET S : f[s] # g[s]}
             T == {Cardinality(s) : s \in Bad}
  <1>1. SUFFICES ASSUME Bad # {} PROVE FALSE
    OBVIOUS
  <1>2. \A s \in SUBSET S : IsFiniteSet(s) /\ Cardinality(s) \in Nat
    BY FS_Subset, FS_CardinalityType
  <1>3. PICK s \in Bad : \A r \in Bad : Cardinality(s) <= Cardinality(r)
    <2>1. T \subseteq Nat /\ T # {}
      BY <1>1, <1>2
    <2>2. PICK n \in T : \A m \in T : n <= m
      <3> HIDE DEF T
      <3> QED BY <2>1, LeastOf
    <2> QED BY <2>2
  <1>4. s # {} /\ s \in SUBSET S /\ c[s] \in s
    BY <1>3 DEF SameTurns
  <1>5. Cardinality(s \ {c[s]}) = Cardinality(s) - 1
    BY <1>2, <1>4, FS_RemoveElement
  <1>6. s \ {c[s]} \in SUBSET S /\ s \ {c[s]} \notin Bad
    <2>1. s \ {c[s]} \in SUBSET S
      BY <1>4
    <2>2. Cardinality(s) \in Nat
      BY <1>2, <1>4
    <2> QED BY <1>3, <1>5, <2>1, <2>2
  <1>7. f[s] = g[s]
    BY <1>4, <1>6 DEF SameTurns
  <1> QED BY <1>3, <1>7

(* Cells of a patch that are added to a slab, if no part comes twice.      *)
AddedTo(cell, W, m, I) ==
  MapThenFoldSet(LAMBDA a, b : a (+) b, cell, LAMBDA x : W[x - m],
                 LAMBDA X : CHOOSE x \in X : TRUE, I)

Addable(I, m, W, B, A) ==
  /\ IsFiniteSet(I)
  /\ \A x \in I : W[x - m] = SetToBag(A[x]) /\ A[x] \cap B = {}
  /\ \A x, y \in I : x # y => A[x] \cap A[y] = {}

LEMMA AddUp ==
  ASSUME NEW I, NEW m, NEW W, NEW B, NEW A, Addable(I, m, W, B, A)
  PROVE  AddedTo(SetToBag(B), W, m, I) = SetToBag(B \cup UNION {A[x] : x \in I})
  <1> USE DEF Addable
  <1> DEFINE c == [s \in SUBSET I |-> CHOOSE x \in s : TRUE]
             Cell(it) == [s \in SUBSET I |-> IF s = {} THEN SetToBag(B)
                           ELSE W[(CHOOSE x \in s : TRUE) - m] (+) it[s \ {CHOOSE x \in s : TRUE}]]
             all == [s \in SUBSET I |-> SetToBag(B \cup UNION {A[x] : x \in s})]
             iter == CHOOSE it : it = Cell(it)
  <1>1. \A s \in SUBSET I : c[s] = (CHOOSE x \in s : TRUE) /\ (s # {} => c[s] \in s)
    OBVIOUS
  <1>2. AddedTo(SetToBag(B), W, m, I) = iter[I]
    BY DEF AddedTo, MapThenFoldSet
  <1> HIDE DEF c
  <1>3. ASSUME NEW s \in SUBSET I, s # {}
        PROVE  all[s] = W[c[s] - m] (+) all[s \ {c[s]}]
    <2> DEFINE r == s \ {c[s]}
               R == B \cup UNION {A[x] : x \in r}
    <2>1. c[s] \in I /\ c[s] \notin r /\ r \in SUBSET I
      BY <1>1, <1>3
    <2>2. A[c[s]] \cap R = {}
      BY <2>1
    <2>3. W[c[s] - m] = SetToBag(A[c[s]])
      BY <2>1
    <2>4. A[c[s]] \cup R = B \cup UNION {A[x] : x \in s}
      BY <1>1, <1>3
    <2>5. SetToBag(A[c[s]]) (+) SetToBag(R) = SetToBag(A[c[s]] \cup R)
      BY <2>2, BagsAdd
    <2>6. all[r] = SetToBag(R) /\ all[s] = SetToBag(B \cup UNION {A[x] : x \in s})
      BY <2>1
    <2> QED BY <2>3, <2>4, <2>5, <2>6
  <1>4. all[{}] = SetToBag(B)
    <2>1. B \cup UNION {A[x] : x \in {}} = B /\ {} \in SUBSET I
      OBVIOUS
    <2> QED BY <2>1
  <1>5. all = Cell(all)
    <2>1. \A s \in SUBSET I : all[s] = Cell(all)[s]
      <3> HIDE DEF all
      <3> QED BY <1>1, <1>3, <1>4
    <2>2. DOMAIN all = SUBSET I /\ DOMAIN Cell(all) = SUBSET I /\ all = [s \in SUBSET I |-> all[s]]
            /\ Cell(all) = [s \in SUBSET I |-> Cell(all)[s]]
      OBVIOUS
    <2> HIDE DEF all, Cell
    <2> QED BY <2>1, <2>2
  <1> HIDE DEF all
  <1>6. iter = Cell(iter)
    <2> HIDE DEF Cell
    <2> QED BY <1>5, Zenon
  <1> HIDE DEF iter
  <1>7. iter[{}] = all[{}]
    <2>1. {} \in SUBSET I
      OBVIOUS
    <2>2. Cell(iter)[{}] = SetToBag(B)
      BY <2>1
    <2> HIDE DEF Cell
    <2> QED BY <1>4, <1>6, <2>2
  <1>8. ASSUME NEW s \in SUBSET I, s # {}, iter[s \ {c[s]}] = all[s \ {c[s]}]
        PROVE  iter[s] = all[s]
    <2>1. Cell(iter)[s] = W[c[s] - m] (+) iter[s \ {c[s]}]
      BY <1>1, <1>8
    <2> HIDE DEF Cell
    <2> QED BY <1>3, <1>6, <1>8, <2>1
  <1>9. iter[I] = all[I]
    <2>1. \A s \in SUBSET I : s # {} => c[s] \in s
      BY <1>1
    <2>2. \A s \in SUBSET I : s # {} /\ iter[s \ {c[s]}] = all[s \ {c[s]}] => iter[s] = all[s]
      BY <1>8
    <2>3. SameTurns(I, c, iter, all)
      BY <1>7, <2>1, <2>2 DEF SameTurns
    <2> QED BY <2>3, SameFold
  <1>10. all[I] = SetToBag(B \cup UNION {A[x] : x \in I})
    BY DEF all
  <1> QED BY <1>2, <1>9, <1>10, Zenon

-------------------------------------------------------------------------------
(* The pieces in which a range of slabs is sent.                           *)

LEMMA MinMax ==
  ASSUME NEW lo \in Int, NEW hi \in Int, NEW S, S \subseteq lo .. hi, S # {}
  PROVE  /\ Min(S) \in S /\ \A x \in S : Min(S) <= x
         /\ Max(S) \in S /\ \A x \in S : x <= Max(S)
  <1>1. S \subseteq Int /\ \A x \in S : lo <= x /\ x <= hi
    OBVIOUS
  <1>2. Min(S) \in S /\ \A x \in S : Min(S) <= x
    BY <1>1, MinIs
  <1>3. Max(S) \in S /\ \A x \in S : Max(S) >= x
    BY <1>1, MaxIs
  <1> QED BY <1>1, <1>2, <1>3

LEMMA ThroughConvex ==
  ASSUME NEW lo \in Int, NEW hi \in Int, NEW S, S \subseteq lo .. hi,
         \A x, z \in S : \A y \in x .. z : y \in S
  PROVE  Gaps(S) = {} /\ Through(S) = S
  <1>1. CASE S = {}
    BY <1>1 DEF Gaps, Through
  <1>2. CASE S # {}
    <2>1. /\ Min(S) \in S /\ \A x \in S : Min(S) <= x
          /\ Max(S) \in S /\ \A x \in S : x <= Max(S)
      BY <1>2, MinMax
    <2>2. Through(S) = Min(S) .. Max(S)
      BY <1>2 DEF Through
    <2>3. Min(S) .. Max(S) = S
      <3>1. PICK a \in Int, b \in Int : a = Min(S) /\ b = Max(S)
        <4>1. \A x \in S : x \in Int
          OBVIOUS
        <4>2. Min(S) \in Int /\ Max(S) \in Int
          BY <2>1, <4>1
        <4> QED BY <4>2
      <3>2. a \in S /\ b \in S /\ \A x \in S : x \in Int /\ a <= x /\ x <= b
        BY <2>1, <3>1
      <3>3. a .. b \subseteq S /\ S \subseteq a .. b
        BY <3>2
      <3> QED BY <3>1, <3>3
    <2> QED BY <2>2, <2>3 DEF Gaps
  <1> QED BY <1>1, <1>2

TwoPieces(S, lo, hi, p, q, r, s) ==
  /\ lo \in Int /\ hi \in Int /\ p \in Int /\ q \in Int /\ r \in Int /\ s \in Int
  /\ p <= q /\ q + 1 < r /\ r <= s
  /\ S = {x \in lo .. hi : x \in p .. q \/ x \in r .. s}

LEMMA TwoRanges ==
  ASSUME NEW lo, NEW hi, NEW p, NEW q, NEW r, NEW s, NEW S, TwoPieces(S, lo, hi, p, q, r, s)
  PROVE  Pieces(S) = S
  <1> USE DEF TwoPieces
  <1>1. S \subseteq lo .. hi
    OBVIOUS
  <1>2. CASE \E x, z \in S : x <= q /\ z >= r
    <2>1. PICK x \in S, z \in S : x <= q /\ z >= r
      BY <1>2
    <2>2. q \in S /\ r \in S /\ q + 1 \notin S
      BY <2>1
    <2>3. /\ Min(S) \in S /\ \A y \in S : Min(S) <= y
          /\ Max(S) \in S /\ \A y \in S : y <= Max(S)
      BY <1>1, <2>2, MinMax
    <2>4. Through(S) = Min(S) .. Max(S)
      BY <2>2 DEF Through
    <2>5. PICK a \in Int, b \in Int : a = Min(S) /\ b = Max(S)
      <3>1. Min(S) \in Int /\ Max(S) \in Int
        BY <1>1, <2>3
      <3> QED BY <3>1
    <2>6. p <= a /\ a <= q /\ r <= b /\ b <= s /\ lo <= a /\ b <= hi
      BY <2>2, <2>3, <2>5
    <2>7. Gaps(S) = {q + 1}
      <3>1. ASSUME NEW y \in Through(S) \ S, y - 1 \in S
            PROVE  y = q + 1
        <4>1. y \in Int /\ a <= y /\ y <= b
          BY <2>4, <2>5, <3>1
        <4> QED BY <2>6, <3>1, <4>1
      <3>2. q + 1 \in Through(S) \ S /\ (q + 1) - 1 \in S
        BY <2>2, <2>4, <2>5, <2>6
      <3> QED BY <3>1, <3>2 DEF Gaps
    <2>8. Max(Gaps(S)) = q + 1
      <3>1. Max({q + 1}) \in {q + 1}
        <4>1. {q + 1} \subseteq Int /\ {q + 1} # {} /\ q + 1 \in Int /\ \A x1 \in {q + 1} : x1 <= q + 1
          OBVIOUS
        <4> QED BY <4>1, MaxIs
      <3> QED BY <2>7, <3>1
    <2>9. Min({y \in S : y > q + 1}) = r
      <3> DEFINE T == {y \in S : y > q + 1}
      <3>1. r \in T /\ T \subseteq lo .. hi /\ \A y \in T : r <= y
        BY <2>2
      <3>2. Min(T) \in T /\ Min(T) <= r
        <4> HIDE DEF T
        <4> QED BY <3>1, MinMax
      <3>3. r <= Min(T) /\ Min(T) \in Int
        BY <3>1, <3>2
      <3> QED BY <3>2, <3>3
    <2>10. Pieces(S) = a .. q \cup r .. b
      <3>1. Pieces(S) = Min(S) .. Max(Gaps(S)) - 1 \cup Min({y \in S : y > Max(Gaps(S))}) .. Max(S)
        BY <2>7 DEF Pieces
      <3>2. (q + 1) - 1 = q
        OBVIOUS
      <3> QED BY <2>5, <2>8, <2>9, <3>1, <3>2, Zenon
    <2>11. a .. q \cup r .. b = S
      <3>1. \A y \in S : y \in a .. q \cup r .. b
        BY <2>3, <2>5
      <3>2. \A y \in a .. q \cup r .. b : y \in S
        BY <2>6
      <3> QED BY <3>1, <3>2
    <2> QED BY <2>10, <2>11
  <1>3. CASE ~ \E x, z \in S : x <= q /\ z >= r
    <2>1. ASSUME NEW x \in S, NEW z \in S, NEW y \in x .. z
          PROVE  y \in S
      <3>1. ~(x <= q /\ z >= r)
        BY <1>3
      <3> QED BY <3>1
    <2>2. Gaps(S) = {} /\ Through(S) = S
      <3> QED BY <1>1, <2>1, ThroughConvex
    <2> QED BY <2>2 DEF Pieces
  <1> QED BY <1>2, <1>3

(* A task's part of a patch that wraps around has at most one gap.          *)
PartOfPatch(S, N, lo, hi, F, L) ==
  /\ N \in Nat /\ N > 5 /\ lo \in Int /\ hi \in Int /\ -2 <= lo /\ hi <= N + 2
  /\ F \in Nat /\ L \in Nat /\ (L > 0 => F + L <= N)
  /\ L = N \/ F > 2 \/ F + L - 1 < N - 2 \/ (lo >= 0 /\ hi < N)
  /\ S = {x \in lo .. hi : ((x + N) % N) - F \in 0 .. L - 1}

LEMMA PiecesWhole ==
  ASSUME NEW N, NEW lo, NEW hi, NEW F, NEW L, NEW S, PartOfPatch(S, N, lo, hi, F, L)
  PROVE  Pieces(S) = S
  <1> USE DEF PartOfPatch
  <1>1. S \subseteq lo .. hi
    OBVIOUS
  <1>2. \A x \in lo .. hi : /\ x < 0 => (x + N) % N = x + N
                            /\ x >= 0 /\ x < N => (x + N) % N = x
                            /\ x >= N => (x + N) % N = x - N
    OBVIOUS
  <1>3. \A x \in lo .. hi : x \in S <=>
           \/ x < 0 /\ x + N - F \in 0 .. L - 1
           \/ x >= 0 /\ x < N /\ x - F \in 0 .. L - 1
           \/ x >= N /\ x - N - F \in 0 .. L - 1
    BY <1>2
  <1>4. CASE L = 0
    <2>1. S = {}
      BY <1>4
    <2> QED BY <2>1, ThroughConvex DEF Pieces
  <1>5. CASE L = N
    <2>1. F = 0
      BY <1>5
    <2>2. S = lo .. hi
      BY <1>1, <1>3, <1>5, <2>1
    <2>3. \A x, z \in S : \A y \in x .. z : y \in S
      <3>1. \A x, z \in lo .. hi : \A y \in x .. z : y \in lo .. hi
        OBVIOUS
      <3> QED BY <2>2, <3>1, Zenon
    <2>4. Gaps(S) = {} /\ Through(S) = S
      BY <1>1, <2>3, ThroughConvex
    <2> QED BY <2>4 DEF Pieces
  <1>6. CASE L > 0 /\ L # N /\ lo >= 0 /\ hi < N
    <2>1. \A x \in lo .. hi : x \in S <=> x >= F /\ x <= F + L - 1
      BY <1>3, <1>6
    <2>2. \A x, z \in S : \A y \in x .. z : y \in S
      <3>1. \A x \in S : x \in lo .. hi /\ x >= F /\ x <= F + L - 1
        BY <1>1, <2>1
      <3>2. ASSUME NEW x \in S, NEW z \in S, NEW y \in x .. z
            PROVE  y \in S
        <4>1. x \in lo .. hi /\ z \in lo .. hi /\ x >= F /\ z <= F + L - 1
          BY <3>1, Zenon
        <4>2. y \in lo .. hi /\ y >= F /\ y <= F + L - 1
          BY <4>1
        <4> QED BY <2>1, <4>2
      <3> QED BY <3>2
    <2>3. Gaps(S) = {} /\ Through(S) = S
      BY <1>1, <2>2, ThroughConvex
    <2> QED BY <2>3 DEF Pieces
  <1>7. CASE L > 0 /\ L # N /\ F > 2
    <2>1. \A x \in lo .. hi : x \in S <=> x \in F - N .. F + L - 1 - N \/ x \in F .. F + L - 1
      BY <1>3, <1>7
    <2>2. S = {x \in lo .. hi : x \in F - N .. F + L - 1 - N \/ x \in F .. F + L - 1}
      BY <1>1, <2>1
    <2>3. TwoPieces(S, lo, hi, F - N, F + L - 1 - N, F, F + L - 1)
      BY <1>7, <2>2 DEF TwoPieces
    <2> QED BY <2>3, TwoRanges
  <1>8. CASE L > 0 /\ L # N /\ F + L - 1 < N - 2
    <2>1. \A x \in lo .. hi : x \in S <=> x \in F .. F + L - 1 \/ x \in F + N .. F + L - 1 + N
      BY <1>3, <1>8
    <2>2. S = {x \in lo .. hi : x \in F .. F + L - 1 \/ x \in F + N .. F + L - 1 + N}
      BY <1>1, <2>1
    <2>3. TwoPieces(S, lo, hi, F, F + L - 1, F + N, F + L - 1 + N)
      BY <1>8, <2>2 DEF TwoPieces
    <2> QED BY <2>3, TwoRanges
  <1> QED BY <1>4, <1>5, <1>6, <1>7, <1>8
-------------------------------------------------------------------------------
(* The inductive invariant.                                                *)

(* The tasks met before a level.                                           *)
PartnerAt(t, n) == IF n = 0 THEN t ELSE PairedBy[<<t, n>>]

Met(t, k) == {u \in Task : \E n \in 0 .. k - 1 : PartnerAt(t, n) = u}

Early == \A t \in Task : mpc[t] \in {"density", "fft"}

Late == \A t \in Task : mpc[t] \in {"potential", "readout", "returned"}

MeshTogether == MeshAt("extent") \/ Early \/ Late \/ MeshAt("over") \/ MeshAt("endrun")

MeshShapes ==
  /\ mpc = [t \in Task |-> mpc[t]] /\ mlevel = [t \in Task |-> mlevel[t]]
  /\ workspace = [t \in Task |-> workspace[t]] /\ rhogrid = [t \in Task |-> rhogrid[t]]

LevelsRight ==
  \A t \in Task :
    /\ mlevel[t] \in 0 .. Groups
    /\ mpc[t] \in {"fft", "readout", "returned"} => mlevel[t] = Groups

(* What the particles of some tasks add to a slab.                         *)
Parts(T, s) ==
  {d \in {p \in UNION {Hold[u] : u \in T} : OnMesh(p)} \X {0, 1} : Wrapped(Slab(d[1]) + d[2]) = s}

SlabParts(t, k) ==
  [s \in 0 .. Slabs[Size][t] - 1 |-> SetToBag(Parts(Met(t, k), first_slab(t) + s))]

Cells(t, min, max) ==
  [o \in 0 .. max - min + 1 |->
     SetToBag({d \in {p \in Hold[t] : OnMesh(p)} \X {0, 1} : Slab(d[1]) + d[2] - min = o})]

DensityOf(t) ==
  /\ meshmin[t] = lowest(t, {p \in Particle : OnMesh(p)})
  /\ meshmax[t] = highest(t, {p \in Particle : OnMesh(p)})
  /\ workspace[t] = Cells(t, meshmin[t], meshmax[t])
  /\ rhogrid[t] = SlabParts(t, mlevel[t])

(* The particles a mesh is for.                                            *)
ReadHere(p) == Mesh = "high" => p \in HighRes

SlabCells(t) == [s \in 0 .. Slabs[Size][t] - 1 |-> first_slab(t) + s]

Fetched(t, min, max, k, cells) ==
  \A o \in 0 .. max - min + 5 :
    slab_to_task(o + min - 2) \in Met(t, k) => cells[o] = Wrapped(o + min - 2)

PotentialOf(t) ==
  /\ meshmin[t] = lowest(t, {p \in Particle : OnMesh(p) /\ ReadHere(p)})
  /\ meshmax[t] = highest(t, {p \in Particle : OnMesh(p) /\ ReadHere(p)})
  /\ ~RimOutside(meshmin[t], meshmax[t])
  /\ rhogrid[t] = SlabCells(t)
  /\ DOMAIN workspace[t] = 0 .. meshmax[t] - meshmin[t] + 5
  /\ Fetched(t, meshmin[t], meshmax[t], mlevel[t], workspace[t])

(* The meshes done before this one.                                        *)
Before == IF Mesh = "high" THEN build \ {"high"} ELSE {}

Demanded(p) == [mesh |-> Mesh, of |-> [side \in {0, 1} |-> Around(p, side)]]

(* One reading of each mesh that is done.                                  *)
OnceEach(B, meshes) ==
  /\ B = SetToBag(DOMAIN B)
  /\ {r.mesh : r \in DOMAIN B} = meshes
  /\ \A q, r \in DOMAIN B : q.mesh = r.mesh => q = r

Once(p, meshes) == OnceEach(GravPM[p], meshes)

ReadingsOf(t) ==
  \A p \in Hold[t] :
    IF mpc[t] = "returned" /\ ReadHere(p)
    THEN Once(p, Before \cup {Mesh}) /\ Demanded(p) \in DOMAIN GravPM[p]
    ELSE Once(p, Before)

KernelRight == kernel = region \/ (OwnPotential /\ tries = "again")

MeshIInv ==
  /\ Called /\ MeshTogether /\ MeshShapes /\ LevelsRight
  /\ GravPM = [p \in Particle |-> GravPM[p]]
  /\ Early \/ Late => \A p \in Particle : ~Outside(p)
  /\ Early => \A t \in Task : DensityOf(t)
  /\ Late => \A t \in Task : PotentialOf(t)
  /\ ~MeshAt("over") /\ ~MeshAt("endrun") => KernelRight /\ \A t \in Task : ReadingsOf(t)
-------------------------------------------------------------------------------
(* Pairs.                                                                  *)

LEMMA PairUp ==
  ASSUME NEW t \in Task, NEW n \in 0 .. Groups - 1, PartnerAt(t, n) < NTask
  PROVE  PartnerAt(t, n) \in Task /\ PartnerAt(PartnerAt(t, n), n) = t
  <1>1. CASE n = 0
    BY <1>1 DEF PartnerAt
  <1>2. CASE n # 0
    <2>1. n \in 1 .. Groups - 1
      BY <1>2, XorAssumption
    <2>2. PairedBy[<<t, n>>] \in Nat /\ PairedBy[<<t, n>>] < NTask
      BY <1>2, <2>1, XorAssumption DEF PartnerAt
    <2>3. PairedBy[<<t, n>>] \in Task
      <3>1. PICK v \in Nat : v = PairedBy[<<t, n>>] /\ v < NTask
        BY <2>2
      <3>2. NTask \in Nat
        BY SlabsAssumption
      <3>3. v \in Task
        BY <3>1, <3>2 DEF Task
      <3> QED BY <3>1, <3>3
    <2>4. PairedBy[<<PairedBy[<<t, n>>], n>>] = t
      BY <2>1, <2>3, XorAssumption
    <2> QED BY <1>2, <2>3, <2>4 DEF PartnerAt
  <1> QED BY <1>1, <1>2

LEMMA MetMore ==
  ASSUME NEW t \in Task, NEW k \in 0 .. Groups - 1
  PROVE  /\ Met(t, k + 1) = Met(t, k) \cup ({PartnerAt(t, k)} \cap Task)
         /\ PartnerAt(t, k) \notin Met(t, k)
  <1>1. 0 .. (k + 1) - 1 = (0 .. k - 1) \cup {k} /\ Groups \in Nat \ {0}
    BY XorAssumption
  <1>2. Met(t, k + 1) = Met(t, k) \cup ({PartnerAt(t, k)} \cap Task)
    BY <1>1, Zenon DEF Met
  <1>3. ASSUME PartnerAt(t, k) \in Met(t, k)
        PROVE  FALSE
    <2>1. PICK n \in 0 .. k - 1 : PartnerAt(t, n) = PartnerAt(t, k) /\ PartnerAt(t, k) \in Task
      BY <1>3 DEF Met
    <2>2. k \in 1 .. Groups - 1 /\ k # 0 /\ n # k /\ (n # 0 => n \in 1 .. Groups - 1)
      BY <1>1
    <2>3. PartnerAt(t, k) = PairedBy[<<t, k>>]
      BY <2>2 DEF PartnerAt
    <2>4. CASE n = 0
      BY <2>1, <2>2, <2>3, <2>4, XorAssumption DEF PartnerAt
    <2>5. CASE n # 0
      <3>1. PairedBy[<<t, n>>] = PairedBy[<<t, k>>]
        BY <2>1, <2>3, <2>5 DEF PartnerAt
      <3> QED BY <2>2, <2>5, <3>1, XorAssumption
    <2> QED BY <2>4, <2>5
  <1> QED BY <1>2, <1>3

LEMMA MetAll ==
  ASSUME NEW t \in Task
  PROVE  Met(t, 0) = {} /\ Met(t, Groups) = Task
  <1>1. 0 .. 0 - 1 = {} /\ Groups \in Nat \ {0}
    BY XorAssumption
  <1>2. ASSUME NEW u \in Task
        PROVE  \E n \in 0 .. Groups - 1 : PartnerAt(t, n) = u
    <2>1. CASE u = t
      <3>1. 0 \in 0 .. Groups - 1 /\ PartnerAt(t, 0) = u
        BY <1>1, <2>1 DEF PartnerAt
      <3> QED BY <3>1
    <2>2. CASE u # t
      <3>1. PICK n \in 1 .. Groups - 1 : PairedBy[<<t, n>>] = u
        BY <2>2, XorAssumption
      <3>2. n \in 0 .. Groups - 1 /\ n # 0
        BY <1>1
      <3> QED BY <3>1, <3>2 DEF PartnerAt
    <2> QED BY <2>1, <2>2
  <1> QED BY <1>1, <1>2 DEF Met

LEMMA PartnerIs ==
  ASSUME NEW t
  PROVE  MeshPartner(t) = PartnerAt(t, mlevel[t])
  BY DEF MeshPartner, PartnerAt

LEMMA SameLevels ==
  ASSUME LevelsRight, NEW t \in Task, NEW u \in Task, NEW stage, Meets(t, u, stage)
  PROVE  /\ mlevel[t] \in 0 .. Groups - 1 /\ mlevel[u] = mlevel[t]
         /\ PartnerAt(t, mlevel[t]) = u /\ PartnerAt(u, mlevel[t]) = t
         /\ mpc[t] = stage /\ mpc[u] = stage
  <1>1. /\ mlevel[t] \in 0 .. Groups - 1 /\ mlevel[u] \in 0 .. Groups - 1
        /\ mpc[t] = stage /\ mpc[u] = stage
    BY XorAssumption DEF Meets, Busy, LevelsRight
  <1>2. PartnerAt(t, mlevel[t]) = u /\ PartnerAt(u, mlevel[u]) = t
    BY PartnerIs DEF Meets
  <1>3. CASE mlevel[t] = 0 \/ mlevel[u] = 0
    <2>1. t = u
      BY <1>2, <1>3 DEF PartnerAt
    <2> QED BY <1>1, <1>2, <2>1
  <1>4. CASE mlevel[t] # 0 /\ mlevel[u] # 0
    <2>1. mlevel[t] \in 1 .. Groups - 1 /\ mlevel[u] \in 1 .. Groups - 1
      BY <1>1, <1>4
    <2>2. PairedBy[<<t, mlevel[t]>>] = u /\ PairedBy[<<u, mlevel[u]>>] = t
      BY <1>2, <1>4 DEF PartnerAt
    <2>3. PairedBy[<<u, mlevel[t]>>] = t
      BY <2>1, <2>2, XorAssumption
    <2>4. mlevel[u] = mlevel[t]
      BY <2>1, <2>2, <2>3, XorAssumption
    <2> QED BY <1>1, <1>2, <2>4
  <1> QED BY <1>3, <1>4
-------------------------------------------------------------------------------
(* What a mesh makes of places does not change while it is worked out.     *)

LEMMA PlacesStay ==
  ASSUME UNCHANGED <<call, driver>>
  PROVE  /\ Mesh' = Mesh /\ Size' = Size /\ Called' = Called /\ Before' = Before
         /\ \A x : Wrapped(x)' = Wrapped(x) /\ slab_to_task(x)' = slab_to_task(x)
         /\ \A t : first_slab(t)' = first_slab(t)
         /\ \A p : /\ Slab(p)' = Slab(p) /\ OnMesh(p)' = OnMesh(p) /\ Outside(p)' = Outside(p)
                   /\ ReadHere(p)' = ReadHere(p) /\ Demanded(p)' = Demanded(p)
         /\ \A x, y : RimOutside(x, y)' = RimOutside(x, y)
         /\ \A t : /\ lowest(t, {p \in Particle : OnMesh(p)})' = lowest(t, {p \in Particle : OnMesh(p)})
                   /\ highest(t, {p \in Particle : OnMesh(p)})' = highest(t, {p \in Particle : OnMesh(p)})
                   /\ lowest(t, {p \in Particle : OnMesh(p) /\ ReadHere(p)})'
                        = lowest(t, {p \in Particle : OnMesh(p) /\ ReadHere(p)})
                   /\ highest(t, {p \in Particle : OnMesh(p) /\ ReadHere(p)})'
                        = highest(t, {p \in Particle : OnMesh(p) /\ ReadHere(p)})
                   /\ SlabParts(t, mlevel[t])' = SlabParts(t, mlevel'[t])
                   /\ Cells(t, meshmin[t], meshmax[t])' = Cells(t, meshmin'[t], meshmax'[t])
                   /\ RimOutside(meshmin[t], meshmax[t])' = RimOutside(meshmin'[t], meshmax'[t])
                   /\ SlabCells(t)' = SlabCells(t)
                   /\ Fetched(t, meshmin[t], meshmax[t], mlevel[t], workspace[t])'
                        = Fetched(t, meshmin'[t], meshmax'[t], mlevel'[t], workspace'[t])
  <1>1. /\ Pos' = Pos /\ build' = build /\ potential' = potential
        /\ todo' = todo /\ tries' = tries /\ region' = region /\ kernel' = kernel
    BY DEF call, driver
  <1>2. Mesh' = Mesh
    BY <1>1 DEF Mesh
  <1>3. Size' = Size
    BY <1>2 DEF Size
  <1>4. Before' = Before
    BY <1>1, <1>2 DEF Before
  <1>5. Called' = Called
    BY <1>1, Zenon DEF Called, RegionOK
  <1>6. \A x : Wrapped(x)' = Wrapped(x) /\ slab_to_task(x)' = slab_to_task(x)
    BY <1>3, Zenon DEF Wrapped, slab_to_task
  <1>7. \A t : first_slab(t)' = first_slab(t)
    BY <1>3 DEF first_slab
  <1>8. \A m : Extension(m)' = Extension(m)
    BY <1>1 DEF Extension
  <1>9. Rcut' = Rcut
    BY <1>1, <1>8, SMT DEF Rcut
  <1>10. Enlarged' = Enlarged
    BY <1>8, <1>9, SMT DEF Enlarged
  <1>11. \A x : SlabOf(x)' = SlabOf(x)
    BY <1>1, <1>2, <1>3, <1>8, <1>9, <1>10, SMT DEF SlabOf
  <1>12. \A p : Slab(p)' = Slab(p)
    BY <1>1, <1>11, Zenon DEF Slab
  <1>13. \A p : OnMesh(p)' = OnMesh(p)
    BY <1>2, <1>3, <1>12, Zenon DEF OnMesh
  <1>14. \A p : Outside(p)' = Outside(p)
    BY <1>1, <1>2, Zenon DEF Outside
  <1>15. \A p : ReadHere(p)' = ReadHere(p)
    BY <1>2, Zenon DEF ReadHere
  <1>16. \A p : Demanded(p)' = Demanded(p)
    BY <1>1, <1>2, <1>6, <1>12, Zenon DEF Demanded, Around
  <1>17. \A x, y : RimOutside(x, y)' = RimOutside(x, y)
    BY <1>2, <1>3, Zenon DEF RimOutside
  <1>18. \A t : SlabParts(t, mlevel[t])' = SlabParts(t, mlevel'[t])
    BY <1>3, <1>7, <1>12, <1>13, Zenon DEF SlabParts, Parts, Wrapped
  <1>19. \A t : Cells(t, meshmin[t], meshmax[t])' = Cells(t, meshmin'[t], meshmax'[t])
    BY <1>12, <1>13, Zenon DEF Cells
  <1>20. \A t : /\ lowest(t, {p \in Particle : OnMesh(p)})' = lowest(t, {p \in Particle : OnMesh(p)})
                /\ highest(t, {p \in Particle : OnMesh(p)})' = highest(t, {p \in Particle : OnMesh(p)})
    BY <1>3, <1>12, <1>13, Zenon DEF lowest, highest
  <1>21. \A t : /\ lowest(t, {p \in Particle : OnMesh(p) /\ ReadHere(p)})'
                     = lowest(t, {p \in Particle : OnMesh(p) /\ ReadHere(p)})
                /\ highest(t, {p \in Particle : OnMesh(p) /\ ReadHere(p)})'
                     = highest(t, {p \in Particle : OnMesh(p) /\ ReadHere(p)})
    BY <1>3, <1>12, <1>13, <1>15, Zenon DEF lowest, highest
  <1>22. \A t : RimOutside(meshmin[t], meshmax[t])' = RimOutside(meshmin'[t], meshmax'[t])
    BY <1>2, <1>3, Zenon DEF RimOutside
  <1>23. \A t : SlabCells(t)' = SlabCells(t)
    BY <1>3, <1>7, Zenon DEF SlabCells
  <1>24. \A t : Fetched(t, meshmin[t], meshmax[t], mlevel[t], workspace[t])'
                  = Fetched(t, meshmin'[t], meshmax'[t], mlevel'[t], workspace'[t])
    BY <1>3, Zenon DEF Fetched, slab_to_task, Wrapped
  <1> QED BY <1>2, <1>3, <1>4, <1>5, <1>6, <1>7, <1>12, <1>13, <1>14, <1>15, <1>16, <1>17, <1>18, <1>19,
             <1>20, <1>21, <1>22, <1>23, <1>24, Zenon

(* The patch of a task covers the cells of its particles.                  *)
LEMMA PatchCovers ==
  ASSUME Called, NEW t, NEW S, S \subseteq {p \in Particle : OnMesh(p)}
  PROVE  /\ lowest(t, S) \in 0 .. Size /\ highest(t, S) \in 0 .. Size - 1
         /\ \A p \in Hold[t] \cap S : lowest(t, S) <= Slab(p) /\ Slab(p) <= highest(t, S)
  <1> DEFINE T == {Slab(p) : p \in Hold[t] \cap S}
  <1>1. PICK n \in Nat : n = Size /\ n > 5
    BY SizeFits
  <1>2. \A p \in Hold[t] \cap S : Slab(p) \in 0 .. n - 1
    BY <1>1, OnMeshPlace
  <1>3. T \subseteq 0 .. n - 1
    BY <1>2
  <1>4. \A p \in Hold[t] \cap S : Slab(p) \in T
    OBVIOUS
  <1> HIDE DEF T
  <1>5. /\ Min({n} \cup T) \in {n} \cup T /\ \A x \in {n} \cup T : Min({n} \cup T) <= x
    <2>1. {n} \cup T \subseteq 0 .. n /\ {n} \cup T # {} /\ 0 \in Int /\ n \in Int
      BY <1>1, <1>3
    <2> QED BY <2>1, MinMax
  <1>6. /\ Max({0} \cup T) \in {0} \cup T /\ \A x \in {0} \cup T : x <= Max({0} \cup T)
    <2>1. {0} \cup T \subseteq 0 .. n - 1 /\ {0} \cup T # {} /\ 0 \in Int /\ n - 1 \in Int
      BY <1>1, <1>3
    <2> QED BY <2>1, MinMax
  <1>7. lowest(t, S) = Min({n} \cup T) /\ highest(t, S) = Max({0} \cup T)
    BY <1>1 DEF lowest, highest, T
  <1>8. Min({n} \cup T) \in 0 .. n /\ Max({0} \cup T) \in 0 .. n - 1
    <2>1. {n} \cup T \subseteq 0 .. n /\ {0} \cup T \subseteq 0 .. n - 1
      BY <1>1, <1>3
    <2> QED BY <1>5, <1>6, <2>1, Zenon
  <1> QED BY <1>1, <1>4, <1>5, <1>6, <1>7, <1>8
-------------------------------------------------------------------------------
(* Density.                                                                *)

LEMMA PartsOfMore ==
  ASSUME NEW T, NEW v, NEW s
  PROVE  Parts(T \cup {v}, s) = Parts(T, s) \cup Parts({v}, s)
  BY DEF Parts

(* The parts of a task's particles lie in its patch.                       *)
LEMMA PartsInPatch ==
  ASSUME Called, NEW u \in Task, DensityOf(u)
  PROVE  /\ meshmin[u] \in Nat /\ meshmax[u] \in Nat /\ meshmin[u] <= Size /\ meshmax[u] <= Size - 1
         /\ \A d \in {p \in Hold[u] : OnMesh(p)} \X {0, 1} :
              /\ Slab(d[1]) \in Nat /\ Slab(d[1]) + d[2] \in meshmin[u] .. meshmax[u] + 1
  <1> DEFINE S == {p \in Particle : OnMesh(p)}
  <1>1. meshmin[u] = lowest(u, S) /\ meshmax[u] = highest(u, S)
    BY DEF DensityOf
  <1>2. PICK n \in Nat : n = Size
    BY SizeFits
  <1>3. \A p \in Hold[u] : OnMesh(p) => p \in Hold[u] \cap S /\ Slab(p) \in 0 .. n - 1
    BY <1>2, OnMeshPlace DEF Particle
  <1> HIDE DEF S
  <1>4. /\ lowest(u, S) \in 0 .. n /\ highest(u, S) \in 0 .. n - 1
        /\ \A p \in Hold[u] \cap S : lowest(u, S) <= Slab(p) /\ Slab(p) <= highest(u, S)
    BY <1>2, PatchCovers DEF S
  <1>5. PICK a \in 0 .. n, b \in 0 .. n - 1 : a = meshmin[u] /\ b = meshmax[u]
    BY <1>1, <1>4
  <1>6. ASSUME NEW d \in {p \in Hold[u] : OnMesh(p)} \X {0, 1}
        PROVE  Slab(d[1]) \in Nat /\ Slab(d[1]) + d[2] \in a .. b + 1
    <2>1. d[1] \in Hold[u] \cap S /\ d[2] \in {0, 1} /\ Slab(d[1]) \in 0 .. n - 1
      BY <1>3
    <2>2. a <= Slab(d[1]) /\ Slab(d[1]) <= b
      BY <1>1, <1>4, <1>5, <2>1
    <2> QED BY <2>1, <2>2
  <1> QED BY <1>2, <1>5, <1>6

(* Tasks without contributions for each other.                             *)
LEMMA NoPartsAdded ==
  ASSUME Called, NEW t \in Task, NEW u \in Task, DensityOf(u), SlabsOf(t, u, 0) = {},
         NEW s \in 0 .. Slabs[Size][t] - 1
  PROVE  Parts({u}, first_slab(t) + s) = {}
  <1>1. PICK a \in Nat, b \in Nat, n \in Nat : a = meshmin[u] /\ b = meshmax[u] /\ n = Size
    BY PartsInPatch, SizeFits
  <1>2. ASSUME NEW d \in Parts({u}, first_slab(t) + s)
        PROVE  FALSE
    <2>1. d \in {p \in Hold[u] : OnMesh(p)} \X {0, 1} /\ Wrapped(Slab(d[1]) + d[2]) = first_slab(t) + s
      BY DEF Parts
    <2>2. PICK x \in Nat : x = Slab(d[1]) + d[2] /\ x \in a .. b + 1
      BY <1>1, <2>1, PartsInPatch
    <2>3. Wrapped(x) - first_slab(t) \in 0 .. Slabs[Size][t] - 1
      <3>1. first_slab(t) \in Nat /\ Wrapped(x) = first_slab(t) + s
        BY <2>1, <2>2, SlabOwner
      <3> QED BY <3>1
    <2>4. slab_to_task(x) = t
      BY <1>1, <2>2, <2>3, SlabOwner
    <2>5. x \in SlabsOf(t, u, 0)
      BY <1>1, <2>2, <2>4 DEF SlabsOf
    <2> QED BY <2>5
  <1> QED BY <1>2

(* What a partner sends is added to the slabs of a task.                   *)
LEMMA PartsAdded ==
  ASSUME Called, NEW t \in Task, NEW u \in Task, DensityOf(t), DensityOf(u),
         NEW T, T \subseteq Task, u \notin T,
         NEW s \in 0 .. Slabs[Size][t] - 1, rhogrid[t][s] = SetToBag(Parts(T, first_slab(t) + s)),
         DOMAIN rhogrid[t] = 0 .. Slabs[Size][t] - 1
  PROVE  WithDensity(t, u)[s] = SetToBag(Parts(T \cup {u}, first_slab(t) + s))
  <1> DEFINE S == SlabsOf(t, u, 0)
             I == {x \in Through(S) : Wrapped(x) - first_slab(t) = s}
             A == [x \in Int |-> {d \in {p \in Hold[u] : OnMesh(p)} \X {0, 1} : Slab(d[1]) + d[2] = x}]
             B == Parts(T, first_slab(t) + s)
  <1>1. PICK a \in Nat, b \in Nat, n \in Nat : a = meshmin[u] /\ b = meshmax[u] /\ n = Size
    BY PartsInPatch, SizeFits
  <1>2. S \subseteq a .. b + 1
    BY <1>1 DEF SlabsOf
  <1>3. Through(S) \subseteq a .. b + 1 /\ S \subseteq Through(S)
    <2>1. CASE S = {}
      BY <2>1 DEF Through
    <2>2. CASE S # {}
      <3> HIDE DEF S
      <3>1. /\ Min(S) \in S /\ \A x \in S : Min(S) <= x
            /\ Max(S) \in S /\ \A x \in S : x <= Max(S)
        <4>1. a \in Int /\ b + 1 \in Int
          BY <1>1
        <4> QED BY <1>2, <2>2, <4>1, MinMax, Zenon
      <3>2. PICK e \in a .. b + 1, f \in a .. b + 1 : e = Min(S) /\ f = Max(S)
        BY <1>2, <3>1
      <3>3. Through(S) = e .. f
        BY <2>2, <3>2 DEF Through
      <3>4. \A x \in S : x \in Int /\ e <= x /\ x <= f
        BY <1>2, <3>1, <3>2
      <3> QED BY <1>2, <3>2, <3>3, <3>4
    <2> QED BY <2>1, <2>2
  <1>4. I \subseteq a .. b + 1 /\ IsFiniteSet(I)
    <2>1. I \subseteq a .. b + 1
      BY <1>3
    <2>2. IsFiniteSet(a .. b + 1)
      <3>1. a \in Int /\ b + 1 \in Int
        BY <1>1
      <3> QED BY <3>1, FS_Interval, Zenon
    <2> HIDE DEF I
    <2> QED BY <2>1, <2>2, FS_Subset
  <1>5. WithDensity(t, u)[s] =
          AddedTo(SetToBag(B), workspace[u], meshmin[u], I)
    <2>1. WithDensity(t, u) =
            [s1 \in DOMAIN rhogrid[t] |->
               AddedTo(rhogrid[t][s1], workspace[u], meshmin[u],
                       {x \in Through(SlabsOf(t, u, 0)) : Wrapped(x) - first_slab(t) = s1})]
      BY Zenon DEF WithDensity, AddedTo
    <2>2. s \in DOMAIN rhogrid[t]
      OBVIOUS
    <2>3. WithDensity(t, u)[s] = AddedTo(rhogrid[t][s], workspace[u], meshmin[u], I)
      BY <2>1, <2>2
    <2> QED BY <2>3
  <1>6. \A x \in I : workspace[u][x - a] = SetToBag(A[x]) /\ A[x] \cap B = {}
    <2> SUFFICES ASSUME NEW x \in I PROVE workspace[u][x - a] = SetToBag(A[x]) /\ A[x] \cap B = {}
      OBVIOUS
    <2>1. x \in a .. b + 1
      BY <1>4
    <2> HIDE DEF I
    <2>2. x - a \in 0 .. b - a + 1 /\ x \in Int
      BY <1>1, <2>1
    <2>3. workspace[u][x - a] = SetToBag({d \in {p \in Hold[u] : OnMesh(p)} \X {0, 1} : Slab(d[1]) + d[2] - a = x - a})
      BY <1>1, <2>2 DEF DensityOf, Cells
    <2>4. \A d \in {p \in Hold[u] : OnMesh(p)} \X {0, 1} : Slab(d[1]) + d[2] - a = x - a <=> Slab(d[1]) + d[2] = x
      <3>1. ASSUME NEW d \in {p \in Hold[u] : OnMesh(p)} \X {0, 1}
            PROVE  Slab(d[1]) + d[2] - a = x - a <=> Slab(d[1]) + d[2] = x
        <4>1. PICK y \in Int, e \in Int : y = Slab(d[1]) /\ e = d[2]
          <5>1. Slab(d[1]) \in Int /\ d[2] \in Int
            BY PartsInPatch
          <5> QED BY <5>1
        <4>2. \A z \in Int : y + e - a = z - a <=> y + e = z
          OBVIOUS
        <4>3. y + e - a = x - a <=> y + e = x
          BY <2>2, <4>2, Zenon
        <4> QED BY <4>1, <4>3, Zenon
      <3> QED BY <3>1
    <2>5. workspace[u][x - a] = SetToBag(A[x])
      <3>1. A[x] = {d \in {p \in Hold[u] : OnMesh(p)} \X {0, 1} : Slab(d[1]) + d[2] = x}
        BY <2>2
      <3>2. A[x] = {d \in {p \in Hold[u] : OnMesh(p)} \X {0, 1} : Slab(d[1]) + d[2] - a = x - a}
        BY <2>4, <3>1, Zenon
      <3> HIDE DEF A
      <3> QED BY <2>3, <3>2
    <2>6. A[x] \cap B = {}
      <3>1. \A v \in T : Hold[u] \cap Hold[v] = {}
        BY CallsAssumption
      <3>2. \A d \in A[x] : d[1] \in Hold[u]
        BY <2>2
      <3>3. \A d \in B : \E v \in T : d[1] \in Hold[v]
        BY DEF Parts
      <3> HIDE DEF A, B
      <3> QED BY <3>1, <3>2, <3>3
    <2> QED BY <2>5, <2>6
  <1>7. \A x, y \in I : x # y => A[x] \cap A[y] = {}
    <2>1. \A x \in I : x \in Int
      BY <1>4
    <2> HIDE DEF I
    <2> QED BY <2>1
  <1>8. UNION {A[x] : x \in I} = Parts({u}, first_slab(t) + s)
    <2>1. ASSUME NEW d \in Parts({u}, first_slab(t) + s)
          PROVE  \E x \in I : d \in A[x]
      <3>1. d \in {p \in Hold[u] : OnMesh(p)} \X {0, 1} /\ Wrapped(Slab(d[1]) + d[2]) = first_slab(t) + s
        BY DEF Parts
      <3>2. PICK x \in Nat : x = Slab(d[1]) + d[2] /\ x \in a .. b + 1
        BY <1>1, <3>1, PartsInPatch
      <3>3. Wrapped(x) - first_slab(t) = s
        <4>1. first_slab(t) \in Nat /\ Wrapped(x) = first_slab(t) + s
          BY <3>1, <3>2, SlabOwner
        <4> QED BY <4>1
      <3>4. slab_to_task(x) = t
        <4>1. Wrapped(x) - first_slab(t) \in 0 .. Slabs[Size][t] - 1 /\ x + Size >= 0
          BY <1>1, <3>2, <3>3
        <4> QED BY <3>2, <4>1, SlabOwner
      <3>5. x \in S
        BY <1>1, <3>2, <3>4 DEF SlabsOf
      <3>6. x \in I
        <4> HIDE DEF S
        <4> QED BY <1>3, <3>3, <3>5
      <3>7. d \in A[x]
        BY <3>1, <3>2
      <3> HIDE DEF I, A
      <3> QED BY <3>6, <3>7
    <2>2. ASSUME NEW x \in I, NEW d \in A[x]
          PROVE  d \in Parts({u}, first_slab(t) + s)
      <3>1. x \in Int /\ Wrapped(x) - first_slab(t) = s
        BY <1>4
      <3>2. d \in {p \in Hold[u] : OnMesh(p)} \X {0, 1} /\ Slab(d[1]) + d[2] = x
        BY <3>1
      <3>3. Wrapped(x) = first_slab(t) + s
        <4>1. x \in a .. b + 1
          BY <1>4
        <4> HIDE DEF I, A
        <4>2. x \in Int /\ x + Size >= 0
          BY <1>1, <4>1
        <4>3. Wrapped(x) \in Int /\ first_slab(t) \in Int
          <5>1. Wrapped(x) \in 0 .. Size - 1 /\ first_slab(t) \in Nat
            BY <4>2, SlabOwner
          <5> QED BY <1>1, <5>1
        <4> QED BY <3>1, <4>3
      <3> QED BY <3>2, <3>3 DEF Parts
    <2> HIDE DEF I, A
    <2> QED BY <2>1, <2>2
  <1> HIDE DEF S, I, A, B
  <1>9. WithDensity(t, u)[s] = SetToBag(B \cup UNION {A[x] : x \in I})
    <2>1. Addable(I, meshmin[u], workspace[u], B, A)
      BY <1>1, <1>4, <1>6, <1>7 DEF Addable
    <2> QED BY <1>5, <2>1, AddUp
  <1>10. Parts(T \cup {u}, first_slab(t) + s) = B \cup Parts({u}, first_slab(t) + s)
    BY DEF B, Parts
  <1> QED BY <1>8, <1>9, <1>10

(* What a task has of the density after a level.                           *)
LEMMA DensityGrows ==
  ASSUME Called, LevelsRight, UNCHANGED <<call, driver, patch, workspace>>, NEW v \in Task, DensityOf(v),
         \/ mlevel'[v] = mlevel[v] /\ rhogrid'[v] = rhogrid[v]
         \/ /\ mlevel[v] \in 0 .. Groups - 1 /\ mlevel'[v] = mlevel[v] + 1
            /\ \A u \in Task : DensityOf(u)
            /\ \/ PartnerAt(v, mlevel[v]) \notin Task /\ rhogrid'[v] = rhogrid[v]
               \/ /\ PartnerAt(v, mlevel[v]) \in Task /\ rhogrid'[v] = rhogrid[v]
                  /\ SlabsOf(v, PartnerAt(v, mlevel[v]), 0) = {}
               \/ /\ PartnerAt(v, mlevel[v]) \in Task
                  /\ rhogrid'[v] = WithDensity(v, PartnerAt(v, mlevel[v]))
  PROVE  DensityOf(v)'
  <1>0. UNCHANGED <<call, driver>> /\ meshmin' = meshmin /\ meshmax' = meshmax /\ workspace' = workspace
    BY DEF patch
  <1> DEFINE k == mlevel[v]
             u == PartnerAt(v, k)
             L == 0 .. Slabs[Size][v] - 1
  <1>1. rhogrid[v] = [s \in L |-> SetToBag(Parts(Met(v, k), first_slab(v) + s))]
    BY DEF DensityOf, SlabParts
  <1>2. SUFFICES rhogrid'[v] = [s \in L |-> SetToBag(Parts(Met(v, mlevel'[v]), first_slab(v) + s))]
    <2>1. rhogrid'[v] = SlabParts(v, mlevel[v])'
      <3>1. SlabParts(v, mlevel[v])' = SlabParts(v, mlevel'[v])
        BY <1>0, PlacesStay
      <3> QED BY <1>2, <3>1, Zenon DEF SlabParts
    <2>2. /\ meshmin'[v] = lowest(v, {p \in Particle : OnMesh(p)})'
          /\ meshmax'[v] = highest(v, {p \in Particle : OnMesh(p)})'
          /\ workspace'[v] = Cells(v, meshmin[v], meshmax[v])'
      <3>1. /\ meshmin[v] = lowest(v, {p \in Particle : OnMesh(p)})
            /\ meshmax[v] = highest(v, {p \in Particle : OnMesh(p)})
            /\ workspace[v] = Cells(v, meshmin[v], meshmax[v])
        BY DEF DensityOf
      <3>2. /\ lowest(v, {p \in Particle : OnMesh(p)})' = lowest(v, {p \in Particle : OnMesh(p)})
            /\ highest(v, {p \in Particle : OnMesh(p)})' = highest(v, {p \in Particle : OnMesh(p)})
            /\ Cells(v, meshmin[v], meshmax[v])' = Cells(v, meshmin'[v], meshmax'[v])
        BY <1>0, PlacesStay
      <3> QED BY <1>0, <3>1, <3>2, Zenon
    <2> QED BY <1>0, <2>1, <2>2, Zenon DEF DensityOf
  <1>3. CASE mlevel'[v] = mlevel[v] /\ rhogrid'[v] = rhogrid[v]
    BY <1>1, <1>3, Zenon
  <1>4. CASE /\ k \in 0 .. Groups - 1 /\ mlevel'[v] = k + 1
             /\ \A w \in Task : DensityOf(w)
             /\ \/ u \notin Task /\ rhogrid'[v] = rhogrid[v]
                \/ u \in Task /\ rhogrid'[v] = rhogrid[v] /\ SlabsOf(v, u, 0) = {}
                \/ u \in Task /\ rhogrid'[v] = WithDensity(v, u)
    <2>1. Met(v, k + 1) = Met(v, k) \cup ({u} \cap Task) /\ u \notin Met(v, k)
      BY <1>4, MetMore
    <2>2. CASE u \notin Task /\ rhogrid'[v] = rhogrid[v]
      <3>1. Met(v, k + 1) = Met(v, k)
        BY <2>1, <2>2
      <3> QED BY <1>1, <1>4, <2>2, <3>1
    <2>3. CASE u \in Task /\ rhogrid'[v] = rhogrid[v] /\ SlabsOf(v, u, 0) = {}
      <3>1. Met(v, k + 1) = Met(v, k) \cup {u}
        BY <2>1, <2>3
      <3>2. ASSUME NEW s \in L
            PROVE  Parts(Met(v, k + 1), first_slab(v) + s) = Parts(Met(v, k), first_slab(v) + s)
        <4>1. Parts({u}, first_slab(v) + s) = {}
          BY <1>4, <2>3, NoPartsAdded
        <4>2. Parts(Met(v, k) \cup {u}, first_slab(v) + s)
                = Parts(Met(v, k), first_slab(v) + s) \cup Parts({u}, first_slab(v) + s)
          BY DEF Parts
        <4> QED BY <3>1, <4>1, <4>2
      <3> HIDE DEF u, L
      <3> QED BY <1>1, <1>4, <2>3, <3>2
    <2>4. CASE u \in Task /\ rhogrid'[v] = WithDensity(v, u)
      <3>1. Met(v, k + 1) = Met(v, k) \cup {u} /\ Met(v, k) \subseteq Task
        BY <2>1, <2>4 DEF Met
      <3>2. DOMAIN rhogrid[v] = L
        BY <1>1
      <3>3. ASSUME NEW s \in L
            PROVE  WithDensity(v, u)[s] = SetToBag(Parts(Met(v, k + 1), first_slab(v) + s))
        <4>1. rhogrid[v][s] = SetToBag(Parts(Met(v, k), first_slab(v) + s))
          BY <1>1
        <4>2. DensityOf(u) /\ u \in Task
          BY <1>4, <2>4
        <4> HIDE DEF u
        <4> QED BY <2>1, <3>1, <3>2, <4>1, <4>2, PartsAdded
      <3>4. WithDensity(v, u) = [s \in L |-> WithDensity(v, u)[s]]
        <4>1. WithDensity(v, u) = [s \in DOMAIN rhogrid[v] |-> WithDensity(v, u)[s]]
          <5>1. WithDensity(v, u) =
                  [s1 \in DOMAIN rhogrid[v] |->
                     AddedTo(rhogrid[v][s1], workspace[u], meshmin[u],
                             {x \in Through(SlabsOf(v, u, 0)) : Wrapped(x) - first_slab(v) = s1})]
            BY Zenon DEF WithDensity, AddedTo
          <5> QED BY <5>1
        <4> QED BY <3>2, <4>1
      <3> HIDE DEF u, L
      <3> QED BY <1>4, <2>4, <3>3, <3>4
    <2> QED BY <1>4, <2>2, <2>3, <2>4
  <1> QED BY <1>3, <1>4

LEMMA DensityAdded ==
  ASSUME Called, LevelsRight, MeshShapes, \A v \in Task : DensityOf(v),
         NEW t \in Task, NEW u \in Task, AddDensity(t, u), NEW v \in Task
  PROVE  DensityOf(v)'
  <1>1. /\ mlevel[t] \in 0 .. Groups - 1 /\ mlevel[u] = mlevel[t]
        /\ PartnerAt(t, mlevel[t]) = u /\ PartnerAt(u, mlevel[t]) = t
    BY SameLevels DEF AddDensity
  <1>2. /\ UNCHANGED <<call, driver, patch, workspace>>
        /\ rhogrid' = [rhogrid EXCEPT ![t] = WithDensity(t, u), ![u] = WithDensity(u, t)]
        /\ mlevel' = [x \in Task |-> mlevel[x] + IF x \in {t, u} THEN 1 ELSE 0]
    BY DEF AddDensity, Advance
  <1>3. DOMAIN rhogrid = Task
    BY DEF MeshShapes
  <1>4. mlevel[v] \in Int
    BY DEF LevelsRight
  <1>5. CASE v \notin {t, u}
    <2>1. rhogrid'[v] = rhogrid[v] /\ mlevel'[v] = mlevel[v]
      BY <1>2, <1>3, <1>4, <1>5
    <2> QED BY <1>2, <2>1, DensityGrows
  <1>6. CASE v = u
    <2>1. rhogrid'[v] = WithDensity(u, t) /\ mlevel'[v] = mlevel[v] + 1
      BY <1>2, <1>3, <1>6
    <2> QED BY <1>1, <1>2, <1>6, <2>1, DensityGrows
  <1>7. CASE v = t /\ t # u
    <2>1. rhogrid'[v] = WithDensity(t, u) /\ mlevel'[v] = mlevel[v] + 1
      BY <1>2, <1>3, <1>7
    <2> QED BY <1>1, <1>2, <1>7, <2>1, DensityGrows
  <1> QED BY <1>5, <1>6, <1>7

(* The first slabs and patches.                                            *)
LEMMA DensityLaidOut ==
  ASSUME Called, LayOut, NEW t \in Task
  PROVE  DensityOf(t)'
  <1>1. /\ UNCHANGED <<call, driver>>
        /\ meshmin' = [x \in Task |-> lowest(x, {p \in Particle : OnMesh(p)})]
        /\ meshmax' = [x \in Task |-> highest(x, {p \in Particle : OnMesh(p)})]
        /\ workspace' = [x \in Task |-> Deposit(x)]
        /\ rhogrid' = [x \in Task |-> Cleared(x)]
        /\ mlevel' = EveryTask(0)
    BY DEF LayOut
  <1>2. /\ meshmin'[t] = lowest(t, {p \in Particle : OnMesh(p)})'
        /\ meshmax'[t] = highest(t, {p \in Particle : OnMesh(p)})'
    BY <1>1, PlacesStay
  <1>3. workspace'[t] = Cells(t, meshmin'[t], meshmax'[t])
    <2>1. Deposit(t) = Cells(t, meshmin'[t], meshmax'[t])
      BY Zenon DEF Deposit, Cells
    <2> QED BY <1>1, <2>1
  <1>4. workspace'[t] = Cells(t, meshmin[t], meshmax[t])'
    <2>2. Cells(t, meshmin'[t], meshmax'[t]) = Cells(t, meshmin[t], meshmax[t])'
      BY <1>1, PlacesStay
    <2> QED BY <1>3, <2>2
  <1>5. rhogrid'[t] = SlabParts(t, mlevel[t])'
    <2>1. mlevel'[t] = 0 /\ Met(t, 0) = {}
      BY <1>1, MetAll DEF EveryTask
    <2>2. rhogrid'[t] = [s \in 0 .. Slabs[Size][t] - 1 |-> EmptyBag]
      BY <1>1 DEF Cleared
    <2>3. \A s : Parts({}, s) = {}
      BY DEF Parts
    <2>4. Size' = Size
      BY <1>1, PlacesStay
    <2>5. SlabParts(t, mlevel[t])' = [s \in 0 .. Slabs[Size][t] - 1 |-> SetToBag({})]
      BY <2>1, <2>4 DEF SlabParts, Parts
    <2> QED BY <2>2, <2>5, Zenon DEF EmptyBag
  <1> QED BY <1>2, <1>4, <1>5, Zenon DEF DensityOf
-------------------------------------------------------------------------------
(* Potential.                                                              *)

(* A patch with its rim, and its parts, which are sent as they are.        *)
LEMMA RimWithin ==
  ASSUME Called, NEW t \in Task, PotentialOf(t)
  PROVE  /\ meshmin[t] \in Nat /\ meshmax[t] \in Nat /\ meshmin[t] <= Size /\ meshmax[t] <= Size - 1
         /\ Mesh # "box" => meshmin[t] >= 2 /\ meshmax[t] <= PMGRID - 3
  <1> DEFINE S == {p \in Particle : OnMesh(p) /\ ReadHere(p)}
  <1>1. meshmin[t] = lowest(t, S) /\ meshmax[t] = highest(t, S) /\ ~RimOutside(meshmin[t], meshmax[t])
    BY DEF PotentialOf
  <1>2. PICK n \in Nat : n = Size
    BY SizeFits
  <1>3. lowest(t, S) \in 0 .. n /\ highest(t, S) \in 0 .. n - 1
    <2>1. S \subseteq {p \in Particle : OnMesh(p)}
      OBVIOUS
    <2> HIDE DEF S
    <2> QED BY <1>2, <2>1, PatchCovers
  <1>4. PICK a \in 0 .. n, b \in 0 .. n - 1 : a = meshmin[t] /\ b = meshmax[t]
    BY <1>1, <1>3
  <1>5. ASSUME Mesh # "box" PROVE a >= 2 /\ b <= PMGRID - 3
    <2>1. Size \div 2 = PMGRID /\ PMGRID \in Nat
      BY <1>5, SizeFits, SlabsAssumption
    <2>2. ~(a < 2 \/ b > PMGRID - 3)
      BY <1>1, <1>4, <1>5, <2>1 DEF RimOutside
    <2> QED BY <2>1, <2>2
  <1> QED BY <1>2, <1>4, <1>5

LEMMA SentWhole ==
  ASSUME Called, NEW t \in Task, NEW u \in Task, PotentialOf(u)
  PROVE  Pieces(SlabsOf(t, u, 2)) = SlabsOf(t, u, 2)
  <1>1. PICK a \in Nat, b \in Nat, N \in Nat :
          a = meshmin[u] /\ b = meshmax[u] /\ N = Size /\ a <= N /\ b <= N - 1 /\ N > 5
    BY RimWithin, SizeFits
  <1>2. PICK F \in Nat, L \in Nat : F = first_slab(t) /\ L = Slabs[Size][t]
    BY SlabOwner
  <1>3. L > 0 => F + L <= N
    <2>1. ASSUME L > 0 PROVE F + L <= N
      <3>1. L - 1 \in 0 .. L - 1
        BY <2>1
      <3>2. F + (L - 1) \in 0 .. N - 1
        BY <1>1, <1>2, <3>1, SlabOwner
      <3> QED BY <3>2
    <2> QED BY <2>1
  <1>4. \A x \in a - 2 .. b + 3 : slab_to_task(x) = t <=> ((x + N) % N) - F \in 0 .. L - 1
    <2> SUFFICES ASSUME NEW x \in a - 2 .. b + 3
                 PROVE  slab_to_task(x) = t <=> ((x + N) % N) - F \in 0 .. L - 1
      OBVIOUS
    <2>1. x \in Int /\ x + Size >= 0
      BY <1>1
    <2>2. slab_to_task(x) = t <=> Wrapped(x) - first_slab(t) \in 0 .. Slabs[Size][t] - 1
      BY <2>1, SlabOwner
    <2>3. Wrapped(x) = (x + N) % N
      BY <1>1 DEF Wrapped
    <2> QED BY <1>2, <2>2, <2>3, Zenon
  <1>5. SlabsOf(t, u, 2) = {x \in a - 2 .. b + 3 : ((x + N) % N) - F \in 0 .. L - 1}
    <2>1. b + 1 + 2 = b + 3
      OBVIOUS
    <2>2. SlabsOf(t, u, 2) = {x \in a - 2 .. b + 3 : slab_to_task(x) = t}
      BY <1>1, <2>1, Zenon DEF SlabsOf
    <2> QED BY <1>4, <2>2, Zenon
  <1>6. L = N \/ F > 2 \/ F + L - 1 < N - 2 \/ (a - 2 >= 0 /\ b + 3 < N)
    <2>1. CASE Mesh # "box"
      <3>1. N = 2 * PMGRID /\ PMGRID \in Nat /\ PMGRID > 5 /\ a >= 2 /\ b <= PMGRID - 3
        BY <1>1, <2>1, RimWithin, SizeFits, SlabsAssumption
      <3> QED BY <3>1
    <2>2. CASE Mesh = "box"
      <3>1. N = PMGRID /\ F = first_slab_of_task[PMGRID][t] /\ L = Slabs[PMGRID][t]
        BY <1>1, <1>2, <2>2, SizeFits DEF first_slab
      <3>2. SlabsAt(PMGRID, t) = F .. F + L - 1
        BY <3>1, Zenon DEF SlabsAt
      <3>3. SUFFICES ASSUME L # N, F <= 2, F + L - 1 >= N - 2 PROVE FALSE
        BY <1>1, <1>2
      <3>4. L > 0
        BY <1>1, <3>3
      <3>5. F \in SlabsAt(PMGRID, t) /\ F \in 0 .. 2
        BY <3>2, <3>3, <3>4
      <3>6. F + L - 1 \in SlabsAt(PMGRID, t) /\ F + L - 1 \in N - 2 .. N - 1
        BY <1>3, <3>2, <3>3, <3>4
      <3>7. SlabsAt(PMGRID, t) = 0 .. N - 1
        <4>1. SlabsAt(PMGRID, t) \cap 0 .. 2 # {} /\ SlabsAt(PMGRID, t) \cap PMGRID - 2 .. PMGRID - 1 # {}
          BY <3>1, <3>5, <3>6
        <4> QED BY <3>1, <4>1, SlabsAssumption
      <3>8. 0 \in F .. F + L - 1 /\ N - 1 \in F .. F + L - 1
        <4>1. 0 \in 0 .. N - 1 /\ N - 1 \in 0 .. N - 1
          BY <1>1
        <4> QED BY <3>2, <3>7, <4>1
      <3> QED BY <1>3, <3>3, <3>4, <3>8
    <2> QED BY <2>1, <2>2
  <1>7. PartOfPatch(SlabsOf(t, u, 2), N, a - 2, b + 3, F, L)
    BY <1>1, <1>2, <1>3, <1>5, <1>6 DEF PartOfPatch
  <1> QED BY <1>7, PiecesWhole

LEMMA CopiedRight ==
  ASSUME Called, NEW t \in Task, NEW u \in Task, PotentialOf(t), PotentialOf(u),
         NEW o \in 0 .. meshmax[t] - meshmin[t] + 5
  PROVE  /\ slab_to_task(o + meshmin[t] - 2) = u => Copied(t, u)[o] = Wrapped(o + meshmin[t] - 2)
         /\ slab_to_task(o + meshmin[t] - 2) # u => Copied(t, u)[o] = workspace[t][o]
  <1>1. PICK a \in Nat, b \in Nat, N \in Nat :
          a = meshmin[t] /\ b = meshmax[t] /\ N = Size /\ a <= N /\ b <= N - 1 /\ N > 5
    BY RimWithin, SizeFits
  <1>2. PICK x \in Int : x = o + a - 2 /\ x \in a - 2 .. b + 3 /\ o = x - (a - 2)
    <2>1. o \in Int /\ 0 <= o /\ o <= b - a + 5
      BY <1>1
    <2>2. o + a - 2 \in Int /\ o + a - 2 \in a - 2 .. b + 3 /\ o = (o + a - 2) - (a - 2)
      BY <2>1
    <2> QED BY <2>2
  <1> DEFINE sent == {y - (meshmin[t] - 2) : y \in Pieces(SlabsOf(u, t, 2))}
  <1>3. o \in DOMAIN workspace[t]
    BY DEF PotentialOf
  <1>4. Copied(t, u)[o] = IF o \in sent THEN Held(u, o + meshmin[t] - 2) ELSE workspace[t][o]
    BY <1>3 DEF Copied
  <1>5. SlabsOf(u, t, 2) = {y \in a - 2 .. b + 3 : slab_to_task(y) = u}
    <2>1. b + 1 + 2 = b + 3
      OBVIOUS
    <2> QED BY <1>1, <2>1, Zenon DEF SlabsOf
  <1>6. sent = {y - (a - 2) : y \in SlabsOf(u, t, 2)}
    BY <1>1, SentWhole
  <1>7. o \in sent <=> slab_to_task(x) = u
    <2>1. ASSUME o \in sent PROVE slab_to_task(x) = u
      <3>1. PICK y \in SlabsOf(u, t, 2) : o = y - (a - 2)
        BY <1>6, <2>1
      <3>2. y \in Int /\ slab_to_task(y) = u
        BY <1>5
      <3>3. y = x
        BY <1>2, <3>1, <3>2
      <3> QED BY <3>2, <3>3
    <2>2. ASSUME slab_to_task(x) = u PROVE o \in sent
      <3>1. x \in SlabsOf(u, t, 2)
        BY <1>2, <1>5, <2>2
      <3> HIDE DEF sent
      <3> QED BY <1>2, <1>6, <3>1
    <2> QED BY <2>1, <2>2
  <1>8. ASSUME slab_to_task(x) = u
        PROVE  Held(u, x) = Wrapped(x)
    <2>1. x + Size >= 0
      BY <1>1, <1>2
    <2>2. Wrapped(x) - first_slab(u) \in 0 .. Slabs[Size][u] - 1 /\ Wrapped(x) \in 0 .. Size - 1
            /\ first_slab(u) \in Nat
      BY <1>8, <2>1, SlabOwner
    <2>3. PICK w \in Nat, f \in Nat : w = Wrapped(x) /\ f = first_slab(u)
      BY <1>1, <2>2
    <2>4. rhogrid[u] = [s \in 0 .. Slabs[Size][u] - 1 |-> f + s]
      BY <2>3 DEF PotentialOf, SlabCells
    <2>5. w - f \in DOMAIN rhogrid[u] /\ rhogrid[u][w - f] = f + (w - f)
      BY <2>2, <2>3, <2>4
    <2>6. f + (w - f) = w
      OBVIOUS
    <2>7. Held(u, x) = rhogrid[u][w - f]
      BY <2>3, <2>5, Zenon DEF Held
    <2> QED BY <2>3, <2>5, <2>6, <2>7
  <1> HIDE DEF sent
  <1>9. o + meshmin[t] - 2 = x
    BY <1>1, <1>2
  <1> QED BY <1>4, <1>7, <1>8, <1>9

(* What a task has of the potential after a level.                         *)
LEMMA PotentialGrows ==
  ASSUME Called, LevelsRight, UNCHANGED <<call, driver, patch, rhogrid>>, NEW v \in Task, PotentialOf(v),
         \/ mlevel'[v] = mlevel[v] /\ workspace'[v] = workspace[v]
         \/ /\ mlevel[v] \in 0 .. Groups - 1 /\ mlevel'[v] = mlevel[v] + 1
            /\ \A u \in Task : PotentialOf(u)
            /\ \/ PartnerAt(v, mlevel[v]) \notin Task /\ workspace'[v] = workspace[v]
               \/ /\ PartnerAt(v, mlevel[v]) \in Task /\ workspace'[v] = workspace[v]
                  /\ SlabsOf(PartnerAt(v, mlevel[v]), v, 2) = {}
               \/ /\ PartnerAt(v, mlevel[v]) \in Task
                  /\ workspace'[v] = Copied(v, PartnerAt(v, mlevel[v]))
  PROVE  PotentialOf(v)'
  <1>0. UNCHANGED <<call, driver>> /\ meshmin' = meshmin /\ meshmax' = meshmax /\ rhogrid' = rhogrid
    BY DEF patch
  <1> DEFINE k == mlevel[v]
             u == PartnerAt(v, k)
             W == 0 .. meshmax[v] - meshmin[v] + 5
             at(o) == slab_to_task(o + meshmin[v] - 2)
             right(o) == Wrapped(o + meshmin[v] - 2)
  <1>1. DOMAIN workspace[v] = W /\ \A o \in W : at(o) \in Met(v, k) => workspace[v][o] = right(o)
    BY DEF PotentialOf, Fetched
  <1>2. SUFFICES /\ DOMAIN workspace'[v] = W
                 /\ \A o \in W : at(o) \in Met(v, mlevel'[v]) => workspace'[v][o] = right(o)
    <2>1. Fetched(v, meshmin[v], meshmax[v], mlevel[v], workspace[v])'
      <3>1. Fetched(v, meshmin[v], meshmax[v], mlevel'[v], workspace'[v])
        BY <1>2, Zenon DEF Fetched
      <3>2. Fetched(v, meshmin[v], meshmax[v], mlevel[v], workspace[v])'
              = Fetched(v, meshmin'[v], meshmax'[v], mlevel'[v], workspace'[v])
        BY <1>0, PlacesStay
      <3> QED BY <1>0, <3>1, <3>2, Zenon
    <2>2. /\ meshmin'[v] = lowest(v, {p \in Particle : OnMesh(p) /\ ReadHere(p)})'
          /\ meshmax'[v] = highest(v, {p \in Particle : OnMesh(p) /\ ReadHere(p)})'
          /\ ~RimOutside(meshmin[v], meshmax[v])' /\ rhogrid'[v] = SlabCells(v)'
      <3>1. /\ meshmin[v] = lowest(v, {p \in Particle : OnMesh(p) /\ ReadHere(p)})
            /\ meshmax[v] = highest(v, {p \in Particle : OnMesh(p) /\ ReadHere(p)})
            /\ ~RimOutside(meshmin[v], meshmax[v]) /\ rhogrid[v] = SlabCells(v)
        BY DEF PotentialOf
      <3>2. /\ lowest(v, {p \in Particle : OnMesh(p) /\ ReadHere(p)})'
                 = lowest(v, {p \in Particle : OnMesh(p) /\ ReadHere(p)})
            /\ highest(v, {p \in Particle : OnMesh(p) /\ ReadHere(p)})'
                 = highest(v, {p \in Particle : OnMesh(p) /\ ReadHere(p)})
            /\ RimOutside(meshmin[v], meshmax[v])' = RimOutside(meshmin'[v], meshmax'[v])
            /\ SlabCells(v)' = SlabCells(v)
        BY <1>0, PlacesStay
      <3> QED BY <1>0, <3>1, <3>2, Zenon
    <2>3. DOMAIN workspace'[v] = 0 .. meshmax'[v] - meshmin'[v] + 5
      BY <1>0, <1>2, Zenon
    <2> QED BY <2>1, <2>2, <2>3, Zenon DEF PotentialOf
  <1>3. CASE mlevel'[v] = mlevel[v] /\ workspace'[v] = workspace[v]
    BY <1>1, <1>3, Zenon
  <1>4. CASE /\ k \in 0 .. Groups - 1 /\ mlevel'[v] = k + 1
             /\ \A w \in Task : PotentialOf(w)
             /\ \/ u \notin Task /\ workspace'[v] = workspace[v]
                \/ u \in Task /\ workspace'[v] = workspace[v] /\ SlabsOf(u, v, 2) = {}
                \/ u \in Task /\ workspace'[v] = Copied(v, u)
    <2>1. Met(v, k + 1) = Met(v, k) \cup ({u} \cap Task)
      BY <1>4, MetMore
    <2>2. CASE u \notin Task /\ workspace'[v] = workspace[v]
      <3>1. Met(v, k + 1) = Met(v, k)
        BY <2>1, <2>2
      <3> QED BY <1>1, <1>4, <2>2, <3>1, Zenon
    <2>3. CASE u \in Task /\ workspace'[v] = workspace[v] /\ SlabsOf(u, v, 2) = {}
      <3>1. ASSUME NEW o \in W, at(o) = u
            PROVE  FALSE
        <4>1. PICK a \in Nat, b \in Nat : a = meshmin[v] /\ b = meshmax[v]
          BY RimWithin
        <4>2. PICK x \in Int : x = o + a - 2 /\ x \in a - 2 .. b + 1 + 2
          <5>1. o \in Int /\ 0 <= o /\ o <= b - a + 5
            BY <4>1
          <5>2. o + a - 2 \in Int /\ o + a - 2 \in a - 2 .. b + 1 + 2
            BY <5>1
          <5> QED BY <5>2
        <4>3. slab_to_task(x) = u
          BY <3>1, <4>1, <4>2
        <4>4. x \in SlabsOf(u, v, 2)
          BY <4>1, <4>2, <4>3 DEF SlabsOf
        <4> QED BY <2>3, <4>4
      <3>2. \A o \in W : at(o) \in Met(v, k + 1) => at(o) \in Met(v, k)
        <4> HIDE DEF at, W, u
        <4> QED BY <2>1, <3>1
      <3> QED BY <1>1, <1>4, <2>3, <3>2, Zenon
    <2>4. CASE u \in Task /\ workspace'[v] = Copied(v, u)
      <3>1. DOMAIN Copied(v, u) = DOMAIN workspace[v]
        BY DEF Copied
      <3>2. ASSUME NEW o \in W, at(o) \in Met(v, k + 1)
            PROVE  Copied(v, u)[o] = right(o)
        <4>1. /\ at(o) = u => Copied(v, u)[o] = right(o)
              /\ at(o) # u => Copied(v, u)[o] = workspace[v][o]
          <5>1. u \in Task /\ PotentialOf(u)
            BY <1>4, <2>4
          <5> HIDE DEF u
          <5> QED BY <5>1, CopiedRight
        <4>2. at(o) # u => at(o) \in Met(v, k)
          <5> HIDE DEF at, u
          <5> QED BY <2>1, <3>2
        <4> HIDE DEF at, right, u, W
        <4> QED BY <1>1, <4>1, <4>2
      <3> HIDE DEF at, right, u, W
      <3> QED BY <1>1, <1>4, <2>4, <3>1, <3>2
    <2> QED BY <1>4, <2>2, <2>3, <2>4
  <1> QED BY <1>3, <1>4

LEMMA PotentialCopied ==
  ASSUME Called, LevelsRight, MeshShapes, \A v \in Task : PotentialOf(v),
         NEW t \in Task, NEW u \in Task, CopyPotential(t, u), NEW v \in Task
  PROVE  PotentialOf(v)'
  <1>1. /\ mlevel[t] \in 0 .. Groups - 1 /\ mlevel[u] = mlevel[t]
        /\ PartnerAt(t, mlevel[t]) = u /\ PartnerAt(u, mlevel[t]) = t
    BY SameLevels DEF CopyPotential
  <1>2. /\ UNCHANGED <<call, driver, patch, rhogrid>>
        /\ workspace' = [workspace EXCEPT ![t] = Copied(t, u), ![u] = Copied(u, t)]
        /\ mlevel' = [x \in Task |-> mlevel[x] + IF x \in {t, u} THEN 1 ELSE 0]
    BY DEF CopyPotential, Advance
  <1>3. DOMAIN workspace = Task
    BY DEF MeshShapes
  <1>4. mlevel[v] \in Int
    BY DEF LevelsRight
  <1>5. CASE v \notin {t, u}
    <2>1. workspace'[v] = workspace[v] /\ mlevel'[v] = mlevel[v]
      BY <1>2, <1>3, <1>4, <1>5
    <2> QED BY <1>2, <2>1, PotentialGrows
  <1>6. CASE v = u
    <2>1. workspace'[v] = Copied(u, t) /\ mlevel'[v] = mlevel[v] + 1
      BY <1>2, <1>3, <1>6
    <2> QED BY <1>1, <1>2, <1>6, <2>1, PotentialGrows
  <1>7. CASE v = t /\ t # u
    <2>1. workspace'[v] = Copied(t, u) /\ mlevel'[v] = mlevel[v] + 1
      BY <1>2, <1>3, <1>7
    <2> QED BY <1>1, <1>2, <1>7, <2>1, PotentialGrows
  <1> QED BY <1>5, <1>6, <1>7

(* After the transforms.                                                   *)
LEMMA PotentialLaidOut ==
  ASSUME Called, \A v \in Task : DensityOf(v), Transform, NEW t \in Task,
         ~ \E v \in Task : RimOutside(meshmin'[v], meshmax'[v])
  PROVE  PotentialOf(t)'
  <1>1. /\ UNCHANGED <<call, driver>>
        /\ meshmin' = IF Mesh = "high" THEN [x \in Task |-> lowest(x, {p \in HighRes : OnMesh(p)})]
                                       ELSE meshmin
        /\ meshmax' = IF Mesh = "high" THEN [x \in Task |-> highest(x, {p \in HighRes : OnMesh(p)})]
                                       ELSE meshmax
        /\ rhogrid' = [x \in Task |-> [s \in DOMAIN rhogrid[x] |-> first_slab(x) + s]]
        /\ workspace' = [x \in Task |-> [o \in 0 .. meshmax'[x] - meshmin'[x] + 5 |-> Undefined]]
        /\ mlevel' = EveryTask(0)
    BY DEF Transform
  <1>2. /\ meshmin'[t] = lowest(t, {p \in Particle : OnMesh(p) /\ ReadHere(p)})
        /\ meshmax'[t] = highest(t, {p \in Particle : OnMesh(p) /\ ReadHere(p)})
    <2>1. CASE Mesh = "high"
      <3>1. {p \in HighRes : OnMesh(p)} = {p \in Particle : OnMesh(p) /\ ReadHere(p)}
        BY <2>1, CallsAssumption DEF ReadHere
      <3> QED BY <1>1, <2>1, <3>1
    <2>2. CASE Mesh # "high"
      <3>1. {p \in Particle : OnMesh(p)} = {p \in Particle : OnMesh(p) /\ ReadHere(p)}
        BY <2>2 DEF ReadHere
      <3> QED BY <1>1, <2>2, <3>1 DEF DensityOf
    <2> QED BY <2>1, <2>2
  <1>3. rhogrid'[t] = SlabCells(t)
    <2>1. DOMAIN rhogrid[t] = 0 .. Slabs[Size][t] - 1
      BY DEF DensityOf, SlabParts
    <2> QED BY <1>1, <2>1 DEF SlabCells
  <1>4. DOMAIN workspace'[t] = 0 .. meshmax'[t] - meshmin'[t] + 5
    BY <1>1
  <1>5. Fetched(t, meshmin'[t], meshmax'[t], mlevel'[t], workspace'[t])
    <2>1. Met(t, mlevel'[t]) = {}
      BY <1>1, MetAll DEF EveryTask
    <2> QED BY <2>1, Zenon DEF Fetched
  <1>6. /\ lowest(t, {p \in Particle : OnMesh(p) /\ ReadHere(p)})'
             = lowest(t, {p \in Particle : OnMesh(p) /\ ReadHere(p)})
        /\ highest(t, {p \in Particle : OnMesh(p) /\ ReadHere(p)})'
             = highest(t, {p \in Particle : OnMesh(p) /\ ReadHere(p)})
        /\ RimOutside(meshmin[t], meshmax[t])' = RimOutside(meshmin'[t], meshmax'[t])
        /\ SlabCells(t)' = SlabCells(t)
        /\ Fetched(t, meshmin[t], meshmax[t], mlevel[t], workspace[t])'
             = Fetched(t, meshmin'[t], meshmax'[t], mlevel'[t], workspace'[t])
    BY <1>1, PlacesStay
  <1> QED BY <1>2, <1>3, <1>4, <1>5, <1>6, Zenon DEF PotentialOf

-------------------------------------------------------------------------------
(* Readings.                                                               *)

(* What a task reads for a particle, when it has met all others.           *)
LEMMA ReadingRight ==
  ASSUME Called, NEW t \in Task, PotentialOf(t), mlevel[t] = Groups,
         NEW p \in Hold[t], OnMesh(p), ReadHere(p)
  PROVE  ReadFor(t, p) = SetToBag({Demanded(p)})
  <1> DEFINE S == {q \in Particle : OnMesh(q) /\ ReadHere(q)}
  <1>1. PICK a \in Nat, b \in Nat, N \in Nat : a = meshmin[t] /\ b = meshmax[t] /\ N = Size
    BY RimWithin, SizeFits
  <1>2. PICK c \in Nat : c = Slab(p) /\ a <= c /\ c <= b
    <2>1. p \in Hold[t] \cap S /\ p \in Particle
      BY DEF Particle
    <2>2. meshmin[t] = lowest(t, S) /\ meshmax[t] = highest(t, S)
      BY DEF PotentialOf
    <2>3. S \subseteq {q \in Particle : OnMesh(q)}
      OBVIOUS
    <2> HIDE DEF S
    <2>4. lowest(t, S) <= Slab(p) /\ Slab(p) <= highest(t, S)
      BY <2>1, <2>3, PatchCovers
    <2>5. Slab(p) \in Nat
      BY <1>1, <2>1, OnMeshPlace
    <2> QED BY <1>1, <2>2, <2>4, <2>5
  <1>3. ASSUME NEW side \in {0, 1}, NEW o \in -2 .. 2
        PROVE  workspace[t][(c + side - a) + (o + 2)] = Wrapped(c + side + o)
    <2>1. PICK e \in Int : e = (c + side - a) + (o + 2)
      OBVIOUS
    <2>2. e \in 0 .. b - a + 5 /\ e + a - 2 = c + side + o /\ e + a - 2 \in Int /\ e + a - 2 >= -2
      BY <1>2, <2>1
    <2>3. slab_to_task(e + a - 2) \in Task
      <3>2. PICK y \in Int : y = e + a - 2
        BY <2>2
      <3>3. y + Size >= 0
        <4>1. N > 5 /\ y >= -2
          BY <1>1, <2>2, <3>2, SizeFits
        <4>2. y + N >= 0
          BY <4>1
        <4> QED BY <1>1, <4>2
      <3>4. slab_to_task(y) \in Task
        BY <3>3, SlabOwner
      <3> QED BY <3>2, <3>4
    <2>4. workspace[t][e] = Wrapped(e + a - 2)
      <3>1. Met(t, mlevel[t]) = Task
        BY MetAll
      <3>2. Fetched(t, a, b, mlevel[t], workspace[t])
        BY <1>1 DEF PotentialOf
      <3> QED BY <2>2, <2>3, <3>1, <3>2 DEF Fetched
    <2> QED BY <2>1, <2>2, <2>4
  <1>4. ASSUME NEW side \in {0, 1}
        PROVE  Reading(t, Slab(p) + side - meshmin[t]) = Around(p, side)
    <2>1. PICK o \in Int : o = c + side - a
      OBVIOUS
    <2>2. /\ workspace[t][o] = Wrapped(c + side + (-2)) /\ workspace[t][o + 1] = Wrapped(c + side + (-1))
          /\ workspace[t][o + 2] = Wrapped(c + side + 0) /\ workspace[t][o + 3] = Wrapped(c + side + 1)
          /\ workspace[t][o + 4] = Wrapped(c + side + 2)
      <3>1. o + (-2 + 2) = o /\ o + (-1 + 2) = o + 1 /\ o + (0 + 2) = o + 2 /\ o + (1 + 2) = o + 3
              /\ o + (2 + 2) = o + 4
        OBVIOUS
      <3>2. -2 \in -2 .. 2 /\ -1 \in -2 .. 2 /\ 0 \in -2 .. 2 /\ 1 \in -2 .. 2 /\ 2 \in -2 .. 2
        OBVIOUS
      <3>3. \A x \in -2 .. 2 : workspace[t][o + (x + 2)] = Wrapped(c + side + x)
        BY <1>3, <2>1
      <3> QED BY <3>1, <3>2, <3>3
    <2>3. Slab(p) + side - meshmin[t] = o
      BY <1>1, <1>2, <2>1
    <2>4. Around(p, side) = IF potential THEN <<Wrapped(c + side + 0)>>
            ELSE <<Wrapped(c + side + (-1)), Wrapped(c + side + 1), Wrapped(c + side + (-2)),
                   Wrapped(c + side + 2)>>
      BY <1>2, Zenon DEF Around
    <2>5. Reading(t, o) = IF potential THEN <<workspace[t][o + 2]>>
            ELSE <<workspace[t][o + 1], workspace[t][o + 3], workspace[t][o], workspace[t][o + 4]>>
      BY Zenon DEF Reading
    <2> QED BY <2>2, <2>3, <2>4, <2>5, Zenon
  <1> QED BY <1>4, Zenon DEF ReadFor, Demanded

(* A reading more.                                                         *)
LEMMA OnceMore ==
  ASSUME NEW B, NEW r, NEW ms, r.mesh \notin ms, OnceEach(B, ms)
  PROVE  /\ OnceEach(B (+) SetToBag({r}), ms \cup {r.mesh})
         /\ r \in DOMAIN (B (+) SetToBag({r}))
  <1> DEFINE C == B (+) SetToBag({r})
  <1> USE DEF OnceEach
  <1>1. r \notin DOMAIN B
    OBVIOUS
  <1>2. C = SetToBag(DOMAIN B \cup {r})
    <2>1. DOMAIN B \cap {r} = {}
      BY <1>1
    <2>2. SetToBag(DOMAIN B) (+) SetToBag({r}) = SetToBag(DOMAIN B \cup {r})
      BY <2>1, BagsAdd
    <2> QED BY <2>2
  <1>3. DOMAIN C = DOMAIN B \cup {r}
    BY <1>2 DEF SetToBag
  <1>4. {q.mesh : q \in DOMAIN C} = ms \cup {r.mesh}
    BY <1>3
  <1>5. \A x, y \in DOMAIN C : x.mesh = y.mesh => x = y
    BY <1>3
  <1> QED BY <1>2, <1>3, <1>4, <1>5
-------------------------------------------------------------------------------
(* Regions laid anew.                                                      *)

LEMMA FiniteBound ==
  ASSUME NEW T, NEW h, \A x \in T : h[x] \in Nat, IsFiniteSet(T)
  PROVE  \E b \in Nat : \A x \in T : h[x] <= b
  <1> DEFINE Bounded(s) == \E b \in Nat : \A x \in s : h[x] <= b
             c == [s \in SUBSET T |-> CHOOSE x \in s : TRUE]
             f == [s \in SUBSET T |-> Bounded(s)]
             g == [s \in SUBSET T |-> TRUE]
  <1>1. \A s \in SUBSET T : s # {} => c[s] \in s
    OBVIOUS
  <1>2. Bounded({})
    OBVIOUS
  <1>3. ASSUME NEW s \in SUBSET T, NEW y \in s, Bounded(s \ {y})
        PROVE  Bounded(s)
    <2>1. PICK b \in Nat : \A x \in s \ {y} : h[x] <= b
      BY <1>3
    <2>2. h[y] \in Nat /\ \A x \in s : h[x] \in Nat
      OBVIOUS
    <2>3. PICK e \in Nat : e = IF h[y] <= b THEN b ELSE h[y]
      BY <2>2
    <2>4. \A x \in s : h[x] <= e
      BY <2>1, <2>2, <2>3
    <2> QED BY <2>4
  <1>4. SameTurns(T, c, f, g)
    <2>1. f[{}] = g[{}]
      BY <1>2
    <2>2. ASSUME NEW s \in SUBSET T, s # {}, f[s \ {c[s]}] = g[s \ {c[s]}]
          PROVE  f[s] = g[s]
      <3>1. c[s] \in s /\ s \ {c[s]} \in SUBSET T
        BY <1>1, <2>2
      <3>2. Bounded(s \ {c[s]})
        <4> HIDE DEF Bounded, c
        <4> QED BY <2>2, <3>1
      <3>3. Bounded(s)
        <4> HIDE DEF Bounded, c
        <4> QED BY <1>3, <3>1, <3>2
      <3> HIDE DEF Bounded
      <3> QED BY <3>3
    <2> HIDE DEF c, f, g
    <2> QED BY <1>1, <2>1, <2>2 DEF SameTurns
  <1>5. f[T] = g[T]
    <2> HIDE DEF c, f, g
    <2> QED BY <1>4, SameFold
  <1>6. T \in SUBSET T
    OBVIOUS
  <1>7. Bounded(T)
    <2> HIDE DEF Bounded
    <2> QED BY <1>5, <1>6
  <1> QED BY <1>7

LEMMA Encloses ==
  ASSUME Called, NEW S, S \subseteq Particle, Apart(S, Pos)
  PROVE  /\ Enclosing(S).min \in Int /\ Enclosing(S).max \in Int
         /\ Enclosing(S).min < Enclosing(S).max
  <1> DEFINE T == {Pos[p] : p \in S}
  <1>1. PICK p \in S, q \in S : Pos[p] # Pos[q]
    BY DEF Apart
  <1>2. T \subseteq Nat /\ Pos[p] \in T /\ Pos[q] \in T
    BY Meshes
  <1>3. IsFiniteSet(S) /\ \A x \in S : Pos[x] \in Nat
    BY CallsAssumption, Meshes, FS_Subset
  <1>4. Enclosing(S).min = Min(T) /\ Enclosing(S).max = Max(T)
    BY DEF Enclosing
  <1> HIDE DEF T
  <1>5. PICK b \in Nat : \A x \in T : x <= b
    <2>1. \E b \in Nat : \A x \in S : Pos[x] <= b
      BY <1>3, FiniteBound, Zenon
    <2> QED BY <2>1 DEF T
  <1>6. T \subseteq 0 .. b /\ T # {}
    <2>1. \A x \in T : x \in Nat /\ x <= b
      BY <1>2, <1>5
    <2>2. \A x \in T : x \in 0 .. b
      BY <2>1
    <2> QED BY <1>2, <2>2
  <1>7. /\ Min(T) \in T /\ \A x \in T : Min(T) <= x
        /\ Max(T) \in T /\ \A x \in T : x <= Max(T)
    <2>1. 0 \in Int /\ b \in Int
      OBVIOUS
    <2> QED BY <1>6, <2>1, MinMax, Zenon
  <1>8. PICK lo \in Nat, hi \in Nat : lo = Min(T) /\ hi = Max(T)
    BY <1>2, <1>7
  <1>9. PICK x \in Nat, y \in Nat : x = Pos[p] /\ y = Pos[q] /\ x # y /\ x \in T /\ y \in T
    BY <1>1, <1>2
  <1>10. lo <= x /\ lo <= y /\ x <= hi /\ y <= hi
    BY <1>7, <1>8, <1>9
  <1>11. lo < hi
    BY <1>9, <1>10
  <1> QED BY <1>4, <1>8, <1>11

LEMMA NewRegionOK ==
  ASSUME Called
  PROVE  DOMAIN NewRegion = {"coarse", "high"} /\ RegionOK(NewRegion)
  <1>1. PICK c \in Calls : Pos = c.pos /\ build = Range(c.todo)
    BY DEF Called
  <1>2. HighRes \subseteq Particle
    BY CallsAssumption
  <1>3. \A m \in build \ {"box"} :
          /\ m = "high" => Apart(HighRes, Pos)
          /\ m = "coarse" => Apart(IF "high" \in build THEN Particle \ HighRes ELSE Particle, Pos)
    BY <1>1, CallsAssumption
  <1>4. \A m \in build \ {"box"} : m \in {"coarse", "high"}
    BY Meshes
  <1>5. CASE "high" \in build
    <2>1. NewRegion = [coarse |-> Enclosing(Particle \ HighRes), high |-> Enclosing(HighRes)]
      BY <1>5 DEF NewRegion
    <2>2. /\ Enclosing(HighRes).min \in Int /\ Enclosing(HighRes).max \in Int
          /\ Enclosing(HighRes).min < Enclosing(HighRes).max
      <3>1. Apart(HighRes, Pos)
        BY <1>3, <1>5
      <3> QED BY <1>2, <3>1, Encloses
    <2>3. ASSUME "coarse" \in build
          PROVE  /\ Enclosing(Particle \ HighRes).min \in Int /\ Enclosing(Particle \ HighRes).max \in Int
                 /\ Enclosing(Particle \ HighRes).min < Enclosing(Particle \ HighRes).max
      <3>1. Apart(Particle \ HighRes, Pos) /\ Particle \ HighRes \subseteq Particle
        BY <1>3, <1>5, <2>3
      <3> QED BY <3>1, Encloses
    <2>4. /\ NewRegion["coarse"] = Enclosing(Particle \ HighRes)
          /\ NewRegion["high"] = Enclosing(HighRes)
          /\ DOMAIN NewRegion = {"coarse", "high"}
      BY <2>1
    <2> QED BY <1>4, <2>2, <2>3, <2>4, Zenon DEF RegionOK
  <1>6. CASE "high" \notin build
    <2>1. DOMAIN region = {"coarse", "high"}
      BY DEF Called
    <2>2. NewRegion["coarse"] = Enclosing(Particle) /\ DOMAIN NewRegion = {"coarse", "high"}
      BY <1>6, <2>1 DEF NewRegion
    <2>3. ASSUME "coarse" \in build
          PROVE  /\ Enclosing(Particle).min \in Int /\ Enclosing(Particle).max \in Int
                 /\ Enclosing(Particle).min < Enclosing(Particle).max
      <3>1. Apart(Particle, Pos)
        BY <1>3, <1>6, <2>3
      <3> QED BY <3>1, Encloses
    <2> QED BY <1>4, <1>6, <2>2, <2>3, Zenon DEF RegionOK
  <1> QED BY <1>5, <1>6

-------------------------------------------------------------------------------
(* Steps.                                                                  *)

LEMMA SomeTask == 0 \in Task
  BY SlabsAssumption DEF Task

(* The stages exclude each other.                                          *)
LEMMA Stages ==
  ASSUME MeshTogether, NEW t \in Task
  PROVE  /\ mpc[t] \in {"density", "fft"} => Early
         /\ mpc[t] \in {"potential", "readout", "returned"} => Late
         /\ Early => ~Late /\ ~MeshAt("over") /\ ~MeshAt("endrun") /\ ~MeshAt("extent")
         /\ Late => ~MeshAt("over") /\ ~MeshAt("endrun") /\ ~MeshAt("extent")
         /\ MeshAt("extent") => ~MeshAt("over") /\ ~MeshAt("endrun")
  BY SomeTask DEF MeshTogether, Early, Late, MeshAt

(* Nothing is read from the mesh.                                          *)
LEMMA ReadingsStay ==
  ASSUME UNCHANGED <<call, driver, GravPM>>, NEW t \in Task, ReadingsOf(t),
         mpc'[t] = "returned" <=> mpc[t] = "returned"
  PROVE  ReadingsOf(t)'
  <1>1. /\ UNCHANGED <<call, driver>> /\ GravPM' = GravPM
    OBVIOUS
  <1>2. /\ Before' = Before /\ Mesh' = Mesh
        /\ \A p : ReadHere(p)' = ReadHere(p) /\ Demanded(p)' = Demanded(p)
    BY <1>1, PlacesStay
  <1>3. \A p, m : Once(p, m)' = Once(p, m)
    BY <1>1, Zenon DEF Once
  <1>4. \A p : Once(p, Before)' = Once(p, Before)
                 /\ Once(p, Before \cup {Mesh})' = Once(p, Before \cup {Mesh})
    BY <1>1, <1>2, Zenon DEF Once
  <1> QED BY <1>1, <1>2, <1>4, Zenon DEF ReadingsOf

LEMMA KernelStays ==
  ASSUME UNCHANGED <<call, driver>>, KernelRight
  PROVE  KernelRight'
  <1>1. Mesh' = Mesh
    BY PlacesStay
  <1> QED BY <1>1, Zenon DEF KernelRight, OwnPotential, call, driver

LEMMA LayOutStep ==
  ASSUME MeshIInv, LayOut
  PROVE  MeshIInv'
  <1>1. /\ UNCHANGED <<call, driver, GravPM>> /\ MeshAt("extent") /\ \A p \in Particle : ~Outside(p)
        /\ mpc' = EveryTask("density") /\ mlevel' = EveryTask(0)
        /\ workspace' = [t \in Task |-> Deposit(t)] /\ rhogrid' = [t \in Task |-> Cleared(t)]
    BY DEF LayOut
  <1>2. UNCHANGED <<call, driver>> /\ GravPM' = GravPM
    BY <1>1
  <1>3. Called' /\ \A p \in Particle : ~Outside(p)'
    BY <1>1, <1>2, PlacesStay DEF MeshIInv
  <1>4. \A t \in Task : mpc'[t] = "density" /\ mlevel'[t] = 0 /\ mpc[t] = "extent"
    BY <1>1 DEF EveryTask, MeshAt
  <1>5. Early' /\ ~Late' /\ MeshTogether'
    BY <1>4, SomeTask DEF Early, Late, MeshTogether
  <1>6. MeshShapes' /\ LevelsRight'
    <2>1. mpc' = [t \in Task |-> mpc'[t]] /\ mlevel' = [t \in Task |-> mlevel'[t]]
      BY <1>1 DEF EveryTask
    <2>2. workspace' = [t \in Task |-> workspace'[t]] /\ rhogrid' = [t \in Task |-> rhogrid'[t]]
      BY <1>1
    <2>3. LevelsRight'
      BY <1>4, XorAssumption DEF LevelsRight
    <2> QED BY <2>1, <2>2, <2>3 DEF MeshShapes
  <1>7. \A t \in Task : DensityOf(t)'
    BY DensityLaidOut DEF MeshIInv
  <1>8. KernelRight' /\ \A t \in Task : ReadingsOf(t)'
    <2>1. KernelRight /\ \A t \in Task : ReadingsOf(t)
      BY <1>1, Stages, SomeTask DEF MeshIInv
    <2>2. \A t \in Task : mpc'[t] = "returned" <=> mpc[t] = "returned"
      BY <1>4
    <2> QED BY <1>1, <1>2, <2>1, <2>2, ReadingsStay, KernelStays
  <1>9. GravPM' = [p \in Particle |-> GravPM'[p]]
    BY <1>2 DEF MeshIInv
  <1> QED BY <1>3, <1>5, <1>6, <1>7, <1>8, <1>9 DEF MeshIInv

(* A step of one or two tasks within a stage.                              *)
LEMMA StageStep ==
  ASSUME MeshIInv, UNCHANGED <<call, driver, GravPM>>,
         mpc' = [t \in Task |-> mpc'[t]],
         \A t \in Task : mpc'[t] = mpc[t] \/ (mpc[t] = "density" /\ mpc'[t] = "fft")
                                          \/ (mpc[t] = "potential" /\ mpc'[t] = "readout"),
         Early \/ Late, MeshShapes', LevelsRight',
         Early => \A t \in Task : DensityOf(t)', Late => \A t \in Task : PotentialOf(t)'
  PROVE  MeshIInv'
  <1>1. UNCHANGED <<call, driver>> /\ GravPM' = GravPM
    OBVIOUS
  <1>2. Called' /\ \A p \in Particle : ~Outside(p)'
    BY <1>1, PlacesStay DEF MeshIInv
  <1>3. (Early => Early' /\ ~Late') /\ (Late => Late' /\ ~Early') /\ MeshTogether'
    BY SomeTask DEF Early, Late, MeshTogether
  <1>4. \A t \in Task : mpc'[t] = "returned" <=> mpc[t] = "returned"
    OBVIOUS
  <1>5. KernelRight' /\ \A t \in Task : ReadingsOf(t)'
    <2>1. KernelRight /\ \A t \in Task : ReadingsOf(t)
      BY Stages, SomeTask DEF MeshIInv
    <2> QED BY <1>1, <1>4, <2>1, ReadingsStay, KernelStays
  <1>6. GravPM' = [p \in Particle |-> GravPM'[p]]
    BY <1>1 DEF MeshIInv
  <1> QED BY <1>2, <1>3, <1>5, <1>6 DEF MeshIInv

LEMMA LevelsRise ==
  ASSUME LevelsRight, NEW T, T \subseteq Task, mpc' = mpc, Advance(T),
         \A t \in T : mlevel[t] \in 0 .. Groups - 1 /\ mpc[t] \in {"density", "potential"}
  PROVE  LevelsRight' /\ mlevel' = [t \in Task |-> mlevel'[t]]
  <1>1. mlevel' = [t \in Task |-> mlevel[t] + IF t \in T THEN 1 ELSE 0]
    BY DEF Advance
  <1>2. Groups \in Nat
    BY XorAssumption
  <1>3. ASSUME NEW t \in Task
        PROVE  mlevel'[t] \in 0 .. Groups /\ (mpc'[t] \in {"fft", "readout", "returned"} => mlevel'[t] = Groups)
    <2>1. mlevel[t] \in 0 .. Groups /\ (mpc[t] \in {"fft", "readout", "returned"} => mlevel[t] = Groups)
      BY DEF LevelsRight
    <2>2. CASE t \in T
      <3>1. mlevel'[t] = mlevel[t] + 1 /\ mlevel[t] \in 0 .. Groups - 1 /\ mpc'[t] \in {"density", "potential"}
        BY <1>1, <2>2
      <3>2. PICK n \in 0 .. Groups - 1 : n = mlevel[t]
        BY <3>1
      <3>3. n + 1 \in 0 .. Groups
        BY <1>2
      <3> QED BY <3>1, <3>2, <3>3
    <2>3. CASE t \notin T
      <3>1. mlevel'[t] = mlevel[t] + 0 /\ mlevel[t] \in Nat
        BY <1>1, <1>2, <2>1, <2>3
      <3>2. mlevel'[t] = mlevel[t]
        BY <3>1
      <3> QED BY <2>1, <3>2
    <2> QED BY <2>2, <2>3
  <1> QED BY <1>1, <1>3 DEF LevelsRight

LEMMA AddDensityStep ==
  ASSUME MeshIInv, NEW t \in Task, NEW u \in Task, AddDensity(t, u)
  PROVE  MeshIInv'
  <1>1. Called /\ LevelsRight /\ MeshShapes /\ MeshTogether
    BY DEF MeshIInv
  <1>2. /\ mlevel[t] \in 0 .. Groups - 1 /\ mlevel[u] = mlevel[t]
        /\ mpc[t] = "density" /\ mpc[u] = "density"
    BY <1>1, SameLevels DEF AddDensity
  <1>3. /\ UNCHANGED <<call, driver, GravPM>> /\ mpc' = mpc /\ Advance({t, u}) /\ workspace' = workspace
        /\ rhogrid' = [rhogrid EXCEPT ![t] = WithDensity(t, u), ![u] = WithDensity(u, t)]
    BY DEF AddDensity
  <1>4. Early /\ ~Late
    BY <1>1, <1>2, Stages
  <1>5. LevelsRight' /\ mlevel' = [v \in Task |-> mlevel'[v]]
    BY <1>1, <1>2, <1>3, LevelsRise
  <1>6. MeshShapes'
    <2>1. rhogrid' = [v \in Task |-> rhogrid'[v]]
      BY <1>1, <1>3 DEF MeshShapes
    <2> QED BY <1>1, <1>3, <1>5, <2>1 DEF MeshShapes
  <1>7. \A v \in Task : DensityOf(v)'
    BY <1>1, <1>4, DensityAdded DEF MeshIInv
  <1>8. mpc' = [v \in Task |-> mpc'[v]]
    BY <1>1, <1>3 DEF MeshShapes
  <1> QED BY <1>3, <1>4, <1>5, <1>6, <1>7, <1>8, StageStep

LEMMA CopyPotentialStep ==
  ASSUME MeshIInv, NEW t \in Task, NEW u \in Task, CopyPotential(t, u)
  PROVE  MeshIInv'
  <1>1. Called /\ LevelsRight /\ MeshShapes /\ MeshTogether
    BY DEF MeshIInv
  <1>2. /\ mlevel[t] \in 0 .. Groups - 1 /\ mlevel[u] = mlevel[t]
        /\ mpc[t] = "potential" /\ mpc[u] = "potential"
    BY <1>1, SameLevels DEF CopyPotential
  <1>3. /\ UNCHANGED <<call, driver, GravPM>> /\ mpc' = mpc /\ Advance({t, u}) /\ rhogrid' = rhogrid
        /\ workspace' = [workspace EXCEPT ![t] = Copied(t, u), ![u] = Copied(u, t)]
    BY DEF CopyPotential
  <1>4. Late /\ ~Early
    BY <1>1, <1>2, Stages
  <1>5. LevelsRight' /\ mlevel' = [v \in Task |-> mlevel'[v]]
    BY <1>1, <1>2, <1>3, LevelsRise
  <1>6. MeshShapes'
    <2>1. workspace' = [v \in Task |-> workspace'[v]]
      BY <1>1, <1>3 DEF MeshShapes
    <2> QED BY <1>1, <1>3, <1>5, <2>1 DEF MeshShapes
  <1>7. \A v \in Task : PotentialOf(v)'
    BY <1>1, <1>4, PotentialCopied DEF MeshIInv
  <1>8. mpc' = [v \in Task |-> mpc'[v]]
    BY <1>1, <1>3 DEF MeshShapes
  <1> QED BY <1>3, <1>4, <1>5, <1>6, <1>7, <1>8, StageStep

(* A partner without contributions, or none.                               *)
LEMMA PassByStep ==
  ASSUME MeshIInv, NEW t \in Task, PassBy(t)
  PROVE  MeshIInv'
  <1>1. Called /\ LevelsRight /\ MeshShapes /\ MeshTogether
    BY DEF MeshIInv
  <1>2. PICK stage \in {"density", "potential"} : Busy(t, stage) /\ NoContribution(t, stage)
    BY DEF PassBy
  <1>3. /\ UNCHANGED <<call, driver, GravPM>> /\ mpc' = mpc /\ Advance({t})
        /\ rhogrid' = rhogrid /\ workspace' = workspace /\ UNCHANGED patch
    BY DEF PassBy
  <1>4. mpc[t] = stage /\ mlevel[t] \in 0 .. Groups - 1
    <2>1. mlevel[t] \in 0 .. Groups /\ mlevel[t] < Groups /\ Groups \in Nat
      BY <1>1, <1>2, XorAssumption DEF Busy, LevelsRight
    <2> QED BY <1>2, <2>1 DEF Busy
  <1> DEFINE w == PartnerAt(t, mlevel[t])
  <1>5. w \in Task => SlabsOf(t, w, Rim(stage)) = {} /\ SlabsOf(w, t, Rim(stage)) = {}
    <2>1. w = MeshPartner(t)
      BY PartnerIs
    <2>2. ASSUME w \in Task PROVE w < NTask
      <3>1. NTask \in Nat
        BY SlabsAssumption
      <3> HIDE DEF w
      <3> QED BY <2>2, <3>1 DEF Task
    <2> HIDE DEF w
    <2> QED BY <1>2, <2>1, <2>2, Zenon DEF NoContribution
  <1>6. LevelsRight' /\ mlevel' = [v \in Task |-> mlevel'[v]]
    BY <1>1, <1>3, <1>4, LevelsRise
  <1>7. MeshShapes'
    BY <1>1, <1>3, <1>6 DEF MeshShapes
  <1>8. \A v \in Task : mlevel'[v] = IF v = t THEN mlevel[v] + 1 ELSE mlevel[v]
    <2>1. \A v \in Task : mlevel[v] \in Int
      BY <1>1 DEF LevelsRight
    <2> QED BY <1>3, <2>1 DEF Advance
  <1>9. mpc' = [v \in Task |-> mpc'[v]]
    BY <1>1, <1>3 DEF MeshShapes
  <1>10. CASE stage = "density"
    <2>1. Early /\ ~Late /\ \A v \in Task : DensityOf(v)
      BY <1>1, <1>4, <1>10, Stages DEF MeshIInv
    <2>2. ASSUME NEW v \in Task PROVE DensityOf(v)'
      <3>1. UNCHANGED <<call, driver, patch, workspace>>
        BY <1>3
      <3>2. CASE v # t
        <4>1. mlevel'[v] = mlevel[v] /\ rhogrid'[v] = rhogrid[v]
          BY <1>3, <1>8, <3>2
        <4> QED BY <1>1, <2>1, <3>1, <4>1, DensityGrows
      <3>3. CASE v = t
        <4>1. mlevel'[t] = mlevel[t] + 1 /\ rhogrid'[t] = rhogrid[t]
          BY <1>3, <1>8
        <4>2. w \in Task => SlabsOf(t, w, 0) = {}
          BY <1>5, <1>10, Zenon DEF Rim
        <4> QED BY <1>1, <1>4, <2>1, <3>1, <3>3, <4>1, <4>2, DensityGrows
      <3> QED BY <3>2, <3>3
    <2> QED BY <1>3, <1>6, <1>7, <1>9, <2>1, <2>2, StageStep
  <1>11. CASE stage = "potential"
    <2>1. Late /\ ~Early /\ \A v \in Task : PotentialOf(v)
      BY <1>1, <1>4, <1>11, Stages DEF MeshIInv
    <2>2. ASSUME NEW v \in Task PROVE PotentialOf(v)'
      <3>1. UNCHANGED <<call, driver, patch, rhogrid>>
        BY <1>3
      <3>2. CASE v # t
        <4>1. mlevel'[v] = mlevel[v] /\ workspace'[v] = workspace[v]
          BY <1>3, <1>8, <3>2
        <4> QED BY <1>1, <2>1, <3>1, <4>1, PotentialGrows
      <3>3. CASE v = t
        <4>1. mlevel'[t] = mlevel[t] + 1 /\ workspace'[t] = workspace[t]
          BY <1>3, <1>8
        <4>2. w \in Task => SlabsOf(w, t, 2) = {}
          BY <1>5, <1>11, Zenon DEF Rim
        <4> QED BY <1>1, <1>4, <2>1, <3>1, <3>3, <4>1, <4>2, PotentialGrows
      <3> QED BY <3>2, <3>3
    <2> QED BY <1>3, <1>6, <1>7, <1>9, <2>1, <2>2, StageStep
  <1> QED BY <1>10, <1>11

LEMMA LevelsDoneStep ==
  ASSUME MeshIInv, NEW t \in Task, LevelsDone(t)
  PROVE  MeshIInv'
  <1>1. Called /\ LevelsRight /\ MeshShapes /\ MeshTogether
    BY DEF MeshIInv
  <1>2. /\ UNCHANGED <<call, driver, GravPM>> /\ mlevel' = mlevel
        /\ rhogrid' = rhogrid /\ workspace' = workspace /\ UNCHANGED patch
        /\ mpc[t] \in {"density", "potential"} /\ mlevel[t] = Groups
        /\ mpc' = [mpc EXCEPT ![t] = IF @ = "density" THEN "fft" ELSE "readout"]
    BY DEF LevelsDone
  <1>3. \A v \in Task : mpc'[v] = IF v # t THEN mpc[v] ELSE IF mpc[t] = "density" THEN "fft" ELSE "readout"
    BY <1>1, <1>2 DEF MeshShapes
  <1>4. mpc' = [v \in Task |-> mpc'[v]]
    BY <1>1, <1>2 DEF MeshShapes
  <1>5. MeshShapes'
    BY <1>1, <1>2, <1>4 DEF MeshShapes
  <1>6. LevelsRight'
    BY <1>1, <1>2, <1>3 DEF LevelsRight
  <1>7. Early \/ Late
    BY <1>1, <1>2, Stages
  <1>8. Early => \A v \in Task : DensityOf(v)'
    <2>1. UNCHANGED <<call, driver, patch, workspace>>
      BY <1>2
    <2> QED BY <1>1, <1>2, <2>1, DensityGrows DEF MeshIInv
  <1>9. Late => \A v \in Task : PotentialOf(v)'
    <2>1. UNCHANGED <<call, driver, patch, rhogrid>>
      BY <1>2
    <2> QED BY <1>1, <1>2, <2>1, PotentialGrows DEF MeshIInv
  <1> QED BY <1>2, <1>3, <1>4, <1>5, <1>6, <1>7, <1>8, <1>9, StageStep

LEMMA TransformStep ==
  ASSUME MeshIInv, Transform
  PROVE  MeshIInv'
  <1>1. Called /\ LevelsRight /\ MeshShapes /\ MeshTogether
    BY DEF MeshIInv
  <1> DEFINE stop == \E t \in Task : RimOutside(meshmin'[t], meshmax'[t])
  <1>2. /\ UNCHANGED <<call, driver, GravPM>> /\ MeshAt("fft")
        /\ rhogrid' = [t \in Task |-> [s \in DOMAIN rhogrid[t] |-> first_slab(t) + s]]
        /\ workspace' = [t \in Task |-> [o \in 0 .. meshmax'[t] - meshmin'[t] + 5 |-> Undefined]]
        /\ mlevel' = EveryTask(0)
        /\ mpc' = EveryTask(IF stop THEN "endrun" ELSE "potential")
    BY DEF Transform
  <1>3. UNCHANGED <<call, driver>> /\ GravPM' = GravPM
    BY <1>2
  <1>4. Early
    <2>1. mpc[0] = "fft"
      BY <1>2, SomeTask DEF MeshAt
    <2> QED BY <1>1, <2>1, SomeTask, Stages
  <1>5. Called' /\ \A p \in Particle : ~Outside(p)'
    BY <1>3, <1>4, PlacesStay DEF MeshIInv
  <1>6. \A t \in Task : mlevel'[t] = 0 /\ mpc'[t] = IF stop THEN "endrun" ELSE "potential"
    BY <1>2 DEF EveryTask
  <1> HIDE DEF stop
  <1>7. MeshShapes'
    <2>1. mpc' = [t \in Task |-> mpc'[t]] /\ mlevel' = [t \in Task |-> mlevel'[t]]
      BY <1>2 DEF EveryTask
    <2>2. workspace' = [t \in Task |-> workspace'[t]] /\ rhogrid' = [t \in Task |-> rhogrid'[t]]
      BY <1>2
    <2> QED BY <2>1, <2>2 DEF MeshShapes
  <1>8. LevelsRight'
    BY <1>6, XorAssumption DEF LevelsRight
  <1>9. GravPM' = [p \in Particle |-> GravPM'[p]]
    BY <1>3 DEF MeshIInv
  <1>10. KernelRight' /\ \A t \in Task : ReadingsOf(t)'
    <2>1. KernelRight /\ \A t \in Task : ReadingsOf(t)
      BY <1>1, <1>4, Stages, SomeTask DEF MeshIInv
    <2>2. \A t \in Task : mpc'[t] = "returned" <=> mpc[t] = "returned"
      BY <1>2, <1>6 DEF MeshAt
    <2> QED BY <1>2, <1>3, <2>1, <2>2, ReadingsStay, KernelStays
  <1>11. CASE stop
    <2>1. MeshAt("endrun")' /\ ~Early' /\ ~Late'
      BY <1>6, <1>11, SomeTask DEF MeshAt, Early, Late
    <2> QED BY <1>5, <1>7, <1>8, <1>9, <2>1 DEF MeshIInv, MeshTogether
  <1>12. CASE ~stop
    <2>1. Late' /\ ~Early'
      BY <1>6, <1>12, SomeTask DEF Early, Late
    <2>2. \A t \in Task : PotentialOf(t)'
      <3>1. \A t \in Task : DensityOf(t)
        BY <1>4 DEF MeshIInv
      <3> QED BY <1>1, <1>12, <3>1, PotentialLaidOut DEF stop
    <2> QED BY <1>5, <1>7, <1>8, <1>9, <1>10, <2>1, <2>2 DEF MeshIInv, MeshTogether
  <1> QED BY <1>11, <1>12

LEMMA ReadOutStep ==
  ASSUME MeshIInv, NEW t \in Task, ReadOut(t)
  PROVE  MeshIInv'
  <1>1. Called /\ LevelsRight /\ MeshShapes /\ MeshTogether
    BY DEF MeshIInv
  <1>2. /\ UNCHANGED <<call, driver, patch, rhogrid>> /\ workspace' = workspace /\ mlevel' = mlevel
        /\ mpc[t] = "readout" /\ mpc' = [mpc EXCEPT ![t] = "returned"]
        /\ GravPM' = [p \in Particle |->
             IF p \notin Hold[t] \/ (Mesh = "high" /\ p \notin HighRes) THEN GravPM[p]
             ELSE IF Mesh = "box" /\ ~potential THEN ReadFor(t, p)
             ELSE GravPM[p] (+) ReadFor(t, p)]
    BY DEF ReadOut
  <1>3. UNCHANGED <<call, driver>> /\ rhogrid' = rhogrid
    BY <1>2
  <1>4. Late /\ ~Early
    BY <1>1, <1>2, Stages
  <1>5. Called' /\ \A p \in Particle : ~Outside(p) /\ ~Outside(p)'
    BY <1>3, <1>4, PlacesStay DEF MeshIInv
  <1>6. \A v \in Task : mpc'[v] = IF v = t THEN "returned" ELSE mpc[v]
    BY <1>1, <1>2 DEF MeshShapes
  <1>7. Late' /\ ~Early'
    BY <1>4, <1>6, SomeTask DEF Late, Early
  <1>8. MeshShapes'
    <2>1. mpc' = [v \in Task |-> mpc'[v]]
      BY <1>1, <1>2 DEF MeshShapes
    <2> QED BY <1>1, <1>2, <1>3, <2>1 DEF MeshShapes
  <1>9. LevelsRight'
    BY <1>1, <1>2, <1>6 DEF LevelsRight
  <1>10. \A v \in Task : PotentialOf(v) /\ PotentialOf(v)'
    BY <1>1, <1>2, <1>4, PotentialGrows DEF MeshIInv
  <1>11. KernelRight /\ \A v \in Task : ReadingsOf(v)
    BY <1>1, <1>4, Stages, SomeTask DEF MeshIInv
  <1>12. /\ Before' = Before /\ Mesh' = Mesh
         /\ \A p : ReadHere(p)' = ReadHere(p) /\ Demanded(p)' = Demanded(p)
    BY <1>3, PlacesStay
  <1>13. ASSUME NEW v \in Task
         PROVE  ReadingsOf(v)'
    <2>1. CASE v # t
      <3>1. \A p \in Hold[v] : GravPM'[p] = GravPM[p]
        BY <1>2, <2>1, CallsAssumption DEF Particle
      <3>2. mpc'[v] = mpc[v]
        BY <1>6, <2>1
      <3>3. \A p \in Hold[v] : IF mpc'[v] = "returned" /\ ReadHere(p)
                               THEN Once(p, Before \cup {Mesh}) /\ Demanded(p) \in DOMAIN GravPM[p]
                               ELSE Once(p, Before)
        BY <1>11, <3>2 DEF ReadingsOf
      <3> QED BY <1>12, <3>1, <3>3, Zenon DEF ReadingsOf, Once
    <2>2. CASE v = t
      <3>1. ASSUME NEW p \in Hold[t]
            PROVE  Once(p, Before)
        BY <1>2, <1>11 DEF ReadingsOf
      <3>2. ASSUME NEW p \in Hold[t], ~ReadHere(p)
            PROVE  OnceEach(GravPM'[p], Before)
        <4>1. GravPM'[p] = GravPM[p]
          BY <1>2, <3>2 DEF ReadHere, Particle
        <4> QED BY <3>1, <4>1 DEF Once
      <3>3. ASSUME NEW p \in Hold[t], ReadHere(p)
            PROVE  OnceEach(GravPM'[p], Before \cup {Mesh}) /\ Demanded(p) \in DOMAIN GravPM'[p]
        <4>1. p \in Particle
          BY DEF Particle
        <4>2. ReadFor(t, p) = SetToBag({Demanded(p)})
          <5>1. OnMesh(p)
            BY <1>1, <1>5, <3>3, <4>1, InsideOnMesh DEF ReadHere
          <5>2. mlevel[t] = Groups
            BY <1>1, <1>2 DEF LevelsRight
          <5> QED BY <1>1, <1>10, <3>3, <5>1, <5>2, ReadingRight
        <4>3. OnceEach(GravPM[p], Before)
          BY <3>1 DEF Once
        <4>4. GravPM'[p] = GravPM[p] (+) SetToBag({Demanded(p)})
          <5>1. CASE Mesh = "box" /\ ~potential
            <6>1. GravPM'[p] = SetToBag({Demanded(p)})
              BY <1>2, <4>1, <4>2, <5>1
            <6>2. Before = {}
              BY <5>1 DEF Before
            <6>3. GravPM[p] = SetToBag({})
              BY <4>3, <6>2 DEF OnceEach
            <6>4. SetToBag({}) (+) SetToBag({Demanded(p)}) = SetToBag({} \cup {Demanded(p)})
              BY BagsAdd
            <6>5. {} \cup {Demanded(p)} = {Demanded(p)}
              OBVIOUS
            <6> QED BY <6>1, <6>3, <6>4, <6>5, Zenon
          <5>2. CASE ~(Mesh = "box" /\ ~potential)
            <6>1. ~(p \notin Hold[t] \/ (Mesh = "high" /\ p \notin HighRes))
              BY <3>3 DEF ReadHere
            <6>2. GravPM'[p] = GravPM[p] (+) ReadFor(t, p)
              BY <1>2, <4>1, <5>2, <6>1, Zenon
            <6> QED BY <4>2, <6>2
          <5> QED BY <5>1, <5>2
        <4>5. Demanded(p).mesh = Mesh /\ Mesh \notin Before
          BY DEF Demanded, Before
        <4>6. Demanded(p).mesh \notin Before
          BY <4>5, Zenon
        <4>7. /\ OnceEach(GravPM[p] (+) SetToBag({Demanded(p)}), Before \cup {Demanded(p).mesh})
              /\ Demanded(p) \in DOMAIN (GravPM[p] (+) SetToBag({Demanded(p)}))
          BY <4>3, <4>6, OnceMore, Zenon
        <4> QED BY <4>4, <4>5, <4>7, Zenon
      <3>4. mpc'[t] = "returned"
        BY <1>6
      <3> QED BY <1>12, <2>2, <3>2, <3>3, <3>4, Zenon DEF ReadingsOf, Once
    <2> QED BY <2>1, <2>2
  <1>14. KernelRight'
    BY <1>3, <1>11, KernelStays
  <1>15. GravPM' = [p \in Particle |-> GravPM'[p]]
    BY <1>2
  <1> QED BY <1>5, <1>7, <1>8, <1>9, <1>10, <1>13, <1>14, <1>15 DEF MeshIInv, MeshTogether

LEMMA NextMeshStep ==
  ASSUME MeshIInv, NextMesh
  PROVE  MeshIInv'
  <1>1. Called /\ LevelsRight /\ MeshShapes /\ MeshTogether
    BY DEF MeshIInv
  <1>2. /\ MeshAt("returned")
        /\ mpc' = EveryTask(IF Len(todo) > 1 THEN "extent" ELSE "over")
        /\ todo' = IF Len(todo) > 1 THEN Tail(todo) ELSE todo
        /\ UNCHANGED <<call, region, kernel, mlevel, patch, workspace, rhogrid, GravPM, tree>>
    BY DEF NextMesh
  <1>3. /\ Pos' = Pos /\ build' = build /\ potential' = potential /\ region' = region /\ kernel' = kernel
        /\ mlevel' = mlevel /\ workspace' = workspace /\ rhogrid' = rhogrid /\ GravPM' = GravPM
    BY <1>2 DEF call
  <1>4. \A t \in Task : mpc[t] = "returned" /\ mpc'[t] = IF Len(todo) > 1 THEN "extent" ELSE "over"
    BY <1>2 DEF MeshAt, EveryTask
  <1>5. Late
    BY <1>4 DEF Late
  <1>6. ~Early' /\ ~Late' /\ MeshTogether'
    BY <1>4, SomeTask DEF Early, Late, MeshTogether, MeshAt
  <1>7. LevelsRight'
    BY <1>1, <1>3, <1>4 DEF LevelsRight
  <1>8. MeshShapes' /\ GravPM' = [p \in Particle |-> GravPM'[p]]
    <2>1. mpc' = [t \in Task |-> mpc'[t]]
      BY <1>2 DEF EveryTask
    <2> QED BY <1>1, <1>3, <2>1 DEF MeshShapes, MeshIInv
  <1>9. RegionOK(region)' = RegionOK(region)
    BY <1>3, Zenon DEF RegionOK
  <1>10. PICK c \in Calls : /\ Pos = c.pos /\ build = Range(c.todo) /\ potential = c.potential
                            /\ todo = c.todo \/ ("high" \in build /\ todo = <<"high">>)
    BY <1>1 DEF Called
  <1>11. CASE Len(todo) > 1
    <2>1. Mesh # "high" /\ todo = <<Mesh, "high">> /\ build = {Mesh, "high"}
      <3>1. /\ Mesh = "high" => todo = <<"high">>
            /\ Mesh # "high" => \/ todo = <<Mesh>> /\ build = {Mesh}
                                \/ todo = <<Mesh, "high">> /\ build = {Mesh, "high"}
        BY <1>1, Meshes
      <3>2. \A x : todo # <<x>>
        <4> SUFFICES ASSUME NEW x, todo = <<x>> PROVE FALSE
          OBVIOUS
        <4>1. Len(<<x>>) = 1
          OBVIOUS
        <4>2. Len(todo) = 1
          BY <4>1, Zenon
        <4>3. 1 > 1
          BY <1>11, <4>2, Zenon
        <4> QED BY <4>3, SMT
      <3> QED BY <3>1, <3>2, Zenon
    <2>2. todo' = <<"high">> /\ "high" \in build
      <3>1. todo' = Tail(todo)
        BY <1>2, <1>11
      <3>2. Tail(<<Mesh, "high">>) = <<"high">>
        OBVIOUS
      <3> QED BY <2>1, <3>1, <3>2
    <2>3. Mesh' = "high"
      BY <2>2 DEF Mesh
    <2>4. Called'
      <3>1. \E d \in Calls : /\ Pos' = d.pos /\ build' = Range(d.todo) /\ potential' = d.potential
                             /\ todo' = d.todo \/ ("high" \in build' /\ todo' = <<"high">>)
        BY <1>3, <1>10, <2>2
      <3> QED BY <1>1, <1>3, <1>9, <3>1 DEF Called
    <2>5. KernelRight /\ \A t \in Task : ReadingsOf(t)
      BY <1>1, <1>5, Stages, SomeTask DEF MeshIInv
    <2>6. KernelRight'
      BY <1>3, <2>1, <2>5 DEF KernelRight, OwnPotential
    <2>7. Before' = {Mesh} /\ Before \cup {Mesh} = {Mesh}
      BY <1>3, <2>1, <2>3 DEF Before
    <2>8. ASSUME NEW t \in Task
          PROVE  ReadingsOf(t)'
      <3>1. \A p \in Hold[t] : Once(p, {Mesh})
        BY <1>4, <2>1, <2>5, <2>7 DEF ReadingsOf, ReadHere
      <3>2. \A p \in Hold[t] : OnceEach(GravPM'[p], Before')
        BY <1>3, <2>7, <3>1 DEF Once
      <3>3. mpc'[t] # "returned"
        BY <1>4, <1>11
      <3> QED BY <3>2, <3>3, Zenon DEF ReadingsOf, Once
    <2> QED BY <1>6, <1>7, <1>8, <2>4, <2>6, <2>8 DEF MeshIInv
  <1>12. CASE ~(Len(todo) > 1)
    <2>1. Called'
      <3>1. todo' = todo
        BY <1>2, <1>12
      <3> QED BY <1>1, <1>3, <1>9, <1>10, <3>1 DEF Called
    <2>2. MeshAt("over")'
      BY <1>4, <1>12 DEF MeshAt
    <2> QED BY <1>6, <1>7, <1>8, <2>1, <2>2 DEF MeshIInv
  <1> QED BY <1>11, <1>12

LEMMA TryAgainStep ==
  ASSUME MeshIInv, TryAgain
  PROVE  MeshIInv'
  <1>1. Called /\ LevelsRight /\ MeshShapes /\ MeshTogether
    BY DEF MeshIInv
  <1>2. MeshAt("extent") /\ UNCHANGED <<call, mlevel, patch, workspace, rhogrid, tree>>
    BY DEF TryAgain
  <1>3. /\ Pos' = Pos /\ build' = build /\ potential' = potential
        /\ mlevel' = mlevel /\ workspace' = workspace /\ rhogrid' = rhogrid
    BY <1>2 DEF call
  <1>4. KernelRight /\ \A t \in Task : ReadingsOf(t)
    BY <1>1, <1>2, Stages, SomeTask DEF MeshIInv
  <1>5. CASE tries # "first"
    <2>1. mpc' = EveryTask("endrun") /\ UNCHANGED <<call, driver>> /\ GravPM' = GravPM
      BY <1>2, <1>5 DEF TryAgain
    <2>2. Called'
      BY <1>1, <2>1, PlacesStay
    <2>3. \A t \in Task : mpc'[t] = "endrun"
      BY <2>1 DEF EveryTask
    <2>4. MeshAt("endrun")' /\ ~Early' /\ ~Late'
      BY <2>3, SomeTask DEF MeshAt, Early, Late
    <2>5. LevelsRight'
      BY <1>1, <1>3, <2>3 DEF LevelsRight
    <2>6. MeshShapes'
      <3>1. mpc' = [t \in Task |-> mpc'[t]]
        BY <2>1 DEF EveryTask
      <3> QED BY <1>1, <1>3, <3>1 DEF MeshShapes
    <2>7. GravPM' = [p \in Particle |-> GravPM'[p]]
      BY <2>1 DEF MeshIInv
    <2> QED BY <2>2, <2>4, <2>5, <2>6, <2>7 DEF MeshIInv, MeshTogether
  <1>6. CASE tries = "first"
    <2>1. /\ region' = NewRegion
          /\ kernel' = IF OwnPotential THEN kernel ELSE NewRegion
          /\ tries' = IF BothForces THEN "last" ELSE "again"
          /\ todo' = IF BothForces THEN <<"coarse", "high">> ELSE todo
          /\ GravPM' = IF BothForces THEN [p \in Particle |-> EmptyBag] ELSE GravPM
          /\ mpc' = mpc
      BY <1>6 DEF TryAgain
    <2>2. PICK c \in Calls : /\ Pos = c.pos /\ build = Range(c.todo) /\ potential = c.potential
                             /\ todo = c.todo \/ ("high" \in build /\ todo = <<"high">>)
      BY <1>1 DEF Called
    <2>3. BothForces => c.todo = <<"coarse", "high">>
      <3>1. c.todo \in {<<"box">>, <<"box", "high">>, <<"coarse">>, <<"coarse", "high">>}
        BY CallsAssumption
      <3>2. /\ Range(<<"box">>) = {"box"} /\ Range(<<"coarse">>) = {"coarse"}
            /\ Range(<<"box", "high">>) = {"box", "high"}
        BY DEF Range
      <3> QED BY <2>2, <3>1, <3>2 DEF BothForces
    <2>4. todo' = c.todo \/ ("high" \in build /\ todo' = <<"high">>)
      BY <2>1, <2>2, <2>3
    <2>5. Called'
      <3>1. \E d \in Calls : /\ Pos' = d.pos /\ build' = Range(d.todo) /\ potential' = d.potential
                             /\ todo' = d.todo \/ ("high" \in build' /\ todo' = <<"high">>)
        BY <1>3, <2>2, <2>4
      <3>2. DOMAIN NewRegion = {"coarse", "high"} /\ RegionOK(NewRegion)
        BY <1>1, NewRegionOK
      <3>3. DOMAIN region' = {"coarse", "high"} /\ RegionOK(region)'
        BY <1>3, <2>1, <3>2, Zenon DEF RegionOK
      <3> QED BY <3>1, <3>3 DEF Called
    <2>6. \A t \in Task : mpc[t] = "extent"
      BY <1>2 DEF MeshAt
    <2>7. MeshAt("extent")' /\ ~Early' /\ ~Late'
      BY <2>1, <2>6, SomeTask DEF MeshAt, Early, Late
    <2>8. LevelsRight' /\ MeshShapes'
      BY <1>1, <1>3, <2>1 DEF LevelsRight, MeshShapes
    <2>9. GravPM' = [p \in Particle |-> GravPM'[p]]
      BY <2>1 DEF MeshIInv
    <2>10. KernelRight'
      <3>1. CASE OwnPotential
        <4>1. ~BothForces
          BY <3>1 DEF OwnPotential, BothForces
        <4>2. todo' = todo /\ tries' = "again"
          BY <2>1, <4>1
        <4> QED BY <1>3, <3>1, <4>2 DEF KernelRight, OwnPotential, Mesh
      <3>2. CASE ~OwnPotential
        BY <2>1, <3>2 DEF KernelRight
      <3> QED BY <3>1, <3>2
    <2>11. ASSUME NEW t \in Task
           PROVE  ReadingsOf(t)'
      <3>1. mpc'[t] # "returned" /\ mpc[t] # "returned"
        BY <2>1, <2>6
      <3>2. CASE BothForces
        <4>1. Mesh' = "coarse"
          BY <2>1, <3>2 DEF Mesh
        <4>2. Before' = {}
          BY <4>1 DEF Before
        <4>3. OnceEach(SetToBag({}), {})
          BY DEF OnceEach, SetToBag
        <4>4. \A p \in Hold[t] : GravPM'[p] = SetToBag({})
          BY <2>1, <3>2 DEF Particle, EmptyBag
        <4> QED BY <3>1, <4>2, <4>3, <4>4, Zenon DEF ReadingsOf, Once
      <3>3. CASE ~BothForces
        <4>1. todo' = todo /\ GravPM' = GravPM
          BY <2>1, <3>3
        <4>2. Before' = Before
          BY <1>3, <4>1 DEF Before, Mesh
        <4>3. \A p \in Hold[t] : OnceEach(GravPM[p], Before)
          BY <1>4, <3>1 DEF ReadingsOf, Once
        <4> QED BY <3>1, <4>1, <4>2, <4>3, Zenon DEF ReadingsOf, Once
      <3> QED BY <3>2, <3>3
    <2> QED BY <2>5, <2>7, <2>8, <2>9, <2>10, <2>11 DEF MeshIInv, MeshTogether
  <1> QED BY <1>5, <1>6

-------------------------------------------------------------------------------
LEMMA MeshStarts == MeshInit => MeshIInv
  <1> SUFFICES ASSUME MeshInit PROVE MeshIInv
    OBVIOUS
  <1>1. PICK c \in Calls : /\ Pos = c.pos /\ build = ToSet(c.todo) /\ potential = c.potential
                           /\ todo = c.todo /\ region = c.region /\ kernel = c.region
    BY DEF MeshInit
  <1>2. /\ mpc = EveryTask("extent") /\ mlevel = EveryTask(0)
        /\ workspace = EveryTask(<<>>) /\ rhogrid = EveryTask(<<>>)
        /\ GravPM = [p \in Particle |-> EmptyBag]
    BY DEF MeshInit
  <1>3. ToSet(c.todo) = Range(c.todo)
    BY DEF ToSet, Range
  <1>4. Called
    <2>1. /\ c.region \in [coarse : [min : Int, max : Int], high : [min : Int, max : Int]]
          /\ \A m \in Range(c.todo) \ {"box"} : c.region[m].min < c.region[m].max
          /\ c.todo \in {<<"box">>, <<"box", "high">>, <<"coarse">>, <<"coarse", "high">>}
      BY CallsAssumption
    <2>2. \A m \in Range(c.todo) \ {"box"} : m \in {"coarse", "high"}
      BY <2>1 DEF Range
    <2>3. \A m \in {"coarse", "high"} : c.region[m].min \in Int /\ c.region[m].max \in Int
      BY <2>1
    <2>4. RegionOK(region)
      BY <1>1, <1>3, <2>1, <2>2, <2>3 DEF RegionOK
    <2> QED BY <1>1, <1>3, <2>1, <2>4 DEF Called
  <1>5. MeshAt("extent") /\ ~Early /\ ~Late
    BY <1>2, SomeTask DEF MeshAt, Early, Late, EveryTask
  <1>6. MeshShapes
    BY <1>2 DEF MeshShapes, EveryTask
  <1>7. LevelsRight
    BY <1>2, XorAssumption DEF LevelsRight, EveryTask
  <1>8. KernelRight
    BY <1>1 DEF KernelRight
  <1>9. ASSUME NEW t \in Task
        PROVE  ReadingsOf(t)
    <2>1. Before = {}
      <3>1. c.todo \in {<<"box">>, <<"box", "high">>, <<"coarse">>, <<"coarse", "high">>}
        BY CallsAssumption
      <3>2. Mesh # "high"
        BY <1>1, <3>1 DEF Mesh
      <3> QED BY <3>2 DEF Before
    <2>2. OnceEach(SetToBag({}), {})
      BY DEF OnceEach, SetToBag
    <2>3. \A p \in Hold[t] : GravPM[p] = SetToBag({})
      BY <1>2 DEF Particle, EmptyBag
    <2>4. mpc[t] # "returned"
      BY <1>2 DEF EveryTask
    <2> QED BY <2>1, <2>2, <2>3, <2>4 DEF ReadingsOf, Once
  <1>10. GravPM = [p \in Particle |-> GravPM[p]]
    BY <1>2
  <1> QED BY <1>4, <1>5, <1>6, <1>7, <1>8, <1>9, <1>10 DEF MeshIInv, MeshTogether

LEMMA MeshGoesOn == MeshIInv /\ [MeshNext]_mesh_vars => MeshIInv'
  <1>1. ASSUME MeshIInv, UNCHANGED mesh_vars
        PROVE  MeshIInv'
    <2>1. /\ UNCHANGED <<call, driver, patch>> /\ mpc' = mpc /\ mlevel' = mlevel
          /\ workspace' = workspace /\ rhogrid' = rhogrid /\ GravPM' = GravPM
      BY <1>1 DEF mesh_vars
    <2>2. Called /\ MeshTogether /\ MeshShapes /\ LevelsRight
      BY <1>1 DEF MeshIInv
    <2>3. Called' /\ \A p \in Particle : Outside(p)' = Outside(p)
      BY <2>1, <2>2, PlacesStay
    <2>4. MeshTogether' /\ MeshShapes' /\ LevelsRight'
      BY <2>1, <2>2 DEF MeshTogether, MeshAt, Early, Late, MeshShapes, LevelsRight
    <2>5. /\ Early' = Early /\ Late' = Late
          /\ MeshAt("over")' = MeshAt("over") /\ MeshAt("endrun")' = MeshAt("endrun")
      BY <2>1 DEF MeshAt, Early, Late
    <2>6. ASSUME Early, NEW t \in Task PROVE DensityOf(t)'
      <3>1. DensityOf(t)
        BY <1>1, <2>6 DEF MeshIInv
      <3> QED BY <2>1, <2>2, <3>1, DensityGrows
    <2>7. ASSUME Late, NEW t \in Task PROVE PotentialOf(t)'
      <3>1. PotentialOf(t)
        BY <1>1, <2>7 DEF MeshIInv
      <3> QED BY <2>1, <2>2, <3>1, PotentialGrows
    <2>8. ASSUME ~MeshAt("over"), ~MeshAt("endrun") PROVE KernelRight' /\ \A t \in Task : ReadingsOf(t)'
      <3>1. KernelRight /\ \A t \in Task : ReadingsOf(t)
        BY <1>1, <2>8 DEF MeshIInv
      <3> QED BY <2>1, <3>1, ReadingsStay, KernelStays
    <2>9. Early \/ Late => \A p \in Particle : ~Outside(p)'
      BY <1>1, <2>3 DEF MeshIInv
    <2>10. GravPM' = [p \in Particle |-> GravPM'[p]]
      BY <1>1, <2>1 DEF MeshIInv
    <2> QED BY <2>3, <2>4, <2>5, <2>6, <2>7, <2>8, <2>9, <2>10 DEF MeshIInv
  <1>2. ASSUME MeshIInv, MeshNext
        PROVE  MeshIInv'
    <2>1. CASE LayOut
      BY <1>2, <2>1, LayOutStep
    <2>2. CASE Transform
      BY <1>2, <2>2, TransformStep
    <2>3. CASE TryAgain
      BY <1>2, <2>3, TryAgainStep
    <2>4. CASE NextMesh
      BY <1>2, <2>4, NextMeshStep
    <2>5. CASE \E t \in Task : PassBy(t)
      BY <1>2, <2>5, PassByStep
    <2>6. CASE \E t \in Task : LevelsDone(t)
      BY <1>2, <2>6, LevelsDoneStep
    <2>7. CASE \E t \in Task : ReadOut(t)
      BY <1>2, <2>7, ReadOutStep
    <2>8. CASE \E t, u \in Task : AddDensity(t, u)
      BY <1>2, <2>8, AddDensityStep
    <2>9. CASE \E t, u \in Task : CopyPotential(t, u)
      BY <1>2, <2>9, CopyPotentialStep
    <2> QED BY <1>2, <2>1, <2>2, <2>3, <2>4, <2>5, <2>6, <2>7, <2>8, <2>9, Zenon
           DEF MeshNext, ForceBoxPatch, ForceBoxDensity, ForceBoxTransform, ForceBoxPotential,
               ForceBoxReadOut, PotentialBoxPatch, PotentialBoxDensity, PotentialBoxTransform,
               PotentialBoxCopy, PotentialBoxReadOut, ForceGridPatch, ForceGridDensity,
               ForceGridTransform, ForceGridPotential, ForceGridReadOut, PotentialGridPatch,
               PotentialGridDensity, PotentialGridTransform, PotentialGridCopy, PotentialGridReadOut
  <1> QED BY <1>1, <1>2

(* What the invariant says when the density is complete, and when the      *)
(* readings have been added.                                               *)
LEMMA MeshIsExact == MeshIInv => MeshExact
  <1> SUFFICES ASSUME MeshIInv PROVE MeshExact
    OBVIOUS
  <1>1. Called /\ LevelsRight /\ MeshShapes /\ MeshTogether
    BY DEF MeshIInv
  <1>2. DensityComplete
    <2> SUFFICES ASSUME MeshAt("fft"), NEW t \in Task, NEW s \in DOMAIN rhogrid[t]
                 PROVE  rhogrid[t][s] = SetToBag({d \in {p \in Particle : OnMesh(p)} \X {0, 1} :
                                                    Wrapped(Slab(d[1]) + d[2]) = first_slab(t) + s})
      BY DEF DensityComplete
    <2>1. mpc[t] = "fft"
      BY DEF MeshAt
    <2>2. DensityOf(t) /\ mlevel[t] = Groups
      BY <1>1, <2>1, Stages DEF MeshIInv, LevelsRight
    <2>3. rhogrid[t] = SlabParts(t, Groups)
      BY <2>2 DEF DensityOf
    <2>4. rhogrid[t][s] = SetToBag(Parts(Task, first_slab(t) + s))
      BY <2>3, MetAll DEF SlabParts
    <2> QED BY <2>4, Zenon DEF Parts, Particle
  <1>3. ForcesFromMesh
    <2> SUFFICES ASSUME MeshAt("returned"), NEW p \in Particle
                 PROVE  /\ \/ Mesh = "high" /\ p \notin HighRes
                           \/ BagIn(Demanded(p), GravPM[p])
                        /\ {r.mesh : r \in BagToSet(GravPM[p])} =
                             {m \in build : m # "high" \/ (Mesh = "high" /\ p \in HighRes)}
                        /\ \A r \in BagToSet(GravPM[p]) :
                             /\ GravPM[p][r] = 1
                             /\ \A q \in BagToSet(GravPM[p]) : q.mesh = r.mesh => q = r
      BY Zenon DEF ForcesFromMesh, Demanded
    <2>1. PICK t \in Task : p \in Hold[t]
      BY DEF Particle
    <2>2. mpc[t] = "returned"
      BY DEF MeshAt
    <2>3. ReadingsOf(t)
      BY <1>1, <2>2, Stages DEF MeshIInv
    <2>4. /\ Mesh \in {"box", "coarse", "high"} /\ Mesh \in build
          /\ Mesh # "high" => build = {Mesh} \/ build = {Mesh, "high"}
      BY <1>1, Meshes
    <2>5. CASE ReadHere(p)
      <3>1. OnceEach(GravPM[p], Before \cup {Mesh}) /\ Demanded(p) \in DOMAIN GravPM[p]
        BY <2>1, <2>2, <2>3, <2>5 DEF ReadingsOf, Once
      <3>2. Before \cup {Mesh} = {m \in build : m # "high" \/ (Mesh = "high" /\ p \in HighRes)}
        BY <2>4, <2>5 DEF Before, ReadHere
      <3>3. \A r \in DOMAIN GravPM[p] : GravPM[p][r] = 1
        BY <3>1 DEF OnceEach, SetToBag
      <3> QED BY <3>1, <3>2, <3>3, Zenon DEF OnceEach, BagIn, BagToSet
    <2>6. CASE ~ReadHere(p)
      <3>1. OnceEach(GravPM[p], Before)
        BY <2>1, <2>2, <2>3, <2>6 DEF ReadingsOf, Once
      <3>2. Before = {m \in build : m # "high" \/ (Mesh = "high" /\ p \in HighRes)}
        BY <2>4, <2>6 DEF Before, ReadHere
      <3>3. \A r \in DOMAIN GravPM[p] : GravPM[p][r] = 1
        BY <3>1 DEF OnceEach, SetToBag
      <3>4. Mesh = "high" /\ p \notin HighRes
        BY <2>6 DEF ReadHere
      <3> QED BY <3>1, <3>2, <3>3, <3>4, Zenon DEF OnceEach, BagIn, BagToSet
    <2> QED BY <2>5, <2>6
  <1>4. KernelFits
    <2> SUFFICES ASSUME MeshAt("potential"), ~(OwnPotential /\ tries = "again") PROVE kernel = region
      BY DEF KernelFits
    <2>1. ~MeshAt("over") /\ ~MeshAt("endrun")
      BY SomeTask DEF MeshAt
    <2> QED BY <2>1 DEF MeshIInv, KernelRight
  <1> QED BY <1>2, <1>3, <1>4 DEF MeshExact

(* The mesh gets every particle of every task once, each particle reads    *)
(* from it what its place demands, and the kernel is that of the regions,  *)
(* for every number of tasks, every cut into slabs and every mesh.         *)
THEOREM MeshAlwaysExact == MeshSpec => []MeshExact
  <1>1. MeshSpec => []MeshIInv
    BY MeshStarts, MeshGoesOn, PTL DEF MeshSpec
  <1> QED BY <1>1, MeshIsExact, PTL
===============================================================================
