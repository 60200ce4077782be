-------------------------- MODULE DensityExportProofs --------------------------
(***************************************************************************)
(* Proofs about DensityExport, for any number of tasks and particles, any  *)
(* buffer of more than NTask particles, and any pairing of the tasks.      *)
(*                                                                         *)
(* The argument for the buffers: the filling loop stops NTask copies       *)
(* early, so no list is as long as a buffer; what is counted in nbuffer is *)
(* what was received, and a group of pairs is only begun if every buffer   *)
(* has room for it; the first group of a level finds the buffers empty.    *)
(*                                                                         *)
(* For the results: both passes over the groups of a level stop at the     *)
(* same group, because the same counts are added up; so a result is taken  *)
(* from where the particle was put.  What a particle lacks is what the     *)
(* tasks in the groups ahead have been sent, and each task is in one.      *)
(***************************************************************************)
EXTENDS DensityExport, FiniteSetTheorems, TLAPS

Copy == [from : Task, index : Nat]

Typed ==
  /\ pc \in [Task -> Place]
  /\ next \in [Task -> Nat]
  /\ DensDataIn \in [Task -> [Task -> Seq(Nat)]]
  /\ nexport \in [Task -> Nat]
  /\ level \in [Task -> 1 .. Groups] /\ ngrp \in [Task -> 1 .. Groups]
  /\ nbuffer \in [Task -> [Task -> Nat]]
  /\ DensDataGet \in [Task -> Seq(Copy)]

(* Before the last particle there was room for NTask copies.               *)
ListsFit ==
  \A t \in Task : /\ nexport[t] < BunchSizeDensity
                  /\ \A u \in Task : nsend(t, u) <= nexport[t]

Counted ==
  \A t \in Task :
    /\ Len(DensDataGet[t]) < BunchSizeDensity
    /\ pc[t] = "send" => Len(DensDataGet[t]) = nbuffer[t][t]
    /\ pc[t] # "send" => DensDataGet[t] = <<>>

LevelBegins ==
  \A t \in Task :
    /\ level[t] <= ngrp[t]
    /\ pc[t] \in {"send", "return"} /\ ngrp[t] = level[t] => nbuffer[t] = EveryTask(0)

IInv == Typed /\ ListsFit /\ Counted /\ LevelBegins

LEMMA Constants ==
  /\ NTask \in Nat \ {0} /\ BunchSizeDensity \in Nat /\ BunchSizeDensity > NTask
  /\ Groups \in Nat \ {0}
  /\ \A t \in Task : N_gas[t] \in Nat
  BY SizesAssumption, XorAssumption

(* A particle goes to fewer tasks than there are.                          *)
LEMMA FewCopies ==
  ASSUME NEW t \in Task, NEW i \in Gas(t), NEW S \in Reach[t][i]
  PROVE  /\ Cardinality(S) \in Nat /\ Cardinality(S) < NTask
         /\ \A u \in S : Cardinality(S) >= 1
  <1>1. S \subseteq Task \ {t}
    BY SizesAssumption
  <1>2. IsFiniteSet(Task) /\ Cardinality(Task) = NTask
    <2>1. 0 \in Int /\ NTask - 1 \in Int /\ 0 <= NTask - 1
      BY Constants
    <2>2. IsFiniteSet(0 .. NTask - 1) /\ Cardinality(0 .. NTask - 1) = (NTask - 1) - 0 + 1
      BY <2>1, FS_Interval
    <2> QED BY <2>2, Constants DEF Task
  <1>3. IsFiniteSet(Task \ {t}) /\ Cardinality(Task \ {t}) = NTask - 1
    BY <1>2, FS_RemoveElement
  <1>4. IsFiniteSet(S) /\ Cardinality(S) <= NTask - 1
    BY <1>1, <1>3, FS_Subset
  <1>5. Cardinality(S) \in Nat
    BY <1>4, FS_CardinalityType
  <1>6. S # {} => Cardinality(S) # 0
    BY <1>4, FS_EmptySet
  <1> QED BY <1>4, <1>5, <1>6, Constants

LEMMA InitIInv == Init => IInv
  <1> SUFFICES ASSUME Init PROVE IInv
    OBVIOUS
  <1>1. Typed
    <2>1. <<>> \in Seq(Nat) /\ <<>> \in Seq(Copy)
      OBVIOUS
    <2> QED BY <2>1, Constants DEF Init, Typed, EveryTask, Empty, Place
  <1>2. ListsFit
    <2>1. \A t, u \in Task : nsend(t, u) = 0
      BY DEF Init, nsend, Empty, EveryTask
    <2> QED BY <2>1, Constants DEF Init, ListsFit, EveryTask
  <1>3. Counted
    BY Constants DEF Init, Counted, EveryTask
  <1>4. LevelBegins
    BY DEF Init, LevelBegins, EveryTask
  <1> QED BY <1>1, <1>2, <1>3, <1>4 DEF IInv
-------------------------------------------------------------------------------
LEMMA FillIInv ==
  ASSUME IInv, NEW t \in Task, Fill(t)
  PROVE  IInv'
  <1>1. /\ pc' = pc /\ level' = level /\ ngrp' = ngrp /\ nbuffer' = nbuffer
        /\ DensDataGet' = DensDataGet
        /\ next' = [next EXCEPT ![t] = @ + 1]
    BY DEF Fill, groups, buffers
  <1>2. Counted' /\ LevelBegins'
    BY <1>1 DEF IInv, Counted, LevelBegins
  <1>3. CASE ~Active(t, next[t])
    <2>1. DensDataIn' = DensDataIn /\ nexport' = nexport
      BY <1>3 DEF Fill, export
    <2>2. Typed'
      BY <1>1, <2>1 DEF IInv, Typed
    <2>3. ListsFit'
      BY <2>1 DEF IInv, ListsFit, nsend
    <2> QED BY <1>2, <2>2, <2>3 DEF IInv
  <1>4. CASE Active(t, next[t])
    <2> DEFINE i == next[t]
    <2>1. i \in Gas(t) /\ i \in Nat
      BY Constants DEF IInv, Typed, Fill, Gas
    <2>2. PICK S \in Reach[t][i] :
            /\ DensDataIn' = [DensDataIn EXCEPT ![t] =
                  [u \in Task |-> IF u \in S THEN Append(@[u], i) ELSE @[u]]]
            /\ nexport' = [nexport EXCEPT ![t] = @ + Cardinality(S)]
      BY <1>4 DEF Fill, Evaluate
    <2>3. /\ Cardinality(S) \in Nat /\ Cardinality(S) < NTask
          /\ \A u \in S : Cardinality(S) >= 1
      BY <2>1, FewCopies
    <2> HIDE DEF i
    <2>4. /\ \A a, u \in Task : DensDataIn'[a][u] =
                IF a = t /\ u \in S THEN Append(DensDataIn[t][u], i) ELSE DensDataIn[a][u]
          /\ \A a \in Task : nexport'[a] =
                IF a = t THEN nexport[t] + Cardinality(S) ELSE nexport[a]
      BY <2>2 DEF IInv, Typed
    <2>5. \A u \in Task : Append(DensDataIn[t][u], i) \in Seq(Nat)
                          /\ Len(Append(DensDataIn[t][u], i)) = nsend(t, u) + 1
                          /\ nsend(t, u) \in Nat
      BY <2>1 DEF IInv, Typed, nsend
    <2>6. DensDataIn' \in [Task -> [Task -> Seq(Nat)]]
      <3>1. [u \in Task |-> IF u \in S THEN Append(DensDataIn[t][u], i) ELSE DensDataIn[t][u]]
               \in [Task -> Seq(Nat)]
        BY <2>5 DEF IInv, Typed
      <3> QED BY <2>2, <3>1 DEF IInv, Typed
    <2>7. Typed'
      <3>1. nexport' \in [Task -> Nat]
        BY <2>2, <2>3 DEF IInv, Typed
      <3>2. next' \in [Task -> Nat]
        BY <1>1 DEF IInv, Typed
      <3> QED BY <1>1, <2>6, <3>1, <3>2 DEF IInv, Typed
    <2>8. ListsFit'
      <3>1. \A a \in Task : nexport'[a] < BunchSizeDensity
        <4>1. nexport[t] < BunchSizeDensity - NTask /\ nexport[t] \in Nat
          BY DEF Fill, HasRoom, IInv, Typed
        <4>2. nexport[t] + Cardinality(S) < BunchSizeDensity
          BY <2>3, <4>1, Constants
        <4> QED BY <2>4, <4>2 DEF IInv, ListsFit
      <3>2. \A a, u \in Task : nsend(a, u)' <= nexport'[a]
        <4> SUFFICES ASSUME NEW a \in Task, NEW u \in Task PROVE nsend(a, u)' <= nexport'[a]
          OBVIOUS
        <4>1. nsend(a, u) <= nexport[a] /\ nexport[a] \in Nat /\ nsend(t, u) \in Nat
          BY <2>5 DEF IInv, ListsFit, Typed
        <4>2. CASE a = t /\ u \in S
          <5>1. nsend(a, u)' = nsend(t, u) + 1
            BY <2>4, <2>5, <4>2 DEF nsend
          <5> QED BY <2>3, <2>4, <4>1, <4>2, <5>1
        <4>3. CASE ~(a = t /\ u \in S)
          <5>1. nsend(a, u)' = nsend(a, u)
            BY <2>4, <4>3 DEF nsend
          <5>2. nexport'[a] >= nexport[a]
            BY <2>3, <2>4, <4>1
          <5>3. nsend(a, u) \in Nat
            BY DEF nsend, IInv, Typed
          <5>4. nexport'[a] \in Nat
            BY <2>7 DEF Typed
          <5> QED BY <4>1, <5>1, <5>2, <5>3, <5>4
        <4> QED BY <4>2, <4>3
      <3> QED BY <3>1, <3>2 DEF ListsFit
    <2> QED BY <1>2, <2>7, <2>8 DEF IInv
  <1> QED BY <1>3, <1>4

(* Steps that leave the buffers and the groups of pairs alone.             *)
LEMMA ElsewhereIInv ==
  ASSUME IInv, NEW t \in Task,
         pc[t] \notin {"send", "return"}, NEW place \in Place \ {"send", "return"},
         Goto(t, place),
         next' \in [Task -> Nat], UNCHANGED <<export, groups, buffers>>
  PROVE  IInv'
  <1>1. /\ pc' = [pc EXCEPT ![t] = place] /\ pc' \in [Task -> Place]
        /\ \A a \in Task : pc'[a] = pc[a] \/ (pc'[a] = place /\ pc[a] = pc[t])
    BY DEF IInv, Typed, Goto
  <1>2. Typed'
    BY <1>1 DEF IInv, Typed, export, groups, buffers
  <1>3. ListsFit'
    BY DEF IInv, ListsFit, nsend, export
  <1>4. Counted'
    BY <1>1 DEF IInv, Counted, groups, buffers
  <1>5. LevelBegins'
    BY <1>1 DEF IInv, LevelBegins, groups, EveryTask
  <1> QED BY <1>2, <1>3, <1>4, <1>5 DEF IInv

LEMMA FillEndsIInv == ASSUME IInv, NEW t \in Task, FillEnds(t) PROVE IInv'
  <1>1. next' \in [Task -> Nat]
    BY DEF IInv, Typed, FillEnds, particles
  <1>2. "counts" \in Place \ {"send", "return"}
    BY DEF Place
  <1> QED BY <1>1, <1>2, ElsewhereIInv DEF FillEnds

LEMMA DecideIInv == ASSUME IInv, NEW t \in Task, Decide(t) PROVE IInv'
  <1>1. next' \in [Task -> Nat]
    BY DEF IInv, Typed, Decide
  <1>2. "left" \in Place \ {"send", "return"}
    BY DEF Place
  <1> QED BY <1>1, <1>2, ElsewhereIInv DEF Decide

LEMMA RestoreIInv == ASSUME IInv, NEW t \in Task, Restore(t) PROVE IInv'
  <1>1. next' \in [Task -> Nat]
    BY DEF IInv, Typed, Restore
  <1>2. "done" \in Place \ {"send", "return"}
    BY DEF Place
  <1> QED BY <1>1, <1>2, ElsewhereIInv DEF Restore

LEMMA GatherCountsIInv == ASSUME IInv, GatherCounts PROVE IInv'
  <1>1. /\ \A t \in Task : pc[t] = "counts"
        /\ \A t \in Task : DensDataGet[t] = <<>>
    BY DEF GatherCounts, AllAt, IInv, Counted
  <1>2. Typed'
    <2>1. 1 \in 1 .. Groups
      BY Constants
    <2> QED BY <2>1 DEF IInv, Typed, GatherCounts, EveryTask, Place, particles, export, buffers
  <1>3. ListsFit'
    BY DEF IInv, ListsFit, nsend, GatherCounts, export
  <1>4. Counted'
    BY <1>1, Constants DEF Counted, GatherCounts, EveryTask, buffers
  <1>5. LevelBegins'
    BY DEF LevelBegins, GatherCounts, EveryTask
  <1> QED BY <1>2, <1>3, <1>4, <1>5 DEF IInv

LEMMA BarrierIInv == ASSUME IInv, Barrier PROVE IInv'
  <1>1. \A t \in Task : DensDataGet[t] = <<>>
    BY DEF Barrier, AllAt, IInv, Counted
  <1>2. Typed'
    BY DEF IInv, Typed, Barrier, EveryTask, Place, particles, export, buffers
  <1>3. ListsFit'
    BY DEF IInv, ListsFit, nsend, Barrier, export
  <1>4. Counted'
    BY <1>1, Constants DEF Counted, Barrier, EveryTask, buffers
  <1>5. LevelBegins'
    <2>1. level \in [Task -> Int]
      BY Constants DEF IInv, Typed
    <2> QED BY <2>1 DEF LevelBegins, Barrier, EveryTask
  <1> QED BY <1>2, <1>3, <1>4, <1>5 DEF IInv

LEMMA RoundEndsIInv == ASSUME IInv, RoundEnds PROVE IInv'
  <1>1. \A t \in Task : DensDataGet[t] = <<>> /\ pc'[t] \notin {"send", "return"}
    BY DEF RoundEnds, AllAt, IInv, Counted, EveryTask
  <1>2. Typed'
    <2>1. DensDataIn' \in [Task -> [Task -> Seq(Nat)]]
      BY DEF RoundEnds, Empty, EveryTask
    <2>2. nexport' \in [Task -> Nat] /\ pc' \in [Task -> Place]
      BY DEF RoundEnds, EveryTask, Place
    <2> QED BY <2>1, <2>2 DEF IInv, Typed, RoundEnds, particles, groups, buffers
  <1>3. ListsFit'
    <2>1. \A t, u \in Task : nsend(t, u)' = 0
      BY DEF RoundEnds, nsend, Empty, EveryTask
    <2> QED BY <2>1, Constants DEF ListsFit, RoundEnds, EveryTask
  <1>4. Counted'
    BY <1>1, Constants DEF Counted, RoundEnds, buffers
  <1>5. LevelBegins'
    BY <1>1 DEF IInv, LevelBegins, RoundEnds, groups
  <1> QED BY <1>2, <1>3, <1>4, <1>5 DEF IInv

LEMMA GatherLeftIInv == ASSUME IInv, GatherLeft PROVE IInv'
  <1>1. \A t \in Task : DensDataGet[t] = <<>> /\ pc'[t] \notin {"send", "return"}
    BY DEF GatherLeft, AllAt, IInv, Counted, EveryTask
  <1>2. Typed'
    <2>1. next' \in [Task -> Nat] /\ pc' \in [Task -> Place]
      BY DEF GatherLeft, EveryTask, Place
    <2> QED BY <2>1 DEF IInv, Typed, GatherLeft, export, groups, buffers
  <1>3. ListsFit'
    BY DEF IInv, ListsFit, nsend, GatherLeft, export
  <1>4. Counted'
    BY <1>1, Constants DEF Counted, GatherLeft, buffers
  <1>5. LevelBegins'
    BY <1>1 DEF IInv, LevelBegins, GatherLeft, groups
  <1> QED BY <1>2, <1>3, <1>4, <1>5 DEF IInv
-------------------------------------------------------------------------------
LEMMA IncomingNat ==
  ASSUME IInv, NEW j \in Task, NEW n \in 1 .. Groups - 1
  PROVE  Incoming(j, n) \in Nat
  <1>1. PairedBy[<<j, n>>] \in Nat
    BY XorAssumption
  <1>2. PairedBy[<<j, n>>] < NTask => PairedBy[<<j, n>>] \in Task
    BY <1>1, Constants DEF Task
  <1> QED BY <1>2 DEF Incoming, nsend, IInv, Typed

(* The next group of pairs leaves every receive buffer with room.          *)
LEMMA GroupFits ==
  ASSUME IInv, NEW t \in Task, ~LevelOver(t)
  PROVE  /\ ngrp[t] \in 1 .. Groups - 1
         /\ \A j \in Task : /\ nbuffer[t][j] + Incoming(j, ngrp[t]) \in Nat
                            /\ PairedBy[<<j, ngrp[t]>>] < NTask =>
                                 nbuffer[t][j] + Incoming(j, ngrp[t]) < BunchSizeDensity
  <1>1. ngrp[t] \in 1 .. Groups - 1
    BY Constants DEF LevelOver, IInv, Typed
  <1>2. \A j \in Task : Incoming(j, ngrp[t]) \in Nat /\ nbuffer[t][j] \in Nat
    BY <1>1, IncomingNat DEF IInv, Typed
  <1>3. \A j \in Task : PairedBy[<<j, ngrp[t]>>] < NTask =>
                         ~(nbuffer[t][j] + Incoming(j, ngrp[t]) >= BunchSizeDensity)
    BY DEF LevelOver, LevelFull
  <1> QED BY <1>1, <1>2, <1>3, Constants

(* What counting does to the books of the groups.                          *)
LEMMA CountKeeps ==
  ASSUME IInv, NEW T \in SUBSET Task, Count(T), \A t \in T : ~LevelOver(t)
  PROVE  /\ pc' = pc /\ level' = level
         /\ ngrp' \in [Task -> 1 .. Groups] /\ nbuffer' \in [Task -> [Task -> Nat]]
         /\ \A t \in T : nbuffer'[t][t] = nbuffer[t][t] + Incoming(t, ngrp[t])
         /\ \A t \in Task \ T : nbuffer'[t] = nbuffer[t]
         /\ LevelBegins'
  <1>1. /\ pc' = pc /\ level' = level
        /\ \A t \in Task : ngrp'[t] = IF t \in T THEN ngrp[t] + 1 ELSE ngrp[t]
        /\ \A t \in Task : nbuffer'[t] =
             IF t \in T THEN [j \in Task |-> nbuffer[t][j] + Incoming(j, ngrp[t])] ELSE nbuffer[t]
    BY DEF Count
  <1>2. \A t \in T : ngrp[t] \in 1 .. Groups - 1
    BY GroupFits
  <1>3. \A t \in T : [j \in Task |-> nbuffer[t][j] + Incoming(j, ngrp[t])] \in [Task -> Nat]
    BY GroupFits
  <1>4. \A t \in Task : ngrp[t] \in 1 .. Groups /\ level[t] \in 1 .. Groups
    BY DEF IInv, Typed
  <1>5. \A t \in Task : ngrp'[t] \in 1 .. Groups
    BY <1>1, <1>2, <1>4, Constants
  <1>6. ngrp' \in [Task -> 1 .. Groups]
    BY <1>5 DEF Count
  <1>7. nbuffer' \in [Task -> [Task -> Nat]]
    <2>1. \A t \in Task : nbuffer'[t] \in [Task -> Nat]
      BY <1>1, <1>3 DEF IInv, Typed
    <2>2. nbuffer' = [t \in Task |-> nbuffer'[t]]
      BY DEF Count
    <2> QED BY <2>1, <2>2
  <1>8. LevelBegins'
    <2> SUFFICES ASSUME NEW t \in Task
                 PROVE  /\ level'[t] <= ngrp'[t]
                        /\ pc'[t] \in {"send", "return"} /\ ngrp'[t] = level'[t] =>
                             nbuffer'[t] = EveryTask(0)
      BY DEF LevelBegins, EveryTask
    <2>1. level[t] <= ngrp[t]
      BY DEF IInv, LevelBegins
    <2>2. CASE t \in T
      BY <1>1, <1>4, <2>1, <2>2
    <2>3. CASE t \notin T
      BY <1>1, <2>3 DEF IInv, LevelBegins
    <2> QED BY <2>2, <2>3
  <1> QED BY <1>1, <1>6, <1>7, <1>8

LEMMA SkipIInv == ASSUME IInv, NEW t \in Task, Skip(t) PROVE IInv'
  <1>1. Count({t}) /\ ~LevelOver(t) /\ NothingToSend(t)
    BY DEF Skip
  <1>2. /\ pc' = pc /\ level' = level
        /\ ngrp' \in [Task -> 1 .. Groups] /\ nbuffer' \in [Task -> [Task -> Nat]]
        /\ nbuffer'[t][t] = nbuffer[t][t] + Incoming(t, ngrp[t])
        /\ \A a \in Task \ {t} : nbuffer'[a] = nbuffer[a]
        /\ LevelBegins'
    BY <1>1, CountKeeps
  <1>3. Incoming(t, ngrp[t]) = 0
    BY <1>1 DEF Incoming, NothingToSend, Partner
  <1>4. Typed'
    BY <1>2 DEF IInv, Typed, Skip, particles, export, buffers
  <1>5. ListsFit'
    BY DEF IInv, ListsFit, nsend, Skip, export
  <1>6. Counted'
    <2>1. \A a \in Task : nbuffer'[a][a] = nbuffer[a][a]
      <3>1. nbuffer[t][t] \in Nat
        BY DEF IInv, Typed
      <3>2. nbuffer'[t][t] = nbuffer[t][t]
        BY <1>2, <1>3, <3>1
      <3> QED BY <1>2, <3>2
    <2> QED BY <1>2, <2>1 DEF IInv, Counted, Skip, buffers
  <1> QED BY <1>2, <1>4, <1>5, <1>6 DEF IInv

LEMMA Joined ==
  ASSUME NEW S, NEW a \in Seq(S), NEW b \in Seq(S)
  PROVE  a \o b \in Seq(S) /\ Len(a \o b) = Len(a) + Len(b)
  OBVIOUS

(* What one of two tasks receives in a meeting.                            *)
LEMMA ReceivedFits ==
  ASSUME IInv, NEW t \in Task, NEW u \in Task, pc[t] = "send", ~LevelOver(t), Partner(t) = u
  PROVE  /\ DensDataGet[t] \o Received(t, u) \in Seq(Copy)
         /\ Len(DensDataGet[t] \o Received(t, u)) = nbuffer[t][t] + Incoming(t, ngrp[t])
         /\ Len(DensDataGet[t] \o Received(t, u)) < BunchSizeDensity
  <1>1. u < NTask
    BY Constants DEF Task
  <1>2. Incoming(t, ngrp[t]) = nsend(u, t)
    BY <1>1 DEF Incoming, Partner
  <1>3. DensDataIn[u][t] \in Seq(Nat) /\ DensDataGet[t] \in Seq(Copy)
    BY DEF IInv, Typed
  <1>4. nsend(u, t) \in Nat
    BY <1>3 DEF nsend
  <1>5. \A x \in 1 .. nsend(u, t) : [from |-> u, index |-> DensDataIn[u][t][x]] \in Copy
    BY <1>3 DEF nsend, Copy
  <1>6. Received(t, u) \in Seq(Copy) /\ Len(Received(t, u)) = nsend(u, t)
    BY <1>4, <1>5 DEF Received
  <1>7. Len(DensDataGet[t]) = nbuffer[t][t]
    BY DEF IInv, Counted
  <1>8. nbuffer[t][t] + Incoming(t, ngrp[t]) < BunchSizeDensity
    BY <1>1, GroupFits DEF Partner
  <1> HIDE DEF Received
  <1>9. /\ DensDataGet[t] \o Received(t, u) \in Seq(Copy)
        /\ Len(DensDataGet[t] \o Received(t, u)) = Len(DensDataGet[t]) + Len(Received(t, u))
    BY <1>3, <1>6, Joined
  <1> QED BY <1>2, <1>6, <1>7, <1>8, <1>9

LEMMA SendIInv ==
  ASSUME IInv, NEW t \in Task, NEW u \in Task, Send(t, u)
  PROVE  IInv'
  <1>1. /\ t # u /\ pc[t] = "send" /\ pc[u] = "send"
        /\ ~LevelOver(t) /\ ~LevelOver(u) /\ Partner(t) = u /\ Partner(u) = t
        /\ Count({t, u})
        /\ DensDataGet' = [DensDataGet EXCEPT ![t] = @ \o Received(t, u), ![u] = @ \o Received(u, t)]
    BY DEF Send, Meet, Task
  <1>2. /\ pc' = pc /\ level' = level
        /\ ngrp' \in [Task -> 1 .. Groups] /\ nbuffer' \in [Task -> [Task -> Nat]]
        /\ nbuffer'[t][t] = nbuffer[t][t] + Incoming(t, ngrp[t])
        /\ nbuffer'[u][u] = nbuffer[u][u] + Incoming(u, ngrp[u])
        /\ \A a \in Task \ {t, u} : nbuffer'[a] = nbuffer[a]
        /\ LevelBegins'
    BY <1>1, CountKeeps
  <1>3. /\ DensDataGet[t] \o Received(t, u) \in Seq(Copy)
        /\ Len(DensDataGet[t] \o Received(t, u)) = nbuffer'[t][t]
        /\ Len(DensDataGet[t] \o Received(t, u)) < BunchSizeDensity
        /\ DensDataGet[u] \o Received(u, t) \in Seq(Copy)
        /\ Len(DensDataGet[u] \o Received(u, t)) = nbuffer'[u][u]
        /\ Len(DensDataGet[u] \o Received(u, t)) < BunchSizeDensity
    BY <1>1, <1>2, ReceivedFits
  <1>4. /\ DensDataGet' \in [Task -> Seq(Copy)]
        /\ DensDataGet'[t] = DensDataGet[t] \o Received(t, u)
        /\ DensDataGet'[u] = DensDataGet[u] \o Received(u, t)
        /\ \A a \in Task \ {t, u} : DensDataGet'[a] = DensDataGet[a]
    <2>1. DensDataGet \in [Task -> Seq(Copy)]
      BY DEF IInv, Typed
    <2> DEFINE x == DensDataGet[t] \o Received(t, u)
               y == DensDataGet[u] \o Received(u, t)
    <2>2. DensDataGet' = [DensDataGet EXCEPT ![t] = x, ![u] = y]
      BY <1>1, <2>1
    <2>3. x \in Seq(Copy) /\ y \in Seq(Copy)
      BY <1>3
    <2> HIDE DEF x, y
    <2>4. /\ DensDataGet' \in [Task -> Seq(Copy)]
          /\ DensDataGet'[t] = x /\ DensDataGet'[u] = y
          /\ \A a \in Task \ {t, u} : DensDataGet'[a] = DensDataGet[a]
      BY <1>1, <2>1, <2>2, <2>3
    <2> QED BY <2>4 DEF x, y
  <1>5. Typed'
    BY <1>2, <1>4 DEF IInv, Typed, Send, particles, export
  <1>6. ListsFit'
    BY DEF IInv, ListsFit, nsend, Send, export
  <1>7. Counted'
    <2> SUFFICES ASSUME NEW a \in Task
                 PROVE  /\ Len(DensDataGet'[a]) < BunchSizeDensity
                        /\ pc'[a] = "send" => Len(DensDataGet'[a]) = nbuffer'[a][a]
                        /\ pc'[a] # "send" => DensDataGet'[a] = <<>>
      BY DEF Counted
    <2>1. CASE a \in {t, u}
      BY <1>1, <1>2, <1>3, <1>4, <2>1
    <2>2. CASE a \notin {t, u}
      BY <1>2, <1>4, <2>2 DEF IInv, Counted
    <2> QED BY <2>1, <2>2
  <1> QED BY <1>2, <1>5, <1>6, <1>7 DEF IInv

LEMMA ReturnIInv ==
  ASSUME IInv, NEW t \in Task, NEW u \in Task, Return(t, u)
  PROVE  IInv'
  <1>1. /\ pc[t] = "return" /\ pc[u] = "return"
        /\ ~LevelOver(t) /\ ~LevelOver(u) /\ Count({t, u})
    BY DEF Return, Meet
  <1>2. /\ pc' = pc /\ level' = level
        /\ ngrp' \in [Task -> 1 .. Groups] /\ nbuffer' \in [Task -> [Task -> Nat]]
        /\ \A a \in Task \ {t, u} : nbuffer'[a] = nbuffer[a]
        /\ LevelBegins'
    BY <1>1, CountKeeps
  <1>3. Typed'
    BY <1>2 DEF IInv, Typed, Return, particles, export, buffers
  <1>4. ListsFit'
    BY DEF IInv, ListsFit, nsend, Return, export
  <1>5. Counted'
    BY <1>1, <1>2 DEF IInv, Counted, Return, buffers
  <1> QED BY <1>2, <1>3, <1>4, <1>5 DEF IInv

LEMMA EvaluateReceivedIInv ==
  ASSUME IInv, NEW t \in Task, EvaluateReceived(t)
  PROVE  IInv'
  <1>1. /\ \A a \in Task : pc'[a] = IF a = t THEN "barrier" ELSE pc[a]
        /\ \A a \in Task : DensDataGet'[a] = IF a = t THEN <<>> ELSE DensDataGet[a]
    BY DEF EvaluateReceived, Goto, IInv, Typed
  <1>2. Typed'
    <2>1. DensDataGet' \in [Task -> Seq(Copy)]
      BY DEF EvaluateReceived, IInv, Typed
    <2>2. pc' \in [Task -> Place]
      BY DEF EvaluateReceived, Goto, IInv, Typed, Place
    <2> QED BY <2>1, <2>2 DEF IInv, Typed, EvaluateReceived, particles, export, groups
  <1>3. ListsFit'
    BY DEF IInv, ListsFit, nsend, EvaluateReceived, export
  <1>4. Counted'
    BY <1>1, Constants DEF IInv, Counted, EvaluateReceived, groups
  <1>5. LevelBegins'
    BY <1>1 DEF IInv, LevelBegins, EvaluateReceived, groups, EveryTask
  <1> QED BY <1>2, <1>3, <1>4, <1>5 DEF IInv

LEMMA LevelEndsIInv ==
  ASSUME IInv, NEW t \in Task, LevelEnds(t)
  PROVE  IInv'
  <1>1. /\ pc' \in [Task -> Place]
        /\ pc[t] = "return" /\ pc'[t] \in {"send", "round"}
        /\ \A a \in Task \ {t} : pc'[a] = pc[a] /\ level'[a] = level[a] /\ nbuffer'[a] = nbuffer[a]
        /\ level'[t] = ngrp[t] /\ nbuffer'[t] = EveryTask(0)
        /\ DensDataGet' = DensDataGet /\ ngrp' = ngrp
    BY DEF LevelEnds, Goto, IInv, Typed, Place
  <1>2. Typed'
    <2>1. level' \in [Task -> 1 .. Groups] /\ nbuffer' \in [Task -> [Task -> Nat]]
      BY DEF LevelEnds, IInv, Typed, EveryTask
    <2> QED BY <1>1, <2>1 DEF IInv, Typed, LevelEnds, particles, export
  <1>3. ListsFit'
    BY DEF IInv, ListsFit, nsend, LevelEnds, export
  <1>4. DensDataGet[t] = <<>> /\ nbuffer'[t][t] = 0
    BY <1>1 DEF IInv, Counted, EveryTask
  <1>5. Counted'
    BY <1>1, <1>4, Constants DEF IInv, Counted
  <1>6. LevelBegins'
    <2>1. ngrp[t] \in Int
      BY Constants DEF IInv, Typed
    <2> QED BY <1>1, <2>1 DEF IInv, LevelBegins, EveryTask
  <1> QED BY <1>2, <1>3, <1>5, <1>6 DEF IInv

LEMMA NextIInv == IInv /\ [Next]_vars => IInv'
  <1> SUFFICES ASSUME IInv, [Next]_vars PROVE IInv'
    OBVIOUS
  <1>1. CASE GatherCounts \/ Barrier \/ RoundEnds \/ GatherLeft
    BY <1>1, GatherCountsIInv, BarrierIInv, RoundEndsIInv, GatherLeftIInv
  <1>2. ASSUME NEW t \in Task, Fill(t) \/ FillEnds(t) \/ Decide(t) \/ Restore(t)
        PROVE  IInv'
    BY <1>2, FillIInv, FillEndsIInv, DecideIInv, RestoreIInv
  <1>3. ASSUME NEW t \in Task, Skip(t) \/ EvaluateReceived(t) \/ LevelEnds(t)
        PROVE  IInv'
    BY <1>3, SkipIInv, EvaluateReceivedIInv, LevelEndsIInv
  <1>4. ASSUME NEW t \in Task, NEW u \in Task, Send(t, u) \/ Return(t, u)
        PROVE  IInv'
    BY <1>4, SendIInv, ReturnIInv
  <1>5. CASE UNCHANGED vars
    BY <1>5 DEF vars, particles, export, groups, buffers, IInv, Typed, ListsFit, Counted,
                LevelBegins, nsend, EveryTask
  <1> QED BY <1>1, <1>2, <1>3, <1>4, <1>5 DEF Next

LEMMA AlwaysIInv == Spec => []IInv
  BY InitIInv, NextIInv, PTL DEF Spec
-------------------------------------------------------------------------------
(* The export list and the receive buffer always fit their arrays, however *)
(* many tasks a particle touches and in whatever order the tasks meet.     *)
THEOREM BuffersNeverOverflow == Spec => []BuffersHold
  <1>1. IInv => BuffersHold
    <2> SUFFICES ASSUME IInv, NEW t \in Task
                 PROVE  /\ nexport[t] <= BunchSizeDensity
                        /\ Len(DensDataGet[t]) <= BunchSizeDensity
                        /\ pc[t] = "send" => Len(DensDataGet[t]) = nbuffer[t][t]
      BY DEF BuffersHold
    <2>1. nexport[t] \in Nat /\ Len(DensDataGet[t]) \in Nat
      BY DEF IInv, Typed
    <2> QED BY <2>1, Constants DEF IInv, ListsFit, Counted
  <1> QED BY <1>1, AlwaysIInv, PTL

(* The first group of pairs of a level always fits, so that every level    *)
(* goes on: the loop over the levels cannot stay where it is.              *)
FirstGroupFits ==
  \A t \in Task :
    pc[t] \in {"send", "return"} /\ ngrp[t] = level[t] /\ ngrp[t] < Groups => ~LevelOver(t)

THEOREM LevelsAdvance == Spec => []FirstGroupFits
  <1>1. IInv => FirstGroupFits
    <2> SUFFICES ASSUME IInv, NEW t \in Task,
                        pc[t] \in {"send", "return"}, ngrp[t] = level[t], ngrp[t] < Groups
                 PROVE  ~LevelOver(t)
      BY DEF FirstGroupFits
    <2>1. nbuffer[t] = EveryTask(0) /\ ngrp[t] \in 1 .. Groups - 1
      BY Constants DEF IInv, LevelBegins, Typed
    <2>2. ASSUME NEW j \in Task, PairedBy[<<j, ngrp[t]>>] < NTask
          PROVE  ~(nbuffer[t][j] + Incoming(j, ngrp[t]) >= BunchSizeDensity)
      <3>1. PairedBy[<<j, ngrp[t]>>] \in Nat
        BY <2>1, XorAssumption
      <3>2. PairedBy[<<j, ngrp[t]>>] \in Task
        BY <2>2, <3>1, Constants DEF Task
      <3>3. Incoming(j, ngrp[t]) = nsend(PairedBy[<<j, ngrp[t]>>], j)
        BY <2>2 DEF Incoming
      <3>4. Incoming(j, ngrp[t]) < BunchSizeDensity /\ Incoming(j, ngrp[t]) \in Nat
        <4> DEFINE a == PairedBy[<<j, ngrp[t]>>]
        <4>1. nsend(a, j) \in Nat /\ nexport[a] \in Nat
          BY <3>2 DEF IInv, Typed, nsend
        <4>2. nsend(a, j) <= nexport[a] /\ nexport[a] < BunchSizeDensity
          BY <3>2 DEF IInv, ListsFit
        <4> QED BY <3>3, <4>1, <4>2, Constants
      <3>5. nbuffer[t][j] = 0
        BY <2>1 DEF EveryTask
      <3> QED BY <3>4, <3>5, Constants
    <2> QED BY <2>2 DEF LevelOver, LevelFull
  <1> QED BY <1>1, AlwaysIInv, PTL

-------------------------------------------------------------------------------
(* What is used of the sum over the tasks.                                 *)
Stacks(count) == UNION {{t} \X (1 .. count[t]) : t \in Task}

LEMMA InStacks ==
  ASSUME NEW count
  PROVE  \A t, k : <<t, k>> \in Stacks(count) <=> t \in Task /\ k \in 1 .. count[t]
  BY DEF Stacks

LEMMA StacksFinite ==
  ASSUME NEW count \in [Task -> Nat]
  PROVE  IsFiniteSet(Stacks(count))
  <1> DEFINE stack == [t \in Task |-> {t} \X (1 .. count[t])]
             stacks == {{t} \X (1 .. count[t]) : t \in Task}
  <1>1. IsFiniteSet(Task)
    BY FS_Interval, Constants DEF Task
  <1>2. stack \in Surjection(Task, stacks)
    BY DEF Surjection
  <1>3. IsFiniteSet(stacks)
    <2> HIDE DEF stack, stacks
    <2> QED BY <1>1, <1>2, FS_Surjection
  <1>4. ASSUME NEW t \in Task
        PROVE  IsFiniteSet({t} \X (1 .. count[t]))
    <2>1. PICK n \in Int : n = count[t]
      OBVIOUS
    <2>2. IsFiniteSet(1 .. n)
      BY FS_Interval
    <2>3. IsFiniteSet({t})
      BY FS_Singleton
    <2> QED BY <2>1, <2>2, <2>3, FS_Product
  <1>5. \A s \in stacks : IsFiniteSet(s)
    BY <1>4
  <1>6. IsFiniteSet(UNION stacks)
    <2> HIDE DEF stacks
    <2> QED BY <1>3, <1>5, FS_UNION
  <1> QED BY <1>6 DEF Stacks

LEMMA TotalNat ==
  ASSUME NEW count \in [Task -> Nat]
  PROVE  /\ Total(count) \in Nat
         /\ Total(count) = 0 => \A t \in Task : count[t] = 0
  <1>1. IsFiniteSet(Stacks(count)) /\ Total(count) = Cardinality(Stacks(count))
    BY StacksFinite DEF Total, Stacks
  <1>2. ASSUME Stacks(count) = {}, NEW t \in Task
        PROVE  count[t] = 0
    <2>1. <<t, 1>> \notin Stacks(count)
      BY <1>2
    <2>2. 1 \notin 1 .. count[t] /\ count[t] \in Nat
      BY <2>1, InStacks
    <2> QED BY <2>2
  <1> QED BY <1>1, <1>2, FS_CardinalityType, FS_EmptySet

LEMMA TotalOfSum ==
  ASSUME NEW a \in [Task -> Nat], NEW b \in [Task -> Nat]
  PROVE  Total([t \in Task |-> a[t] + b[t]]) = Total(a) + Total(b)
  <1> DEFINE both == [t \in Task |-> a[t] + b[t]]
             above == {x \in Stacks(both) : x \notin Stacks(a)}
             lift == [x \in Stacks(b) |-> <<x[1], x[2] + a[x[1]]>>]
  <1>1. both \in [Task -> Nat]
    OBVIOUS
  <1>2. \A t \in Task : a[t] \in Nat /\ b[t] \in Nat /\ both[t] = a[t] + b[t]
    OBVIOUS
  <1> HIDE DEF both
  <1>3. \A x : x \in Stacks(a) \/ x \in Stacks(b) \/ x \in Stacks(both) =>
                 x = <<x[1], x[2]>> /\ x[1] \in Task /\ x[2] \in Nat
    BY <1>1 DEF Stacks
  <1>4. Stacks(a) \subseteq Stacks(both)
    <2>1. ASSUME NEW t, NEW k, t \in Task, k \in 1 .. a[t]
          PROVE  k \in 1 .. both[t]
      BY <1>2, <2>1
    <2> QED BY <1>3, <2>1, InStacks
  <1>5. \A t, k : <<t, k>> \in above <=> t \in Task /\ k \in a[t] + 1 .. both[t]
    <2>1. ASSUME NEW t \in Task, NEW k
          PROVE  k \in 1 .. both[t] /\ k \notin 1 .. a[t] <=> k \in a[t] + 1 .. both[t]
      BY <1>2
    <2> QED BY <2>1, InStacks
  <1>6. lift \in Bijection(Stacks(b), above)
    <2>1. \A x \in Stacks(b) : x = <<x[1], x[2]>> /\ x[1] \in Task /\ x[2] \in 1 .. b[x[1]]
      BY <1>3, InStacks
    <2>2. \A x \in Stacks(b) : x[2] + a[x[1]] \in a[x[1]] + 1 .. both[x[1]]
      BY <1>2, <2>1
    <2>3. \A x \in Stacks(b) : lift[x] \in above
      BY <1>5, <2>1, <2>2
    <2>4. \A x, y \in Stacks(b) : lift[x] = lift[y] => x = y
      <3> SUFFICES ASSUME NEW x \in Stacks(b), NEW y \in Stacks(b), lift[x] = lift[y]
                   PROVE  x = y
        OBVIOUS
      <3>1. x[1] = y[1] /\ x[2] + a[x[1]] = y[2] + a[y[1]]
        OBVIOUS
      <3>2. x[2] \in Nat /\ y[2] \in Nat /\ a[x[1]] \in Nat
        BY <1>2, <2>1
      <3>3. x[2] = y[2]
        BY <3>1, <3>2
      <3> QED BY <2>1, <3>1, <3>3
    <2>5. \A z \in above : \E x \in Stacks(b) : lift[x] = z
      <3> SUFFICES ASSUME NEW z \in above PROVE \E x \in Stacks(b) : lift[x] = z
        OBVIOUS
      <3>1. z = <<z[1], z[2]>> /\ z[1] \in Task /\ z[2] \in a[z[1]] + 1 .. both[z[1]]
        BY <1>3, <1>5
      <3>2. PICK k : k = z[2] - a[z[1]]
        OBVIOUS
      <3>3. k \in 1 .. b[z[1]] /\ k + a[z[1]] = z[2]
        BY <1>2, <3>1, <3>2
      <3>4. <<z[1], k>> \in Stacks(b)
        BY <3>1, <3>3, InStacks
      <3>5. lift[<<z[1], k>>] = z
        BY <3>1, <3>3, <3>4
      <3> QED BY <3>4, <3>5
    <2> QED BY <2>3, <2>4, <2>5 DEF Bijection, Injection, Surjection, IsInjective
  <1>7. IsFiniteSet(Stacks(a)) /\ IsFiniteSet(Stacks(b)) /\ IsFiniteSet(Stacks(both))
    BY <1>1, StacksFinite
  <1>8. IsFiniteSet(above) /\ Cardinality(above) = Cardinality(Stacks(b))
    <2> HIDE DEF lift, above
    <2>1. ExistsBijection(Stacks(b), above)
      BY <1>6 DEF ExistsBijection
    <2> QED BY <1>7, <2>1, FS_Bijection
  <1>9. Stacks(both) = Stacks(a) \cup above /\ Stacks(a) \cap above = {}
    BY <1>4
  <1>10. Cardinality(Stacks(both)) = Cardinality(Stacks(a)) + Cardinality(above) - 0
    <2> HIDE DEF above
    <2> QED BY <1>7, <1>8, <1>9, FS_Union, FS_EmptySet
  <1>11. Cardinality(Stacks(a)) \in Nat /\ Cardinality(Stacks(b)) \in Nat
    BY <1>7, FS_CardinalityType
  <1>12. Total(both) = Total(a) + Total(b)
    BY <1>8, <1>10, <1>11 DEF Total, Stacks
  <1> QED BY <1>12 DEF both

-------------------------------------------------------------------------------
(* For the results: in which stage the tasks are, what the lists hold, how *)
(* the buffers are laid out, and which results are still to come.          *)
Filling == {"fill", "counts"}

Meeting == {"send", "barrier", "return", "round"}

Together ==
  \E stage \in {Filling, Meeting, {"final", "left"}, {"restore", "done"}, {"abort"}} :
    \A t \in Task : pc[t] \in stage

Shapes ==
  /\ DOMAIN Ti_endstep = Task /\ DOMAIN sums = Task /\ DOMAIN touched = Task
  /\ DOMAIN DensDataResult = Task
  /\ ndone \in [Task -> Nat] /\ npleft \in [Task -> Nat]
  /\ \A t \in Task :
       /\ next[t] <= N_gas[t] /\ ndone[t] <= next[t] /\ npleft[t] <= N_gas[t]
       /\ Ti_endstep[t] \in [Gas(t) -> Nat \cup {Marked(Ti_Current)}]
       /\ touched[t] \in [Gas(t) -> (SUBSET (Task \ {t})) \cup {{Nobody}}]
       /\ DOMAIN sums[t] = Gas(t)

(* A list names particles of this round, each once, that touch its task.   *)
Lists ==
  \A t, u \in Task :
    /\ \A x \in 1 .. nsend(t, u) : /\ DensDataIn[t][u][x] \in Gas(t)
                                   /\ DensDataIn[t][u][x] < next[t]
                                   /\ u \in touched[t][DensDataIn[t][u][x]]
    /\ \A x, y \in 1 .. nsend(t, u) : DensDataIn[t][u][x] = DensDataIn[t][u][y] => x = y
    /\ pc[t] \notin Filling \cup Meeting => DensDataIn[t][u] = <<>>

(* A group of pairs for which there is no room.                            *)
Full(fill, n) ==
  \E j \in Task : PairedBy[<<j, n>>] < NTask /\ fill[j] + Incoming(j, n) >= BunchSizeDensity

(* The groups from the task's level to last belong together, and off says  *)
(* how full the buffers are before each of them.                           *)
Passed(t, off, last) ==
  /\ off \in [1 .. Groups -> [Task -> Nat]]
  /\ last \in level[t] .. Groups
  /\ off[level[t]] = EveryTask(0)
  /\ \A n \in level[t] .. last - 1 :
       /\ off[n + 1] = [j \in Task |-> off[n][j] + Incoming(j, n)]
       /\ ~Full(off[n], n)

(* The x-th particle that task u has sent to t.                            *)
CopyOf(u, t, x) == [from |-> u, index |-> DensDataIn[u][t][x]]

(* A buffer of task t holds something for each particle received, in the   *)
(* order of the groups.                                                    *)
LaidOut(t, off, last, size, Holds(_, _)) ==
  \A n \in level[t] .. last - 1 : PairedBy[<<t, n>>] < NTask =>
    /\ off[n][t] + nsend(PairedBy[<<t, n>>], t) <= size
    /\ \A x \in 1 .. nsend(PairedBy[<<t, n>>], t) :
         Holds(off[n][t] + x, CopyOf(PairedBy[<<t, n>>], t, x))

GetHolds(t, off, last) ==
  LaidOut(t, off, last, Len(DensDataGet[t]), LAMBDA x, c : DensDataGet[t][x] = c)

ResultHolds(t, off, last) ==
  LaidOut(t, off, last, off[last][t], LAMBDA x, c : DensDataResult[t][x] = [for |-> c, by |-> t])

(* Where a task is in the groups of its level.                             *)
Stands(t, off, last) ==
  /\ Passed(t, off, last)
  /\ pc[t] = "send" => ngrp[t] = last /\ nbuffer[t] = off[last] /\ GetHolds(t, off, last)
  /\ pc[t] # "send" => (last < Groups => Full(off[last], last)) /\ ResultHolds(t, off, last)
  /\ pc[t] = "return" => ngrp[t] \in level[t] .. last /\ nbuffer[t] = off[ngrp[t]]

Booked == \A t \in Task : pc[t] \in Meeting \ {"round"} => \E off, last : Stands(t, off, last)

(* The first group whose results are still to come, and those tasks.       *)
Ahead(t) ==
  CASE pc[t] = "return" -> ngrp[t]
    [] pc[t] \in {"send", "barrier"} -> level[t]
    [] pc[t] = "round" -> Groups
    [] OTHER -> 1

Awaited(t) == {u \in Task : \E n \in Ahead(t) .. Groups - 1 : PairedBy[<<t, n>>] = u}

Listed(t, u) == {DensDataIn[t][u][x] : x \in 1 .. nsend(t, u)}

Pending(t, i) == {u \in Awaited(t) : i \in Listed(t, u)}

ResultFor(t, i, u) == [place |-> i, result |-> [for |-> [from |-> t, index |-> i], by |-> u]]

(* The results from the tasks in U have been added once, and no others.    *)
AddedFrom(t, i, U) ==
  sums[t][i] = [number |-> Cardinality(U), of |-> {ResultFor(t, i, u) : u \in U}]

Exact ==
  \A t \in Task : \A i \in Gas(t) :
    touched[t][i] # {Nobody} => AddedFrom(t, i, touched[t][i] \ Pending(t, i))

(* The particles that are still to be looked at in this iteration.         *)
Rest(t) == {i \in Gas(t) : Active(t, i) /\ next[t] <= i}

Reckoned ==
  /\ ntot \in Nat /\ ntotleft \in Nat /\ niter \in 0 .. MAXITER + 1
  /\ (\E t \in Task : pc[t] \in Filling \cup Meeting) =>
       ntotleft = Total([t \in Task |-> Cardinality(Rest(t)) + ndone[t]])
  /\ \A t \in Task :
       /\ pc[t] # "abort" => niter <= MAXITER
       /\ pc[t] \notin Filling \cup Meeting => ndone[t] = 0
       /\ pc[t] \in {"final", "left"} => Rest(t) = {}
       /\ pc[t] = "left" => npleft[t] = NumActive(t)
       /\ pc[t] \in {"restore", "done", "abort"} => next[t] = 0
       /\ \A i \in Gas(t) : Active(t, i) /\ i < next[t] => touched[t][i] # {Nobody}

JInv == IInv /\ Together /\ Shapes /\ Lists /\ Booked /\ Exact /\ Reckoned

LEMMA NobodyNoTask == Nobody \notin Task /\ \A t \in Task : {Nobody} \notin SUBSET (Task \ {t})
  BY Constants DEF Nobody, Task

LEMMA GasNat == \A t \in Task : N_gas[t] \in Nat /\ Gas(t) \subseteq Nat
  BY SizesAssumption DEF Gas
-------------------------------------------------------------------------------
LEMMA NextTogether ==
  ASSUME IInv, Together, [Next]_vars
  PROVE  Together'
  <1> USE DEF Filling, Meeting
  <1>1. pc \in [Task -> Place] /\ 0 \in Task
    BY Constants DEF IInv, Typed, Task
  <1>2. CASE pc' = pc
    BY <1>2 DEF Together
  <1>3. CASE \E place \in Place : pc' = EveryTask(place)
    BY <1>3 DEF Together, EveryTask, Place
  <1>4. ASSUME NEW t \in Task, NEW place,
               \/ pc[t] \in Filling /\ place \in Filling
               \/ pc[t] \in Meeting /\ place \in Meeting
               \/ pc[t] \in {"final", "left"} /\ place \in {"final", "left"}
               \/ pc[t] \in {"restore", "done"} /\ place \in {"restore", "done"},
               Goto(t, place)
        PROVE  Together'
    <2>1. PICK stage \in {Filling, Meeting, {"final", "left"}, {"restore", "done"}, {"abort"}} :
            \A u \in Task : pc[u] \in stage
      BY DEF Together
    <2>2. place \in stage
      BY <1>4, <2>1
    <2>3. \A u \in Task : pc'[u] \in stage
      BY <1>1, <1>4, <2>1, <2>2 DEF Goto
    <2> QED BY <2>1, <2>3 DEF Together
  <1>5. CASE GatherCounts \/ Barrier \/ RoundEnds \/ GatherLeft
    <2>1. \E place \in Place : pc' = EveryTask(place)
      BY <1>5 DEF GatherCounts, Barrier, RoundEnds, GatherLeft, Place
    <2> QED BY <1>3, <2>1
  <1>6. ASSUME NEW t \in Task,
               \/ Fill(t) \/ FillEnds(t) \/ Skip(t) \/ EvaluateReceived(t)
               \/ LevelEnds(t) \/ Decide(t) \/ Restore(t)
        PROVE  Together'
    <2>1. CASE Fill(t) \/ Skip(t)
      BY <1>2, <2>1 DEF Fill, Skip, Count
    <2>2. CASE FillEnds(t)
      BY <1>4, <2>2 DEF FillEnds
    <2>3. CASE EvaluateReceived(t)
      BY <1>4, <2>3 DEF EvaluateReceived
    <2>4. CASE LevelEnds(t)
      BY <1>4, <2>4 DEF LevelEnds
    <2>5. CASE Decide(t)
      BY <1>4, <2>5 DEF Decide
    <2>6. CASE Restore(t)
      BY <1>4, <2>6 DEF Restore
    <2> QED BY <1>6, <2>1, <2>2, <2>3, <2>4, <2>5, <2>6
  <1>7. ASSUME NEW t \in Task, NEW u \in Task, Send(t, u) \/ Return(t, u)
        PROVE  Together'
    BY <1>2, <1>7 DEF Send, Return, Count
  <1>8. CASE UNCHANGED vars
    BY <1>2, <1>8 DEF vars
  <1> QED BY <1>5, <1>6, <1>7, <1>8 DEF Next

(* If one task is in a stage, all are.                                     *)
LEMMA SameStage ==
  ASSUME IInv, Together, NEW t \in Task, NEW u \in Task
  PROVE  /\ pc[t] \in Filling <=> pc[u] \in Filling
         /\ pc[t] \in Meeting <=> pc[u] \in Meeting
         /\ pc[t] = "abort" <=> pc[u] = "abort"
  BY DEF Together, Filling, Meeting

LEMMA CountOfGas ==
  ASSUME NEW t \in Task, NEW S \in SUBSET Gas(t)
  PROVE  IsFiniteSet(S) /\ Cardinality(S) \in Nat /\ Cardinality(S) <= N_gas[t]
  <1>1. PICK n \in Nat : n = N_gas[t]
    BY GasNat
  <1>2. IsFiniteSet(0 .. n - 1) /\ Cardinality(0 .. n - 1) = n
    <2>1. n - 1 \in Int
      OBVIOUS
    <2> QED BY <2>1, FS_Interval
  <1>3. S \in SUBSET (0 .. n - 1)
    BY <1>1 DEF Gas
  <1> QED BY <1>1, <1>2, <1>3, FS_Subset, FS_CardinalityType

LEMMA NextShapes ==
  ASSUME IInv, Shapes, Reckoned, [Next]_vars
  PROVE  Shapes'
  <1>1. /\ \A t \in Task : next[t] \in Nat /\ ndone[t] \in Nat /\ N_gas[t] \in Nat
        /\ next \in [Task -> Nat] /\ Ti_Current \in Nat
    BY GasNat, SizesAssumption DEF IInv, Typed, Shapes
  <1>0. DOMAIN DensDataResult' = Task
    BY DEF Shapes, Next, Fill, FillEnds, GatherCounts, Skip, Send, EvaluateReceived, Barrier, Return,
           LevelEnds, RoundEnds, Decide, GatherLeft, Restore, vars, buffers
  <1>2. ASSUME UNCHANGED <<particles, ndone, npleft, touched>>,
               DOMAIN sums' = Task, \A t \in Task : DOMAIN sums'[t] = Gas(t)
        PROVE  Shapes'
    BY <1>0, <1>2 DEF Shapes, particles
  <1>3. CASE UNCHANGED <<particles, ndone, npleft, touched, sums>>
    BY <1>2, <1>3 DEF Shapes
  <1>4. ASSUME NEW t \in Task, Fill(t)
        PROVE  Shapes'
    <2>1. CASE ~Active(t, next[t])
      <3>1. /\ next' = [next EXCEPT ![t] = @ + 1] /\ next[t] < N_gas[t]
            /\ UNCHANGED <<Ti_endstep, ndone, npleft, touched, sums>>
        BY <1>4, <2>1 DEF Fill, export, results, totals
      <3> QED BY <1>0, <1>1, <3>1 DEF Shapes
    <2>2. CASE Active(t, next[t])
      <3>1. PICK i : i = next[t]
        OBVIOUS
      <3>2. i \in Gas(t)
        BY <1>1, <1>4, <3>1 DEF Fill, Gas
      <3>3. PICK S \in Reach[t][i] :
              /\ touched' = [touched EXCEPT ![t][i] = S]
              /\ sums' = [sums EXCEPT ![t][i] = NoResults]
              /\ ndone' = [ndone EXCEPT ![t] = @ + 1]
        BY <1>4, <2>2, <3>1 DEF Fill, Evaluate
      <3>4. /\ next' = [next EXCEPT ![t] = @ + 1] /\ next[t] < N_gas[t]
            /\ UNCHANGED <<Ti_endstep, npleft>>
        BY <1>4 DEF Fill, totals
      <3>5. S \in SUBSET (Task \ {t})
        BY <3>2, SizesAssumption
      <3>6. touched'[t] \in [Gas(t) -> (SUBSET (Task \ {t})) \cup {{Nobody}}]
        BY <3>2, <3>3, <3>5 DEF Shapes
      <3>7. \A u \in Task \ {t} : touched'[u] = touched[u] /\ sums'[u] = sums[u]
        BY <3>3 DEF Shapes
      <3>8. DOMAIN touched' = Task /\ DOMAIN sums' = Task /\ DOMAIN sums'[t] = Gas(t)
        BY <3>3 DEF Shapes
      <3>9. ndone' \in [Task -> Nat]
        BY <3>3 DEF Shapes
      <3>10. \A u \in Task : next'[u] <= N_gas[u] /\ ndone'[u] <= next'[u]
        BY <1>1, <3>3, <3>4 DEF Shapes
      <3> QED BY <1>0, <3>4, <3>6, <3>7, <3>8, <3>9, <3>10 DEF Shapes
    <2> QED BY <2>1, <2>2
  <1>5. ASSUME NEW t \in Task, Decide(t)
        PROVE  Shapes'
    <2>1. PICK again \in SUBSET {i \in Gas(t) : Active(t, i)} :
            /\ npleft' = [npleft EXCEPT ![t] = Cardinality(again)]
            /\ Ti_endstep' = [Ti_endstep EXCEPT ![t] =
                 [i \in Gas(t) |-> IF Active(t, i) /\ i \notin again THEN Marked(@[i]) ELSE @[i]]]
      BY <1>5 DEF Decide
    <2>2. Cardinality(again) \in Nat /\ Cardinality(again) <= N_gas[t]
      BY <2>1, CountOfGas
    <2>3. npleft' \in [Task -> Nat] /\ \A u \in Task : npleft'[u] <= N_gas[u]
      BY <2>1, <2>2 DEF Shapes
    <2>4. DOMAIN Ti_endstep' = Task
          /\ \A u \in Task : Ti_endstep'[u] \in [Gas(u) -> Nat \cup {Marked(Ti_Current)}]
      BY <2>1 DEF Shapes, Active
    <2> QED BY <1>0, <1>5, <2>3, <2>4 DEF Shapes, Decide, export, results
  <1>6. ASSUME NEW t \in Task, Restore(t)
        PROVE  Shapes'
    <2>1. \A n \in Nat \cup {Marked(Ti_Current)} : (IF n < 0 THEN -n - 1 ELSE n) \in Nat
      BY <1>1 DEF Marked
    <2>2. Ti_endstep' = [Ti_endstep EXCEPT ![t] =
                           [i \in Gas(t) |-> IF @[i] < 0 THEN -@[i] - 1 ELSE @[i]]]
      BY <1>6 DEF Restore
    <2>3. \A i \in Gas(t) : Ti_endstep[t][i] \in Nat \cup {Marked(Ti_Current)}
      BY DEF Shapes
    <2>4. Ti_endstep'[t] = [i \in Gas(t) |-> IF Ti_endstep[t][i] < 0 THEN -Ti_endstep[t][i] - 1
                                             ELSE Ti_endstep[t][i]]
      BY <2>2 DEF Shapes
    <2>5. Ti_endstep'[t] \in [Gas(t) -> Nat \cup {Marked(Ti_Current)}]
      BY <2>1, <2>3, <2>4
    <2>6. DOMAIN Ti_endstep' = Task /\ \A u \in Task \ {t} : Ti_endstep'[u] = Ti_endstep[u]
      BY <2>2 DEF Shapes
    <2> QED BY <1>0, <1>6, <2>5, <2>6 DEF Shapes, Restore, export, results, totals
  <1>7. ASSUME NEW t \in Task, NEW u \in Task, Return(t, u)
        PROVE  Shapes'
    <2>1. sums' = [sums EXCEPT ![t] = Added(t, u), ![u] = Added(u, t)]
      BY <1>7 DEF Return
    <2>2. DOMAIN Added(t, u) = Gas(t) /\ DOMAIN Added(u, t) = Gas(u)
      BY DEF Added
    <2>3. DOMAIN sums' = Task /\ \A a \in Task : DOMAIN sums'[a] = Gas(a)
      BY <2>1, <2>2 DEF Shapes
    <2> QED BY <1>2, <1>7, <2>3 DEF Return, export, totals
  <1>8. CASE RoundEnds
    BY <1>0, <1>1, <1>8 DEF RoundEnds, Shapes, particles, results, EveryTask
  <1>9. CASE GatherLeft
    <2>1. /\ next' = EveryTask(0) /\ npleft' = EveryTask(0) /\ sums' = Unevaluated /\ touched' = Untouched
          /\ UNCHANGED <<Ti_endstep, ndone>>
      BY <1>9 DEF GatherLeft, export
    <2>2. /\ DOMAIN touched' = Task /\ DOMAIN sums' = Task
          /\ \A t \in Task : /\ touched'[t] \in [Gas(t) -> (SUBSET (Task \ {t})) \cup {{Nobody}}]
                             /\ DOMAIN sums'[t] = Gas(t)
      BY <2>1 DEF Untouched, Unevaluated
    <2>3. \A t \in Task : ndone[t] = 0
      BY <1>9 DEF GatherLeft, AllAt, Reckoned, Filling, Meeting
    <2> QED BY <1>0, <1>1, <2>1, <2>2, <2>3 DEF Shapes, EveryTask
  <1>10. CASE \/ GatherCounts \/ Barrier \/ UNCHANGED vars
              \/ \E t \in Task : \/ FillEnds(t) \/ Skip(t) \/ EvaluateReceived(t) \/ LevelEnds(t)
                                 \/ \E u \in Task : Send(t, u)
    BY <1>3, <1>10 DEF GatherCounts, Barrier, FillEnds, Skip, EvaluateReceived, LevelEnds, Send, vars,
                       particles, export, results, totals
  <1> QED BY <1>4, <1>5, <1>6, <1>7, <1>8, <1>9, <1>10 DEF Next

LEMMA Appended ==
  ASSUME NEW S, NEW old \in Seq(S), NEW e \in S
  PROVE  /\ Len(Append(old, e)) = Len(old) + 1 /\ Len(old) \in Nat
         /\ \A x \in 1 .. Len(old) : Append(old, e)[x] = old[x]
         /\ Append(old, e)[Len(old) + 1] = e
  OBVIOUS

LEMMA NextLists ==
  ASSUME IInv, Together, Shapes, Lists, [Next]_vars
  PROVE  Lists'
  <1> USE DEF Filling, Meeting
  <1>1. /\ \A t, u \in Task : DensDataIn[t][u] \in Seq(Nat) /\ nsend(t, u) \in Nat
        /\ DensDataIn \in [Task -> [Task -> Seq(Nat)]]
        /\ next \in [Task -> Nat]
    BY DEF IInv, Typed, nsend
  <1>2. ASSUME UNCHANGED <<DensDataIn, next, touched>>,
               \A t \in Task : pc'[t] \notin Filling \cup Meeting => pc[t] \notin Filling \cup Meeting
        PROVE  Lists'
    BY <1>2 DEF Lists, nsend
  <1>3. ASSUME NEW t \in Task, Fill(t)
        PROVE  Lists'
    <2>1. /\ pc' = pc /\ pc[t] = "fill" /\ next' = [next EXCEPT ![t] = @ + 1] /\ next[t] < N_gas[t]
          /\ \A u \in Task : pc[u] \in Filling
      BY <1>3, SameStage DEF Fill
    <2>2. \A u \in Task : next'[u] >= next[u] /\ next[u] \in Nat
      BY <1>1, <2>1
    <2>3. CASE ~Active(t, next[t])
      <3>1. UNCHANGED <<DensDataIn, touched>>
        BY <1>3, <2>3 DEF Fill, export, results
      <3>2. \A a, b \in Task : \A x \in 1 .. nsend(a, b) : DensDataIn[a][b][x] \in Nat
        BY <1>1 DEF nsend
      <3>3. \A n \in Nat : \A u \in Task : n < next[u] => n < next'[u]
        BY <1>1, <2>1
      <3> QED BY <2>1, <3>1, <3>2, <3>3 DEF Lists, nsend
    <2>4. CASE Active(t, next[t])
      <3>1. PICK i : i = next[t]
        OBVIOUS
      <3>2. i \in Gas(t) /\ i \in Nat
        <4>1. i \in Nat /\ i < N_gas[t] /\ N_gas[t] \in Nat
          BY <2>1, <2>2, <3>1, GasNat
        <4> QED BY <4>1 DEF Gas
      <3>3. PICK S \in Reach[t][i] :
              /\ touched' = [touched EXCEPT ![t][i] = S]
              /\ DensDataIn' = [DensDataIn EXCEPT ![t] =
                                  [u \in Task |-> IF u \in S THEN Append(@[u], i) ELSE @[u]]]
        BY <1>3, <2>4, <3>1 DEF Fill, Evaluate
      <3>4. /\ touched'[t][i] = S
            /\ \A a \in Task : \A k \in Gas(a) : ~(a = t /\ k = i) => touched'[a][k] = touched[a][k]
        BY <3>2, <3>3 DEF Shapes
      <3>5. \A a \in Task \ {t} : DensDataIn'[a] = DensDataIn[a]
        BY <1>1, <3>3
      <3>6. \A u \in Task : DensDataIn'[t][u] = IF u \in S THEN Append(DensDataIn[t][u], i)
                                                ELSE DensDataIn[t][u]
        BY <1>1, <3>3
      <3> SUFFICES ASSUME NEW a \in Task, NEW u \in Task
                   PROVE  /\ \A x \in 1 .. Len(DensDataIn'[a][u]) :
                               /\ DensDataIn'[a][u][x] \in Gas(a)
                               /\ DensDataIn'[a][u][x] < next'[a]
                               /\ u \in touched'[a][DensDataIn'[a][u][x]]
                          /\ \A x, y \in 1 .. Len(DensDataIn'[a][u]) :
                               DensDataIn'[a][u][x] = DensDataIn'[a][u][y] => x = y
        BY <2>1 DEF Lists, nsend
      <3>7. PICK old \in Seq(Nat) : old = DensDataIn[a][u]
        BY <1>1
      <3>8. /\ \A x \in 1 .. Len(old) : old[x] \in Gas(a) /\ old[x] < next[a] /\ u \in touched[a][old[x]]
            /\ \A x, y \in 1 .. Len(old) : old[x] = old[y] => x = y
        BY <3>7 DEF Lists, nsend
      <3>9. \A x \in 1 .. Len(old) : ~(a = t /\ old[x] = i)
        BY <3>1, <3>2, <3>8
      <3>10. \A x \in 1 .. Len(old) : old[x] \in Gas(a) /\ old[x] < next'[a] /\ u \in touched'[a][old[x]]
        <4>1. \A n \in Nat : n < next[a] => n < next'[a]
          BY <1>1, <2>1
        <4>2. \A x \in 1 .. Len(old) : old[x] \in Nat
          BY <3>7
        <4> QED BY <3>4, <3>8, <3>9, <4>1, <4>2
      <3>11. CASE a = t /\ u \in S
        <4>1. PICK new : new = Append(old, i)
          OBVIOUS
        <4>2. /\ DensDataIn'[a][u] = new /\ Len(new) = Len(old) + 1 /\ Len(old) \in Nat
              /\ \A x \in 1 .. Len(old) : new[x] = old[x]
              /\ new[Len(old) + 1] = i
          <5>1. DensDataIn'[a][u] = new
            BY <3>6, <3>7, <3>11, <4>1
          <5> QED BY <3>2, <4>1, <5>1, Appended
        <4>3. \A x \in 1 .. Len(new) : x \in 1 .. Len(old) \/ x = Len(old) + 1
          BY <4>2
        <4>4. i < next'[t]
          BY <1>1, <2>1, <3>1
        <4>5. \A x \in 1 .. Len(new) : new[x] \in Gas(a) /\ new[x] < next'[a] /\ u \in touched'[a][new[x]]
          BY <3>2, <3>4, <3>10, <3>11, <4>2, <4>3, <4>4
        <4>6. \A x, y \in 1 .. Len(new) : new[x] = new[y] => x = y
          BY <3>8, <3>9, <3>11, <4>2, <4>3
        <4> QED BY <4>2, <4>5, <4>6
      <3>12. CASE ~(a = t /\ u \in S)
        <4>1. DensDataIn'[a][u] = old
          BY <3>5, <3>6, <3>7, <3>12
        <4> QED BY <3>8, <3>10, <4>1
      <3> QED BY <3>11, <3>12
    <2> QED BY <2>3, <2>4
  <1>4. CASE RoundEnds
    <2>1. DensDataIn' = Empty
      BY <1>4 DEF RoundEnds
    <2>2. \A t, u \in Task : DensDataIn'[t][u] = <<>>
      BY <2>1 DEF Empty, EveryTask
    <2> QED BY <2>2 DEF Lists, nsend
  <1>5. CASE GatherLeft
    <2>1. \A t, u \in Task : DensDataIn[t][u] = <<>> /\ DensDataIn' = DensDataIn
      BY <1>5 DEF GatherLeft, AllAt, Lists, export
    <2> QED BY <2>1 DEF Lists, nsend
  <1>6. ASSUME NEW t \in Task, FillEnds(t) \/ EvaluateReceived(t) \/ LevelEnds(t)
        PROVE  Lists'
    <2>1. /\ pc[t] \in Filling \cup Meeting
          /\ \A u \in Task \ {t} : pc'[u] = pc[u]
          /\ UNCHANGED <<DensDataIn, next, touched>>
      BY <1>6 DEF FillEnds, EvaluateReceived, LevelEnds, Goto, particles, export, results, IInv, Typed
    <2>2. pc'[t] \in Filling \cup Meeting
      BY <1>6 DEF FillEnds, EvaluateReceived, LevelEnds, Goto, IInv, Typed
    <2> QED BY <1>2, <2>1, <2>2
  <1>7. ASSUME NEW t \in Task, Decide(t) \/ Restore(t)
        PROVE  Lists'
    <2>1. /\ pc[t] \notin Filling \cup Meeting
          /\ \A u \in Task \ {t} : pc'[u] = pc[u]
          /\ UNCHANGED <<DensDataIn, next, touched>>
      BY <1>7 DEF Decide, Restore, Goto, particles, export, results, IInv, Typed
    <2> QED BY <1>2, <2>1
  <1>8. CASE GatherCounts \/ Barrier
    <2>1. /\ \A t \in Task : pc[t] \in Filling \cup Meeting /\ pc'[t] \in Filling \cup Meeting
          /\ UNCHANGED <<DensDataIn, next, touched>>
      BY <1>8 DEF GatherCounts, Barrier, AllAt, particles, export, results, EveryTask
    <2> QED BY <1>2, <2>1
  <1>9. CASE \/ UNCHANGED vars
             \/ \E t \in Task : Skip(t) \/ \E u \in Task : Send(t, u) \/ Return(t, u)
    <2>1. pc' = pc /\ UNCHANGED <<DensDataIn, next, touched>>
      BY <1>9 DEF Skip, Send, Return, Count, vars, particles, export, results
    <2> QED BY <1>2, <2>1
  <1> QED BY <1>3, <1>4, <1>5, <1>6, <1>7, <1>8, <1>9 DEF Next

-------------------------------------------------------------------------------
LEMMA Partnership ==
  ASSUME NEW t \in Task, NEW n \in 1 .. Groups - 1, PairedBy[<<t, n>>] < NTask
  PROVE  /\ PairedBy[<<t, n>>] \in Task /\ PairedBy[<<t, n>>] # t
         /\ PairedBy[<<PairedBy[<<t, n>>], n>>] = t
  <1>1. PairedBy[<<t, n>>] \in Nat
    BY XorAssumption
  <1>2. PairedBy[<<t, n>>] \in Task
    BY <1>1, Constants DEF Task
  <1> QED BY <1>2, XorAssumption

(* What the books of a task say does not depend on anything else.          *)
LEMMA BooksUnchanged ==
  ASSUME NEW t \in Task, NEW off, NEW last, Stands(t, off, last),
         pc'[t] = pc[t], level'[t] = level[t], ngrp'[t] = ngrp[t], nbuffer'[t] = nbuffer[t],
         DensDataGet'[t] = DensDataGet[t], DensDataResult'[t] = DensDataResult[t],
         DensDataIn' = DensDataIn
  PROVE  Stands(t, off, last)'
  <1>1. Passed(t, off, last)'
    <2>1. Passed(t, off, last)
      BY DEF Stands
    <2>2. \A m : \A f : (Full(f, m)' <=> Full(f, m)) /\ \A j : Incoming(j, m)' = Incoming(j, m)
      BY DEF Full, Incoming, nsend
    <2>3. EveryTask(0)' = EveryTask(0)
      BY DEF EveryTask
    <2> QED BY <2>1, <2>2, <2>3 DEF Passed
  <1>2. GetHolds(t, off, last) => GetHolds(t, off, last)'
    BY DEF GetHolds, LaidOut, CopyOf, nsend
  <1>3. ResultHolds(t, off, last) => ResultHolds(t, off, last)'
    BY DEF ResultHolds, LaidOut, CopyOf, nsend
  <1>4. Full(off[last], last)' <=> Full(off[last], last)
    BY DEF Full, Incoming, nsend
  <1> QED BY <1>1, <1>2, <1>3, <1>4 DEF Stands

(* A level begins: nothing has been sent.                                  *)
LEMMA LevelStarts ==
  ASSUME NEW t \in Task, level'[t] \in 1 .. Groups, pc'[t] = "send", ngrp'[t] = level'[t],
         nbuffer'[t] = EveryTask(0), DensDataGet'[t] = <<>>
  PROVE  \E off, last : Stands(t, off, last)'
  <1>1. PICK off : off = [n \in 1 .. Groups |-> EveryTask(0)]
    OBVIOUS
  <1>2. PICK last : last = level'[t] /\ last \in 1 .. Groups
    OBVIOUS
  <1>3. last \in Nat /\ last \in last .. Groups /\ last .. last - 1 = {}
    BY <1>2, Constants
  <1>4. EveryTask(0) \in [Task -> Nat]
    BY DEF EveryTask
  <1>5. off \in [1 .. Groups -> [Task -> Nat]] /\ off[last] = EveryTask(0)
    BY <1>1, <1>2, <1>4
  <1>6. Passed(t, off, last)'
    BY <1>2, <1>3, <1>5 DEF Passed, EveryTask
  <1>7. GetHolds(t, off, last)'
    BY <1>2, <1>3 DEF GetHolds, LaidOut
  <1>8. Stands(t, off, last)'
    BY <1>2, <1>5, <1>6, <1>7 DEF Stands, EveryTask
  <1> QED BY <1>8

LEMMA Concatenated ==
  ASSUME NEW S, NEW a \in Seq(S), NEW b \in Seq(S)
  PROVE  /\ Len(a \o b) = Len(a) + Len(b) /\ Len(a) \in Nat /\ Len(b) \in Nat
         /\ \A x \in 1 .. Len(a) : (a \o b)[x] = a[x]
         /\ \A x \in 1 .. Len(b) : (a \o b)[Len(a) + x] = b[x]
  OBVIOUS

(* A group of pairs has been passed in sending.                            *)
LEMMA GroupSent ==
  ASSUME IInv, NEW t \in Task, NEW off, NEW last, Stands(t, off, last),
         pc[t] = "send", pc'[t] = "send", ~LevelOver(t), DensDataIn' = DensDataIn,
         level'[t] = level[t], ngrp'[t] = ngrp[t] + 1,
         nbuffer'[t] = [j \in Task |-> nbuffer[t][j] + Incoming(j, ngrp[t])],
         IF Partner(t) < NTask THEN DensDataGet'[t] = DensDataGet[t] \o Received(t, Partner(t))
         ELSE DensDataGet'[t] = DensDataGet[t]
  PROVE  \E o, l : Stands(t, o, l)'
  <1>1. /\ Passed(t, off, last) /\ ngrp[t] = last /\ nbuffer[t] = off[last]
        /\ GetHolds(t, off, last)
    BY DEF Stands
  <1>2. last \in 1 .. Groups - 1 /\ \A j \in Task : off[last][j] + Incoming(j, last) \in Nat
    BY <1>1, GroupFits
  <1>3. PICK n : n = last + 1
    OBVIOUS
  <1>4. PICK fill : fill = [j \in Task |-> off[last][j] + Incoming(j, last)]
    OBVIOUS
  <1>5. PICK o : o = [off EXCEPT ![n] = fill]
    OBVIOUS
  <1>6. PICK low : low = level[t] /\ low \in 1 .. Groups
    BY DEF IInv, Typed
  <1>7. /\ last \in Nat /\ low \in Nat /\ n \in Nat /\ n \in 1 .. Groups /\ n \in low .. Groups
        /\ low <= last /\ last < Groups
        /\ \A m \in low .. n - 1 : m \in low .. last - 1 \/ m = last
        /\ \A m \in low .. last : m \in 1 .. Groups /\ m # n
        /\ \A m \in low .. last - 1 : m \in low .. last /\ m + 1 \in low .. last
        /\ last \in low .. last
    <2>1. last \in low .. Groups
      BY <1>1, <1>6 DEF Passed
    <2>2. PICK g \in Nat : g = Groups
      BY Constants
    <2>3. last \in 1 .. g - 1 /\ low \in 1 .. g /\ last \in low .. g /\ n = last + 1
      BY <1>2, <1>3, <1>6, <2>1, <2>2
    <2>4. last \in Nat /\ low \in Nat /\ n \in Nat /\ n \in 1 .. g /\ n \in low .. g /\ low <= last /\ last < g
      BY <2>3
    <2>5. \A m \in low .. n - 1 : m \in low .. last - 1 \/ m = last
      BY <2>3
    <2>6. \A m \in low .. last : m \in 1 .. g /\ m # n
      BY <2>3
    <2>7. \A m \in low .. last - 1 : m \in low .. last /\ m + 1 \in low .. last
      BY <2>3
    <2> QED BY <2>2, <2>4, <2>5, <2>6, <2>7
  <1>8. /\ off \in [1 .. Groups -> [Task -> Nat]]
        /\ off[low] = EveryTask(0)
        /\ \A m \in low .. last - 1 : /\ off[m + 1] = [j \in Task |-> off[m][j] + Incoming(j, m)]
                                      /\ ~Full(off[m], m)
    BY <1>1, <1>6 DEF Passed
  <1>9. fill \in [Task -> Nat]
    BY <1>2, <1>4
  <1>10. /\ o \in [1 .. Groups -> [Task -> Nat]] /\ o[n] = fill
         /\ \A m \in low .. last : o[m] = off[m]
    BY <1>5, <1>7, <1>8, <1>9
  <1>11. ~Full(off[last], last)
    BY <1>1, <1>7 DEF LevelOver, LevelFull, Full
  <1>12. \A m : \A f : (Full(f, m)' <=> Full(f, m)) /\ \A j : Incoming(j, m)' = Incoming(j, m)
    BY DEF Full, Incoming, nsend
  <1>13. ASSUME NEW m \in low .. n - 1
         PROVE  o[m + 1] = [j \in Task |-> o[m][j] + Incoming(j, m)] /\ ~Full(o[m], m)
    <2>1. CASE m \in low .. last - 1
      BY <1>7, <1>8, <1>10, <2>1
    <2>2. CASE m = last
      BY <1>3, <1>4, <1>7, <1>10, <1>11, <2>2
    <2> QED BY <1>7, <2>1, <2>2
  <1>14. Passed(t, o, n)'
    <2>1. o[low] = EveryTask(0)
      BY <1>7, <1>8, <1>10
    <2>2. level'[t] = low
      BY <1>6
    <2>3. \A m \in low .. n - 1 :
            /\ o[m + 1] = [j \in Task |-> o[m][j] + Incoming(j, m)']
            /\ ~Full(o[m], m)'
      BY <1>12, <1>13
    <2> QED BY <1>7, <1>10, <2>1, <2>2, <2>3 DEF Passed, EveryTask
  <1>15. PICK old \in Seq(Copy) : old = DensDataGet[t]
    BY DEF IInv, Typed
  <1>16. PICK new : new = DensDataGet'[t]
    OBVIOUS
  <1>17. Len(old) = off[last][t]
    BY <1>1, <1>15 DEF IInv, Counted
  <1>18. CASE Partner(t) < NTask
    <2>1. PICK u : u = Partner(t)
      OBVIOUS
    <2>2. u = PairedBy[<<t, last>>] /\ u \in Task /\ u < NTask
      BY <1>1, <1>2, <1>18, <2>1, Partnership DEF Partner
    <2>3. PICK got : got = Received(t, u)
      OBVIOUS
    <2>4. DensDataIn[u][t] \in Seq(Nat)
      BY <2>2 DEF IInv, Typed
    <2>5. nsend(u, t) \in Nat /\ \A x \in 1 .. nsend(u, t) : CopyOf(u, t, x) \in Copy
      <3>1. PICK d \in Seq(Nat) : d = DensDataIn[u][t]
        BY <2>4
      <3>2. Len(d) \in Nat /\ \A x \in 1 .. Len(d) : d[x] \in Nat
        OBVIOUS
      <3> QED BY <2>2, <3>1, <3>2 DEF nsend, CopyOf, Copy
    <2>6. /\ got \in Seq(Copy) /\ Len(got) = nsend(u, t)
          /\ \A x \in 1 .. nsend(u, t) : got[x] = CopyOf(u, t, x)
      BY <2>3, <2>5 DEF Received, CopyOf
    <2>7. new = old \o got
      BY <1>15, <1>16, <1>18, <2>1, <2>3
    <2>8. /\ Len(new) = Len(old) + nsend(u, t) /\ Len(old) \in Nat
          /\ \A x \in 1 .. Len(old) : new[x] = old[x]
          /\ \A x \in 1 .. nsend(u, t) : new[Len(old) + x] = CopyOf(u, t, x)
      BY <2>6, <2>7, Concatenated
    <2>9. ASSUME NEW m \in low .. n - 1, PairedBy[<<t, m>>] < NTask
          PROVE  /\ o[m][t] + nsend(PairedBy[<<t, m>>], t) <= Len(new)
                 /\ \A x \in 1 .. nsend(PairedBy[<<t, m>>], t) :
                      new[o[m][t] + x] = CopyOf(PairedBy[<<t, m>>], t, x)
      <3>1. CASE m = last
        <4>1. o[m][t] = Len(old) /\ PairedBy[<<t, m>>] = u
          BY <1>7, <1>10, <1>17, <2>2, <3>1
        <4>2. Len(old) + nsend(u, t) <= Len(new)
          BY <2>5, <2>8
        <4> QED BY <2>8, <4>1, <4>2
      <3>2. CASE m \in low .. last - 1
        <4>1. m \in 1 .. Groups - 1
          BY <1>7, <3>2, Constants
        <4>2. PICK k : k = nsend(PairedBy[<<t, m>>], t)
          OBVIOUS
        <4>3. k \in Nat
          BY <2>9, <4>1, <4>2, Partnership DEF IInv, Typed, nsend
        <4>4. PICK z \in Nat : z = off[m][t]
          BY <1>8, <4>1, Constants
        <4>5. o[m][t] = z
          BY <1>7, <1>10, <3>2, <4>4
        <4>6. /\ z + k <= Len(old)
              /\ \A x \in 1 .. k : old[z + x] = CopyOf(PairedBy[<<t, m>>], t, x)
          BY <1>1, <1>6, <1>15, <2>9, <3>2, <4>2, <4>4 DEF GetHolds, LaidOut
        <4>7. \A x \in 1 .. k : z + x \in 1 .. Len(old)
          BY <2>8, <4>3, <4>6
        <4>8. z + k <= Len(new)
          BY <2>5, <2>8, <4>3, <4>6
        <4> QED BY <2>8, <4>2, <4>5, <4>6, <4>7, <4>8
      <3> QED BY <1>7, <3>1, <3>2
    <2>10. GetHolds(t, o, n)'
      BY <1>6, <1>16, <2>9 DEF GetHolds, LaidOut, CopyOf, nsend
    <2>11. Stands(t, o, n)'
      BY <1>1, <1>3, <1>4, <1>10, <1>14, <2>10 DEF Stands
    <2> QED BY <2>11
  <1>19. CASE ~(Partner(t) < NTask)
    <2>1. new = old
      BY <1>15, <1>16, <1>19
    <2>2. \A m \in low .. n - 1 : PairedBy[<<t, m>>] < NTask => m \in low .. last - 1
      BY <1>1, <1>7, <1>19 DEF Partner
    <2>3. GetHolds(t, o, n)'
      BY <1>1, <1>6, <1>7, <1>10, <1>15, <1>16, <2>1, <2>2 DEF GetHolds, LaidOut, CopyOf, nsend
    <2>4. Stands(t, o, n)'
      BY <1>1, <1>3, <1>4, <1>10, <1>14, <2>3 DEF Stands
    <2> QED BY <2>4
  <1> QED BY <1>18, <1>19

(* On the way back a task passes the groups of the level, and no others.   *)
LEMMA WithinLevel ==
  ASSUME IInv, NEW t \in Task, NEW off, NEW last, Stands(t, off, last),
         pc[t] = "return", ~LevelOver(t)
  PROVE  /\ ngrp[t] \in level[t] .. last - 1 /\ ngrp[t] \in 1 .. Groups - 1
         /\ nbuffer[t] = off[ngrp[t]] /\ ResultHolds(t, off, last)
         /\ off[ngrp[t] + 1] = [j \in Task |-> nbuffer[t][j] + Incoming(j, ngrp[t])]
  <1>1. /\ Passed(t, off, last) /\ ngrp[t] \in level[t] .. last /\ nbuffer[t] = off[ngrp[t]]
        /\ last < Groups => Full(off[last], last)
        /\ ResultHolds(t, off, last)
    BY DEF Stands
  <1>2. ngrp[t] \in 1 .. Groups - 1
    BY GroupFits
  <1>3. ~Full(off[ngrp[t]], ngrp[t])
    BY <1>1, <1>2, Constants DEF LevelOver, LevelFull, Full
  <1>4. PICK n \in Nat : n = ngrp[t]
    BY <1>2
  <1>5. last \in level[t] .. Groups /\ level[t] \in Nat /\ Groups \in Nat
    BY <1>1, Constants DEF Passed, IInv, Typed
  <1>6. n # last
    BY <1>1, <1>2, <1>3, <1>4, <1>5
  <1>7. n \in level[t] .. last - 1
    BY <1>1, <1>4, <1>5, <1>6
  <1>8. off[n + 1] = [j \in Task |-> off[n][j] + Incoming(j, n)]
    BY <1>1, <1>7 DEF Passed
  <1> QED BY <1>1, <1>2, <1>4, <1>7, <1>8

LEMMA GroupReturned ==
  ASSUME IInv, NEW t \in Task, NEW off, NEW last, Stands(t, off, last),
         pc[t] = "return", pc'[t] = "return", ~LevelOver(t), DensDataIn' = DensDataIn,
         level'[t] = level[t], ngrp'[t] = ngrp[t] + 1,
         nbuffer'[t] = [j \in Task |-> nbuffer[t][j] + Incoming(j, ngrp[t])],
         DensDataResult'[t] = DensDataResult[t]
  PROVE  Stands(t, off, last)'
  <1>1. /\ ngrp[t] \in level[t] .. last - 1 /\ nbuffer'[t] = off[ngrp[t] + 1]
        /\ ResultHolds(t, off, last)
    BY WithinLevel
  <1>2. /\ Passed(t, off, last)
        /\ last < Groups => Full(off[last], last)
    BY DEF Stands
  <1>3. \A m : \A f : (Full(f, m)' <=> Full(f, m)) /\ \A j : Incoming(j, m)' = Incoming(j, m)
    BY DEF Full, Incoming, nsend
  <1>4. Passed(t, off, last)'
    <2>1. EveryTask(0)' = EveryTask(0)
      BY DEF EveryTask
    <2> QED BY <1>2, <1>3, <2>1 DEF Passed
  <1>5. ResultHolds(t, off, last)'
    BY <1>1 DEF ResultHolds, LaidOut, CopyOf, nsend
  <1>6. ngrp'[t] \in level'[t] .. last
    <2>1. last \in level[t] .. Groups /\ level[t] \in Nat /\ Groups \in Nat /\ ngrp[t] \in Nat
      BY <1>2, Constants DEF Passed, IInv, Typed
    <2> QED BY <1>1, <2>1
  <1>7. last < Groups => Full(off[last], last)'
    BY <1>2, <1>3 DEF Stands
  <1>8. nbuffer'[t] = off[ngrp'[t]]
    BY <1>1
  <1> QED BY <1>4, <1>5, <1>6, <1>7, <1>8 DEF Stands

LEMMA ReceivedEvaluated ==
  ASSUME IInv, Shapes, NEW t \in Task, EvaluateReceived(t), NEW off, NEW last, Stands(t, off, last)
  PROVE  Stands(t, off, last)'
  <1>1. /\ Passed(t, off, last) /\ ngrp[t] = last /\ nbuffer[t] = off[last]
        /\ GetHolds(t, off, last) /\ pc[t] = "send" /\ LevelOver(t)
    BY DEF Stands, EvaluateReceived
  <1>2. /\ pc'[t] = "barrier" /\ UNCHANGED <<DensDataIn, level, ngrp, nbuffer>>
        /\ DensDataResult' = [DensDataResult EXCEPT ![t] =
                                [x \in 1 .. nbuffer[t][t] |-> [for |-> DensDataGet[t][x], by |-> t]]]
    BY DEF EvaluateReceived, Goto, export, groups, IInv, Typed
  <1>3. \A m : \A f : (Full(f, m)' <=> Full(f, m)) /\ \A j : Incoming(j, m)' = Incoming(j, m)
    BY <1>2 DEF Full, Incoming, nsend
  <1>4. Passed(t, off, last)'
    BY <1>1, <1>2, <1>3 DEF Passed, EveryTask
  <1>5. last < Groups => Full(off[last], last)'
    BY <1>1, <1>3 DEF LevelOver, LevelFull, Full
  <1>6. /\ Len(DensDataGet[t]) = off[last][t]
        /\ last \in level[t] .. Groups /\ level[t] \in 1 .. Groups /\ off \in [1 .. Groups -> [Task -> Nat]]
    BY <1>1 DEF IInv, Typed, Counted, Passed
  <1>7. DensDataResult'[t] = [x \in 1 .. off[last][t] |-> [for |-> DensDataGet[t][x], by |-> t]]
    BY <1>1, <1>2 DEF Shapes
  <1>8. ASSUME NEW m \in level[t] .. last - 1, PairedBy[<<t, m>>] < NTask
        PROVE  /\ off[m][t] + nsend(PairedBy[<<t, m>>], t) <= off[last][t]
               /\ \A x \in 1 .. nsend(PairedBy[<<t, m>>], t) :
                    DensDataResult'[t][off[m][t] + x] = [for |-> CopyOf(PairedBy[<<t, m>>], t, x), by |-> t]
    <2>1. m \in 1 .. Groups - 1 /\ last \in 1 .. Groups
      BY <1>6, Constants
    <2>2. PICK k : k = nsend(PairedBy[<<t, m>>], t)
      OBVIOUS
    <2>3. k \in Nat
      BY <1>8, <2>1, <2>2, Partnership DEF IInv, Typed, nsend
    <2>4. PICK z \in Nat, e \in Nat : z = off[m][t] /\ e = off[last][t]
      BY <1>6, <2>1, Constants
    <2>5. /\ z + k <= e
          /\ \A x \in 1 .. k : DensDataGet[t][z + x] = CopyOf(PairedBy[<<t, m>>], t, x)
      BY <1>1, <1>6, <1>8, <2>2, <2>4 DEF GetHolds, LaidOut
    <2>6. \A x \in 1 .. k : z + x \in 1 .. e
      BY <2>3, <2>5
    <2> QED BY <1>7, <2>2, <2>4, <2>5, <2>6
  <1>9. ResultHolds(t, off, last)'
    BY <1>2, <1>8 DEF ResultHolds, LaidOut, CopyOf, nsend
  <1> QED BY <1>2, <1>4, <1>5, <1>9 DEF Stands

LEMMA BarrierPassed ==
  ASSUME IInv, NEW t \in Task, Barrier, NEW off, NEW last, Stands(t, off, last)
  PROVE  Stands(t, off, last)'
  <1>1. /\ Passed(t, off, last) /\ pc[t] = "barrier"
        /\ last < Groups => Full(off[last], last)
        /\ ResultHolds(t, off, last)
    BY DEF Stands, Barrier, AllAt
  <1>2. /\ pc'[t] = "return" /\ UNCHANGED <<DensDataIn, level, DensDataResult>>
        /\ ngrp'[t] = level[t] /\ nbuffer'[t] = EveryTask(0)
    BY DEF Barrier, export, buffers, EveryTask
  <1>3. \A m : \A f : (Full(f, m)' <=> Full(f, m)) /\ \A j : Incoming(j, m)' = Incoming(j, m)
    BY <1>2 DEF Full, Incoming, nsend
  <1>4. Passed(t, off, last)'
    BY <1>1, <1>2, <1>3 DEF Passed, EveryTask
  <1>5. ResultHolds(t, off, last)'
    BY <1>1, <1>2 DEF ResultHolds, LaidOut, CopyOf, nsend
  <1>6. last < Groups => Full(off[last], last)'
    BY <1>1, <1>3
  <1>7. ngrp'[t] \in level'[t] .. last /\ nbuffer'[t] = off[ngrp'[t]]
    <2>1. last \in level[t] .. Groups /\ level[t] \in Nat /\ Groups \in Nat
      BY <1>1, Constants DEF Passed, IInv, Typed
    <2> QED BY <1>1, <1>2, <2>1 DEF Passed
  <1> QED BY <1>2, <1>4, <1>5, <1>6, <1>7 DEF Stands

LEMMA NextBooked ==
  ASSUME IInv, Together, Shapes, Booked, [Next]_vars
  PROVE  Booked'
  <1> USE DEF Filling, Meeting
  <1>1. \A t \in Task : pc[t] \in {"send", "barrier", "return"} => \E off, last : Stands(t, off, last)
    BY DEF Booked
  <1>2. SUFFICES ASSUME NEW a \in Task, pc'[a] \in {"send", "barrier", "return"}
                 PROVE  \E off, last : Stands(a, off, last)'
    BY DEF Booked
  <1>3. IInv'
    BY NextIInv
  <1>4. ASSUME pc'[a] = pc[a], level'[a] = level[a], ngrp'[a] = ngrp[a], nbuffer'[a] = nbuffer[a],
               DensDataGet'[a] = DensDataGet[a], DensDataResult'[a] = DensDataResult[a],
               DensDataIn' = DensDataIn
        PROVE  \E off, last : Stands(a, off, last)'
    BY <1>1, <1>2, <1>4, BooksUnchanged
  <1>5. CASE GatherCounts
    <2>1. /\ pc'[a] = "send" /\ level'[a] = 1 /\ ngrp'[a] = level'[a] /\ nbuffer'[a] = EveryTask(0)
          /\ DensDataGet'[a] = <<>>
      BY <1>2, <1>5 DEF GatherCounts, AllAt, buffers, EveryTask, IInv, Counted
    <2>2. level'[a] \in 1 .. Groups
      BY <1>3 DEF IInv, Typed
    <2> QED BY <2>1, <2>2, LevelStarts
  <1>6. CASE Barrier
    <2>1. pc[a] = "barrier"
      BY <1>6 DEF Barrier, AllAt
    <2>2. PICK off, last : Stands(a, off, last)
      BY <1>1, <2>1
    <2>3. Stands(a, off, last)'
      BY <1>6, <2>2, BarrierPassed
    <2> QED BY <2>3
  <1>7. CASE RoundEnds \/ GatherLeft
    BY <1>2, <1>7 DEF RoundEnds, GatherLeft, EveryTask
  <1>8. ASSUME NEW t \in Task, Fill(t) \/ FillEnds(t) \/ Decide(t) \/ Restore(t)
        PROVE  \E off, last : Stands(a, off, last)'
    <2>1. pc[t] \notin Meeting
      BY <1>8 DEF Fill, FillEnds, Decide, Restore
    <2>2. pc[a] \notin Meeting
      BY <2>1, SameStage
    <2>3. pc'[a] \notin Meeting
      BY <1>8, <2>2 DEF Fill, FillEnds, Decide, Restore, Goto, IInv, Typed
    <2> QED BY <1>2, <2>3
  <1>9. ASSUME NEW t \in Task, EvaluateReceived(t)
        PROVE  \E off, last : Stands(a, off, last)'
    <2>1. CASE a = t
      <3>1. pc[t] = "send"
        BY <1>9 DEF EvaluateReceived
      <3>2. PICK off, last : Stands(t, off, last)
        BY <1>1, <3>1
      <3>3. Stands(t, off, last)'
        BY <1>9, <3>2, ReceivedEvaluated
      <3> QED BY <2>1, <3>3
    <2>2. CASE a # t
      <3>1. /\ DOMAIN DensDataGet = Task /\ DOMAIN DensDataResult = Task /\ pc \in [Task -> Place]
        BY DEF IInv, Typed, Shapes
      <3> QED BY <1>4, <1>9, <2>2, <3>1 DEF EvaluateReceived, Goto, export, groups
    <2> QED BY <2>1, <2>2
  <1>10. ASSUME NEW t \in Task, LevelEnds(t)
         PROVE  \E off, last : Stands(a, off, last)'
    <2>1. CASE a = t
      <3>1. /\ pc[t] = "return" /\ pc'[t] = "send" /\ ngrp'[t] = level'[t] /\ nbuffer'[t] = EveryTask(0)
            /\ DensDataGet'[t] = <<>>
        BY <1>2, <1>10, <2>1 DEF LevelEnds, Goto, IInv, Typed, Counted
      <3>2. level'[t] \in 1 .. Groups
        BY <1>3 DEF IInv, Typed
      <3> QED BY <2>1, <3>1, <3>2, LevelStarts
    <2>2. CASE a # t
      <3>1. /\ DOMAIN level = Task /\ DOMAIN nbuffer = Task /\ DOMAIN DensDataResult = Task
            /\ pc \in [Task -> Place]
        BY DEF IInv, Typed, Shapes
      <3> QED BY <1>4, <1>10, <2>2, <3>1 DEF LevelEnds, Goto, export
    <2> QED BY <2>1, <2>2
  <1>11. ASSUME NEW T, Count(T), a \notin T, DensDataIn' = DensDataIn,
                DensDataGet'[a] = DensDataGet[a], DensDataResult'[a] = DensDataResult[a]
         PROVE  \E off, last : Stands(a, off, last)'
    BY <1>4, <1>11 DEF Count
  <1>12. ASSUME NEW T \in SUBSET Task, Count(T), a \in T, ~LevelOver(a), DensDataIn' = DensDataIn,
                pc[a] \in {"send", "return"}, DensDataResult'[a] = DensDataResult[a],
                pc[a] = "send" =>
                  IF Partner(a) < NTask THEN DensDataGet'[a] = DensDataGet[a] \o Received(a, Partner(a))
                  ELSE DensDataGet'[a] = DensDataGet[a]
         PROVE  \E off, last : Stands(a, off, last)'
    <2>1. /\ pc' = pc /\ level'[a] = level[a] /\ ngrp'[a] = ngrp[a] + 1
          /\ nbuffer'[a] = [j \in Task |-> nbuffer[a][j] + Incoming(j, ngrp[a])]
      BY <1>12 DEF Count
    <2>2. PICK off, last : Stands(a, off, last)
      BY <1>1, <1>12
    <2>3. CASE pc[a] = "send"
      BY <1>12, <2>1, <2>2, <2>3, GroupSent
    <2>4. CASE pc[a] = "return"
      <3>1. Stands(a, off, last)'
        BY <1>12, <2>1, <2>2, <2>4, GroupReturned
      <3> QED BY <3>1
    <2> QED BY <1>12, <2>3, <2>4
  <1>13. ASSUME NEW t \in Task, Skip(t)
         PROVE  \E off, last : Stands(a, off, last)'
    <2>1. /\ Count({t}) /\ ~LevelOver(t) /\ NothingToSend(t) /\ pc[t] \in {"send", "return"}
          /\ UNCHANGED <<DensDataIn, DensDataGet, DensDataResult>>
      BY <1>13 DEF Skip, export, buffers
    <2>2. CASE a # t
      BY <1>11, <2>1, <2>2
    <2>3. CASE a = t
      <3>1. ASSUME Partner(t) < NTask
            PROVE  DensDataGet[t] = DensDataGet[t] \o Received(t, Partner(t))
        <4>1. nsend(Partner(t), t) = 0
          BY <2>1, <3>1 DEF NothingToSend
        <4>2. Received(t, Partner(t)) = <<>>
          BY <4>1 DEF Received
        <4>3. DensDataGet[t] \in Seq(Copy)
          BY DEF IInv, Typed
        <4> QED BY <4>2, <4>3
      <3> QED BY <1>12, <2>1, <2>3, <3>1
    <2> QED BY <2>2, <2>3
  <1>14. ASSUME NEW t \in Task, NEW u \in Task, Send(t, u)
         PROVE  \E off, last : Stands(a, off, last)'
    <2>1. /\ Count({t, u}) /\ ~LevelOver(t) /\ ~LevelOver(u) /\ t # u
          /\ pc[t] = "send" /\ pc[u] = "send" /\ Partner(t) = u /\ Partner(u) = t
          /\ UNCHANGED <<DensDataIn, DensDataResult>>
          /\ DensDataGet' = [DensDataGet EXCEPT ![t] = @ \o Received(t, u), ![u] = @ \o Received(u, t)]
      BY <1>14 DEF Send, Meet, export, Task
    <2>2. DOMAIN DensDataGet = Task
      BY DEF IInv, Typed
    <2>3. PICK x, y : x = DensDataGet[t] \o Received(t, u) /\ y = DensDataGet[u] \o Received(u, t)
      OBVIOUS
    <2>4. DensDataGet' = [DensDataGet EXCEPT ![t] = x, ![u] = y]
      BY <2>1, <2>2, <2>3
    <2>5. /\ DensDataGet'[t] = x /\ DensDataGet'[u] = y
          /\ \A b \in Task \ {t, u} : DensDataGet'[b] = DensDataGet[b]
      BY <2>1, <2>2, <2>4
    <2>6. t < NTask /\ u < NTask
      BY Constants DEF Task
    <2>7. CASE a \notin {t, u}
      BY <1>11, <2>1, <2>5, <2>7
    <2>8. CASE a = t
      BY <1>12, <2>1, <2>3, <2>5, <2>6, <2>8
    <2>9. CASE a = u
      BY <1>12, <2>1, <2>3, <2>5, <2>6, <2>9
    <2> QED BY <2>7, <2>8, <2>9
  <1>15. ASSUME NEW t \in Task, NEW u \in Task, Return(t, u)
         PROVE  \E off, last : Stands(a, off, last)'
    <2>1. /\ Count({t, u}) /\ ~LevelOver(t) /\ ~LevelOver(u)
          /\ pc[t] = "return" /\ pc[u] = "return"
          /\ UNCHANGED <<DensDataIn, DensDataGet, DensDataResult>>
      BY <1>15 DEF Return, Meet, export, buffers
    <2>2. CASE a \notin {t, u}
      BY <1>11, <2>1, <2>2
    <2>3. CASE a \in {t, u}
      BY <1>12, <2>1, <2>3
    <2> QED BY <2>2, <2>3
  <1>16. CASE UNCHANGED vars
    BY <1>4, <1>16 DEF vars, export, groups, buffers
  <1> QED BY <1>5, <1>6, <1>7, <1>8, <1>9, <1>10, <1>13, <1>14, <1>15, <1>16 DEF Next

-------------------------------------------------------------------------------
LEMMA ExactUnchanged ==
  ASSUME Exact, UNCHANGED <<DensDataIn, sums, touched>>, \A t \in Task : Ahead(t)' = Ahead(t)
  PROVE  Exact'
  <1>1. \A t \in Task : \A i : Pending(t, i)' = Pending(t, i)
    BY DEF Pending, Awaited, Listed, nsend
  <1> QED BY <1>1 DEF Exact, AddedFrom, ResultFor

LEMMA AheadType == ASSUME IInv, NEW t \in Task PROVE Ahead(t) \in 1 .. Groups
  BY Constants DEF IInv, Typed, Ahead

(* One group of pairs further, one task less to wait for.                  *)
LEMMA AwaitedLess ==
  ASSUME IInv, NEW t \in Task, pc[t] = "return", pc'[t] = "return", ~LevelOver(t),
         ngrp'[t] = ngrp[t] + 1
  PROVE  /\ Awaited(t)' = Awaited(t) \ {Partner(t)}
         /\ Partner(t) < NTask => Partner(t) \in Awaited(t)
  <1>1. PICK n : n = ngrp[t] /\ n \in 1 .. Groups - 1
    BY GroupFits
  <1>2. Ahead(t) = n /\ Ahead(t)' = n + 1 /\ Partner(t) = PairedBy[<<t, n>>]
    BY <1>1 DEF Ahead, Partner
  <1>3. /\ n \in Nat /\ n \in n .. Groups - 1
        /\ \A m \in n .. Groups - 1 : m \in 1 .. Groups - 1 /\ (m # n <=> m \in n + 1 .. Groups - 1)
        /\ \A m \in n + 1 .. Groups - 1 : m \in n .. Groups - 1 /\ m # n
    <2>1. PICK g \in Nat : g = Groups
      BY Constants
    <2>2. n \in 1 .. g - 1
      BY <1>1, <2>1
    <2> QED BY <2>1, <2>2
  <1>4. \A m \in n .. Groups - 1 : PairedBy[<<t, m>>] = PairedBy[<<t, n>>] => m = n
    BY <1>3, XorAssumption
  <1>5. Awaited(t)' = Awaited(t) \ {Partner(t)}
    BY <1>2, <1>3, <1>4 DEF Awaited
  <1>6. Partner(t) < NTask => Partner(t) \in Awaited(t)
    <2>1. Partner(t) < NTask => PairedBy[<<t, n>>] \in Task
      BY <1>1, <1>2, Partnership
    <2> QED BY <1>2, <1>3, <2>1 DEF Awaited
  <1> QED BY <1>5, <1>6

LEMMA ReturnExact ==
  ASSUME IInv, Shapes, Lists, Booked, Exact, NEW t \in Task, NEW u \in Task,
         pc[t] = "return", pc'[t] = "return", pc[u] = "return", ~LevelOver(t), ~LevelOver(u),
         Partner(t) = u, Partner(u) = t, ngrp'[t] = ngrp[t] + 1,
         DensDataIn' = DensDataIn, touched' = touched, sums'[t] = Added(t, u),
         NEW i \in Gas(t), touched[t][i] # {Nobody}
  PROVE  AddedFrom(t, i, touched[t][i] \ Pending(t, i))'
  <1>1. PICK n : n = ngrp[t] /\ n \in 1 .. Groups - 1
    BY GroupFits
  <1>2. PairedBy[<<t, n>>] = u /\ t < NTask /\ u < NTask
    BY <1>1, Constants DEF Partner, Task
  <1>3. PairedBy[<<u, n>>] = t /\ t # u
    BY <1>1, <1>2, Partnership
  <1>4. ngrp[u] = n
    BY <1>1, <1>3, GroupFits, XorAssumption DEF Partner
  <1>5. PICK off, last : Stands(u, off, last)
    BY DEF Booked, Meeting
  <1>6. n \in level[u] .. last - 1 /\ nbuffer[u] = off[n] /\ ResultHolds(u, off, last)
    BY <1>4, <1>5, WithinLevel
  <1>7. \A x \in 1 .. nsend(t, u) :
          DensDataResult[u][nbuffer[u][u] + x] = [for |-> CopyOf(t, u, x), by |-> u]
    BY <1>2, <1>3, <1>6 DEF ResultHolds, LaidOut
  <1>8. \A x \in 1 .. nsend(t, u) : Returned(t, u, x) = ResultFor(t, DensDataIn[t][u][x], u)
    BY <1>7 DEF Returned, ResultFor, CopyOf
  <1>9. PICK for : for = {x \in 1 .. nsend(t, u) : DensDataIn[t][u][x] = i}
    OBVIOUS
  <1>10. sums'[t][i] = [number |-> sums[t][i].number + Cardinality(for),
                        of |-> sums[t][i].of \cup {Returned(t, u, x) : x \in for}]
    BY <1>9 DEF Added
  <1>11. PICK before, pending : before = touched[t][i] \ pending /\ pending = Pending(t, i)
    OBVIOUS
  <1>12. sums[t][i] = [number |-> Cardinality(before), of |-> {ResultFor(t, i, v) : v \in before}]
    BY <1>11 DEF Exact, AddedFrom
  <1>13. touched[t][i] \in SUBSET (Task \ {t})
    BY DEF Shapes
  <1>14. IsFiniteSet(before) /\ Cardinality(before) \in Nat
    <2>1. before \in SUBSET Task
      BY <1>11, <1>13, NobodyNoTask
    <2>2. IsFiniteSet(Task)
      BY FS_Interval, Constants DEF Task
    <2> QED BY <2>1, <2>2, FS_Subset, FS_CardinalityType
  <1>15. Awaited(t)' = Awaited(t) \ {u} /\ u \in Awaited(t)
    BY <1>2, AwaitedLess
  <1>16. \A v : Listed(t, v)' = Listed(t, v)
    BY DEF Listed, nsend
  <1>17. Pending(t, i)' = pending \ {u}
    BY <1>11, <1>15, <1>16 DEF Pending
  <1>18. ASSUME NEW after, after = touched[t][i] \ Pending(t, i)',
                sums'[t][i] = [number |-> Cardinality(after), of |-> {ResultFor(t, i, v) : v \in after}]
         PROVE  AddedFrom(t, i, touched[t][i] \ Pending(t, i))'
    BY <1>18 DEF AddedFrom, ResultFor
  <1>19. CASE i \in Listed(t, u)
    <2>1. PICK x \in 1 .. nsend(t, u) : DensDataIn[t][u][x] = i
      BY <1>19 DEF Listed
    <2>2. for = {x}
      BY <1>9, <2>1 DEF Lists
    <2>3. Cardinality(for) = 1 /\ {Returned(t, u, y) : y \in for} = {ResultFor(t, i, u)}
      <3>1. Cardinality({x}) = 1
        BY FS_Singleton
      <3>2. Returned(t, u, x) = ResultFor(t, i, u)
        BY <1>8, <2>1
      <3>3. {Returned(t, u, y) : y \in {x}} = {Returned(t, u, x)}
        OBVIOUS
      <3> QED BY <2>2, <3>1, <3>2, <3>3
    <2>4. u \in touched[t][i] /\ u \in pending
      BY <1>11, <1>15, <1>19, <2>1 DEF Lists, Pending
    <2>5. PICK after : after = before \cup {u}
      OBVIOUS
    <2>6. after = touched[t][i] \ Pending(t, i)' /\ u \notin before
      BY <1>11, <1>17, <2>4, <2>5
    <2>7. Cardinality(after) = Cardinality(before) + 1
      BY <1>14, <2>5, <2>6, FS_AddElement
    <2>8. {ResultFor(t, i, v) : v \in after} = {ResultFor(t, i, v) : v \in before} \cup {ResultFor(t, i, u)}
      BY <2>5
    <2>9. sums'[t][i] = [number |-> Cardinality(after), of |-> {ResultFor(t, i, v) : v \in after}]
      BY <1>10, <1>12, <2>3, <2>7, <2>8
    <2> QED BY <1>18, <2>6, <2>9
  <1>20. CASE i \notin Listed(t, u)
    <2>1. for = {}
      BY <1>9, <1>20 DEF Listed
    <2>2. Cardinality(for) = 0 /\ {Returned(t, u, y) : y \in for} = {}
      BY <2>1, FS_EmptySet
    <2>3. before = touched[t][i] \ Pending(t, i)'
      BY <1>11, <1>17, <1>20 DEF Pending
    <2>4. sums'[t][i] = [number |-> Cardinality(before), of |-> {ResultFor(t, i, v) : v \in before}]
      BY <1>10, <1>12, <1>14, <2>2
    <2> QED BY <1>18, <2>3, <2>4
  <1> QED BY <1>19, <1>20

LEMMA FillExact ==
  ASSUME IInv, Together, Shapes, Lists, Exact, NEW t \in Task, Fill(t)
  PROVE  Exact'
  <1>1. /\ pc' = pc /\ UNCHANGED <<level, ngrp>>
        /\ \A a \in Task : pc[a] \in Filling
    BY SameStage DEF Fill, groups, Filling
  <1>2. \A a \in Task : Ahead(a) = 1 /\ Ahead(a)' = 1
    BY <1>1 DEF Ahead, Filling
  <1>3. CASE ~Active(t, next[t])
    BY <1>2, <1>3, ExactUnchanged DEF Fill, export, results
  <1>4. CASE Active(t, next[t])
    <2>1. PICK i : i = next[t]
      OBVIOUS
    <2>2. i \in Gas(t) /\ i \in Nat
      <3>1. i \in Nat /\ i < N_gas[t] /\ N_gas[t] \in Nat
        BY <2>1, GasNat DEF Fill, IInv, Typed
      <3> QED BY <3>1 DEF Gas
    <2>3. PICK S \in Reach[t][i] :
            /\ touched' = [touched EXCEPT ![t][i] = S]
            /\ sums' = [sums EXCEPT ![t][i] = NoResults]
            /\ DensDataIn' = [DensDataIn EXCEPT ![t] =
                                [u \in Task |-> IF u \in S THEN Append(@[u], i) ELSE @[u]]]
      BY <1>4, <2>1 DEF Fill, Evaluate
    <2>4. S \in SUBSET (Task \ {t})
      BY <2>2, SizesAssumption
    <2>5. /\ touched'[t][i] = S /\ sums'[t][i] = NoResults
          /\ \A a \in Task : \A k \in Gas(a) : ~(a = t /\ k = i) =>
               touched'[a][k] = touched[a][k] /\ sums'[a][k] = sums[a][k]
      BY <2>2, <2>3 DEF Shapes
    <2>6. \A a, u \in Task : DensDataIn[a][u] \in Seq(Nat) /\ nsend(a, u) \in Nat
      BY DEF IInv, Typed, nsend
    <2>7. DensDataIn \in [Task -> [Task -> Seq(Nat)]]
      BY DEF IInv, Typed
    <2>8. \A a \in Task \ {t} : DensDataIn'[a] = DensDataIn[a]
      BY <2>3, <2>7
    <2>9. \A u \in Task : DensDataIn'[t][u] = IF u \in S THEN Append(DensDataIn[t][u], i)
                                              ELSE DensDataIn[t][u]
      BY <2>3, <2>7
    <2>10. \A a \in Task \ {t} : \A u \in Task : Listed(a, u)' = Listed(a, u)
      BY <2>8 DEF Listed, nsend
    <2>11. ASSUME NEW u \in Task
           PROVE  Listed(t, u)' = IF u \in S THEN Listed(t, u) \cup {i} ELSE Listed(t, u)
      <3>1. CASE u \in S
        <4>1. PICK old \in Seq(Nat) : old = DensDataIn[t][u]
          BY <2>6
        <4>2. PICK new : new = Append(old, i)
          OBVIOUS
        <4>3. /\ Len(new) = Len(old) + 1 /\ Len(old) \in Nat
              /\ \A x \in 1 .. Len(old) : new[x] = old[x]
              /\ new[Len(old) + 1] = i
          BY <2>2, <4>2, Appended
        <4>4. {new[x] : x \in 1 .. Len(new)} = {old[x] : x \in 1 .. Len(old)} \cup {i}
          <5>1. \A x \in 1 .. Len(new) : x \in 1 .. Len(old) \/ x = Len(old) + 1
            BY <4>3
          <5>2. \A x \in 1 .. Len(old) : x \in 1 .. Len(new)
            BY <4>3
          <5>3. Len(old) + 1 \in 1 .. Len(new)
            BY <4>3
          <5> QED BY <4>3, <5>1, <5>2, <5>3
        <4>5. DensDataIn'[t][u] = new
          BY <2>9, <3>1, <4>1, <4>2
        <4> QED BY <3>1, <4>1, <4>4, <4>5 DEF Listed, nsend
      <3>2. CASE u \notin S
        BY <2>9, <3>2 DEF Listed, nsend
      <3> QED BY <3>1, <3>2
    <2>12. \A a \in Task : Awaited(a)' = Awaited(a)
      BY <1>2 DEF Awaited
    <2>13. \A u \in S : u \in Awaited(t)'
      <3> SUFFICES ASSUME NEW u \in S PROVE u \in Awaited(t)'
        OBVIOUS
      <3>1. u \in Task /\ u # t
        BY <2>4
      <3>2. \E n \in 1 .. Groups - 1 : PairedBy[<<t, n>>] = u
        BY <3>1, XorAssumption
      <3> QED BY <1>2, <3>1, <3>2 DEF Awaited
    <2>14. Pending(t, i)' = S
      <3>1. \A u \in Task : i \notin Listed(t, u)
        BY <2>1, <2>2, <2>6 DEF Lists, Listed
      <3>2. \A u \in Task : i \in Listed(t, u)' <=> u \in S
        BY <2>11, <3>1
      <3>3. Awaited(t)' \subseteq Task
        BY DEF Awaited
      <3> QED BY <2>4, <2>13, <3>2, <3>3 DEF Pending
    <2>15. \A a \in Task : \A k \in Gas(a) : ~(a = t /\ k = i) => Pending(a, k)' = Pending(a, k)
      <3> SUFFICES ASSUME NEW a \in Task, NEW k \in Gas(a), ~(a = t /\ k = i)
                   PROVE  Pending(a, k)' = Pending(a, k)
        OBVIOUS
      <3>1. \A u \in Task : k \in Listed(a, u)' <=> k \in Listed(a, u)
        BY <2>10, <2>11
      <3>2. Awaited(a)' = Awaited(a) /\ Awaited(a) \subseteq Task
        BY <2>12 DEF Awaited
      <3> QED BY <3>1, <3>2 DEF Pending
    <2>16. AddedFrom(t, i, touched[t][i] \ Pending(t, i))'
      <3>1. S \ S = {} /\ {ResultFor(t, i, u) : u \in {}} = {}
        OBVIOUS
      <3>2. sums'[t][i] = [number |-> Cardinality({}), of |-> {ResultFor(t, i, u) : u \in {}}]
        BY <2>5, <3>1, FS_EmptySet DEF NoResults
      <3>3. touched'[t][i] \ Pending(t, i)' = {}
        BY <2>5, <2>14
      <3> QED BY <3>2, <3>3 DEF AddedFrom, ResultFor
    <2> SUFFICES ASSUME NEW a \in Task, NEW k \in Gas(a), touched'[a][k] # {Nobody}
                 PROVE  AddedFrom(a, k, touched[a][k] \ Pending(a, k))'
      BY DEF Exact
    <2>17. CASE a = t /\ k = i
      BY <2>16, <2>17
    <2>18. CASE ~(a = t /\ k = i)
      BY <2>5, <2>15, <2>18 DEF Exact, AddedFrom, ResultFor
    <2> QED BY <2>17, <2>18
  <1> QED BY <1>3, <1>4

LEMMA NextExact ==
  ASSUME IInv, Together, Shapes, Lists, Booked, Exact, [Next]_vars
  PROVE  Exact'
  <1>1. pc \in [Task -> Place] /\ ngrp \in [Task -> 1 .. Groups] /\ level \in [Task -> 1 .. Groups]
    BY DEF IInv, Typed
  <1>2. ASSUME NEW t \in Task, Fill(t)
        PROVE  Exact'
    BY <1>2, FillExact
  <1>3. ASSUME NEW t \in Task, FillEnds(t) \/ EvaluateReceived(t) \/ Decide(t) \/ Restore(t)
        PROVE  Exact'
    <2>1. /\ UNCHANGED <<DensDataIn, sums, touched, level, ngrp>>
          /\ \A a \in Task \ {t} : pc'[a] = pc[a]
          /\ \/ pc[t] \in {"send", "barrier"} /\ pc'[t] \in {"send", "barrier"}
             \/ pc[t] \notin Meeting /\ pc'[t] \notin Meeting
      BY <1>1, <1>3 DEF FillEnds, EvaluateReceived, Decide, Restore, Goto, export, groups, results, Meeting
    <2>2. \A a \in Task : Ahead(a)' = Ahead(a)
      BY <2>1 DEF Ahead, Meeting
    <2> QED BY <2>1, <2>2, ExactUnchanged
  <1>4. CASE GatherCounts
    <2>1. /\ UNCHANGED <<DensDataIn, sums, touched>>
          /\ \A a \in Task : /\ pc[a] = "counts" /\ pc'[a] = IF Groups > 1 THEN "send" ELSE "round"
                             /\ level'[a] = 1
      BY <1>4 DEF GatherCounts, AllAt, export, results, EveryTask
    <2>2. \A a \in Task : Ahead(a)' = Ahead(a)
      BY <2>1, Constants DEF Ahead
    <2> QED BY <2>1, <2>2, ExactUnchanged
  <1>5. CASE Barrier
    <2>1. /\ UNCHANGED <<DensDataIn, sums, touched>>
          /\ \A a \in Task : pc[a] = "barrier" /\ pc'[a] = "return" /\ ngrp'[a] = level[a]
      BY <1>5 DEF Barrier, AllAt, export, results, EveryTask
    <2>2. \A a \in Task : Ahead(a)' = Ahead(a)
      BY <2>1 DEF Ahead
    <2> QED BY <2>1, <2>2, ExactUnchanged
  <1>6. ASSUME NEW t \in Task, LevelEnds(t)
        PROVE  Exact'
    <2>1. /\ UNCHANGED <<DensDataIn, sums, touched, ngrp>>
          /\ \A a \in Task \ {t} : pc'[a] = pc[a] /\ level'[a] = level[a]
          /\ pc[t] = "return" /\ level'[t] = ngrp[t]
          /\ pc'[t] = IF ngrp[t] < Groups THEN "send" ELSE "round"
      BY <1>1, <1>6 DEF LevelEnds, Goto, export, results
    <2>2. ngrp[t] \in 1 .. Groups
      BY <1>1
    <2>3. ngrp[t] < Groups \/ ngrp[t] = Groups
      BY <2>2, Constants
    <2>4. \A a \in Task : Ahead(a)' = Ahead(a)
      BY <2>1, <2>3 DEF Ahead
    <2> QED BY <2>1, <2>4, ExactUnchanged
  <1>7. CASE RoundEnds
    <2>1. /\ UNCHANGED <<sums, touched>> /\ DensDataIn' = Empty /\ \A t \in Task : pc[t] = "round"
      BY <1>7 DEF RoundEnds, AllAt, results
    <2>2. \A t \in Task : \A i : Pending(t, i) = {}
      <3>1. Groups .. Groups - 1 = {}
        BY Constants
      <3> QED BY <2>1, <3>1 DEF Pending, Awaited, Ahead
    <2>3. \A t \in Task : \A i : Pending(t, i)' = {}
      <3>1. \A t, u \in Task : DensDataIn'[t][u] = <<>>
        BY <2>1 DEF Empty, EveryTask
      <3>2. \A t, u \in Task : Listed(t, u)' = {}
        BY <3>1 DEF Listed, nsend
      <3> QED BY <3>2 DEF Pending, Awaited
    <2> QED BY <2>1, <2>2, <2>3 DEF Exact, AddedFrom, ResultFor
  <1>8. CASE GatherLeft
    BY <1>8 DEF GatherLeft, Untouched, Exact
  <1>9. ASSUME NEW t \in Task, Skip(t)
        PROVE  Exact'
    <2>1. /\ UNCHANGED <<DensDataIn, sums, touched>>
          /\ Count({t}) /\ pc[t] \in {"send", "return"} /\ ~LevelOver(t) /\ NothingToSend(t)
      BY <1>9 DEF Skip, export, results
    <2>2. /\ pc' = pc /\ level' = level /\ \A a \in Task \ {t} : ngrp'[a] = ngrp[a]
          /\ ngrp'[t] = ngrp[t] + 1
      BY <2>1 DEF Count
    <2>3. CASE pc[t] = "send"
      <3>1. \A a \in Task : Ahead(a)' = Ahead(a)
        BY <2>2, <2>3 DEF Ahead
      <3> QED BY <2>1, <3>1, ExactUnchanged
    <2>4. CASE pc[t] = "return"
      <3>1. \A a, u \in Task : Listed(a, u)' = Listed(a, u)
        BY <2>1 DEF Listed, nsend
      <3>2. \A a \in Task \ {t} : Awaited(a)' = Awaited(a)
        BY <2>2 DEF Awaited, Ahead
      <3>3. Awaited(t)' = Awaited(t) \ {Partner(t)}
        BY <2>1, <2>2, <2>4, AwaitedLess
      <3>4. Partner(t) \in Task => Listed(t, Partner(t)) = {}
        <4>1. ASSUME Partner(t) \in Task
              PROVE  nsend(t, Partner(t)) = 0
          <5>1. Partner(t) < NTask
            BY <4>1, Constants DEF Task
          <5> QED BY <2>1, <5>1 DEF NothingToSend
        <4> QED BY <4>1 DEF Listed
      <3>5. ASSUME NEW a \in Task, NEW i
            PROVE  Pending(a, i)' = Pending(a, i)
        <4>1. Awaited(a) \subseteq Task /\ Awaited(a)' \subseteq Task
          BY DEF Awaited
        <4>2. CASE a # t
          BY <3>1, <3>2, <4>1, <4>2 DEF Pending
        <4>3. CASE a = t
          BY <3>1, <3>3, <3>4, <4>1, <4>3 DEF Pending
        <4> QED BY <4>2, <4>3
      <3> QED BY <2>1, <3>5 DEF Exact, AddedFrom, ResultFor
    <2> QED BY <2>1, <2>3, <2>4
  <1>10. ASSUME NEW t \in Task, NEW u \in Task, Send(t, u)
         PROVE  Exact'
    <2>1. /\ UNCHANGED <<DensDataIn, sums, touched>>
          /\ Count({t, u}) /\ pc[t] = "send" /\ pc[u] = "send"
      BY <1>10 DEF Send, Meet, export, results
    <2>2. /\ pc' = pc /\ level' = level /\ \A a \in Task \ {t, u} : ngrp'[a] = ngrp[a]
      BY <2>1 DEF Count
    <2>3. \A a \in Task : Ahead(a)' = Ahead(a)
      BY <2>1, <2>2 DEF Ahead
    <2> QED BY <2>1, <2>3, ExactUnchanged
  <1>11. ASSUME NEW t \in Task, NEW u \in Task, Return(t, u)
         PROVE  Exact'
    <2>1. /\ DensDataIn' = DensDataIn /\ touched' = touched
          /\ Count({t, u}) /\ pc[t] = "return" /\ pc[u] = "return" /\ t # u
          /\ ~LevelOver(t) /\ ~LevelOver(u) /\ Partner(t) = u /\ Partner(u) = t
          /\ sums' = [sums EXCEPT ![t] = Added(t, u), ![u] = Added(u, t)]
      BY <1>11 DEF Return, Meet, export, Task
    <2>2. /\ pc' = pc /\ level' = level /\ \A a \in Task \ {t, u} : ngrp'[a] = ngrp[a]
          /\ ngrp'[t] = ngrp[t] + 1 /\ ngrp'[u] = ngrp[u] + 1
      BY <2>1 DEF Count
    <2>3. /\ sums'[t] = Added(t, u) /\ sums'[u] = Added(u, t)
          /\ \A a \in Task \ {t, u} : sums'[a] = sums[a]
      BY <2>1 DEF Shapes
    <2> SUFFICES ASSUME NEW a \in Task, NEW i \in Gas(a), touched'[a][i] # {Nobody}
                 PROVE  AddedFrom(a, i, touched[a][i] \ Pending(a, i))'
      BY DEF Exact
    <2>4. touched[a][i] # {Nobody}
      BY <2>1
    <2>5. CASE a = t
      BY <2>1, <2>2, <2>3, <2>4, <2>5, ReturnExact
    <2>6. CASE a = u
      BY <2>1, <2>2, <2>3, <2>4, <2>6, ReturnExact
    <2>7. CASE a \notin {t, u}
      <3>1. Ahead(a)' = Ahead(a)
        BY <2>2, <2>7 DEF Ahead
      <3>2. Pending(a, i)' = Pending(a, i)
        BY <2>1, <3>1 DEF Pending, Awaited, Listed, nsend
      <3> QED BY <2>1, <2>3, <2>4, <2>7, <3>2 DEF Exact, AddedFrom, ResultFor
    <2> QED BY <2>5, <2>6, <2>7
  <1>12. CASE UNCHANGED vars
    <2>1. UNCHANGED <<DensDataIn, sums, touched, pc, level, ngrp>>
      BY <1>12 DEF vars, export, results, groups
    <2>2. \A a \in Task : Ahead(a)' = Ahead(a)
      BY <2>1 DEF Ahead
    <2> QED BY <2>1, <2>2, ExactUnchanged
  <1> QED BY <1>2, <1>3, <1>4, <1>5, <1>6, <1>7, <1>8, <1>9, <1>10, <1>11, <1>12 DEF Next

-------------------------------------------------------------------------------
LEMMA RestFinite ==
  ASSUME NEW t \in Task
  PROVE  IsFiniteSet(Rest(t)) /\ Cardinality(Rest(t)) \in Nat /\ NumActive(t) \in Nat
  <1>1. Rest(t) \in SUBSET Gas(t) /\ {i \in Gas(t) : Active(t, i)} \in SUBSET Gas(t)
    BY DEF Rest
  <1> QED BY <1>1, CountOfGas DEF NumActive

LEMMA ReckonedUnchanged ==
  ASSUME Reckoned, UNCHANGED <<particles, ndone, totals, touched>>,
         \A a \in Task : \/ pc'[a] = pc[a]
                         \/ pc[a] \in Filling \cup Meeting /\ pc'[a] \in Filling \cup Meeting
  PROVE  Reckoned'
  <1>1. \A a \in Task : Rest(a)' = Rest(a) /\ NumActive(a)' = NumActive(a)
    BY DEF Rest, NumActive, Active, particles
  <1>2. \A a \in Task : \A i : Active(a, i)' <=> Active(a, i)
    BY DEF Active, particles
  <1>3. UNCHANGED <<next, ndone, touched, ntot, ntotleft, npleft, niter>>
    BY DEF particles, totals
  <1>4. [a \in Task |-> Cardinality(Rest(a)) + ndone[a]]' = [a \in Task |-> Cardinality(Rest(a)) + ndone[a]]
    BY <1>1, <1>3
  <1>5. Total([a \in Task |-> Cardinality(Rest(a)) + ndone[a]])' = Total([a \in Task |-> Cardinality(Rest(a)) + ndone[a]])
    BY <1>4 DEF Total
  <1> QED BY <1>1, <1>2, <1>3, <1>5 DEF Reckoned, Filling, Meeting

LEMMA FillReckoned ==
  ASSUME IInv, Shapes, Together, Reckoned, NEW t \in Task, Fill(t)
  PROVE  Reckoned'
  <1>1. /\ pc' = pc /\ UNCHANGED <<Ti_endstep, ntot, ntotleft, npleft, niter>>
        /\ \A a \in Task : pc[a] \in Filling
    BY SameStage DEF Fill, totals, Filling
  <1>2. PICK i : i = next[t]
    OBVIOUS
  <1>3. i \in Gas(t) /\ i \in Nat
    <2>1. i \in Nat /\ i < N_gas[t] /\ N_gas[t] \in Nat
      BY <1>2, GasNat DEF Fill, IInv, Typed
    <2> QED BY <2>1 DEF Gas
  <1>4. /\ next \in [Task -> Nat] /\ ndone \in [Task -> Nat]
        /\ next' = [next EXCEPT ![t] = @ + 1]
    BY DEF IInv, Typed, Shapes, Fill
  <1>5. \A a \in Task : \A k : Active(a, k)' <=> Active(a, k)
    BY <1>1 DEF Active
  <1>6. \A a \in Task \ {t} : Rest(a)' = Rest(a)
    BY <1>4, <1>5 DEF Rest
  <1>7. Rest(t)' = Rest(t) \ {i}
    <2>1. next'[t] = i + 1
      BY <1>2, <1>4
    <2>2. \A k \in Gas(t) : i + 1 <= k <=> i <= k /\ k # i
      BY <1>3, GasNat
    <2> QED BY <1>2, <1>5, <2>1, <2>2 DEF Rest
  <1>8. \A a \in Task : /\ Cardinality(Rest(a))' + ndone'[a] = Cardinality(Rest(a)) + ndone[a]
                        /\ \A k \in Gas(a) : Active(a, k) /\ k < next'[a] => touched'[a][k] # {Nobody}
    <2>1. CASE Active(t, i)
      <3>1. PICK S \in Reach[t][i] :
              /\ touched' = [touched EXCEPT ![t][i] = S]
              /\ ndone' = [ndone EXCEPT ![t] = @ + 1]
        BY <1>2, <2>1 DEF Fill, Evaluate
      <3>2. i \in Rest(t)
        BY <1>2, <1>3, <2>1 DEF Rest
      <3>3. Cardinality(Rest(t)') = Cardinality(Rest(t)) - 1
        BY <1>7, <3>2, RestFinite, FS_RemoveElement
      <3>4. Cardinality(Rest(t)) \in Nat /\ ndone[t] \in Nat /\ ndone'[t] = ndone[t] + 1
        BY <1>4, <3>1, RestFinite
      <3>5. Cardinality(Rest(t)') + ndone'[t] = Cardinality(Rest(t)) + ndone[t]
        BY <3>3, <3>4
      <3>6. S \in SUBSET (Task \ {t}) /\ touched'[t][i] = S
        BY <1>3, <3>1, SizesAssumption DEF Shapes
      <3>7. \A a \in Task : \A k \in Gas(a) : ~(a = t /\ k = i) => touched'[a][k] = touched[a][k]
        BY <1>3, <3>1 DEF Shapes
      <3>8. \A k \in Gas(t) : k < next'[t] /\ k # i => k < next[t]
        BY <1>2, <1>4, GasNat
      <3>9. \A a \in Task : \A k \in Gas(a) : Active(a, k) /\ k < next'[a] => touched'[a][k] # {Nobody}
        <4> SUFFICES ASSUME NEW a \in Task, NEW k \in Gas(a), Active(a, k), k < next'[a]
                     PROVE  touched'[a][k] # {Nobody}
          OBVIOUS
        <4>1. CASE a = t /\ k = i
          BY <3>6, <4>1, NobodyNoTask
        <4>2. CASE ~(a = t /\ k = i)
          <5>1. k < next[a]
            BY <1>4, <3>8, <4>2
          <5> QED BY <3>7, <4>2, <5>1 DEF Reckoned
        <4> QED BY <4>1, <4>2
      <3>10. \A a \in Task \ {t} : ndone'[a] = ndone[a]
        BY <1>4, <3>1
      <3> QED BY <1>6, <3>5, <3>9, <3>10
    <2>2. CASE ~Active(t, i)
      <3>1. UNCHANGED <<ndone, touched>>
        BY <1>2, <2>2 DEF Fill, export, results
      <3>2. i \notin Rest(t)
        BY <2>2 DEF Rest
      <3>3. \A a \in Task : Rest(a)' = Rest(a)
        BY <1>6, <1>7, <3>2
      <3>4. \A k \in Gas(t) : k < next'[t] /\ k # i => k < next[t]
        BY <1>2, <1>4, GasNat
      <3>5. \A a \in Task \ {t} : next'[a] = next[a]
        BY <1>4
      <3>6. \A a \in Task : \A k \in Gas(a) : Active(a, k) /\ k < next'[a] => k < next[a]
        BY <2>2, <3>4, <3>5
      <3> QED BY <3>1, <3>3, <3>6 DEF Reckoned
    <2> QED BY <2>1, <2>2
  <1>9. Total([a \in Task |-> Cardinality(Rest(a)) + ndone[a]])' = Total([a \in Task |-> Cardinality(Rest(a)) + ndone[a]])
    <2>1. [a \in Task |-> Cardinality(Rest(a)) + ndone[a]]' = [a \in Task |-> Cardinality(Rest(a)) + ndone[a]]
      BY <1>8
    <2> QED BY <2>1 DEF Total
  <1> QED BY <1>1, <1>5, <1>8, <1>9 DEF Reckoned, Filling, Meeting

LEMMA RoundEndsReckoned ==
  ASSUME IInv, Shapes, Reckoned, RoundEnds
  PROVE  Reckoned'
  <1>1. /\ UNCHANGED <<particles, touched, ntot, npleft, niter>>
        /\ ntotleft' = ntotleft - Total(ndone) /\ ndone' = EveryTask(0)
        /\ pc' = EveryTask(IF ntotleft' > 0 THEN "fill" ELSE "final")
        /\ \A t \in Task : pc[t] = "round"
    BY DEF RoundEnds, AllAt, results
  <1>2. PICK rest : rest = [t \in Task |-> Cardinality(Rest(t))]
    OBVIOUS
  <1>3. rest \in [Task -> Nat] /\ ndone \in [Task -> Nat] /\ 0 \in Task
    BY <1>2, RestFinite, Constants DEF Shapes, Task
  <1>4. ntotleft = Total(rest) + Total(ndone)
    <2>1. ntotleft = Total([t \in Task |-> Cardinality(Rest(t)) + ndone[t]])
      BY <1>1, <1>3 DEF Reckoned, Meeting
    <2>2. [t \in Task |-> Cardinality(Rest(t)) + ndone[t]] = [t \in Task |-> rest[t] + ndone[t]]
      BY <1>2
    <2> QED BY <1>3, <2>1, <2>2, TotalOfSum
  <1>5. ntotleft' = Total(rest) /\ Total(rest) \in Nat
    <2>1. Total(rest) \in Nat /\ Total(ndone) \in Nat
      BY <1>3, TotalNat
    <2> QED BY <1>1, <1>4, <2>1
  <1>6. \A t \in Task : Rest(t)' = Rest(t) /\ \A i : Active(t, i)' <=> Active(t, i)
    BY <1>1 DEF Rest, Active, particles
  <1>7. Total([t \in Task |-> Cardinality(Rest(t)) + ndone[t]])' = Total(rest)
    <2>1. \A t \in Task : Cardinality(Rest(t)') + ndone'[t] = rest[t]
      BY <1>1, <1>2, <1>3, <1>6 DEF EveryTask
    <2>2. [t \in Task |-> Cardinality(Rest(t)) + ndone[t]]' = rest
      BY <1>2, <2>1
    <2> QED BY <2>2 DEF Total
  <1>8. ntotleft' > 0 \/ \A t \in Task : Rest(t) = {}
    <2>1. Total(rest) = 0 => \A t \in Task : rest[t] = 0
      BY <1>3, TotalNat
    <2>2. \A t \in Task : Cardinality(Rest(t)) = 0 => Rest(t) = {}
      BY RestFinite, FS_EmptySet
    <2> QED BY <1>2, <1>5, <2>1, <2>2
  <1>9. \A t \in Task : /\ ndone'[t] = 0 /\ next'[t] = next[t] /\ touched' = touched
                        /\ pc'[t] \in {"fill", "final"}
                        /\ pc'[t] = "final" => ~(ntotleft' > 0)
    BY <1>1 DEF EveryTask, particles
  <1>10. niter <= MAXITER /\ niter \in 0 .. MAXITER + 1 /\ niter' = niter /\ ntot' = ntot /\ ntot \in Nat
    BY <1>1, <1>3 DEF Reckoned
  <1>11. \A t \in Task : \A i \in Gas(t) : Active(t, i)' /\ i < next'[t] => touched'[t][i] # {Nobody}
    BY <1>6, <1>9 DEF Reckoned
  <1>12. \A t \in Task : pc'[t] = "final" => Rest(t)' = {}
    BY <1>6, <1>8, <1>9
  <1> QED BY <1>5, <1>7, <1>9, <1>10, <1>11, <1>12 DEF Reckoned

LEMMA DecideReckoned ==
  ASSUME IInv, Together, Shapes, Reckoned, NEW t \in Task, Decide(t)
  PROVE  Reckoned'
  <1>1. /\ pc[t] = "final" /\ pc'[t] = "left" /\ \A a \in Task \ {t} : pc'[a] = pc[a]
        /\ UNCHANGED <<next, ndone, touched, ntot, ntotleft, niter>>
    BY DEF Decide, Goto, export, results, IInv, Typed
  <1>2. PICK again \in SUBSET {i \in Gas(t) : Active(t, i)} :
          /\ npleft' = [npleft EXCEPT ![t] = Cardinality(again)]
          /\ Ti_endstep' = [Ti_endstep EXCEPT ![t] =
               [i \in Gas(t) |-> IF Active(t, i) /\ i \notin again THEN Marked(@[i]) ELSE @[i]]]
    BY DEF Decide
  <1>3. /\ npleft'[t] = Cardinality(again)
        /\ \A a \in Task \ {t} : npleft'[a] = npleft[a] /\ Ti_endstep'[a] = Ti_endstep[a]
        /\ Ti_endstep'[t] = [i \in Gas(t) |-> IF Active(t, i) /\ i \notin again THEN Marked(Ti_endstep[t][i])
                                              ELSE Ti_endstep[t][i]]
    BY <1>2 DEF Shapes
  <1>4. \A i \in Gas(t) : Active(t, i)' <=> i \in again
    <2>1. Marked(Ti_Current) # Ti_Current
      BY SizesAssumption DEF Marked
    <2> QED BY <1>2, <1>3, <2>1 DEF Active
  <1>5. \A a \in Task \ {t} : /\ \A i : Active(a, i)' <=> Active(a, i)
                              /\ Rest(a)' = Rest(a) /\ NumActive(a)' = NumActive(a)
    BY <1>1, <1>3 DEF Rest, Active, NumActive
  <1>6. Rest(t)' = {}
    <2>1. Rest(t)' \subseteq Rest(t)
      BY <1>1, <1>2, <1>4 DEF Rest
    <2> QED BY <1>1, <2>1 DEF Reckoned
  <1>7. npleft'[t] = NumActive(t)'
    <2>1. again = {i \in Gas(t) : Active(t, i)'}
      BY <1>2, <1>4
    <2> QED BY <1>3, <2>1 DEF NumActive
  <1>8. ~\E a \in Task : pc'[a] \in Filling \cup Meeting
    <2>1. ASSUME NEW a \in Task, pc'[a] \in Filling \cup Meeting
          PROVE  FALSE
      <3>1. a # t /\ pc[a] \in Filling \cup Meeting
        BY <1>1, <2>1 DEF Filling, Meeting
      <3> QED BY <1>1, <3>1, SameStage DEF Filling, Meeting
    <2> QED BY <2>1
  <1>9. ntot' \in Nat /\ ntotleft' \in Nat /\ niter' \in 0 .. MAXITER + 1
    BY <1>1 DEF Reckoned
  <1>10. ASSUME NEW a \in Task
         PROVE  /\ pc'[a] # "abort" => niter' <= MAXITER
                /\ pc'[a] \notin Filling \cup Meeting => ndone'[a] = 0
                /\ pc'[a] \in {"final", "left"} => Rest(a)' = {}
                /\ pc'[a] = "left" => npleft'[a] = NumActive(a)'
                /\ pc'[a] \in {"restore", "done", "abort"} => next'[a] = 0
                /\ \A i \in Gas(a) : Active(a, i)' /\ i < next'[a] => touched'[a][i] # {Nobody}
    <2>1. CASE a = t
      <3>1. niter <= MAXITER /\ ndone[t] = 0
        BY <1>1 DEF Reckoned, Filling, Meeting
      <3>2. \A i \in Gas(t) : Active(t, i)' /\ i < next'[t] => touched'[t][i] # {Nobody}
        BY <1>1, <1>2, <1>4 DEF Reckoned
      <3> QED BY <1>1, <1>6, <1>7, <2>1, <3>1, <3>2
    <2>2. CASE a # t
      <3>1. pc'[a] = pc[a] /\ npleft'[a] = npleft[a]
        BY <1>1, <1>3, <2>2
      <3> QED BY <1>1, <1>5, <2>2, <3>1 DEF Reckoned, Filling, Meeting
    <2> QED BY <2>1, <2>2
  <1> QED BY <1>8, <1>9, <1>10 DEF Reckoned

LEMMA GatherLeftReckoned ==
  ASSUME IInv, Shapes, Reckoned, GatherLeft
  PROVE  Reckoned'
  <1>1. /\ \A t \in Task : pc[t] = "left"
        /\ ntot' = Total(npleft) /\ ntotleft' = ntot' /\ next' = EveryTask(0)
        /\ niter' = IF ntot' > 0 THEN niter + 1 ELSE niter
        /\ pc' = EveryTask(IF ntot' = 0 THEN "restore" ELSE IF niter' > MAXITER THEN "abort" ELSE "fill")
        /\ UNCHANGED <<Ti_endstep, ndone>>
    BY DEF GatherLeft, AllAt, export
  <1>2. npleft \in [Task -> Nat] /\ Total(npleft) \in Nat
    BY TotalNat DEF Shapes
  <1>3. niter \in Nat /\ niter <= MAXITER /\ MAXITER \in Nat
    <2>1. 0 \in Task
      BY Constants DEF Task
    <2> QED BY <1>1, <2>1, SizesAssumption DEF Reckoned
  <1>4. niter' \in 0 .. MAXITER + 1 /\ (niter' <= MAXITER \/ (niter' > MAXITER /\ ntot' # 0))
    BY <1>1, <1>2, <1>3
  <1>5. \A t \in Task : ndone[t] = 0 /\ npleft[t] = NumActive(t)
    BY <1>1 DEF Reckoned, Filling, Meeting
  <1>6. \A t \in Task : /\ next'[t] = 0 /\ ndone'[t] = 0
                        /\ pc'[t] \in {"restore", "abort", "fill"}
                        /\ pc'[t] = "abort" <=> (ntot' # 0 /\ niter' > MAXITER)
    BY <1>1, <1>5 DEF EveryTask
  <1>7. \A t \in Task : Rest(t)' = {i \in Gas(t) : Active(t, i)}
    <2>1. \A t \in Task : \A i \in Gas(t) : 0 <= i
      BY GasNat
    <2> QED BY <1>1, <1>6, <2>1 DEF Rest, Active
  <1>8. Total([t \in Task |-> Cardinality(Rest(t)) + ndone[t]])' = Total(npleft)
    <2>1. \A t \in Task : Cardinality(Rest(t)') + ndone'[t] = npleft[t]
      BY <1>2, <1>5, <1>6, <1>7 DEF NumActive
    <2>2. [t \in Task |-> Cardinality(Rest(t)) + ndone[t]]' = npleft
      BY <1>2, <2>1
    <2> QED BY <2>2 DEF Total
  <1>9. \A t \in Task : \A i \in Gas(t) : ~(i < next'[t])
    BY <1>6, GasNat
  <1> QED BY <1>1, <1>2, <1>4, <1>6, <1>8, <1>9 DEF Reckoned, Filling, Meeting

LEMMA RestoreReckoned ==
  ASSUME IInv, Shapes, Together, Reckoned, NEW t \in Task, Restore(t)
  PROVE  Reckoned'
  <1>1. /\ pc[t] = "restore" /\ pc'[t] = "done" /\ \A a \in Task \ {t} : pc'[a] = pc[a]
        /\ UNCHANGED <<next, ndone, touched, ntot, ntotleft, npleft, niter>>
    BY DEF Restore, Goto, export, results, totals, IInv, Typed
  <1>2. \A a \in Task : pc[a] \in {"restore", "done"} /\ pc'[a] \in {"restore", "done"}
    BY <1>1 DEF Together, Filling, Meeting
  <1>3. \A a \in Task : \A i \in Gas(a) : ~(i < next'[a])
    BY <1>1, <1>2, GasNat DEF Reckoned
  <1> QED BY <1>1, <1>2, <1>3 DEF Reckoned, Filling, Meeting

LEMMA NextReckoned ==
  ASSUME IInv, Together, Shapes, Reckoned, [Next]_vars
  PROVE  Reckoned'
  <1>1. pc \in [Task -> Place]
    BY DEF IInv, Typed
  <1>2. ASSUME NEW t \in Task, Fill(t) \/ Decide(t) \/ Restore(t)
        PROVE  Reckoned'
    BY <1>2, FillReckoned, DecideReckoned, RestoreReckoned
  <1>3. CASE RoundEnds \/ GatherLeft
    BY <1>3, RoundEndsReckoned, GatherLeftReckoned
  <1>4. CASE GatherCounts \/ Barrier
    <2>1. /\ UNCHANGED <<particles, ndone, totals, touched>>
          /\ \A a \in Task : pc[a] \in Filling \cup Meeting /\ pc'[a] \in Filling \cup Meeting
      BY <1>4 DEF GatherCounts, Barrier, AllAt, EveryTask, export, results, Filling, Meeting
    <2> QED BY <2>1, ReckonedUnchanged
  <1>5. ASSUME NEW t \in Task, FillEnds(t) \/ EvaluateReceived(t) \/ LevelEnds(t)
        PROVE  Reckoned'
    <2>1. /\ UNCHANGED <<particles, ndone, totals, touched>>
          /\ \A a \in Task \ {t} : pc'[a] = pc[a]
          /\ pc[t] \in Filling \cup Meeting /\ pc'[t] \in Filling \cup Meeting
      BY <1>1, <1>5 DEF FillEnds, EvaluateReceived, LevelEnds, Goto, export, results, Filling, Meeting
    <2> QED BY <2>1, ReckonedUnchanged
  <1>6. CASE \/ UNCHANGED vars
             \/ \E t \in Task : Skip(t) \/ \E u \in Task : Send(t, u) \/ Return(t, u)
    <2>1. UNCHANGED <<particles, ndone, totals, touched>> /\ pc' = pc
      BY <1>6 DEF Skip, Send, Return, Count, vars, export, results
    <2> QED BY <2>1, ReckonedUnchanged
  <1> QED BY <1>2, <1>3, <1>4, <1>5, <1>6 DEF Next

LEMMA InitJInv == Init => JInv
  <1> SUFFICES ASSUME Init PROVE JInv
    OBVIOUS
  <1>1. IInv
    BY InitIInv
  <1>2. \A t \in Task : /\ next[t] = 0 /\ ndone[t] = 0 /\ npleft[t] = 0
                        /\ pc[t] = IF ntot > 0 THEN "fill" ELSE "final"
                        /\ \A u \in Task : DensDataIn[t][u] = <<>>
                        /\ \A i \in Gas(t) : touched[t][i] = {Nobody}
    BY DEF Init, EveryTask, Empty, Untouched
  <1>3. Together
    BY <1>2 DEF Together, Filling
  <1>4. Shapes
    <2>1. /\ DOMAIN Ti_endstep = Task /\ \A t \in Task : Ti_endstep[t] \in [Gas(t) -> Nat]
      BY SizesAssumption DEF Init
    <2>2. \A t \in Task : Ti_endstep[t] \in [Gas(t) -> Nat \cup {Marked(Ti_Current)}]
      BY <2>1
    <2>3. /\ DOMAIN sums = Task /\ DOMAIN touched = Task /\ DOMAIN DensDataResult = Task
          /\ ndone \in [Task -> Nat] /\ npleft \in [Task -> Nat]
          /\ \A t \in Task :
               /\ touched[t] \in [Gas(t) -> (SUBSET (Task \ {t})) \cup {{Nobody}}]
               /\ DOMAIN sums[t] = Gas(t)
      BY DEF Init, EveryTask, Unevaluated, Untouched
    <2> QED BY <1>2, <2>1, <2>2, <2>3, GasNat DEF Shapes
  <1>5. Lists
    BY <1>2 DEF Lists, nsend
  <1>6. Booked
    BY <1>2 DEF Booked, Meeting
  <1>7. Exact
    BY <1>2 DEF Exact
  <1>8. Reckoned
    <2>1. PICK count : count = [t \in Task |-> NumActive(t)]
      OBVIOUS
    <2>2. count \in [Task -> Nat]
      BY <2>1, RestFinite
    <2>3. ntot = Total(count) /\ ntotleft = ntot /\ niter = 0 /\ ntot \in Nat
      BY <2>1, <2>2, TotalNat DEF Init
    <2>4. \A t \in Task : \A i \in Gas(t) : 0 <= i /\ ~(i < 0)
      BY GasNat
    <2>5. \A t \in Task : Rest(t) = {i \in Gas(t) : Active(t, i)}
      BY <1>2, <2>4 DEF Rest
    <2>6. [t \in Task |-> Cardinality(Rest(t)) + ndone[t]] = count
      <3>1. \A t \in Task : Cardinality(Rest(t)) + ndone[t] = count[t]
        BY <1>2, <2>1, <2>2, <2>5 DEF NumActive
      <3> QED BY <2>2, <3>1
    <2>7. ntot > 0 \/ \A t \in Task : Rest(t) = {}
      <3>1. Total(count) = 0 => \A t \in Task : count[t] = 0
        BY <2>2, TotalNat
      <3>2. \A t \in Task : Cardinality(Rest(t)) = count[t]
        BY <2>1, <2>5 DEF NumActive
      <3>3. \A t \in Task : Cardinality(Rest(t)) = 0 => Rest(t) = {}
        BY RestFinite, FS_EmptySet
      <3> QED BY <2>3, <3>1, <3>2, <3>3
    <2>8. 0 \in 0 .. MAXITER + 1 /\ 0 <= MAXITER
      BY SizesAssumption
    <2> QED BY <1>2, <2>3, <2>4, <2>6, <2>7, <2>8 DEF Reckoned, Filling, Meeting
  <1> QED BY <1>1, <1>3, <1>4, <1>5, <1>6, <1>7, <1>8 DEF JInv

LEMMA AlwaysJInv == Spec => []JInv
  <1>1. JInv /\ [Next]_vars => JInv'
    <2> SUFFICES ASSUME JInv, [Next]_vars PROVE JInv'
      OBVIOUS
    <2>1. IInv'
      BY NextIInv DEF JInv
    <2>2. Together' /\ Shapes' /\ Lists'
      BY NextTogether, NextShapes, NextLists DEF JInv
    <2>3. Booked' /\ Exact' /\ Reckoned'
      BY NextBooked, NextExact, NextReckoned DEF JInv
    <2> QED BY <2>1, <2>2, <2>3 DEF JInv
  <1> QED BY <1>1, InitJInv, PTL DEF Spec
-------------------------------------------------------------------------------
(* All counts and indices stay in their ranges; the number of particles    *)
(* left to do, which is only ever counted down by what the tasks report,   *)
(* never gets negative.                                                    *)
THEOREM TypeCorrect == Spec => []TypeOK
  <1>1. JInv => TypeOK
    <2> SUFFICES ASSUME JInv PROVE TypeOK
      OBVIOUS
    <2>1. IInv /\ Shapes /\ Lists /\ Reckoned
      BY DEF JInv
    <2>2. ASSUME NEW t \in Task
          PROVE  /\ \A i \in Gas(t) : Ti_endstep[t][i] \in Nat \cup {Marked(Ti_Current)}
                 /\ next[t] \in 0 .. N_gas[t]
                 /\ \A u \in Task : \A x \in DOMAIN DensDataIn[t][u] : DensDataIn[t][u][x] \in Gas(t)
                 /\ nexport[t] \in Nat /\ ndone[t] \in 0 .. N_gas[t] /\ npleft[t] \in 0 .. N_gas[t]
                 /\ level[t] \in 1 .. Groups /\ ngrp[t] \in level[t] .. Groups
      <3>1. /\ next[t] \in Nat /\ ndone[t] \in Nat /\ npleft[t] \in Nat /\ N_gas[t] \in Nat
            /\ next[t] <= N_gas[t] /\ ndone[t] <= next[t] /\ npleft[t] <= N_gas[t]
        BY <2>1, GasNat DEF IInv, Typed, Shapes
      <3>2. next[t] \in 0 .. N_gas[t] /\ ndone[t] \in 0 .. N_gas[t] /\ npleft[t] \in 0 .. N_gas[t]
        BY <3>1
      <3>3. \A u \in Task : \A x \in DOMAIN DensDataIn[t][u] : DensDataIn[t][u][x] \in Gas(t)
        <4>1. \A u \in Task : DOMAIN DensDataIn[t][u] = 1 .. nsend(t, u)
          BY <2>1 DEF IInv, Typed, nsend
        <4> QED BY <2>1, <4>1 DEF Lists
      <3>4. level[t] \in 1 .. Groups /\ ngrp[t] \in 1 .. Groups /\ level[t] <= ngrp[t]
        BY <2>1 DEF IInv, Typed, LevelBegins
      <3>5. ngrp[t] \in level[t] .. Groups
        BY <3>4, Constants
      <3> QED BY <2>1, <3>2, <3>3, <3>4, <3>5 DEF Shapes, IInv, Typed
    <2> QED BY <2>1, <2>2 DEF TypeOK, IInv, Typed, Reckoned
  <1> QED BY <1>1, AlwaysJInv, PTL

(* When the neighbours are counted, every active particle has the part of  *)
(* each task it touches once, and nothing else: for all ways in which the  *)
(* export buffer fills, the groups are cut into levels, and the tasks run. *)
THEOREM EachExactlyOnce == Spec => []EachOnce
  <1>1. JInv => EachOnce
    <2> SUFFICES ASSUME JInv, NEW t \in Task, pc[t] = "final", NEW i \in Gas(t), Active(t, i)
                 PROVE  /\ sums[t][i].number = Cardinality(touched[t][i])
                        /\ sums[t][i].of =
                             {[place |-> i, result |-> [for |-> [from |-> t, index |-> i], by |-> u]] :
                                u \in touched[t][i]}
      BY DEF EachOnce
    <2>1. i < next[t]
      <3>1. Rest(t) = {}
        BY DEF JInv, Reckoned
      <3>2. next[t] \in Nat /\ i \in Nat
        BY GasNat DEF JInv, IInv, Typed
      <3> QED BY <3>1, <3>2 DEF Rest
    <2>2. touched[t][i] # {Nobody}
      BY <2>1 DEF JInv, Reckoned
    <2>3. Pending(t, i) = {}
      BY DEF JInv, Lists, Filling, Meeting, Pending, Awaited, Listed, nsend
    <2>4. touched[t][i] \ Pending(t, i) = touched[t][i]
      BY <2>3
    <2>5. AddedFrom(t, i, touched[t][i])
      BY <2>2, <2>4 DEF JInv, Exact
    <2> QED BY <2>5 DEF AddedFrom, ResultFor
  <1> QED BY <1>1, AlwaysJInv, PTL

(* Where the marks of the iterations stand against the time steps that the *)
(* function found.                                                         *)
Marks(f) ==
  \A t \in Task : \A i \in Gas(t) :
    \/ Ti_endstep[t][i] = f[t][i]
    \/ /\ f[t][i] = Ti_Current /\ Ti_endstep[t][i] = Marked(Ti_Current)
       /\ pc[t] # "done"

(* A task that leaves the function has the time steps it came with.        *)
THEOREM StepsGivenBack ==
  ASSUME NEW f \in Endsteps
  PROVE  Spec /\ Ti_endstep = f => [](\A t \in Task : pc[t] = "done" => Ti_endstep[t] = f[t])
  <1>1. Ti_Current \in Nat /\ \A t \in Task : f[t] \in [Gas(t) -> Nat]
    BY SizesAssumption
  <1>2. Ti_endstep = f => Marks(f)
    BY DEF Marks
  <1>3. JInv /\ Marks(f) /\ [Next]_vars => Marks(f)'
    <2> SUFFICES ASSUME JInv, Marks(f), [Next]_vars PROVE Marks(f)'
      OBVIOUS
    <2>1. IInv /\ Shapes /\ pc \in [Task -> Place]
      BY DEF JInv, IInv, Typed
    <2>2. ASSUME Ti_endstep' = Ti_endstep, \A t \in Task : pc'[t] = "done" => pc[t] = "done"
          PROVE  Marks(f)'
      BY <2>2 DEF Marks
    <2>3. ASSUME NEW t \in Task, Decide(t)
          PROVE  Marks(f)'
      <3>1. PICK again \in SUBSET {i \in Gas(t) : Active(t, i)} :
              Ti_endstep' = [Ti_endstep EXCEPT ![t] =
                [i \in Gas(t) |-> IF Active(t, i) /\ i \notin again THEN Marked(@[i]) ELSE @[i]]]
        BY <2>3 DEF Decide
      <3>2. /\ \A a \in Task \ {t} : Ti_endstep'[a] = Ti_endstep[a] /\ pc'[a] = pc[a]
            /\ Ti_endstep'[t] = [i \in Gas(t) |-> IF Active(t, i) /\ i \notin again THEN Marked(Ti_endstep[t][i])
                                                  ELSE Ti_endstep[t][i]]
            /\ pc'[t] = "left"
        BY <2>1, <2>3, <3>1 DEF Shapes, Decide, Goto
      <3>3. Marked(Ti_Current) # Ti_Current
        BY <1>1 DEF Marked
      <3> QED BY <3>2, <3>3 DEF Marks, Active
    <2>4. ASSUME NEW t \in Task, Restore(t)
          PROVE  Marks(f)'
      <3>1. /\ Ti_endstep' = [Ti_endstep EXCEPT ![t] = [i \in Gas(t) |-> IF @[i] < 0 THEN -@[i] - 1 ELSE @[i]]]
            /\ \A a \in Task \ {t} : pc'[a] = pc[a]
        BY <2>1, <2>4 DEF Restore, Goto
      <3>2. /\ \A a \in Task \ {t} : Ti_endstep'[a] = Ti_endstep[a]
            /\ Ti_endstep'[t] = [i \in Gas(t) |-> IF Ti_endstep[t][i] < 0 THEN -Ti_endstep[t][i] - 1
                                                  ELSE Ti_endstep[t][i]]
        BY <2>1, <3>1 DEF Shapes
      <3>3. ASSUME NEW i \in Gas(t)
            PROVE  Ti_endstep'[t][i] = f[t][i]
        <4>1. PICK n \in Nat : n = f[t][i]
          BY <1>1
        <4>2. CASE Ti_endstep[t][i] = n
          BY <3>2, <4>1, <4>2
        <4>3. CASE n = Ti_Current /\ Ti_endstep[t][i] = -Ti_Current - 1
          <5>1. Ti_endstep[t][i] < 0 /\ -Ti_endstep[t][i] - 1 = n
            BY <4>3
          <5> QED BY <3>2, <4>1, <5>1
        <4> QED BY <4>1, <4>2, <4>3 DEF Marks, Marked
      <3> QED BY <3>1, <3>2, <3>3 DEF Marks
    <2>5. CASE \/ GatherCounts \/ Barrier \/ RoundEnds \/ GatherLeft \/ UNCHANGED vars
               \/ \E t \in Task : \/ Fill(t) \/ FillEnds(t) \/ Skip(t) \/ EvaluateReceived(t) \/ LevelEnds(t)
                                  \/ \E u \in Task : Send(t, u) \/ Return(t, u)
      <3>1. Ti_endstep' = Ti_endstep
        BY <2>5 DEF GatherCounts, Barrier, RoundEnds, GatherLeft, vars, Fill, FillEnds, Skip, EvaluateReceived,
                    LevelEnds, Send, Return, particles
      <3>2. \A t \in Task : pc'[t] = "done" => pc[t] = "done"
        BY <2>1, <2>5 DEF GatherCounts, Barrier, RoundEnds, GatherLeft, vars, Fill, FillEnds, Skip,
                          EvaluateReceived, LevelEnds, Send, Return, Count, Goto, EveryTask
      <3> QED BY <2>2, <3>1, <3>2
    <2> QED BY <2>3, <2>4, <2>5 DEF Next
  <1>4. JInv /\ Marks(f) => \A t \in Task : pc[t] = "done" => Ti_endstep[t] = f[t]
    <2> SUFFICES ASSUME JInv, Marks(f), NEW t \in Task, pc[t] = "done"
                 PROVE  Ti_endstep[t] = f[t]
      OBVIOUS
    <2>1. \A i \in Gas(t) : Ti_endstep[t][i] = f[t][i]
      BY DEF Marks
    <2>2. Ti_endstep[t] \in [Gas(t) -> Nat \cup {Marked(Ti_Current)}]
      BY DEF JInv, Shapes
    <2> QED BY <1>1, <2>1, <2>2
  <1> QED BY <1>2, <1>3, <1>4, AlwaysJInv, PTL DEF Spec

===============================================================================
