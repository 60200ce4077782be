--------------------------- MODULE DomainSplitProofs ---------------------------
(***************************************************************************)
(* Proofs about DomainSplit, for any number of tasks, any top-level tree   *)
(* with enough leaves, any limits, and whatever is read outside the        *)
(* leaves.                                                                 *)
(*                                                                         *)
(* The argument: the pending calls of domain_findSplit, in their order,    *)
(* cover the cpus and leaves that are not yet dealt out, without gap, and  *)
(* no call has fewer leaves than cpus.  A shift takes a leaf from a task   *)
(* only if the taker does not get more work than the larger of both had;   *)
(* with work on both sides that leaf is never the last one.                *)
(***************************************************************************)
EXTENDS DomainSplit, TLAPS

CallSet == [cpustart : Task, ncpu : 1 .. NTask, first : Leaf, last : Leaf]

Typed ==
  /\ cum \in Tree
  /\ stage \in {"find", "sum", "shift", "done", "endrun"}
  /\ calls \in Seq(CallSet) /\ split \in Nat
  /\ DomainTask \in [Leaf -> Task]
  /\ DomainStartList \in [Task -> Int] /\ DomainEndList \in [Task -> Int]
  /\ list_load \in [Task -> Int] /\ list_loadsph \in [Task -> Int] /\ list_work \in [Task -> Int]
  /\ cell \in 0 .. NTopleaves /\ task \in Task /\ moved \in Nat /\ sweeps \in Nat

(* The first cpu and leaf of a pending call, or the ends behind the last.  *)
CpuAt(k) == IF k \in 1 .. Len(calls) THEN calls[k].cpustart ELSE NTask

LeafAt(k) == IF k \in 1 .. Len(calls) THEN calls[k].first ELSE NTopleaves

(* Each call ends where the next begins, and has a leaf for every cpu.     *)
Chained ==
  \A k \in 1 .. Len(calls) :
    /\ calls[k].cpustart + calls[k].ncpu = CpuAt(k + 1)
    /\ calls[k].last + 1 = LeafAt(k + 1)
    /\ calls[k].ncpu <= calls[k].last - calls[k].first + 1
    /\ calls[k].ncpu = 1 => NTask = 1

(* The loop of the running call is at a split point it may stop at.        *)
Searching(c) ==
  /\ c.first + LeftCpus(c) <= split
  /\ split <= c.last - (RightCpus(c) - 1)
  /\ LeftCpus(c) = 0 => split = c.first

(* The first n tasks have got the first m leaves.                          *)
Dealt(n, m) ==
  /\ n = 0 => m = 0
  /\ \A t \in 0 .. n - 1 :
       /\ 0 <= DomainStartList[t] /\ DomainStartList[t] <= DomainEndList[t] /\ DomainEndList[t] < m
       /\ t = 0 => DomainStartList[t] = 0
       /\ t + 1 < n => DomainStartList[t + 1] = DomainEndList[t] + 1
       /\ t + 1 = n => DomainEndList[t] = m - 1
       /\ list_load[t] = Load(DomainStartList[t], DomainEndList[t]) /\ list_load[t] <= MaxLoad
       /\ list_loadsph[t] = LoadSph(DomainStartList[t], DomainEndList[t]) /\ list_loadsph[t] <= MaxLoadSph
       /\ \A i \in DomainStartList[t] .. DomainEndList[t] : DomainTask[i] = t
  /\ \A i \in 0 .. m - 1 : /\ DomainTask[i] \in 0 .. n - 1
                           /\ DomainStartList[DomainTask[i]] <= i
                           /\ i <= DomainEndList[DomainTask[i]]

Finding ==
  stage = "find" =>
    /\ calls # <<>>
    /\ Chained /\ Searching(calls[1])
    /\ Dealt(CpuAt(1), LeafAt(1))
    /\ list_work = [t \in Task |-> 0] /\ cell = 0

(* How far the work of the leaves first .. last has been added up.         *)
Reached(first, last) == IF cell <= first THEN first ELSE IF cell > last THEN last + 1 ELSE cell

Summing ==
  stage = "sum" =>
    /\ Dealt(NTask, NTopleaves) /\ cell < NTopleaves
    /\ \A t \in Task : list_work[t] =
         cum.work[Reached(DomainStartList[t], DomainEndList[t])] - cum.work[DomainStartList[t]]

Limits ==
  stage \in {"sum", "shift", "done"} =>
    \A t \in Task : list_load[t] <= MaxLoad /\ list_loadsph[t] <= MaxLoadSph

InLeaves == \A t \in Task : DomainStartList[t] \in Leaf /\ DomainEndList[t] \in Leaf

Beginning == SweepsBegin => Tiled /\ Totals /\ InLeaves

IInv == Typed /\ Finding /\ Summing /\ Limits /\ Beginning

(* What the shifts keep once every task has work.                          *)
Balanced == Typed /\ stage \in {"shift", "done"} /\ Busy /\ Tiled /\ Totals /\ InLeaves

LEMMA Constants ==
  /\ NTask \in Nat /\ NTask >= 1 /\ NTopleaves \in Nat /\ NTask <= NTopleaves
  /\ MaxLoad \in Nat /\ MaxLoadSph \in Nat
  BY SplitAssumption

(* The two halves of a call.                                               *)
LEMMA HalvesOfCpus ==
  ASSUME NEW c \in CallSet
  PROVE  /\ LeftCpus(c) \in Nat /\ RightCpus(c) \in Nat
         /\ LeftCpus(c) + RightCpus(c) = c.ncpu
         /\ LeftCpus(c) <= RightCpus(c) /\ RightCpus(c) <= LeftCpus(c) + 1
         /\ c.cpustart \in Nat /\ c.ncpu \in Nat /\ c.ncpu >= 1 /\ c.first \in Nat /\ c.last \in Nat
         /\ c.cpustart < NTask /\ c.ncpu <= NTask /\ c.first < NTopleaves /\ c.last < NTopleaves
  <1>1. /\ c.cpustart \in Task /\ c.ncpu \in 1 .. NTask /\ c.first \in Leaf /\ c.last \in Leaf
    BY DEF CallSet
  <1>2. /\ c.cpustart \in Nat /\ c.ncpu \in Nat /\ c.ncpu >= 1 /\ c.first \in Nat /\ c.last \in Nat
        /\ c.cpustart < NTask /\ c.ncpu <= NTask /\ c.first < NTopleaves /\ c.last < NTopleaves
    BY <1>1, Constants DEF Task, Leaf
  <1>3. \A n \in Nat : /\ n \div 2 \in Nat /\ n - (n \div 2) \in Nat
                       /\ n \div 2 <= n - (n \div 2) /\ n - (n \div 2) <= (n \div 2) + 1
    BY SMT
  <1> QED BY <1>2, <1>3 DEF LeftCpus, RightCpus

(* A leaf has no less than nothing, whatever is read.                      *)
LEMMA LeafContent ==
  ASSUME cum \in Tree, NEW i \in Int, NEW x \in ReadLeaf(i)
  PROVE  x \in Content /\ x.count \in Nat /\ x.sph \in Nat /\ x.work \in Nat
  <1>1. cum.count \in Cumulative /\ cum.sph \in Cumulative /\ cum.work \in Cumulative
    BY DEF Tree
  <1>2. CASE i \in Leaf
    <2>1. i \in 0 .. NTopleaves /\ i + 1 \in 0 .. NTopleaves
      BY <1>2, Constants DEF Leaf
    <2>2. \A f \in Cumulative : f[i] \in Nat /\ f[i + 1] \in Nat /\ f[i] <= f[i + 1]
      BY <1>2, <2>1 DEF Cumulative
    <2>3. \A f \in Cumulative : f[i + 1] - f[i] \in Nat
      BY <2>2
    <2>4. x = [count |-> Load(i, i), sph |-> LoadSph(i, i), work |-> Work(i, i)]
      BY <1>2 DEF ReadLeaf
    <2>5. Load(i, i) \in Nat /\ LoadSph(i, i) \in Nat /\ Work(i, i) \in Nat
      BY <1>1, <2>3 DEF Load, LoadSph, Work, Total
    <2> QED BY <2>4, <2>5 DEF Content
  <1>3. CASE i \notin Leaf
    BY <1>3, SplitAssumption DEF ReadLeaf, Content
  <1> QED BY <1>2, <1>3

LEMMA InitIInv == SplitInit => IInv
  <1> SUFFICES ASSUME SplitInit PROVE IInv
    OBVIOUS
  <1> USE Constants
  <1> DEFINE c == Call(0, NTask, 0, NTopleaves - 1)
  <1>1. /\ cum \in Trees /\ stage = "find" /\ calls = <<c>> /\ split = FirstSplit(Head(calls))
        /\ DomainTask = [i \in Leaf |-> 0]
        /\ DomainStartList = [t \in Task |-> 0] /\ DomainEndList = [t \in Task |-> 0]
        /\ list_load = [t \in Task |-> 0] /\ list_loadsph = [t \in Task |-> 0]
        /\ list_work = [t \in Task |-> 0] /\ cell = 0 /\ task = 0 /\ moved = 0 /\ sweeps = 0
    BY DEF SplitInit
  <1>2. 0 \in Task /\ 0 \in Leaf /\ NTopleaves - 1 \in Leaf /\ NTask \in 1 .. NTask
    BY DEF Task, Leaf
  <1>3. /\ c \in CallSet /\ c.cpustart = 0 /\ c.ncpu = NTask /\ c.first = 0 /\ c.last = NTopleaves - 1
    BY <1>2 DEF Call, CallSet
  <1> HIDE DEF c
  <1>4. /\ calls \in Seq(CallSet) /\ Len(calls) = 1 /\ calls[1] = c /\ Head(calls) = c /\ calls # <<>>
    BY <1>1, <1>3
  <1>5. /\ LeftCpus(c) \in Nat /\ RightCpus(c) \in Nat /\ LeftCpus(c) + RightCpus(c) = NTask
    BY <1>3, HalvesOfCpus
  <1>6. split = LeftCpus(c) /\ split \in Nat
    BY <1>1, <1>3, <1>4, <1>5 DEF FirstSplit
  <1>7. Typed
    BY <1>1, <1>2, <1>4, <1>6, SplitAssumption DEF Typed
  <1>8. CpuAt(1) = 0 /\ LeafAt(1) = 0 /\ CpuAt(2) = NTask /\ LeafAt(2) = NTopleaves
    BY <1>3, <1>4 DEF CpuAt, LeafAt
  <1>9. Chained
    BY <1>3, <1>4, <1>8 DEF Chained
  <1>10. Searching(calls[1])
    BY <1>3, <1>4, <1>5, <1>6 DEF Searching
  <1>11. Dealt(0, 0)
    BY DEF Dealt
  <1>12. Finding
    BY <1>1, <1>4, <1>8, <1>9, <1>10, <1>11 DEF Finding
  <1> QED BY <1>1, <1>7, <1>12 DEF IInv, Summing, Limits, Beginning, SweepsBegin

(* What the lists say after leaves were dealt out.                         *)
LEMMA Assigned ==
  ASSUME NEW ranges, Assign(ranges),
         \A r1, r2 \in ranges : r1.cpu = r2.cpu => r1 = r2,
         \A r1, r2 \in ranges : \A i \in Leaf : i \in r1.first .. r1.last /\ i \in r2.first .. r2.last => r1 = r2
  PROVE  /\ \A r \in ranges : r.cpu \in Task =>
              /\ DomainStartList'[r.cpu] = r.first /\ DomainEndList'[r.cpu] = r.last
              /\ list_load'[r.cpu] = Load(r.first, r.last)
              /\ list_loadsph'[r.cpu] = LoadSph(r.first, r.last)
         /\ \A t \in Task : (\A r \in ranges : r.cpu # t) =>
              /\ DomainStartList'[t] = DomainStartList[t] /\ DomainEndList'[t] = DomainEndList[t]
              /\ list_load'[t] = list_load[t] /\ list_loadsph'[t] = list_loadsph[t]
         /\ \A r \in ranges : \A i \in Leaf : i \in r.first .. r.last => DomainTask'[i] = r.cpu
         /\ \A i \in Leaf : (\A r \in ranges : i \notin r.first .. r.last) => DomainTask'[i] = DomainTask[i]
         /\ DomainTask' = [i \in Leaf |-> DomainTask'[i]]
         /\ DomainStartList' = [t \in Task |-> DomainStartList'[t]]
         /\ DomainEndList' = [t \in Task |-> DomainEndList'[t]]
         /\ list_load' = [t \in Task |-> list_load'[t]] /\ list_loadsph' = [t \in Task |-> list_loadsph'[t]]
  <1> DEFINE Of(t) == {r \in ranges : r.cpu = t}
             Chosen(t) == CHOOSE r \in Of(t) : TRUE
             Containing(i) == CHOOSE r \in ranges : i \in r.first .. r.last
  <1>1. DomainTask' = [i \in Leaf |-> IF \E r \in ranges : i \in r.first .. r.last
                                      THEN Containing(i).cpu ELSE DomainTask[i]]
    BY DEF Assign
  <1>2. DomainStartList' = [t \in Task |-> IF Of(t) = {} THEN DomainStartList[t] ELSE Chosen(t).first]
    BY DEF Assign
  <1>3. DomainEndList' = [t \in Task |-> IF Of(t) = {} THEN DomainEndList[t] ELSE Chosen(t).last]
    BY DEF Assign
  <1>4. list_load' = [t \in Task |-> IF Of(t) = {} THEN list_load[t] ELSE Load(Chosen(t).first, Chosen(t).last)]
    BY DEF Assign
  <1>5. list_loadsph' = [t \in Task |-> IF Of(t) = {} THEN list_loadsph[t]
                                        ELSE LoadSph(Chosen(t).first, Chosen(t).last)]
    BY DEF Assign
  <1>6. \A r \in ranges : Of(r.cpu) # {} /\ Chosen(r.cpu) = r
    <2> TAKE r \in ranges
    <2>1. Of(r.cpu) = {r}
      OBVIOUS
    <2>2. Chosen(r.cpu) \in Of(r.cpu)
      BY <2>1
    <2> QED BY <2>1, <2>2
  <1>7. \A t : (\A r \in ranges : r.cpu # t) => Of(t) = {}
    OBVIOUS
  <1>8. \A r \in ranges : \A i \in Leaf : i \in r.first .. r.last => Containing(i) = r
    <2> SUFFICES ASSUME NEW r \in ranges, NEW i \in Leaf, i \in r.first .. r.last PROVE Containing(i) = r
      OBVIOUS
    <2>1. Containing(i) \in ranges /\ i \in Containing(i).first .. Containing(i).last
      OBVIOUS
    <2> QED BY <2>1
  <1> HIDE DEF Of, Chosen, Containing
  <1>9. \A r \in ranges : r.cpu \in Task =>
              /\ DomainStartList'[r.cpu] = r.first /\ DomainEndList'[r.cpu] = r.last
              /\ list_load'[r.cpu] = Load(r.first, r.last)
              /\ list_loadsph'[r.cpu] = LoadSph(r.first, r.last)
    BY <1>2, <1>3, <1>4, <1>5, <1>6
  <1>10. \A t \in Task : (\A r \in ranges : r.cpu # t) =>
              /\ DomainStartList'[t] = DomainStartList[t] /\ DomainEndList'[t] = DomainEndList[t]
              /\ list_load'[t] = list_load[t] /\ list_loadsph'[t] = list_loadsph[t]
    BY <1>2, <1>3, <1>4, <1>5, <1>7
  <1>11. \A r \in ranges : \A i \in Leaf : i \in r.first .. r.last => DomainTask'[i] = r.cpu
    BY <1>1, <1>8
  <1>12. \A i \in Leaf : (\A r \in ranges : i \notin r.first .. r.last) => DomainTask'[i] = DomainTask[i]
    BY <1>1
  <1>13. /\ DomainTask' = [i \in Leaf |-> DomainTask'[i]]
         /\ DomainStartList' = [t \in Task |-> DomainStartList'[t]]
         /\ DomainEndList' = [t \in Task |-> DomainEndList'[t]]
         /\ list_load' = [t \in Task |-> list_load'[t]] /\ list_loadsph' = [t \in Task |-> list_loadsph'[t]]
    BY <1>1, <1>2, <1>3, <1>4, <1>5
  <1> QED BY <1>9, <1>10, <1>11, <1>12, <1>13

(* The first tasks keep their leaves, further tasks get the next ones.     *)
LEMMA DealtOn ==
  ASSUME NEW n \in Nat, NEW m \in Nat, NEW n2 \in Nat, NEW m2 \in Nat, n <= n2, m <= m2,
         Dealt(n, m), cum' = cum,
         \A t \in 0 .. n - 1 :
           /\ DomainStartList[t] \in Int /\ DomainEndList[t] \in Int
           /\ DomainStartList'[t] = DomainStartList[t] /\ DomainEndList'[t] = DomainEndList[t]
           /\ list_load'[t] = list_load[t] /\ list_loadsph'[t] = list_loadsph[t],
         \A i \in 0 .. m - 1 : DomainTask'[i] = DomainTask[i],
         n = n2 => m = m2,
         n < n2 => DomainStartList'[n] = m /\ DomainEndList'[n2 - 1] = m2 - 1,
         \A t \in n .. n2 - 1 :
           /\ DomainStartList'[t] \in Int /\ DomainEndList'[t] \in Int
           /\ m <= DomainStartList'[t] /\ DomainStartList'[t] <= DomainEndList'[t] /\ DomainEndList'[t] < m2
           /\ t + 1 < n2 => DomainStartList'[t + 1] = DomainEndList'[t] + 1
           /\ list_load'[t] = Load(DomainStartList'[t], DomainEndList'[t]) /\ list_load'[t] <= MaxLoad
           /\ list_loadsph'[t] = LoadSph(DomainStartList'[t], DomainEndList'[t]) /\ list_loadsph'[t] <= MaxLoadSph
           /\ \A i \in DomainStartList'[t] .. DomainEndList'[t] : DomainTask'[i] = t,
         \A i \in m .. m2 - 1 : \E t \in n .. n2 - 1 : DomainStartList'[t] <= i /\ i <= DomainEndList'[t]
  PROVE  Dealt(n2, m2)'
  <1>1. \A t \in 0 .. n2 - 1 : t \in 0 .. n - 1 \/ t \in n .. n2 - 1
    OBVIOUS
  <1>2. ASSUME NEW t \in 0 .. n - 1
        PROVE  /\ 0 <= DomainStartList'[t] /\ DomainStartList'[t] <= DomainEndList'[t] /\ DomainEndList'[t] < m2
               /\ t = 0 => DomainStartList'[t] = 0
               /\ t + 1 < n2 => DomainStartList'[t + 1] = DomainEndList'[t] + 1
               /\ t + 1 = n2 => DomainEndList'[t] = m2 - 1
               /\ list_load'[t] = Load(DomainStartList'[t], DomainEndList'[t]) /\ list_load'[t] <= MaxLoad
               /\ list_loadsph'[t] = LoadSph(DomainStartList'[t], DomainEndList'[t]) /\ list_loadsph'[t] <= MaxLoadSph
               /\ \A i \in DomainStartList'[t] .. DomainEndList'[t] : DomainTask'[i] = t
    <2>1. /\ 0 <= DomainStartList[t] /\ DomainStartList[t] <= DomainEndList[t] /\ DomainEndList[t] < m
          /\ t = 0 => DomainStartList[t] = 0
          /\ t + 1 < n => DomainStartList[t + 1] = DomainEndList[t] + 1
          /\ t + 1 = n => DomainEndList[t] = m - 1
          /\ list_load[t] = Load(DomainStartList[t], DomainEndList[t]) /\ list_load[t] <= MaxLoad
          /\ list_loadsph[t] = LoadSph(DomainStartList[t], DomainEndList[t]) /\ list_loadsph[t] <= MaxLoadSph
          /\ \A i \in DomainStartList[t] .. DomainEndList[t] : DomainTask[i] = t
      BY DEF Dealt
    <2>2. \A i \in DomainStartList[t] .. DomainEndList[t] : i \in 0 .. m - 1
      BY <2>1
    <2>3. t + 1 < n => t + 1 \in 0 .. n - 1
      OBVIOUS
    <2>4. t + 1 < n2 => DomainStartList'[t + 1] = DomainEndList'[t] + 1
      <3>1. CASE t + 1 < n
        BY <2>1, <2>3, <3>1
      <3>2. CASE t + 1 = n
        BY <2>1, <3>2
      <3> QED BY <3>1, <3>2
    <2> QED BY <2>1, <2>2, <2>4
  <1>3. ASSUME NEW t \in n .. n2 - 1
        PROVE  /\ 0 <= DomainStartList'[t]
               /\ t = 0 => DomainStartList'[t] = 0
               /\ t + 1 = n2 => DomainEndList'[t] = m2 - 1
    <2>1. t = 0 => n = 0 /\ m = 0
      BY DEF Dealt
    <2>2. t + 1 = n2 => t = n2 - 1 /\ n < n2
      OBVIOUS
    <2>3. 0 <= DomainStartList'[t]
      OBVIOUS
    <2>4. t = 0 => DomainStartList'[t] = 0
      BY <2>1
    <2> QED BY <2>2, <2>3, <2>4
  <1>4. \A i \in 0 .. m2 - 1 : /\ DomainTask'[i] \in 0 .. n2 - 1
                               /\ DomainStartList'[DomainTask'[i]] <= i
                               /\ i <= DomainEndList'[DomainTask'[i]]
    <2> SUFFICES ASSUME NEW i \in 0 .. m2 - 1
                 PROVE  /\ DomainTask'[i] \in 0 .. n2 - 1
                        /\ DomainStartList'[DomainTask'[i]] <= i
                        /\ i <= DomainEndList'[DomainTask'[i]]
      OBVIOUS
    <2>1. CASE i < m
      <3>1. i \in 0 .. m - 1
        BY <2>1
      <3>2. /\ DomainTask[i] \in 0 .. n - 1 /\ DomainStartList[DomainTask[i]] <= i
            /\ i <= DomainEndList[DomainTask[i]]
        BY <3>1 DEF Dealt
      <3> QED BY <3>1, <3>2
    <2>2. CASE i >= m
      <3>1. i \in m .. m2 - 1
        BY <2>2
      <3>2. PICK t \in n .. n2 - 1 : DomainStartList'[t] <= i /\ i <= DomainEndList'[t]
        BY <3>1
      <3>3. DomainTask'[i] = t
        BY <3>2
      <3> QED BY <3>2, <3>3
    <2> QED BY <2>1, <2>2
  <1>5. n2 = 0 => m2 = 0
    BY DEF Dealt
  <1>6. \A a, b : Load(a, b)' = Load(a, b) /\ LoadSph(a, b)' = LoadSph(a, b)
    BY DEF Load, LoadSph, Total
  <1> QED BY <1>1, <1>2, <1>3, <1>4, <1>5 DEF Dealt, Load, LoadSph, Total

(* The loop of a call starts where it may stop.                            *)
LEMMA SearchBegins ==
  ASSUME NEW c \in CallSet, c.ncpu <= c.last - c.first + 1
  PROVE  /\ FirstSplit(c) \in Nat
         /\ c.first + LeftCpus(c) <= FirstSplit(c)
         /\ FirstSplit(c) <= c.last - (RightCpus(c) - 1)
         /\ LeftCpus(c) = 0 => FirstSplit(c) = c.first
  BY HalvesOfCpus DEF FirstSplit

LEMMA TotalsAreInt ==
  ASSUME cum \in Tree, NEW a \in Int, NEW b \in Int, a \in 0 .. NTopleaves, b + 1 \in 0 .. NTopleaves
  PROVE  Load(a, b) \in Int /\ LoadSph(a, b) \in Int /\ Work(a, b) \in Int
  <1>1. cum.count \in Cumulative /\ cum.sph \in Cumulative /\ cum.work \in Cumulative
    BY DEF Tree
  <1>2. \A f \in Cumulative : f[a] \in Nat /\ f[b + 1] \in Nat
    BY DEF Cumulative
  <1> QED BY <1>1, <1>2 DEF Load, LoadSph, Work, Total

LEMMA AdvanceIInv == IInv /\ Advance => IInv'
  <1> SUFFICES ASSUME IInv, Advance PROVE IInv'
    OBVIOUS
  <1>1. /\ stage = "find" /\ calls # <<>> /\ CanAdvance(Head(calls), split) /\ split' = split + 1
        /\ UNCHANGED <<cum, stage, calls, DomainTask, DomainStartList, DomainEndList, list_load, list_loadsph,
                       list_work, cell, task, moved, sweeps>>
    BY DEF Advance, lists, loop
  <1>2. Typed /\ Chained /\ Searching(calls[1]) /\ Dealt(CpuAt(1), LeafAt(1))
    BY <1>1 DEF IInv, Finding
  <1> DEFINE c == calls[1]
  <1>3. c \in CallSet /\ Head(calls) = c /\ split \in Nat /\ 1 \in 1 .. Len(calls)
    BY <1>1, <1>2 DEF Typed
  <1>4. /\ LeftCpus(c) \in Nat /\ RightCpus(c) \in Nat /\ LeftCpus(c) + RightCpus(c) = c.ncpu
        /\ RightCpus(c) <= LeftCpus(c) + 1 /\ c.first \in Nat /\ c.last \in Nat /\ c.cpustart \in Nat
        /\ c.ncpu \in Nat /\ c.ncpu >= 1
    BY <1>3, HalvesOfCpus
  <1>5. split < c.last - (RightCpus(c) - 1) /\ split > 0
    BY <1>1, <1>3 DEF CanAdvance
  (* A single cpu is that of a run with one task: its loop does not move.  *)
  <1>6. LeftCpus(c) # 0
    <2> SUFFICES ASSUME LeftCpus(c) = 0 PROVE FALSE
      OBVIOUS
    <2>1. c.ncpu = 1 /\ split = c.first
      BY <1>2, <1>4 DEF Searching
    <2>2. NTask = 1
      BY <1>2, <1>3, <2>1 DEF Chained
    <2>3. c.cpustart = 0
      <3>1. c.cpustart < NTask
        BY <1>3, HalvesOfCpus
      <3> QED BY <1>4, <2>2, <3>1
    <2>4. CpuAt(1) = 0 /\ LeafAt(1) = c.first
      BY <1>3, <2>3 DEF CpuAt, LeafAt
    <2>5. c.first = 0
      BY <1>2, <2>4 DEF Dealt
    <2> QED BY <1>5, <2>1, <2>5
  <1>7. Searching(calls[1])'
    <2>1. LeftCpus(c)' = LeftCpus(c) /\ RightCpus(c)' = RightCpus(c) /\ c' = c
      BY <1>1 DEF LeftCpus, RightCpus
    <2>2. c.first + LeftCpus(c) <= split
      BY <1>2 DEF Searching
    <2>3. c.first + LeftCpus(c) <= split + 1 /\ split + 1 <= c.last - (RightCpus(c) - 1)
      BY <1>3, <1>4, <1>5, <2>2
    <2> HIDE DEF c
    <2>4. /\ c'.first + LeftCpus(c)' <= split' /\ split' <= c'.last - (RightCpus(c)' - 1)
          /\ LeftCpus(c)' # 0
      BY <1>1, <1>6, <2>1, <2>3
    <2> QED BY <2>4 DEF Searching, c
  <1>8. Typed'
    BY <1>1, <1>2, <1>3 DEF Typed
  <1>9. CpuAt(1)' = CpuAt(1) /\ LeafAt(1)' = LeafAt(1) /\ Chained'
    BY <1>1, <1>2 DEF CpuAt, LeafAt, Chained
  <1>10. Dealt(CpuAt(1), LeafAt(1))'
    BY <1>1, <1>2, <1>9 DEF Dealt, Load, LoadSph, Total
  <1>11. Finding'
    BY <1>1, <1>7, <1>9, <1>10 DEF IInv, Finding
  <1> QED BY <1>1, <1>8, <1>11 DEF IInv, Summing, Limits, Beginning, SweepsBegin

(* The call in front is replaced by the calls for its halves.              *)
LEMMA Replaced ==
  ASSUME NEW s \in Seq(CallSet), s # <<>>, NEW h \in Seq(CallSet)
  PROVE  /\ h \o Tail(s) \in Seq(CallSet)
         /\ Len(h) \in Nat /\ Len(s) \in Nat /\ Len(s) >= 1
         /\ Len(h \o Tail(s)) = Len(h) + Len(s) - 1
         /\ \A k \in 1 .. Len(h) : (h \o Tail(s))[k] = h[k]
         /\ \A k \in Len(h) + 1 .. Len(h) + Len(s) - 1 : (h \o Tail(s))[k] = s[k - Len(h) + 1]
  <1>1. /\ Tail(s) \in Seq(CallSet) /\ Len(s) \in Nat /\ Len(s) >= 1 /\ Len(Tail(s)) = Len(s) - 1
        /\ \A k \in 1 .. Len(s) - 1 : Tail(s)[k] = s[k + 1]
    OBVIOUS
  <1>2. /\ h \o Tail(s) \in Seq(CallSet) /\ Len(h) \in Nat
        /\ Len(h \o Tail(s)) = Len(h) + Len(Tail(s))
        /\ \A k \in 1 .. Len(h) : (h \o Tail(s))[k] = h[k]
        /\ \A k \in Len(h) + 1 .. Len(h) + Len(Tail(s)) : (h \o Tail(s))[k] = Tail(s)[k - Len(h)]
    BY <1>1
  <1>3. \A k \in Len(h) + 1 .. Len(h) + Len(s) - 1 : k - Len(h) \in 1 .. Len(s) - 1
    BY <1>1, <1>2
  <1>4. \A k \in Len(h) + 1 .. Len(h) + Len(s) - 1 : (h \o Tail(s))[k] = s[k - Len(h) + 1]
    BY <1>1, <1>2, <1>3
  <1> QED BY <1>1, <1>2, <1>4

(* What is known of the running call when its split point is found.        *)
LEMMA RunningCall ==
  ASSUME IInv, stage = "find", NEW c, c = calls[1], NEW s, s = split
  PROVE  /\ calls \in Seq(CallSet) /\ calls # <<>> /\ Len(calls) \in Nat /\ Len(calls) >= 1
         /\ Head(calls) = c /\ c \in CallSet /\ s \in Nat
         /\ c.first + LeftCpus(c) <= s /\ s <= c.last - (RightCpus(c) - 1)
         /\ LeftCpus(c) = 0 => s = c.first
         /\ CpuAt(1) = c.cpustart /\ LeafAt(1) = c.first
         /\ CpuAt(2) = c.cpustart + c.ncpu /\ LeafAt(2) = c.last + 1
         /\ CpuAt(2) \in Nat /\ CpuAt(2) <= NTask
         /\ c.ncpu <= c.last - c.first + 1
  <1>1. /\ calls # <<>> /\ Chained /\ Searching(calls[1]) /\ Typed
    BY DEF IInv, Finding
  <1>2. calls \in Seq(CallSet) /\ split \in Nat
    BY <1>1 DEF Typed
  <1>3. Len(calls) \in Nat /\ Len(calls) >= 1 /\ Head(calls) = c /\ c \in CallSet
    BY <1>1, <1>2
  <1>4. CpuAt(1) = c.cpustart /\ LeafAt(1) = c.first
    BY <1>3 DEF CpuAt, LeafAt
  <1>5. CpuAt(2) = c.cpustart + c.ncpu /\ LeafAt(2) = c.last + 1 /\ c.ncpu <= c.last - c.first + 1
    BY <1>1, <1>3 DEF Chained
  <1>6. CpuAt(2) \in Nat /\ CpuAt(2) <= NTask
    <2>1. CASE 2 \in 1 .. Len(calls)
      <3>1. calls[2] \in CallSet
        BY <1>2, <2>1
      <3>2. calls[2].cpustart \in Nat /\ calls[2].cpustart < NTask
        BY <3>1, HalvesOfCpus
      <3> QED BY <2>1, <3>2, Constants DEF CpuAt
    <2>2. CASE 2 \notin 1 .. Len(calls)
      BY <2>2, Constants DEF CpuAt
    <2> QED BY <2>1, <2>2
  <1>7. /\ c.first + LeftCpus(c) <= s /\ s <= c.last - (RightCpus(c) - 1)
        /\ LeftCpus(c) = 0 => s = c.first
    BY <1>1 DEF Searching
  <1> QED BY <1>1, <1>2, <1>3, <1>4, <1>5, <1>6, <1>7

(* The calls for the halves follow each other as the call did.             *)
LEMMA HalvesChained ==
  ASSUME IInv, stage = "find", calls' = Halves(calls[1], split) \o Tail(calls)
  PROVE  /\ calls' \in Seq(CallSet)
         /\ Chained'
         /\ RightCpus(calls[1]) = 1 => CpuAt(1)' = CpuAt(2) /\ LeafAt(1)' = LeafAt(2)
         /\ RightCpus(calls[1]) >= 2 /\ LeftCpus(calls[1]) = 1 =>
              CpuAt(1)' = calls[1].cpustart + 1 /\ LeafAt(1)' = split
         /\ LeftCpus(calls[1]) >= 2 => CpuAt(1)' = CpuAt(1) /\ LeafAt(1)' = LeafAt(1)
         /\ calls' # <<>> => calls'[1] \in CallSet /\ calls'[1].ncpu <= calls'[1].last - calls'[1].first + 1
         /\ calls' = <<>> => CpuAt(1)' = NTask /\ LeafAt(1)' = NTopleaves
  <1>a. PICK c : c = calls[1]
    OBVIOUS
  <1>b. PICK s : s = split
    OBVIOUS
  <1>l. PICK L : L = LeftCpus(c)
    OBVIOUS
  <1>r. PICK R : R = RightCpus(c)
    OBVIOUS
  <1> DEFINE hl == Call(c.cpustart, L, c.first, s - 1)
             hr == Call(c.cpustart + L, R, s, c.last)
             h == Halves(c, s)
  <1>1. /\ calls \in Seq(CallSet) /\ calls # <<>> /\ Len(calls) \in Nat /\ Len(calls) >= 1
        /\ c \in CallSet /\ s \in Nat
        /\ c.first + L <= s /\ s <= c.last - (R - 1)
        /\ CpuAt(1) = c.cpustart /\ LeafAt(1) = c.first
        /\ CpuAt(2) = c.cpustart + c.ncpu /\ LeafAt(2) = c.last + 1
        /\ CpuAt(2) \in Nat /\ CpuAt(2) <= NTask
    BY <1>a, <1>b, <1>l, <1>r, RunningCall
  <1>2. /\ L \in Nat /\ R \in Nat /\ L + R = c.ncpu /\ L <= R /\ R <= L + 1
        /\ c.cpustart \in Nat /\ c.ncpu \in Nat /\ c.ncpu >= 1 /\ c.first \in Nat /\ c.last \in Nat
        /\ c.cpustart < NTask /\ c.ncpu <= NTask /\ c.first < NTopleaves /\ c.last < NTopleaves
    BY <1>1, <1>l, <1>r, HalvesOfCpus
  <1>3. /\ (c.cpustart + L) + R = CpuAt(2) /\ c.last + 1 = LeafAt(2)
        /\ R <= c.last - s + 1 /\ L <= (s - 1) - c.first + 1 /\ (s - 1) + 1 = s
        /\ R >= 1 /\ R <= NTask /\ L <= NTask /\ s \in Nat
        /\ c.cpustart + L \in Nat /\ c.cpustart + L < NTask
        /\ s <= c.last /\ c.first <= s
    <2>1. /\ c.cpustart \in Nat /\ c.ncpu \in Nat /\ c.first \in Nat /\ c.last \in Nat /\ L \in Nat /\ R \in Nat
          /\ s \in Nat /\ CpuAt(2) \in Nat /\ L + R = c.ncpu /\ L <= R /\ c.ncpu >= 1
          /\ c.first + L <= s /\ s <= c.last - (R - 1) /\ CpuAt(2) = c.cpustart + c.ncpu
          /\ CpuAt(2) <= NTask /\ c.ncpu <= NTask
      BY <1>1, <1>2
    <2>2. PICK a \in Nat : a = c.cpustart
      BY <2>1
    <2>3. PICK f \in Nat : f = c.first
      BY <2>1
    <2>4. PICK l \in Nat : l = c.last
      BY <2>1
    <2>5. PICK e \in Nat : e = CpuAt(2)
      BY <2>1
    <2>6. PICK m \in Nat : m = c.ncpu
      BY <2>1
    <2>7. L \in Nat /\ R \in Nat /\ s \in Nat /\ L + R = m /\ L <= R /\ m >= 1
          /\ f + L <= s /\ s <= l - (R - 1) /\ e = a + m /\ e <= NTask /\ m <= NTask
      BY <2>1, <2>2, <2>3, <2>4, <2>5, <2>6
    <2>8. /\ (a + L) + R = e /\ R <= l - s + 1 /\ L <= (s - 1) - f + 1 /\ (s - 1) + 1 = s
          /\ R >= 1 /\ R <= NTask /\ L <= NTask /\ a + L \in Nat /\ a + L < NTask
          /\ s <= l /\ f <= s
      BY <2>7, Constants
    <2> QED BY <1>1, <2>2, <2>3, <2>4, <2>5, <2>8
  <1>4. /\ hl.cpustart = c.cpustart /\ hl.ncpu = L /\ hl.first = c.first /\ hl.last = s - 1
        /\ hr.cpustart = c.cpustart + L /\ hr.ncpu = R /\ hr.first = s /\ hr.last = c.last
    BY DEF Call
  <1>5. hr \in CallSet
    <2>1. c.cpustart + L < NTask /\ c.cpustart + L \in Nat
      BY <1>3
    <2>2. c.cpustart + L \in Task /\ R \in 1 .. NTask
      BY <1>2, <1>3, <2>1, Constants DEF Task
    <2>3. s \in Leaf /\ c.last \in Leaf
      <3>1. s <= c.last /\ c.last \in Nat /\ c.last < NTopleaves
        BY <1>2, <1>3
      <3> QED BY <1>3, <3>1, Constants DEF Leaf
    <2> QED BY <2>2, <2>3 DEF Call, CallSet
  <1>6. L >= 1 => hl \in CallSet
    <2> SUFFICES ASSUME L >= 1 PROVE hl \in CallSet
      OBVIOUS
    <2>1. c.cpustart \in Task /\ L \in 1 .. NTask
      BY <1>2, <1>3, Constants DEF Task
    <2>2. c.first \in Leaf /\ s - 1 \in Leaf
      <3>1. c.first <= s - 1 /\ s <= c.last /\ c.last < NTopleaves /\ c.first \in Nat /\ c.last \in Nat
        BY <1>2, <1>3
      <3> QED BY <1>3, <3>1, Constants DEF Leaf
    <2> QED BY <2>1, <2>2 DEF Call, CallSet
  <1> HIDE DEF hl, hr
  <1>7. h = (IF L >= 2 THEN <<hl>> ELSE <<>>) \o (IF R >= 2 THEN <<hr>> ELSE <<>>)
    BY <1>l, <1>r DEF Halves, hl, hr
  <1> HIDE DEF h
  <1>8. /\ h \in Seq(CallSet)
        /\ \/ R = 1 /\ L <= 1 /\ Len(h) = 0
           \/ R = 2 /\ L = 1 /\ Len(h) = 1 /\ h[1] = hr
           \/ R >= 2 /\ L >= 2 /\ Len(h) = 2 /\ h[1] = hl /\ h[2] = hr
    <2>1. CASE R = 1
      <3>1. ~(L >= 2) /\ ~(R >= 2) /\ L <= 1
        BY <1>2, <2>1
      <3>2. h = <<>> \o <<>>
        BY <1>7, <3>1
      <3> QED BY <2>1, <3>1, <3>2
    <2>2. CASE R >= 2 /\ L = 1
      <3>1. ~(L >= 2) /\ R = 2
        BY <1>2, <2>2
      <3>2. h = <<>> \o <<hr>>
        BY <1>7, <3>1
      <3>3. h \in Seq(CallSet) /\ Len(h) = 1 /\ h[1] = hr
        BY <1>5, <3>2
      <3> QED BY <2>2, <3>1, <3>3
    <2>3. CASE R >= 2 /\ L >= 2
      <3>1. h = <<hl>> \o <<hr>>
        BY <1>7, <2>3
      <3>2. hl \in CallSet /\ hr \in CallSet
        BY <1>2, <1>5, <1>6, <2>3
      <3>3. h \in Seq(CallSet) /\ Len(h) = 2 /\ h[1] = hl /\ h[2] = hr
        BY <3>1, <3>2
      <3> QED BY <2>3, <3>3
    <2> QED BY <1>2, <1>3, <2>1, <2>2, <2>3
  <1>9. calls' = h \o Tail(calls)
    BY <1>a, <1>b DEF h
  <1> DEFINE n == Len(h)
  <1>q. PICK q : q = Len(calls)
    OBVIOUS
  <1>10. /\ calls' \in Seq(CallSet) /\ n \in Nat /\ Len(calls') = n + q - 1
         /\ \A k \in 1 .. n : calls'[k] = h[k]
         /\ \A k \in n + 1 .. n + q - 1 : calls'[k] = calls[k - n + 1]
    <2>1. /\ h \o Tail(calls) \in Seq(CallSet) /\ n \in Nat /\ Len(h \o Tail(calls)) = n + Len(calls) - 1
          /\ \A k \in 1 .. n : (h \o Tail(calls))[k] = h[k]
          /\ \A k \in n + 1 .. n + Len(calls) - 1 : (h \o Tail(calls))[k] = calls[k - n + 1]
      BY <1>1, <1>8, Replaced
    <2> QED BY <1>9, <1>q, <2>1
  <1>11. \/ R = 1 /\ L <= 1 /\ n = 0
         \/ R = 2 /\ L = 1 /\ n = 1 /\ h[1] = hr
         \/ R >= 2 /\ L >= 2 /\ n = 2 /\ h[1] = hl /\ h[2] = hr
    BY <1>8
  <1> HIDE DEF n
  <1>12. q \in Nat /\ q >= 1
    BY <1>1, <1>q
  <1>13. \A k \in Nat : k >= n + 1 => CpuAt(k)' = CpuAt(k - n + 1) /\ LeafAt(k)' = LeafAt(k - n + 1)
    <2> SUFFICES ASSUME NEW k \in Nat, k >= n + 1
                 PROVE  CpuAt(k)' = CpuAt(k - n + 1) /\ LeafAt(k)' = LeafAt(k - n + 1)
      OBVIOUS
    <2>1. k \in 1 .. Len(calls') <=> k - n + 1 \in 1 .. q
      BY <1>10, <1>12
    <2>2. k \in 1 .. Len(calls') => calls'[k] = calls[k - n + 1]
      BY <1>10, <1>12
    <2> QED BY <1>q, <2>1, <2>2 DEF CpuAt, LeafAt
  <1>14. CpuAt(n + 1)' = CpuAt(2) /\ LeafAt(n + 1)' = LeafAt(2)
    BY <1>10, <1>13
  <1>15. \A k \in 1 .. n : CpuAt(k)' = h[k].cpustart /\ LeafAt(k)' = h[k].first
    <2>1. \A k \in 1 .. n : k \in 1 .. Len(calls')
      BY <1>10, <1>12
    <2> QED BY <1>10, <2>1 DEF CpuAt, LeafAt
  <1>16. ASSUME NEW k \in 1 .. Len(calls')
         PROVE  /\ calls'[k].cpustart + calls'[k].ncpu = CpuAt(k + 1)'
                /\ calls'[k].last + 1 = LeafAt(k + 1)'
                /\ calls'[k].ncpu <= calls'[k].last - calls'[k].first + 1
                /\ calls'[k].ncpu = 1 => NTask = 1
    <2>1. CASE k > n
      <3>1. PICK j : j = k - n + 1
        OBVIOUS
      <3>2. j \in 1 .. Len(calls) /\ calls'[k] = calls[j] /\ (k + 1) - n + 1 = j + 1
            /\ k + 1 >= n + 1 /\ k + 1 \in Nat
        BY <1>10, <1>12, <1>q, <2>1, <3>1
      <3>3. CpuAt(k + 1)' = CpuAt((k + 1) - n + 1) /\ LeafAt(k + 1)' = LeafAt((k + 1) - n + 1)
        BY <1>13, <3>2
      <3>4. CpuAt(k + 1)' = CpuAt(j + 1) /\ LeafAt(k + 1)' = LeafAt(j + 1)
        BY <3>2, <3>3
      <3>5. Chained
        BY DEF IInv, Finding
      <3> QED BY <3>2, <3>4, <3>5 DEF Chained
    <2>2. CASE k = 1 /\ n = 1
      <3>0. R = 2 /\ h[1] = hr
        BY <1>11, <2>2
      <3>1. calls'[k] = hr
        BY <1>10, <2>2, <3>0
      <3>2. CpuAt(k + 1)' = CpuAt(2) /\ LeafAt(k + 1)' = LeafAt(2)
        BY <1>14, <2>2
      <3>3. hr.cpustart + hr.ncpu = CpuAt(2) /\ hr.last + 1 = LeafAt(2)
            /\ hr.ncpu <= hr.last - hr.first + 1 /\ hr.ncpu # 1
        BY <1>3, <1>4, <3>0
      <3> QED BY <3>1, <3>2, <3>3
    <2>3. CASE k = 1 /\ n = 2
      <3>0. L >= 2 /\ h[1] = hl /\ h[2] = hr
        BY <1>11, <2>3
      <3>1. calls'[k] = hl
        BY <1>10, <2>3, <3>0
      <3>2. CpuAt(k + 1)' = hr.cpustart /\ LeafAt(k + 1)' = hr.first
        BY <1>15, <2>3, <3>0
      <3>3. hl.cpustart + hl.ncpu = hr.cpustart /\ hl.last + 1 = hr.first
            /\ hl.ncpu <= hl.last - hl.first + 1 /\ hl.ncpu # 1
        BY <1>2, <1>3, <1>4, <3>0
      <3> QED BY <3>1, <3>2, <3>3
    <2>4. CASE k = 2 /\ n = 2
      <3>0. R >= 2 /\ h[2] = hr
        BY <1>11, <2>4
      <3>1. calls'[k] = hr
        BY <1>10, <2>4, <3>0
      <3>2. CpuAt(k + 1)' = CpuAt(2) /\ LeafAt(k + 1)' = LeafAt(2)
        BY <1>14, <2>4
      <3>3. hr.cpustart + hr.ncpu = CpuAt(2) /\ hr.last + 1 = LeafAt(2)
            /\ hr.ncpu <= hr.last - hr.first + 1 /\ hr.ncpu # 1
        BY <1>3, <1>4, <3>0
      <3> QED BY <3>1, <3>2, <3>3
    <2>5. k > n \/ (k = 1 /\ n = 1) \/ (k = 1 /\ n = 2) \/ (k = 2 /\ n = 2)
      <3>1. k \in Nat /\ k >= 1
        OBVIOUS
      <3>2. n = 0 \/ n = 1 \/ n = 2
        BY <1>11
      <3> QED BY <3>1, <3>2
    <2> QED BY <2>1, <2>2, <2>3, <2>4, <2>5
  <1>17. Chained'
    BY <1>16 DEF Chained
  <1>18. R = 1 => CpuAt(1)' = CpuAt(2) /\ LeafAt(1)' = LeafAt(2)
    <2> SUFFICES ASSUME R = 1 PROVE CpuAt(1)' = CpuAt(2) /\ LeafAt(1)' = LeafAt(2)
      OBVIOUS
    <2>1. n = 0
      BY <1>11
    <2> QED BY <1>14, <2>1
  <1>19. R >= 2 /\ L = 1 => CpuAt(1)' = c.cpustart + 1 /\ LeafAt(1)' = s
    <2> SUFFICES ASSUME R >= 2, L = 1 PROVE CpuAt(1)' = c.cpustart + 1 /\ LeafAt(1)' = s
      OBVIOUS
    <2>1. n = 1 /\ h[1] = hr
      BY <1>11
    <2> QED BY <1>4, <1>15, <2>1
  <1>20. L >= 2 => CpuAt(1)' = CpuAt(1) /\ LeafAt(1)' = LeafAt(1)
    <2> SUFFICES ASSUME L >= 2 PROVE CpuAt(1)' = CpuAt(1) /\ LeafAt(1)' = LeafAt(1)
      OBVIOUS
    <2>1. n = 2 /\ h[1] = hl
      BY <1>2, <1>11
    <2> QED BY <1>1, <1>4, <1>15, <2>1
  <1>21. calls' # <<>> => calls'[1] \in CallSet /\ calls'[1].ncpu <= calls'[1].last - calls'[1].first + 1
    <2> SUFFICES ASSUME calls' # <<>>
                 PROVE  calls'[1] \in CallSet /\ calls'[1].ncpu <= calls'[1].last - calls'[1].first + 1
      OBVIOUS
    <2>1. 1 \in 1 .. Len(calls') /\ calls'[1] \in CallSet
      BY <1>10
    <2> QED BY <1>16, <2>1
  <1>22. calls' = <<>> => CpuAt(1)' = NTask /\ LeafAt(1)' = NTopleaves
    <2> SUFFICES ASSUME calls' = <<>> PROVE CpuAt(1)' = NTask /\ LeafAt(1)' = NTopleaves
      OBVIOUS
    <2>1. Len(calls') = 0
      BY <1>10
    <2>2. 1 \notin 1 .. 0
      OBVIOUS
    <2> QED BY <2>1, <2>2 DEF CpuAt, LeafAt
  <1> QED BY <1>a, <1>b, <1>l, <1>r, <1>10, <1>17, <1>18, <1>19, <1>20, <1>21, <1>22

(* A range that is given to the next cpu.                                  *)
Range(r) ==
  /\ r.cpu \in Task /\ r.first \in Leaf /\ r.last \in Leaf /\ r.first <= r.last
  /\ Load(r.first, r.last) <= MaxLoad /\ LoadSph(r.first, r.last) <= MaxLoadSph

(* Dealing out leaves keeps the types.                                     *)
LEMMA AssignTyped ==
  ASSUME Typed, NEW ranges, Assign(ranges), \A r \in ranges : Range(r),
         \A r1, r2 \in ranges : r1.cpu = r2.cpu => r1 = r2,
         \A r1, r2 \in ranges : \A i \in Leaf : i \in r1.first .. r1.last /\ i \in r2.first .. r2.last => r1 = r2
  PROVE  /\ DomainTask' \in [Leaf -> Task]
         /\ DomainStartList' \in [Task -> Int] /\ DomainEndList' \in [Task -> Int]
         /\ list_load' \in [Task -> Int] /\ list_loadsph' \in [Task -> Int]
  <1>1. \A r \in ranges : /\ r.cpu \in Task /\ r.first \in Int /\ r.last \in Int
                          /\ Load(r.first, r.last) \in Int /\ LoadSph(r.first, r.last) \in Int
    <2> TAKE r \in ranges
    <2>1. r.cpu \in Task /\ r.first \in Leaf /\ r.last \in Leaf
      BY DEF Range
    <2>2. r.first \in Int /\ r.last \in Int /\ r.first \in 0 .. NTopleaves /\ r.last + 1 \in 0 .. NTopleaves
      BY <2>1, Constants DEF Leaf
    <2> QED BY <2>1, <2>2, TotalsAreInt DEF Typed
  <1>2. ASSUME NEW t \in Task
        PROVE  /\ DomainStartList'[t] \in Int /\ DomainEndList'[t] \in Int
               /\ list_load'[t] \in Int /\ list_loadsph'[t] \in Int
    <2>1. CASE \E r \in ranges : r.cpu = t
      <3>1. PICK r \in ranges : r.cpu = t
        BY <2>1
      <3>2. /\ DomainStartList'[r.cpu] = r.first /\ DomainEndList'[r.cpu] = r.last
            /\ list_load'[r.cpu] = Load(r.first, r.last) /\ list_loadsph'[r.cpu] = LoadSph(r.first, r.last)
        BY <1>1, Assigned
      <3> QED BY <1>1, <3>1, <3>2
    <2>2. CASE \A r \in ranges : r.cpu # t
      <3>1. /\ DomainStartList'[t] = DomainStartList[t] /\ DomainEndList'[t] = DomainEndList[t]
            /\ list_load'[t] = list_load[t] /\ list_loadsph'[t] = list_loadsph[t]
        BY <2>2, Assigned
      <3>2. /\ DomainStartList[t] \in Int /\ DomainEndList[t] \in Int
            /\ list_load[t] \in Int /\ list_loadsph[t] \in Int
        BY DEF Typed
      <3> QED BY <3>1, <3>2
    <2> QED BY <2>1, <2>2
  <1>3. ASSUME NEW i \in Leaf PROVE DomainTask'[i] \in Task
    <2>1. CASE \E r \in ranges : i \in r.first .. r.last
      <3>1. PICK r \in ranges : i \in r.first .. r.last
        BY <2>1
      <3> QED BY <1>1, <3>1, Assigned
    <2>2. CASE \A r \in ranges : i \notin r.first .. r.last
      BY <2>2, Assigned DEF Typed
    <2> QED BY <2>1, <2>2
  <1>4. /\ DomainTask' = [i \in Leaf |-> DomainTask'[i]]
        /\ DomainStartList' = [t \in Task |-> DomainStartList'[t]]
        /\ DomainEndList' = [t \in Task |-> DomainEndList'[t]]
        /\ list_load' = [t \in Task |-> list_load'[t]] /\ list_loadsph' = [t \in Task |-> list_loadsph'[t]]
    BY Assigned
  <1> QED BY <1>2, <1>3, <1>4

(* Of the tasks that have their leaves nothing changes.                    *)
LEMMA OthersKeep ==
  ASSUME Typed, NEW ranges, Assign(ranges), NEW n \in Nat, NEW m \in Nat, n <= NTask, m <= NTopleaves,
         \A r \in ranges : Range(r) /\ n <= r.cpu /\ m <= r.first,
         \A r1, r2 \in ranges : r1.cpu = r2.cpu => r1 = r2,
         \A r1, r2 \in ranges : \A i \in Leaf : i \in r1.first .. r1.last /\ i \in r2.first .. r2.last => r1 = r2
  PROVE  /\ \A t \in 0 .. n - 1 :
              /\ DomainStartList[t] \in Int /\ DomainEndList[t] \in Int
              /\ DomainStartList'[t] = DomainStartList[t] /\ DomainEndList'[t] = DomainEndList[t]
              /\ list_load'[t] = list_load[t] /\ list_loadsph'[t] = list_loadsph[t]
         /\ \A i \in 0 .. m - 1 : DomainTask'[i] = DomainTask[i]
  <1>1. \A r \in ranges : r.cpu \in Nat /\ r.first \in Nat /\ r.last \in Nat /\ n <= r.cpu /\ m <= r.first
    BY Constants DEF Range, Task, Leaf
  <1>2. ASSUME NEW t \in 0 .. n - 1
        PROVE  /\ DomainStartList[t] \in Int /\ DomainEndList[t] \in Int
               /\ DomainStartList'[t] = DomainStartList[t] /\ DomainEndList'[t] = DomainEndList[t]
               /\ list_load'[t] = list_load[t] /\ list_loadsph'[t] = list_loadsph[t]
    <2>1. t \in Task
      BY Constants DEF Task
    <2>2. \A r \in ranges : r.cpu # t
      BY <1>1
    <2> QED BY <2>1, <2>2, Assigned DEF Typed
  <1>3. ASSUME NEW i \in 0 .. m - 1 PROVE DomainTask'[i] = DomainTask[i]
    <2>1. i \in Leaf
      BY Constants DEF Leaf
    <2>2. \A r \in ranges : i \notin r.first .. r.last
      BY <1>1
    <2> QED BY <2>1, <2>2, Assigned
  <1> QED BY <1>2, <1>3

(* The next cpu gets the next leaves.                                      *)
LEMMA OneRange ==
  ASSUME Typed, NEW r, Range(r), Assign({r}), cum' = cum, Dealt(r.cpu, r.first)
  PROVE  Dealt(r.cpu + 1, r.last + 1)'
  <1>n. PICK n : n = r.cpu
    OBVIOUS
  <1>m. PICK m : m = r.first
    OBVIOUS
  <1>e. PICK e : e = r.last
    OBVIOUS
  <1>r. PICK ranges : ranges = {r}
    OBVIOUS
  <1>1. n \in Task /\ m \in Leaf /\ e \in Leaf /\ n \in Nat /\ m \in Nat /\ e \in Nat
        /\ n < NTask /\ m < NTopleaves /\ m <= e
        /\ Load(m, e) <= MaxLoad /\ LoadSph(m, e) <= MaxLoadSph
    BY <1>n, <1>m, <1>e, Constants DEF Range, Task, Leaf
  <1>2. n + 1 \in Nat /\ e + 1 \in Nat /\ n <= n + 1 /\ m <= e + 1 /\ n < n + 1
        /\ (n + 1) - 1 = n /\ (e + 1) - 1 = e /\ n <= NTask /\ m <= NTopleaves
    BY <1>1, Constants
  <1>3. /\ Assign(ranges) /\ r \in ranges
        /\ \A x, y \in ranges : x = y
        /\ \A x \in ranges : Range(x) /\ n <= x.cpu /\ m <= x.first
    BY <1>n, <1>m, <1>r, <1>1
  <1>4. /\ DomainStartList'[n] = m /\ DomainEndList'[n] = e
        /\ list_load'[n] = Load(m, e) /\ list_loadsph'[n] = LoadSph(m, e)
        /\ \A i \in Leaf : i \in m .. e => DomainTask'[i] = n
    BY <1>n, <1>m, <1>e, <1>1, <1>3, Assigned
  <1>5. /\ \A t \in 0 .. n - 1 :
              /\ DomainStartList[t] \in Int /\ DomainEndList[t] \in Int
              /\ DomainStartList'[t] = DomainStartList[t] /\ DomainEndList'[t] = DomainEndList[t]
              /\ list_load'[t] = list_load[t] /\ list_loadsph'[t] = list_loadsph[t]
        /\ \A i \in 0 .. m - 1 : DomainTask'[i] = DomainTask[i]
    BY <1>1, <1>2, <1>3, OthersKeep
  <1>6. \A i \in m .. e : DomainTask'[i] = n
    BY <1>1, <1>4, Constants DEF Leaf
  <1>7. PICK n2 \in Nat : n2 = n + 1
    BY <1>2
  <1>8. PICK m2 \in Nat : m2 = e + 1
    BY <1>2
  <1>9. \A t \in n .. n2 - 1 :
           /\ DomainStartList'[t] \in Int /\ DomainEndList'[t] \in Int
           /\ m <= DomainStartList'[t] /\ DomainStartList'[t] <= DomainEndList'[t] /\ DomainEndList'[t] < m2
           /\ t + 1 < n2 => DomainStartList'[t + 1] = DomainEndList'[t] + 1
           /\ list_load'[t] = Load(DomainStartList'[t], DomainEndList'[t]) /\ list_load'[t] <= MaxLoad
           /\ list_loadsph'[t] = LoadSph(DomainStartList'[t], DomainEndList'[t]) /\ list_loadsph'[t] <= MaxLoadSph
           /\ \A i \in DomainStartList'[t] .. DomainEndList'[t] : DomainTask'[i] = t
    <2> TAKE t \in n .. n2 - 1
    <2>1. t = n
      BY <1>1, <1>7
    <2> QED BY <1>1, <1>4, <1>6, <1>7, <1>8, <2>1
  <1>10. \A i \in m .. m2 - 1 : \E t \in n .. n2 - 1 : DomainStartList'[t] <= i /\ i <= DomainEndList'[t]
    BY <1>1, <1>4, <1>7, <1>8
  <1>11. Dealt(n, m)
    BY <1>n, <1>m
  <1>12. n < n2 => DomainStartList'[n] = m /\ DomainEndList'[n2 - 1] = m2 - 1
    BY <1>1, <1>4, <1>7, <1>8
  <1>13. n <= n2 /\ m <= m2 /\ (n = n2 => m = m2)
    BY <1>1, <1>7, <1>8
  <1>14. Dealt(n2, m2)'
    BY <1>1, <1>5, <1>9, <1>10, <1>11, <1>12, <1>13, DealtOn
  <1> QED BY <1>n, <1>e, <1>7, <1>8, <1>14

(* The next two cpus get the next leaves.                                  *)
LEMMA TwoRanges ==
  ASSUME Typed, NEW r, NEW q, Range(r), Range(q), q.cpu = r.cpu + 1, q.first = r.last + 1,
         Assign({r, q}), cum' = cum, Dealt(r.cpu, r.first)
  PROVE  Dealt(q.cpu + 1, q.last + 1)'
  <1>n. PICK n : n = r.cpu
    OBVIOUS
  <1>m. PICK m : m = r.first
    OBVIOUS
  <1>e. PICK e : e = r.last
    OBVIOUS
  <1>k. PICK k : k = q.cpu
    OBVIOUS
  <1>f. PICK f : f = q.first
    OBVIOUS
  <1>l. PICK l : l = q.last
    OBVIOUS
  <1>r. PICK ranges : ranges = {r, q}
    OBVIOUS
  <1>1. /\ n \in Task /\ m \in Leaf /\ e \in Leaf /\ n \in Nat /\ m \in Nat /\ e \in Nat
        /\ n < NTask /\ m < NTopleaves /\ m <= e
        /\ Load(m, e) <= MaxLoad /\ LoadSph(m, e) <= MaxLoadSph
    BY <1>n, <1>m, <1>e, Constants DEF Range, Task, Leaf
  <1>2. /\ k \in Task /\ f \in Leaf /\ l \in Leaf /\ k \in Nat /\ f \in Nat /\ l \in Nat
        /\ k < NTask /\ f < NTopleaves /\ f <= l /\ k = n + 1 /\ f = e + 1
        /\ Load(f, l) <= MaxLoad /\ LoadSph(f, l) <= MaxLoadSph
    BY <1>n, <1>e, <1>k, <1>f, <1>l, Constants DEF Range, Task, Leaf
  <1>3. /\ Assign(ranges) /\ r \in ranges /\ q \in ranges
        /\ \A x, y \in ranges : x.cpu = y.cpu => x = y
        /\ \A x, y \in ranges : \A i \in Leaf : i \in x.first .. x.last /\ i \in y.first .. y.last => x = y
        /\ \A x \in ranges : Range(x) /\ n <= x.cpu /\ m <= x.first
    <2>1. Assign(ranges) /\ r \in ranges /\ q \in ranges /\ (\A x \in ranges : x = r \/ x = q)
      BY <1>r
    <2>2. r.cpu # q.cpu
      BY <1>n, <1>k, <1>1, <1>2
    <2>3. \A i \in Leaf : ~(i \in r.first .. r.last /\ i \in q.first .. q.last)
      BY <1>m, <1>e, <1>f, <1>l, <1>1, <1>2
    <2>4. n <= r.cpu /\ n <= q.cpu /\ m <= r.first /\ m <= q.first
      BY <1>n, <1>m, <1>k, <1>f, <1>1, <1>2
    <2> QED BY <2>1, <2>2, <2>3, <2>4
  <1>4. /\ DomainStartList'[n] = m /\ DomainEndList'[n] = e
        /\ list_load'[n] = Load(m, e) /\ list_loadsph'[n] = LoadSph(m, e)
        /\ \A i \in Leaf : i \in m .. e => DomainTask'[i] = n
    BY <1>n, <1>m, <1>e, <1>1, <1>3, Assigned
  <1>5. /\ DomainStartList'[k] = f /\ DomainEndList'[k] = l
        /\ list_load'[k] = Load(f, l) /\ list_loadsph'[k] = LoadSph(f, l)
        /\ \A i \in Leaf : i \in f .. l => DomainTask'[i] = k
    BY <1>k, <1>f, <1>l, <1>2, <1>3, Assigned
  <1>6. /\ \A t \in 0 .. n - 1 :
              /\ DomainStartList[t] \in Int /\ DomainEndList[t] \in Int
              /\ DomainStartList'[t] = DomainStartList[t] /\ DomainEndList'[t] = DomainEndList[t]
              /\ list_load'[t] = list_load[t] /\ list_loadsph'[t] = list_loadsph[t]
        /\ \A i \in 0 .. m - 1 : DomainTask'[i] = DomainTask[i]
    <2>1. n <= NTask /\ m <= NTopleaves
      BY <1>1, Constants
    <2> QED BY <1>1, <1>3, <2>1, OthersKeep
  <1>7. /\ \A i \in m .. e : DomainTask'[i] = n
        /\ \A i \in f .. l : DomainTask'[i] = k
    BY <1>1, <1>2, <1>4, <1>5, Constants DEF Leaf
  <1>8. PICK n2 \in Nat : n2 = k + 1
    BY <1>2
  <1>9. PICK m2 \in Nat : m2 = l + 1
    BY <1>2
  <1>10. \A t \in n .. n2 - 1 :
           /\ DomainStartList'[t] \in Int /\ DomainEndList'[t] \in Int
           /\ m <= DomainStartList'[t] /\ DomainStartList'[t] <= DomainEndList'[t] /\ DomainEndList'[t] < m2
           /\ t + 1 < n2 => DomainStartList'[t + 1] = DomainEndList'[t] + 1
           /\ list_load'[t] = Load(DomainStartList'[t], DomainEndList'[t]) /\ list_load'[t] <= MaxLoad
           /\ list_loadsph'[t] = LoadSph(DomainStartList'[t], DomainEndList'[t]) /\ list_loadsph'[t] <= MaxLoadSph
           /\ \A i \in DomainStartList'[t] .. DomainEndList'[t] : DomainTask'[i] = t
    <2> TAKE t \in n .. n2 - 1
    <2>1. t = n \/ t = k
      BY <1>1, <1>2, <1>8
    <2>2. CASE t = n
      BY <1>1, <1>2, <1>4, <1>5, <1>7, <1>8, <1>9, <2>2
    <2>3. CASE t = k
      BY <1>1, <1>2, <1>5, <1>7, <1>8, <1>9, <2>3
    <2> QED BY <2>1, <2>2, <2>3
  <1>11. \A i \in m .. m2 - 1 : \E t \in n .. n2 - 1 : DomainStartList'[t] <= i /\ i <= DomainEndList'[t]
    <2> TAKE i \in m .. m2 - 1
    <2>1. n \in n .. n2 - 1 /\ k \in n .. n2 - 1 /\ i \in Int /\ m <= i /\ i <= l
      BY <1>1, <1>2, <1>8, <1>9
    <2>2. CASE i <= e
      BY <1>4, <2>1, <2>2
    <2>3. CASE f <= i
      BY <1>5, <2>1, <2>3
    <2> QED BY <1>1, <1>2, <2>1, <2>2, <2>3
  <1>12. Dealt(n, m)
    BY <1>n, <1>m
  <1>13. n < n2 => DomainStartList'[n] = m /\ DomainEndList'[n2 - 1] = m2 - 1
    BY <1>1, <1>2, <1>4, <1>5, <1>8, <1>9
  <1>14. n <= n2 /\ m <= m2 /\ (n = n2 => m = m2)
    BY <1>1, <1>2, <1>8, <1>9
  <1>15. Dealt(n2, m2)'
    BY <1>1, <1>6, <1>10, <1>11, <1>12, <1>13, <1>14, DealtOn
  <1> QED BY <1>k, <1>l, <1>8, <1>9, <1>15

(* What a call that ends adds to the leaves dealt out.                     *)
LEMMA DivideDealt ==
  ASSUME IInv, Divide
  PROVE  /\ Dealt(CpuAt(1), LeafAt(1))'
         /\ DomainTask' \in [Leaf -> Task]
         /\ DomainStartList' \in [Task -> Int] /\ DomainEndList' \in [Task -> Int]
         /\ list_load' \in [Task -> Int] /\ list_loadsph' \in [Task -> Int]
  <1>c. PICK c : c = calls[1]
    OBVIOUS
  <1>s. PICK s : s = split
    OBVIOUS
  <1>l. PICK L : L = LeftCpus(c)
    OBVIOUS
  <1>r. PICK R : R = RightCpus(c)
    OBVIOUS
  <1>p. PICK rl : rl = [cpu |-> c.cpustart, first |-> c.first, last |-> s - 1, n |-> L]
    OBVIOUS
  <1>q. PICK rr : rr = [cpu |-> c.cpustart + L, first |-> s, last |-> c.last, n |-> R]
    OBVIOUS
  <1>1. /\ stage = "find" /\ Typed
        /\ calls # <<>> /\ Head(calls) = c /\ c \in CallSet /\ s \in Nat
        /\ c.first + L <= s /\ s <= c.last - (R - 1)
        /\ (L = 0 => s = c.first)
        /\ CpuAt(1) = c.cpustart /\ LeafAt(1) = c.first
        /\ CpuAt(2) = c.cpustart + c.ncpu /\ LeafAt(2) = c.last + 1
        /\ CpuAt(2) \in Nat /\ CpuAt(2) <= NTask
    <2>1. stage = "find"
      BY DEF Divide
    <2> QED BY <1>c, <1>s, <1>l, <1>r, <2>1, RunningCall DEF IInv
  <1>2. /\ L \in Nat /\ R \in Nat /\ L + R = c.ncpu /\ L <= R /\ R <= L + 1 /\ c.ncpu >= 1
        /\ c.cpustart \in Nat /\ c.ncpu \in Nat /\ c.first \in Nat /\ c.last \in Nat
        /\ c.cpustart < NTask /\ c.first < NTopleaves /\ c.last < NTopleaves
    BY <1>1, <1>l, <1>r, HalvesOfCpus
  <1>3. /\ Viable(c, s) /\ Assign(Ranges(c, s)) /\ cum' = cum /\ UNCHANGED list_work
        /\ calls' = Halves(calls[1], split) \o Tail(calls)
    BY <1>1, <1>c, <1>s DEF Divide
  <1>4. Ranges(c, s) = {x \in {rl, rr} : x.n = 1}
    BY <1>l, <1>r, <1>p, <1>q DEF Ranges
  <1>5. /\ (R = 1 => CpuAt(1)' = CpuAt(2) /\ LeafAt(1)' = LeafAt(2))
        /\ (R >= 2 /\ L = 1 => CpuAt(1)' = c.cpustart + 1 /\ LeafAt(1)' = s)
        /\ (L >= 2 => CpuAt(1)' = CpuAt(1) /\ LeafAt(1)' = LeafAt(1))
    BY <1>1, <1>3, <1>c, <1>s, <1>l, <1>r, HalvesChained
  <1>6. rl.n = L /\ rl.cpu = c.cpustart /\ rl.first = c.first /\ rl.last = s - 1
        /\ rr.n = R /\ rr.cpu = c.cpustart + L /\ rr.first = s /\ rr.last = c.last
    BY <1>p, <1>q
  <1>7. L = 1 => Range(rl)
    <2> SUFFICES ASSUME L = 1 PROVE Range(rl)
      OBVIOUS
    <2>1. /\ Load(c.first, s - 1) <= MaxLoad * 1 /\ LoadSph(c.first, s - 1) <= MaxLoadSph * 1
      BY <1>3, <1>l DEF Viable
    <2>2. MaxLoad * 1 = MaxLoad /\ MaxLoadSph * 1 = MaxLoadSph
      BY Constants
    <2>3. c.cpustart \in Task /\ c.first \in Leaf
      BY <1>2, Constants DEF Task, Leaf
    <2>4. s - 1 \in Leaf /\ c.first <= s - 1
      <3>1. s <= c.last /\ c.first + 1 <= s
        BY <1>1, <1>2
      <3> QED BY <1>1, <1>2, <3>1, Constants DEF Leaf
    <2> QED BY <1>6, <2>1, <2>2, <2>3, <2>4 DEF Range
  <1>8. R = 1 => Range(rr)
    <2> SUFFICES ASSUME R = 1 PROVE Range(rr)
      OBVIOUS
    <2>1. /\ Load(s, c.last) <= MaxLoad * 1 /\ LoadSph(s, c.last) <= MaxLoadSph * 1
      BY <1>3, <1>r DEF Viable
    <2>2. MaxLoad * 1 = MaxLoad /\ MaxLoadSph * 1 = MaxLoadSph
      BY Constants
    <2>3. c.cpustart + L \in Task
      <3>1. c.cpustart + L < NTask
        BY <1>1, <1>2, Constants
      <3> QED BY <1>2, <3>1, Constants DEF Task
    <2>4. s \in Leaf /\ c.last \in Leaf /\ s <= c.last
      <3>1. s <= c.last
        BY <1>1, <1>2
      <3> QED BY <1>1, <1>2, <3>1, Constants DEF Leaf
    <2> QED BY <1>6, <2>1, <2>2, <2>3, <2>4 DEF Range
  <1>9. Dealt(c.cpustart, c.first)
    BY <1>1 DEF IInv, Finding
  <1>10. CASE L >= 2
    <2>1. Ranges(c, s) = {}
      BY <1>2, <1>4, <1>6, <1>10
    <2>2. Assign({})
      BY <1>3, <2>1
    <2> PICK ranges : ranges = {}
      OBVIOUS
    <2>3. Assign(ranges)
      BY <2>2
    <2>4. /\ \A t \in Task : /\ DomainStartList'[t] = DomainStartList[t] /\ DomainEndList'[t] = DomainEndList[t]
                             /\ list_load'[t] = list_load[t] /\ list_loadsph'[t] = list_loadsph[t]
          /\ \A i \in Leaf : DomainTask'[i] = DomainTask[i]
          /\ DomainTask' = [i \in Leaf |-> DomainTask'[i]]
          /\ DomainStartList' = [t \in Task |-> DomainStartList'[t]]
          /\ DomainEndList' = [t \in Task |-> DomainEndList'[t]]
          /\ list_load' = [t \in Task |-> list_load'[t]] /\ list_loadsph' = [t \in Task |-> list_loadsph'[t]]
      BY <2>3, Assigned
    <2>5. UNCHANGED <<DomainTask, DomainStartList, DomainEndList, list_load, list_loadsph>>
      BY <1>1, <2>4 DEF Typed
    <2>6. CpuAt(1)' = CpuAt(1) /\ LeafAt(1)' = LeafAt(1)
      BY <1>5, <1>10
    <2>7. Dealt(CpuAt(1), LeafAt(1))
      BY <1>1, <1>9
    <2>8. Dealt(CpuAt(1), LeafAt(1))'
      BY <1>3, <2>5, <2>6, <2>7 DEF Dealt, Load, LoadSph, Total
    <2> QED BY <1>1, <2>5, <2>8 DEF Typed
  <1>11. CASE L = 1 /\ R >= 2
    <2>1. Ranges(c, s) = {rl}
      BY <1>4, <1>6, <1>11
    <2>2. Assign({rl}) /\ Range(rl)
      BY <1>3, <1>7, <1>11, <2>1
    <2>3. Dealt(rl.cpu + 1, rl.last + 1)'
      BY <1>1, <1>3, <1>6, <1>9, <2>2, OneRange
    <2>4. rl.cpu + 1 = c.cpustart + 1 /\ rl.last + 1 = s
      BY <1>1, <1>6
    <2>5. Dealt(CpuAt(1), LeafAt(1))'
      BY <1>5, <1>11, <2>3, <2>4
    <2>r. PICK ranges : ranges = {rl}
      OBVIOUS
    <2>6. Assign(ranges) /\ (\A x \in ranges : Range(x)) /\ (\A x, y \in ranges : x = y)
      BY <2>2, <2>r
    <2> QED BY <1>1, <2>5, <2>6, AssignTyped
  <1>12. CASE L = 1 /\ R = 1
    <2>1. Ranges(c, s) = {rl, rr}
      BY <1>4, <1>6, <1>12
    <2>2. Assign({rl, rr}) /\ Range(rl) /\ Range(rr)
      BY <1>3, <1>7, <1>8, <1>12, <2>1
    <2>3. rr.cpu = rl.cpu + 1 /\ rr.first = rl.last + 1
      BY <1>1, <1>6, <1>12
    <2>4. Dealt(rr.cpu + 1, rr.last + 1)'
      BY <1>1, <1>3, <1>6, <1>9, <2>2, <2>3, TwoRanges
    <2>5. rr.cpu + 1 = CpuAt(2) /\ rr.last + 1 = LeafAt(2)
      BY <1>1, <1>2, <1>6, <1>12
    <2>6. Dealt(CpuAt(1), LeafAt(1))'
      BY <1>5, <1>12, <2>4, <2>5
    <2>r. PICK ranges : ranges = {rl, rr}
      OBVIOUS
    <2>7. rl.cpu # rr.cpu /\ \A i \in Leaf : ~(i \in rl.first .. rl.last /\ i \in rr.first .. rr.last)
      BY <1>1, <1>2, <1>6, <1>12
    <2>8. /\ Assign(ranges) /\ (\A x \in ranges : Range(x))
          /\ \A x, y \in ranges : x.cpu = y.cpu => x = y
          /\ \A x, y \in ranges : \A i \in Leaf : i \in x.first .. x.last /\ i \in y.first .. y.last => x = y
      BY <2>2, <2>7, <2>r
    <2> QED BY <1>1, <2>6, <2>8, AssignTyped
  <1>13. CASE L = 0 /\ R = 1
    <2>1. Ranges(c, s) = {rr}
      BY <1>4, <1>6, <1>13
    <2>2. Assign({rr}) /\ Range(rr)
      BY <1>3, <1>8, <1>13, <2>1
    <2>3. rr.cpu = c.cpustart /\ rr.first = c.first
      BY <1>1, <1>2, <1>6, <1>13
    <2>4. Dealt(rr.cpu + 1, rr.last + 1)'
      BY <1>1, <1>3, <1>9, <2>2, <2>3, OneRange
    <2>5. rr.cpu + 1 = CpuAt(2) /\ rr.last + 1 = LeafAt(2)
      BY <1>1, <1>2, <1>6, <1>13
    <2>6. Dealt(CpuAt(1), LeafAt(1))'
      BY <1>5, <1>13, <2>4, <2>5
    <2>r. PICK ranges : ranges = {rr}
      OBVIOUS
    <2>7. Assign(ranges) /\ (\A x \in ranges : Range(x)) /\ (\A x, y \in ranges : x = y)
      BY <2>2, <2>r
    <2> QED BY <1>1, <2>6, <2>7, AssignTyped
  <1>14. L >= 2 \/ (L = 1 /\ R >= 2) \/ (L = 1 /\ R = 1) \/ (L = 0 /\ R = 1)
    BY <1>2
  <1> QED BY <1>10, <1>11, <1>12, <1>13, <1>14

(* When all leaves are dealt out they are divided among the tasks.         *)
LEMMA DealtTiles ==
  ASSUME Typed, Dealt(NTask, NTopleaves)
  PROVE  /\ Tiled /\ InLeaves
         /\ \A t \in Task :
              /\ list_load[t] = Load(DomainStartList[t], DomainEndList[t]) /\ list_load[t] <= MaxLoad
              /\ list_loadsph[t] = LoadSph(DomainStartList[t], DomainEndList[t]) /\ list_loadsph[t] <= MaxLoadSph
         /\ \A i \in Leaf : /\ DomainTask[i] \in Task
                            /\ DomainStartList[DomainTask[i]] <= i /\ i <= DomainEndList[DomainTask[i]]
  <1>1. \A t \in Task :
          /\ t \in 0 .. NTask - 1 /\ DomainStartList[t] \in Int /\ DomainEndList[t] \in Int
          /\ 0 <= DomainStartList[t] /\ DomainStartList[t] <= DomainEndList[t] /\ DomainEndList[t] < NTopleaves
          /\ t = 0 => DomainStartList[t] = 0
          /\ t + 1 < NTask => DomainStartList[t + 1] = DomainEndList[t] + 1
          /\ t + 1 = NTask => DomainEndList[t] = NTopleaves - 1
          /\ \A i \in DomainStartList[t] .. DomainEndList[t] : DomainTask[i] = t
    BY DEF Dealt, Task, Typed
  <1>2. InLeaves
    BY <1>1, Constants DEF InLeaves, Leaf
  <1>3. EveryCpuHoldsALeaf /\ Owners
    BY <1>1 DEF EveryCpuHoldsALeaf, Owners
  <1>4. Consecutive
    <2>1. 0 \in Task /\ NTask - 1 \in Task /\ (NTask - 1) + 1 = NTask
      BY Constants DEF Task
    <2>2. \A t \in Task : t + 1 \in Task => t + 1 < NTask
      BY Constants DEF Task
    <2> QED BY <1>1, <2>1, <2>2 DEF Consecutive
  <1>5. \A t \in Task :
              /\ list_load[t] = Load(DomainStartList[t], DomainEndList[t]) /\ list_load[t] <= MaxLoad
              /\ list_loadsph[t] = LoadSph(DomainStartList[t], DomainEndList[t]) /\ list_loadsph[t] <= MaxLoadSph
    BY DEF Dealt, Task
  <1>6. \A i \in Leaf : /\ DomainTask[i] \in Task
                        /\ DomainStartList[DomainTask[i]] <= i /\ i <= DomainEndList[DomainTask[i]]
    BY DEF Dealt, Task, Leaf
  <1> QED BY <1>2, <1>3, <1>4, <1>5, <1>6 DEF Tiled

LEMMA DivideIInv == IInv /\ Divide => IInv'
  <1> SUFFICES ASSUME IInv, Divide PROVE IInv'
    OBVIOUS
  <1>1. /\ stage = "find" /\ calls # <<>> /\ Typed
        /\ list_work = [t \in Task |-> 0] /\ cell = 0
    BY DEF Divide, IInv, Finding
  <1>2. Head(calls) = calls[1]
    BY <1>1 DEF Typed
  <1>3. /\ calls' = Halves(calls[1], split) \o Tail(calls)
        /\ split' = (IF calls' = <<>> THEN split ELSE FirstSplit(Head(calls')))
        /\ stage' = (IF calls' = <<>> THEN "sum" ELSE "find")
        /\ UNCHANGED <<cum, list_work, cell, task, moved, sweeps>>
    <2> HIDE DEF IInv
    <2> QED BY <1>2 DEF Divide, loop
  <1>4. /\ calls' \in Seq(CallSet) /\ Chained'
        /\ calls' # <<>> => calls'[1] \in CallSet /\ calls'[1].ncpu <= calls'[1].last - calls'[1].first + 1
        /\ calls' = <<>> => CpuAt(1)' = NTask /\ LeafAt(1)' = NTopleaves
    BY <1>1, <1>3, HalvesChained
  <1>5. /\ Dealt(CpuAt(1), LeafAt(1))'
        /\ DomainTask' \in [Leaf -> Task]
        /\ DomainStartList' \in [Task -> Int] /\ DomainEndList' \in [Task -> Int]
        /\ list_load' \in [Task -> Int] /\ list_loadsph' \in [Task -> Int]
    BY DivideDealt
  <1>6. calls' # <<>> => split' \in Nat /\ Searching(calls[1])'
    <2> SUFFICES ASSUME calls' # <<>> PROVE split' \in Nat /\ Searching(calls[1])'
      OBVIOUS
    <2>c. PICK c : c = calls'[1]
      OBVIOUS
    <2>1. c \in CallSet /\ c.ncpu <= c.last - c.first + 1
      BY <1>4, <2>c
    <2>2. Head(calls') = c
      BY <1>4, <2>c
    <2>3. split' = FirstSplit(c)
      BY <1>3, <2>2
    <2>4. /\ FirstSplit(c) \in Nat
          /\ c.first + LeftCpus(c) <= FirstSplit(c)
          /\ FirstSplit(c) <= c.last - (RightCpus(c) - 1)
          /\ LeftCpus(c) = 0 => FirstSplit(c) = c.first
      BY <2>1, SearchBegins
    <2>5. Searching(calls[1])'
      BY <2>c, <2>3, <2>4 DEF Searching, LeftCpus, RightCpus
    <2> QED BY <2>3, <2>4, <2>5
  <1>7. split' \in Nat
    BY <1>1, <1>3, <1>6 DEF Typed
  <1>8. Typed'
    BY <1>1, <1>3, <1>4, <1>5, <1>7 DEF Typed
  <1>9. CASE calls' # <<>>
    <2>1. stage' = "find"
      BY <1>3, <1>9
    <2>2. Finding'
      BY <1>1, <1>3, <1>4, <1>5, <1>6, <1>9 DEF Finding
    <2> QED BY <1>8, <2>1, <2>2 DEF IInv, Summing, Limits, Beginning, SweepsBegin
  <1>10. CASE calls' = <<>>
    <2>1. stage' = "sum"
      BY <1>3, <1>10
    <2>2. Dealt(NTask, NTopleaves)'
      BY <1>4, <1>5, <1>10
    <2>3. /\ \A t \in Task : DomainStartList'[t] \in Leaf /\ DomainEndList'[t] \in Leaf
          /\ \A t \in Task : list_load'[t] <= MaxLoad /\ list_loadsph'[t] <= MaxLoadSph
      <3>1. \A t \in Task : DomainStartList'[t] \in Int /\ DomainEndList'[t] \in Int
        BY <1>5
      <3>2. \A t \in Task :
              /\ 0 <= DomainStartList'[t] /\ DomainStartList'[t] <= DomainEndList'[t] /\ DomainEndList'[t] < NTopleaves
              /\ list_load'[t] <= MaxLoad /\ list_loadsph'[t] <= MaxLoadSph
        BY <2>2 DEF Dealt, Task
      <3> QED BY <3>1, <3>2, Constants DEF Leaf
    <2>4. Limits'
      BY <2>3 DEF Limits
    <2>5. \A t \in Task : list_work'[t] = 0 /\ cell' <= DomainStartList'[t] /\ cum'.work[DomainStartList'[t]] \in Int
      <3> TAKE t \in Task
      <3>1. list_work'[t] = 0 /\ cell' = 0
        BY <1>1, <1>3
      <3>2. DomainStartList'[t] \in Nat /\ DomainStartList'[t] \in 0 .. NTopleaves
        BY <2>3, Constants DEF Leaf
      <3>3. cum'.work \in [0 .. NTopleaves -> Nat]
        BY <1>8 DEF Typed, Tree, Cumulative
      <3>4. cum'.work[DomainStartList'[t]] \in Nat
        BY <3>2, <3>3
      <3> QED BY <3>1, <3>2, <3>4
    <2>6. Summing'
      <3>1. cell' < NTopleaves
        BY <1>1, <1>3, Constants
      <3>2. ASSUME NEW t \in Task
            PROVE  list_work'[t] = cum'.work[Reached(DomainStartList[t], DomainEndList[t])'] - cum'.work[DomainStartList'[t]]
        <4>1. Reached(DomainStartList[t], DomainEndList[t])' = DomainStartList'[t]
          BY <2>5 DEF Reached
        <4>2. \A a \in Int : a - a = 0
          OBVIOUS
        <4> QED BY <2>5, <4>1, <4>2
      <3> QED BY <2>2, <3>1, <3>2 DEF Summing
    <2> QED BY <1>8, <2>1, <2>4, <2>6 DEF IInv, Finding, Beginning, SweepsBegin
  <1> QED BY <1>9, <1>10

LEMMA NotViableIInv == IInv /\ NotViable => IInv'
  <1> SUFFICES ASSUME IInv, NotViable PROVE IInv'
    OBVIOUS
  <1>1. stage' = "endrun" /\ Typed
    BY DEF NotViable, IInv
  <1>2. Typed'
    BY <1>1 DEF NotViable, lists, loop, Typed
  <1> QED BY <1>1, <1>2 DEF IInv, Finding, Summing, Limits, Beginning, SweepsBegin

(* The work of a leaf, and where the sum over a task's leaves has come to. *)
LEMMA WorkIsInt ==
  ASSUME cum \in Tree
  PROVE  \A i \in 0 .. NTopleaves : cum.work[i] \in Nat
  <1>1. cum.work \in Cumulative
    BY DEF Tree
  <1> QED BY <1>1 DEF Cumulative

LEMMA SumWorkIInv == IInv /\ SumWork => IInv'
  <1> SUFFICES ASSUME IInv, SumWork PROVE IInv'
    OBVIOUS
  <1>1. /\ stage = "sum" /\ Typed /\ Limits /\ Dealt(NTask, NTopleaves) /\ cell < NTopleaves
        /\ \A t \in Task : list_work[t] =
             cum.work[Reached(DomainStartList[t], DomainEndList[t])] - cum.work[DomainStartList[t]]
    BY DEF SumWork, IInv, Summing
  <1>i. PICK i : i = cell
    OBVIOUS
  <1>o. PICK o : o = DomainTask[i]
    OBVIOUS
  <1>2. /\ list_work' = [list_work EXCEPT ![o] = @ + Work(i, i)]
        /\ cell' = i + 1
        /\ stage' = (IF i + 1 = NTopleaves THEN "shift" ELSE "sum")
        /\ UNCHANGED <<cum, calls, split, DomainTask, DomainStartList, DomainEndList, list_load, list_loadsph,
                       task, moved, sweeps>>
    BY <1>i, <1>o DEF SumWork, lists, loop
  <1>3. i \in Leaf /\ i \in Nat /\ i < NTopleaves /\ i + 1 \in 0 .. NTopleaves /\ i \in 0 .. NTopleaves
    BY <1>1, <1>i, Constants DEF Typed, Leaf
  <1>4. /\ Tiled /\ InLeaves
        /\ \A t \in Task : /\ list_load[t] = Load(DomainStartList[t], DomainEndList[t])
                           /\ list_loadsph[t] = LoadSph(DomainStartList[t], DomainEndList[t])
        /\ o \in Task /\ DomainStartList[o] <= i /\ i <= DomainEndList[o]
    BY <1>1, <1>3, <1>o, DealtTiles
  <1>5. \A t \in Task : /\ DomainStartList[t] \in Leaf /\ DomainEndList[t] \in Leaf
                        /\ DomainStartList[t] \in Nat /\ DomainEndList[t] \in Nat
                        /\ DomainStartList[t] <= DomainEndList[t] /\ DomainEndList[t] < NTopleaves
    BY <1>4, Constants DEF InLeaves, Leaf, Tiled, EveryCpuHoldsALeaf
  <1>6. cum \in Tree /\ list_work \in [Task -> Int] /\ Work(i, i) = cum.work[i + 1] - cum.work[i]
    BY <1>1 DEF Typed, Work, Total
  <1>w. PICK w : w = cum.work
    OBVIOUS
  <1>7. \A k \in 0 .. NTopleaves : w[k] \in Nat
    BY <1>6, <1>w, WorkIsInt
  <1>8. ASSUME NEW t \in Task
        PROVE  list_work'[t] =
                 w[Reached(DomainStartList[t], DomainEndList[t])'] - w[DomainStartList[t]]
    <2>f. PICK f : f = DomainStartList[t]
      OBVIOUS
    <2>l. PICK l : l = DomainEndList[t]
      OBVIOUS
    <2>1. f \in Nat /\ l \in Nat /\ f <= l /\ l < NTopleaves /\ f \in 0 .. NTopleaves
      BY <1>5, <2>f, <2>l, Constants
    <2>2. Reached(DomainStartList[t], DomainEndList[t])' = IF i + 1 <= f THEN f ELSE IF i + 1 > l THEN l + 1 ELSE i + 1
      BY <1>2, <2>f, <2>l DEF Reached
    <2>3. Reached(DomainStartList[t], DomainEndList[t]) = IF i <= f THEN f ELSE IF i > l THEN l + 1 ELSE i
      BY <1>i, <2>f, <2>l DEF Reached
    <2>4. CASE t = o
      <3>1. f <= i /\ i <= l
        BY <1>4, <2>4, <2>f, <2>l
      <3>2. Reached(DomainStartList[t], DomainEndList[t]) = i /\ Reached(DomainStartList[t], DomainEndList[t])' = i + 1
        BY <1>3, <2>1, <2>2, <2>3, <3>1
      <3>3. list_work[t] = w[i] - w[f]
        BY <1>1, <1>w, <2>f, <3>2
      <3>4. list_work'[t] = list_work[t] + (w[i + 1] - w[i])
        BY <1>2, <1>4, <1>6, <1>w, <2>4
      <3>5. w[i] \in Nat /\ w[i + 1] \in Nat /\ w[f] \in Nat
        BY <1>3, <1>7, <2>1
      <3>6. \A a, b, d \in Nat : (a - d) + (b - a) = b - d
        OBVIOUS
      <3> QED BY <2>f, <3>2, <3>3, <3>4, <3>5, <3>6
    <2>5. CASE t # o
      <3>1. ~(f <= i /\ i <= l)
        <4> SUFFICES ASSUME f <= i, i <= l PROVE FALSE
          OBVIOUS
        <4>1. i \in DomainStartList[t] .. DomainEndList[t]
          BY <1>3, <2>1, <2>f, <2>l
        <4>2. DomainTask[i] = t
          BY <1>4, <4>1 DEF Tiled, Owners
        <4> QED BY <1>o, <2>5, <4>2
      <3>2. Reached(DomainStartList[t], DomainEndList[t])' = Reached(DomainStartList[t], DomainEndList[t])
        BY <1>3, <2>1, <2>2, <2>3, <3>1
      <3>3. list_work'[t] = list_work[t]
        BY <1>2, <1>6, <2>5
      <3> QED BY <1>1, <1>w, <3>2, <3>3
    <2> QED BY <2>4, <2>5
  <1>9. list_work' \in [Task -> Int]
    <2>1. Work(i, i) \in Int
      BY <1>3, <1>6, <1>7, <1>w
    <2> QED BY <1>2, <1>4, <1>6, <2>1
  <1>10. Typed'
    <2>1. cell' \in 0 .. NTopleaves
      BY <1>2, <1>3
    <2> QED BY <1>1, <1>2, <1>9, <2>1 DEF Typed
  <1>11. Limits'
    BY <1>1, <1>2 DEF Limits
  <1>12. CASE i + 1 = NTopleaves
    <2>1. stage' = "shift"
      BY <1>2, <1>12
    <2>2. Tiled' /\ InLeaves'
      BY <1>2, <1>4 DEF Tiled, Consecutive, EveryCpuHoldsALeaf, Owners, InLeaves
    <2>3. ASSUME NEW t \in Task PROVE list_work'[t] = w[DomainEndList[t] + 1] - w[DomainStartList[t]]
      <3>1. Reached(DomainStartList[t], DomainEndList[t])' = DomainEndList[t] + 1
        <4>f. PICK f : f = DomainStartList[t]
          OBVIOUS
        <4>l. PICK l : l = DomainEndList[t]
          OBVIOUS
        <4>1. f \in Nat /\ l \in Nat /\ f <= l /\ l < NTopleaves
          BY <1>5, <4>f, <4>l
        <4>2. Reached(DomainStartList[t], DomainEndList[t])' = IF i + 1 <= f THEN f ELSE IF i + 1 > l THEN l + 1 ELSE i + 1
          BY <1>2, <4>f, <4>l DEF Reached
        <4> QED BY <1>12, <4>1, <4>2, <4>l, Constants
      <3> QED BY <1>8, <3>1
    <2>4. Totals'
      <3>1. ASSUME NEW t \in Task
            PROVE  /\ list_load'[t] = cum'.count[DomainEndList'[t] + 1] - cum'.count[DomainStartList'[t]]
                   /\ list_loadsph'[t] = cum'.sph[DomainEndList'[t] + 1] - cum'.sph[DomainStartList'[t]]
                   /\ list_work'[t] = cum'.work[DomainEndList'[t] + 1] - cum'.work[DomainStartList'[t]]
        BY <1>2, <1>4, <1>w, <2>3 DEF Load, LoadSph, Total
      <3> QED BY <3>1 DEF Totals, Load, LoadSph, Work, Total
    <2> QED BY <1>10, <1>11, <2>1, <2>2, <2>4 DEF IInv, Finding, Summing, Beginning
  <1>13. CASE i + 1 # NTopleaves
    <2>1. stage' = "sum"
      BY <1>2, <1>13
    <2>2. cell' < NTopleaves
      BY <1>2, <1>3, <1>13, Constants
    <2>3. Dealt(NTask, NTopleaves)'
      BY <1>1, <1>2 DEF Dealt, Load, LoadSph, Total
    <2>4. Summing'
      <3>1. \A t \in Task : list_work'[t] =
               cum'.work[Reached(DomainStartList[t], DomainEndList[t])'] - cum'.work[DomainStartList'[t]]
        BY <1>2, <1>8, <1>w
      <3> QED BY <2>2, <2>3, <3>1 DEF Summing
    <2> QED BY <1>10, <1>11, <2>1, <2>4 DEF IInv, Finding, Beginning, SweepsBegin
  <1> QED BY <1>12, <1>13

(* What a shift does, with its two tasks named.                            *)
ShiftOf(t, k, g, i, x) ==
  /\ t = task /\ t \in Task /\ t + 1 \in Task /\ i \in Int
  /\ \/ list_work[t] < list_work[t + 1] /\ k = t /\ g = t + 1 /\ i = DomainStartList[t + 1]
     \/ ~(list_work[t] < list_work[t + 1]) /\ k = t + 1 /\ g = t /\ i = DomainEndList[t]
  /\ x \in ReadLeaf(i) /\ x.count \in Nat /\ x.sph \in Nat /\ x.work \in Nat
  /\ Larger(list_work[k] + x.work, list_work[g] - x.work) <= Larger(list_work[t], list_work[t + 1])
  /\ list_load[k] + x.count <= MaxLoad /\ list_loadsph[k] + x.sph <= MaxLoadSph
  /\ list_work' = [list_work EXCEPT ![k] = @ + x.work, ![g] = @ - x.work]
  /\ list_load' = [list_load EXCEPT ![k] = @ + x.count, ![g] = @ - x.count]
  /\ list_loadsph' = [list_loadsph EXCEPT ![k] = @ + x.sph, ![g] = @ - x.sph]
  /\ DomainTask' = [j \in Leaf |-> IF j = i THEN k ELSE DomainTask[j]]
  /\ DomainStartList' = [DomainStartList EXCEPT ![t + 1] = @ + (IF k = t THEN 1 ELSE -1)]
  /\ DomainEndList' = [DomainEndList EXCEPT ![t] = @ + (IF k = t THEN 1 ELSE -1)]

LEMMA ShiftNamed ==
  ASSUME Typed, Shift
  PROVE  /\ \E t, k, g, i, x : ShiftOf(t, k, g, i, x)
         /\ stage = "shift" /\ stage' = "shift" /\ moved' = moved + 1 /\ task' = task + 1 /\ task' \in Task
         /\ UNCHANGED <<cum, calls, split, cell, sweeps>>
  <1>t. PICK t : t = task
    OBVIOUS
  <1>k. PICK k : k = Taker
    OBVIOUS
  <1>g. PICK g : g = Giver
    OBVIOUS
  <1>i. PICK i : i = Candidate
    OBVIOUS
  <1>1. /\ stage = "shift" /\ stage' = "shift" /\ moved' = moved + 1 /\ task' = task + 1 /\ task < NTask - 1
        /\ UNCHANGED <<cum, calls, split, cell, sweeps>>
    BY DEF Shift
  <1>2. t \in Task /\ t + 1 \in Task
    BY <1>1, <1>t, Constants DEF Typed, Task
  <1>3. \/ TakesLeft /\ list_work[t] < list_work[t + 1] /\ k = t /\ g = t + 1 /\ i = DomainStartList[t + 1]
        \/ ~TakesLeft /\ ~(list_work[t] < list_work[t + 1]) /\ k = t + 1 /\ g = t /\ i = DomainEndList[t]
    BY <1>t, <1>k, <1>g, <1>i DEF TakesLeft, Taker, Giver, Candidate
  <1>4. i \in Int
    BY <1>2, <1>3 DEF Typed
  <1>5. PICK x \in ReadLeaf(i) : /\ Worthwhile(x)
                                 /\ list_work' = Give(list_work, x.work)
                                 /\ list_load' = Give(list_load, x.count)
                                 /\ list_loadsph' = Give(list_loadsph, x.sph)
    BY <1>i DEF Shift
  <1>6. x.count \in Nat /\ x.sph \in Nat /\ x.work \in Nat
    BY <1>4, <1>5, LeafContent DEF Typed
  <1>7. /\ Larger(list_work[k] + x.work, list_work[g] - x.work) <= Larger(list_work[t], list_work[t + 1])
        /\ list_load[k] + x.count <= MaxLoad /\ list_loadsph[k] + x.sph <= MaxLoadSph
    BY <1>5, <1>t, <1>k, <1>g DEF Worthwhile
  <1>8. /\ list_work' = [list_work EXCEPT ![k] = @ + x.work, ![g] = @ - x.work]
        /\ list_load' = [list_load EXCEPT ![k] = @ + x.count, ![g] = @ - x.count]
        /\ list_loadsph' = [list_loadsph EXCEPT ![k] = @ + x.sph, ![g] = @ - x.sph]
    BY <1>5, <1>k, <1>g DEF Give
  <1>9. DomainTask' = [j \in Leaf |-> IF j = i THEN k ELSE DomainTask[j]]
    BY <1>i, <1>k DEF Shift
  <1>10. TakesLeft <=> k = t
    BY <1>2, <1>3, Constants DEF Task
  <1>11. /\ DomainStartList' = [DomainStartList EXCEPT ![t + 1] = @ + (IF k = t THEN 1 ELSE -1)]
         /\ DomainEndList' = [DomainEndList EXCEPT ![t] = @ + (IF k = t THEN 1 ELSE -1)]
    BY <1>10, <1>t DEF Shift
  <1>12. ShiftOf(t, k, g, i, x)
    BY <1>t, <1>2, <1>3, <1>4, <1>5, <1>6, <1>7, <1>8, <1>9, <1>11 DEF ShiftOf
  <1> QED BY <1>1, <1>2, <1>12, <1>t

(* The lists of a shift, entry by entry.                                   *)
LEMMA ShiftEntries ==
  ASSUME Typed, NEW t, NEW k, NEW g, NEW i, NEW x, ShiftOf(t, k, g, i, x)
  PROVE  /\ k \in Task /\ g \in Task /\ k # g
         /\ list_work' \in [Task -> Int] /\ list_load' \in [Task -> Int] /\ list_loadsph' \in [Task -> Int]
         /\ DomainTask' \in [Leaf -> Task]
         /\ DomainStartList' \in [Task -> Int] /\ DomainEndList' \in [Task -> Int]
         /\ list_work'[k] = list_work[k] + x.work /\ list_work'[g] = list_work[g] - x.work
         /\ list_load'[k] = list_load[k] + x.count /\ list_load'[g] = list_load[g] - x.count
         /\ list_loadsph'[k] = list_loadsph[k] + x.sph /\ list_loadsph'[g] = list_loadsph[g] - x.sph
         /\ \A v \in Task : v # k /\ v # g => /\ list_work'[v] = list_work[v] /\ list_load'[v] = list_load[v]
                                              /\ list_loadsph'[v] = list_loadsph[v]
  <1>1. /\ t \in Task /\ t + 1 \in Task /\ t # t + 1
        /\ ((k = t /\ g = t + 1) \/ (k = t + 1 /\ g = t))
    BY Constants DEF ShiftOf, Task
  <1>2. k \in Task /\ g \in Task /\ k # g
    BY <1>1
  <1>3. x.count \in Int /\ x.sph \in Int /\ x.work \in Int
    BY DEF ShiftOf
  <1>4. \A f \in [Task -> Int] : \A n \in Int :
          LET h == [f EXCEPT ![k] = @ + n, ![g] = @ - n]
          IN  /\ h \in [Task -> Int] /\ h[k] = f[k] + n /\ h[g] = f[g] - n
              /\ \A v \in Task : v # k /\ v # g => h[v] = f[v]
    BY <1>2
  <1>5. /\ list_work \in [Task -> Int] /\ list_load \in [Task -> Int] /\ list_loadsph \in [Task -> Int]
        /\ DomainTask \in [Leaf -> Task]
        /\ DomainStartList \in [Task -> Int] /\ DomainEndList \in [Task -> Int]
    BY DEF Typed
  <1>6. /\ list_work' \in [Task -> Int] /\ list_work'[k] = list_work[k] + x.work /\ list_work'[g] = list_work[g] - x.work
        /\ \A v \in Task : v # k /\ v # g => list_work'[v] = list_work[v]
    BY <1>3, <1>4, <1>5 DEF ShiftOf
  <1>7. /\ list_load' \in [Task -> Int] /\ list_load'[k] = list_load[k] + x.count /\ list_load'[g] = list_load[g] - x.count
        /\ \A v \in Task : v # k /\ v # g => list_load'[v] = list_load[v]
    BY <1>3, <1>4, <1>5 DEF ShiftOf
  <1>8. /\ list_loadsph' \in [Task -> Int] /\ list_loadsph'[k] = list_loadsph[k] + x.sph /\ list_loadsph'[g] = list_loadsph[g] - x.sph
        /\ \A v \in Task : v # k /\ v # g => list_loadsph'[v] = list_loadsph[v]
    BY <1>3, <1>4, <1>5 DEF ShiftOf
  <1>9. DomainTask' \in [Leaf -> Task]
    BY <1>2, <1>5 DEF ShiftOf
  <1>10. DomainStartList' \in [Task -> Int] /\ DomainEndList' \in [Task -> Int]
    BY <1>1, <1>5 DEF ShiftOf
  <1> QED BY <1>2, <1>6, <1>7, <1>8, <1>9, <1>10

LEMMA ShiftIInv == IInv /\ Shift => IInv'
  <1> SUFFICES ASSUME IInv, Shift PROVE IInv'
    OBVIOUS
  <1>1. Typed /\ Limits
    BY DEF IInv
  <1>2. /\ stage = "shift" /\ stage' = "shift" /\ moved' = moved + 1 /\ task' = task + 1 /\ task' \in Task
        /\ UNCHANGED <<cum, calls, split, cell, sweeps>>
    BY <1>1, ShiftNamed
  <1>3. PICK t, k, g, i, x : ShiftOf(t, k, g, i, x)
    BY <1>1, ShiftNamed
  <1>4. Typed'
    <2>1. /\ list_work' \in [Task -> Int] /\ list_load' \in [Task -> Int] /\ list_loadsph' \in [Task -> Int]
          /\ DomainTask' \in [Leaf -> Task]
          /\ DomainStartList' \in [Task -> Int] /\ DomainEndList' \in [Task -> Int]
      BY <1>1, <1>3, ShiftEntries
    <2>2. moved' \in Nat
      BY <1>1, <1>2 DEF Typed
    <2> QED BY <1>1, <1>2, <2>1, <2>2 DEF Typed
  <1>5. Limits'
    <2>1. ASSUME NEW v \in Task PROVE list_load'[v] <= MaxLoad /\ list_loadsph'[v] <= MaxLoadSph
      <3>1. /\ list_load[v] <= MaxLoad /\ list_loadsph[v] <= MaxLoadSph
            /\ list_load[v] \in Int /\ list_loadsph[v] \in Int
        BY <1>1, <1>2 DEF Limits, Typed
      <3>2. /\ x.count \in Nat /\ x.sph \in Nat
            /\ list_load[k] + x.count <= MaxLoad /\ list_loadsph[k] + x.sph <= MaxLoadSph
        BY <1>3 DEF ShiftOf
      <3>3. /\ list_load'[k] = list_load[k] + x.count /\ list_load'[g] = list_load[g] - x.count
            /\ list_loadsph'[k] = list_loadsph[k] + x.sph /\ list_loadsph'[g] = list_loadsph[g] - x.sph
            /\ (v # k /\ v # g => list_load'[v] = list_load[v] /\ list_loadsph'[v] = list_loadsph[v])
        BY <1>1, <1>3, ShiftEntries
      <3>4. CASE v = k
        BY <3>2, <3>3, <3>4
      <3>5. CASE v = g
        <4>1. list_load'[v] <= list_load[v] /\ list_loadsph'[v] <= list_loadsph[v]
              /\ list_load'[v] \in Int /\ list_loadsph'[v] \in Int
          BY <3>1, <3>2, <3>3, <3>5
        <4> QED BY <3>1, <4>1, Constants
      <3> QED BY <3>1, <3>3, <3>4, <3>5
    <2> QED BY <2>1 DEF Limits
  <1>6. ~SweepsBegin'
    BY <1>1, <1>2 DEF SweepsBegin, Typed, Task
  <1> QED BY <1>2, <1>4, <1>5, <1>6 DEF IInv, Finding, Summing, Beginning

LEMMA KeepIInv == IInv /\ Keep => IInv'
  <1> SUFFICES ASSUME IInv, Keep PROVE IInv'
    OBVIOUS
  <1>1. /\ stage = "shift" /\ task < NTask - 1 /\ task' = task + 1
        /\ UNCHANGED <<cum, stage, calls, split, DomainTask, DomainStartList, DomainEndList, list_load, list_loadsph,
                       list_work, cell, moved, sweeps>>
    BY DEF Keep, lists
  <1>2. Typed /\ Limits
    BY DEF IInv
  <1>3. task' \in Task /\ task' # 0
    BY <1>1, <1>2, Constants DEF Typed, Task
  <1>4. Typed'
    BY <1>1, <1>2, <1>3 DEF Typed
  <1> QED BY <1>1, <1>2, <1>3, <1>4 DEF IInv, Finding, Summing, Limits, Beginning, SweepsBegin

LEMMA EndSweepIInv == IInv /\ EndSweep => IInv'
  <1> SUFFICES ASSUME IInv, EndSweep PROVE IInv'
    OBVIOUS
  <1>1. /\ stage = "shift" /\ sweeps' = sweeps + 1
        /\ \/ task' = 0 /\ moved' = 0 /\ stage' = "shift"
           \/ stage' = "done" /\ task' = task /\ moved' = moved
        /\ UNCHANGED <<cum, calls, split, DomainTask, DomainStartList, DomainEndList, list_load, list_loadsph,
                       list_work, cell>>
    BY DEF EndSweep, lists
  <1>2. Typed /\ Limits
    BY DEF IInv
  <1>3. sweeps' \in Nat /\ sweeps' # 0 /\ 0 \in Task
    BY <1>1, <1>2, Constants DEF Typed, Task
  <1>4. Typed'
    BY <1>1, <1>2, <1>3 DEF Typed
  <1> QED BY <1>1, <1>2, <1>3, <1>4 DEF IInv, Finding, Summing, Limits, Beginning, SweepsBegin

LEMMA UnchangedIInv == IInv /\ UNCHANGED split_vars => IInv'
  <1> SUFFICES ASSUME IInv, UNCHANGED split_vars PROVE IInv'
    OBVIOUS
  <1>1. UNCHANGED <<cum, stage, calls, split, DomainTask, DomainStartList, DomainEndList, list_load, list_loadsph,
                    list_work, cell, task, moved, sweeps>>
    BY DEF split_vars, lists, loop
  <1>2. Typed'
    BY <1>1 DEF IInv, Typed
  <1>3. Finding'
    BY <1>1 DEF IInv, Finding, Chained, CpuAt, LeafAt, Searching, LeftCpus, RightCpus, Dealt, Load, LoadSph, Total
  <1>4. Summing'
    BY <1>1 DEF IInv, Summing, Reached, Dealt, Load, LoadSph, Total
  <1>5. Limits'
    BY <1>1 DEF IInv, Limits
  <1>6. Beginning'
    BY <1>1 DEF IInv, Beginning, SweepsBegin, Tiled, Consecutive, EveryCpuHoldsALeaf, Owners, Totals, InLeaves,
                Load, LoadSph, Work, Total
  <1> QED BY <1>2, <1>3, <1>4, <1>5, <1>6 DEF IInv

LEMMA NextIInv == IInv /\ [SplitNext]_split_vars => IInv'
  BY AdvanceIInv, DivideIInv, NotViableIInv, SumWorkIInv, ShiftIInv, KeepIInv, EndSweepIInv, UnchangedIInv
  DEF SplitNext

(* The inductive invariant holds of every behaviour.                       *)
THEOREM Invariance == Split_Spec => []IInv
  BY InitIInv, NextIInv, PTL DEF Split_Spec

(* The variables keep their types, for every tree and number of tasks.     *)
THEOREM TypeCorrect == Split_Spec => []SplitTypeOK
  <1>1. IInv => SplitTypeOK
    BY DEF IInv, Typed, SplitTypeOK, CallSet
  <1> QED BY <1>1, Invariance, PTL

(* What domain_findSplit returns with success divides the leaves among the *)
(* tasks, and neither it nor domain_shiftSplit exceeds the memory limits.  *)
THEOREM DivisionAlwaysFits == Split_Spec => []DivisionFits
  <1>1. IInv => DivisionFits
    BY DealtTiles DEF IInv, Summing, Limits, DivisionFits
  <1> QED BY <1>1, Invariance, PTL

(* A shift never increases the largest work of any task.                   *)
THEOREM NeverGetsWorse == Split_Spec => NeverWorse
  <1>1. ASSUME IInv, [SplitNext]_split_vars, stage = "shift", NEW v \in Task
        PROVE  \E u \in Task : list_work'[v] <= list_work[u]
    <2>1. Typed /\ list_work[v] \in Int
      BY <1>1 DEF IInv, Typed
    <2>2. CASE Shift
      <3>1. PICK t, k, g, i, x : ShiftOf(t, k, g, i, x)
        BY <2>1, <2>2, ShiftNamed
      <3>2. /\ k \in Task /\ g \in Task /\ x.work \in Nat /\ t \in Task /\ t + 1 \in Task
            /\ list_work[k] \in Int /\ list_work[g] \in Int
            /\ list_work[t] \in Int /\ list_work[t + 1] \in Int
            /\ list_work'[k] = list_work[k] + x.work /\ list_work'[g] = list_work[g] - x.work
            /\ (v # k /\ v # g => list_work'[v] = list_work[v])
        <4>1. /\ k \in Task /\ g \in Task
              /\ list_work'[k] = list_work[k] + x.work /\ list_work'[g] = list_work[g] - x.work
              /\ (v # k /\ v # g => list_work'[v] = list_work[v])
          BY <2>1, <3>1, ShiftEntries
        <4>2. x.work \in Nat /\ t \in Task /\ t + 1 \in Task
          BY <3>1, Zenon DEF ShiftOf
        <4>3. \A u \in Task : list_work[u] \in Int
          BY <2>1 DEF Typed
        <4> QED BY <4>1, <4>2, <4>3
      <3>3. Larger(list_work'[k], list_work'[g]) <= Larger(list_work[t], list_work[t + 1])
        <4>1. Larger(list_work[k] + x.work, list_work[g] - x.work)
                <= Larger(list_work[t], list_work[t + 1])
          BY <3>1, Zenon DEF ShiftOf
        <4>2. list_work'[k] = list_work[k] + x.work /\ list_work'[g] = list_work[g] - x.work
          BY <3>2, Zenon
        <4> QED BY <4>1, <4>2, Zenon
      <3>4. list_work'[k] \in Int /\ list_work'[g] \in Int
        BY <3>2
      <3>5. \A a, b \in Int : a <= Larger(a, b) /\ b <= Larger(a, b) /\ Larger(a, b) \in {a, b} /\ Larger(a, b) \in Int
        BY DEF Larger
      <3>6. PICK u \in Task : list_work[u] = Larger(list_work[t], list_work[t + 1])
        BY <3>2, <3>5
      <3>7. list_work'[k] <= list_work[u] /\ list_work'[g] <= list_work[u]
        <4>1. /\ list_work'[k] <= Larger(list_work'[k], list_work'[g])
              /\ list_work'[g] <= Larger(list_work'[k], list_work'[g])
              /\ Larger(list_work'[k], list_work'[g]) \in Int /\ list_work[u] \in Int
          BY <3>2, <3>4, <3>5, <3>6
        <4> QED BY <3>3, <3>4, <3>6, <4>1
      <3>8. v = k \/ v = g \/ list_work'[v] <= list_work[v]
        BY <2>1, <3>2
      <3> QED BY <3>7, <3>8
    <2>3. CASE UNCHANGED list_work
      BY <2>1, <2>3
    <2> QED BY <1>1, <2>2, <2>3
        DEF SplitNext, Advance, Divide, NotViable, SumWork, Keep, EndSweep, Ended, split_vars
  <1>2. IInv /\ [SplitNext]_split_vars =>
          [stage = "shift" => \A t \in Task : \E u \in Task : list_work'[t] <= list_work[u]]_split_vars
    BY <1>1
  <1> QED BY <1>2, Invariance, PTL DEF Split_Spec, NeverWorse

(* The work of a leaf that stays behind: more is taken than given only     *)
(* from a task that keeps some.                                            *)
LEMMA GiverKeepsWork ==
  ASSUME NEW a \in Int, NEW b \in Int, NEW n \in Nat, a > 0, b > 0, a <= b,
         Larger(a + n, b - n) <= b
  PROVE  n < b
  BY DEF Larger

LEMMA ShiftBalanced == Balanced /\ Shift => Balanced'
  <1> SUFFICES ASSUME Balanced, Shift PROVE Balanced'
    OBVIOUS
  <1>1. /\ Typed /\ Busy /\ Tiled /\ Totals /\ InLeaves /\ cum \in Tree
    BY DEF Balanced, Typed
  <1>2. /\ stage = "shift" /\ stage' = "shift" /\ moved' = moved + 1 /\ task' = task + 1 /\ task' \in Task
        /\ UNCHANGED <<cum, calls, split, cell, sweeps>>
    BY <1>1, ShiftNamed
  <1>3. PICK t, k, g, i, x : ShiftOf(t, k, g, i, x)
    BY <1>1, ShiftNamed
  <1>u. PICK u : u = t + 1
    OBVIOUS
  <1>4. t \in Task /\ u \in Task /\ t \in Nat /\ u = t + 1 /\ t # u /\ t < NTask - 1 /\ u # 0
    BY <1>3, <1>u, Constants DEF ShiftOf, Task
  <1>5. /\ k \in Task /\ g \in Task /\ k # g
        /\ list_work' \in [Task -> Int] /\ list_load' \in [Task -> Int] /\ list_loadsph' \in [Task -> Int]
        /\ DomainTask' \in [Leaf -> Task]
        /\ DomainStartList' \in [Task -> Int] /\ DomainEndList' \in [Task -> Int]
        /\ list_work'[k] = list_work[k] + x.work /\ list_work'[g] = list_work[g] - x.work
        /\ list_load'[k] = list_load[k] + x.count /\ list_load'[g] = list_load[g] - x.count
        /\ list_loadsph'[k] = list_loadsph[k] + x.sph /\ list_loadsph'[g] = list_loadsph[g] - x.sph
        /\ \A v \in Task : v # k /\ v # g => /\ list_work'[v] = list_work[v] /\ list_load'[v] = list_load[v]
                                             /\ list_loadsph'[v] = list_loadsph[v]
    BY <1>1, <1>3, ShiftEntries
  <1>6. Typed'
    <2>1. moved' \in Nat
      BY <1>1, <1>2 DEF Typed
    <2> QED BY <1>1, <1>2, <1>5, <2>1 DEF Typed
  <1>7. /\ \/ list_work[t] < list_work[u] /\ k = t /\ g = u /\ i = DomainStartList[u]
           \/ ~(list_work[t] < list_work[u]) /\ k = u /\ g = t /\ i = DomainEndList[t]
        /\ x \in ReadLeaf(i) /\ x.count \in Nat /\ x.sph \in Nat /\ x.work \in Nat /\ i \in Int
        /\ Larger(list_work[k] + x.work, list_work[g] - x.work) <= Larger(list_work[t], list_work[u])
        /\ DomainTask' = [j \in Leaf |-> IF j = i THEN k ELSE DomainTask[j]]
    BY <1>3, <1>u DEF ShiftOf
  (* The leaves of both tasks before the shift.                            *)
  <1>s. PICK s \in Nat : s = DomainStartList[t]
    BY <1>1, <1>4 DEF InLeaves, Leaf
  <1>e. PICK e \in Nat : e = DomainEndList[t]
    BY <1>1, <1>4 DEF InLeaves, Leaf
  <1>b. PICK b \in Nat : b = DomainStartList[u]
    BY <1>1, <1>4 DEF InLeaves, Leaf
  <1>l. PICK l \in Nat : l = DomainEndList[u]
    BY <1>1, <1>4 DEF InLeaves, Leaf
  <1>8. s <= e /\ b = e + 1 /\ b <= l /\ l < NTopleaves /\ e < NTopleaves /\ b < NTopleaves /\ s \in Leaf /\ e \in Leaf /\ b \in Leaf /\ l \in Leaf
    <2>1. s <= e /\ b <= l
      BY <1>1, <1>4, <1>s, <1>e, <1>b, <1>l DEF Tiled, EveryCpuHoldsALeaf
    <2>2. b = e + 1
      BY <1>1, <1>4, <1>e, <1>b DEF Tiled, Consecutive
    <2>3. s \in Leaf /\ e \in Leaf /\ b \in Leaf /\ l \in Leaf
      BY <1>1, <1>4, <1>s, <1>e, <1>b, <1>l DEF InLeaves
    <2> QED BY <2>1, <2>2, <2>3, Constants DEF Leaf
  <1>9. i \in Leaf /\ x = [count |-> Load(i, i), sph |-> LoadSph(i, i), work |-> Work(i, i)]
    <2>1. i \in Leaf
      BY <1>7, <1>8, <1>b, <1>e
    <2> QED BY <1>7, <2>1 DEF ReadLeaf
  <1>10. list_work[t] \in Int /\ list_work[u] \in Int /\ list_work[t] > 0 /\ list_work[u] > 0
    BY <1>1, <1>4 DEF Busy, Typed
  (* The giver keeps some work, and therefore a leaf.                      *)
  <1>11. x.work < list_work[g]
    <2>1. CASE list_work[t] < list_work[u]
      <3>1. Larger(list_work[t] + x.work, list_work[u] - x.work) <= list_work[u] /\ g = u
        BY <1>7, <1>10, <2>1 DEF Larger
      <3>2. list_work[t] <= list_work[u]
        BY <1>10, <2>1
      <3> QED BY <1>7, <1>10, <3>1, <3>2, GiverKeepsWork
    <2>2. CASE ~(list_work[t] < list_work[u])
      <3>1. Larger(list_work[u] + x.work, list_work[t] - x.work) <= list_work[t] /\ g = t
        BY <1>7, <1>10, <2>2 DEF Larger
      <3>2. list_work[u] <= list_work[t]
        BY <1>10, <2>2
      <3> QED BY <1>7, <1>10, <3>1, <3>2, GiverKeepsWork
    <2> QED BY <2>1, <2>2
  <1>12. list_work[t] = Work(s, e) /\ list_work[u] = Work(b, l)
    BY <1>1, <1>4, <1>s, <1>e, <1>b, <1>l DEF Totals
  <1>13. (g = t => s < e) /\ (g = u => b < l)
    <2>1. x.work = Work(i, i)
      BY <1>9
    <2>2. (g = t => i = e) /\ (g = u => i = b)
      BY <1>4, <1>7, <1>b, <1>e
    <2>3. ~(g = t /\ s = e) /\ ~(g = u /\ b = l)
      BY <1>7, <1>10, <1>11, <1>12, <2>1, <2>2
    <2> QED BY <1>8, <2>3
  (* The new leaves of both.                                               *)
  <1>d. PICK d \in Int : d = IF k = t THEN 1 ELSE -1
    OBVIOUS
  <1>14. /\ DomainStartList' = [DomainStartList EXCEPT ![u] = @ + d]
         /\ DomainEndList' = [DomainEndList EXCEPT ![t] = @ + d]
    BY <1>3, <1>u, <1>d DEF ShiftOf
  <1>15. /\ DomainStartList'[u] = b + d /\ DomainEndList'[t] = e + d
         /\ \A v \in Task : v # u => DomainStartList'[v] = DomainStartList[v]
         /\ \A v \in Task : v # t => DomainEndList'[v] = DomainEndList[v]
    BY <1>1, <1>4, <1>14, <1>b, <1>e DEF Typed
  <1>16. \/ k = t /\ g = u /\ d = 1 /\ i = b /\ i = e + 1 /\ b < l
         \/ k = u /\ g = t /\ d = -1 /\ i = e /\ i = b - 1 /\ s < e
    BY <1>4, <1>7, <1>8, <1>13, <1>b, <1>d, <1>e
  <1>17. /\ s <= e + d /\ b + d = (e + d) + 1 /\ b + d <= l /\ b + d \in Leaf /\ e + d \in Leaf
    BY <1>8, <1>16, Constants DEF Leaf
  <1>18. InLeaves'
    BY <1>1, <1>15, <1>17 DEF InLeaves
  <1>19. Tiled'
    <2>1. Consecutive'
      <3>1. DomainStartList'[0] = 0
        BY <1>1, <1>4, <1>15, Constants DEF Tiled, Consecutive, Task
      <3>2. DomainEndList'[NTask - 1] = NTopleaves - 1
        BY <1>1, <1>4, <1>15, Constants DEF Tiled, Consecutive, Task
      <3>3. ASSUME NEW v \in Task, v + 1 \in Task PROVE DomainStartList'[v + 1] = DomainEndList'[v] + 1
        <4>1. CASE v = t
          BY <1>15, <1>17, <1>u, <4>1
        <4>2. CASE v # t
          <5>1. v + 1 # u
            BY <1>4, <4>2 DEF Task
          <5> QED BY <1>1, <1>15, <3>3, <4>2, <5>1 DEF Tiled, Consecutive
        <4> QED BY <4>1, <4>2
      <3> QED BY <3>1, <3>2, <3>3 DEF Consecutive
    <2>2. EveryCpuHoldsALeaf'
      <3>1. ASSUME NEW v \in Task PROVE DomainStartList'[v] <= DomainEndList'[v]
        <4>1. CASE v = t
          BY <1>4, <1>15, <1>17, <1>s, <4>1
        <4>2. CASE v = u
          BY <1>4, <1>15, <1>17, <1>l, <4>2
        <4>3. CASE v # t /\ v # u
          BY <1>1, <1>15, <4>3 DEF Tiled, EveryCpuHoldsALeaf
        <4> QED BY <4>1, <4>2, <4>3
      <3> QED BY <3>1 DEF EveryCpuHoldsALeaf
    <2>3. Owners'
      <3>1. ASSUME NEW v \in Task, NEW j \in DomainStartList'[v] .. DomainEndList'[v] PROVE DomainTask'[j] = v
        <4>1. j \in Leaf
          <5>1. DomainStartList'[v] \in Leaf /\ DomainEndList'[v] \in Leaf
            BY <1>18 DEF InLeaves
          <5> QED BY <5>1, Constants DEF Leaf
        <4>2. DomainTask'[j] = IF j = i THEN k ELSE DomainTask[j]
          BY <1>7, <4>1
        <4>3. CASE v = k
          <5>1. CASE j = i
            BY <4>2, <4>3, <5>1
          <5>2. CASE j # i
            <6>1. j \in DomainStartList[v] .. DomainEndList[v]
              <7>1. CASE k = t
                <8>1. DomainStartList'[v] = s /\ DomainEndList'[v] = e + 1 /\ i = e + 1
                      /\ DomainStartList[v] = s /\ DomainEndList[v] = e
                  BY <1>4, <1>15, <1>16, <1>s, <1>e, <4>3, <7>1
                <8> QED BY <5>2, <8>1
              <7>2. CASE k = u
                <8>1. DomainStartList'[v] = b - 1 /\ DomainEndList'[v] = l /\ i = b - 1
                      /\ DomainStartList[v] = b /\ DomainEndList[v] = l
                  BY <1>4, <1>15, <1>16, <1>b, <1>l, <4>3, <7>2
                <8> QED BY <5>2, <8>1
              <7> QED BY <1>16, <7>1, <7>2
            <6> QED BY <1>1, <4>2, <5>2, <6>1 DEF Tiled, Owners
          <5> QED BY <5>1, <5>2
        <4>4. CASE v # k
          <5>1. j \in DomainStartList[v] .. DomainEndList[v] /\ j # i
            <6>1. CASE v = t
              <7>1. DomainStartList'[v] = s /\ DomainEndList'[v] = e - 1 /\ i = e
                    /\ DomainStartList[v] = s /\ DomainEndList[v] = e
                BY <1>4, <1>15, <1>16, <1>s, <1>e, <4>4, <6>1
              <7> QED BY <7>1
            <6>2. CASE v = u
              <7>1. DomainStartList'[v] = b + 1 /\ DomainEndList'[v] = l /\ i = b
                    /\ DomainStartList[v] = b /\ DomainEndList[v] = l
                BY <1>4, <1>15, <1>16, <1>b, <1>l, <4>4, <6>2
              <7> QED BY <7>1
            <6>3. CASE v # t /\ v # u
              <7>1. j \in DomainStartList[v] .. DomainEndList[v]
                BY <1>15, <6>3
              <7>2. DomainTask[j] = v
                BY <1>1, <7>1 DEF Tiled, Owners
              <7>3. i \in DomainStartList[g] .. DomainEndList[g]
                <8>1. CASE g = t
                  <9>1. DomainStartList[g] = s /\ DomainEndList[g] = e /\ i = e
                    BY <1>4, <1>16, <1>s, <1>e, <8>1
                  <9> QED BY <1>8, <9>1
                <8>2. CASE g = u
                  <9>1. DomainStartList[g] = b /\ DomainEndList[g] = l /\ i = b
                    BY <1>4, <1>16, <1>b, <1>l, <8>2
                  <9> QED BY <1>8, <9>1
                <8> QED BY <1>16, <8>1, <8>2
              <7>4. DomainTask[i] = g
                BY <1>1, <1>5, <7>3 DEF Tiled, Owners
              <7>5. v # g
                BY <1>16, <6>3
              <7> QED BY <7>1, <7>2, <7>4, <7>5
            <6> QED BY <6>1, <6>2, <6>3
          <5> QED BY <1>1, <4>2, <5>1 DEF Tiled, Owners
        <4> QED BY <4>3, <4>4
      <3> QED BY <3>1 DEF Owners
    <2> QED BY <2>1, <2>2, <2>3 DEF Tiled
  <1>20. Totals'
    <2>1. \A f \in Cumulative : f[s] \in Int /\ f[e] \in Int /\ f[e + 1] \in Int /\ f[b] \in Int /\ f[b + 1] \in Int /\ f[l + 1] \in Int
      <3>1. /\ s \in 0 .. NTopleaves /\ e \in 0 .. NTopleaves /\ e + 1 \in 0 .. NTopleaves
            /\ b \in 0 .. NTopleaves /\ b + 1 \in 0 .. NTopleaves /\ l + 1 \in 0 .. NTopleaves
        BY <1>8, Constants
      <3> QED BY <3>1 DEF Cumulative
    <2>2. cum.count \in Cumulative /\ cum.sph \in Cumulative /\ cum.work \in Cumulative
      BY <1>1 DEF Tree
    (* The totals of both ranges move by the leaf that moves.              *)
    <2>3. \A f \in Cumulative :
            /\ Total(f, s, e + d) = IF k = t THEN Total(f, s, e) + Total(f, i, i) ELSE Total(f, s, e) - Total(f, i, i)
            /\ Total(f, b + d, l) = IF k = u THEN Total(f, b, l) + Total(f, i, i) ELSE Total(f, b, l) - Total(f, i, i)
      <3> TAKE f \in Cumulative
      <3>1. CASE k = t
        <4>1. k # u /\ d = 1 /\ i = b /\ i = e + 1
          BY <1>4, <1>16, <3>1
        <4>2. /\ Total(f, s, e + d) = f[b + 1] - f[s] /\ Total(f, s, e) = f[b] - f[s]
              /\ Total(f, i, i) = f[b + 1] - f[b]
              /\ Total(f, b + d, l) = f[l + 1] - f[b + 1] /\ Total(f, b, l) = f[l + 1] - f[b]
          BY <4>1 DEF Total
        <4>3. f[s] \in Int /\ f[b] \in Int /\ f[b + 1] \in Int /\ f[l + 1] \in Int
          BY <2>1
        <4>4. \A p, q, r, w \in Int : r - p = (q - p) + (r - q) /\ w - r = (w - q) - (r - q)
          OBVIOUS
        <4>5. /\ f[b + 1] - f[s] = (f[b] - f[s]) + (f[b + 1] - f[b])
              /\ f[l + 1] - f[b + 1] = (f[l + 1] - f[b]) - (f[b + 1] - f[b])
          BY <4>3, <4>4
        <4>6. /\ Total(f, s, e + d) = Total(f, s, e) + Total(f, i, i)
              /\ Total(f, b + d, l) = Total(f, b, l) - Total(f, i, i)
          BY <4>2, <4>5
        <4> QED BY <3>1, <4>1, <4>6
      <3>2. CASE k = u
        <4>1. k # t /\ d = -1 /\ i = e /\ b = e + 1 /\ (e + d) + 1 = e /\ b + d = e
          BY <1>4, <1>8, <1>16, <3>2
        <4>2. /\ Total(f, s, e + d) = f[e] - f[s] /\ Total(f, s, e) = f[e + 1] - f[s]
              /\ Total(f, i, i) = f[e + 1] - f[e]
              /\ Total(f, b + d, l) = f[l + 1] - f[e] /\ Total(f, b, l) = f[l + 1] - f[e + 1]
          BY <4>1 DEF Total
        <4>3. f[s] \in Int /\ f[e] \in Int /\ f[e + 1] \in Int /\ f[l + 1] \in Int
          BY <2>1
        <4>4. \A p, q, r, w \in Int : q - p = (r - p) - (r - q) /\ w - q = (w - r) + (r - q)
          OBVIOUS
        <4>5. /\ f[e] - f[s] = (f[e + 1] - f[s]) - (f[e + 1] - f[e])
              /\ f[l + 1] - f[e] = (f[l + 1] - f[e + 1]) + (f[e + 1] - f[e])
          BY <4>3, <4>4
        <4>6. /\ Total(f, s, e + d) = Total(f, s, e) - Total(f, i, i)
              /\ Total(f, b + d, l) = Total(f, b, l) + Total(f, i, i)
          BY <4>2, <4>5
        <4> QED BY <3>2, <4>1, <4>6
      <3> QED BY <1>16, <3>1, <3>2
    <2>4. /\ list_load[t] = Total(cum.count, s, e) /\ list_load[u] = Total(cum.count, b, l)
          /\ list_loadsph[t] = Total(cum.sph, s, e) /\ list_loadsph[u] = Total(cum.sph, b, l)
          /\ list_work[t] = Total(cum.work, s, e) /\ list_work[u] = Total(cum.work, b, l)
      BY <1>1, <1>4, <1>s, <1>e, <1>b, <1>l DEF Totals, Load, LoadSph, Work
    <2>5. x.count = Total(cum.count, i, i) /\ x.sph = Total(cum.sph, i, i) /\ x.work = Total(cum.work, i, i)
      BY <1>9 DEF Load, LoadSph, Work
    <2>6. /\ list_load'[t] = Total(cum.count, s, e + d) /\ list_load'[u] = Total(cum.count, b + d, l)
          /\ list_loadsph'[t] = Total(cum.sph, s, e + d) /\ list_loadsph'[u] = Total(cum.sph, b + d, l)
          /\ list_work'[t] = Total(cum.work, s, e + d) /\ list_work'[u] = Total(cum.work, b + d, l)
      <3>1. CASE k = t /\ g = u
        BY <1>4, <1>5, <2>2, <2>3, <2>4, <2>5, <3>1
      <3>2. CASE k = u /\ g = t
        BY <1>4, <1>5, <2>2, <2>3, <2>4, <2>5, <3>2
      <3> QED BY <1>16, <3>1, <3>2
    <2>7. ASSUME NEW v \in Task
          PROVE  /\ list_load'[v] = Total(cum.count, DomainStartList'[v], DomainEndList'[v])
                 /\ list_loadsph'[v] = Total(cum.sph, DomainStartList'[v], DomainEndList'[v])
                 /\ list_work'[v] = Total(cum.work, DomainStartList'[v], DomainEndList'[v])
      <3>1. CASE v = t
        BY <1>4, <1>15, <1>s, <2>6, <3>1
      <3>2. CASE v = u
        BY <1>4, <1>15, <1>l, <2>6, <3>2
      <3>3. CASE v # t /\ v # u
        <4>1. v # k /\ v # g
          BY <1>16, <3>3
        <4> QED BY <1>1, <1>5, <1>15, <3>3, <4>1 DEF Totals, Load, LoadSph, Work
      <3> QED BY <3>1, <3>2, <3>3
    <2> QED BY <1>2, <2>7 DEF Totals, Load, LoadSph, Work, Total
  <1>21. Busy'
    <2>1. ASSUME NEW v \in Task PROVE list_work'[v] > 0
      <3>1. list_work[v] \in Int /\ list_work[v] > 0
        BY <1>1 DEF Busy, Typed
      <3>2. CASE v = k
        <4>1. list_work'[v] = list_work[v] + x.work
          BY <1>5, <3>2
        <4> QED BY <1>7, <3>1, <4>1
      <3>3. CASE v = g
        <4>1. list_work'[v] = list_work[v] - x.work /\ x.work < list_work[v]
          BY <1>5, <1>11, <3>3
        <4> QED BY <1>7, <3>1, <4>1
      <3>4. CASE v # k /\ v # g
        BY <1>5, <3>1, <3>4
      <3> QED BY <3>2, <3>3, <3>4
    <2> QED BY <2>1 DEF Busy
  <1> QED BY <1>2, <1>6, <1>18, <1>19, <1>20, <1>21 DEF Balanced

LEMMA NextBalanced == Balanced /\ [SplitNext]_split_vars => Balanced'
  <1> SUFFICES ASSUME Balanced, [SplitNext]_split_vars PROVE Balanced'
    OBVIOUS
  <1>1. CASE Shift
    BY <1>1, ShiftBalanced
  <1>2. CASE /\ UNCHANGED <<cum, calls, split, DomainTask, DomainStartList, DomainEndList, list_load, list_loadsph,
                            list_work, cell>>
             /\ stage' \in {"shift", "done"} /\ task' \in Task /\ moved' \in Nat /\ sweeps' \in Nat
    BY <1>2 DEF Balanced, Typed, Busy, Tiled, Consecutive, EveryCpuHoldsALeaf, Owners, Totals, InLeaves,
                Load, LoadSph, Work, Total
  <1>3. stage \in {"shift", "done"} /\ task \in Task /\ moved \in Nat /\ sweeps \in Nat
    BY DEF Balanced, Typed
  <1>4. CASE Keep
    BY <1>2, <1>3, <1>4, Constants DEF Keep, lists, Task
  <1>5. CASE EndSweep
    BY <1>2, <1>3, <1>5, Constants DEF EndSweep, lists, Task
  <1>6. CASE UNCHANGED split_vars
    BY <1>2, <1>3, <1>6 DEF split_vars, lists, loop
  <1> QED BY <1>1, <1>3, <1>4, <1>5, <1>6 DEF SplitNext, Advance, Divide, NotViable, SumWork

(* If the bisection leaves every task with work, no sequence of shifts     *)
(* takes the last leaf of a task, tears the division, or lets the totals   *)
(* of domain_shiftSplit drift from the leaves.                             *)
THEOREM ShiftsKeep == Split_Spec => ShiftsKeepDivision
  <1>1. IInv /\ SweepsBegin /\ Busy => Balanced
    BY DEF IInv, Beginning, SweepsBegin, Balanced
  <1>2. Balanced => Tiled /\ Totals
    BY DEF Balanced
  <1> QED BY <1>1, <1>2, NextBalanced, Invariance, PTL DEF Split_Spec, ShiftsKeepDivision

===============================================================================
