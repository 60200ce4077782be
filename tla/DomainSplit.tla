------------------------------ MODULE DomainSplit ------------------------------
(***************************************************************************)
(* How the leaves of the top-level tree are given to the tasks (domain.c,  *)
(* domain_findSplit and domain_shiftSplit): a recursive bisection of the   *)
(* Peano-Hilbert ordered leaves that balances particle numbers under the   *)
(* memory limits, then sweeps that shift single leaves across the          *)
(* boundaries to balance the work.                                         *)
(*                                                                         *)
(* Every task computes the split from the same reduced arrays, so there is *)
(* one copy of the state.  The recursion is a stack of pending calls, and  *)
(* a loop is one action per iteration.  Work is a natural number; in the   *)
(* code it is a sum of doubles.                                            *)
(***************************************************************************)
EXTENDS Integers, Sequences

CONSTANTS NTask,       \* number of MPI tasks
          NTopleaves,  \* number of leaves of the top-level tree
          MaxLoad,     \* maxload and maxloadsph
          MaxLoadSph,
          Trees,       \* the contents the leaves may have, see cum
          Stale        \* what a read outside the leaves may return

Task == 0 .. NTask - 1

Leaf == 0 .. NTopleaves - 1

(* A running total over the leaves, in their order.                        *)
Cumulative == {f \in [0 .. NTopleaves -> Nat] : f[0] = 0 /\ \A i \in Leaf : f[i] <= f[i + 1]}

Tree == [count : Cumulative, sph : Cumulative, work : Cumulative]

Content == [count : Nat, sph : Nat, work : Nat]

ASSUME SplitAssumption ==
  /\ NTask \in Nat \ {0}
  /\ NTopleaves \in Nat
  /\ NTask <= NTopleaves
  /\ MaxLoad \in Nat /\ MaxLoadSph \in Nat
  /\ Trees \subseteq Tree
  /\ Stale \subseteq Content

VARIABLES
  cum,       \* running totals of DomainCount, DomainCountSph and DomainWork
  stage,     \* "find", "sum", "shift", "done", or "endrun"
  calls,     \* pending calls of domain_findSplit, the running one first
  split,     \* its loop variable
  DomainTask, DomainStartList, DomainEndList,
  list_load, list_loadsph, list_work,
  cell,      \* loop variable of the sum over DomainWork
  task, moved, sweeps  \* loop variables of domain_shiftSplit

lists == <<DomainTask, DomainStartList, DomainEndList, list_load, list_loadsph>>

loop == <<task, moved, sweeps>>

split_vars == <<cum, stage, calls, split, lists, list_work, cell, loop>>

Larger(a, b) == IF a >= b THEN a ELSE b

(* Totals over the leaves first .. last.                                   *)
Total(f, first, last) == f[last + 1] - f[first]

Load(first, last) == Total(cum.count, first, last)
LoadSph(first, last) == Total(cum.sph, first, last)
Work(first, last) == Total(cum.work, first, last)

(* What DomainCount[i], DomainCountSph[i] and DomainWork[i] may read as.   *)
ReadLeaf(i) ==
  IF i \in Leaf THEN {[count |-> Load(i, i), sph |-> LoadSph(i, i), work |-> Work(i, i)]}
  ELSE Stale

-------------------------------------------------------------------------------
(* domain_findSplit(cpustart, ncpu, first, last).                          *)

Call(cpustart, ncpu, first, last) ==
  [cpustart |-> cpustart, ncpu |-> ncpu, first |-> first, last |-> last]

LeftCpus(c) == c.ncpu \div 2

RightCpus(c) == c.ncpu - LeftCpus(c)

FirstSplit(c) == c.first + LeftCpus(c)

(* The larger of the average loads left and right of a split point.        *)
MaxAvgLoad(c, s) == Larger(Load(c.first, s - 1) \div LeftCpus(c), Load(s, c.last) \div RightCpus(c))

(* Mutant: the split point may go one leaf too far.                        *)
CanAdvanceTooFar(c, s) ==
  /\ s <= c.last - (RightCpus(c) - 1)
  /\ s > 0
  /\ MaxAvgLoad(c, s + 1) <= MaxAvgLoad(c, s)

(* A split point further right leaves enough leaves and is no worse.       *)
CanAdvance(c, s) ==
  /\ s < c.last - (RightCpus(c) - 1)
  /\ s > 0
  /\ MaxAvgLoad(c, s + 1) <= MaxAvgLoad(c, s)

Viable(c, s) ==
  /\ Load(c.first, s - 1) <= MaxLoad * LeftCpus(c)
  /\ Load(s, c.last) <= MaxLoad * RightCpus(c)
  /\ LoadSph(c.first, s - 1) <= MaxLoadSph * LeftCpus(c)
  /\ LoadSph(s, c.last) <= MaxLoadSph * RightCpus(c)

SplitInit ==
  /\ cum \in Trees
  /\ stage = "find"
  /\ calls = <<Call(0, NTask, 0, NTopleaves - 1)>>
  /\ split = FirstSplit(Head(calls))
  /\ DomainTask = [i \in Leaf |-> 0]
  /\ DomainStartList = [t \in Task |-> 0]
  /\ DomainEndList = [t \in Task |-> 0]
  /\ list_load = [t \in Task |-> 0]
  /\ list_loadsph = [t \in Task |-> 0]
  /\ list_work = [t \in Task |-> 0]
  /\ cell = 0
  /\ task = 0 /\ moved = 0 /\ sweeps = 0

(* One iteration of the search for the split point.                        *)
Advance ==
  /\ stage = "find" /\ calls # <<>>
  /\ CanAdvance(Head(calls), split)
  /\ split' = split + 1
  /\ UNCHANGED <<cum, stage, calls, lists, list_work, cell, loop>>

(* The single cpus among the two halves of a call get their leaves.        *)
Ranges(c, s) ==
  {r \in {[cpu |-> c.cpustart, first |-> c.first, last |-> s - 1, n |-> LeftCpus(c)],
          [cpu |-> c.cpustart + LeftCpus(c), first |-> s, last |-> c.last, n |-> RightCpus(c)]} :
     r.n = 1}

Assign(ranges) ==
  LET Of(t) == {r \in ranges : r.cpu = t}
      Put(list, Value(_)) == [t \in Task |-> IF Of(t) = {} THEN list[t]
                                             ELSE Value(CHOOSE r \in Of(t) : TRUE)]
  IN  /\ DomainTask' = [i \in Leaf |->
                          IF \E r \in ranges : i \in r.first .. r.last
                          THEN (CHOOSE r \in ranges : i \in r.first .. r.last).cpu
                          ELSE DomainTask[i]]
      /\ DomainStartList' = Put(DomainStartList, LAMBDA r : r.first)
      /\ DomainEndList' = Put(DomainEndList, LAMBDA r : r.last)
      /\ list_load' = Put(list_load, LAMBDA r : Load(r.first, r.last))
      /\ list_loadsph' = Put(list_loadsph, LAMBDA r : LoadSph(r.first, r.last))

(* The recursive calls for the halves with more than one cpu.              *)
Halves(c, s) ==
  (IF LeftCpus(c) >= 2 THEN <<Call(c.cpustart, LeftCpus(c), c.first, s - 1)>> ELSE <<>>)
  \o
  (IF RightCpus(c) >= 2
   THEN <<Call(c.cpustart + LeftCpus(c), RightCpus(c), s, c.last)>> ELSE <<>>)

(* The search ends: the call fails, or its halves are settled or split     *)
(* further.  (The code fills the lists after the recursive calls; nothing  *)
(* reads them in between.)                                                 *)
Divide ==
  /\ stage = "find" /\ calls # <<>>
  /\ LET c == Head(calls)
     IN  /\ ~CanAdvance(c, split)
         /\ Viable(c, split)
         /\ Assign(Ranges(c, split))
         /\ calls' = Halves(c, split) \o Tail(calls)
         /\ split' = IF calls' = <<>> THEN split ELSE FirstSplit(Head(calls'))
         /\ stage' = IF calls' = <<>> THEN "sum" ELSE "find"
  /\ UNCHANGED <<cum, list_work, cell, loop>>

(* No viable split: every caller returns -1 and domain_decompose ends the  *)
(* run.                                                                    *)
NotViable ==
  /\ stage = "find" /\ calls # <<>>
  /\ ~CanAdvance(Head(calls), split)
  /\ ~Viable(Head(calls), split)
  /\ stage' = "endrun"
  /\ UNCHANGED <<cum, calls, split, lists, list_work, cell, loop>>

-------------------------------------------------------------------------------
(* domain_shiftSplit.                                                      *)

(* One iteration of the loop that adds up list_work; the sweeps follow.    *)
SumWork ==
  /\ stage = "sum"
  /\ list_work' = [list_work EXCEPT ![DomainTask[cell]] = @ + Work(cell, cell)]
  /\ cell' = cell + 1
  /\ stage' = IF cell' = NTopleaves THEN "shift" ELSE "sum"
  /\ UNCHANGED <<cum, calls, split, lists, loop>>

(* Of task and task + 1 the one with less work may take a leaf.            *)
TakesLeft == list_work[task] < list_work[task + 1]

Taker == IF TakesLeft THEN task ELSE task + 1

Giver == IF TakesLeft THEN task + 1 ELSE task

Candidate == IF TakesLeft THEN DomainStartList[task + 1] ELSE DomainEndList[task]

(* Mutant: the work is not compared.                                       *)
WorthwhileAnyWork(x) ==
  /\ list_load[Taker] + x.count <= MaxLoad
  /\ list_loadsph[Taker] + x.sph <= MaxLoadSph

Worthwhile(x) ==
  /\ Larger(list_work[Taker] + x.work, list_work[Giver] - x.work)
       <= Larger(list_work[task], list_work[task + 1])
  /\ list_load[Taker] + x.count <= MaxLoad
  /\ list_loadsph[Taker] + x.sph <= MaxLoadSph

Give(list, n) == [list EXCEPT ![Taker] = @ + n, ![Giver] = @ - n]

(* Mutant: the end of the left range does not move.                        *)
ShiftStartOnly ==
  /\ stage = "shift" /\ task < NTask - 1
  /\ \E x \in ReadLeaf(Candidate) :
       /\ Worthwhile(x)
       /\ list_work' = Give(list_work, x.work)
       /\ list_load' = Give(list_load, x.count)
       /\ list_loadsph' = Give(list_loadsph, x.sph)
  /\ DomainTask' = [i \in Leaf |-> IF i = Candidate THEN Taker ELSE DomainTask[i]]
  /\ DomainStartList' = [DomainStartList EXCEPT ![task + 1] =
                           @ + (IF TakesLeft THEN 1 ELSE -1)]
  /\ moved' = moved + 1
  /\ task' = task + 1
  /\ UNCHANGED <<cum, stage, calls, split, DomainEndList, cell, sweeps>>

(* The pair task, task + 1 of a sweep: move the candidate if worthwhile.   *)
Shift ==
  /\ stage = "shift" /\ task < NTask - 1
  /\ \E x \in ReadLeaf(Candidate) :
       /\ Worthwhile(x)
       /\ list_work' = Give(list_work, x.work)
       /\ list_load' = Give(list_load, x.count)
       /\ list_loadsph' = Give(list_loadsph, x.sph)
  /\ DomainTask' = [i \in Leaf |-> IF i = Candidate THEN Taker ELSE DomainTask[i]]
  /\ LET step == IF TakesLeft THEN 1 ELSE -1
     IN  /\ DomainStartList' = [DomainStartList EXCEPT ![task + 1] = @ + step]
         /\ DomainEndList' = [DomainEndList EXCEPT ![task] = @ + step]
  /\ moved' = moved + 1
  /\ task' = task + 1
  /\ UNCHANGED <<cum, stage, calls, split, cell, sweeps>>

Keep ==
  /\ stage = "shift" /\ task < NTask - 1
  /\ \E x \in ReadLeaf(Candidate) : ~Worthwhile(x)
  /\ task' = task + 1
  /\ UNCHANGED <<cum, stage, calls, split, lists, list_work, cell, moved, sweeps>>

(* Mutant: the number of sweeps is not limited.                            *)
EndSweepUnlimited ==
  /\ stage = "shift" /\ task = NTask - 1
  /\ IF moved > 0
     THEN task' = 0 /\ moved' = 0 /\ stage' = "shift"
     ELSE stage' = "done" /\ UNCHANGED <<task, moved>>
  /\ UNCHANGED <<cum, calls, split, lists, list_work, cell, sweeps>>

EndSweep ==
  /\ stage = "shift" /\ task = NTask - 1
  /\ sweeps' = sweeps + 1
  /\ IF moved > 0 /\ sweeps' < 10 * NTopleaves
     THEN task' = 0 /\ moved' = 0 /\ stage' = "shift"
     ELSE stage' = "done" /\ UNCHANGED <<task, moved>>
  /\ UNCHANGED <<cum, calls, split, lists, list_work, cell>>

Ended == stage \in {"done", "endrun"}

SplitNext ==
  \/ Advance \/ Divide \/ NotViable
  \/ SumWork \/ Shift \/ Keep \/ EndSweep
  \/ Ended /\ UNCHANGED split_vars

Split_Spec == SplitInit /\ [][SplitNext]_split_vars /\ WF_split_vars(SplitNext)
-------------------------------------------------------------------------------
SplitTypeOK ==
  /\ cum \in Tree
  /\ stage \in {"find", "sum", "shift", "done", "endrun"}
  /\ calls \in Seq([cpustart : Task, ncpu : 1 .. NTask, first : Leaf, last : Leaf])
  /\ split \in Nat
  /\ DomainTask \in [Leaf -> Task]
  /\ DomainStartList \in [Task -> Int]
  /\ DomainEndList \in [Task -> Int]
  /\ list_load \in [Task -> Int]
  /\ list_loadsph \in [Task -> Int]
  /\ list_work \in [Task -> Int]
  /\ cell \in 0 .. NTopleaves
  /\ task \in Task
  /\ moved \in Nat /\ sweeps \in Nat

(* The leaves are dealt out in order, without gap or overlap, at least one *)
(* to every task, and the three lists tell the same story.                 *)
Consecutive ==
  /\ DomainStartList[0] = 0
  /\ DomainEndList[NTask - 1] = NTopleaves - 1
  /\ \A t \in Task : t + 1 \in Task => DomainStartList[t + 1] = DomainEndList[t] + 1

EveryCpuHoldsALeaf == \A t \in Task : DomainStartList[t] <= DomainEndList[t]

Owners == \A t \in Task : \A i \in DomainStartList[t] .. DomainEndList[t] : DomainTask[i] = t

Tiled == Consecutive /\ EveryCpuHoldsALeaf /\ Owners

(* What domain_findSplit returns with success is such a division, and      *)
(* neither the bisection nor the shifts exceed the memory limits.          *)
DivisionFits ==
  /\ stage = "sum" => Tiled
  /\ stage \in {"sum", "shift", "done"} =>
       \A t \in Task : list_load[t] <= MaxLoad /\ list_loadsph[t] <= MaxLoadSph

(* The running totals of a task are those of the leaves it was given.      *)
Totals ==
  \A t \in Task :
    LET first == DomainStartList[t]
        last == DomainEndList[t]
    IN  /\ list_load[t] = Load(first, last)
        /\ list_loadsph[t] = LoadSph(first, last)
        /\ list_work[t] = Work(first, last)

Busy == \A t \in Task : list_work[t] > 0

SweepsBegin == stage = "shift" /\ task = 0 /\ sweeps = 0

(* If the bisection leaves every task with work, no sequence of shifts     *)
(* takes the last leaf of a task, tears the division, or lets the totals   *)
(* drift from the leaves.                                                  *)
ShiftsKeepDivision == [](SweepsBegin /\ Busy => [](Tiled /\ Totals))

(* A shift never increases the largest work of any task, so the balance    *)
(* never gets worse.                                                       *)
NeverWorse ==
  [][stage = "shift" =>
       \A t \in Task : \E u \in Task : list_work'[t] <= list_work[u]]_split_vars

(* The search and the sweeps end, even when leaves are shifted to and fro. *)
SplitEnds == <>Ended
===============================================================================
