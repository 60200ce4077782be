--------------------------------- MODULE Tasks ---------------------------------
(***************************************************************************)
(* The MPI tasks and their pairing: in group ngrp task j meets the task    *)
(* whose number is the exclusive or of j and ngrp, if there is one.        *)
(***************************************************************************)
EXTENDS Integers, FiniteSets

CONSTANTS
  NTask,
  Groups,            \* 1 << PTask
  PairedBy           \* j ^ ngrp

Task == 0 .. NTask - 1

EveryTask(x) == [t \in Task |-> x]

(* MPI_Allreduce of a count, or MPI_Allgather and a sum.                   *)
Total(count) == Cardinality(UNION {{t} \X (1 .. count[t]) : t \in Task})

ASSUME XorAssumption ==
  /\ Groups \in Nat \ {0}
  /\ \A j \in Task, n \in 1 .. Groups - 1 :
       /\ PairedBy[<<j, n>>] \in Nat
       /\ PairedBy[<<j, n>>] \in Task => /\ PairedBy[<<j, n>>] # j
                                     /\ PairedBy[<<PairedBy[<<j, n>>], n>>] = j
  /\ \A j, k \in Task : j # k => \E n \in 1 .. Groups - 1 : PairedBy[<<j, n>>] = k
  /\ \A j \in Task : \A m, n \in 1 .. Groups - 1 :
       PairedBy[<<j, m>>] = PairedBy[<<j, n>>] => m = n
===============================================================================
