--------------------------- MODULE MC_Accelerations ----------------------------
(***************************************************************************)
(* The functions that compute_accelerations calls, and compute_potential,  *)
(* each checked from every state of its instance: they are separated by    *)
(* collective calls and leave no message behind, so that one runs while    *)
(* the others are over.                                                    *)
(***************************************************************************)
EXTENDS DensityExport, ForceLoops, ParticleMesh, Bitwise

PTask == 2

XorTable == [p \in (0 .. NTask - 1) \X (1 .. 2 ^ PTask - 1) |-> p[1] ^^ p[2]]

(* density: three tasks.  Particles of task 0 touch task 2, and one of     *)
(* them perhaps task 1; those of task 1 touch task 2 or nobody; those of   *)
(* task 2 touch both or nobody.                                            *)
ThreeGas == [t \in 0 .. 2 |-> IF t = 2 THEN 1 ELSE 4]

ThreeReach ==
  [t \in 0 .. 2 |-> [i \in 0 .. ThreeGas[t] - 1 |->
     CASE t = 0 -> IF i = 0 THEN {{2}, {1, 2}} ELSE {{2}}
       [] t = 1 -> IF i = 0 THEN {{2}, {}} ELSE {{2}}
       [] t = 2 -> {{0, 1}, {}}]]

(* All are active, or one of task 0 and one of task 1 are not.             *)
ThreeEndsteps ==
  {[t \in 0 .. 2 |-> [i \in 0 .. ThreeGas[t] - 1 |-> IF i = 1 /\ t \in later THEN 2 ELSE 0]] :
     later \in {{}, {0, 1}}}

(* The loops: one particle without gravity, walks that end on one or on    *)
(* all tasks, the first step (where all are active) and a later one.       *)
FourThreeOne == [t \in 0 .. 2 |-> CASE t = 0 -> 4 [] t = 1 -> 3 [] t = 2 -> 1]

TwoTwoNone == [t \in 0 .. 2 |-> IF t = 2 THEN 0 ELSE 2]

Halo == {<<0, 3>>}

Walks ==
  {[t \in 0 .. 2 |-> [i \in 0 .. 3 |->
      CASE t = 0 -> IF i < 3 THEN {2} ELSE {1, 2}
        [] t = 1 -> IF i = 0 THEN {} ELSE {2}
        [] t = 2 -> {0, 1}]],
   [t \in 0 .. 2 |-> [i \in 0 .. 3 |-> IF t = 2 THEN {} ELSE (0 .. 2) \ {t}]]}

Steps(now, later) ==
  [t \in 0 .. 2 |-> [i \in 0 .. FourThreeOne[t] - 1 |->
     IF <<t, i>> \in later THEN now + 4 ELSE now]]

SomeSituations ==
  {c \in [potential : BOOLEAN, Ti_Current : {0, 8},
          Ti_endstep : {Steps(0, {}), Steps(8, {}), Steps(8, {<<0, 1>>, <<1, 2>>})},
          walk : Walks, random : {{}, {<<0, 0>>, <<0, 3>>, <<1, 2>>}}] :
     /\ c.Ti_Current = c.Ti_endstep[0][0]
     /\ c.potential => c.random = {}}

(* The mesh: FFTW gives each task the same number of slabs, rounded up.    *)
FFTW ==
  [n \in {PMGRID, 2 * PMGRID} |-> [t \in 0 .. 2 |->
     LET each == (n + 2) \div 3 IN Min({each, n - Min({n, t * each})})]]

FFTWStart ==
  [n \in {PMGRID, 2 * PMGRID} |-> [t \in 0 .. 2 |-> Min({n, t * ((n + 2) \div 3)})]]

TwoTasksHold == [t \in 0 .. 2 |-> CASE t = 0 -> {1, 2} [] t = 1 -> {3, 4, 5} [] t = 2 -> {}]

Selected == {2, 4}

Places == {<<a, 4, c, d, 8>> : a \in {0, 1}, c \in {2, 7}, d \in {5, 6}}

(* Regions that fit the particles, and such that some have left.           *)
Regions ==
  {[coarse |-> [min |-> 0, max |-> 8], high |-> [min |-> 4, max |-> 6]],
   [coarse |-> [min |-> 1, max |-> 8], high |-> [min |-> 4, max |-> 5]]}

SomeCalls ==
  [pos : Places, todo : {<<"box">>, <<"box", "high">>, <<"coarse">>, <<"coarse", "high">>},
   potential : BOOLEAN, region : Regions]
-------------------------------------------------------------------------------
DensityOver ==
  /\ pc = EveryTask("done") /\ Ti_endstep = CHOOSE f \in Endsteps : TRUE
  /\ next = N_gas /\ ntot = 0 /\ ntotleft = 0 /\ npleft = EveryTask(0) /\ niter = 0
  /\ DensDataIn = Empty /\ nexport = EveryTask(0) /\ ndone = EveryTask(0)
  /\ level = EveryTask(1) /\ ngrp = EveryTask(1) /\ nbuffer = EveryTask(EveryTask(0))
  /\ DensDataGet = EveryTask(<<>>) /\ DensDataResult = EveryTask(<<>>)
  /\ sums = Unevaluated /\ touched = Untouched

LoopsOver ==
  /\ case = CHOOSE c \in Situations : TRUE
  /\ calls = <<"potential">> /\ endstep = case.Ti_endstep /\ NumForceUpdate = EveryTask(0)
  /\ lpc = EveryTask("over") /\ start = EveryTask(0)
  /\ IndexTable = NoLists /\ exported = EveryTask(0)
  /\ DataIn = NoLists /\ DataGet = EveryTask(<<>>)
  /\ numdone = EveryTask(0) /\ numleft = 0
  /\ llevel = EveryTask(1) /\ lngrp = EveryTask(1) /\ lnbuffer = EveryTask(EveryTask(0))
  /\ parts = NoParts
  /\ OldAcc = [t \in Task |-> [i \in OnTask(t) |-> TRUE]] /\ ErrTolTheta = "set"
  /\ forcetest = EveryTask({})

MeshOver ==
  /\ Pos = CHOOSE p \in Places : TRUE
  /\ build = {"box"} /\ potential = FALSE /\ todo = <<"box">> /\ tries = "first"
  /\ region = CHOOSE r \in Regions : TRUE
  /\ kernel = region
  /\ mpc = EveryTask("over") /\ mlevel = EveryTask(0)
  /\ meshmin = EveryTask(0) /\ meshmax = EveryTask(0)
  /\ workspace = EveryTask(<<>>) /\ rhogrid = EveryTask(<<>>)
  /\ GravPM = [p \in Particle |-> EmptyBag]
  /\ tree = EveryTask("allocated")

all_vars == <<vars, loop_vars, mesh_vars>>

AnyInit ==
  \/ Init /\ LoopsOver /\ MeshOver
  \/ LoopsInit /\ DensityOver /\ MeshOver
  \/ MeshInit /\ DensityOver /\ LoopsOver

AnyNext ==
  \/ Next /\ UNCHANGED <<loop_vars, mesh_vars>>
  \/ LoopsNext /\ UNCHANGED <<vars, mesh_vars>>
  \/ MeshNext /\ UNCHANGED <<vars, loop_vars>>

Accelerations_Spec == AnyInit /\ [][AnyNext]_all_vars /\ WF_all_vars(AnyNext)

(* Every loop ends, as the counts made elsewhere agree with what it finds, *)
(* with barriers or without; and so does every mesh, as partners agree on  *)
(* the number of their messages, and no run ends because particles moved   *)
(* since the regions were laid out.                                        *)
CallsEnd == DensityEnds /\ <>(LoopAt("over") /\ MeshAt("over"))
===============================================================================
