------------------------------ MODULE KickDrift --------------------------------
(***************************************************************************)
(* The velocities along the time line (timestep.c, predict.c, driftfac.c,  *)
(* artificialcooling.c), with the long-range step of PMGRID (run.c:186).   *)
(*                                                                         *)
(* A velocity is the sum of kicks by the force of the tree and of SPH and  *)
(* of kicks by the mesh; it is represented by the times up to which it was *)
(* kicked.  Four parts of the code bring such a velocity to a common time  *)
(* by formulas of their own: the kick of active particles, the long-range  *)
(* kick, the drift, and every snapshot and energy statistics.              *)
(*                                                                         *)
(* The actions are those of TimeLine, together with what happens to the    *)
(* velocities.  The tree carries velocities too (Extnodes[no].vs).         *)
(***************************************************************************)
EXTENDS TimeLine

CONSTANTS
  Gas,              \* the particles of type 0
  Displacements,    \* values of dt_displacement, as spans of time
  UpdateLimit       \* TotNumPart * TreeDomainUpdateFrequency lies behind it

ASSUME GasAssumption == Gas \subseteq Particle /\ Displacements \subseteq Nat \ {0} /\ UpdateLimit \in Nat

VARIABLES
  PMGRID,             \* compiled with the mesh?
  ReduceVels,
  PM_Ti_begstep, PM_Ti_endstep,
  kickedPM,           \* the time up to which the mesh kicked a particle
  VelPred,            \* of gas: the times, for the tree, SPH and the mesh
  NodeVel,            \* what the nodes of the tree know of a velocity
  uncooled,           \* the gas whose VelPred is older than a cooling
  nodesMissed,        \* the coolings since the tree was made
  Flag_FullStep,
  dt_displacement,
  NumForcesSinceLastDomainDecomp,
  kept                \* of these variables, in the restart files

longRange == <<PM_Ti_begstep, PM_Ti_endstep, kickedPM>>

options == <<PMGRID, ReduceVels>>

velocities == <<VelPred, NodeVel, uncooled, nodesMissed>>

kdvars == <<vars, options, longRange, velocities, Flag_FullStep, dt_displacement,
            NumForcesSinceLastDomainDecomp, kept>>

Everywhere(ti) == [grav |-> ti, hydro |-> ti, pm |-> ti]

(* The tables hold integrals from TimeBegin, and a factor is a difference  *)
(* of two entries: the time it covers.                                     *)
Upto(time) == time * Timebase_interval

get_drift_factor(time0, time1) == Upto(time1) - Upto(time0)

get_gravkick_factor(time0, time1) == Upto(time1) - Upto(time0)

get_hydrokick_factor(time0, time1) == Upto(time1) - Upto(time0)

PMMidpoint == (PM_Ti_begstep + PM_Ti_endstep) \div 2

KickDriftInit ==
  /\ Init
  /\ PMGRID \in BOOLEAN /\ ReduceVels \in BOOLEAN
  /\ PM_Ti_begstep = 0 /\ PM_Ti_endstep = 0
  /\ kickedPM = [p \in Particle |-> 0]
  /\ VelPred = [p \in Gas |-> Everywhere(0)]
  /\ NodeVel = [p \in Particle |-> [tree |-> 0, pm |-> 0]]
  /\ uncooled = {} /\ nodesMissed = 0
  /\ Flag_FullStep = TRUE
  /\ dt_displacement = 0
  /\ NumForcesSinceLastDomainDecomp = 0
  /\ kept = <<>>
-------------------------------------------------------------------------------
(* Synchronisation points: the end of the long-range step is one, although *)
(* no particle may have a step that ends there.                            *)
LongRangeDue(m) == PMGRID /\ m >= PM_Ti_endstep

CountForces ==
  NumForcesSinceLastDomainDecomp' = NumForcesSinceLastDomainDecomp + SumOf(NumForceUpdate')

Synchronise ==
  /\ phase = "sync"
  /\ \E m \in {x \in EndSteps : \A e \in EndSteps : x <= e} :
       /\ min_glob' = IF LongRangeDue(m) THEN PM_Ti_endstep ELSE m
       /\ Flag_FullStep' = (LongRangeDue(m) \/ \A p \in Particle : Ti_endstep[p] <= m)
  /\ NumForceUpdate' = ForceUpdates(min_glob')
  /\ CountForces
  /\ phase' = "output"
  /\ UNCHANGED <<line, owner, stale, span, output, Ti_Current, saved, bounds,
                 options, longRange, velocities, dt_displacement, kept>>

(* move_particles                                                          *)
Drifted(time0, time1) ==
  [p \in Gas |->
     [grav |-> VelPred[p].grav + get_gravkick_factor(time0, time1),
      hydro |-> VelPred[p].hydro + get_hydrokick_factor(time0, time1),
      pm |-> VelPred[p].pm + (IF PMGRID THEN get_gravkick_factor(time0, time1) ELSE 0)]]

(* A new tree, made when it is time to and always in front of the force of *)
(* the mesh, takes the velocities of the particles.  Of those that are not *)
(* kicks, missed are unknown to a tree that stays.                         *)
NewTree(forces, missed) ==
  IF forces > UpdateLimit \/ (PMGRID /\ PM_Ti_endstep = Ti_Current')
  THEN /\ NodeVel' = [p \in Particle |-> [tree |-> kicked[p], pm |-> kickedPM[p]]]
       /\ nodesMissed' = 0
       /\ NumForcesSinceLastDomainDecomp' = 0
  ELSE /\ UNCHANGED <<NodeVel, owner, stale>>
       /\ nodesMissed' = missed
       /\ NumForcesSinceLastDomainDecomp' = forces

OutputOnTheWay ==
  /\ Output
  /\ VelPred' = Drifted(Ti_Current, Ti_nextoutput)
  /\ NewTree(1 + UpdateLimit, nodesMissed)
  /\ UNCHANGED <<options, longRange, uncooled, Flag_FullStep, dt_displacement, kept>>

(* artificialcooling: on a full step the velocities of gas are scaled, but *)
(* neither VelPred nor Extnodes[].vs.                                      *)
CoolsNow == Flag_FullStep /\ ReduceVels

Cooling == uncooled' = IF CoolsNow THEN Gas ELSE uncooled

AfterCooling == IF CoolsNow THEN nodesMissed + 1 ELSE nodesMissed

DriftAndCool ==
  /\ Drift
  /\ VelPred' = Drifted(Ti_Current, min_glob)
  /\ Cooling
  /\ NewTree(NumForcesSinceLastDomainDecomp, AfterCooling)
  /\ UNCHANGED <<options, longRange, Flag_FullStep, dt_displacement, kept>>
-------------------------------------------------------------------------------
(* find_dt_displacement_constraint: a limit for all steps, found anew at   *)
(* full steps.                                                             *)
FindDisplacement ==
  IF Flag_FullStep \/ dt_displacement = 0
  THEN dt_displacement' \in {d \in Displacements : d >= Timebase_interval}
  ELSE UNCHANGED dt_displacement

(* get_timestep ends the run when its step is less than a tick; otherwise  *)
(* it is at most the limit, and what follows only makes it shorter.        *)
WithinLimit(p) == (Ti_endstep'[p] - Ti_begstep'[p]) * Timebase_interval <= dt_displacement'

KickIsDue == PMGRID /\ PM_Ti_endstep = Ti_Current

(* The long-range step only grows if whole steps lead to the end.          *)
LongStep(ti_step) ==
  LET old == PM_Ti_endstep - PM_Ti_begstep
  IN  IF ti_step > old /\ (TIMEBASE - PM_Ti_endstep) % ti_step > 0 THEN old ELSE ti_step

LongSteps ==
  {IF Ti_Current = TIMEBASE THEN 0 ELSE LongStep(s) :
     s \in {x \in Steps : /\ x * Timebase_interval <= dt_displacement'
                          /\ \A r \in Steps : r * Timebase_interval <= dt_displacement' => r <= x}}

(* Mutant: the long-range force is forgotten.                              *)
KickedGasNoMesh(p) ==
  LET tend == Ti_endstep[p] + (Ti_endstep'[p] - Ti_begstep'[p]) \div 2
  IN  [grav |-> kicked'[p] - get_gravkick_factor(Ti_endstep[p], tend),
       hydro |-> kicked'[p] - get_hydrokick_factor(Ti_endstep[p], tend),
       pm |-> kickedPM[p]]

(* The kick of an active gas particle: from the middle of its new step     *)
(* back to its begin, and on from the middle of the long-range step.       *)
KickedGas(p) ==
  LET tend == Ti_endstep[p] + (Ti_endstep'[p] - Ti_begstep'[p]) \div 2
  IN  [grav |-> kicked'[p] - get_gravkick_factor(Ti_endstep[p], tend),
       hydro |-> kicked'[p] - get_hydrokick_factor(Ti_endstep[p], tend),
       pm |-> kickedPM[p] + (IF PMGRID THEN get_gravkick_factor(PMMidpoint, Ti_Current) ELSE 0)]

(* The long-range kick predicts all gas anew, active or not.               *)
KickedByMesh(p) ==
  LET middle == (Ti_begstep'[p] + Ti_endstep'[p]) \div 2
  IN  [grav |-> kicked'[p] + get_gravkick_factor(Ti_begstep'[p], Ti_Current)
                - get_gravkick_factor(Ti_begstep'[p], middle),
       hydro |-> kicked'[p] + get_hydrokick_factor(Ti_begstep'[p], Ti_Current)
                 - get_hydrokick_factor(Ti_begstep'[p], middle),
       pm |-> kickedPM'[p] - get_gravkick_factor(PM_Ti_begstep', PMMidpoint')]

(* The nodes get the kicks of active particles, unless a new tree is due.  *)
KickNodes(forces) ==
  NodeVel' = [p \in Particle |->
                IF p \in Active /\ forces <= UpdateLimit
                THEN [NodeVel[p] EXCEPT !.tree = @ + (kicked'[p] - kicked[p])] ELSE NodeVel[p]]

(* Mutant: the tree is used on after a long-range kick.                    *)
ForcesAfterAnyKick == NumForcesSinceLastDomainDecomp

(* A long-range kick makes a new tree due.                                 *)
ForcesAfter == IF KickIsDue THEN 1 + UpdateLimit ELSE NumForcesSinceLastDomainDecomp

ShortKick ==
  /\ VelPred' = [p \in Gas |-> IF p \in Active THEN KickedGas(p) ELSE VelPred[p]]
  /\ uncooled' = uncooled \ Active
  /\ UNCHANGED longRange

LongKick ==
  /\ \E step \in LongSteps :
       /\ PM_Ti_begstep' = PM_Ti_endstep
       /\ PM_Ti_endstep' = PM_Ti_endstep + step
       /\ kickedPM' = [p \in Particle |->
                         kickedPM[p] + get_gravkick_factor(PMMidpoint, PM_Ti_endstep + step \div 2)]
  /\ VelPred' = [p \in Gas |-> KickedByMesh(p)]
  /\ uncooled' = {}

AdvanceAndKick ==
  /\ AdvanceAndFindTimesteps
  /\ FindDisplacement
  /\ \A p \in Active : WithinLimit(p)
  /\ IF KickIsDue THEN LongKick ELSE ShortKick
  /\ NumForcesSinceLastDomainDecomp' = ForcesAfter
  /\ KickNodes(ForcesAfter)
  /\ UNCHANGED <<options, nodesMissed, Flag_FullStep, kept>>
-------------------------------------------------------------------------------
(* Stops, crashes and continued runs.  The state of a step is not in the   *)
(* restart files: Flag_FullStep and dt_displacement are found anew.        *)
Kept ==
  [PM_Ti_begstep |-> PM_Ti_begstep, PM_Ti_endstep |-> PM_Ti_endstep, kickedPM |-> kickedPM,
   VelPred |-> VelPred, NodeVel |-> NodeVel, uncooled |-> uncooled, missed |-> nodesMissed,
   forces |-> NumForcesSinceLastDomainDecomp]

Save == saved' = <<Image>> /\ kept' = <<Kept>>

Same == UNCHANGED <<options, longRange, velocities, Flag_FullStep, dt_displacement,
                    NumForcesSinceLastDomainDecomp>>

InterruptKept == Interrupt /\ Save /\ Same

ContinueKept == Continue /\ (Save \/ UNCHANGED <<saved, kept>>) /\ Same

FinishKept == Finish /\ Save /\ Same

CrashKept == Crash /\ Same /\ UNCHANGED kept

ReadjustedKept == Readjusted /\ Same /\ UNCHANGED kept

ResumeKept ==
  /\ Resume
  /\ \E k \in {kept[n] : n \in DOMAIN kept} :
       /\ PM_Ti_begstep' = k.PM_Ti_begstep /\ PM_Ti_endstep' = k.PM_Ti_endstep
       /\ kickedPM' = k.kickedPM
       /\ VelPred' = k.VelPred /\ NodeVel' = k.NodeVel /\ uncooled' = k.uncooled
       /\ nodesMissed' = k.missed
       /\ NumForcesSinceLastDomainDecomp' = k.forces
  /\ Flag_FullStep' = FALSE /\ dt_displacement' = 0
  /\ UNCHANGED <<options, kept>>

HalveLong ==
  /\ Halve
  /\ PM_Ti_begstep' = PM_Ti_begstep \div 2
  /\ PM_Ti_endstep' = PM_Ti_endstep \div 2
  /\ UNCHANGED <<options, kickedPM, velocities, Flag_FullStep, dt_displacement,
                 NumForcesSinceLastDomainDecomp, kept>>

KickDriftStep ==
  Synchronise \/ OutputOnTheWay \/ DriftAndCool \/ AdvanceAndKick \/ ContinueKept \/ FinishKept
  \/ HalveLong \/ ReadjustedKept

KickDriftNext == KickDriftStep \/ InterruptKept \/ CrashKept \/ ResumeKept

KickDriftSpec == KickDriftInit /\ [][KickDriftNext]_kdvars /\ WF_kdvars(KickDriftStep)
-------------------------------------------------------------------------------
(* The velocity of a particle at Ti_Current, as a snapshot gets it.        *)
VelocityNow(p) ==
  [grav |-> kicked[p] + get_gravkick_factor(Ti_begstep[p], Ti_Current)
            - get_gravkick_factor(Ti_begstep[p], Midpoint(p)),
   hydro |-> kicked[p] + get_hydrokick_factor(Ti_begstep[p], Ti_Current)
             - get_hydrokick_factor(Ti_begstep[p], Midpoint(p)),
   pm |-> IF PMGRID THEN kickedPM[p] + get_gravkick_factor(PM_Ti_begstep, Ti_Current)
                         - get_gravkick_factor(PM_Ti_begstep, PMMidpoint)
          ELSE 0]

(* Energies and momenta are made of a velocity and an entropy worked out   *)
(* in the same way.                                                        *)
StateOfSystem(p) ==
  [vel |-> VelocityNow(p), entr |-> kicked[p] + Upto(Ti_Current) - Upto(Midpoint(p))]

Reaches(velocity) ==
  /\ velocity.grav \div Timebase_interval = Ti_Current
  /\ velocity.hydro \div Timebase_interval = Ti_Current
  /\ PMGRID => velocity.pm \div Timebase_interval = Ti_Current

(* SPH forces, snapshots and energies see velocities that all belong to    *)
(* the present time, with the kicks of the tree, of SPH and of the mesh,   *)
(* whatever steps, long-range steps, outputs and restarts came before; and *)
(* a cooling reaches the predicted velocities before the next drift.       *)
PredictedNow ==
  /\ \A p \in Gas : Reaches(VelPred[p])
  /\ \A p \in Particle : /\ Reaches(StateOfSystem(p).vel)
                          /\ StateOfSystem(p).entr \div Timebase_interval = Ti_Current
  /\ phase \in {"check", "sync"} => uncooled = {}

TreeInUse ==
  NumForcesSinceLastDomainDecomp <= UpdateLimit /\ phase \in {"advance", "check", "sync"}

(* "make sure that we reconstruct the domain/tree next time because we     *)
(* don't kick the tree nodes in this case" (timestep.c:78): as long as a   *)
(* tree is used, its nodes have all kicks of their particles.  Of the      *)
(* coolings they miss at most one: every full step makes a new tree, and   *)
(* only behind an output on the way to it is the cooling the younger one.  *)
TreeFollows ==
  TreeInUse => /\ \A p \in Particle : NodeVel[p] = [tree |-> kicked[p], pm |-> kickedPM[p]]
               /\ nodesMissed <= 1

(* "if tree is not going to be reconstructed, kick parent nodes            *)
(* dynamically" (timestep.c:343): when move_particles moves the nodes of   *)
(* a tree that stays (predict.c:83), these have been told of every change  *)
(* of the velocities of their particles, a cooling included.               *)
NodesCooled ==
  phase = "output" /\ NumForcesSinceLastDomainDecomp <= UpdateLimit => nodesMissed = 0

VelocitiesAgree == PredictedNow /\ TreeFollows
===============================================================================
