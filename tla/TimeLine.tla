------------------------------- MODULE TimeLine -------------------------------
(***************************************************************************)
(* The main loop and its integer time line (run.c, timestep.c), with       *)
(* outputs, restart files and the extension of TimeMax (begrun.c).         *)
(*                                                                         *)
(* The simulated time span is divided into TIMEBASE ticks.  A particle has *)
(* a time step of a power of two ticks from Ti_begstep to Ti_endstep.  The *)
(* earliest Ti_endstep of all particles is the next synchronisation point; *)
(* the particles whose steps end there get forces, a kick and a new step.  *)
(* Times (TimeMax, output times, kicked) are in ticks of the first run.    *)
(*                                                                         *)
(* The tasks move from one collective call to the next together, so one    *)
(* action is one phase on all tasks.  A set of restart files is written as *)
(* a whole: module RestartFiles is about the single files.                 *)
(***************************************************************************)
EXTENDS Integers, Sequences, FiniteSets

CONSTANTS
  Particle, Task,
  TIMEBASE,
  Steps,            \* the powers of two up to TIMEBASE
  Wishes,           \* what get_timestep may return
  OutputListTimes,
  NewTimeMax,       \* values of TimeMax in the parameter files of later runs
  MaxRestarts,      \* bound on the number of continued runs
  MaxCrashes,       \* bound on the number of crashes
  MinPerTask        \* the particles a task keeps at least, 0 or 1

ASSUME StepsAssumption ==
  /\ TIMEBASE \in Steps /\ 1 \in Steps
  /\ \A s \in Steps :
       /\ s \in Nat \ {0} /\ TIMEBASE % s = 0
       /\ s = 1 \/ (s % 2 = 0 /\ s \div 2 \in Steps)
       /\ \A r \in Steps : r <= s => s % r = 0
  /\ Wishes \subseteq 1 .. TIMEBASE - 1

ASSUME ListsAssumption ==
  /\ OutputListTimes \subseteq Nat /\ NewTimeMax \subseteq Nat
  /\ MaxRestarts \in Nat /\ MaxCrashes \in Nat /\ MinPerTask \in {0, 1}

ASSUME FiniteAssumption == IsFiniteSet(Particle)

VARIABLES
  owner,              \* the task that holds a particle
  stale,              \* Ti_endstep in P[0] of a task that holds no particle
  Ti_begstep, Ti_endstep,
  Ti_Current, Ti_nextoutput, Timebase_interval, TimeMax,
  min_glob,           \* the synchronisation point
  NumForceUpdate,
  kicked,             \* the time up to which a particle's velocity was kicked
  snapshots,          \* the snapshot files; number n is snapshots[n + 1]
  SnapshotFileCount,
  saved,              \* the last set of restart files; <<>> or one image
  ti_end,             \* local variable of readjust_timebase
  restarts, crashes,
  phase               \* "sync", "output", "advance", "check", "final",
                      \* "ended", "down", "readjust"

line == <<Ti_begstep, Ti_endstep, kicked>>

place == <<owner, stale, NumForceUpdate>>

span == <<Timebase_interval, TimeMax, ti_end>>

output == <<Ti_nextoutput, snapshots, SnapshotFileCount>>

bounds == <<restarts, crashes>>

vars == <<line, place, span, output, Ti_Current, min_glob, saved, bounds, phase>>

Held(own, t) == {p \in Particle : own[p] = t}

Owners == {own \in [Particle -> Task] : \A t \in Task : Cardinality(Held(own, t)) >= MinPerTask}

Active == {p \in Particle : Ti_endstep[p] = Ti_Current}

(* find_next_outputtime: the earliest output tick not before ti_curr.      *)
OutputTicks(interval, max) == {o \div interval : o \in {x \in OutputListTimes : x <= max}}

IsNextOutput(next, ti_curr, interval, max) ==
  LET later == {ti \in OutputTicks(interval, max) : ti >= ti_curr}
  IN  \/ later = {} /\ next = 2 * TIMEBASE
      \/ next \in later /\ \A ti \in later : next <= ti

NextOutputs(ti_curr, interval, max) ==
  {next \in OutputTicks(interval, max) \cup {2 * TIMEBASE} : IsNextOutput(next, ti_curr, interval, max)}

Init ==
  /\ owner \in Owners
  /\ stale = [t \in Task |-> 0]
  /\ Ti_begstep = [p \in Particle |-> 0] /\ Ti_endstep = [p \in Particle |-> 0]
  /\ kicked = [p \in Particle |-> 0]
  /\ Ti_Current = 0 /\ min_glob = 0
  /\ Timebase_interval = 1 /\ TimeMax = TIMEBASE /\ ti_end = 0
  /\ Ti_nextoutput \in NextOutputs(0, 1, TIMEBASE)
  /\ NumForceUpdate = [t \in Task |-> 0]
  /\ snapshots = <<>> /\ SnapshotFileCount = 0
  /\ saved = <<>>
  /\ restarts = 0 /\ crashes = 0
  /\ phase = "sync"
-------------------------------------------------------------------------------
(* domain_Decomposition gives the particles new owners.  P[0] of a task    *)
(* that gave all of them away still holds one of them.                     *)
Redistribute ==
  /\ owner' \in Owners
  /\ stale' \in [Task -> {stale[t] : t \in Task} \cup {Ti_endstep[p] : p \in Particle}]
  /\ \A t \in Task :
       stale'[t] \in IF Held(owner', t) = {} /\ Held(owner, t) # {}
                     THEN {Ti_endstep[p] : p \in Held(owner, t)} ELSE {stale[t]}

(* P[0] is read on every task, held or not.                                *)
EndSteps ==
  {Ti_endstep[p] : p \in Particle} \cup {stale[t] : t \in {u \in Task : Held(owner, u) = {}}}

(* Mutant: counted at the time before the drift.                           *)
ForceUpdatesEarly(ti) == [t \in Task |-> Cardinality(Held(owner, t) \cap Active)]

(* The particles of every task that get forces at the time ti.             *)
ForceUpdates(ti) == [t \in Task |-> Cardinality({p \in Held(owner, t) : Ti_endstep[p] = ti})]

FindNextSyncPoint ==
  /\ phase = "sync"
  /\ min_glob' \in {m \in EndSteps : \A e \in EndSteps : m <= e}
  /\ NumForceUpdate' = ForceUpdates(min_glob')
  /\ phase' = "output"
  /\ UNCHANGED <<line, owner, stale, span, output, Ti_Current, saved, bounds>>

(* savepositions(SnapshotFileCount++) at the time ti.                      *)
SavePositions(ti) ==
  /\ snapshots' = IF SnapshotFileCount < Len(snapshots)
                  THEN [snapshots EXCEPT ![SnapshotFileCount + 1] = ti * Timebase_interval]
                  ELSE Append(snapshots, ti * Timebase_interval)
  /\ SnapshotFileCount' = SnapshotFileCount + 1

(* Mutant: a second output in front of the same point is forgotten.        *)
OutputOnlyOne ==
  /\ phase = "output" /\ min_glob >= Ti_nextoutput
  /\ Ti_Current' = Ti_nextoutput
  /\ Redistribute
  /\ SavePositions(Ti_nextoutput)
  /\ Ti_nextoutput' \in NextOutputs(min_glob + 1, Timebase_interval, TimeMax)
  /\ UNCHANGED <<line, NumForceUpdate, span, min_glob, saved, bounds, phase>>

(* An output in front of the synchronisation point: drift there, decompose *)
(* for the potential, write.                                               *)
Output ==
  /\ phase = "output" /\ min_glob >= Ti_nextoutput
  /\ Ti_Current' = Ti_nextoutput
  /\ Redistribute
  /\ SavePositions(Ti_nextoutput)
  /\ Ti_nextoutput' \in NextOutputs(Ti_nextoutput + 1, Timebase_interval, TimeMax)
  /\ UNCHANGED <<line, NumForceUpdate, span, min_glob, saved, bounds, phase>>

(* Drift to the synchronisation point, decompose if it is time to.         *)
Drift ==
  /\ phase = "output" /\ min_glob < Ti_nextoutput
  /\ Ti_Current' = min_glob
  /\ Redistribute
  /\ phase' = "advance"
  /\ UNCHANGED <<line, NumForceUpdate, span, output, min_glob, saved, bounds>>

Midpoint(p) == (Ti_begstep[p] + Ti_endstep[p]) \div 2

OldStep(p) == Ti_endstep[p] - Ti_begstep[p]

(* A longer step must fit the rest of the time line.                       *)
Synchronized(p, ti_step) ==
  IF ti_step > OldStep(p) /\ (TIMEBASE - Ti_endstep[p]) % ti_step > 0 THEN OldStep(p) ELSE ti_step

(* Mutant: no end of the time line.                                        *)
CutShortNever(ti_step) == ti_step

(* No step at the end of the time line, and none beyond it.                *)
CutShort(ti_step) ==
  IF Ti_Current = TIMEBASE THEN 0
  ELSE IF TIMEBASE - Ti_Current < ti_step THEN TIMEBASE - Ti_Current ELSE ti_step

PowerOfTwo(s, wish) == s <= wish /\ \A r \in Steps : r <= wish => r <= s

NewSteps(p) ==
  {CutShort(Synchronized(p, s)) : s \in {x \in Steps : \E wish \in Wishes : PowerOfTwo(x, wish)}}

(* Mutant: the kick begins at the end of the old step.                     *)
KickWhole(p, ti_step) == ti_step \div 2

(* From the middle of the old step to the middle of the new one.           *)
Kick(p, ti_step) == Ti_endstep[p] + ti_step \div 2 - Midpoint(p)

AdvanceAndFindTimesteps ==
  /\ phase = "advance"
  /\ \E step \in [Active -> UNION {NewSteps(p) : p \in Active}] :
       /\ \A p \in Active : step[p] \in NewSteps(p)
       /\ Ti_begstep' = [p \in Particle |-> IF p \in Active THEN Ti_endstep[p] ELSE Ti_begstep[p]]
       /\ Ti_endstep' = [p \in Particle |-> IF p \in Active THEN Ti_endstep[p] + step[p]
                                            ELSE Ti_endstep[p]]
       /\ kicked' = [p \in Particle |-> IF p \in Active
                                        THEN kicked[p] + Kick(p, step[p]) * Timebase_interval
                                        ELSE kicked[p]]
  /\ phase' = "check"
  /\ UNCHANGED <<place, span, output, Ti_Current, min_glob, saved, bounds>>
-------------------------------------------------------------------------------
(* restart(0): everything that the files hold.                             *)
Image ==
  [owner |-> owner, Ti_begstep |-> Ti_begstep, Ti_endstep |-> Ti_endstep, kicked |-> kicked,
   Ti_Current |-> Ti_Current, Timebase_interval |-> Timebase_interval, TimeMax |-> TimeMax,
   SnapshotFileCount |-> SnapshotFileCount]

(* The stop file is there, or CPU time runs out.                           *)
Interrupt ==
  /\ phase = "check"
  /\ restarts < MaxRestarts
  /\ saved' = <<Image>>
  /\ phase' = "down"
  /\ UNCHANGED <<line, place, span, output, Ti_Current, min_glob, bounds>>

(* Mutant: the end of the time line is not the end of the loop.            *)
ContinueForever ==
  /\ phase = "check"
  /\ saved' \in {saved, IF crashes < MaxCrashes THEN <<Image>> ELSE saved}
  /\ phase' = IF Ti_Current * Timebase_interval <= TimeMax THEN "sync" ELSE "final"
  /\ UNCHANGED <<line, place, span, output, Ti_Current, min_glob, bounds>>

(* A regular restart file may be due; the loop goes on, or ends.           *)
Continue ==
  /\ phase = "check"
  /\ saved' \in {saved, IF crashes < MaxCrashes THEN <<Image>> ELSE saved}
  /\ phase' = IF Ti_Current < TIMEBASE /\ Ti_Current * Timebase_interval <= TimeMax
              THEN "sync" ELSE "final"
  /\ UNCHANGED <<line, place, span, output, Ti_Current, min_glob, bounds>>

Finish ==
  /\ phase = "final"
  /\ saved' = <<Image>>
  /\ SavePositions(Ti_Current)
  /\ phase' = "ended"
  /\ UNCHANGED <<line, place, span, Ti_nextoutput, Ti_Current, min_glob, bounds>>

(* A crash, or an exit by endrun.                                          *)
Crash ==
  /\ phase \in {"sync", "output", "advance", "check", "final"}
  /\ crashes < MaxCrashes
  /\ crashes' = crashes + 1
  /\ phase' = "down"
  /\ UNCHANGED <<line, place, span, output, Ti_Current, min_glob, saved, restarts>>

(* begrun with RestartFlag 1.  P[0] of a task without particles is not     *)
(* written by restart(1).                                                  *)
Resume ==
  /\ phase \in {"down", "ended"}
  /\ restarts < MaxRestarts
  /\ \E i \in {saved[k] : k \in DOMAIN saved} :
     \E max \in {x \in NewTimeMax \cup {i.TimeMax} : x >= i.TimeMax} :
       /\ owner' = i.owner /\ Ti_begstep' = i.Ti_begstep /\ Ti_endstep' = i.Ti_endstep
       /\ kicked' = i.kicked /\ Ti_Current' = i.Ti_Current
       /\ Timebase_interval' = i.Timebase_interval
       /\ SnapshotFileCount' = i.SnapshotFileCount
       /\ TimeMax' = max
       /\ ti_end' = max \div i.Timebase_interval
  /\ stale' \in [Task -> IF MinPerTask = 0 THEN 0 .. TIMEBASE ELSE {0}]
  /\ restarts' = restarts + 1
  /\ phase' = "readjust"
  /\ UNCHANGED <<NumForceUpdate, Ti_nextoutput, snapshots, min_glob, saved, crashes>>

(* Mutant: the beginnings of the steps are not halved.                     *)
HalveEnds ==
  /\ phase = "readjust" /\ ti_end > TIMEBASE
  /\ Timebase_interval' = 2 * Timebase_interval
  /\ ti_end' = ti_end \div 2
  /\ Ti_Current' = Ti_Current \div 2
  /\ Ti_endstep' = [p \in Particle |-> Ti_endstep[p] \div 2]
  /\ UNCHANGED <<place, output, Ti_begstep, kicked, TimeMax, min_glob, saved, bounds, phase>>

(* Mutant: the current time is not halved.                                 *)
HalveSteps ==
  /\ phase = "readjust" /\ ti_end > TIMEBASE
  /\ Timebase_interval' = 2 * Timebase_interval
  /\ ti_end' = ti_end \div 2
  /\ Ti_begstep' = [p \in Particle |-> Ti_begstep[p] \div 2]
  /\ Ti_endstep' = [p \in Particle |-> Ti_endstep[p] \div 2]
  /\ UNCHANGED <<place, output, Ti_Current, kicked, TimeMax, min_glob, saved, bounds, phase>>

(* readjust_timebase: while the new end lies beyond the time line, a tick  *)
(* becomes twice as long.                                                  *)
Halve ==
  /\ phase = "readjust" /\ ti_end > TIMEBASE
  /\ Timebase_interval' = 2 * Timebase_interval
  /\ ti_end' = ti_end \div 2
  /\ Ti_Current' = Ti_Current \div 2
  /\ Ti_begstep' = [p \in Particle |-> Ti_begstep[p] \div 2]
  /\ Ti_endstep' = [p \in Particle |-> Ti_endstep[p] \div 2]
  /\ UNCHANGED <<place, output, kicked, TimeMax, min_glob, saved, bounds, phase>>

(* begrun looks for the next output, from the present time on.             *)
Readjusted ==
  /\ phase = "readjust" /\ ti_end <= TIMEBASE
  /\ Ti_nextoutput' \in NextOutputs(Ti_Current, Timebase_interval, TimeMax)
  /\ phase' = "sync"
  /\ UNCHANGED <<line, place, span, snapshots, SnapshotFileCount, Ti_Current, min_glob, saved, bounds>>

Step == FindNextSyncPoint \/ Output \/ Drift \/ AdvanceAndFindTimesteps
        \/ Continue \/ Finish \/ Halve \/ Readjusted

Next == Step \/ Interrupt \/ Crash \/ Resume

Spec == Init /\ [][Next]_vars /\ WF_vars(Step)
-------------------------------------------------------------------------------
Ticks == 0 .. TIMEBASE

TypeOK ==
  /\ owner \in [Particle -> Task]
  /\ Ti_begstep \in [Particle -> Ticks] /\ Ti_endstep \in [Particle -> Ticks]
  /\ Ti_Current \in Ticks /\ min_glob \in Ticks
  /\ stale \in [Task -> Ticks]
  /\ phase \in {"sync", "output", "advance", "check", "final", "ended", "down", "readjust"}

(* A step is a power of two that starts at a multiple of itself, so that   *)
(* all particles meet again (timestep.c, SYNCHRONIZATION).                 *)
OnGrid ==
  \A p \in Particle : OldStep(p) = 0 \/ (OldStep(p) \in Steps /\ Ti_begstep[p] % OldStep(p) = 0)

(* The steps of two particles that overlap are nested: a shorter step ends *)
(* within the longer one.                                                  *)
Nested ==
  \A p, q \in Particle :
    /\ OldStep(p) > 0 /\ OldStep(p) <= OldStep(q)
    /\ Ti_begstep[p] < Ti_endstep[q] /\ Ti_begstep[q] < Ti_endstep[p]
    => Ti_begstep[q] <= Ti_begstep[p] /\ Ti_endstep[p] <= Ti_endstep[q]

(* The system is never drifted past the end of a particle's step, nor back *)
(* before its beginning, through outputs, restarts and a longer time line. *)
NobodyLeftBehind ==
  \A p \in Particle : Ti_begstep[p] <= Ti_Current /\ Ti_Current <= Ti_endstep[p]

(* "the earliest point of time any of the particles needs a force          *)
(* computation" (run.c:157).                                               *)
EarliestOfAll ==
  phase = "output" => /\ \E p \in Particle : Ti_endstep[p] = min_glob
                      /\ \A p \in Particle : min_glob <= Ti_endstep[p]

(* The velocities are kicked up to the middle of the step, neither twice   *)
(* nor with a gap, whatever steps followed each other; a longer tick only  *)
(* rounds.                                                                 *)
KickedToMidpoint == \A p \in Particle : kicked[p] \div Timebase_interval = Midpoint(p)

(* The active particles are counted before an output gives them new        *)
(* owners; gravity_tree waits until that many are done.                    *)
SumOf(f) == Cardinality(UNION {{t} \X (1 .. f[t]) : t \in Task})

AllActiveCounted == phase = "advance" => SumOf(NumForceUpdate) = Cardinality(Active)

(* Snapshot files are numbered in the order of time.                       *)
SnapshotsAscend ==
  \A i, j \in 1 .. SnapshotFileCount :
    i < j => snapshots[i] \div Timebase_interval <= snapshots[j] \div Timebase_interval

(* "If the system drifts over the desired time of a snapshot file, the     *)
(* function will drift to this moment, generate an output" (run.c:158):    *)
(* every output time that lies behind has its file, in order, also after   *)
(* crashes and continued runs.                                             *)
OutputsKept ==
  phase \in {"advance", "check", "final", "ended"} =>
    /\ SnapshotsAscend
    /\ \A ti \in OutputTicks(Timebase_interval, TimeMax) :
         ti <= Ti_Current => \E n \in 1 .. SnapshotFileCount : snapshots[n] \div Timebase_interval = ti

(* "A timestep of size zero was assigned on the integer timeline!"         *)
(* (timestep.c:564) is an error: before the end every step has a length.   *)
NoZeroStep ==
  phase = "check" /\ Ti_Current < TIMEBASE => \A p \in Particle : Ti_endstep[p] > Ti_Current

(* A run goes on until it is stopped or arrives at TimeMax.                *)
EveryRunEnds == []<>(phase \in {"down", "ended"})
===============================================================================
