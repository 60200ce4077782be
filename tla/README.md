# Formal model of gadget2-planetary

TLA+ modules, TLC configurations and TLAPS proofs about this repository: the
simulation code in `src/Gadget2Source` (an MPI tree/SPH code), and the programs
around it that make planets, combine them and look at what a collision left.

## Inventory

The simulation is one executable, run by `NTask` MPI tasks in lockstep: no threads,
no master, the same control flow on every task, with point-to-point messages
inside and collective calls between the phases.  One step of the main loop
(`run`, run.c) is: choose the next synchronisation point and drift all particles
to it; redistribute the particles over the tasks; compute gravity, density and
hydrodynamic forces; advance the time steps; look at the stop conditions and
write restart files.

The other programs are sequential.  `1_MakePlanet` writes a planet shell by
shell; Gadget2 equilibrates it (`2_Relax`); `3_ReadSnap` reads it; `4_Remove`
takes away what flew off; `5_CombineBodies` puts two bodies into one file, which
Gadget2 collides (`6_SampleRun`); `analysis` and `tools` search for what is bound
and work out temperatures and pressures.  They meet in nothing but files: a
sequence of blocks without names, and the numbers of the particles.

| Component | State | Operations | Talks to | Hard behaviour | What makes it correct |
|---|---|---|---|---|---|
| Top-level tree (domain.c 786–1101, peano.c) | `TopNodes`, `DomainCount`, `DomainWork`, local segments | extent, keys, local segments, joint tree, costs | all tasks (Allgather, Allreduce) | segments of different tasks have different depth | leaves tile the curve; what they are said to hold they hold |
| Domain split (domain.c 312–524) | `DomainTask`, `DomainStartList`, `DomainEndList`, `list_load`, `list_work` | `domain_findSplit`, `domain_shiftSplit` | exchange, tree code | recursion with memory limits, cells that go to and fro | consecutive non-empty ranges, limits kept, lists agree, an end |
| Domain exchange (domain.c 247–310, 527–758) | `NumPart`, `N_gas`, `P`, `Key`, `SphP`, copies of `toGo`, `list_NumPart`, send buffer | `domain_countToGo`, `domain_findExchangeNumbers`, `domain_exchangeParticles` | pairs of tasks, blocking sends | full arrays, replicated bookkeeping, tasks that run ahead | no overrun, matching messages, nothing lost, termination |
| Particle arrays (domain.c 600–720, peano.c) | `P`, `Key`, `SphP` | collect, insert, sort in place | | three-way moves, permutation cycles | gas in front, `Key` and `SphP` stay beside `P` |
| Main loop and time line (run.c, timestep.c, predict.c, driftfac.c) | `Ti_Current`, `Ti_begstep/endstep`, `Ti_nextoutput`, `Vel`, `VelPred`, `vs`, `PM_Ti_*` | find the next point, output, drift, kick, long kick, advance steps | all tasks (minimum) | power-of-two steps, outputs between points, three velocities | steps stay on the grid; every velocity is kicked over every time once |
| Buffered export (density.c) and its relatives (gravtree.c, hydra.c, potential.c, gravtree_forcetest.c) | export buffer, `noffset`, `nsend`, `ndonelist`, marks in `Ti_endstep` | fill, exchange in hypercube rounds, return | all pairs | buffer limits on both sides, several rounds, one buffer for all | every particle processed once by every task its region or walk needs |
| Smoothing length iteration (density.c 290–440) | `Left`, `Right`, `Hsml`, negated `Ti_endstep` | bisection | export | convergence, marks restored | ends, marks undone |
| Long-range driver and particle mesh (longrange.c, pm_*.c) | regions, patches, slabs, `GravPM` | lay out, assign, transform, read out, retry | all pairs | patches that wrap, a retry after particles left | slabs get every density once, particles read their own neighbourhood |
| Gravity tree (forcetree.c, ngb.c, predict.c) | `Nodes`, `Extnodes`, `Nextnode`, `Father`, `DomainMoment`, `TreeReconstructFlag` | insert, thread, exchange pseudo-particles, drift, kick, five walks, search | all tasks; time line, density, gravity, SPH | a tree that outlives the step it was built in; what a task knows of others' leaves | every particle once in a force, every neighbour once in a search |
| Restart and stop (restart.c, run.c 75–150, begrun.c) | restart files, `.bak`, `stop`/`cont` files | write, read, index remap | file system, groups of tasks | crash between rename and write, changed allocation | one consistent set of files |
| Snapshot and IC files (io.c, read_ic.c, init.c) | files, block buffer, header | write in pieces, read and distribute | groups of tasks, restart, planet programs | grouped turns, more files than tasks, a header nobody saves | what is read is what was written |
| EOS tables (eos_table_interp.c and copies of it) | table, cell of the last lookup | hunt, interpolation | | the guess is of another table | the cell that is read holds the value |
| Planet programs (`1_` ... `5_`, tools, analysis) | files, ids, marks | make, load, choose, renumber, save, search for bound matter | files only | block order known by heart, ids with a meaning | values stay with their particles; ids keep material and body |
| Memory allocation, start-up, parameters, integrals | `All` | parse, allocate, integrate | | | |

`PROJECT.json` lists the components with their status and the hazards with
their lines.

## Modules

| Module | Models |
|---|---|
| `Redistribution` | what the exchange promises: particles travel in one hop to the owner of their domain |
| `DomainExchange`, `MC_DomainExchange` | the exchange, one program counter and one copy of the books per task; the pair schedule of the C loop and the placements to start from |
| `DomainSplit` | `domain_findSplit` and `domain_shiftSplit` |
| `PeanoHilbert` | the curve: key of a cell, cell of a key |
| `TopTree` (on `DomainSplit`, `PeanoHilbert`) | extent, keys, local segments, joint tree and its counts |
| `ParticleArrays` | the order inside `P`, `Key` and `SphP` of one task: collecting, inserting, Peano-Hilbert order in place |
| `MC_Domain` | the trees to split, the particles to build a tree of, the arrays |
| `TimeLine`, `MC_TimeLine` | the main loop: synchronisation points, outputs, time steps, kicks, restart files, a longer `TimeMax`; the powers of two |
| `KickDrift`, `MC_KickDrift` (on `TimeLine`) | the velocities along it: predicted, of the nodes, long-range, cooled, written |
| `Tasks` | the tasks and their pairing by exclusive or |
| `DensityExport` (on `Tasks`) | the loop of `density`: export in rounds, levels and iterations |
| `ForceLoops` (on `Tasks`) | the loops of gravity, potential, force test and SPH forces, one after the other |
| `ParticleMesh` (on `Tasks`) | long-range force and potential on three kinds of meshes |
| `MC_Accelerations` | what the particles touch and where they are, for the three modules above |
| `GravityTree` | the tree of gravity and neighbour search through the steps of the main loop |
| `TreeWalks`, `MC_GravityTree` (on `GravityTree`) | the five walks over it; a top-level tree of three sizes of leaves, starting places, kicks |
| `RestartFiles` | writing and reading the restart files in groups, `.bak` files, crashes |
| `SnapshotFiles` | snapshots and initial conditions through several jobs |
| `RestartLayout`, `MC_RestartLayout` | the change of tree indices when the array sizes change |
| `PlanetTools`, `MC_Planets` | a planet's files and ids through the programs around Gadget2 |
| `EosTables` | the table lookups of ten programs |
| `Remnants` | the searches for bound remnants of five programs |
| `MC_Programs`, `MC_Files` | tables and collisions; everything that shares only files |
| `DomainExchangeProofs`, `DomainSplitProofs`, `ParticleArraysProofs`, `TimeLineProofs` (also of `KickDrift`), `DensityExportProofs`, `AccelerationsProofs` (of `ForceLoops` and `ParticleMesh`), `RestartFilesProofs`, `ProgramsProofs` (of `EosTables` and `Remnants`) | theorems |

### DomainExchange

State: `hold[t][d][k]` counts the particles of kind `k` (`"sph"`, `"other"`) in
the arrays of task `t` whose leaf belongs to task `d`; `NumPart` and `N_gas` are
the fill levels of the code, kept by counts and not derived from `hold`;
`buf[t]` is the content of `DomainPartBuf`; `book[t]` holds the copies of
`list_NumPart`, `list_N_gas`, `toGo` and `toGoSph` that task `t` works on;
`pos[t]` is the place in the loop (pair, SPH pass or not, leg); `amount[t]` holds
`send_count` and `recv_count`.

Actions: `Bookkeep` (a task that is not in the pair), `Collect` (bookkeeping and
the collecting loop, with the `endrun(88)` exit), `SkipLeg` (a direction with
count 0), `Transfer` (`MPI_Ssend` meets `MPI_Recv`; the two or three messages of
one direction are one action, because the same two tasks post them in the same
order), `Return`.  Tasks interleave freely: nothing but the messages orders them.

`Init` is the state after the split: placements that fit the arrays, and final
loads within `maxload` (0.98 `MaxPart`) and `maxloadsph`, which is what
`domain_findSplit` checks and `domain_shiftSplit` keeps (`DivisionFits` and
`ShiftsKeepDivision` of `DomainSplit`).

A message is matched by partner and direction, as MPI matches it by source and
tag; that both sides then agree on the count is the property `SameMessage`, not
part of the action.

### DomainSplit

One copy of the state: the tasks compute the split from the same reduced arrays.
The recursion of `domain_findSplit` is a stack of pending calls; the search for a
split point, the sum over `DomainWork` and the sweeps of `domain_shiftSplit` are
one action per iteration.  `DomainCount`, `DomainCountSph` and `DomainWork` are
given by their running totals, so that a loop that adds up a range is a
difference.  Work is a natural number; the doubles of the code behave the same
up to rounding (a leaf whose work vanishes beside that of another is outside the
model).  A read outside the leaves yields any content in `Stale`; a write outside
changes nothing that is modelled.

### TopTree

In three dimensions, with the curve of `peano_hilbert_key` computed by its tables.
`held[t]` are the particles of a task: place, kind, share of work.  One action per
function (`domain_findExtent`, the keys and their sorting, `domain_topsplit_local`,
gathering and `domain_topsplit`, `domain_sumCost`), since in between the tasks do not
meet.  The local segments of a task are chopped into eight while they hold more
particles than `TotNumPart / (TOPNODEFACTOR * NTask * NTask)`; of the segments of
all tasks one tree is made, in which a coarse segment of one task gives its count
to the first daughter.  `TreeExact` is about the tree after the counts were taken
anew: its leaves are cubes that follow each other along one curve, hold exactly
what `DomainCount` says, and are small enough.

### ParticleArrays

One task, its arrays and its send buffers; the other tasks are the sets `away`
and `incoming`.  A particle is an identity; an element of `P` or `SphP` is the
identity whose data it holds, so that "the SPH data of `P[i]` is at `SphP[i]`"
is an equation.  `ComputeKeys` begins a decomposition; any number of calls of
`domain_exchangeParticles` follow: `Begin` fixes the counts, `Skip`,
`CollectGas` and `CollectOther` are the iterations of the collecting loop,
`Collected` its end with the `endrun(88)` exit, `Send` and `Receive` the two
directions in either order.  `OrderGas`, `OrderOther` and `Ordered` are
`peano_hilbert_order`; `InPlace`, `StartCycle` and `Place` the iterations of
`reorder_gas` and `reorder_particles`.  `qsort` is any order of the block that
sorts the keys.

The counts of a call are any that are available and fit the arrays, which is
what `MemoryBound`, `NoAbort` and `SameMessage` of `DomainExchange` establish.
The elements received are consistent (key and SPH data of the same particle)
because the partner runs the same code; that this task sends consistent
elements is part of `Beside`.

### TimeLine

All tasks go from one collective call to the next together, so one action is one
phase on all tasks, and `phase` is the place in the main loop: `FindNextSyncPoint`
(the minimum over all tasks and the count `NumForceUpdate`), `Output` (once for
each output time in front of the point; with the potential in snapshots it
redistributes the particles), `Drift`, `AdvanceAndFindTimesteps` (every active
particle, any wish of `get_timestep`), and at the end of a step `Interrupt` (stop
file or CPU time), `Continue` (with a regular restart file or without) or, when
the loop ends, `Finish`.  `Crash` may come at the end of any phase.  `Resume` is
`begrun` with restart flag 1 and any allowed `TimeMax`; `Halve` is one pass of
the loop in `readjust_timebase`, `Readjusted` its end and the search for the next
output.  (The code calls `readjust_timebase` only if `TimeMax` grew; otherwise
`Halve` is not enabled and `Readjusted` changes what `begrun` changes.)

Times are integers, as in the code, and `Timebase_interval` says how many ticks
of the first run a tick has become, so that output times and kicks of
different runs can be compared.  `kicked[p]` is not in the code: it adds up the
intervals over which a velocity was kicked.  `owner` says which task holds a
particle; `Redistribute` may choose it anew wherever `domain_Decomposition` can
be called.  `stale[t]` is the `Ti_endstep` found in `P[0]` of a task without
particles.  `saved` is the last set of restart files as a whole.

Forces, statistics and the tree are left out: no time depends on them except
through the wish of `get_timestep`, which is free.

### KickDrift

The actions of `TimeLine`, each together with what it does to velocities.  A
velocity is the sum of kicks; it is represented by the times up to which it was
kicked, by short-range gravity, by SPH and by the mesh (`grav`, `hydro`, `pm`).  The
places of the code that bring velocities to a common time are formulas of their
own, and each is an operator: `KickedGas` (`advance_and_find_timesteps`),
`KickedByMesh` (its long-range part), `Drifted` (`move_particles`), `KickNodes`
(the nodes above an active particle, timestep.c:345), `StateOfSystem` and the correction of velocities in
`fill_write_buffer`.  `VelocitiesAgree` says that what they yield belongs to the
present time.  `UpdateLimit` stands for `TreeDomainUpdateFrequency * TotNumPart` and lies
between two counts here (the case in which it equals one is a finding).  A
`dt_displacement` below one tick ends the run and is not in `Displacements`.  The
factors of `driftfac.c` are differences of one table, so that factors of adjoining
intervals add up; in the model they are the intervals.  Cooling scales the
velocities of gas in place: neither `VelPred` (`uncooled`, the gas whose `VelPred` is older than
a cooling) nor the velocities of nodes follow (`nodesMissed` counts the coolings since the tree was made).
A full step has more forces than a tree is used for if `TreeDomainUpdateFrequency` is below
one, so that it makes a new tree; but when an output on the way to the full step made the tree, the count
starts anew, and the tree stays behind the cooling.  So a tree in use may have missed one cooling and
no more (`TreeFollows`), and `NodesCooled`, that it has missed none when its nodes are
moved, is a finding.

### DensityExport

The loop of `density` (density.c), which `gravtree.c`, `hydra.c` and
`potential.c` repeat with other payloads.  `Fill` is one iteration of the filling
loop (a particle is evaluated and exported to any set of other tasks its region
may touch, `Reach`), `FillEnds` its end; `GatherCounts`, `RoundEnds` and
`GatherLeft` are the three `MPI_Allgather`s, steps of all tasks together, and
`Barrier` is `MPI_Barrier`.  In between every task goes through the groups of
pairs at its own pace: `Send` and `Return` are meetings of two tasks in
`MPI_Sendrecv`, `Skip` a group without a partner or without particles,
`EvaluateReceived` and `LevelEnds` the ends of the two loops.  Every task decides
from its own copy `nbuffer` of the fill of all receive buffers whether a level
ends (`LevelFull`); that the copies lead to the same decision is not assumed but
part of what `DensityEnds` shows.  `Decide` chooses which particles have to be
repeated: the number of neighbours and the bisection of `Hsml` are geometry.

`DensDataIn[t][u]` is the part of the export list of `t` for `u`: sorting the
list by task and adding up `noffset` finds these parts.  A result says which
particle it was worked out for and by whom, and `sums[t][i]` keeps how many results were
added to a particle and for whom, so that a result added to the wrong particle, or one
added twice, is seen.  Receive and result buffers are emptied after their last use,
and `sums` and `touched` at the start of an iteration, where the code overwrites
them later.

### ForceLoops

`gravity_tree`, `gravity_forcetest`, `compute_potential` and `hydro_force` export as
`density` does, without iterating, and differ in what a port of one to the other
would get wrong: which particles they take (all active ones, active gas, the
negative marks of the force test, all), how they know that all are done
(`NumForceUpdate` or a sum of their own), the margin of the buffer, whether the
results overwrite the requests (`GravDataOut` is `GravDataIn`, `GravDataResult` is
`GravDataGet`), and which collective calls and barriers they post.  One set of
actions asks `Loop` for these differences.  The export list is filled particle by
particle (`FillList`, `Export`) until it is full or the particles are through (`ListEnds`);
the force test hands out the lines of its file by task.  `calls` is what is still to
be run of `compute_accelerations`, whose first step calls gravity twice with the
relative criterion (gravity, then again with `OldAcc`).  A part that a particle gets
is named by particle and task, so that a result for the wrong particle or of the wrong task is
seen (`LoopsExact`).

### ParticleMesh

`long_range_force`, the mesh part of `compute_potential`, and the four routines
of `pm_periodic.c` and `pm_nonperiodic.c`: the patch of a task, the pieces in which
it meets the slabs of others, assignment, the potential, patches with a rim of two cells, the
differences of four points; `tries` is the retry after particles left a region, with
tree freed and reallocated.  Space is the coordinate the slabs are cut by.  A density
cell is a bag of what was assigned, a potential cell is its own number, and
a force is named by the cells it subtracts (`MeshExact`).

How a mesh is cut is what the library says (`Slabs`, `first_slab_of_task`).  `SlabsAssumption` asks that the
ranges share out the mesh and that a task with slabs at both ends of the periodic mesh, where a patch
wraps, has all of it: blocks of equal size, as FFTW makes them, cannot give one of several
tasks both ends.  `CallsAssumption` asks that a region has a length, which the code divides by: the particles
a grid is laid around are not all in one place.

### GravityTree

Between two collective calls the tasks do not depend on each other, so that one
action is one function of the main loop on all tasks, in the order of `run`:
`Sync` (the next active particles, the drift of particles and nodes, and the
update of lengths and moments), `Decompose` (a new division of the leaves, if
there were enough forces), `Gravity` (the construction, if it is due), `Density`
(new smoothing lengths and `force_update_hmax`), `Kick` (new velocities of the
active particles, and of the nodes above them).  `tree[t]` is the tree of task
`t`: `Nodes`, `Nextnode`, `Father`, `DomainNodeIndex`.

The walks change nothing that lasts, so they are not actions but operators:
`Follow` repeats `GravityStep` (`force_treeevaluate`) or `SearchStep`
(`ngb_treefind_variable`, `ngb_treefind_pairs`) from the root until the index is
negative, and `Attraction`, `DensityEvaluate` and `HydroEvaluate` add the walk on the task that holds
the particle and those on the tasks it is exported to.  How the exports travel is
`DensityExport`.

Space has one coordinate: a node has two halves instead of eight octants, and
the Peano curve may run through the halves in either order.  Instead of a mass a
node has the particles it counts, instead of `s` and `vs` their products with the
mass: the formula of `force_treeupdate_pseudos` is then "add new, subtract old"
(`AddUp`), and a particle counted twice is seen.  Numbers are exact.  The root is
of one of two lengths, the smallest that holds all particles at the
decomposition; afterwards particles may leave it.  In a node below 1/1000 of the
softening the place of a particle is drawn; draws that do not separate the two
particles are left out, they only use up more nodes.

### TreeWalks

The walks `force_treeevaluate`, `force_treeevaluate_shortrange`,
`force_treeevaluate_potential`, `force_treeevaluate_potential_shortrange` and
`force_treeevaluate_ewald_correction`, each in mode 0 and 1, as one step operator per walk over the
tree of `GravityTree`.  They differ in what is opened (angle or relative criterion,
the softening, the cut-off `Rcut`, half of the box) and in what may be left out.
`AttractedOnce` says for each what it must count: everything, everything within the cut-off, every
image once; `SameSide` that a node corrected as a whole lies on one side of half the box.

### RestartFiles

One job after the other (`job` is `"run"`, `"write"`, `"read"` or `"down"`) on
the same files.  Of a file the model knows the time it was written for and
whether it is whole.  `Run` is a step of the main loop, `BeginWrite` and
`BeginRead` are calls of `restart`, whose loop over `groupTask` the tasks go
through between barriers: `RenameToBak`, `OpenForWriting`, `Written`, or
`ReadCommon`, `BcastFromTask0`, `BcastArrives`, `Consistent`, `ReadRest`.
The broadcast is posted by readers and waiting tasks in the first turn only.
`CannotOpen`, `CannotRead`, `NotConsistent` end the job, and `Crash` may at any
point.  `PutInPlace` is what a user does by hand, since the code never reads a
`.bak` file: the latest set of which every task has a whole file gets its names
back.  The job may also be started again without it.

Where the code is compiled with `NOCALLSOFSYSTEM` (target `odyssey` of the
Makefile) there is no renaming; the mutant `RenameNothing` shows what is lost then.

### SnapshotFiles

Jobs one after the other (`JobParams`: number of tasks, files per snapshot, files
written at once, memory), each started from initial conditions, from a snapshot or from restart
files.  `read_ic` (`find_files`, the list of files, groups and turns), `read_file` (header,
blocks piece by piece, room for gas, errors with their `endrun`), `init` (flag of
entropy, number of the next snapshot) and `savepositions`/`write_file` are actions;
one piece of a block is one step, because all tasks of a file run the same loops.  A value is the
particle it belongs to, so that `ReadBack` (what is read is each particle once, with
its own values) and `WholeSnapshot` (a snapshot that was closed says what it holds) are
equations.  A set of restart files is either written or not here; how it is written
is `RestartFiles`.  Several jobs matter, because the header of a snapshot is what `read_ic` left
in memory, and a job continued from restart files never read one.

### RestartLayout

The links of the tree as `restart` writes them and as it changes them when
`PartAllocFactor` or `TreeAllocFactor` is another one.  A link is a particle, a
node, a pseudo particle or none; `Index` is the index the code uses for it in
arrays of given sizes.  `Load` must yield the indices for the new sizes.

### PlanetTools

`MakePlanet` (particles per shell, materials, crust, ids), Gadget's reading and writing of such
a file, `4_Remove`, `5_CombineBodies` (loading, crust, renumbering, the mark of the second body), and the
loaders of the analysis programs, which take the blocks in an order they know by heart and
decide by their own flags or by the name of the file which blocks are
there.  A value in a file is what it was written as, of which particle.  `PlanetsWhole`: what
a program takes a value for, it was written as, and of the same particle; ids name
the body and the material the particle was made with; every removed particle was one
to remove.  A combination of options in which a program cannot know what it reads is left out of
`SomeRuns` and named here:

* `Snap2ss` and `ReadSnap` take the name of the file for the kind of run: of a file not
  called `snapshot` that has a time, such as what `4_Remove` writes, they read densities as potential.
* `RemoveLR` writes densities under a record length for other particles
  (`bnd != 02`), and `RemoveLR_long` takes rates of entropy for time steps.
* `SnapshotPressure` writes temperatures, pressures or energies where others look for entropies.
* The flag `_HASU` of `AnalyseEquil` means the rates of entropy (ENDT), as its README says.
* Ids keep their meaning while the numbers of a file are at most half of `ID_SKIP`.
* A shell without particles still gets one when the next layer begins, and the outer shells then
  one less; a layer thinner than the shells gets the material of its neighbour.

### EosTables

`eos_table_interp` of Gadget2 and its copies: bounds, the guess kept from the last
lookup whatever its material, the hunt with doubling steps, the bisection (each loop is the function of one turn, `UpTurn`,
`DownTurn`, `BisectTurn`, and ends at the values that stay, `EndOf`), and what happens
outside a table, which differs (extrapolate, or stop).  A value of a table is the place it
belongs to, so that `LookupRight` says: the four values that are interpolated are the
corners of the cell of the present table that holds the argument.  The programs
that stop outside a table also stop inside one if the kept guess is the last place of
a smaller table; the model has this (`StopsAtStaleGuess`) as what they do.

### Remnants

The loop that binds particles to a seed over and over, in five variants: which particle
is the seed, whose frame, when the loop ends, and what follows for further remnants.
`RemnantsRight`: no particle is taken from a remnant that was found but the last seed, the
remnants are in the order of mass that is announced, and their materials add up.  `SearchEnds`
is stated for the variants that count their passes.  `BoundMass` and `DiskMass2` of
`analysis` define `maxit` and never use it, so that a collision in which bound and unbound
alternate keeps them busy for ever; it is one of `SomeCollisions`.  When everything is bound, the
search for a further remnant still marks a seed, the one of the search before (bound.c:77), which then
is missing from its remnant in the table although it was printed there (`RanOut`).  `OnlyLastSeedTaken`
says that this is all: with that particle back in one of the remnants (`GivenBack`), the masses are those
printed.  `minparts` below two does not end.  `ProgramsProofs` has `RemnantsRight`
for every list of particles.

## Runs

There are twelve runs, each for one question.  Three of them check several modules in
one state space, each from every state of its own instance while the others are
over; this is sound because the functions are separated by collective calls that leave no message
in flight (`MC_Accelerations`), work on data of their own (`MC_Domain`), or share only
files (`MC_Files`), and it keeps every property under one configuration.

| Run | Instance | Shows |
|---|---|---|
| `exchange_three` | 3 tasks, `MaxPart` 4, `MaxPartSph` 3, buffer 2, placements that fill the arrays, with gas and without | memory, no abort, matching messages, clean exit, refinement of `Redistribution` with its liveness |
| `domain_leaves` | 3 tasks, all 6561 trees of 8 leaves of 3 kinds, tight limits; 9 particles at 5 places; 3 gas and 2 other particles in arrays of 4 and 3, up to 3 exchanges | a division fits, balance is never worse, shifts tear nothing, an end; the tree is exact; arrays stay in step and sorted |
| `accelerations_levels` | 3 tasks, 9 gas particles, buffer 7, 2 iterations; 8 particles through all loops, buffers 4 and 5; mesh of 8 with 3 slabs ranges, periodic, coarse and fine | buffers, every part once and for the right particle, marks undone, mesh exact, all end |
| `tree_walks` | 3 tasks, 4 particles, 4 leaves of 3 sizes, 2 steps after the first | every walk counts each particle once, each neighbour is found once, all tasks agree on the moments; room for nodes |
| `timeline_continued` | 2 particles, one gas, 8 ticks, one crash, two continued runs, `TimeMax` 8 to 12, with and without mesh and cooling | grid, kicks, velocities, numbers and completeness of outputs through crashes, stops and a longer time line; the run ends |
| `files_crash` | restart files: 3 tasks, 2 files at once, 2 times, any number of crashes; snapshots: 3 jobs of 2 or 3 tasks, 1 to 4 files; planets of 4 particles; 3 tables; collisions of four or five bodies | nothing lost, no mixed set, nobody waits for ever, what is read is what was written, ids and values keep their meaning, lookups and searches right |
| `restart_layout` | 1 particle, 1 node, 1 pseudo-particle, sizes 4 or 6 and 2 to 4 | finding: a link leads elsewhere |
| `timeline_ticks` | `TimeMax` doubled, steps of one tick | finding: a step of length zero |
| `timeline_empty` | a task may give all particles away | finding: the point is not the earliest |
| `tree_limit` | a limit that the number of forces can equal | finding: forces with a tree that stayed behind |
| `snapshot_resume` | the snapshot jobs of `files_crash` | finding: a whole snapshot cannot be started from |
| `cooled_nodes` | the time line with cooling and an output between two full steps | finding: nodes are moved with velocities from before a cooling |

Bounds.  Three tasks give pairs that share a task, third-party particles and the
non-power-of-two case (a partner that does not exist).  `MaxPart` 4 with a load
limit of 3 lets two tasks be full at once with particles of the others, the
situation the comment above `domain_findExchangeNumbers` describes; the other
placements fill the SPH array of one task with gas while another has gas for it
and nothing of its own.  A buffer of 2 makes transfers limited by the buffer, not
only by the room.  Pairs without a common task need four tasks; the theorems
below are about all numbers of tasks and all sizes.

The split scales `TOPNODEFACTOR` down: eight leaves are fewer than the code makes
for real particle numbers, but the leaves differ only in their content, and three
tasks already give an unequal recursion (1 and 2 cpus).  In the trees of that size
every shift leaves a task a leaf.  In larger ones `domain_shiftSplit` can take the last leaf of a
task whose single leaf carries the work of a pair (a dense cluster within one cell and one
escaped particle), since it asks only for less maximal work; and since a leaf may
be empty, a task may be left without particles in any case.  The top tree has leaves on
three levels, which takes nine particles at points that are close to each other at one corner, in
the middle, and at the far edge.  The arrays have room for one more particle than there are of gas, so that both ways to
make room happen; three exchanges (`MaxExchanges`) let a particle leave and come back; the theorems
have no such bound.

In the density loop tasks 0 and 1 have four particles each for task 2, one more
than its buffer of seven holds: the smallest case in which a level is cut.  One
particle goes to two tasks, so that a filling loop stops early and a second round
follows; a task repeats at most one particle (`MaxAgain`), and `MAXITER` 1
includes the end by `endrun`.  The force loops have the same geometry, and a walk that ends
on every task.  The mesh has eight cells with three, three and two
slabs (as FFTW deals them out), a task without particles, particles on both edges, and a region that one of
them has left.

In `files_crash` three tasks in groups of two and one are the smallest unequal
division, and two times let a set, its predecessor and a broken-off one exist
together (`MaxTime`).  Three jobs are the shortest history in which a job continues one
that was itself continued; one snapshot each and one crash while writing (`MaxSnapshots`, `MaxCrashes`).  A
buffer of two (`blockmaxlen`) cuts the three gas particles into pieces.  Of the tables one is
of the least size and one has more places than the others, so that a guess may lie beyond the end; planets have four particles,
so that a shell gets none, one or two; when bodies were combined, the files they came from are dropped, and a program that reads
is run once per file (`Unread`), a program that writes another file once (`Underived`).  The collisions are all
of four bodies with velocities of -2, 0, 2 in two arrangements, one that goes to and fro and one
in which a particle is tied to two remnants.

The tree runs have leaves of a half, a quarter and two eighths of the box, one of
them empty, and particles beside the borders of leaves and of the box, so that
with kicks of one cell they leave both; the particles of a task are in one leaf
or in two.  Two steps after the first are the shortest run in which a tree is
moved twice; `UpdateLimit` 7 stands for 3.5 forces between decompositions, so
that one step may move the tree and the next rebuild it.  The second start, three
particles at one place, runs out of nodes.  `tree_limit` has 3 forces instead.

The time line runs have 8 ticks instead of 2^28: four levels of steps are enough
for steps that shrink, grow, and are refused because they would leave the grid;
the theorems cover the rest.  `timeline_continued` wishes for steps of two ticks
or more, since steps of one tick collapse (finding below), and has one new
`TimeMax`: when `TimeMax` is increased twice, the outputs between the first new
`TimeMax` and the last synchronisation point of that run are not made up
(begrun.c:137), and `OutputsKept` does not hold.  12 is not a power of two times
the old one, so that the new time line ends beyond it.  Crashes and continued
runs are bounded by `MaxCrashes` and `MaxRestarts`; two continued runs let the
second start from files of the first or from older ones.

Fairness.  In `KickDrift` and `TimeLine` it is weak fairness of the steps of the main loop: the phases go on; a stop, a crash
and a restart may happen or not.  In `MC_Files` it is weak fairness, each for itself, of `RestartProgress`
(tasks inside `restart` go on), of `SnapshotsProgress` (tasks that read or write files go on) and of
`BoundNext` (a search computes on); whether a job writes, crashes or is started is open.  In `MC_Domain` it is
weak fairness of `Splitting`, a sequential function.
In `DomainExchange` and `MC_Accelerations` it is weak fairness of the next-state relation: some step is taken while one is
possible.  It is the weakest progress assumption (an MPI task that can proceed is
not suspended for ever, and a send whose receive is posted completes); it does not
favour any task.  `GravityTree` states no liveness and assumes no fairness.

Why the exchange ends: every round in which particles remain moves some.  A full
task cannot receive, and the loop would be stuck if every task with something to
receive were full of particles of others; the margin `REDUC_FAC` = 0.98 forbids
it, since no task's own final share fills its arrays.  With a factor of 1
three full tasks wait for each other for ever in
`exchange_three`.

Why the density loop ends: the filling loop stops `NTask` copies before the buffer
is full, so the list of one task is always shorter than a receive buffer and the
first group of a level fits (theorem `LevelsAdvance`).

Why a sweep of `domain_shiftSplit` cannot go on for ever: a leaf moved at equal work may be moved
back, and only the limit of the sweeps ends that (`SplitEnds`).

## Proofs

`DomainExchangeProofs`: for every number of tasks, every pair schedule that lists each pair `task < partner` once per round or more often, every
`MaxPart`, `MaxPartSph`, buffer size above zero, and placement.

* `SqueezeOnce`: the do-while of `domain_findExchangeNumbers` is idempotent after
  one pass; this justifies modelling it by one pass.
* `TypeCorrect`, `MemorySafe`, `NeverAborts`, `LeavesClean`: `TypeOK`,
  `MemoryBound`, `NoAbort` and `DoneIsHome` are invariants of `Spec`.
* `MessagesMatch`: `SameMessage` is an invariant of `Spec`.
* `Refines`: the exchange implements the safety part of `Redistribution`.

The inductive invariant `IInv` says of each task separately what its books mean
(`Sound`): the entries of `list_NumPart` and `list_N_gas` lie within the array
sizes (`Fits`); `toGoSph` never exceeds `toGo` (`Covers`); the task's own rows of
`toGo` are what its arrays hold for others, and its own fill levels are its
entries of the lists, both corrected by what the running leg still has to move
(`OwnBook`); a task that has left the loop has an empty `toGo` (`Settled`).
`MemoryBound` alone is not inductive, because a receive adds a count that was
decided earlier, while both partners were possibly full.  `SameMessage` needs a relation
between the books of different tasks (`Replicated`): there is one sequence of stages, a stage being a
place in the loop and the books before it, that every task works out at its own pace, and
of two partners one is ahead of the other only past directions in which the pair had nothing to
exchange (`InStep`).  So a send that meets a receive is at the same stage, since one of the two would
otherwise have passed a direction that was not empty.  Sums over the destinations stay opaque
in this argument: both sides compute the same ones.

`TimeLineProofs`: for every number of particles and tasks, every time line that is a
power of two (`StepsAssumption`: what is used of the powers of two), every list
of outputs and any number of crashes and continued runs.  `FiniteAssumption`: there are finitely many particles.

* `TypeCorrect`, `StepsOnGrid`: `TypeOK` and `OnGrid` are invariants.  The
  inductive invariant `GInv` adds that the files hold steps on the grid.
  The heart is `NewStepFits`: a step that is longer than the old one is
  taken only if it divides the rest of the time line, hence the present time
  (`RestMultiple`); a shorter one divides every multiple of the longer
  (`MultipleOfShorter`); and a step from a multiple of itself does not pass the
  end (`StepFits`), so the cut at the end never spoils the grid.
* `StepsNested`: follows from the grid; no run checks it separately.
* `TimeWithinSteps`, `SyncPointEarliest`: `NobodyLeftBehind` and `EarliestOfAll`
  are invariants if `MinPerTask = 1`, i.e. if no task ever is without particles;
  `timeline_empty` shows that the assumption is needed.  `NInv` adds that no
  output time lies behind, and the same for the files.  It says of the synchronisation point
  only that it does not pass the end of a step (`Ahead`), which stays true when the long-range
  step ends first.
* `VelocityAtMidpoint`: `KickedToMidpoint` is an invariant.  It uses the grid:
  halving the ticks moves the middle of a step to the middle of its half
  (`MidpointHalf`) because only steps of one tick begin at odd ticks.
* `ActiveParticlesCounted`: `AllActiveCounted` is an invariant, without `MinPerTask`.  `CInv` says
  what the sum of the counts is at the point itself, before and after the drift;
  `CountedTaskByTask` adds the tasks' counts by numbering the active particles task by task,
  a bijection instead of an induction over the tasks.
* `OutputsAlwaysKept`: `OutputsKept` is an invariant if `MinPerTask = 1` and only the first extension of
  `TimeMax` adds output times (`FirstExtensionOnly`).  A run goes on past `TimeMax` by up to a step; with
  `NewTimeMax = {12, 14}` TLC finds a second extension that brings outputs which lie before the
  place where the run already stopped, and they are lost.  `OInv` says that the files ascend and are counted
  (`FilesAscend`), that all outputs up to the next one are kept, or, after `TimeMax` grew, those up to where the
  continued run begins (`Outputs`), that the ticks follow `TimeMax` (`Span`), and that the restart files hold an
  image from which the same can be said of the run that reads them (`ImageKept`, `Restorable`).

`TimeLineProofs` goes on to `KickDrift`, for any number of gas particles, with and without the mesh.  These are theorems of
`KickDriftSpec`, which `timeline_continued` checks, so that those above are stated again with the long-range step.

* Only `Synchronise` is not a step of `TimeLine` (`OrdinaryStep`), because it may stop at the end of the
  long-range step; with it `StepsOnGridWithMesh`, `VelocityAtMidpointWithMesh`, `ActiveCountedWithMesh` and,
  with the same assumptions as above, `TimeWithinStepsWithMesh` and `OutputsKeptWithMesh` follow from the invariants above.
* `VelocitiesAgreeAlways`, `LongStepNotPassed`: `VelocitiesAgree` is an invariant, and the time never
  passes the end of the long-range step.  The inductive invariant `VInv` adds: the long-range step is on the
  same grid as the others (`Mesh`, `LongStepFits`), so that halving the ticks keeps its middle, too (`HalfLongGrid`);
  neither time nor the next point lies beyond its end (`LongAhead`); the predicted
  velocities are those of the present time (`Predicted`), and a factor moves them by just the time it
  covers (`FactorShifts`); a tree in use has the kicks of its particles (`Nodes`); on a full step
  everybody is kicked (`FullStep`), so that cooling, which changes `VelPred`
  and asks for the kick to carry it over, leaves nobody out (`Cooled`); and the restart files hold the same of what was written together (`Filed`).
  That a tree in use has missed at most one cooling is a second invariant on top, `WInv`: the nodes were told of
  all coolings but one (`Told`), and of all when the forces of the next full step have not been counted against the
  tree (`FreshTree`), also in the restart files (`FiledTold`).  It needs that a full step has more forces than a tree
  is used for (`ManyForces`): `UpdateLimit < Cardinality(Particle)`.

`DensityExportProofs`: for every number of tasks and particles, every buffer of more
than `NTask` particles and every pairing in which each two tasks meet in exactly one group
(`Tasks!XorAssumption`, which `task ^ ngrp` satisfies).

* `BuffersNeverOverflow`: `BuffersHold` is an invariant.  `IInv` says that no export
  list is as long as the buffer (`ListsFit`: before the last particle there was room
  for `NTask` copies), that what is counted in `nbuffer` is what was received
  (`Counted`), and that a level begins with empty buffers (`LevelBegins`).
* `LevelsAdvance`: the first group of a level fits.  This is the safety half of
  termination: the loop over the levels cannot stay at the same level.
* `EachExactlyOnce`, `TypeCorrect`: `EachOnce` and `TypeOK` are invariants; `StepsGivenBack`: the
  counts that end the rounds are right, what is left to do is what the tasks have not gone through.
* A sum of results is right although each task runs through the groups at its own pace.  The
  inductive invariant `JInv` adds to `IInv`: the tasks are in the same stage between two collective
  calls (`Together`); a list names a particle once (`Lists`); what a task booked in `nbuffer` for the
  groups behind it is what the lists of all tasks say, so that both partners of a pair and both
  passes of a level stop at the same group (`Booked`, `Stands`, `LaidOut`); the results that a
  particle still lacks are those of the tasks it was exported to in groups that are still to
  come (`Exact`, `Awaited`); and `ntotleft` is the sum of what all tasks have left
  (`Reckoned`; `TotalOfSum` adds sums over tasks by a bijection).

`AccelerationsProofs`: for every number of tasks and particles, buffers of more than `NTask`
particles (`LoopSizesAssumption`), whatever the particles touch (`SituationsAssumption`), and the pairing of
`XorAssumption`; through all the calls of a step one after the other.

* `LoopBuffersFit`: no export list outgrows the buffer; `LoopLevelsAdvance`: the first group of a
  level fits, so that the loop over the levels cannot stay; `LoopsTypeCorrect`: `LoopsTypeOK`.
* `LoopsAreExact`: `LoopsExact` is an invariant.  The argument is that of `EachExactlyOnce`, with
  these differences in `JInv`.  Where results overwrite requests, a request must still be there
  as long as its result is awaited (`Asked`), and the layout of the buffer speaks of both
  (`Booked`, `Stands`).  Gravity counts what is left from `NumForceUpdate`, which must be the number of active
  particles of all tasks (`Updates`); the force test marks particles in `Ti_endstep` and
  takes its marks back (`MarkedNow`, `Printed`); and the second of two calls of gravity uses the
  `OldAcc` that the first one left, so every particle must have it (`Known`).

The second half of `AccelerationsProofs` is about `ParticleMesh`, for every number of tasks, every mesh of more than five cells,
every cut (`SlabsAssumption`), all places of the particles (`CallsAssumption`), and the pairing of `XorAssumption`.

* `MeshAlwaysExact`: `MeshExact` is an invariant of `MeshSpec`.  Each task goes through the pairs at its own
  pace.  The inductive invariant `MeshIInv`, which TLC also checked on the instance of `accelerations_levels`, says what a task
  has after some of them: its slabs have the parts of the particles of just the tasks it
  `Met` (`DensityOf`), and its patch the right potential wherever the slab is held by one of those
  (`PotentialOf`).  After the last group these are all tasks (`MetAll`), because every two meet in exactly one.
* A meeting that is passed by without a message is right only if there was nothing to send
  (`PartsInPatch`: a particle reaches no slab outside its patch), and a message may carry cells the receiver
  has no use for: adding up a whole stretch leaves out slabs of others (`PartsAdded`, `AddUp`).
* Where the patch of a periodic mesh holds both ends of a task's range it is sent in two pieces.  `TwoRanges`: the slabs of one
  task in a patch lie in at most two stretches, one range and its image a mesh further; `PiecesWhole`: `Pieces` are exactly
  these stretches.  The code has room for two (`cont_sendmin[2]`).
* A particle within its region has its cell and the rim in the used half of the grid (`PlaceOnGrid`,
  `PlaceOnEnlarged`, which is integer division throughout), so that each of the four cells of a difference
  lies in the patch (`ReadingRight`); and a region that was made anew encloses its particles with some length (`Encloses`, `NewRegionOK`).
* `KernelRight`: kernel and regions go together, but for the repeated potential of grid 1 of an isolated system.

`RestartFilesProofs`: for every number of tasks, every `NumFilesWrittenInParallel` from one
to that number, and any number of crashes, broken-off sets and restarts by hand.

* `TypeCorrect`, `RunsWithOneSet`, `FilesInParallel`: `TypeOK`, `OneSet` and
  `ParallelBounded` are invariants; `LatestSetStays`: `NothingLost` holds of every step.
* `OneSet` says nothing about a job that reads or writes, and `NothingLost` nothing
  about where the latest set is.  The inductive invariant `Inv` adds:
  the tasks are in the same turn (`Control`);
  the broadcast carries the time of task 0, and a task in the barrier of the first
  turn has it (`Casting`);
  a task that has compared has the time of its file and of task 0 (`Reading`);
  while a set is written, its predecessor is whole, under its own name for the tasks
  before their turn and as `.bak` for the others (`Front`);
  and no `.bak` is younger than the latest set that every task has
  (`Sound`, `Secure`), so that a renaming overwrites only older sets.
* `GroupSize`, `Turns`: the group arithmetic.  The groups of
  `NTask \div NumFilesWrittenInParallel`, rounded up, have no more turns than
  `nprocgroup`, and `t \div nprocgroup` numbers the open files.

* `NodeLinksSurvive`, of `RestartLayout`, for all sizes and trees: all links
  but those of the finding below mean the same after a restart with other sizes.

`ParticleArraysProofs`: for all particles, keys and array sizes, and any number of
exchanges and decompositions.

* `TypeCorrect`, `BesideKept`, `OnceKept`: `TypeOK`, `Beside` and `Once` are invariants;
  `SortedAfter`: `SortedAfterwards` holds of every step.
* The three properties lean on each other, so `IInv` proves them together.  It adds:
  what waits to be sent is collected or not behind the search (`Search`), so that the
  collecting loop is never short of particles; what comes and goes is of the exchanged
  type and fits once the rest has left (`Fits`, which needs that the counts were agreed
  before the first particle moves); and which step of a call leaves what (`Staged`).
* Every move of elements is described by the place that the new content of a place comes
  from (`GasSource`, `OtherSource`, `RoomSource`).  The map is the same for `P`, `Key` and
  `SphP`, loses no place, and carries no other particle in front of the gas; the two ways to make room
  (`MakeRoom`) differ only in this map.
* In a permutation `P` alone is not a permutation of the particles, because one of them is in
  `Psource`.  The arrays with it put back (`WholeP`, `WholeSphP`) and the places the
  elements still have to go to (`Target`) change by the same swap, so a smaller
  key always has the smaller target (`Sorted`); at the end of a block every target is the place
  itself.

`DomainSplitProofs`: for every number of tasks, every top-level tree with enough leaves,
every limits of the arrays and of the sweeps, and whatever the code reads outside the leaves.

* `TypeCorrect`, `DivisionAlwaysFits`: `SplitTypeOK` and `DivisionFits` are invariants of
  `Split_Spec`; `NeverGetsWorse`, `ShiftsKeep`: `NeverWorse` and `ShiftsKeepDivision` hold
  of every step.
* The recursion of `domain_findSplit` is a stack of pending calls.  The inductive invariant
  says that the calls cover, in their order and without gap, exactly the tasks and leaves
  that are not yet `Dealt` out, and that no call has fewer leaves than tasks (`Chained`); that
  the running call never searches past the leaves its right half needs (`Searching`); and
  how far the work was added up (`Summing`, `Reached`).
* Only in the sweeps is it hard to see that a task keeps a leaf: nothing in `domain_shiftSplit` counts
  leaves.  A leaf goes over only if the larger of the two works does not grow; if the giver would be
  left without a leaf, the taker would have the work of both, which is more than either had
  as long as both have work.  So the sweeps keep that every task has work (`Balanced`) where the
  division had it, and the last leaf of a task stays.

`ProgramsProofs`: for three tables of any ascending densities and entropies with at least two rows and
columns, any tables of 1_MakePlanet, all values that are looked up, and every order of lookups (`EosAssumption`).

* `LookupsAreRight`: `LookupRight` is an invariant.  A loop ends where something that gets less with every
  turn cannot get less (`LoopEnds`), with what each turn keeps: the hunt leaves two places with the value between them
  (`UpBrackets`, `DownBrackets`), or an end of the table, and the bisection halves the way between them
  (`BisectEnds`).  `HuntFinds` says what comes out for every guess, and with which guess the program stops.
* The invariant `EosInv` adds only that the kept cell is none, or one of some table (`KeptCell`): with this the guess is
  not beyond the last place of the largest table, and a stop at a value within the table tells which one it was.
* What the lookup reads is the right place because the flat arrays hold row after row: `ImportRight` follows the
  blocks of the file (`Pieces`), and `ShellReads` the padded arrays of 1_MakePlanet.
* The induction is the least number of a set (`LeastNumber`), from the library's `WFMin`: its other
  theorems have the statement as a parameter, which no installed prover instantiates.

The same module, for every set of lists of particles with positive masses, every way a parameter file sets
`maxit`, `tol`, `minparts` and `idskip`, and all five searches (`RemnantsAssumption`):

* `RemnantsAlwaysKept`: `OnlyLastSeedTaken`, `InOrderOfMass` and `MaterialsAddUp` are invariants if
  `nMat <= 2`, also for a search that is begun when all are bound.  `calculate_material` returns up to `nMat + 1`, and the table adds up three materials: with
  `nMat = 3` the code prints "Material error" for the fourth and its mass is in no column.
* `RemnantsAlwaysRight`: with `EachCounts` also `NothingLeftBehind`, hence `RemnantsRight`.  `EachCounts` says that a
  single particle is a larger part of any remnant than `tol`.  It is needed: where a particle may be lighter than the
  tolerance, the passes end though the last one added a particle, and another may by then be tied to the remnant.
* The invariant `RInv`: the marks on the particles are those of the printed list, mark for mark while remnants are searched
  and under some renumbering once they are put in order, where the last seed is put back into
  one of the remnants when a search was begun with all bound (`Kept`, `Matches`, `Restored`, `AllBound`); a search went on only after a remnant
  with enough particles, and ended after one without (`Enough`); what the search keeps of the remnant it is at, mass, number
  and centre, is that of the marked particles, and the last pass either added a particle or left none that is
  tied (`Gathered`, `Settled`); a list that was put in order falls (`Sorted`).
  `RemnantsRight` alone is not inductive: nothing in it says during a pass what the marks are.
* A pass over the particles and a turn of the reordering are folds.  A fold is taken as a function of the
  set of places already done (`FoldExists`), and what every step keeps is followed from the empty set up with `CountUp`.

Only model-checked: `EveryRunEnds` of the time line, the liveness part of
`Implements`, `CallsEnd`, `EverythingEnds` and `SplitEnds`, since liveness under fairness and `ENABLED` are
beyond the prover; `GravityTree`, `TreeWalks`, `TreeExact` of the top-level tree and the properties of
snapshots, whose modules have recursive operators that the prover cannot handle; and `PlanetsWhole`, which follows
sums and files through a chain of programs, each of which would need its own induction over a least
counterexample, as the tables and the remnants have it.

## Findings

* A task that holds no particle takes part in the search for the next
  synchronisation point with the particle it held last (run.c:172).  The minimum
  may lie in the past, and the loop then stays there.  The split gives every task
  leaves, and a leaf may be empty.
* Continuing a run with a larger `TimeMax` makes steps of length zero out of steps
  of one tick (begrun.c:865); a particle whose longer step does not fit the grid
  keeps it (timestep.c:244) without passing the check for zero steps.
* After a restart with another `PartAllocFactor` or `TreeAllocFactor` the link of a
  particle to a pseudo particle is moved by `MaxNodes - old_MaxPart` instead of
  `MaxNodes - old_MaxNodes` (restart.c:221), so that the tree walk goes astray,
  unless the two old sizes are equal.
* A tree is moved while the number of forces since the last decomposition is below
  `TotNumPart * TreeDomainUpdateFrequency` (predict.c:83) and rebuilt when it is above
  (domain.c:76).  When the two are equal, as 0.1 times 1000 particles can be, neither
  happens, and forces are computed with a tree whose nodes have not followed their
  particles; the same run also violates `NeighboursFound`.
* A snapshot says by `flag_entropy_instead_u` in its header whether its third block is entropy,
  and `init` refuses a snapshot that says no (init.c:156).  No code sets the field: it is what `read_ic` found,
  and nothing when the job was continued from restart files.  Its snapshots are whole, and a
  run cannot be resumed from them although read_ic.c:26 provides for it.
* `artificialcooling` scales the velocities of particles only (artificialcooling.c:63).  A tree that was made for an
  output on the way to a full step stays in use behind the cooling, since the output set the count of forces to
  zero (run.c:229-231), and `move_particles` moves its nodes with velocities from before (predict.c:83-88), until the next tree.

Smaller observations that no run states: `CorrectEntropy` writes one entropy between two record lengths that
announce one per particle (save.c:64), and Gadget2 stops at its file (endrun 778; `OthersStart` says that it stops at no other);
`io.c` writes the HDF5 attribute
`NumPart_Total_HW` and `read_ic.c:781` reads `NumPart_Total_HighWord`; `find_files` prefers a stale
`name.0` to a new `name`; `allocate.c` multiplies `BufferSize` to bytes in an `int`, which overflows from
2048 MB; a set of snapshot files mixed from a crash and an earlier snapshot of the
same number with another `NumFilesPerSnapshot` is not told from a whole one; nothing on reading compares gas with
`MaxPartSph` (read_ic.c:467 compares the sum with `MaxPart`).

## Not modelled

* The physics in floating point: force laws, kernels, integrals, transforms, Green's functions,
  cooling rates, the hydrostatic iteration of `MakePlanet`, unit conversions, the bisection of a smoothing length (a free
  choice of who is repeated).  Rounding in the tree (tasks add moments in different orders) is listed as a hazard without property.
* Parameter parsing, allocation and start-up: sequential; their results are the CONSTANTS.
* Parts that are not compiled in: HDF5, `FLEXSTEPS`, `PSEUDOSYMMETRIC`, `MAKEGLASS`, and of
  snapshots format 1.  The mesh, the force test and the periodic walks are not compiled in either, but are
  modelled, because the code and its Makefile offer them.
* `setup_smoothinglengths`, the resubmission command, re-read parameters other than `TimeMax`, and the loop over leaves of
  `domain_countToGo` (the data abstraction of `hold`).
* Text output of the analysis programs, `PhaseDiagram`, the `ss` format, library sorting, and the
  momentum correction that README:144-145 announces (`move_body` has none).

`NTopleaves >= NTask` is assumed: the tree has at least 8 leaves and grows with `20 NTask`, but
the code does not check it.  `BunchSizeDomain > 0` is assumed (allocate.c makes
it even and from a buffer of megabytes).

## Plan

1. An abstract specification of the export loops (each particle is worked on by
   every task it touches, until it has enough neighbours) that `DensityExport` and
   `ForceLoops` implement.
2. The start-up of a run (`begrun`, `allocate`), with the widths of its integers.
