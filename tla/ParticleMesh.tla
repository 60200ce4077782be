----------------------------- MODULE ParticleMesh -----------------------------
(***************************************************************************)
(* The long-range force and potential (longrange.c, potential.c, the four  *)
(* routines of pm_periodic.c and pm_nonperiodic.c, in builds with PMGRID). *)
(*                                                                         *)
(* Each task assigns its particles to a patch of the mesh that just covers *)
(* them; the mesh itself is cut into slabs, one range for each task; the   *)
(* patches are added to the slabs, the potential is worked out from the    *)
(* density by two Fourier transforms, and comes back in patches with a rim *)
(* of two cells for differences of four points.  A mesh is "box" (the      *)
(* periodic one), "coarse" (grid 0) or "high" (grid 1, around the          *)
(* particles of the high-resolution region).                               *)
(*                                                                         *)
(* Space has one coordinate, the one the slabs are cut by: rows of y and z *)
(* are copied whole.  A cell of density is the bag of what was assigned to *)
(* it, a cell of potential is its own number, and a force is named by the  *)
(* four cells whose potentials it subtracts.                               *)
(***************************************************************************)
EXTENDS Tasks, FiniteSetsExt, BagsExt, SequencesExt

CONSTANTS
  PMGRID, BoxSize,
  Slabs,             \* Slabs[n][t]: slabs of task t when a mesh has n
  first_slab_of_task,   \* the first of them
  Hold,              \* the particles of a task
  HighRes,           \* the particles of the types in PLACEHIGHRESREGION
  Calls              \* calls of long_range_force or compute_potential

Particle == UNION {Hold[t] : t \in Task}

SlabsAt(n, t) == first_slab_of_task[n][t] .. first_slab_of_task[n][t] + Slabs[n][t] - 1

(* The library cuts each mesh into ranges.  A task that has slabs at both  *)
(* ends of the periodic mesh has all of them.                              *)
ASSUME SlabsAssumption ==
  /\ NTask \in Nat \ {0} /\ PMGRID \in Nat /\ PMGRID > 5
  /\ \A n \in {PMGRID, 2 * PMGRID} :
       /\ \A t \in Task : first_slab_of_task[n][t] \in Nat /\ Slabs[n][t] \in Nat
       /\ \A s \in 0 .. n - 1 : \E t \in Task : s \in SlabsAt(n, t)
       /\ \A t, u \in Task : t # u => SlabsAt(n, t) \cap SlabsAt(n, u) = {}
       /\ \A t \in Task : SlabsAt(n, t) \subseteq 0 .. n - 1
  /\ \A t \in Task :
       LET mine == SlabsAt(PMGRID, t) IN
       mine \cap 0 .. 2 # {} /\ mine \cap PMGRID - 2 .. PMGRID - 1 # {} => mine = 0 .. PMGRID - 1

Apart(S, pos) == \E p, q \in S : pos[p] # pos[q]

(* Each particle is on one task; the particles a mesh is laid around are   *)
(* not all in one place.                                                   *)
ASSUME CallsAssumption ==
  /\ BoxSize \in Nat \ {0}
  /\ IsFiniteSet(Particle) /\ HighRes \subseteq Particle
  /\ \A t, u \in Task : t # u => Hold[t] \cap Hold[u] = {}
  /\ \A c \in Calls :
       /\ c.pos \in [Particle -> Nat] /\ c.potential \in BOOLEAN
       /\ c.todo \in {<<"box">>, <<"box", "high">>, <<"coarse">>, <<"coarse", "high">>}
       /\ c.region \in [coarse : [min : Int, max : Int], high : [min : Int, max : Int]]
       /\ \A m \in Range(c.todo) \ {"box"} :
            /\ c.region[m].min < c.region[m].max
            /\ m = "high" => Apart(HighRes, c.pos)
            /\ m = "coarse" =>
                 Apart(IF "high" \in Range(c.todo) THEN Particle \ HighRes ELSE Particle, c.pos)

VARIABLES
  Pos,
  build,             \* the meshes that are compiled in
  potential,         \* compute_potential, not long_range_force
  todo,              \* the meshes to be done, the present one first
  tries,             \* "first", "again" or "last"
  region,            \* All.Xmintot and All.Xmaxtot of "coarse" and "high"
  kernel,            \* the regions the Green's functions were made for
  mpc,               \* "extent", "density", "fft", "potential", "readout",
                     \* "returned", "over" or "endrun"
  mlevel,            \* level
  meshmin, meshmax,  \* the lists, the same on all tasks
  workspace, rhogrid,
  GravPM,            \* or Potential
  tree               \* "built", "freed" or "allocated"

call == <<Pos, build, potential>>

driver == <<todo, tries, region, kernel>>

patch == <<meshmin, meshmax>>

mesh_vars == <<call, driver, mpc, mlevel, patch, workspace, rhogrid, GravPM, tree>>

MeshAt(place) == \A t \in Task : mpc[t] = place

Mesh == Head(todo)

Size == IF Mesh = "box" THEN PMGRID ELSE 2 * PMGRID

Wrapped(slab) == (slab + Size) % Size

(* The table set up by pm_init_periodic and pm_init_nonperiodic from the    *)
(* slabs that the library gives each task.                                 *)
TaskOfSlab ==
  [n \in {PMGRID, 2 * PMGRID} |-> [s \in 0 .. n - 1 |-> CHOOSE t \in Task : s \in SlabsAt(n, t)]]

first_slab(t) == first_slab_of_task[Size][t]

slab_to_task(slab) == TaskOfSlab[Size][Wrapped(slab)]

(* What a transform left in the workspace, or a read beside the slabs.      *)
Undefined == -1
-------------------------------------------------------------------------------
(* The box enclosing the particles of a set; with a grid 1, grid 0 is laid *)
(* around the other particles alone.                                       *)
Enclosing(S) == [min |-> Min({Pos[p] : p \in S}), max |-> Max({Pos[p] : p \in S})]

NewRegion ==
  IF "high" \in build
  THEN [coarse |-> Enclosing(Particle \ HighRes), high |-> Enclosing(HighRes)]
  ELSE [region EXCEPT !.coarse = Enclosing(Particle)]

Extension(m) == region[m].max - region[m].min

(* Rcut[0] in hundredths: 4.5 times 1.25 cells of the box or of grid 0.    *)
Rcut ==
  IF "box" \in build THEN (563 * BoxSize) \div PMGRID
                           ELSE (1126 * Extension("coarse")) \div (2 * PMGRID - 10)

(* A cell of grid 1 that would be smaller than half of Rcut[0] is enlarged.*)
Enlarged == 2 * Extension("high") * 200 < Rcut * (2 * PMGRID - 10)

(* slab: the region starts two cells from the corner of the mesh, or at    *)
(* Rcut[0] from the corner of an enlarged grid 1.                          *)
SlabOf(x) ==
  CASE Mesh = "box" -> Min({(x * PMGRID) \div BoxSize, PMGRID - 1})
    [] Mesh = "high" /\ Enlarged ->
         ((100 * (x - region.high.min) + Rcut) * (Size - 2))
           \div (2 * (100 * Extension("high") + 2 * Rcut))
    [] OTHER ->
         (4001 * 2001 * Extension(Mesh) + (x - region[Mesh].min) * (Size - 10) * 2000000)
           \div (4002000 * Extension(Mesh))

Slab(p) == SlabOf(Pos[p])

(* Between All.Corner and All.UpperCorner.                                 *)
OnMesh(p) == Mesh = "box" \/ Slab(p) \in 0 .. Size \div 2 - 2

Outside(p) ==
  /\ Mesh # "box" /\ (Mesh = "high" => p \in HighRes)
  /\ Pos[p] < region[Mesh].min \/ Pos[p] > region[Mesh].max

lowest(t, S) == Min({Size} \cup {Slab(p) : p \in Hold[t] \cap S})

highest(t, S) == Max({0} \cup {Slab(p) : p \in Hold[t] \cap S})

(* Cloud in cell: a particle adds to its own cell and to the next one.     *)
Deposit(t) ==
  [o \in 0 .. meshmax'[t] - meshmin'[t] + 1 |->
     SetToBag({d \in {p \in Hold[t] : OnMesh(p)} \X {0, 1} :
                 Slab(d[1]) + d[2] - meshmin'[t] = o})]

Cleared(t) == [s \in 0 .. Slabs[Size][t] - 1 |-> EmptyBag]

(* All particles lie where the mesh can be used: patches are laid out and  *)
(* allocated, particles assigned, the slabs cleared.                       *)
LayOut ==
  /\ MeshAt("extent") /\ \A p \in Particle : ~Outside(p)
  /\ meshmin' = [t \in Task |-> lowest(t, {p \in Particle : OnMesh(p)})]
  /\ meshmax' = [t \in Task |-> highest(t, {p \in Particle : OnMesh(p)})]
  /\ workspace' = [t \in Task |-> Deposit(t)]
  /\ rhogrid' = [t \in Task |-> Cleared(t)]
  /\ tree' = EveryTask("freed")
  /\ mpc' = EveryTask("density") /\ mlevel' = EveryTask(0)
  /\ UNCHANGED <<call, driver, GravPM>>

BothForces == build = {"coarse", "high"} /\ Mesh = "high" /\ ~potential

OwnPotential == build = {"coarse", "high"} /\ Mesh = "high" /\ potential

(* A particle has left the region (the routine returns 1): the regions and *)
(* kernels are made anew, once.  For grid 1 of an isolated system both     *)
(* forces are worked out again, but only its own potential, and that with  *)
(* the old kernel.                                                         *)
TryAgain ==
  /\ MeshAt("extent") /\ \E p \in Particle : Outside(p)
  /\ IF tries # "first"
     THEN mpc' = EveryTask("endrun") /\ UNCHANGED <<driver, GravPM>>
     ELSE /\ region' = NewRegion
          /\ kernel' = IF OwnPotential THEN kernel ELSE NewRegion
          /\ tries' = IF BothForces THEN "last" ELSE "again"
          /\ todo' = IF BothForces THEN <<"coarse", "high">> ELSE todo
          /\ GravPM' = IF BothForces THEN [p \in Particle |-> EmptyBag] ELSE GravPM
          /\ UNCHANGED mpc
  /\ UNCHANGED <<call, mlevel, patch, workspace, rhogrid, tree>>
-------------------------------------------------------------------------------
(* The slabs of the patch of task u that task t works on: in the patch of  *)
(* the density (rim 0) or in that of the potential (rim 2).                *)
SlabsOf(t, u, rim) ==
  {s \in meshmin[u] - rim .. meshmax[u] + 1 + rim : slab_to_task(s) = t}

Rim(stage) == IF stage = "density" THEN 0 ELSE 2

Through(S) == IF S = {} THEN {} ELSE Min(S) .. Max(S)

MeshPartner(t) == IF mlevel[t] = 0 THEN t ELSE PairedBy[<<t, mlevel[t]>>]

NoContribution(t, stage) ==
  MeshPartner(t) < NTask => /\ SlabsOf(t, MeshPartner(t), Rim(stage)) = {}
                        /\ SlabsOf(MeshPartner(t), t, Rim(stage)) = {}

Busy(t, stage) == mpc[t] = stage /\ mlevel[t] < Groups

(* Two tasks have come to the same MPI_Sendrecv, or a task to its copy.    *)
Meets(t, u, stage) ==
  /\ t <= u /\ Busy(t, stage) /\ Busy(u, stage)
  /\ MeshPartner(t) = u /\ MeshPartner(u) = t
  /\ ~NoContribution(t, stage)

Advance(T) == mlevel' = [t \in Task |-> mlevel[t] + IF t \in T THEN 1 ELSE 0]

(* What task u sends from its patch, and where it goes in the slabs of t.  *)
(* Everything between the first and the last slab is sent, so that the     *)
(* slabs of others have to be left out.                                    *)
WithDensity(t, u) ==
  LET S == SlabsOf(t, u, 0)
      sent(x) == workspace[u][x - meshmin[u]]
      into(s) == {x \in Through(S) : Wrapped(x) - first_slab(t) = s}
  IN  [s \in DOMAIN rhogrid[t] |->
         MapThenFoldSet(LAMBDA a, b : a (+) b, rhogrid[t][s], sent, LAMBDA X : CHOOSE x \in X : TRUE,
                        into(s))]

AddDensity(t, u) ==
  /\ Meets(t, u, "density")
  /\ rhogrid' = [rhogrid EXCEPT ![t] = WithDensity(t, u), ![u] = WithDensity(u, t)]
  /\ Advance({t, u})
  /\ UNCHANGED <<call, driver, mpc, patch, workspace, GravPM, tree>>

PassBy(t) ==
  /\ \E stage \in {"density", "potential"} : Busy(t, stage) /\ NoContribution(t, stage)
  /\ Advance({t})
  /\ UNCHANGED <<call, driver, mpc, patch, workspace, rhogrid, GravPM, tree>>

LevelsDone(t) ==
  /\ mpc[t] \in {"density", "potential"} /\ mlevel[t] = Groups
  /\ mpc' = [mpc EXCEPT ![t] = IF @ = "density" THEN "fft" ELSE "readout"]
  /\ UNCHANGED <<call, driver, mlevel, patch, workspace, rhogrid, GravPM, tree>>

(* endrun if a patch with its rim does not lie in the used half of a mesh. *)
RimOutside(min, max) == Mesh # "box" /\ (min < 2 \/ max > Size \div 2 - 3)

(* The transforms, which use the workspace, turn the density into the      *)
(* potential.  A patch of grid 1 is now that of the particles it is for.   *)
Transform ==
  /\ MeshAt("fft")
  /\ meshmin' = IF Mesh = "high" THEN [t \in Task |-> lowest(t, {p \in HighRes : OnMesh(p)})]
                                 ELSE meshmin
  /\ meshmax' = IF Mesh = "high" THEN [t \in Task |-> highest(t, {p \in HighRes : OnMesh(p)})]
                                 ELSE meshmax
  /\ rhogrid' = [t \in Task |-> [s \in DOMAIN rhogrid[t] |-> first_slab(t) + s]]
  /\ workspace' = [t \in Task |-> [o \in 0 .. meshmax'[t] - meshmin'[t] + 5 |-> Undefined]]
  /\ mlevel' = EveryTask(0)
  /\ mpc' = EveryTask(IF \E t \in Task : RimOutside(meshmin'[t], meshmax'[t])
                      THEN "endrun" ELSE "potential")
  /\ UNCHANGED <<call, driver, GravPM, tree>>
-------------------------------------------------------------------------------
Gaps(S) == {x \in Through(S) \ S : x - 1 \in S}

(* Mutant: the two ends are sent with all that lies between them.          *)
PiecesJoined(S) == Through(S)

(* A patch may hold both ends of a task's range: it is sent in two pieces, *)
(* up to the gap and behind it.                                            *)
Pieces(S) ==
  IF Gaps(S) = {} THEN Through(S)
  ELSE Min(S) .. Max(Gaps(S)) - 1 \cup Min({x \in S : x > Max(Gaps(S))}) .. Max(S)

(* Mutant: only the sender of a range with a gap sends twice.              *)
ncontOwn(t, u) == 1 + Cardinality(Gaps(SlabsOf(t, u, 2)))

(* The number of messages to be exchanged with a partner.                  *)
ncont(t, u) ==
  IF Gaps(SlabsOf(t, u, 2)) # {} THEN 1 + Cardinality(Gaps(SlabsOf(t, u, 2)))
  ELSE IF Gaps(SlabsOf(u, t, 2)) # {} THEN 2 ELSE 1

Held(t, x) ==
  LET s == Wrapped(x) - first_slab(t) IN IF s \in DOMAIN rhogrid[t] THEN rhogrid[t][s] ELSE Undefined

(* The patch of t with what u has of it.                                   *)
Copied(t, u) ==
  LET sent == {x - (meshmin[t] - 2) : x \in Pieces(SlabsOf(u, t, 2))}
  IN  [o \in DOMAIN workspace[t] |->
         IF o \in sent THEN Held(u, o + meshmin[t] - 2) ELSE workspace[t][o]]

CopyPotential(t, u) ==
  /\ Meets(t, u, "potential") /\ ncont(t, u) = ncont(u, t)
  /\ workspace' = [workspace EXCEPT ![t] = Copied(t, u), ![u] = Copied(u, t)]
  /\ Advance({t, u})
  /\ UNCHANGED <<call, driver, mpc, patch, rhogrid, GravPM, tree>>

(* forcegrid: the four cells of a difference, or the cell itself.          *)
Reading(t, o) ==
  IF potential THEN <<workspace[t][o + 2]>>
  ELSE <<workspace[t][o + 1], workspace[t][o + 3], workspace[t][o], workspace[t][o + 4]>>

ReadFor(t, p) ==
  SetToBag({[mesh |-> Mesh, of |-> [side \in {0, 1} |-> Reading(t, Slab(p) + side - meshmin[t])]]})

(* Interpolation to the particles.  The force of the box is assigned, all  *)
(* else is added.                                                          *)
ReadOut(t) ==
  /\ mpc[t] = "readout"
  /\ GravPM' = [p \in Particle |->
       IF p \notin Hold[t] \/ (Mesh = "high" /\ p \notin HighRes) THEN GravPM[p]
       ELSE IF Mesh = "box" /\ ~potential THEN ReadFor(t, p)
       ELSE GravPM[p] (+) ReadFor(t, p)]
  /\ tree' = [tree EXCEPT ![t] = "allocated"]
  /\ mpc' = [mpc EXCEPT ![t] = "returned"]
  /\ UNCHANGED <<call, driver, mlevel, patch, workspace, rhogrid>>

(* The next routine, which begins with a collective call.                  *)
NextMesh ==
  /\ MeshAt("returned")
  /\ mpc' = EveryTask(IF Len(todo) > 1 THEN "extent" ELSE "over")
  /\ todo' = IF Len(todo) > 1 THEN Tail(todo) ELSE todo
  /\ tries' = IF tries = "last" THEN "last" ELSE "first"
  /\ UNCHANGED <<call, region, kernel, mlevel, patch, workspace, rhogrid, GravPM, tree>>
-------------------------------------------------------------------------------
(* The four routines, stage by stage.                                      *)
InForceBox == Mesh = "box" /\ ~potential
InPotentialBox == Mesh = "box" /\ potential
InForceGrid == Mesh # "box" /\ ~potential
InPotentialGrid == Mesh # "box" /\ potential

ForceBoxPatch == InForceBox /\ LayOut
ForceBoxDensity(t, u) == InForceBox /\ AddDensity(t, u)
ForceBoxTransform == InForceBox /\ Transform
ForceBoxPotential(t, u) == InForceBox /\ CopyPotential(t, u)
ForceBoxReadOut(t) == InForceBox /\ ReadOut(t)

PotentialBoxPatch == InPotentialBox /\ LayOut
PotentialBoxDensity(t, u) == InPotentialBox /\ AddDensity(t, u)
PotentialBoxTransform == InPotentialBox /\ Transform
PotentialBoxCopy(t, u) == InPotentialBox /\ CopyPotential(t, u)
PotentialBoxReadOut(t) == InPotentialBox /\ ReadOut(t)

ForceGridPatch == InForceGrid /\ LayOut
ForceGridDensity(t, u) == InForceGrid /\ AddDensity(t, u)
ForceGridTransform == InForceGrid /\ Transform
ForceGridPotential(t, u) == InForceGrid /\ CopyPotential(t, u)
ForceGridReadOut(t) == InForceGrid /\ ReadOut(t)

PotentialGridPatch == InPotentialGrid /\ LayOut
PotentialGridDensity(t, u) == InPotentialGrid /\ AddDensity(t, u)
PotentialGridTransform == InPotentialGrid /\ Transform
PotentialGridCopy(t, u) == InPotentialGrid /\ CopyPotential(t, u)
PotentialGridReadOut(t) == InPotentialGrid /\ ReadOut(t)

MeshInit ==
  /\ \E c \in Calls : /\ Pos = c.pos /\ build = ToSet(c.todo) /\ potential = c.potential
                      /\ todo = c.todo /\ region = c.region /\ kernel = c.region
  /\ tries = "first"
  /\ mpc = EveryTask("extent") /\ mlevel = EveryTask(0)
  /\ meshmin = EveryTask(0) /\ meshmax = EveryTask(0)
  /\ workspace = EveryTask(<<>>) /\ rhogrid = EveryTask(<<>>)
  /\ GravPM = [p \in Particle |-> EmptyBag]
  /\ tree = EveryTask("built")

MeshNext ==
  \/ ForceBoxPatch \/ ForceBoxTransform \/ PotentialBoxPatch \/ PotentialBoxTransform
  \/ ForceGridPatch \/ ForceGridTransform \/ PotentialGridPatch \/ PotentialGridTransform
  \/ TryAgain \/ NextMesh
  \/ \E t \in Task :
       \/ PassBy(t) \/ LevelsDone(t)
       \/ ForceBoxReadOut(t) \/ PotentialBoxReadOut(t)
       \/ ForceGridReadOut(t) \/ PotentialGridReadOut(t)
       \/ \E u \in Task :
            \/ ForceBoxDensity(t, u) \/ PotentialBoxDensity(t, u)
            \/ ForceGridDensity(t, u) \/ PotentialGridDensity(t, u)
            \/ ForceBoxPotential(t, u) \/ PotentialBoxCopy(t, u)
            \/ ForceGridPotential(t, u) \/ PotentialGridCopy(t, u)

MeshSpec == MeshInit /\ [][MeshNext]_mesh_vars
-------------------------------------------------------------------------------
MeshTypeOK ==
  /\ build \subseteq {"box", "coarse", "high"} /\ potential \in BOOLEAN
  /\ ToSet(todo) \subseteq build /\ tries \in {"first", "again", "last"}
  /\ \A t \in Task :
       /\ mpc[t] \in {"extent", "density", "fft", "potential", "readout", "returned", "over",
                      "endrun"}
       /\ mlevel[t] \in 0 .. Groups
       /\ tree[t] \in {"built", "freed", "allocated"}
       /\ meshmin[t] \in 0 .. 2 * PMGRID /\ meshmax[t] \in 0 .. 2 * PMGRID

(* Before the transform every particle of every task on the mesh has added *)
(* both its parts, once, to the slab of its cell and to that of the next:  *)
(* across the ends of a periodic box, and whoever holds the slabs.         *)
DensityComplete ==
  MeshAt("fft") =>
    \A t \in Task : \A s \in DOMAIN rhogrid[t] :
      rhogrid[t][s] =
        SetToBag({d \in {p \in Particle : OnMesh(p)} \X {0, 1} :
                    Wrapped(Slab(d[1]) + d[2]) = first_slab(t) + s})

(* The cells around a particle's own and the next, on a mesh.              *)
Around(p, side) ==
  LET cell(o) == Wrapped(Slab(p) + side + o)
  IN  IF potential THEN <<cell(0)>> ELSE <<cell(-1), cell(1), cell(-2), cell(2)>>

(* After a mesh every particle has the readings of that mesh that its      *)
(* place demands, once, and one reading from each mesh it had before.      *)
ForcesFromMesh ==
  MeshAt("returned") =>
    \A p \in Particle :
      /\ \/ Mesh = "high" /\ p \notin HighRes
         \/ BagIn([mesh |-> Mesh, of |-> [side \in {0, 1} |-> Around(p, side)]], GravPM[p])
      /\ {r.mesh : r \in BagToSet(GravPM[p])} =
           {m \in build : m # "high" \/ (Mesh = "high" /\ p \in HighRes)}
      /\ \A r \in BagToSet(GravPM[p]) :
           /\ GravPM[p][r] = 1
           /\ \A q \in BagToSet(GravPM[p]) : q.mesh = r.mesh => q = r

(* A force of grid 1 comes from Green's functions for the present regions. *)
(* (compute_potential goes on with the old ones when a particle has left   *)
(* that grid of an isolated system, potential.c:293.)                      *)
KernelFits ==
  MeshAt("potential") /\ Mesh = "high" /\ ~(OwnPotential /\ tries = "again") => kernel = region

MeshExact == DensityComplete /\ ForcesFromMesh /\ KernelFits
===============================================================================
