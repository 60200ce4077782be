------------------------------ MODULE GravityTree ------------------------------
(***************************************************************************)
(* The tree of gravity and neighbour search through the main loop          *)
(* (forcetree.c, ngb.c; predict.c, gravtree.c, density.c, hydra.c and      *)
(* timestep.c where they use it).                                          *)
(*                                                                         *)
(* Every task has the whole top-level tree and, below the leaves it owns,  *)
(* its particles; a leaf of another task holds a pseudo particle.  The     *)
(* tree is threaded (nextnode, sibling), so that a walk needs no stack.    *)
(* After a few force computations it is rebuilt; in between it moves with  *)
(* its particles: nodes drift, grow and are kicked, and the tasks exchange *)
(* what they know of their leaves.  A walk that reaches a pseudo particle  *)
(* exports its target, and the owner of the leaf walks its own tree.       *)
(*                                                                         *)
(* Data abstraction: one coordinate, so that a cell has two halves instead *)
(* of eight octants; a mass is written as the particles it counts, s and   *)
(* vs as mass times s and mass times vs; exact numbers instead of floating *)
(* point.  Between two collective calls the tasks do not meet, so that one *)
(* action is one function of the main loop on all tasks.                   *)
(***************************************************************************)
EXTENDS Integers, FiniteSets, SequencesExt

CONSTANTS
  NTask,          \* number of MPI tasks
  MaxPart,        \* All.MaxPart, and the number of particles
  Gas,            \* the SPH particles
  MaxNodes,       \* nodes a task has room for
  TopNodes,       \* the top-level tree: Daughter, Leaf, and how the curve runs
  BoxLen,         \* side length of the root unless a particle left it
  TinyLen,        \* below it the place of a particle in a node is drawn
  MAX_NGB,        \* room in the list of neighbours
  UpdateLimit,    \* twice All.TotNumPart * All.TreeDomainUpdateFrequency
  Divisions,      \* the values of DomainTask that a decomposition may find
  Kicks,          \* velocities that particles may get
  Smoothings,     \* the smoothing lengths that density may find
  Starts,         \* places of the particles to start from
  ActiveSets,     \* the sets of particles that may be active together
  MaxSteps        \* synchronisation points after the first

ASSUME SizesAssumption ==
  /\ NTask \in Nat \ {0} /\ MaxPart \in Nat \ {0} /\ MaxNodes \in Nat
  /\ UpdateLimit \in Nat /\ MaxSteps \in Nat /\ MAX_NGB \in Nat \ {0}
  /\ Gas \subseteq 0 .. MaxPart - 1

Task == 0 .. NTask - 1
Particle == 0 .. MaxPart - 1

(* TopNodes[no].Leaf for the nodes without daughters.                      *)
Leaf == {TopNodes[n].Leaf : n \in {m \in DOMAIN TopNodes : TopNodes[m].Daughter < 0}}

(* Indices of particles, nodes and pseudo particles are one range.         *)
Root == MaxPart
Links == 0 .. MaxPart + Cardinality(Leaf) - 1    \* of Nextnode
IsNode(no) == no >= MaxPart /\ no < MaxPart + MaxNodes
IsPseudo(no) == no >= MaxPart + MaxNodes
Pseudo(leaf) == MaxPart + MaxNodes + leaf
LeafOf(no) == no - (MaxPart + MaxNodes)

VARIABLES
  phase,                \* place in the main loop
  steps,                \* synchronisation points so far
  active,               \* particles with Ti_endstep = Ti_Current
  Pos, Vel,             \* of every particle
  Hsml,                 \* of every SPH particle
  DomainTask,           \* the task of each leaf
  home,                 \* the task that holds a particle
  NumForces,            \* All.NumForcesSinceLastDomainDecomp
  TreeReconstructFlag,
  tree                  \* tree[t]: Nodes, Nextnode, Father, DomainNodeIndex

vars == <<phase, steps, active, Pos, Vel, Hsml, DomainTask, home, NumForces,
          TreeReconstructFlag, tree>>

(* All particles of task t, in the order of its arrays.                    *)
Held(t) == SetToSortSeq({p \in Particle : home[p] = t}, <)

MyLeaves(t) == {l \in Leaf : DomainTask[l] = t}
LeavesOfOthers(t) == SetToSortSeq(Leaf \ MyLeaves(t), <)

-------------------------------------------------------------------------------
(* Cells.                                                                  *)

Absolute(x) == IF x < 0 THEN -x ELSE x
Greater(x, y) == IF x > y THEN x ELSE y

(* The half of a node in which x lies: "subnode" of the code.              *)
Half(x, node) == IF x > node.center THEN 1 ELSE 0

(* Mass, centre of mass and velocity of what a node represents.            *)
NoMoment == [mass |-> [p \in Particle |-> 0], s |-> 0, vs |-> 0]

Plus(a, b) == [mass |-> [p \in Particle |-> a.mass[p] + b.mass[p]],
               s |-> a.s + b.s, vs |-> a.vs + b.vs]

Minus(a, b) == [mass |-> [p \in Particle |-> a.mass[p] - b.mass[p]],
                s |-> a.s - b.s, vs |-> a.vs - b.vs]

MomentOf(p) == [mass |-> [q \in Particle |-> IF q = p THEN 1 ELSE 0],
                s |-> Pos[p], vs |-> Vel[p]]

NewNode(center, len) ==
  [center |-> center, len |-> len, suns |-> [j \in 0 .. 1 |-> -1], moment |-> NoMoment,
   hmax |-> 0, bitflags |-> {}, nextnode |-> -1, sibling |-> -1, father |-> -1]

(* A new node in half j of node.                                           *)
SonOf(node, j) ==
  NewNode(node.center + (2 * j - 1) * (node.len \div 4), node.len \div 2)

(* The cube around all particles, here of one of two lengths, from which   *)
(* domain_findExtent makes the root.                                       *)
RootCell ==
  NewNode(BoxLen \div 2,
          IF \A p \in Particle : Pos[p] > 0 /\ Pos[p] < BoxLen THEN BoxLen ELSE 2 * BoxLen)

-------------------------------------------------------------------------------
(* Construction.  A tree in construction is a record of Nodes,             *)
(* DomainNodeIndex, the index of the next free node, and whether there was *)
(* none left.                                                              *)

FirstNode(cell) == [Nodes |-> (Root :> cell), nfree |-> Root + 1,
                    DomainNodeIndex |-> [l \in Leaf |-> -1], full |-> FALSE]

(* Mutant: the number of nodes is not looked at.                           *)
AddNodeUnlimited(b, no, half, node) ==
  [b EXCEPT !.Nodes = [@ EXCEPT ![no].suns[half] = b.nfree] @@ (b.nfree :> node),
            !.nfree = @ + 1]

(* node becomes a son of no; endrun if it was the last one there is.       *)
AddNode(b, no, half, node) ==
  [b EXCEPT !.Nodes = [@ EXCEPT ![no].suns[half] = b.nfree] @@ (b.nfree :> node),
            !.nfree = @ + 1,
            !.full = b.nfree + 1 - MaxPart >= MaxNodes]

(* Which daughter of a top-level node covers a half: along the Peano curve *)
(* the halves may be in either order.                                      *)
Daughter(topnode, half) ==
  TopNodes[topnode].Daughter + IF TopNodes[topnode].backward THEN 1 - half ELSE half

RECURSIVE CreateEmptyNodes(_, _, _)
CreateEmptyNodes(b, no, topnode) ==
  LET Create(c, half) ==
        LET d == Daughter(topnode, half)
            e == AddNode(c, no, half, SonOf(c.Nodes[no], half))
        IN  IF c.full THEN c
            ELSE CreateEmptyNodes(
                   IF TopNodes[d].Daughter < 0
                   THEN [e EXCEPT !.DomainNodeIndex[TopNodes[d].Leaf] = c.nfree]
                   ELSE e, c.nfree, d)
  IN  IF TopNodes[topnode].Daughter < 0 THEN b ELSE Create(Create(b, 0), 1)

(* The leaf of the top-level tree a position belongs to.  A key puts the   *)
(* border of two halves into the upper one.                                *)
RECURSIVE LeafAt(_, _, _)
LeafAt(x, topnode, cell) ==
  LET half == IF x >= cell.center THEN 1 ELSE 0
  IN  IF TopNodes[topnode].Daughter < 0 THEN TopNodes[topnode].Leaf
      ELSE LeafAt(x, Daughter(topnode, half), SonOf(cell, half))

TopLeaf(x, cell) == LeafAt(x, 0, cell)

(* Particle i goes down from th.  In a node below TinyLen the old particle *)
(* gets a half by lot, and the draws that do not separate the two are left *)
(* out.                                                                    *)
RECURSIVE InsertParticle(_, _, _, _, _)
InsertParticle(b, i, th, parent, subnode) ==
  IF b.full THEN b
  ELSE IF th >= MaxPart
  THEN LET half == Half(Pos[i], b.Nodes[th])
           nn == b.Nodes[th].suns[half]
       IN  IF nn >= 0 THEN InsertParticle(b, i, nn, th, half)
                      ELSE [b EXCEPT !.Nodes[th].suns[half] = i]
  ELSE LET cell == SonOf(b.Nodes[parent], subnode)
           half == IF cell.len < TinyLen THEN 1 - Half(Pos[i], cell) ELSE Half(Pos[th], cell)
       IN  InsertParticle(AddNode(b, parent, subnode, [cell EXCEPT !.suns[half] = th]),
                          i, b.nfree, parent, subnode)

(* A pseudo particle goes down from the root to the centre of its leaf.    *)
(* (endrun 888 and 889, a pseudo particle or a particle on the way, would  *)
(* be an evaluation outside Nodes.)                                        *)
RECURSIVE InsertPseudo(_, _, _, _)
InsertPseudo(Nodes, leaf, x, th) ==
  LET half == Half(x, Nodes[th])
      nn == Nodes[th].suns[half]
  IN  IF nn >= 0 THEN InsertPseudo(Nodes, leaf, x, nn)
                 ELSE [Nodes EXCEPT ![th].suns[half] = Pseudo(leaf)]

-------------------------------------------------------------------------------
(* Threading and moments.  The state u of the recursion is Nodes, Nextnode *)
(* of particles and pseudo particles, Father, and the index visited last.  *)

Slot(no) == IF IsPseudo(no) THEN no - MaxNodes ELSE no

SetNext(u, no) ==
  CASE u.last < 0      -> u
    [] IsNode(u.last)  -> [u EXCEPT !.Nodes[u.last].nextnode = no]
    [] OTHER           -> [u EXCEPT !.Nextnode[Slot(u.last)] = no]

(* What a son adds to its father; a pseudo particle is without mass yet.   *)
MomentBelow(Nodes, p) ==
  IF IsNode(p) THEN Nodes[p].moment ELSE IF IsPseudo(p) THEN NoMoment ELSE MomentOf(p)

HmaxBelow(Nodes, p) ==
  IF IsNode(p) THEN Nodes[p].hmax ELSE IF p \in Gas THEN Hsml[p] ELSE 0

RECURSIVE UpdateNode(_, _, _, _)
UpdateNode(u, no, sib, father) ==
  LET v == [SetNext(u, no) EXCEPT !.last = no]
      sons == SelectSeq(<<u.Nodes[no].suns[0], u.Nodes[no].suns[1]>>, LAMBDA p : p >= 0)
      nextsib(i) == IF i < Len(sons) THEN sons[i + 1] ELSE sib
      w == FoldLeftDomain(LAMBDA a, i : UpdateNode(a, sons[i], nextsib(i), no), v, sons)
      below == w.Nodes
  IN  CASE IsPseudo(no)     -> v
        [] no < MaxPart     -> [v EXCEPT !.Father[no] = father]
        [] OTHER            ->
             [w EXCEPT !.Nodes[no] =
                [@ EXCEPT !.moment = FoldLeft(LAMBDA m, p : Plus(m, MomentBelow(below, p)),
                                              NoMoment, sons),
                          !.hmax = FoldLeft(LAMBDA h, p : Greater(h, HmaxBelow(below, p)),
                                            0, sons),
                          !.bitflags = {}, !.sibling = sib, !.father = father]]

(* force_treebuild_single on task t with its particles in the root cell.   *)
Constructed(t, cell) ==
  LET toplevel == CreateEmptyNodes(FirstNode(cell), Root, 0)
      filled == FoldLeft(LAMBDA b, i :
                           InsertParticle(b, i, b.DomainNodeIndex[TopLeaf(Pos[i], cell)], -1, 0),
                         toplevel, Held(t))
      center(l) == filled.Nodes[filled.DomainNodeIndex[l]].center
      nodes == FoldLeft(LAMBDA n, l : InsertPseudo(n, l, center(l), Root),
                        filled.Nodes, LeavesOfOthers(t))
      u == UpdateNode([Nodes |-> nodes, Nextnode |-> [i \in Links |-> -1],
                       Father |-> [p \in Particle |-> -1], last |-> -1], Root, -1, -1)
      v == SetNext(u, -1)
  IN  IF filled.full THEN [full |-> TRUE]
      ELSE [full |-> FALSE, Nodes |-> v.Nodes, Nextnode |-> v.Nextnode, Father |-> v.Father,
            DomainNodeIndex |-> filled.DomainNodeIndex]

-------------------------------------------------------------------------------
(* What the tasks tell each other of their leaves.  "trees" is the tree of *)
(* every task; what a task sends of a leaf is read before anybody changes  *)
(* a node above it.                                                        *)

LeafNode(trees, t, leaf) == trees[t].Nodes[trees[t].DomainNodeIndex[leaf]]
OwnersNode(trees, leaf) == LeafNode(trees, DomainTask[leaf], leaf)

(* A node and all nodes above it.                                          *)
RECURSIVE Upward(_, _)
Upward(Nodes, no) == IF no < 0 THEN {} ELSE {no} \cup Upward(Nodes, Nodes[no].father)

AddUp(Nodes, no, moment) ==
  LET path == Upward(Nodes, no)
  IN  [n \in DOMAIN Nodes |-> IF n \in path THEN [Nodes[n] EXCEPT !.moment = Plus(@, moment)]
                             ELSE Nodes[n]]

(* All trees after Change(Nodes, t, leaf) for the leaves of others.        *)
ForLeavesOfOthers(trees, Change(_, _, _)) ==
  [t \in Task |-> [trees[t] EXCEPT !.Nodes =
     FoldLeft(LAMBDA n, l : Change(n, t, l), @, LeavesOfOthers(t))]]

(* Exchange of DomainMoment, and force_treeupdate_pseudos.                 *)
UpdatePseudos(trees) ==
  LET Change(Nodes, t, l) ==
        LET no == trees[t].DomainNodeIndex[l]
        IN  AddUp(Nodes, no, Minus(OwnersNode(trees, l).moment, Nodes[no].moment))
  IN  ForLeavesOfOthers(trees, Change)

(* Bit 1: above or at a leaf; bit 2: above or at a leaf of this task.      *)
FlagLocalnodes(trees) ==
  [t \in Task |->
     LET Nodes == trees[t].Nodes
         above(leaves) == UNION {Upward(Nodes, trees[t].DomainNodeIndex[l]) : l \in leaves}
         bits(n) == {b \in 1 .. 2 : n \in above(IF b = 1 THEN Leaf ELSE MyLeaves(t))}
     IN  [trees[t] EXCEPT !.Nodes = [n \in DOMAIN Nodes |-> [Nodes[n] EXCEPT !.bitflags = bits(n)]]]]

(* Fathers grow until one is large enough.                                 *)
RECURSIVE Enlarge(_, _)
Enlarge(Nodes, no) ==
  LET p == Nodes[no].father
      dist == 2 * Absolute(Nodes[p].center - Nodes[no].center) + Nodes[no].len
  IN  IF p < 0 \/ dist <= Nodes[p].len THEN Nodes
      ELSE Enlarge([Nodes EXCEPT ![p].len = dist], p)

UpdateLenLocal(one, t) ==
  LET Around(Nodes, i) ==
        LET no == one.Father[i]
            dist == 2 * Absolute(Pos'[i] - Nodes[no].center)
        IN  IF dist <= Nodes[no].len THEN Nodes
            ELSE Enlarge([Nodes EXCEPT ![no].len = dist], no)
  IN  [one EXCEPT !.Nodes = FoldLeft(Around, @, Held(t))]

(* Mutant: the nodes above the leaf of another task do not grow with it.   *)
UpdateLenToptreeLeaf(trees) ==
  LET Change(Nodes, t, l) ==
        [Nodes EXCEPT ![trees[t].DomainNodeIndex[l]].len = Greater(@, OwnersNode(trees, l).len)]
  IN  ForLeavesOfOthers(trees, Change)

UpdateLenToptree(trees) ==
  LET Change(Nodes, t, l) ==
        LET no == trees[t].DomainNodeIndex[l]
        IN  Enlarge([Nodes EXCEPT ![no].len = Greater(@, OwnersNode(trees, l).len)], no)
  IN  ForLeavesOfOthers(trees, Change)

(* hmax goes up until a father has one as large.                           *)
RECURSIVE RaiseHmax(_, _)
RaiseHmax(Nodes, no) ==
  LET p == Nodes[no].father
  IN  IF p < 0 \/ Nodes[no].hmax <= Nodes[p].hmax THEN Nodes
      ELSE RaiseHmax([Nodes EXCEPT ![p].hmax = Nodes[no].hmax], p)

UpdateHmaxLocal(one, t) ==
  LET Around(Nodes, i) ==
        LET no == one.Father[i]
        IN  IF Hsml'[i] <= Nodes[no].hmax THEN Nodes
            ELSE RaiseHmax([Nodes EXCEPT ![no].hmax = Hsml'[i]], no)
  IN  [one EXCEPT !.Nodes = FoldLeft(Around, @, SelectSeq(Held(t), LAMBDA i : i \in Gas))]

UpdateHmaxToptree(trees) ==
  LET Change(Nodes, t, l) ==
        LET no == trees[t].DomainNodeIndex[l]
        IN  RaiseHmax([Nodes EXCEPT ![no].hmax = Greater(@, OwnersNode(trees, l).hmax)], no)
  IN  ForLeavesOfOthers(trees, Change)

-------------------------------------------------------------------------------
(* Walks.  A walk is where it is (no), what it counted of every particle,  *)
(* the neighbours it listed and the tasks it marked in Exportflag.  One    *)
(* that does not come to an end is cut after more turns than it can need.  *)

Follow(Step(_)) ==
  FoldLeft(LAMBDA w, k : IF w.no < 0 THEN w ELSE Step(w),
           [no |-> Root, count |-> [p \in Particle |-> 0], Ngblist |-> <<>>, export |-> {}],
           [k \in 1 .. 2 * MaxPart + MaxNodes + Cardinality(Leaf) |-> k])

(* One turn of ngb_treefind_variable, or with pairs of ngb_treefind_pairs, *)
(* for the range h around x.                                               *)
SearchTurn(t, x, h, pairs, w) ==
  LET no == w.no
      node == tree[t].Nodes[no]
      next == IF IsNode(no) THEN node.nextnode ELSE tree[t].Nextnode[Slot(no)]
      range(other) == IF pairs THEN Greater(h, other) ELSE h
      apart(y) == Absolute(y - x)
  IN  CASE IsPseudo(no) -> [w EXCEPT !.no = next, !.export = @ \cup {DomainTask[LeafOf(no)]}]
        [] no < MaxPart ->
             [w EXCEPT !.no = next,
                       !.Ngblist = IF no \in Gas /\ apart(Pos[no]) <= range(Hsml[no])
                                   THEN Append(@, no) ELSE @]
        [] OTHER ->
             [w EXCEPT !.no = IF 2 * apart(node.center) - node.len > 2 * range(node.hmax)
                              THEN node.sibling ELSE next]

(* The sums over the list, of those closer than the range; then the search *)
(* goes on from startnode.                                                 *)
SumsUp(x, h, pairs, w) ==
  LET near(p) == Absolute(Pos[p] - x) < IF pairs THEN Greater(h, Hsml[p]) ELSE h
      of(p) == Cardinality({n \in DOMAIN w.Ngblist : w.Ngblist[n] = p /\ near(p)})
  IN  [w EXCEPT !.Ngblist = <<>>, !.count = [p \in Particle |-> @[p] + of(p)]]

(* The list has room for MAX_NGB neighbours.                               *)
SearchStep(t, x, h, pairs, w) ==
  IF Len(w.Ngblist) = MAX_NGB THEN SumsUp(x, h, pairs, w) ELSE SearchTurn(t, x, h, pairs, w)

(* The walk of particle i at home and those of its exports: how often they *)
(* count each particle, provided that all end.                             *)
CountsOf(i, Walk(_, _)) ==
  LET first == Walk(home[i], 0)
      rest == [t \in first.export |-> Walk(t, 1)]
  IN  [ended |-> first.no < 0 /\ \A t \in first.export : rest[t].no < 0,
       of |-> [p \in Particle |->
                 first.count[p] + MapThenSumSet(LAMBDA t : rest[t].count[p], first.export)]]

(* density_evaluate with the length h.                                     *)
DensityEvaluate(i, h) ==
  LET Walk(t, mode) == SumsUp(Pos[i], h, FALSE, Follow(LAMBDA w : SearchStep(t, Pos[i], h, FALSE, w)))
  IN  CountsOf(i, Walk)

(* hydro_evaluate: who is in the range of either of the two.               *)
HydroEvaluate(i) ==
  LET h == Hsml[i]
      Walk(t, mode) == SumsUp(Pos[i], h, TRUE, Follow(LAMBDA w : SearchStep(t, Pos[i], h, TRUE, w)))
  IN  CountsOf(i, Walk)

-------------------------------------------------------------------------------
(* The main loop.  It begins at the first synchronisation point, with all  *)
(* particles active, a decomposition of which nothing else is known, and   *)
(* TreeReconstructFlag set by init.                                        *)

Less == 2 * NumForces < UpdateLimit
Reached == 2 * NumForces > UpdateLimit

(* The task of each particle when the leaves are divided by D.             *)
HomeFor(D) == [p \in Particle |-> D[TopLeaf(Pos[p], RootCell)]]

Init ==
  /\ phase = "decompose" /\ steps = 0 /\ active = Particle
  /\ Pos \in Starts /\ Vel = [p \in Particle |-> 0]
  /\ Hsml \in Smoothings
  /\ DomainTask \in Divisions /\ home = HomeFor(DomainTask)
  /\ NumForces = MaxPart /\ TreeReconstructFlag = TRUE
  /\ tree = [t \in Task |-> [full |-> FALSE]]

(* domain_Decomposition: if it is time, a new division of the leaves, and  *)
(* every particle goes to its task (DomainSplit, DomainExchange).          *)
Decompose ==
  /\ phase = "decompose" /\ phase' = "gravity"
  /\ \E D \in Divisions :
       DomainTask' = IF Reached THEN D ELSE DomainTask
  /\ home' = IF Reached THEN HomeFor(DomainTask') ELSE home
  /\ NumForces' = IF Reached THEN 0 ELSE NumForces
  /\ TreeReconstructFlag' = (Reached \/ TreeReconstructFlag)
  /\ UNCHANGED <<steps, active, Pos, Vel, Hsml, tree>>

(* gravity_tree: with force_treebuild if it has to be.                     *)
Gravity ==
  /\ phase = "gravity"
  /\ \E built \in {IF TreeReconstructFlag THEN [t \in Task |-> Constructed(t, RootCell)]
                                           ELSE tree} :
       LET full == \E t \in Task : built[t].full
       IN  /\ phase' = IF full THEN "endrun" ELSE "density"
           /\ tree' = IF TreeReconstructFlag /\ ~full
                      THEN FlagLocalnodes(UpdatePseudos(built)) ELSE built
  /\ TreeReconstructFlag' = FALSE
  /\ UNCHANGED <<steps, active, Pos, Vel, Hsml, DomainTask, home, NumForces>>

(* density, and force_update_hmax for all particles.                       *)
Density ==
  /\ phase = "density" /\ phase' = "kick"
  /\ \E h \in Smoothings : Hsml' = [p \in Gas |-> IF p \in active THEN h[p] ELSE Hsml[p]]
  /\ tree' = UpdateHmaxToptree([t \in Task |-> UpdateHmaxLocal(tree[t], t)])
  /\ UNCHANGED <<steps, active, Pos, Vel, DomainTask, home, NumForces, TreeReconstructFlag>>

(* Mutant: only the node right above the particle is kicked.               *)
KickFather(Nodes, no, moment) == [Nodes EXCEPT ![no].moment = Plus(@, moment)]

(* The kick of a particle is one of all nodes above it.                    *)
KickUp(Nodes, no, moment) == AddUp(Nodes, no, moment)

(* advance_and_find_timesteps: active particles are kicked, and their tree *)
(* unless NumForces says that it will be built anew.                       *)
Kick ==
  /\ phase = "kick" /\ steps < MaxSteps /\ phase' = "sync"
  /\ \E v \in [active -> Kicks] : Vel' = [p \in Particle |-> IF p \in active THEN v[p] ELSE Vel[p]]
  /\ tree' = IF ~Less THEN tree
             ELSE [t \in Task |-> [tree[t] EXCEPT !.Nodes =
                     FoldLeft(LAMBDA n, i : KickUp(n, tree[t].Father[i],
                                                   [NoMoment EXCEPT !.vs = Vel'[i] - Vel[i]]),
                              @, SelectSeq(Held(t), LAMBDA i : i \in active))]]
  /\ UNCHANGED <<steps, active, Pos, Hsml, DomainTask, home, NumForces, TreeReconstructFlag>>

(* Every node moves with its particles.                                    *)
Drifted(one) ==
  [one EXCEPT !.Nodes = [n \in DOMAIN @ |-> [@[n] EXCEPT !.moment.s = @ + one.Nodes[n].moment.vs]]]

(* find_next_sync_point_and_drift, with move_particles.  The drift changes *)
(* the lengths of all SPH particles; those of the active ones are found    *)
(* anew by density before anything looks at them, and stay here.           *)
Sync ==
  /\ phase = "sync" /\ phase' = "decompose"
  /\ steps' = steps + 1
  /\ active' \in ActiveSets
  /\ NumForces' = NumForces + Cardinality(active')
  /\ Pos' = [p \in Particle |-> Pos[p] + Vel[p]]
  /\ \E h \in Smoothings : Hsml' = [p \in Gas |-> IF p \in active' THEN Hsml[p] ELSE h[p]]
  /\ tree' = IF ~Less' THEN tree
             ELSE UpdatePseudos(UpdateLenToptree(
                    [t \in Task |-> UpdateLenLocal(Drifted(tree[t]), t)]))
  /\ UNCHANGED <<Vel, DomainTask, home, TreeReconstructFlag>>

Ended ==
  /\ phase = "endrun" \/ (phase = "kick" /\ steps = MaxSteps)
  /\ UNCHANGED vars

Next == Decompose \/ Gravity \/ Density \/ Kick \/ Sync \/ Ended

Spec == Init /\ [][Next]_vars

-------------------------------------------------------------------------------
(* Properties.                                                             *)

(* The tree is complete and of now.                                        *)
TreeInUse == phase \in {"density", "kick"}

(* Indices lead to what a task has: nodes have room, links of the thread   *)
(* to siblings, daughters and particles stay in their ranges, and every    *)
(* node hangs below one made before it.                                    *)
TypeOK ==
  /\ phase \in {"decompose", "gravity", "density", "kick", "sync", "endrun"}
  /\ steps \in 0 .. MaxSteps /\ active \subseteq Particle
  /\ Pos \in [Particle -> Int] /\ Vel \in [Particle -> Int] /\ Hsml \in [Gas -> Nat]
  /\ DomainTask \in [Leaf -> Task] /\ home \in [Particle -> Task]
  /\ NumForces \in Nat /\ TreeReconstructFlag \in BOOLEAN
  /\ TreeInUse => \A t \in Task :
       LET Nodes == tree[t].Nodes
           index == -1 .. MaxPart + MaxNodes + Cardinality(Leaf) - 1
       IN  /\ \A no \in DOMAIN Nodes :
                /\ IsNode(no)
                /\ {Nodes[no].nextnode, Nodes[no].sibling} \subseteq index
                /\ Nodes[no].father \in -1 .. no - 1
                /\ Nodes[no].len > 0 /\ Nodes[no].bitflags \subseteq {1, 2}
           /\ tree[t].Nextnode \in [Links -> index]
           /\ tree[t].DomainNodeIndex \in [Leaf -> DOMAIN Nodes]

(* The sums of density reach every SPH particle in the range once, and     *)
(* those of hydro_force every one in the range of either of the two,       *)
(* wherever the particles drifted and whoever holds them, and however      *)
(* often the list of neighbours is full (ngb_treefind_variable,            *)
(* ngb_treefind_pairs, force_update_hmax).                                 *)
NeighboursFound ==
  LET Exactly(f, near) == f.ended /\ \A p \in Particle : f.of[p] = IF p \in near THEN 1 ELSE 0
      closer(i, range(_)) == {p \in Gas : Absolute(Pos[p] - Pos[i]) < range(p)}
  IN  \A i \in active \cap Gas :
        /\ phase = "density" => \A h \in UNION {Range(s) : s \in Smoothings} :
             Exactly(DensityEvaluate(i, h), closer(i, LAMBDA p : h))
        /\ phase = "kick" =>
             Exactly(HydroEvaluate(i), closer(i, LAMBDA p : Greater(Hsml[i], Hsml[p])))

(* Particles that task t holds below its node no.                          *)
HeldBelow(t, no) ==
  {p \in Particle : home[p] = t /\ no \in Upward(tree[t].Nodes, tree[t].Father[p])}

(* All particles below it: also those that the owners hold in leaves below *)
(* or at it.                                                               *)
Below(t, no) ==
  LET leaves == {l \in Leaf \ MyLeaves(t) :
                   no \in Upward(tree[t].Nodes, tree[t].DomainNodeIndex[l])}
  IN  HeldBelow(t, no) \cup
      UNION {HeldBelow(DomainTask[l], tree[DomainTask[l]].DomainNodeIndex[l]) : l \in leaves}

(* "if domain-decomp and tree are not going to be reconstructed, update    *)
(* dynamically" (predict.c): whenever forces are computed, every node of   *)
(* every task has the mass, centre of mass and velocity of all particles   *)
(* below it.                                                               *)
MomentsAgree ==
  TreeInUse => \A t \in Task : \A no \in DOMAIN tree[t].Nodes :
    LET below == Below(t, no)
    IN  tree[t].Nodes[no].moment =
          [mass |-> [p \in Particle |-> IF p \in below THEN 1 ELSE 0],
           s |-> MapThenSumSet(LAMBDA p : Pos[p], below),
           vs |-> MapThenSumSet(LAMBDA p : Vel[p], below)]
===============================================================================
