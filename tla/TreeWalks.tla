------------------------------- MODULE TreeWalks -------------------------------
(***************************************************************************)
(* The walks of gravity (forcetree.c): forces and potentials, with or      *)
(* without a mesh for the long range, and the correction for the periodic  *)
(* images.  Each walks the tree of the target's task (mode 0), marks the   *)
(* tasks whose leaves it had to open, and is repeated there (mode 1).      *)
(*                                                                         *)
(* The repository is built without PMGRID and PERIODIC: its walks are      *)
(* force_treeevaluate and force_treeevaluate_potential.  The others are in *)
(* the code, for the flags of the Makefile.                                *)
(*                                                                         *)
(* What a node adds to a force is abstracted to whose mass it counts;      *)
(* distances to centres of mass are rounded down.                          *)
(***************************************************************************)
EXTENDS GravityTree

CONSTANTS
  Criteria,   \* opening criteria in use: with All.ErrTolTheta, or with
              \* All.ErrTolForceAcc * OldAcc, as numerator and denominator
  BoxSize,    \* All.BoxSize, with PERIODIC
  Rcut        \* All.Rcut[0], with PMGRID

(* NEAREST for a distance of x / m in a box; no box has size 0.            *)
Nearest(x, m, box) ==
  CASE box > 0 /\ 2 * x > box * m  -> x - box * m
    [] box > 0 /\ 2 * x < -box * m -> x + box * m
    [] OTHER                       -> x

MassOf(node) == MapThenSumSet(LAMBDA p : node.moment.mass[p], Particle)

(* From x to the centre of mass, which is the centre of an empty node.     *)
Distance(node, x, box) ==
  LET m == MassOf(node)
  IN  IF m = 0 THEN Absolute(Nearest(node.center - x, 1, box))
               ELSE Absolute(Nearest(node.moment.s - m * x, m, box)) \div m

(* The opening criterion of Barnes and Hut, and the relative one, which    *)
(* also asks whether the target lies in the cell or close to it.           *)
Opens(node, x, c, box) ==
  LET r == Distance(node, x, box)
  IN  IF c.theta THEN node.len * c.den > r * c.num
      ELSE \/ MassOf(node) * node.len ^ 2 * c.den > r ^ 4 * c.num
           \/ 5 * Absolute(node.center - x) < 3 * node.len

(* Mutant: what the home of the target counted is counted again.           *)
CountsAlways(node, mode) == TRUE

(* May the mass of a node that is not opened be added?  The home of the    *)
(* target has counted the nodes above and at the leaves.                   *)
Counts(node, mode) == mode = 0 \/ 1 \notin node.bitflags

(* Above the leaves of other tasks only, where the home has been.          *)
Foreign(node, mode) == mode = 1 /\ node.bitflags = {1}

(* One turn of a walk that passes some nodes by and opens others.          *)
Turn(t, mode, w, passes, opens) ==
  LET no == w.no
      node == tree[t].Nodes[no]
      next == IF IsNode(no) THEN node.nextnode ELSE tree[t].Nextnode[Slot(no)]
      with(mass) == [p \in Particle |-> w.count[p] + mass[p]]
  IN  CASE IsPseudo(no) ->
             [w EXCEPT !.no = next,
                       !.export = @ \cup IF mode = 0 THEN {DomainTask[LeafOf(no)]} ELSE {}]
        [] no < MaxPart -> [w EXCEPT !.no = next, !.count = with(MomentOf(no).mass)]
        [] passes -> [w EXCEPT !.no = node.sibling]
        [] opens -> [w EXCEPT !.no = next]
        [] OTHER -> [w EXCEPT !.no = node.sibling,
                              !.count = IF Counts(node, mode) THEN with(node.moment.mass) ELSE @]

NodeAt(t, w) == tree[t].Nodes[w.no]

(* force_treeevaluate for a target at x, and with a box for PERIODIC.      *)
GravityStep(t, x, mode, c, box, w) ==
  Turn(t, mode, w, IsNode(w.no) /\ Foreign(NodeAt(t, w), mode),
       IsNode(w.no) /\ Opens(NodeAt(t, w), x, c, box))

(* force_treeevaluate_potential walks alike.                               *)
PotentialStep(t, x, mode, c, box, w) == GravityStep(t, x, mode, c, box, w)

(* With a mesh, nothing outside the cut is needed.                         *)
OutOfReach(node, x) == 2 * Absolute(Nearest(node.center - x, 1, BoxSize)) > 2 * Rcut + node.len

(* force_treeevaluate_shortrange: nodes whose centre of mass is within the *)
(* cut are not discarded.                                                  *)
ShortRangeStep(t, x, mode, c, w) ==
  LET passes(node) == \/ Foreign(node, mode)
                      \/ Distance(node, x, BoxSize) > Rcut /\ OutOfReach(node, x)
  IN  Turn(t, mode, w, IsNode(w.no) /\ passes(NodeAt(t, w)),
           IsNode(w.no) /\ Opens(NodeAt(t, w), x, c, BoxSize))

(* force_treeevaluate_potential_shortrange discards without asking that.   *)
ShortRangePotentialStep(t, x, mode, c, w) ==
  LET passes(node) == Foreign(node, mode) \/ OutOfReach(node, x)
  IN  Turn(t, mode, w, IsNode(w.no) /\ passes(NodeAt(t, w)),
           IsNode(w.no) /\ Opens(NodeAt(t, w), x, c, BoxSize))

(* Mutant: the length of the node is not looked at.                        *)
MayStraddleCenter(node, x) == 2 * Absolute(Nearest(node.center - x, 1, BoxSize)) > BoxSize

(* May parts of the node have their nearest image on different sides?      *)
MayStraddle(node, x) == 2 * Absolute(Nearest(node.center - x, 1, BoxSize)) > BoxSize - node.len

(* "check if we can avoid opening the cell": of those that should be       *)
(* opened, the ones that must be.                                          *)
Refines(node, x) == MayStraddle(node, x) \/ 5 * node.len > BoxSize

(* force_treeevaluate_ewald_correction, which goes through the nodes of    *)
(* other tasks.                                                            *)
EwaldStep(t, x, mode, c, w) ==
  Turn(t, mode, w, FALSE,
       IsNode(w.no) /\ Opens(NodeAt(t, w), x, c, BoxSize) /\ Refines(NodeAt(t, w), x))

Attraction(i, c) ==
  LET Walk(t, mode) == Follow(LAMBDA w : GravityStep(t, Pos[i], mode, c, 0, w))
  IN  CountsOf(i, Walk)

Potential(i, c) ==
  LET Walk(t, mode) == Follow(LAMBDA w : PotentialStep(t, Pos[i], mode, c, BoxSize, w))
  IN  CountsOf(i, Walk)

ShortRange(i, c) ==
  LET Walk(t, mode) == Follow(LAMBDA w : ShortRangeStep(t, Pos[i], mode, c, w))
  IN  CountsOf(i, Walk)

ShortRangePotential(i, c) ==
  LET Walk(t, mode) == Follow(LAMBDA w : ShortRangePotentialStep(t, Pos[i], mode, c, w))
  IN  CountsOf(i, Walk)

(* The gravity walk and that of the correction mark their tasks together,  *)
(* and an exported target makes both.                                      *)
Correction(i, c) ==
  LET Walk(t, mode) ==
        LET w == Follow(LAMBDA v : EwaldStep(t, Pos[i], mode, c, v))
            g == Follow(LAMBDA v : GravityStep(t, Pos[i], mode, c, BoxSize, v))
        IN  [w EXCEPT !.export = @ \cup g.export]
  IN  CountsOf(i, Walk)

-------------------------------------------------------------------------------
(* Every force and potential counts every particle once: the walk at home  *)
(* uses a node or opens it down to a leaf of another task, which adds what *)
(* it holds and nothing of its upper nodes; with a mesh, every particle    *)
(* within the cut, and none twice (force_treeevaluate and its variants,    *)
(* gravity_tree).                                                          *)
AttractedOnce ==
  LET EachOnce(a) == a.ended /\ \A p \in Particle : a.of[p] = 1
      near(i) == {p \in Particle : Absolute(Nearest(Pos[p] - Pos[i], 1, BoxSize)) <= Rcut}
      NearOnce(i, a) == a.ended /\ \A p \in Particle : a.of[p] \in {IF p \in near(i) THEN 1 ELSE 0, 1}
  IN  phase = "density" => \A i \in active, c \in Criteria :
        /\ EachOnce(Attraction(i, c)) /\ EachOnce(Potential(i, c))
        /\ EachOnce(Correction(i, c))
        /\ NearOnce(i, ShortRange(i, c)) /\ NearOnce(i, ShortRangePotential(i, c))

(* "we may only short-cut the interaction list [...] if we are sure that   *)
(* the whole node and all daughter nodes 'lie on the same side' of the     *)
(* periodic boundary" (forcetree.c:1767): in a node that the correction    *)
(* uses where the criterion would open it, all particles have the image    *)
(* of its centre of mass nearest, wherever they drifted.                   *)
SameSide ==
  LET image(x, y) == Nearest(y - x, 1, BoxSize) - (y - x)
  IN  phase = "density" => \A i \in active, c \in Criteria, t \in Task :
        \A no \in DOMAIN tree[t].Nodes :
          LET node == tree[t].Nodes[no]
              shortcut == Opens(node, Pos[i], c, BoxSize) /\ ~Refines(node, Pos[i])
          IN  shortcut => \A p, q \in Below(t, no) : image(Pos[i], Pos[p]) = image(Pos[i], Pos[q])
===============================================================================
