-------------------------------- MODULE TopTree --------------------------------
(***************************************************************************)
(* The top-level tree (domain.c, domain_findExtent to domain_sumCost),     *)
(* whose leaves DomainSplit gives to the tasks: a cube around all          *)
(* particles, their keys along the Peano-Hilbert curve, segments of the    *)
(* curve that each task chops into eight as long as they hold many of its  *)
(* own particles, and from the segments of all tasks one tree.             *)
(*                                                                         *)
(* A particle has a place, a kind and its share of the work.  Places are   *)
(* integers; what doubles do to the last place is not modelled.            *)
(***************************************************************************)
EXTENDS DomainSplit, PeanoHilbert, FiniteSetsExt, SequencesExt

CONSTANTS
  Placements,          \* the particles that each task may hold
  BITS_PER_DIMENSION, TOPNODEFACTOR, MAXTOPNODES

PEANOCELLS == 8 ^ BITS_PER_DIMENSION

VARIABLES
  held,              \* P of each task
  topstage,          \* "extent", "split", "join", "sum", "done" or "endrun"
  xmin_glob, xmax_glob,
  KeySorted,         \* of each task; none at first
  toplist_local,
  TopNodes,
  content            \* DomainCount, DomainCountSph and DomainWork of each leaf

tree_vars == <<held, topstage, xmin_glob, xmax_glob, KeySorted, toplist_local, TopNodes, content>>

Axis == 1 .. 3

TotNumPart == MapThenSumSet(LAMBDA t : Len(held[t]), Task)

Everyone == UNION {{<<t, n>> : n \in DOMAIN held[t]} : t \in Task}

TreeInit ==
  /\ held \in Placements
  /\ topstage = "extent"
  /\ xmin_glob = <<0, 0, 0>> /\ xmax_glob = <<0, 0, 0>>
  /\ KeySorted = [t \in Task |-> <<>>] /\ toplist_local = [t \in Task |-> <<>>]
  /\ TopNodes = <<>> /\ content = <<>>

(* domain_findExtent.                                                      *)
FindExtent ==
  /\ topstage = "extent"
  /\ LET along(j) == {held[x[1]][x[2]].pos[j] : x \in Everyone} IN
     /\ xmin_glob' = [j \in Axis |-> Min(along(j))]
     /\ xmax_glob' = [j \in Axis |-> Max(along(j))]
  /\ topstage' = "split"
  /\ UNCHANGED <<held, KeySorted, toplist_local, TopNodes, content>>

len == Max({xmax_glob[j] - xmin_glob[j] : j \in Axis})

(* Mutant: the cube is as long as the particles are apart.                 *)
CellTight(pos) ==
  [j \in Axis |-> ((2 * pos[j] - (xmin_glob[j] + xmax_glob[j]) + len) * 2 ^ BITS_PER_DIMENSION)
                    \div (2 * len)]

(* The cell in a cube that is 1.001 times as long, and has its centre in   *)
(* the middle of the particles: (pos - DomainCorner) * DomainFac.          *)
CellOf(pos) ==
  [j \in Axis |-> ((2000 * pos[j] - 1000 * (xmin_glob[j] + xmax_glob[j]) + 1001 * len)
                      * 2 ^ BITS_PER_DIMENSION) \div (2002 * len)]

KeyOfParticle(p) == peano_hilbert_key(CellOf(p.pos), BITS_PER_DIMENSION)
-------------------------------------------------------------------------------
Root(count, blocks) ==
  0 :> [Daughter |-> -1, Size |-> PEANOCELLS, StartKey |-> 0, Count |-> count, Pstart |-> 1,
        Blocks |-> blocks]

BlocksOf(node) == node.Pstart .. node.Pstart + node.Blocks - 1

(* The i-th of the eight daughters of a node, with the blocks of the list  *)
(* that begin in it.                                                       *)
DaughterOf(node, list, i) ==
  LET size == node.Size \div 8
      mine == {p \in BlocksOf(node) : (list[p].Startkey - node.StartKey) \div size = i}
  IN  [Daughter |-> -1, Size |-> size, StartKey |-> node.StartKey + i * size,
       Count |-> MapThenSumSet(LAMBDA p : list[p].Count, mine),
       Pstart |-> IF mine = {} THEN node.Pstart ELSE Min(mine), Blocks |-> Cardinality(mine)]

RECURSIVE domain_topsplit(_, _, _, _)

(* domain_topsplit, and domain_topsplit_local, where each particle is a    *)
(* block: a segment is chopped, and so is each daughter with more than one *)
(* part in share of all particles.                                         *)
domain_topsplit(nodes, no, list, share) ==
  IF nodes[no].Size < 8 THEN nodes
  ELSE LET first == Cardinality(DOMAIN nodes)
           chopped == [nodes EXCEPT ![no].Daughter = first]
                        @@ [d \in first .. first + 7 |-> DaughterOf(nodes[no], list, d - first)]
       IN  FoldLeft(LAMBDA t, d :
                      IF t[d].Count * share > TotNumPart THEN domain_topsplit(t, d, list, share)
                      ELSE t,
                    chopped, [i \in 1 .. 8 |-> first + i - 1])

(* Mutant: tasks chop their segments no finer than all together.           *)
LocalShareTooSmall == TOPNODEFACTOR * NTask

LocalShare == TOPNODEFACTOR * NTask * NTask

JointShare == TOPNODEFACTOR * NTask

OutOfTopnodes(nodes) == Cardinality(DOMAIN nodes) > MAXTOPNODES

(* endrun(77), endrun(13123123): a block lies in none of the daughters.    *)
OddBin(nodes) ==
  \E no \in DOMAIN nodes :
    /\ nodes[no].Daughter # -1
    /\ nodes[no].Blocks # MapThenSumSet(LAMBDA i : nodes[nodes[no].Daughter + i].Blocks, 0 .. 7)

IsLeaf(nodes, no) == nodes[no].Daughter = -1

(* The leaves in the order of their numbers.                               *)
LocalSegments(nodes) ==
  LET all == [i \in 1 .. Cardinality(DOMAIN nodes) |-> nodes[i - 1]]
      segments == SelectSeq(all, LAMBDA x : x.Daughter = -1)
  IN  [i \in DOMAIN segments |-> [Startkey |-> segments[i].StartKey, Count |-> segments[i].Count]]

ByKey(list) == SortSeq(list, LAMBDA a, b : a.Startkey < b.Startkey)

(* The first half of domain_determineTopTree.                              *)
SplitLocal(t) ==
  /\ topstage = "split" /\ toplist_local[t] = <<>>
  /\ LET sorted == ByKey([n \in DOMAIN held[t] |-> [Startkey |-> KeyOfParticle(held[t][n]),
                                                    Count |-> 1]])
         root == Root(Len(sorted), Len(sorted))
     IN  \E nodes \in {domain_topsplit(root, 0, sorted, LocalShare)} :
           IF OutOfTopnodes(nodes) \/ OddBin(nodes)
           THEN topstage' = "endrun" /\ UNCHANGED <<KeySorted, toplist_local>>
           ELSE /\ KeySorted' = [KeySorted EXCEPT ![t] = [n \in DOMAIN sorted |-> sorted[n].Startkey]]
                /\ toplist_local' = [toplist_local EXCEPT ![t] = LocalSegments(nodes)]
                /\ topstage' = IF \A u \in Task \ {t} : toplist_local[u] # <<>> THEN "join"
                               ELSE "split"
  /\ UNCHANGED <<held, xmin_glob, xmax_glob, TopNodes, content>>

(* The second half; all tasks make the same tree of the same list.         *)
Join ==
  /\ topstage = "join"
  /\ LET toplist == ByKey(FlattenSeq([i \in 1 .. NTask |-> toplist_local[i - 1]]))
         root == Root(TotNumPart, Len(toplist))
     IN  \E nodes \in {domain_topsplit(root, 0, toplist, JointShare)} :
           IF OutOfTopnodes(nodes) \/ OddBin(nodes)
           THEN topstage' = "endrun" /\ UNCHANGED TopNodes
           ELSE topstage' = "sum" /\ TopNodes' = nodes
  /\ UNCHANGED <<held, xmin_glob, xmax_glob, KeySorted, toplist_local, content>>
-------------------------------------------------------------------------------
RECURSIVE domain_walktoptree(_)

(* The leaves below a node in the order of the walk.                       *)
domain_walktoptree(no) ==
  IF IsLeaf(TopNodes, no) THEN <<no>>
  ELSE FlattenSeq([i \in 1 .. 8 |-> domain_walktoptree(TopNodes[no].Daughter + i - 1)])

RECURSIVE LeafBelow(_, _)

LeafBelow(no, key) ==
  IF IsLeaf(TopNodes, no) THEN no
  ELSE LeafBelow(TopNodes[no].Daughter
                   + (key - TopNodes[no].StartKey) \div (TopNodes[no].Size \div 8), key)

(* domain_sumCost.                                                         *)
SumCost ==
  /\ topstage = "sum"
  /\ \E found \in {[x \in Everyone |-> LeafBelow(0, KeyOfParticle(held[x[1]][x[2]]))]} :
       LET walk == domain_walktoptree(0)
           within(no) == {held[x[1]][x[2]] @@ [of |-> x] : x \in {y \in Everyone : found[y] = no}}
       IN  content' = [i \in DOMAIN walk |->
                         [no |-> walk[i], count |-> Cardinality(within(walk[i])),
                          sph |-> Cardinality({p \in within(walk[i]) : p.sph}),
                          work |-> MapThenSumSet(LAMBDA p : p.work, within(walk[i]))]]
  /\ topstage' = "done"
  /\ UNCHANGED <<held, xmin_glob, xmax_glob, KeySorted, toplist_local, TopNodes>>

TreeEnded == topstage \in {"done", "endrun"}

TreeNext ==
  \/ FindExtent \/ (\E t \in Task : SplitLocal(t)) \/ Join \/ SumCost
  \/ TreeEnded /\ UNCHANGED tree_vars

Tree_Spec == TreeInit /\ [][TreeNext]_tree_vars
-------------------------------------------------------------------------------
SegmentOf(leaf) == TopNodes[leaf.no].StartKey .. TopNodes[leaf.no].StartKey + TopNodes[leaf.no].Size - 1

CellsOf(leaf) == {peano_hilbert_key_inverse(k, BITS_PER_DIMENSION) : k \in SegmentOf(leaf)}

(* The side of a leaf, in cells.                                           *)
SideOf(leaf) == CHOOSE n \in {2 ^ k : k \in 0 .. BITS_PER_DIMENSION} : n ^ 3 = TopNodes[leaf.no].Size

Touch(a, b) == \E x \in CellsOf(a), y \in CellsOf(b) :
                 MapThenSumSet(LAMBDA j : (x[j] - y[j]) ^ 2, Axis) = 1

(* The leaves in the order of their numbers are segments of the curve      *)
(* without gap or overlap; each is a cube of an octree, as the tree of     *)
(* forces takes for granted (forcetree.c:303) when it walks to it by keys  *)
(* of fewer bits; one touches the next, so that domains are coherent       *)
(* (domain.c:22); and each is said to hold what lies in its cube, no       *)
(* particle at the rim being left out.                                     *)
LeavesExact ==
  topstage = "done" =>
    /\ TopNodes[content[1].no].StartKey = 0
    /\ \A i \in DOMAIN content :
         LET next == IF i = Len(content) THEN PEANOCELLS ELSE TopNodes[content[i + 1].no].StartKey
             cells == CellsOf(content[i])
             n == SideOf(content[i])
             inside == {x \in Everyone : CellOf(held[x[1]][x[2]].pos) \in cells}
         IN  /\ TopNodes[content[i].no].StartKey + TopNodes[content[i].no].Size = next
             /\ Cardinality(cells) = n ^ 3
             /\ Cardinality({[j \in Axis |-> c[j] \div n] : c \in cells}) = 1
             /\ i < Len(content) => Touch(content[i], content[i + 1])
             /\ content[i].count = Cardinality(inside)
             /\ content[i].work = MapThenSumSet(LAMBDA x : held[x[1]][x[2]].work, inside)
    /\ MapThenSumSet(LAMBDA i : content[i].count, DOMAIN content) = TotNumPart

(* A segment of a task that is coarser than the tree counts for the first  *)
(* of the leaves it covers (domain.c:1090), so that a leaf may hold more   *)
(* than the one part in 20 * NTask that makes it divided; but since tasks  *)
(* chop finer, never twice as much, unless it is a cell.                   *)
LeavesSmall ==
  topstage = "done" =>
    \A i \in DOMAIN content :
      TopNodes[content[i].no].Size < 8 \/ content[i].count * JointShare < 2 * TotNumPart

(* Domains and the tree of forces are built from these leaves.             *)
TreeExact == LeavesExact /\ LeavesSmall
===============================================================================
