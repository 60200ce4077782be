----------------------------- MODULE RestartLayout -----------------------------
(***************************************************************************)
(* Reading the tree from a restart file into arrays of another size        *)
(* (restart.c), when PartAllocFactor or TreeAllocFactor was changed.       *)
(*                                                                         *)
(* An index below MaxPart is a particle, one from MaxPart on a node, and   *)
(* one from MaxPart + MaxNodes on a pseudo particle: a top-level leaf of   *)
(* another task.  -1 ends a list.                                          *)
(***************************************************************************)
EXTENDS Integers

CONSTANTS
  NumPart, Numnodestree,
  Leaves,           \* MAXTOPNODES
  Sizes             \* of the arrays: records of MaxPart and MaxNodes

VARIABLES
  old, new,         \* the sizes in the run before, and now
  tree,             \* the tree that was written: what its links lead to
  Father, Nextnode, \* of the particles
  nodes,            \* sibling, father and nextnode of the nodes
  NextOfLeaf,       \* Nextnode of the pseudo particles
  DomainNodeIndex,
  loaded

layout_vars == <<old, new, tree, Father, Nextnode, nodes, NextOfLeaf, DomainNodeIndex, loaded>>

Particle == 0 .. NumPart - 1

Node == 0 .. Numnodestree - 1

Leaf == 0 .. Leaves - 1

Kinds == [particle |-> Particle, node |-> Node, pseudo |-> Leaf, end |-> {0}]

Links(kinds) == UNION {{[kind |-> k, number |-> n] : n \in Kinds[k]} : k \in kinds}

Link == Links({"particle", "node", "pseudo", "end"})

Field == {"sibling", "father", "nextnode"}

Trees ==
  {t \in [Father : [Particle -> Links({"node"})], Nextnode : [Particle -> Link],
          nodes : [Node \X Field -> Link],
          NextOfLeaf : [Leaf -> Link], DomainNodeIndex : [Leaf -> Links({"node"})]] :
     \A n \in Node : t.nodes[<<n, "father">>].kind \in {"node", "end"}}

(* The index convention (forcetree.c:77).                                  *)
Index(link, size) ==
  CASE link.kind = "particle" -> link.number
    [] link.kind = "node" -> size.MaxPart + link.number
    [] link.kind = "pseudo" -> size.MaxPart + size.MaxNodes + link.number
    [] link.kind = "end" -> -1

Indices(links, size) == [x \in DOMAIN links |-> Index(links[x], size)]

(* Otherwise the run ends with an error.                                   *)
Fits(size) == NumPart <= size.MaxPart /\ Numnodestree <= size.MaxNodes

LayoutInit ==
  /\ old \in Sizes /\ Fits(old)
  /\ new \in Sizes /\ Fits(new) /\ new # old
  /\ tree \in Trees
  /\ Father = Indices(tree.Father, old)
  /\ Nextnode = Indices(tree.Nextnode, old)
  /\ nodes = Indices(tree.nodes, old)
  /\ NextOfLeaf = Indices(tree.NextOfLeaf, old)
  /\ DomainNodeIndex = Indices(tree.DomainNodeIndex, old)
  /\ loaded = FALSE

(* Sibling, father, nextnode, NextOfLeaf, DomainNodeIndex.                 *)
Adjusted(x) ==
  IF x < old.MaxPart THEN x
  ELSE x + (new.MaxPart - old.MaxPart)
         + (IF x >= old.MaxPart + old.MaxNodes THEN new.MaxNodes - old.MaxNodes ELSE 0)

(* The loop over the particles.                                            *)
AdjustedNextnode(x) ==
  IF x < old.MaxPart THEN x
  ELSE x + (new.MaxPart - old.MaxPart)
         + (IF x >= old.MaxPart + old.MaxNodes THEN new.MaxNodes - old.MaxPart ELSE 0)

Load ==
  /\ ~loaded
  /\ Father' = [i \in Particle |-> Father[i] + (new.MaxPart - old.MaxPart)]
  /\ Nextnode' = [i \in Particle |-> AdjustedNextnode(Nextnode[i])]
  /\ nodes' = [x \in DOMAIN nodes |-> Adjusted(nodes[x])]
  /\ NextOfLeaf' = [i \in Leaf |-> Adjusted(NextOfLeaf[i])]
  /\ DomainNodeIndex' = [i \in Leaf |-> Adjusted(DomainNodeIndex[i])]
  /\ loaded' = TRUE
  /\ UNCHANGED <<old, new, tree>>

LayoutSpec == LayoutInit /\ [][Load]_layout_vars
-------------------------------------------------------------------------------
(* The links of nodes and leaves lead where they led before.               *)
NodesKept ==
  loaded =>
    /\ Father = Indices(tree.Father, new)
    /\ nodes = Indices(tree.nodes, new)
    /\ NextOfLeaf = Indices(tree.NextOfLeaf, new)
    /\ DomainNodeIndex = Indices(tree.DomainNodeIndex, new)

(* "Node indices with values All.MaxPart + MaxNodes and larger indicate    *)
(* pseudo particles" (forcetree.c:83): the thread through the particles    *)
(* leads where it led before.                                              *)
ThreadKept == loaded => Nextnode = Indices(tree.Nextnode, new)
===============================================================================
