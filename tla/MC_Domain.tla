------------------------------- MODULE MC_Domain -------------------------------
(***************************************************************************)
(* The top-level tree, its division, and the arrays of one task while      *)
(* particles are exchanged and ordered, each checked by itself: what is    *)
(* divided is every sequence of leaves of a few kinds, and the counts of   *)
(* an exchange are any the arrays have room for.                           *)
(***************************************************************************)
EXTENDS TopTree, ParticleArrays

CONSTANTS g1, g2, g3, o1, o2,
          MaxExchanges   \* with partners, in all decompositions together

(* A cycle of three gas particles, and other particles that share a key.   *)
MCKeyOf == [p \in Particle |-> IF p = g1 THEN 3 ELSE IF p \in {g3, o1} THEN 2 ELSE 1]

VARIABLES part,       \* "split", "tree" or "arrays"
          exchanges   \* begun so far

(* A leaf without particles has no work; a particle on a short timestep    *)
(* counts for more work than one on a long timestep.                       *)
Empty == [count |-> 0, sph |-> 0, work |-> 0]
Light == [count |-> 1, sph |-> 0, work |-> 1]
Hot == [count |-> 1, sph |-> 1, work |-> 3]
Dense == [count |-> 3, sph |-> 3, work |-> 3]

Running(leaves, Value(_)) ==
  [i \in 0 .. NTopleaves |-> FoldLeft(LAMBDA sum, x : sum + Value(x), 0, SubSeq(leaves, 1, i))]

TreesOf(kinds) ==
  {[count |-> Running(s, LAMBDA x : x.count),
    sph   |-> Running(s, LAMBDA x : x.sph),
    work  |-> Running(s, LAMBDA x : x.work)] : s \in [1 .. NTopleaves -> kinds]}

(* Among them trees where the bisection gives every task work, and trees  *)
(* where some get none.                                                    *)
MixedTrees == TreesOf({Empty, Light, Hot})

Anything == {Empty, Dense}

(* At two opposite corners, beside each other at one of them, and some     *)
(* cells away, in a cube of eight cells.                                   *)
Points == << <<0, 0, 0>>, <<80, 80, 80>>, <<1, 0, 0>>, <<25, 3, 3>>, <<40, 41, 41>> >>

At(n, i) == [pos |-> Points[n], sph |-> i % 2 = 0, work |-> n]

(* Three particles of a task at points that do not descend.                *)
Threes(points) ==
  {[i \in 1 .. 3 |-> At(s[i], i)] : s \in {f \in [1 .. 3 -> points] : f[1] <= f[2] /\ f[2] <= f[3]}}

SomePlacements ==
  {[t \in Task |-> IF t = 0 THEN a ELSE IF t = 1 THEN b ELSE <<At(1, 1), At(2, 2), At(k, 3)>>] :
     a \in Threes(1 .. 5), b \in Threes({1, 3, 4}), k \in {3, 4}}
-------------------------------------------------------------------------------
domain_vars == <<split_vars, tree_vars, vars, part, exchanges>>

SplitOver ==
  /\ cum = LET none == [i \in 0 .. NTopleaves |-> 0] IN [count |-> none, sph |-> none, work |-> none]
  /\ stage = "done" /\ calls = <<>> /\ split = 0
  /\ DomainTask = [i \in Leaf |-> 0]
  /\ DomainStartList = [t \in Task |-> 0] /\ DomainEndList = [t \in Task |-> 0]
  /\ list_load = [t \in Task |-> 0] /\ list_loadsph = [t \in Task |-> 0]
  /\ list_work = [t \in Task |-> 0]
  /\ cell = 0 /\ task = 0 /\ moved = 0 /\ sweeps = 0

TreeOver ==
  /\ held = [t \in Task |-> <<>>]
  /\ topstage = "endrun" /\ xmin_glob = <<0, 0, 0>> /\ xmax_glob = <<0, 0, 0>>
  /\ KeySorted = [t \in Task |-> <<>>] /\ toplist_local = [t \in Task |-> <<>>]
  /\ TopNodes = <<>> /\ content = <<>>

ArraysOver ==
  /\ P = [i \in Slot |-> NoParticle] /\ SphP = [i \in SphSlot |-> NoParticle]
  /\ Key = [i \in Slot |-> 0] /\ NumPart = 0 /\ N_gas = 0
  /\ away = Particle /\ incoming = <<>>
  /\ DomainPartBuf = <<>> /\ DomainKeyBuf = <<>> /\ DomainSphBuf = <<>>
  /\ xchg = NoXchg /\ perm = NoPerm /\ phase = "idle"

DomainInit ==
  /\ exchanges = 0
  /\ \/ part = "split" /\ SplitInit /\ TreeOver /\ ArraysOver
     \/ part = "tree" /\ TreeInit /\ SplitOver /\ ArraysOver
     \/ part = "arrays" /\ Init /\ SplitOver /\ TreeOver

Splitting == part = "split" /\ SplitNext /\ UNCHANGED <<tree_vars, vars, part, exchanges>>

Building == part = "tree" /\ TreeNext /\ UNCHANGED <<split_vars, vars, part, exchanges>>

Begins == phase = "exchange" /\ phase' = "collect"

Arranging ==
  /\ part = "arrays" /\ Next
  /\ exchanges' = IF Begins THEN exchanges + 1 ELSE exchanges
  /\ exchanges' <= MaxExchanges
  /\ UNCHANGED <<split_vars, tree_vars, part>>

Domain_Spec ==
  DomainInit /\ [][Splitting \/ Building \/ Arranging]_domain_vars /\ WF_domain_vars(Splitting)
===============================================================================
