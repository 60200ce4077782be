------------------------------- MODULE Remnants -------------------------------
(***************************************************************************)
(* What is bound after a collision: bound() of the programs BoundMass,     *)
(* MoreBound and RemoveLR of tools/, and BoundMass and DiskMass2 of        *)
(* analysis/, each with a variant of its own.                              *)
(*                                                                         *)
(* From a seed at the lowest potential, particles are bound whose kinetic  *)
(* and potential energy in the frame of what is bound already is negative, *)
(* over and over until the bound mass changes no more.  MoreBound and      *)
(* RemoveLR go on with what is left, and number the remnants.              *)
(*                                                                         *)
(* A step is a whole loop over the particles.  Space has one dimension,    *)
(* and energies are compared exactly: a centre is the sums of position and *)
(* velocity times mass, not yet divided by the mass.                       *)
(***************************************************************************)
EXTENDS Integers, FiniteSetsExt, SequencesExt

CONSTANTS
  Collisions,      \* particles of a snapshot: position, velocity, mass, id, potential
  twoG,            \* twice the constant of gravity
  nearest,         \* separation up to which calculate_potential() leaves a pair out
  allseps,         \* a multiple of all separations
  tol,             \* a fraction, numerator and denominator
  maxit, minparts,
  nMat, idskip

ASSUME RemnantsAssumption ==
  /\ \A c \in Collisions :
       /\ c \in Seq([x : Int, v : Int, m : Nat \ {0}, id : Nat \ {0}, pot : Int])
       /\ c # <<>>
  /\ maxit \in Nat \ {0} /\ nMat \in Nat \ {0} /\ idskip \in Nat \ {0}
  /\ nearest \in Nat /\ allseps \in Int /\ minparts \in Nat
  /\ tol \in Nat \X (Nat \ {0})

VARIABLES
  finder,          \* one of Finders
  pl,              \* the particles, p in the source
  bnd,             \* the remnant of each, 0 for none
  remnant, seedindex,
  centre,          \* sums of position and velocity times mass, and the mass
  bndm, oldm,
  passes,          \* count in the source, up to maxit
  nbound,
  search,          \* "seed", "pass", "reorder", "table" or "done"
  printed,         \* mass and number of particles of each remnant, when found
  table            \* masses of each remnant, in the end

remnant_vars ==
  <<finder, pl, bnd, remnant, seedindex, centre, bndm, oldm, passes, nbound, search, printed, table>>

(* maxit bounds the passes; the change of mass is a fraction; all remnants *)
(* are looked for, at least so many, and put in order of mass.             *)
Finder(name, limited, fraction, all, least, ordered) ==
  [name |-> name, limited |-> limited, fraction |-> fraction,
   all |-> all, least |-> least, ordered |-> ordered]

BoundMass == Finder("tools/BoundMass", TRUE, TRUE, FALSE, 1, FALSE)
MoreBound == Finder("tools/MoreBound", TRUE, TRUE, TRUE, 3, TRUE)
RemoveLR == Finder("tools/RemoveLR", TRUE, TRUE, TRUE, 1, FALSE)
BoundMass0 == Finder("analysis/BoundMass", FALSE, FALSE, FALSE, 1, FALSE)
DiskMass2 == Finder("analysis/DiskMass2", FALSE, FALSE, FALSE, 1, FALSE)

Finders == {BoundMass, MoreBound, RemoveLR, BoundMass0, DiskMass2}
-------------------------------------------------------------------------------
Indices == DOMAIN pl

AbsDiff(a, b) == IF a < b THEN b - a ELSE a - b

Free == {i \in Indices : bnd[i] = 0}

MassOf(places) == SumFunctionOnSet([i \in Indices |-> pl[i].m], places)

Centre(places) ==
  [x |-> SumFunctionOnSet([i \in Indices |-> pl[i].m * pl[i].x], places),
   v |-> SumFunctionOnSet([i \in Indices |-> pl[i].m * pl[i].v], places),
   m |-> MassOf(places)]

(* Whether kinetic and potential energy, with the mass "with" at the       *)
(* centre, are negative together; comparisons with 0/0 are false.          *)
Tied(i, at, with) ==
  LET x == AbsDiff(pl[i].x * at.m, at.x)
      v == pl[i].v * at.m - at.v
  IN  at.m > 0 /\ v * v * x < twoG * with * (at.m * at.m * at.m)

(* calculate_potential(): from the snapshot for the first remnant, and     *)
(* without the particles of larger remnants for the others.                *)
Potential(i) ==
  IF remnant = 1 THEN pl[i].pot
  ELSE LET others == {j \in Free \ {i} : AbsDiff(pl[i].x, pl[j].x) > nearest}
       IN  -SumFunction([j \in others |-> pl[j].m * (allseps \div AbsDiff(pl[i].x, pl[j].x))])

(* calculate_material().                                                   *)
MaterialIs(id) == Min({nMat + 1} \cup {i \in 1 .. nMat : id < i * idskip})
-------------------------------------------------------------------------------
(* The lowest potential of those that are free, the first of equal ones.   *)
(* When none is free the place of the last seed stays, and is marked.      *)
Seed ==
  /\ search = "seed"
  /\ seedindex' = IF Free = {} THEN seedindex
                  ELSE CHOOSE i \in Free : \A j \in Free :
                           \/ Potential(i) < Potential(j)
                           \/ Potential(i) = Potential(j) /\ i <= j
  /\ centre' = Centre(IF Free = {} THEN {} ELSE {seedindex'})
  /\ bndm' = centre'.m /\ oldm' = 0
  /\ bnd' = IF finder.all THEN [bnd EXCEPT ![seedindex'] = remnant] ELSE bnd
  /\ nbound' = 1 /\ passes' = 0 /\ search' = "pass"
  /\ UNCHANGED <<finder, pl, remnant, printed, table>>

(* Before the first pass oldm is a tenth of the mass of the seed.          *)
Changed ==
  CASE passes = 0 -> bndm > 0
    [] passes > 0 /\ finder.fraction -> AbsDiff(oldm, bndm) * tol[2] > tol[1] * oldm
    [] OTHER -> oldm # bndm

(* A variant without the limit.                                            *)
GoesOnForever == Changed

GoesOn == Changed /\ (finder.limited => passes < maxit)

(* All particles anew.                                                     *)
PassAgain ==
  LET tied == {i \in Indices : Tied(i, centre, bndm)}
  IN  /\ bnd' = [i \in Indices |-> IF i \in tied THEN 1 ELSE 0]
      /\ centre' = Centre(tied) /\ bndm' = centre'.m
      /\ UNCHANGED nbound

(* A variant that leaves out only what is bound to the same remnant.       *)
PassOverOthers ==
  LET join(s, i) ==
        IF bnd[i] # remnant /\ Tied(i, centre, s.m)
        THEN [m |-> s.m + pl[i].m, members |-> s.members \cup {i}] ELSE s
      end == FoldLeft(join, [m |-> bndm, members |-> {}], [i \in Indices |-> i])
  IN  /\ bnd' = [i \in Indices |-> IF i \in end.members THEN remnant ELSE bnd[i]]
      /\ bndm' = end.m
      /\ centre' = Centre({i \in Indices : bnd'[i] = remnant})
      /\ nbound' = nbound + Cardinality(end.members)

(* The free ones one after the other, each with the mass bound so far, at  *)
(* the centre of before.                                                   *)
Join(s, i) ==
  IF i \in Free /\ Tied(i, centre, s.m)
  THEN [m |-> s.m + pl[i].m, members |-> s.members \cup {i}] ELSE s

Joined == FoldLeft(Join, [m |-> bndm, members |-> {}], [i \in Indices |-> i])

PassOverFree ==
  LET end == Joined
      more == Centre(end.members)
  IN  /\ bnd' = [i \in Indices |-> IF i \in end.members THEN remnant ELSE bnd[i]]
      /\ bndm' = end.m
      /\ centre' = [x |-> centre.x + more.x, v |-> centre.v + more.v, m |-> end.m]
      /\ nbound' = nbound + Cardinality(end.members)

Pass ==
  /\ search = "pass" /\ GoesOn
  /\ oldm' = bndm /\ passes' = Min({passes + 1, maxit})
  /\ IF finder.all THEN PassOverFree ELSE PassAgain
  /\ UNCHANGED <<finder, pl, remnant, seedindex, search, printed, table>>

(* A remnant is found: for another one, or not.                            *)
RemnantFound ==
  /\ search = "pass" /\ ~GoesOn
  /\ printed' = Append(printed, [mass |-> bndm, parts |-> nbound])
  /\ remnant' = IF finder.all THEN remnant + 1 ELSE 2
  /\ search' = CASE finder.all /\ (nbound >= minparts \/ remnant < finder.least) -> "seed"
                 [] finder.ordered /\ ~(nbound >= minparts \/ remnant < finder.least) -> "reorder"
                 [] OTHER -> "table"
  /\ UNCHANGED <<finder, pl, bnd, seedindex, centre, bndm, oldm, passes, nbound, table>>

Remnant(j, marks) == {i \in Indices : marks[i] = j}

(* Once over all neighbours in the order of remnants, k and the next.      *)
Swap(marks, k) ==
  IF MassOf(Remnant(k + 1, marks)) > MassOf(Remnant(k, marks))
  THEN [i \in Indices |-> CASE marks[i] = k + 1 -> k [] marks[i] = k -> k + 1 [] OTHER -> marks[i]]
  ELSE marks

Reorder ==
  /\ search = "reorder"
  /\ bnd' = FoldLeft(Swap, bnd, [k \in 1 .. remnant - 2 |-> k])
  /\ search' = IF bnd' = bnd THEN "table" ELSE "reorder"
  /\ UNCHANGED <<finder, pl, remnant, seedindex, centre, bndm, oldm, passes, nbound, printed, table>>

(* analysis/BoundMass has two materials only, and puts 1 and 2 for the     *)
(* ids of what is bound or not; DiskMass2 wants the centre and no table.   *)
Table ==
  LET materials(i) ==
        IF finder.limited THEN MaterialIs(pl[i].id) ELSE IF pl[i].id > idskip THEN 2 ELSE 1
      mass(j, m) == MassOf({i \in Remnant(j, bnd) : materials(i) = m})
  IN  /\ search = "table"
      /\ table' = IF finder = DiskMass2 THEN <<>>
                  ELSE [j \in 1 .. remnant - 1 |->
                          [iron |-> mass(j, 1), silicates |-> mass(j, 2), crust |-> mass(j, 3)]]
      /\ pl' = IF finder # BoundMass0 THEN pl
               ELSE [i \in Indices |-> [pl[i] EXCEPT !.id = IF bnd[i] = 1 THEN 1 ELSE 2]]
      /\ search' = "done"
      /\ UNCHANGED <<finder, bnd, remnant, seedindex, centre, bndm, oldm, passes, nbound, printed>>
-------------------------------------------------------------------------------
RemnantsInit ==
  /\ finder \in Finders /\ pl \in Collisions
  /\ bnd = [i \in Indices |-> 0]
  /\ remnant = 1 /\ seedindex = 1
  /\ centre = Centre({}) /\ bndm = 0 /\ oldm = 0 /\ passes = 0 /\ nbound = 0
  /\ search = "seed" /\ printed = <<>> /\ table = <<>>

RemnantsNext == Seed \/ Pass \/ RemnantFound \/ Reorder \/ Table

RemnantsSpec == RemnantsInit /\ [][RemnantsNext]_remnant_vars /\ WF_remnant_vars(RemnantsNext)
-------------------------------------------------------------------------------
(* Whether a search was begun when nothing was free.                       *)
RanOut == \E k \in DOMAIN printed : printed[k].mass = 0

(* Such a search takes the last seed from its remnant: the marks with that *)
(* particle back in one of them.                                           *)
GivenBack ==
  IF RanOut THEN {[bnd EXCEPT ![seedindex] = j] : j \in 1 .. remnant - 1} ELSE {bnd}

(* But for the last seed no particle is taken from its remnant: the masses *)
(* bound in the end are those found before, in some order.  The seed is    *)
(* only taken when all is bound.  The list goes on until a remnant has too *)
(* few particles.                                                          *)
OnlyLastSeedTaken ==
  search = "done" /\ finder.all =>
    /\ \E marks \in GivenBack :
         LET masses == [j \in 1 .. remnant - 1 |-> MassOf(Remnant(j, marks))]
         IN  \A m \in {p.mass : p \in Range(printed)} \cup Range(masses) :
               Cardinality({k \in DOMAIN printed : printed[k].mass = m})
                 = Cardinality({j \in DOMAIN masses : masses[j] = m})
    /\ RanOut => Free = {}
    /\ \A k \in 1 .. Len(printed) - 1 : k >= finder.least => printed[k].parts >= minparts
    /\ Last(printed).parts < minparts

InOrderOfMass ==
  search = "done" /\ finder.ordered =>
    \A j \in 2 .. remnant - 1 : MassOf(Remnant(j, bnd)) <= MassOf(Remnant(j - 1, bnd))

MaterialsAddUp ==
  search = "done" =>
    \A j \in DOMAIN table : table[j].iron + table[j].silicates + table[j].crust = MassOf(Remnant(j, bnd))

(* When the passes were not cut short, nothing that is left is tied to the *)
(* remnant that was found, in the frame of all its particles.              *)
NothingLeftBehind ==
  search = "pass" /\ finder.all /\ ~Changed =>
    LET members == Remnant(remnant, bnd)
    IN  bndm > 0 => /\ bndm = MassOf(members) /\ nbound = Cardinality(members)
                    /\ \A i \in Free : ~Tied(i, Centre(members), bndm)

(* Remnants are found one after the other, whole, without taking particles *)
(* from each other but the last seed when all are bound, and listed by     *)
(* their mass, each with the materials of its particles.                   *)
RemnantsRight == OnlyLastSeedTaken /\ InOrderOfMass /\ MaterialsAddUp /\ NothingLeftBehind

(* A search with a limit ends, however the marks go to and fro.            *)
SearchEnds == finder.limited ~> search = "done"
===============================================================================
