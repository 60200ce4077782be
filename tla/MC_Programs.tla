------------------------------ MODULE MC_Programs ------------------------------
(***************************************************************************)
(* Instances of the programs around Gadget2 that share no state: tables    *)
(* of equations of state, and bound remnants; for planets see MC_Planets.  *)
(***************************************************************************)
EXTENDS MC_Planets, EosTables, Remnants

(* Tables of different sizes, and one of two densities.                    *)
SomeTables ==
  << [density |-> <<0, 2, 3, 5, 8, 9, 10>>, entropy |-> <<1, 2, 4>>],
     [density |-> <<1, 4, 6, 9>>, entropy |-> <<0, 3, 5, 6, 8>>],
     [density |-> <<2, 6>>, entropy |-> <<1, 2, 4>>] >>

SomeMakerTables ==
  << [density |-> <<1, 3, 5>>, temperature |-> <<2, 4>>],
     [density |-> <<2, 4>>, temperature |-> <<1, 3, 6>>] >>

Body(x, v, m, id) == [x |-> x, v |-> v, m |-> m, id |-> id, pot |-> 0]

(* With the potential a snapshot has.                                      *)
WithPotential(s) ==
  [i \in DOMAIN s |->
     [s[i] EXCEPT !.pot =
        -MapThenSumSet(LAMBDA j : s[j].m * (allseps \div AbsDiff(s[i].x, s[j].x)),
                       {j \in DOMAIN s : s[j].x # s[i].x})]]

(* Two close to each other and two farther away; particles whose bound     *)
(* mass goes to and fro for ever; and one that is tied to both of two.      *)
SomeCollisions ==
  {WithPotential(<<Body(0, v[1], m[1], 1), Body(1, v[2], m[2], 2), Body(a, v[3], m[3], 12), Body(6, v[4], m[4], 23)>>) :
     v \in [1 .. 4 -> {-2, 0, 2}], m \in {<<1, 1, 1, 1>>, <<1, 1, 1, 2>>, <<2, 1, 1, 1>>}, a \in {2, 5}}
  \cup {WithPotential(<<Body(5, -2, 2, 1), Body(2, -3, 1, 2), Body(5, 3, 1, 12), Body(2, 2, 2, 23)>>),
         WithPotential(<<Body(0, 0, 4, 1), Body(1, 0, 4, 2), Body(3, 1, 1, 12), Body(6, 2, 4, 23), Body(12, 9, 4, 24)>>)}

OnePercent == <<1, 100>>
===============================================================================
