---------------------------- MODULE MC_GravityTree ----------------------------
(* Three tasks and four particles, three of them gas.  The top-level tree  *)
(* has leaves of three sizes: a half, a quarter and two eighths of the box *)
(* along a curve that runs backward through the upper half.                *)
EXTENDS TreeWalks

TheTopNodes ==
  0 :> [Daughter |-> 1, Leaf |-> -1, backward |-> FALSE] @@
  1 :> [Daughter |-> -1, Leaf |-> 0, backward |-> FALSE] @@
  2 :> [Daughter |-> 3, Leaf |-> -1, backward |-> TRUE] @@
  3 :> [Daughter |-> 5, Leaf |-> -1, backward |-> FALSE] @@
  4 :> [Daughter |-> -1, Leaf |-> 3, backward |-> FALSE] @@
  5 :> [Daughter |-> -1, Leaf |-> 1, backward |-> FALSE] @@
  6 :> [Daughter |-> -1, Leaf |-> 2, backward |-> FALSE]

TheCriteria == {[theta |-> TRUE, num |-> 1, den |-> 1], [theta |-> FALSE, num |-> 1, den |-> 8000]}

(* A range of leaves for every task: two of those the split can find.      *)
Ranges(second, third) ==
  [l \in 0 .. 3 |-> IF l < second THEN 0 ELSE IF l < third THEN 1 ELSE 2]
TheDivisions == {Ranges(1, 2), Ranges(1, 3)}

(* Near the borders of leaves and of the box, so that particles leave      *)
(* both; and three at one place, for which there are not enough nodes.     *)
At(a, b, c, d) == 0 :> a @@ 1 :> b @@ 2 :> c @@ 3 :> d
TheStarts == {At(28, 36, 60, 12), At(4, 4, 4, 36)}

TheSmoothings == {0 :> 4 @@ 1 :> 20 @@ 2 :> 4, 0 :> 20 @@ 1 :> 4 @@ 2 :> 12}
TheKicks == {-8, 8}
TheActiveSets == {{0}, {1, 2, 3}}
===============================================================================
