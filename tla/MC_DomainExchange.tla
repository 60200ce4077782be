--------------------------- MODULE MC_DomainExchange ---------------------------
(***************************************************************************)
(* Instances of DomainExchange for TLC: the schedule of the C loop, built  *)
(* with exclusive or as in the code, and every placement of particles that *)
(* the arrays and the domain split allow.                                  *)
(***************************************************************************)
EXTENDS DomainExchange, SequencesExt, Bitwise

(* for(ngrp = 1; ngrp < (1 << PTask); ngrp++) for(task = 0; ...).          *)
PTask == 2

XorPairs ==
  LET Group(ngrp) == SelectSeq([i \in 1 .. NTask |-> <<i - 1, (i - 1) ^^ ngrp>>],
                               LAMBDA p : p[2] < NTask /\ p[1] < p[2])
  IN  FlattenSeq([ngrp \in 1 .. 2 ^ PTask - 1 |-> Group(ngrp)])

(* The value of XorPairs for three tasks.                                  *)
Pairs3 == <<<<0, 1>>, <<0, 2>>, <<1, 2>>>>

ASSUME PairsAreXorPairs == XorPairs = Pairs3

(* Rows of hold for one task: everything its arrays have room for.         *)
RowsWithin(maxSph, maxOther) ==
  {row \in [Task -> [sph : 0 .. maxSph, other : 0 .. maxOther]] :
     PartCount(row) <= MaxPart /\ RowSum(row, "sph") <= MaxPartSph}

(* The placements with such rows in which every domain gets as much as the *)
(* split allows.                                                           *)
Placements(rows0, rows1, rows2, gas) ==
  {h \in {[t \in Task |-> IF t = 0 THEN a ELSE IF t = 1 THEN b ELSE c] :
             a \in rows0, b \in rows1, c \in rows2} :
     \A d \in Task : TargetLoad(h, d) = MaxLoad /\ TargetSph(h, d) = gas}

(* Without gas: tasks 0 and 1 are full of particles of the others.         *)
DarkPlacements ==
  LET FullRows(t) == {row \in RowsWithin(0, MaxLoad) :
                        PartCount(row) = MaxPart /\ row[t].other = 0}
  IN  Placements(FullRows(0), FullRows(1), RowsWithin(0, MaxLoad), 0)

(* With gas: the SPH array of task 0 is full, and task 1 has gas for it    *)
(* and nothing of its own.                                                 *)
GasPlacements ==
  LET Rows == RowsWithin(MaxLoadSph, 1)
  IN  Placements({row \in Rows : RowSum(row, "sph") = MaxPartSph},
                 {row \in Rows : row[1].sph + row[1].other = 0},
                 {row \in Rows : RowSum(row, "sph") = 0},
                 MaxLoadSph)

(* Every particle at home.                                                 *)
AtHome ==
  [t \in Task |-> [d \in Task |-> [sph |-> 0, other |-> IF t = d THEN MaxLoad ELSE 0]]]

FullPlacements ==
  DarkPlacements \cup GasPlacements \cup {AtHome}
===============================================================================
