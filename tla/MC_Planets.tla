------------------------------ MODULE MC_Planets ------------------------------
(***************************************************************************)
(* Planets of four particles: shells that get none of them or one more, a  *)
(* crust, particles far away before and after the collision; Gadget writes *)
(* the blocks the programs want, or fewer.                                 *)
(***************************************************************************)
EXTENDS PlanetTools

(* The mass up to each radius, and the outer radius of each layer.         *)
SomeProfiles ==
  << {[mass |-> <<0, 1, 2, 8, 10>>, bound |-> <<2, 4>>], [mass |-> <<0, 4, 5, 10>>, bound |-> <<1, 3>>]},
     {[mass |-> <<0, 3, 6, 12>>, bound |-> <<1, 3>>]} >>

Crusts == <<3, 0>>

SomePatterns == {[k \in 0 .. 2 |-> (k + s) % 3] : s \in {0, 2}}

Running(more, flung, backwards, pieces, time, entr) ==
  [more |-> more, flung |-> flung, backwards |-> backwards, pieces |-> pieces, time |-> time, entr |-> entr]

SomeOptions == {{}, {"ENDT"}, {"ACCE", "ENDT", "TSTP"}}

SomeRuns ==
  {Running({}, {}, FALSE, 1, 0, 1),
   Running({"ACCE", "ENDT", "TSTP"}, {<<1, 2>>, <<1, 4>>, <<2, 3>>}, TRUE, 1, 1, 0),
   Running({"ENDT"}, {}, TRUE, 2, 1, 1)}
===============================================================================
