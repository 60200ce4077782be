------------------------------ MODULE MC_TimeLine ------------------------------
(* Instances of TimeLine: the powers of two.                               *)
EXTENDS TimeLine

Powers8 == {1, 2, 4, 8}

Powers16 == {1, 2, 4, 8, 16}
===============================================================================
