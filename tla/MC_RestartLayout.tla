--------------------------- MODULE MC_RestartLayout ---------------------------
(* Instances of RestartLayout: a tree node for 0.5 to 1 particles.         *)
EXTENDS RestartLayout

SmallSizes == [MaxPart : {4, 6}, MaxNodes : {2, 3, 4}]
===============================================================================
