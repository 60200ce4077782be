------------------------------ MODULE MC_KickDrift -----------------------------
(* Instances of KickDrift, with the powers of two of MC_TimeLine.          *)
EXTENDS KickDrift, MC_TimeLine
===============================================================================
