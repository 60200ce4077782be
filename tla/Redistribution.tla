---------------------------- MODULE Redistribution ----------------------------
(***************************************************************************)
(* What the particle exchange of domain.c promises, with no tasks, buffers *)
(* or messages in sight.  Every processor holds some particles of every    *)
(* destination; a batch of particles travels in one hop from the processor *)
(* that holds it to the processor that owns its domain, never anywhere     *)
(* else, and never away from home; no particle is created or destroyed;    *)
(* in the end every particle is at home.                                   *)
(***************************************************************************)
EXTENDS Naturals

CONSTANTS Task,        \* the processors
          Kind,        \* the particle kinds that travel separately
          InitialHeld  \* the placements the redistribution may start from,
                       \* a subset of [Task -> [Task -> [Kind -> Nat]]]

(* held[t][d][k]: number of particles of kind k that processor t answers   *)
(* for and that belong to the domain of processor d.                       *)
VARIABLE held

RInit == held \in InitialHeld

Deliver(src, dst, k) ==
  /\ src # dst
  /\ \E n \in 1 .. held[src][dst][k] :
       held' = [held EXCEPT ![src][dst][k] = @ - n,
                            ![dst][dst][k] = @ + n]

RNext == \E src, dst \in Task : \E k \in Kind : Deliver(src, dst, k)

AllHome == \A t, d \in Task : \A k \in Kind : t # d => held[t][d][k] = 0

(* Every particle arrives, and stays.                                      *)
Arrival == <>[]AllHome

RSpec == RInit /\ [][RNext]_held /\ Arrival

(* Only the safety part of RSpec.                                          *)
RSafe == RInit /\ [][RNext]_held
===============================================================================
