----------------------------- MODULE DensityExport -----------------------------
(***************************************************************************)
(* The loop of density.c: every active gas particle is worked on by its    *)
(* own task and by every other task its smoothing region touches, until it *)
(* has enough neighbours.                                                  *)
(*                                                                         *)
(* A task fills its export buffer, particle by particle; the counts are    *)
(* gathered; the tasks then meet in pairs, in groups of pairs that go on   *)
(* as long as every receive buffer has room (a level); the received        *)
(* particles are evaluated, and the results go back in the same pairs.     *)
(* gravtree.c, hydra.c and potential.c do the same without the iteration.  *)
(*                                                                         *)
(* The export buffer is kept as one list for each destination, which is    *)
(* what sorting it and adding up noffset amounts to.  A list that is       *)
(* written anew before it is read again is emptied after its last use.     *)
(***************************************************************************)
EXTENDS Tasks, Sequences

CONSTANTS
  N_gas,
  BunchSizeDensity,
  MAXITER,
  Ti_Current,
  Endsteps,          \* the Ti_endstep to start with
  Reach,             \* sets of tasks that a particle's region may touch
  MaxAgain           \* bound on the particles of a task that are repeated

Gas(t) == 0 .. N_gas[t] - 1

ASSUME SizesAssumption ==
  /\ NTask \in Nat \ {0} /\ N_gas \in [Task -> Nat]
  /\ BunchSizeDensity \in Nat /\ BunchSizeDensity > NTask
  /\ MAXITER \in Nat
  /\ Ti_Current \in Nat /\ MaxAgain \in Nat
  /\ \A f \in Endsteps : DOMAIN f = Task /\ \A t \in Task : f[t] \in [Gas(t) -> Nat]
  /\ \A t \in Task : \A i \in Gas(t) : Reach[t][i] \subseteq SUBSET (Task \ {t})

VARIABLES
  pc,          \* "fill", "counts", "send", "barrier", "return", "round",
               \* "final", "left", "restore", "done", "abort"
  Ti_endstep,
  next,        \* i: the next particle to be looked at
  DensDataIn,  \* indices of the particles exported to a task
  nexport, ndone,
  level, ngrp,
  nbuffer,     \* a task's copy of the fill of all receive buffers
  DensDataGet, DensDataResult,
  sums,        \* the results added to a particle since it was evaluated: how
               \* many, and which
  ntot, ntotleft, npleft, niter,
  touched      \* Exportflag of a particle when it was last evaluated in this
               \* iteration, or {Nobody}

particles == <<Ti_endstep, next>>

export == <<DensDataIn, nexport, ndone>>

groups == <<level, ngrp, nbuffer>>

buffers == <<DensDataGet, DensDataResult>>

results == <<sums, touched>>

totals == <<ntot, ntotleft, npleft, niter>>

vars == <<pc, particles, export, groups, buffers, results, totals>>

Goto(t, place) == pc' = [pc EXCEPT ![t] = place]

AllAt(place) == \A t \in Task : pc[t] = place

Active(t, i) == Ti_endstep[t][i] = Ti_Current

NumActive(t) == Cardinality({i \in Gas(t) : Active(t, i)})

Empty == EveryTask(EveryTask(<<>>))

NoResults == [number |-> 0, of |-> {}]

Unevaluated == [t \in Task |-> [i \in Gas(t) |-> NoResults]]

Nobody == -1

Untouched == [t \in Task |-> [i \in Gas(t) |-> {Nobody}]]

Init ==
  /\ Ti_endstep \in Endsteps
  /\ ntot = Total([t \in Task |-> NumActive(t)]) /\ ntotleft = ntot
  /\ pc = EveryTask(IF ntot > 0 THEN "fill" ELSE "final")
  /\ next = EveryTask(0)
  /\ DensDataIn = Empty /\ nexport = EveryTask(0) /\ ndone = EveryTask(0)
  /\ level = EveryTask(1) /\ ngrp = EveryTask(1) /\ nbuffer = EveryTask(EveryTask(0))
  /\ DensDataGet = EveryTask(<<>>) /\ DensDataResult = EveryTask(<<>>)
  /\ sums = Unevaluated /\ touched = Untouched
  /\ npleft = EveryTask(0) /\ niter = 0
-------------------------------------------------------------------------------
(* A particle may go to all other tasks; the margin keeps room for that.   *)
HasRoom(t) == nexport[t] < BunchSizeDensity - NTask

Evaluate(t, i) ==
  \E S \in Reach[t][i] :
    /\ touched' = [touched EXCEPT ![t][i] = S]
    /\ sums' = [sums EXCEPT ![t][i] = NoResults]
    /\ DensDataIn' = [DensDataIn EXCEPT ![t] =
                        [u \in Task |-> IF u \in S THEN Append(@[u], i) ELSE @[u]]]
    /\ nexport' = [nexport EXCEPT ![t] = @ + Cardinality(S)]
    /\ ndone' = [ndone EXCEPT ![t] = @ + 1]

Fill(t) ==
  /\ pc[t] = "fill" /\ next[t] < N_gas[t] /\ HasRoom(t)
  /\ next' = [next EXCEPT ![t] = @ + 1]
  /\ IF Active(t, next[t]) THEN Evaluate(t, next[t]) ELSE UNCHANGED <<export, results>>
  /\ UNCHANGED <<pc, Ti_endstep, groups, buffers, totals>>

FillEnds(t) ==
  /\ pc[t] = "fill" /\ (next[t] >= N_gas[t] \/ ~HasRoom(t))
  /\ Goto(t, "counts")
  /\ UNCHANGED <<particles, export, groups, buffers, results, totals>>

nsend(t, u) == Len(DensDataIn[t][u])

(* MPI_Allgather of the counts; the first level begins.                    *)
GatherCounts ==
  /\ AllAt("counts")
  /\ pc' = EveryTask(IF Groups > 1 THEN "send" ELSE "round")
  /\ level' = EveryTask(1) /\ ngrp' = EveryTask(1) /\ nbuffer' = EveryTask(EveryTask(0))
  /\ UNCHANGED <<particles, export, buffers, results, totals>>
-------------------------------------------------------------------------------
(* Received by task j in a group of pairs.                                 *)
Incoming(j, n) == IF PairedBy[<<j, n>>] < NTask THEN nsend(PairedBy[<<j, n>>], j) ELSE 0

(* Mutant: the receive buffers are not looked at.                          *)
LevelFullNever(t) == FALSE

(* maxfill: the next group might overfill some task's receive buffer.      *)
LevelFull(t) ==
  \E j \in Task : PairedBy[<<j, ngrp[t]>>] < NTask
                  /\ nbuffer[t][j] + Incoming(j, ngrp[t]) >= BunchSizeDensity

LevelOver(t) == ngrp[t] < Groups => LevelFull(t)

Partner(t) == PairedBy[<<t, ngrp[t]>>]

NothingToSend(t) ==
  Partner(t) < NTask => nsend(t, Partner(t)) = 0 /\ nsend(Partner(t), t) = 0

(* The end of the loop's body, for the tasks in T.                         *)
Count(T) ==
  /\ nbuffer' = [t \in Task |-> IF t \in T
                                THEN [j \in Task |-> nbuffer[t][j] + Incoming(j, ngrp[t])]
                                ELSE nbuffer[t]]
  /\ ngrp' = [t \in Task |-> IF t \in T THEN ngrp[t] + 1 ELSE ngrp[t]]
  /\ UNCHANGED <<pc, level>>

Skip(t) ==
  /\ pc[t] \in {"send", "return"} /\ ~LevelOver(t) /\ NothingToSend(t)
  /\ Count({t})
  /\ UNCHANGED <<particles, export, buffers, results, totals>>

(* Two tasks have come to the same MPI_Sendrecv.                           *)
Meet(t, u, place) ==
  /\ t < u /\ pc[t] = place /\ pc[u] = place
  /\ ~LevelOver(t) /\ ~LevelOver(u)
  /\ Partner(t) = u /\ Partner(u) = t
  /\ ~NothingToSend(t)

Received(t, u) == [x \in 1 .. nsend(u, t) |-> [from |-> u, index |-> DensDataIn[u][t][x]]]

Send(t, u) ==
  /\ Meet(t, u, "send")
  /\ DensDataGet' = [DensDataGet EXCEPT ![t] = @ \o Received(t, u), ![u] = @ \o Received(u, t)]
  /\ Count({t, u})
  /\ UNCHANGED <<particles, export, DensDataResult, results, totals>>

(* The received particles are evaluated.                                   *)
EvaluateReceived(t) ==
  /\ pc[t] = "send" /\ LevelOver(t)
  /\ DensDataResult' = [DensDataResult EXCEPT ![t] =
                          [x \in 1 .. nbuffer[t][t] |-> [for |-> DensDataGet[t][x], by |-> t]]]
  /\ DensDataGet' = [DensDataGet EXCEPT ![t] = <<>>]
  /\ Goto(t, "barrier")
  /\ UNCHANGED <<particles, export, groups, results, totals>>

(* MPI_Barrier; the same groups of pairs again.                            *)
Barrier ==
  /\ AllAt("barrier")
  /\ pc' = EveryTask("return")
  /\ ngrp' = level /\ nbuffer' = EveryTask(EveryTask(0))
  /\ UNCHANGED <<particles, export, level, buffers, results, totals>>

(* Mutant: the results are taken from the beginning of the buffer.         *)
ReturnedFirst(t, u, x) == [place |-> DensDataIn[t][u][x], result |-> DensDataResult[u][x]]

(* A result that u has worked out for t, and the particle of t it is for.  *)
Returned(t, u, x) ==
  [place |-> DensDataIn[t][u][x], result |-> DensDataResult[u][nbuffer[u][u] + x]]

(* The results that task u sent are added to the particles of t.           *)
Added(t, u) ==
  [i \in Gas(t) |->
     LET for == {x \in 1 .. nsend(t, u) : DensDataIn[t][u][x] = i}
     IN  [number |-> sums[t][i].number + Cardinality(for),
          of |-> sums[t][i].of \cup {Returned(t, u, x) : x \in for}]]

Return(t, u) ==
  /\ Meet(t, u, "return")
  /\ sums' = [sums EXCEPT ![t] = Added(t, u), ![u] = Added(u, t)]
  /\ Count({t, u})
  /\ UNCHANGED <<particles, export, buffers, touched, totals>>

LevelEnds(t) ==
  /\ pc[t] = "return" /\ LevelOver(t)
  /\ level' = [level EXCEPT ![t] = ngrp[t]]
  /\ nbuffer' = [nbuffer EXCEPT ![t] = EveryTask(0)]
  /\ DensDataResult' = [DensDataResult EXCEPT ![t] = <<>>]
  /\ Goto(t, IF ngrp[t] < Groups THEN "send" ELSE "round")
  /\ UNCHANGED <<particles, export, ngrp, DensDataGet, results, totals>>
-------------------------------------------------------------------------------
(* MPI_Allgather of the numbers of particles done in this round.           *)
RoundEnds ==
  /\ AllAt("round")
  /\ ntotleft' = ntotleft - Total(ndone)
  /\ pc' = EveryTask(IF ntotleft' > 0 THEN "fill" ELSE "final")
  /\ DensDataIn' = Empty /\ nexport' = EveryTask(0) /\ ndone' = EveryTask(0)
  /\ UNCHANGED <<particles, groups, buffers, results, ntot, npleft, niter>>

Marked(x) == -x - 1

(* Particles with the wrong number of neighbours and an open bracket are   *)
(* repeated with another Hsml; the others are marked.                      *)
Decide(t) ==
  /\ pc[t] = "final"
  /\ \E again \in SUBSET {i \in Gas(t) : Active(t, i)} :
       /\ Cardinality(again) <= MaxAgain
       /\ npleft' = [npleft EXCEPT ![t] = Cardinality(again)]
       /\ Ti_endstep' = [Ti_endstep EXCEPT ![t] =
            [i \in Gas(t) |-> IF Active(t, i) /\ i \notin again THEN Marked(@[i]) ELSE @[i]]]
  /\ Goto(t, "left")
  /\ UNCHANGED <<next, export, groups, buffers, results, ntot, ntotleft, niter>>

(* MPI_Allgather of the numbers of particles to be repeated.               *)
GatherLeft ==
  /\ AllAt("left")
  /\ ntot' = Total(npleft)
  /\ niter' = IF ntot' > 0 THEN niter + 1 ELSE niter
  /\ pc' = EveryTask(IF ntot' = 0 THEN "restore" ELSE IF niter' > MAXITER THEN "abort" ELSE "fill")
  /\ ntotleft' = ntot' /\ next' = EveryTask(0)
  /\ sums' = Unevaluated /\ touched' = Untouched
  /\ npleft' = EveryTask(0)
  /\ UNCHANGED <<Ti_endstep, export, groups, buffers>>

Restore(t) ==
  /\ pc[t] = "restore"
  /\ Ti_endstep' = [Ti_endstep EXCEPT ![t] =
                      [i \in Gas(t) |-> IF @[i] < 0 THEN -@[i] - 1 ELSE @[i]]]
  /\ Goto(t, "done")
  /\ UNCHANGED <<next, export, groups, buffers, results, totals>>

Next ==
  \/ GatherCounts \/ Barrier \/ RoundEnds \/ GatherLeft
  \/ \E t \in Task : \/ Fill(t) \/ FillEnds(t) \/ Skip(t) \/ EvaluateReceived(t)
                     \/ LevelEnds(t) \/ Decide(t) \/ Restore(t)
                     \/ \E u \in Task : Send(t, u) \/ Return(t, u)

Spec == Init /\ [][Next]_vars /\ WF_vars(Next)
-------------------------------------------------------------------------------
Place == {"fill", "counts", "send", "barrier", "return", "round", "final", "left", "restore",
          "done", "abort"}

TypeOK ==
  /\ pc \in [Task -> Place]
  /\ \A t \in Task :
       /\ \A i \in Gas(t) : Ti_endstep[t][i] \in Nat \cup {Marked(Ti_Current)}
       /\ next[t] \in 0 .. N_gas[t]
       /\ \A u \in Task : \A x \in DOMAIN DensDataIn[t][u] : DensDataIn[t][u][x] \in Gas(t)
       /\ nexport[t] \in Nat /\ ndone[t] \in 0 .. N_gas[t] /\ npleft[t] \in 0 .. N_gas[t]
       /\ level[t] \in 1 .. Groups /\ ngrp[t] \in level[t] .. Groups
  /\ ntot \in Nat /\ ntotleft \in Nat /\ niter \in 0 .. MAXITER + 1

(* The export buffer and the receive buffer, both for BunchSizeDensity     *)
(* particles, never overflow, and what is counted in nbuffer is there.     *)
BuffersHold ==
  \A t \in Task :
    /\ nexport[t] <= BunchSizeDensity
    /\ Len(DensDataGet[t]) <= BunchSizeDensity
    /\ pc[t] = "send" => Len(DensDataGet[t]) = nbuffer[t][t]

(* When the neighbours of a particle are counted, every task its region    *)
(* touches has added its part exactly once, and worked it out for this     *)
(* very particle: in every iteration, however often the buffers were       *)
(* filled and the groups of pairs cut into levels.                         *)
EachOnce ==
  \A t \in Task : pc[t] = "final" =>
    \A i \in Gas(t) : Active(t, i) =>
      /\ sums[t][i].number = Cardinality(touched[t][i])
      /\ sums[t][i].of =
           {[place |-> i, result |-> [for |-> [from |-> t, index |-> i], by |-> u]] :
              u \in touched[t][i]}

(* The function ends, or the run when an iteration too many is needed: no  *)
(* task waits for a partner that looks elsewhere, every round makes        *)
(* progress; and all time steps are again what they were, whatever marks   *)
(* the iterations set, so that the active particles are active for the     *)
(* hydrodynamic forces.                                                    *)
Aborted == AllAt("abort")

DensityEnds ==
  \A f \in Endsteps : Ti_endstep = f => <>[](Aborted \/ (AllAt("done") /\ Ti_endstep = f))
===============================================================================
