------------------------------ MODULE ForceLoops -------------------------------
(***************************************************************************)
(* The loops of gravity_tree, compute_potential, gravity_forcetest and     *)
(* hydro_force.  They export particles in the rounds and levels of         *)
(* DensityExport, but each has its own particles, counts, marks, buffers   *)
(* and collective calls, and they follow each other in                     *)
(* compute_accelerations.                                                  *)
(*                                                                         *)
(* The three loops of gravity keep a table of indices beside CommBuffer,   *)
(* and let results overwrite what was sent (GravDataOut is GravDataIn) and *)
(* what was received (GravDataResult is GravDataGet).  A loop adds to      *)
(* fields of its own; here the parts that a particle got from the present  *)
(* loop stand for them: how many, and which.                               *)
(***************************************************************************)
EXTENDS Tasks, Sequences

CONSTANTS
  NumPart,           \* of a task; gas is in front
  NumGas,            \* N_gas
  NoGravity,         \* particles of the types in SELECTIVE_NO_GRAVITY
  BunchSizeForce, BunchSizeHydro,
  RelativeCriterion, \* TypeOfOpeningCriterion == 1
  Situations         \* what the loops may be called with: records of
                     \* potential (or compute_accelerations), Ti_Current,
                     \* Ti_endstep, walk (the tasks on which a particle's
                     \* walk ends) and random (chosen for the force test)

OnTask(t) == 0 .. NumPart[t] - 1

ASSUME LoopSizesAssumption ==
  /\ NTask \in Nat \ {0}
  /\ \A t \in Task : NumPart[t] \in Nat /\ NumGas[t] \in 0 .. NumPart[t]
  /\ BunchSizeForce \in Nat /\ BunchSizeForce > NTask
  /\ BunchSizeHydro \in Nat /\ BunchSizeHydro > NTask
  /\ RelativeCriterion \in BOOLEAN

ASSUME SituationsAssumption ==
  \A c \in Situations :
    /\ c.potential \in BOOLEAN /\ c.Ti_Current \in Nat
    /\ DOMAIN c.Ti_endstep = Task
    /\ \A t \in Task : /\ c.Ti_endstep[t] \in [OnTask(t) -> Nat]
                       /\ \A i \in OnTask(t) : c.walk[t][i] \subseteq Task \ {t}

VARIABLES
  case,              \* what they are called with
  calls,             \* the loops still to be run, the present one first
  lpc,               \* "begin", "fill", "counts", "send", "barrier", "return",
                     \* "round", "finish", "returned" or "over"
  endstep,           \* Ti_endstep
  NumForceUpdate,
  start,             \* i
  IndexTable,        \* GravDataIndexTable, and the indices in HydroDataIn
  exported,          \* nexport
  DataIn,            \* GravDataIn and GravDataOut; HydroDataIn
  DataGet,           \* GravDataGet and GravDataResult; HydroDataGet and -Result
  numdone,           \* ndone
  numleft,           \* ntotleft
  llevel, lngrp,
  lnbuffer,          \* a task's copy of the fill of all receive buffers
  parts,
  OldAcc,            \* whether a particle has one
  ErrTolTheta,       \* "set", or "zero": the relative criterion is used
  forcetest          \* the lines of each task in forcetest.txt

called == <<case, calls>>

marks == <<endstep, NumForceUpdate>>

listed == <<start, IndexTable, exported, numdone>>

buffered == <<DataIn, DataGet>>

pairing == <<llevel, lngrp, lnbuffer>>

criterion == <<OldAcc, ErrTolTheta>>

loop_vars == <<called, lpc, marks, listed, buffered, numleft, pairing, parts, criterion, forcetest>>

Loop == Head(calls)

OfGravity == Loop # "hydro"

LoopAt(place) == \A t \in Task : lpc[t] = place

Towards(t, place) == lpc' = [lpc EXCEPT ![t] = place]

Now == case.Ti_Current

Mark(x) == -x - 1

NoLists == EveryTask(EveryTask(<<>>))

NoParts == [t \in Task |-> [i \in OnTask(t) |-> [number |-> 0, of |-> {}]]]

(* Counted in find_next_sync_point_and_drift.                              *)
ToUpdate(t) == {i \in OnTask(t) : endstep[t][i] = Now /\ <<t, i>> \notin NoGravity}

(* compute_accelerations.  The first forces are worked out twice, so that  *)
(* the relative criterion has accelerations to compare with.               *)
Accelerations ==
  IF RelativeCriterion /\ Now = 0 THEN <<"gravity", "gravity", "direct", "hydro">>
  ELSE <<"gravity", "direct", "hydro">>

LoopsInit ==
  /\ case \in Situations
  /\ calls = IF case.potential THEN <<"potential">> ELSE Accelerations
  /\ endstep = case.Ti_endstep
  /\ NumForceUpdate = [t \in Task |-> Cardinality(ToUpdate(t))]
  /\ OldAcc = [t \in Task |-> [i \in OnTask(t) |-> Now > 0]]
  /\ ErrTolTheta = IF RelativeCriterion /\ Now > 0 THEN "zero" ELSE "set"
  /\ lpc = EveryTask("begin") /\ start = EveryTask(0)
  /\ IndexTable = NoLists /\ exported = EveryTask(0)
  /\ DataIn = NoLists /\ DataGet = EveryTask(<<>>)
  /\ numdone = EveryTask(0) /\ numleft = 0
  /\ llevel = EveryTask(1) /\ lngrp = EveryTask(1) /\ lnbuffer = EveryTask(EveryTask(0))
  /\ parts = NoParts
  /\ forcetest = EveryTask({})
-------------------------------------------------------------------------------
(* MPI_Allgather or MPI_Allreduce of what each task has to do.             *)
Begin(count) ==
  /\ LoopAt("begin")
  /\ numleft' = Total(count)
  /\ lpc' = EveryTask(IF numleft' > 0 THEN "fill" ELSE "finish")
  /\ start' = EveryTask(0)
  /\ parts' = NoParts
  /\ UNCHANGED <<called, IndexTable, exported, numdone, buffered, pairing, criterion, forcetest>>

(* Particles of some types are marked, those that are not active too.      *)
GravityBegins ==
  /\ Loop = "gravity" /\ Begin(NumForceUpdate)
  /\ endstep' = [t \in Task |-> [i \in OnTask(t) |->
                   IF <<t, i>> \in NoGravity THEN Mark(endstep[t][i]) ELSE endstep[t][i]]]
  /\ UNCHANGED NumForceUpdate

PotentialBegins ==
  /\ Loop = "potential" /\ Begin(NumPart)
  /\ UNCHANGED marks

(* A random part of the active particles is marked, and NumForceUpdate     *)
(* counts those.                                                           *)
Chosen(t) == {i \in OnTask(t) : endstep[t][i] = Now /\ <<t, i>> \in case.random}

DirectBegins ==
  /\ Loop = "direct"
  /\ endstep' = [t \in Task |-> [i \in OnTask(t) |->
                   IF i \in Chosen(t) THEN Mark(endstep[t][i]) ELSE endstep[t][i]]]
  /\ NumForceUpdate' = [t \in Task |-> Cardinality(Chosen(t))]
  /\ Begin([t \in Task |-> Cardinality(Chosen(t))])

HydroBegins ==
  /\ Loop = "hydro"
  /\ Begin([t \in Task |-> Cardinality({i \in 0 .. NumGas[t] - 1 : endstep[t][i] = Now})])
  /\ UNCHANGED marks
-------------------------------------------------------------------------------
BunchSize == IF OfGravity THEN BunchSizeForce ELSE BunchSizeHydro

EndOfLoop(t) == IF OfGravity THEN NumPart[t] ELSE NumGas[t]

(* The particles the present loop works on.                                *)
Wanted(t, i) ==
  CASE Loop = "potential" -> TRUE
    [] Loop = "direct" -> endstep[t][i] < 0
    [] OTHER -> endstep[t][i] = Now

(* Exportflag after a particle's evaluation by its own task: where its walk *)
(* ended in pseudo particles; for the direct sum all other tasks.          *)
Exportflag(t, i) == IF Loop = "direct" THEN Task \ {t} ELSE case.walk[t][i]

(* A particle may go to all other tasks; the margin keeps room for that.   *)
ListHasRoom(t) == exported[t] < BunchSize - NTask

(* The relative criterion needs the last acceleration.                     *)
Informed(t, i) == ErrTolTheta = "set" \/ OldAcc[t][i] \/ <<t, i>> \in NoGravity

Part(t, i, u, informed) == [for |-> <<t, i>>, by |-> u, informed |-> informed]

(* The evaluation sets what others will add to.                            *)
Export(t, i) ==
  /\ parts' = [parts EXCEPT ![t][i] = [number |-> 1, of |-> {Part(t, i, t, Informed(t, i))}]]
  /\ IndexTable' = [IndexTable EXCEPT ![t] =
       [u \in Task |-> IF u \in Exportflag(t, i) THEN Append(@[u], i) ELSE @[u]]]
  /\ exported' = [exported EXCEPT ![t] = @ + Cardinality(Exportflag(t, i))]
  /\ numdone' = [numdone EXCEPT ![t] = @ + 1]

FillList(t) ==
  /\ lpc[t] = "fill" /\ start[t] < EndOfLoop(t) /\ ListHasRoom(t)
  /\ start' = [start EXCEPT ![t] = @ + 1]
  /\ IF Wanted(t, start[t]) THEN Export(t, start[t])
     ELSE UNCHANGED <<parts, IndexTable, exported, numdone>>
  /\ UNCHANGED <<called, lpc, marks, buffered, numleft, pairing, criterion, forcetest>>

Request(t, i) == [particle |-> <<t, i>>, informed |-> Informed(t, i)]

Nsend(t, u) == Len(IndexTable[t][u])

Requests(t, u) == [x \in 1 .. Nsend(t, u) |-> Request(t, IndexTable[t][u][x])]

(* The list, sorted by tasks, is what will be sent.                        *)
ListEnds(t) ==
  /\ lpc[t] = "fill" /\ (start[t] >= EndOfLoop(t) \/ ~ListHasRoom(t))
  /\ DataIn' = [DataIn EXCEPT ![t] = [u \in Task |-> Requests(t, u)]]
  /\ Towards(t, "counts")
  /\ UNCHANGED <<called, marks, listed, DataGet, numleft, pairing, parts, criterion, forcetest>>

GatherNsend ==
  /\ LoopAt("counts")
  /\ lpc' = EveryTask(IF Groups > 1 THEN "send" ELSE "round")
  /\ llevel' = EveryTask(1) /\ lngrp' = EveryTask(1) /\ lnbuffer' = EveryTask(EveryTask(0))
  /\ UNCHANGED <<called, marks, listed, buffered, numleft, parts, criterion, forcetest>>
-------------------------------------------------------------------------------
Inflow(j, n) == IF PairedBy[<<j, n>>] < NTask THEN Nsend(PairedBy[<<j, n>>], j) ELSE 0

(* maxfill                                                                 *)
Overfull(t) ==
  \E j \in Task : PairedBy[<<j, lngrp[t]>>] < NTask
                  /\ lnbuffer[t][j] + Inflow(j, lngrp[t]) >= BunchSize

LevelBreaks(t) == lngrp[t] < Groups => Overfull(t)

recvTask(t) == PairedBy[<<t, lngrp[t]>>]

Quiet(t) == recvTask(t) < NTask => Nsend(t, recvTask(t)) = 0 /\ Nsend(recvTask(t), t) = 0

(* The end of the loop's body, for the tasks in T.                         *)
NextGroup(T) ==
  /\ lnbuffer' = [t \in Task |-> IF t \in T
                                 THEN [j \in Task |-> lnbuffer[t][j] + Inflow(j, lngrp[t])]
                                 ELSE lnbuffer[t]]
  /\ lngrp' = [t \in Task |-> IF t \in T THEN lngrp[t] + 1 ELSE lngrp[t]]
  /\ UNCHANGED <<lpc, llevel>>

PassGroup(t) ==
  /\ lpc[t] \in {"send", "return"} /\ ~LevelBreaks(t) /\ Quiet(t)
  /\ NextGroup({t})
  /\ UNCHANGED <<called, marks, listed, buffered, numleft, parts, criterion, forcetest>>

Pair(t, u, place) ==
  /\ t < u /\ lpc[t] = place /\ lpc[u] = place
  /\ ~LevelBreaks(t) /\ ~LevelBreaks(u)
  /\ recvTask(t) = u /\ recvTask(u) = t /\ ~Quiet(t)

(* What task u sends is put behind what t has counted; what an earlier     *)
(* level left there is overwritten.                                        *)
Arrivals(t, u) ==
  [x \in DOMAIN DataGet[t] \cup 1 .. lnbuffer[t][t] + Nsend(u, t) |->
     IF x > lnbuffer[t][t] /\ x <= lnbuffer[t][t] + Nsend(u, t)
     THEN DataIn[u][t][x - lnbuffer[t][t]] ELSE DataGet[t][x]]

Exchange(t, u) ==
  /\ Pair(t, u, "send")
  /\ DataGet' = [DataGet EXCEPT ![t] = Arrivals(t, u), ![u] = Arrivals(u, t)]
  /\ NextGroup({t, u})
  /\ UNCHANGED <<called, marks, listed, DataIn, numleft, parts, criterion, forcetest>>

(* Results overwrite what was received.                                    *)
Evaluated(t) ==
  [x \in DOMAIN DataGet[t] |->
     IF x > lnbuffer[t][t] THEN DataGet[t][x]
     ELSE [for |-> DataGet[t][x].particle, by |-> t, informed |-> DataGet[t][x].informed]]

(* Only the loops of gravity and of SPH forces wait after this.            *)
EvaluateImported(t) ==
  /\ lpc[t] = "send" /\ LevelBreaks(t)
  /\ DataGet' = [DataGet EXCEPT ![t] = Evaluated(t)]
  /\ IF Loop \in {"gravity", "hydro"}
     THEN Towards(t, "barrier") /\ UNCHANGED pairing
     ELSE /\ Towards(t, "return")
          /\ lngrp' = [lngrp EXCEPT ![t] = llevel[t]]
          /\ lnbuffer' = [lnbuffer EXCEPT ![t] = EveryTask(0)]
          /\ UNCHANGED llevel
  /\ UNCHANGED <<called, marks, listed, DataIn, numleft, parts, criterion, forcetest>>

AfterImported ==
  /\ LoopAt("barrier")
  /\ lpc' = EveryTask("return")
  /\ lngrp' = llevel /\ lnbuffer' = EveryTask(EveryTask(0))
  /\ UNCHANGED <<called, marks, llevel, listed, buffered, numleft, parts, criterion, forcetest>>

(* Mutant: results are taken from the beginning of the buffer.             *)
ResultsFirst(t, u) == [x \in 1 .. Nsend(t, u) |-> DataGet[u][x]]

(* What u sends to t, from the place in its buffer it has counted up to.   *)
Results(t, u) == [x \in 1 .. Nsend(t, u) |-> DataGet[u][lnbuffer[u][u] + x]]

(* The results that task u sent are added to the particles of t.           *)
WithResults(t, u) ==
  [i \in OnTask(t) |->
     LET for == {x \in 1 .. Nsend(t, u) : IndexTable[t][u][x] = i}
     IN  [number |-> parts[t][i].number + Cardinality(for),
          of |-> parts[t][i].of \cup {Results(t, u)[x] : x \in for}]]

(* For gravity they replace what was sent to that task.                    *)
GiveBack(t, u) ==
  /\ Pair(t, u, "return")
  /\ parts' = [parts EXCEPT ![t] = WithResults(t, u), ![u] = WithResults(u, t)]
  /\ DataIn' = IF OfGravity THEN [DataIn EXCEPT ![t][u] = Results(t, u), ![u][t] = Results(u, t)]
                            ELSE DataIn
  /\ NextGroup({t, u})
  /\ UNCHANGED <<called, marks, listed, DataGet, numleft, criterion, forcetest>>

LevelDone(t) ==
  /\ lpc[t] = "return" /\ LevelBreaks(t)
  /\ llevel' = [llevel EXCEPT ![t] = lngrp[t]]
  /\ lnbuffer' = [lnbuffer EXCEPT ![t] = EveryTask(0)]
  /\ Towards(t, IF lngrp[t] < Groups THEN "send" ELSE "round")
  /\ UNCHANGED <<called, marks, listed, lngrp, buffered, numleft, parts, criterion, forcetest>>

(* Another round begins with empty lists.                                  *)
RoundOver ==
  /\ LoopAt("round")
  /\ numleft' = numleft - Total(numdone)
  /\ lpc' = EveryTask(IF numleft' > 0 THEN "fill" ELSE "finish")
  /\ IndexTable' = NoLists /\ exported' = EveryTask(0) /\ numdone' = EveryTask(0)
  /\ UNCHANGED <<called, marks, start, buffered, pairing, parts, criterion, forcetest>>
-------------------------------------------------------------------------------
Unmarked == [t \in Task |-> [i \in OnTask(t) |->
               IF endstep[t][i] < 0 THEN Mark(endstep[t][i]) ELSE endstep[t][i]]]

(* All active particles with gravity have an acceleration to compare with. *)
GravityEnds ==
  /\ Loop = "gravity" /\ LoopAt("finish")
  /\ OldAcc' = [t \in Task |-> [i \in OnTask(t) |-> OldAcc[t][i] \/ endstep[t][i] = Now]]
  /\ ErrTolTheta' = IF RelativeCriterion THEN "zero" ELSE ErrTolTheta
  /\ endstep' = Unmarked
  /\ lpc' = EveryTask("returned")
  /\ UNCHANGED <<called, NumForceUpdate, listed, buffered, numleft, pairing, parts, forcetest>>

(* What is left to do on each task needs nobody else.                      *)
LoopEnds ==
  /\ Loop \in {"potential", "hydro"} /\ LoopAt("finish")
  /\ lpc' = EveryTask("returned")
  /\ UNCHANGED <<called, marks, listed, buffered, numleft, pairing, parts, criterion, forcetest>>

(* Tasks write to forcetest.txt in turns (nthis), with a barrier each.     *)
DirectPrints ==
  /\ Loop = "direct" /\ LoopAt("finish")
  /\ forcetest' = [t \in Task |-> {i \in OnTask(t) : endstep[t][i] < 0}]
  /\ endstep' = Unmarked
  /\ lpc' = EveryTask("returned")
  /\ UNCHANGED <<called, NumForceUpdate, listed, buffered, numleft, pairing, parts, criterion>>

(* CommBuffer is used anew by the next loop.                               *)
NextCall ==
  /\ LoopAt("returned")
  /\ lpc' = EveryTask(IF Len(calls) > 1 THEN "begin" ELSE "over")
  /\ calls' = IF Len(calls) > 1 THEN Tail(calls) ELSE calls
  /\ DataIn' = NoLists /\ DataGet' = EveryTask(<<>>)
  /\ UNCHANGED <<case, marks, listed, numleft, pairing, parts, criterion, forcetest>>
-------------------------------------------------------------------------------
(* The four functions, stage by stage.                                     *)
GravityFill(t) == Loop = "gravity" /\ FillList(t)
GravitySend(t, u) == Loop = "gravity" /\ Exchange(t, u)
GravityEvaluate(t) == Loop = "gravity" /\ EvaluateImported(t)
GravityReturn(t, u) == Loop = "gravity" /\ GiveBack(t, u)

PotentialFill(t) == Loop = "potential" /\ FillList(t)
PotentialSend(t, u) == Loop = "potential" /\ Exchange(t, u)
PotentialEvaluate(t) == Loop = "potential" /\ EvaluateImported(t)
PotentialReturn(t, u) == Loop = "potential" /\ GiveBack(t, u)

DirectFill(t) == Loop = "direct" /\ FillList(t)
DirectSend(t, u) == Loop = "direct" /\ Exchange(t, u)
DirectEvaluate(t) == Loop = "direct" /\ EvaluateImported(t)
DirectReturn(t, u) == Loop = "direct" /\ GiveBack(t, u)

HydroFill(t) == Loop = "hydro" /\ FillList(t)
HydroSend(t, u) == Loop = "hydro" /\ Exchange(t, u)
HydroEvaluate(t) == Loop = "hydro" /\ EvaluateImported(t)
HydroReturn(t, u) == Loop = "hydro" /\ GiveBack(t, u)

LoopsNext ==
  \/ GravityBegins \/ PotentialBegins \/ DirectBegins \/ HydroBegins
  \/ GatherNsend \/ AfterImported \/ RoundOver
  \/ GravityEnds \/ LoopEnds \/ DirectPrints \/ NextCall
  \/ \E t \in Task :
       \/ GravityFill(t) \/ PotentialFill(t) \/ DirectFill(t) \/ HydroFill(t)
       \/ GravityEvaluate(t) \/ PotentialEvaluate(t) \/ DirectEvaluate(t) \/ HydroEvaluate(t)
       \/ ListEnds(t) \/ PassGroup(t) \/ LevelDone(t)
       \/ \E u \in Task :
            \/ GravitySend(t, u) \/ PotentialSend(t, u) \/ DirectSend(t, u) \/ HydroSend(t, u)
            \/ GravityReturn(t, u) \/ PotentialReturn(t, u) \/ DirectReturn(t, u)
            \/ HydroReturn(t, u)

LoopsSpec == LoopsInit /\ [][LoopsNext]_loop_vars
-------------------------------------------------------------------------------
LoopPlace == {"begin", "fill", "counts", "send", "barrier", "return", "round", "finish",
              "returned", "over"}

LoopsTypeOK ==
  /\ lpc \in [Task -> LoopPlace]
  /\ NumForceUpdate \in [Task -> Nat] /\ numleft \in Nat
  /\ ErrTolTheta \in {"set", "zero"}
  /\ \A t \in Task :
       /\ start[t] \in 0 .. NumPart[t] /\ numdone[t] \in 0 .. NumPart[t]
       /\ exported[t] \in Nat
       /\ llevel[t] \in 1 .. Groups /\ lngrp[t] \in llevel[t] .. Groups
       /\ OldAcc[t] \in [OnTask(t) -> BOOLEAN]

(* The particles a loop is for: those of the time step with gravity, all,  *)
(* a random part of the active ones, or the active gas.                    *)
Due(t, i) ==
  LET active == case.Ti_endstep[t][i] = Now IN
  CASE Loop = "gravity" -> active /\ <<t, i>> \notin NoGravity
    [] Loop = "potential" -> TRUE
    [] Loop = "direct" -> active /\ <<t, i>> \in case.random
    [] Loop = "hydro" -> active /\ i < NumGas[t]

(* When a loop is over, each particle it is for has one part from its own  *)
(* task and one from every task it was exported to, worked out for it and  *)
(* nobody else, and others have none: whatever the loop before left in     *)
(* buffers, counts and marks.                                              *)
EachPartOnce ==
  LoopAt("returned") =>
    \A t \in Task : \A i \in OnTask(t) :
      LET by == IF Due(t, i) THEN {t} \cup Exportflag(t, i) ELSE {}
      IN  parts[t][i] = [number |-> Cardinality(by), of |-> {Part(t, i, u, TRUE) : u \in by}]

(* No buffer is used beyond its end.                                       *)
LoopBuffersHold ==
  \A t \in Task : exported[t] <= BunchSize /\ DOMAIN DataGet[t] \subseteq 1 .. BunchSize

(* A loop gives the time steps back as it found them, and the force test   *)
(* has a line for each of its particles.                                   *)
MarksUndone ==
  LoopAt("returned") =>
    /\ \A t \in Task : endstep[t] = case.Ti_endstep[t]
    /\ Loop = "direct" => forcetest = [t \in Task |-> {i \in OnTask(t) : Due(t, i)}]

(* What gravity, potential, force test and SPH forces promise together.    *)
LoopsExact == EachPartOnce /\ LoopBuffersHold /\ MarksUndone
===============================================================================
