------------------------------ MODULE RestartFiles ------------------------------
(***************************************************************************)
(* Writing and reading the restart files (restart.c), with crashes.        *)
(*                                                                         *)
(* Every task has a file of its own and its predecessor, renamed to .bak.  *)
(* The tasks are divided into groups that work at the same time; in a      *)
(* group one task after the other has its turn, with a barrier of all      *)
(* tasks after each turn.  A file that was written to its end is whole.    *)
(* A job that went down is started again by hand, after the files of the   *)
(* latest set that every task has were put in place.                       *)
(***************************************************************************)
EXTENDS Integers, FiniteSets

CONSTANTS NTask, NumFilesWrittenInParallel,
          MaxTime       \* bound on the steps of the main loop

ASSUME SizesAssumption ==
  /\ NTask \in Nat \ {0} /\ MaxTime \in Nat
  /\ NumFilesWrittenInParallel \in 1 .. NTask

Task == 0 .. NTask - 1

NoTime == -1

None == [time |-> NoTime, whole |-> FALSE]

VARIABLES
  job,        \* "run", "write" (restart(0)), "read" (restart(1)), "down"
  file, bak,  \* the files of a task; None if there is none
  Time,       \* All.Time of a task
  all_task0,  \* the time of task 0 that the broadcast brought to a task
  cast,       \* the broadcast message, or NoTime
  groupTask,  \* loop variable of a task
  pc          \* "turn", "renamed", "bcast", "check", "open", "barrier"

files == <<file, bak>>

loop == <<groupTask, pc>>

vars == <<job, files, Time, all_task0, cast, loop>>

(* Mutant: the remainder of the division is forgotten.                     *)
nprocgroupFloor == NTask \div NumFilesWrittenInParallel

nprocgroup ==
  NTask \div NumFilesWrittenInParallel + (IF NTask % NumFilesWrittenInParallel > 0 THEN 1 ELSE 0)

masterTask(t) == (t \div nprocgroup) * nprocgroup

MyTurn(t) == t = masterTask(t) + groupTask[t]

Init ==
  /\ job = "run"
  /\ file = [t \in Task |-> None] /\ bak = [t \in Task |-> None]
  /\ Time = [t \in Task |-> 0]
  /\ all_task0 = [t \in Task |-> NoTime] /\ cast = NoTime
  /\ groupTask = [t \in Task |-> 0] /\ pc = [t \in Task |-> "barrier"]
-------------------------------------------------------------------------------
(* A step of the main loop.                                                *)
Run ==
  /\ job = "run"
  /\ \A t \in Task : Time[t] < MaxTime
  /\ Time' = [t \in Task |-> Time[t] + 1]
  /\ UNCHANGED <<job, files, all_task0, cast, loop>>

(* Mutant: the loop variable is not reset.                                 *)
BeginAgain(modus) ==
  /\ job' = modus
  /\ pc' = [t \in Task |-> "turn"]
  /\ cast' = NoTime
  /\ UNCHANGED <<files, Time, all_task0, groupTask>>

Begin(modus) ==
  /\ job' = modus
  /\ groupTask' = [t \in Task |-> 0] /\ pc' = [t \in Task |-> "turn"]
  /\ cast' = NoTime
  /\ UNCHANGED <<files, Time, all_task0>>

(* Time for a restart file, a stop, or the end of the run.                 *)
BeginWrite == job = "run" /\ Begin("write")

(* The program is started with RestartFlag 1.                              *)
BeginRead == job = "down" /\ Begin("read")

Goto(t, place) == pc' = [pc EXCEPT ![t] = place]

Down ==
  /\ job' = "down"
  /\ UNCHANGED <<files, Time, all_task0, cast, loop>>

(* Mutant: the file is written over the old one, as it is when calls of    *)
(* system are compiled out.                                                *)
RenameNothing(t) ==
  /\ job = "write" /\ pc[t] = "turn" /\ MyTurn(t)
  /\ Goto(t, "renamed")
  /\ UNCHANGED <<job, files, Time, all_task0, cast, groupTask>>

(* mv of the old file; it fails if there is none.                          *)
RenameToBak(t) ==
  /\ job = "write" /\ pc[t] = "turn" /\ MyTurn(t)
  /\ IF file[t] = None THEN UNCHANGED files
     ELSE bak' = [bak EXCEPT ![t] = file[t]] /\ file' = [file EXCEPT ![t] = None]
  /\ Goto(t, "renamed")
  /\ UNCHANGED <<job, Time, all_task0, cast, groupTask>>

OpenForWriting(t) ==
  /\ job = "write" /\ pc[t] = "renamed"
  /\ file' = [file EXCEPT ![t] = [time |-> Time[t], whole |-> FALSE]]
  /\ Goto(t, "open")
  /\ UNCHANGED <<job, bak, Time, all_task0, cast, groupTask>>

CannotOpen(t) == job = "write" /\ pc[t] = "renamed" /\ Down

Written(t) ==
  /\ job = "write" /\ pc[t] = "open"
  /\ file' = [file EXCEPT ![t].whole = TRUE]
  /\ Goto(t, "barrier")
  /\ UNCHANGED <<job, bak, Time, all_task0, cast, groupTask>>
-------------------------------------------------------------------------------
(* Mutant: task 0, which has the data, does not take part in the broadcast.*)
ReadCommonNoRoot(t) ==
  /\ job = "read" /\ pc[t] = "turn" /\ MyTurn(t)
  /\ file[t] # None
  /\ Time' = [Time EXCEPT ![t] = file[t].time]
  /\ all_task0' = IF t = 0 THEN [all_task0 EXCEPT ![t] = file[t].time] ELSE all_task0
  /\ Goto(t, IF groupTask[t] = 0 /\ t # 0 THEN "bcast" ELSE "check")
  /\ UNCHANGED <<job, files, cast, groupTask>>

(* The common data; in the first turn a broadcast of those of task 0.      *)
ReadCommon(t) ==
  /\ job = "read" /\ pc[t] = "turn" /\ MyTurn(t)
  /\ file[t] # None
  /\ Time' = [Time EXCEPT ![t] = file[t].time]
  /\ all_task0' = IF t = 0 THEN [all_task0 EXCEPT ![t] = file[t].time] ELSE all_task0
  /\ Goto(t, IF groupTask[t] = 0 THEN "bcast" ELSE "check")
  /\ UNCHANGED <<job, files, cast, groupTask>>

(* No file, or one that ends too early.                                    *)
CannotRead(t) ==
  /\ job = "read" /\ ~file[t].whole
  /\ pc[t] = "open" \/ (pc[t] = "turn" /\ MyTurn(t))
  /\ Down

(* Another task's turn.                                                    *)
WaitInGroup(t) ==
  /\ job \in {"read", "write"} /\ pc[t] = "turn" /\ ~MyTurn(t)
  /\ Goto(t, IF job = "read" /\ groupTask[t] = 0 THEN "bcast" ELSE "barrier")
  /\ UNCHANGED <<job, files, Time, all_task0, cast, groupTask>>

BcastFromTask0 ==
  /\ job = "read" /\ pc[0] = "bcast"
  /\ cast' = all_task0[0]
  /\ Goto(0, "check")
  /\ UNCHANGED <<job, files, Time, all_task0, groupTask>>

BcastArrives(t) ==
  /\ job = "read" /\ t # 0 /\ pc[t] = "bcast" /\ cast # NoTime
  /\ all_task0' = [all_task0 EXCEPT ![t] = cast]
  /\ Goto(t, IF MyTurn(t) THEN "check" ELSE "barrier")
  /\ UNCHANGED <<job, files, Time, cast, groupTask>>

(* Mutant: the times are not compared.                                     *)
NoCheck(t) ==
  /\ job = "read" /\ pc[t] = "check"
  /\ Goto(t, "open")
  /\ UNCHANGED <<job, files, Time, all_task0, cast, groupTask>>

Consistent(t) ==
  /\ job = "read" /\ pc[t] = "check" /\ all_task0[t] = Time[t]
  /\ Goto(t, "open")
  /\ UNCHANGED <<job, files, Time, all_task0, cast, groupTask>>

NotConsistent(t) == job = "read" /\ pc[t] = "check" /\ all_task0[t] # Time[t] /\ Down

ReadRest(t) ==
  /\ job = "read" /\ pc[t] = "open" /\ file[t].whole
  /\ Goto(t, "barrier")
  /\ UNCHANGED <<job, files, Time, all_task0, cast, groupTask>>
-------------------------------------------------------------------------------
(* MPI_Barrier: all tasks have come to it; the loop goes on or ends.  A run *)
(* that was stopped, or is over, goes down after its last files.           *)
Barrier ==
  /\ job \in {"read", "write"}
  /\ \A t \in Task : pc[t] = "barrier"
  /\ groupTask' = [t \in Task |-> groupTask[t] + 1]
  /\ IF groupTask'[0] < nprocgroup
     THEN pc' = [t \in Task |-> "turn"] /\ job' = job
     ELSE pc' = pc /\ job' \in (IF job = "read" THEN {"run"} ELSE {"run", "down"})
  /\ UNCHANGED <<files, Time, all_task0, cast>>

(* A crash of the machine, or endrun on any task, at any time.             *)
Crash == job # "down" /\ Down

Has(t, time) == [time |-> time, whole |-> TRUE] \in {file[t], bak[t]}

(* The sets of which every task has a file, under either name.             *)
Available == {time \in 0 .. MaxTime : \A t \in Task : Has(t, time)}

(* By hand: the .bak files of the latest set get their names back, where   *)
(* the file is of another set; the .bak is moved or copied.                *)
PutInPlace ==
  /\ job = "down"
  /\ \E latest \in Available :
       /\ \A other \in Available : other <= latest
       /\ \E t \in Task : ~(file[t].whole /\ file[t].time = latest)
       /\ file' = [t \in Task |-> [time |-> latest, whole |-> TRUE]]
  /\ bak' \in {bak, [t \in Task |-> IF file[t] = file'[t] THEN bak[t] ELSE None]}
  /\ UNCHANGED <<job, Time, all_task0, cast, loop>>

TaskStep(t) ==
  \/ RenameToBak(t) \/ OpenForWriting(t) \/ CannotOpen(t) \/ Written(t)
  \/ ReadCommon(t) \/ CannotRead(t) \/ WaitInGroup(t) \/ BcastArrives(t)
  \/ Consistent(t) \/ NotConsistent(t) \/ ReadRest(t)

Progress == Barrier \/ BcastFromTask0 \/ \E t \in Task : TaskStep(t)

Next == Progress \/ Run \/ BeginWrite \/ BeginRead \/ Crash \/ PutInPlace

Spec == Init /\ [][Next]_vars /\ WF_vars(Progress)
-------------------------------------------------------------------------------
Image == {None} \cup [time : 0 .. MaxTime, whole : BOOLEAN]

TypeOK ==
  /\ job \in {"run", "write", "read", "down"}
  /\ file \in [Task -> Image] /\ bak \in [Task -> Image]
  /\ Time \in [Task -> 0 .. MaxTime]
  /\ all_task0 \in [Task -> -1 .. MaxTime] /\ cast \in -1 .. MaxTime
  /\ groupTask \in [Task -> 0 .. nprocgroup]
  /\ pc \in [Task -> {"turn", "renamed", "bcast", "check", "open", "barrier"}]

(* The newest set of which every task has a whole file never gets older,   *)
(* whenever a job crashes: no .bak is overwritten too early.               *)
NothingLost == [][\A time \in Available : \E later \in Available' : later >= time]_vars

(* "Maximum number of files that may be written simultaneously when        *)
(* writing/reading restart-files" (allvars.h:265).                         *)
FileOpen(t) ==
  \/ job = "write" /\ pc[t] = "open"
  \/ job = "read" /\ MyTurn(t) /\ pc[t] \in {"bcast", "check", "open"}

ParallelBounded == Cardinality({t \in Task : FileOpen(t)}) <= NumFilesWrittenInParallel

(* A job never runs with files of different sets ("not consistent with the *)
(* one on task=0", restart.c:127), however the sets were broken off.       *)
OneSet == job = "run" => \A t, u \in Task : Time[t] = Time[u]

(* Reading and writing come to an end: no task is left alone in a          *)
(* broadcast or a barrier.                                                 *)
RestartEnds == job \in {"read", "write"} ~> job \in {"run", "down"}
===============================================================================
