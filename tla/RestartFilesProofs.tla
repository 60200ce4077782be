--------------------------- MODULE RestartFilesProofs ---------------------------
(***************************************************************************)
(* Proofs about RestartFiles, for any number of tasks and of files written *)
(* in parallel.                                                            *)
(*                                                                         *)
(* The argument: (1) while a set is written, its predecessor (the front)   *)
(* is whole, under its own name for the tasks that have not had their turn *)
(* and as .bak for the others, and no .bak is younger than it; (2) a task  *)
(* that has read its file has the time of task 0, which the broadcast      *)
(* brought to it before anything was compared.                             *)
(***************************************************************************)
EXTENDS RestartFiles, RestartLayout, FiniteSetTheorems, TLAPS

Turn(t) == t - masterTask(t)

LEMMA GroupSize ==
  /\ NTask \in Nat \ {0} /\ MaxTime \in Nat /\ NumFilesWrittenInParallel \in Nat \ {0}
  /\ nprocgroup \in Nat \ {0}
  /\ NTask <= NumFilesWrittenInParallel * nprocgroup
  <1> DEFINE n == NTask
             k == NumFilesWrittenInParallel
             q == n \div k
             r == n % k
  <1>1. n \in Nat \ {0} /\ MaxTime \in Nat /\ k \in Nat \ {0} /\ k <= n
    BY SizesAssumption
  <1>2. nprocgroup = q + (IF r > 0 THEN 1 ELSE 0)
    BY DEF nprocgroup
  <1> HIDE DEF n, k
  <1>3. q \in Nat /\ r \in Nat /\ r < k /\ n = k * q + r
    BY <1>1
  <1> HIDE DEF q, r
  <1>4. q # 0
    BY <1>1, <1>3
  <1>5. CASE r > 0
    <2>1. nprocgroup = q + 1
      BY <1>2, <1>5
    <2>2. k * (q + 1) = k * q + k
      BY <1>1, <1>3
    <2> QED BY <1>1, <1>3, <2>1, <2>2 DEF n, k
  <1>6. CASE ~(r > 0)
    BY <1>1, <1>2, <1>3, <1>4, <1>6 DEF n, k
  <1> QED BY <1>5, <1>6

(* The turns of the tasks of a group are 0, 1, ... nprocgroup - 1.         *)
LEMMA Turns ==
  /\ \A t \in Task : Turn(t) \in 0 .. nprocgroup - 1 /\ masterTask(t) \in Nat
  /\ 0 \in Task /\ Turn(0) = 0
  <1>1. NTask \in Nat \ {0} /\ nprocgroup \in Nat \ {0}
    BY GroupSize
  <1>2. \A t \in Nat : /\ t \div nprocgroup \in Nat
                       /\ t - (t \div nprocgroup) * nprocgroup \in 0 .. nprocgroup - 1
    <2> SUFFICES ASSUME NEW t \in Nat, NEW p \in Nat \ {0}
                 PROVE  t \div p \in Nat /\ t - (t \div p) * p \in 0 .. p - 1
      BY <1>1
    <2>1. t \div p \in Nat /\ (t % p) \in 0 .. p - 1 /\ t = p * (t \div p) + (t % p)
      OBVIOUS
    <2>2. (t \div p) * p = p * (t \div p)
      BY <2>1
    <2> QED BY <2>1, <2>2
  <1>3. \A t \in Nat : (t \div nprocgroup) * nprocgroup \in Nat
    BY <1>1, <1>2
  <1>4. 0 \in Task /\ \A t \in Task : t \in Nat
    BY <1>1 DEF Task
  <1>5. 0 \div nprocgroup = 0
    BY <1>1
  <1>6. masterTask(0) = 0 /\ Turn(0) = 0
    <2>1. masterTask(0) = 0 * nprocgroup
      BY <1>5 DEF masterTask
    <2> QED BY <1>1, <2>1 DEF Turn
  <1>7. ASSUME NEW t \in Task
        PROVE  Turn(t) \in 0 .. nprocgroup - 1 /\ masterTask(t) \in Nat
    <2>1. t \in Nat
      BY <1>4
    <2> QED BY <2>1, <1>2, <1>3 DEF Turn, masterTask
  <1> QED BY <1>4, <1>6, <1>7

LEMMA MyTurnIsTurn ==
  ASSUME NEW t \in Task, groupTask[t] \in Nat
  PROVE  MyTurn(t) <=> Turn(t) = groupTask[t]
  <1>1. t \in Nat /\ masterTask(t) \in Nat
    BY Turns, GroupSize DEF Task
  <1> QED BY <1>1 DEF MyTurn, Turn
-------------------------------------------------------------------------------
(* The control: all tasks are in the same turn of the loop, and only the   *)
(* task whose turn it is has a file in its hands.                          *)
Together == \A t, u \in Task : groupTask[t] = groupTask[u]

InLoop == job \in {"read", "write"}

InTurn == InLoop => \A t \in Task : groupTask[t] < nprocgroup

WritePlace(t) ==
  job = "write" => /\ pc[t] \in {"turn", "renamed", "open", "barrier"}
                   /\ pc[t] \in {"renamed", "open"} => Turn(t) = groupTask[t]
                   /\ pc[t] = "open" => file[t] # None

ReadPlace(t) ==
  job = "read" => /\ pc[t] \in {"turn", "bcast", "check", "open", "barrier"}
                  /\ pc[t] \in {"check", "open"} => Turn(t) = groupTask[t]
                  /\ pc[t] = "bcast" => groupTask[t] = 0

Control == TypeOK /\ Together /\ InTurn /\ \A t \in Task : WritePlace(t) /\ ReadPlace(t)

(* The broadcast: nothing arrives but the time of task 0.                  *)
Casting ==
  job = "read" =>
    /\ groupTask[0] = 0 /\ pc[0] = "turn" => cast = NoTime
    /\ cast # NoTime => cast = all_task0[0]
    /\ \A t \in Task : t # 0 /\ groupTask[t] = 0 /\ pc[t] \in {"check", "open", "barrier"} =>
         cast # NoTime /\ all_task0[t] = all_task0[0]
    /\ \A t \in Task : groupTask[t] > 0 => all_task0[t] = all_task0[0]

(* What a task knows of its file while it reads it.                        *)
HasRead(t) == Turn(t) = groupTask[t] /\ pc[t] \in {"bcast", "check", "open", "barrier"}

HasCompared(t) ==
  Turn(t) < groupTask[t] \/ (Turn(t) = groupTask[t] /\ pc[t] \in {"open", "barrier"})

IsThrough(t) ==
  Turn(t) < groupTask[t] \/ (Turn(t) = groupTask[t] /\ pc[t] = "barrier")

Reading(t) ==
  job = "read" => /\ HasRead(t) => Time[t] = file[t].time
                  /\ HasCompared(t) => Time[t] = file[t].time /\ Time[t] = all_task0[t]
                  /\ IsThrough(t) => file[t].whole

(* The files: no .bak is younger than the file, and a .bak is no younger   *)
(* than the latest set that every task has.                                *)
Sound(t) ==
  /\ file[t].whole => bak[t].time <= file[t].time
  /\ bak[t] # None => bak[t].whole

Secure(t) == bak[t] # None => \E a \in Available : bak[t].time <= a

NotRenamed(t) ==
  job = "run" \/ Turn(t) > groupTask[t] \/ (Turn(t) = groupTask[t] /\ pc[t] = "turn")

(* X is the set before the one that is written.                            *)
FrontOf(t, X) ==
  IF NotRenamed(t) THEN file[t] = X
  ELSE /\ bak[t] = X
       /\ pc[t] = "renamed" => file[t] = None
       /\ pc[t] = "open" => file[t] = [time |-> Time[t], whole |-> FALSE]
       /\ IsThrough(t) => file[t] = [time |-> Time[t], whole |-> TRUE]

Front(X) ==
  /\ IF X = None THEN \A t \in Task : bak[t] = None
     ELSE X.whole /\ \A t \in Task : X.time <= Time[t]
  /\ \A t \in Task : FrontOf(t, X)

Running == job \in {"run", "write"} =>
             /\ \A t, u \in Task : Time[t] = Time[u]
             /\ \E X \in Image : Front(X)

Files == (\A t \in Task : Sound(t) /\ Secure(t)) /\ Running

Inv == Control /\ Casting /\ (\A t \in Task : Reading(t)) /\ Files
-------------------------------------------------------------------------------
LEMMA IsImage ==
  ASSUME NEW i \in Image
  PROVE  /\ i = [time |-> i.time, whole |-> i.whole]
         /\ i.time \in -1 .. MaxTime /\ i.whole \in BOOLEAN
         /\ i # None => i.time \in 0 .. MaxTime
         /\ i.whole => i # None
         /\ i.time = -1 => i = None
  <1>1. CASE i = None
    BY <1>1, GroupSize DEF None, NoTime
  <1>2. CASE i # None
    <2>1. i \in [time : 0 .. MaxTime, whole : BOOLEAN]
      BY <1>2 DEF Image
    <2> QED BY <2>1, <1>2, GroupSize
  <1> QED BY <1>1, <1>2

LEMMA StartsSound == Init => Inv
  <1> SUFFICES ASSUME Init PROVE Inv
    OBVIOUS
  <1> USE GroupSize, Turns
  <1>1. TypeOK
    BY DEF Init, TypeOK, Image, None, NoTime
  <1>2. Control
    BY <1>1 DEF Init, Control, Together, InTurn, InLoop, WritePlace, ReadPlace
  <1>3. Casting /\ \A t \in Task : Reading(t)
    BY DEF Init, Casting, Reading
  <1>4. \A t \in Task : Sound(t) /\ Secure(t)
    BY DEF Init, Sound, Secure, None, NoTime
  <1>5. None \in Image /\ Front(None)
    BY DEF Init, Front, FrontOf, NotRenamed, None, NoTime, Image
  <1>6. Running
    BY <1>5 DEF Init, Running
  <1> QED BY <1>2, <1>3, <1>4, <1>6 DEF Inv, Files

(* Every action keeps the types.                                           *)
LEMMA TypeStep ==
  ASSUME Control, [Next]_vars
  PROVE  TypeOK'
  <1> USE GroupSize, Turns DEF TypeOK, Control
  <1>1. CASE Run
    BY <1>1 DEF Run, files, loop
  <1>2. CASE BeginWrite \/ BeginRead
    BY <1>2 DEF BeginWrite, BeginRead, Begin, files, NoTime
  <1>3. CASE Crash
    BY <1>3 DEF Crash, Down, files, loop
  <1>4. CASE PutInPlace
    <2>1. PICK latest \in 0 .. MaxTime :
            /\ file' = [t \in Task |-> [time |-> latest, whole |-> TRUE]]
            /\ bak' \in {bak, [t \in Task |-> IF file[t] = file'[t] THEN bak[t] ELSE None]}
      BY <1>4 DEF PutInPlace, Available
    <2>2. [time |-> latest, whole |-> TRUE] \in Image /\ None \in Image
      BY DEF Image, None, NoTime
    <2>3. file' \in [Task -> Image]
      BY <2>1, <2>2
    <2>4. bak' \in [Task -> Image]
      BY <2>1, <2>2
    <2> QED BY <1>4, <2>3, <2>4 DEF PutInPlace, loop
  <1>5. CASE Barrier
    <2>1. groupTask' \in [Task -> 0 .. nprocgroup]
      BY <1>5 DEF Barrier, InTurn, InLoop, Together
    <2> QED BY <1>5, <2>1 DEF Barrier, files
  <1>6. CASE BcastFromTask0
    BY <1>6 DEF BcastFromTask0, Goto, files
  <1>7. ASSUME NEW t \in Task, TaskStep(t)
        PROVE  TypeOK'
    <2>1. CASE RenameToBak(t)
      <3>1. None \in Image
        BY DEF Image, None, NoTime
      <3> QED BY <2>1, <3>1 DEF RenameToBak, Goto, files
    <2>2. CASE OpenForWriting(t)
      <3>1. [time |-> Time[t], whole |-> FALSE] \in Image
        BY DEF Image
      <3> QED BY <2>2, <3>1 DEF OpenForWriting, Goto
    <2>3. CASE CannotOpen(t) \/ CannotRead(t) \/ NotConsistent(t)
      BY <2>3 DEF CannotOpen, CannotRead, NotConsistent, Down, files, loop
    <2>4. CASE Written(t)
      <3>1. [file[t] EXCEPT !.whole = TRUE] \in Image
        <4>1. file[t] \in [time : 0 .. MaxTime, whole : BOOLEAN]
          BY <2>4 DEF Written, WritePlace, Image
        <4> QED BY <4>1 DEF Image
      <3>2. file' \in [Task -> Image]
        BY <2>4, <3>1 DEF Written
      <3> QED BY <2>4, <3>2 DEF Written, Goto
    <2>5. CASE ReadCommon(t)
      <3>1. file[t].time \in 0 .. MaxTime
        BY <2>5, IsImage DEF ReadCommon
      <3> QED BY <2>5, <3>1 DEF ReadCommon, Goto, files
    <2>6. CASE WaitInGroup(t)
      BY <2>6 DEF WaitInGroup, Goto, files
    <2>7. CASE BcastArrives(t)
      BY <2>7 DEF BcastArrives, Goto, files
    <2>8. CASE Consistent(t) \/ ReadRest(t)
      BY <2>8 DEF Consistent, ReadRest, Goto, files
    <2> QED BY <1>7, <2>1, <2>2, <2>3, <2>4, <2>5, <2>6, <2>7, <2>8 DEF TaskStep
  <1>8. CASE UNCHANGED vars
    BY <1>8 DEF vars, files, loop
  <1> QED BY <1>1, <1>2, <1>3, <1>4, <1>5, <1>6, <1>7, <1>8 DEF Next, Progress

LEMMA ControlStep ==
  ASSUME Control, [Next]_vars
  PROVE  Control'
  <1> DEFINE Places == \A t \in Task : WritePlace(t) /\ ReadPlace(t)
  <1> USE GroupSize, Turns DEF TypeOK, Control
  <1>0. TypeOK'
    BY TypeStep
  <1> SUFFICES Together' /\ InTurn' /\ Places'
    BY <1>0
  <1>1. ASSUME UNCHANGED groupTask, job' = job
        PROVE  Together' /\ InTurn'
    BY <1>1 DEF Together, InTurn, InLoop
  <1>2. CASE Run \/ UNCHANGED vars
    BY <1>1, <1>2 DEF Run, vars, files, loop, WritePlace, ReadPlace
  <1>3. CASE BeginWrite \/ BeginRead
    BY <1>3 DEF BeginWrite, BeginRead, Begin, Together, InTurn, WritePlace, ReadPlace
  <1>4. ASSUME Down PROVE Together' /\ InTurn' /\ Places'
    BY <1>4 DEF Down, loop, Together, InTurn, InLoop, WritePlace, ReadPlace
  <1>5. CASE PutInPlace
    <2>1. job' = "down" /\ UNCHANGED groupTask /\ job' = job
      BY <1>5 DEF PutInPlace, loop
    <2> QED BY <1>1, <2>1 DEF WritePlace, ReadPlace
  <1>6. CASE Barrier
    <2>1. /\ groupTask' = [t \in Task |-> groupTask[t] + 1]
          /\ job' \in {"read", "write"} =>
               groupTask'[0] < nprocgroup /\ pc' = [t \in Task |-> "turn"]
      BY <1>6 DEF Barrier
    <2>2. Together'
      BY <2>1 DEF Together
    <2>3. InTurn'
      BY <2>1, <2>2 DEF Together, InTurn, InLoop
    <2>4. Places'
      BY <2>1 DEF WritePlace, ReadPlace
    <2> QED BY <2>2, <2>3, <2>4
  <1>7. CASE BcastFromTask0
    <2>1. Places'
      <3>1. Turn(0) = groupTask[0]
        BY <1>7 DEF BcastFromTask0, ReadPlace
      <3> QED BY <1>7, <3>1 DEF BcastFromTask0, Goto, files, WritePlace, ReadPlace
    <2> QED BY <1>1, <1>7, <2>1 DEF BcastFromTask0
  <1>8. ASSUME NEW t \in Task, TaskStep(t)
        PROVE  Together' /\ InTurn' /\ Places'
    <2>0. MyTurn(t) <=> Turn(t) = groupTask[t]
      BY MyTurnIsTurn
    <2>1. CASE RenameToBak(t)
      BY <1>1, <2>0, <2>1 DEF RenameToBak, Goto, files, WritePlace, ReadPlace
    <2>2. CASE OpenForWriting(t)
      <3>1. [time |-> Time[t], whole |-> FALSE] # None
        BY DEF None, NoTime
      <3> QED BY <1>1, <2>2, <3>1 DEF OpenForWriting, Goto, WritePlace, ReadPlace
    <2>3. CASE CannotOpen(t) \/ CannotRead(t) \/ NotConsistent(t)
      BY <1>4, <2>3 DEF CannotOpen, CannotRead, NotConsistent
    <2>4. CASE Written(t)
      BY <1>1, <2>4 DEF Written, Goto, WritePlace, ReadPlace
    <2>5. CASE ReadCommon(t)
      BY <1>1, <2>0, <2>5 DEF ReadCommon, Goto, files, WritePlace, ReadPlace
    <2>6. CASE WaitInGroup(t)
      BY <1>1, <2>6 DEF WaitInGroup, Goto, files, WritePlace, ReadPlace
    <2>7. CASE BcastArrives(t)
      BY <1>1, <2>0, <2>7 DEF BcastArrives, Goto, files, WritePlace, ReadPlace
    <2>8. CASE Consistent(t) \/ ReadRest(t)
      BY <1>1, <2>8 DEF Consistent, ReadRest, Goto, files, WritePlace, ReadPlace
    <2> QED BY <1>8, <2>1, <2>2, <2>3, <2>4, <2>5, <2>6, <2>7, <2>8 DEF TaskStep
  <1> QED BY <1>2, <1>3, <1>4, <1>5, <1>6, <1>7, <1>8 DEF Next, Progress, Crash

(* The broadcast has come to every task that is in the barrier.            *)
LEMMA EqualAtBarrier ==
  ASSUME Control, Casting, job = "read", \A t \in Task : pc[t] = "barrier",
         NEW t \in Task
  PROVE  all_task0[t] = all_task0[0]
  <1>1. groupTask[t] \in Nat
    BY GroupSize DEF Control, TypeOK
  <1>2. CASE groupTask[t] > 0
    BY <1>2 DEF Casting
  <1>3. CASE groupTask[t] = 0
    BY <1>3 DEF Casting
  <1> QED BY <1>1, <1>2, <1>3

(* What a task has compared is the time of its file and that of task 0.    *)
LEMMA ReadingStep ==
  ASSUME Control, Casting, \A t \in Task : Reading(t), [Next]_vars
  PROVE  Casting' /\ \A t \in Task : Reading(t)'
  <1> DEFINE Goal == Casting' /\ \A t \in Task : Reading(t)'
  <1> USE GroupSize, Turns DEF TypeOK, Control
  <1>0. TypeOK' /\ Control'
    BY TypeStep, ControlStep
  <1>1. ASSUME job' # "read" PROVE Goal
    BY <1>1 DEF Casting, Reading
  <1>2. CASE BeginRead
    <2>1. \A t \in Task : groupTask'[t] = 0 /\ pc'[t] = "turn"
      BY <1>2 DEF BeginRead, Begin
    <2>2. cast' = NoTime
      BY <1>2 DEF BeginRead, Begin
    <2>3. Casting'
      BY <2>1, <2>2 DEF Casting
    <2>4. \A t \in Task : Turn(t) \in Nat
      OBVIOUS
    <2> QED BY <2>1, <2>3, <2>4 DEF Reading, HasRead, HasCompared, IsThrough
  <1>3. ASSUME UNCHANGED vars PROVE Goal
    BY <1>3 DEF vars, files, loop, Casting, Reading, HasRead, HasCompared, IsThrough
  <1>4. ASSUME Barrier, job = "read", job' = "read" PROVE Goal
    <2>1. /\ groupTask' = [t \in Task |-> groupTask[t] + 1]
          /\ pc' = [t \in Task |-> "turn"]
          /\ \A t \in Task : pc[t] = "barrier"
          /\ UNCHANGED <<file, Time, all_task0, cast>>
      <3>1. groupTask'[0] < nprocgroup
        BY <1>0, <1>4 DEF InTurn, InLoop
      <3> QED BY <1>4, <3>1 DEF Barrier, files
    <2>2. \A t \in Task : all_task0[t] = all_task0[0]
      BY <1>4, <2>1, EqualAtBarrier
    <2>3. Casting'
      <3>1. \A t \in Task : groupTask'[t] > 0
        BY <2>1
      <3>2. cast # NoTime => cast = all_task0[0]
        BY <1>4 DEF Casting
      <3> QED BY <2>1, <2>2, <3>1, <3>2 DEF Casting
    <2>4. ASSUME NEW t \in Task PROVE Reading(t)'
      <3>1. Turn(t) < groupTask'[t] => IsThrough(t) /\ HasCompared(t)
        BY <2>1 DEF IsThrough, HasCompared
      <3>2. ~HasRead(t)' /\ (HasCompared(t)' => Turn(t) < groupTask'[t])
                         /\ (IsThrough(t)' => Turn(t) < groupTask'[t])
        BY <2>1 DEF HasRead, HasCompared, IsThrough
      <3>3. /\ HasCompared(t) => Time[t] = file[t].time /\ Time[t] = all_task0[t]
            /\ IsThrough(t) => file[t].whole
        BY <1>4 DEF Reading
      <3> QED BY <2>1, <3>1, <3>2, <3>3 DEF Reading
    <2> QED BY <2>3, <2>4
  <1>5. CASE BcastFromTask0
    <2>1. groupTask[0] = 0
      BY <1>5 DEF BcastFromTask0, ReadPlace
    <2>2. Casting'
      <3>1. \A t \in Task : groupTask[t] = 0
        BY <2>1 DEF Together
      <3> QED BY <1>5, <3>1 DEF BcastFromTask0, Goto, files, Casting
    <2> QED BY <1>5, <2>2
            DEF BcastFromTask0, Goto, files, Reading, HasRead, HasCompared, IsThrough
  <1>6. ASSUME NEW u \in Task, TaskStep(u), job = "read", job' = "read"
        PROVE  Goal
    <2>0. MyTurn(u) <=> Turn(u) = groupTask[u]
      BY MyTurnIsTurn
    <2>1. CASE ReadCommon(u)
      <3>1. Casting'
        <4>1. groupTask[u] = groupTask[0] /\ \A t \in Task : groupTask[t] = groupTask[u]
          BY DEF Together
        <4>2. CASE u = 0
          <5>1. \A t \in Task : groupTask[t] = 0
            BY <2>0, <2>1, <4>1, <4>2 DEF ReadCommon
          <5> QED BY <1>6, <2>1, <4>2, <5>1 DEF ReadCommon, Goto, files, Casting
        <4>3. CASE u # 0
          BY <1>6, <2>1, <4>1, <4>3 DEF ReadCommon, Goto, files, Casting
        <4> QED BY <4>2, <4>3
      <3> QED BY <1>6, <2>0, <2>1, <3>1
              DEF ReadCommon, Goto, files, Reading, HasRead, HasCompared, IsThrough
    <2>2. CASE WaitInGroup(u)
      <3>1. u = 0 => groupTask[0] # 0
        BY <2>0, <2>2 DEF WaitInGroup
      <3>2. Casting'
        BY <1>6, <2>2, <3>1 DEF WaitInGroup, Goto, files, Casting
      <3> QED BY <1>6, <2>0, <2>2, <3>2
              DEF WaitInGroup, Goto, files, Reading, HasRead, HasCompared, IsThrough
    <2>3. CASE BcastArrives(u)
      <3>1. groupTask[u] = 0 /\ groupTask[0] = 0
        BY <1>6, <2>3 DEF BcastArrives, ReadPlace, Together
      <3>2. Casting'
        BY <1>6, <2>3, <3>1 DEF BcastArrives, Goto, files, Casting, Together
      <3> QED BY <1>6, <2>0, <2>3, <3>1, <3>2
              DEF BcastArrives, Goto, files, Reading, HasRead, HasCompared, IsThrough
    <2>4. CASE Consistent(u)
      <3>1. Casting'
        BY <1>6, <2>4 DEF Consistent, Goto, files, Casting
      <3> QED BY <1>6, <2>4, <3>1
              DEF Consistent, Goto, files, Reading, HasRead, HasCompared, IsThrough
    <2>5. CASE ReadRest(u)
      <3>1. Casting'
        BY <1>6, <2>5 DEF ReadRest, Goto, files, Casting
      <3> QED BY <1>6, <2>5, <3>1
              DEF ReadRest, Goto, files, Reading, HasRead, HasCompared, IsThrough
    <2> QED BY <1>6, <2>1, <2>2, <2>3, <2>4, <2>5
            DEF TaskStep, RenameToBak, OpenForWriting, CannotOpen, Written, CannotRead,
                NotConsistent, Down
  <1>7. CASE Run \/ BeginWrite \/ Crash \/ PutInPlace
    BY <1>1, <1>7 DEF Run, BeginWrite, Begin, Crash, Down, PutInPlace
  <1>8. ASSUME NEW u \in Task, TaskStep(u), job # "read"
        PROVE  job' # "read"
    BY <1>8 DEF TaskStep, RenameToBak, OpenForWriting, CannotOpen, Written, ReadCommon, Down,
                CannotRead, WaitInGroup, BcastArrives, Consistent, NotConsistent, ReadRest
  <1>9. Barrier /\ job # "read" => job' # "read"
    BY DEF Barrier
  <1> QED BY <1>1, <1>2, <1>3, <1>4, <1>5, <1>6, <1>7, <1>8, <1>9 DEF Next, Progress
-------------------------------------------------------------------------------
NoLoss == \A time \in Available : \E later \in Available' : later >= time

FilesSound == \A t \in Task : Sound(t) /\ Secure(t)

LEMMA AvailableInNat == \A a \in Available : a \in 0 .. MaxTime
  BY DEF Available

LEMMA MoreHave ==
  ASSUME \A t \in Task, time \in 0 .. MaxTime : Has(t, time) => Has(t, time)'
  PROVE  NoLoss
  <1>1. Available \subseteq Available'
    BY DEF Available
  <1> QED BY <1>1, AvailableInNat, GroupSize DEF NoLoss

LEMMA FilesUnchanged ==
  ASSUME FilesSound, UNCHANGED files
  PROVE  FilesSound' /\ NoLoss
  <1>1. NoLoss
    BY MoreHave DEF files, Has
  <1>2. Available' = Available
    BY DEF files, Available, Has
  <1> QED BY <1>1, <1>2 DEF files, FilesSound, Sound, Secure

LEMMA SecureStays ==
  ASSUME TypeOK, TypeOK', NoLoss, NEW t \in Task, Secure(t), bak'[t] = bak[t]
  PROVE  Secure(t)'
  <1>1. CASE bak[t] = None
    BY <1>1 DEF Secure
  <1>2. CASE bak[t] # None
    <2>1. PICK a \in Available : bak[t].time <= a
      BY <1>2 DEF Secure
    <2>2. PICK b \in Available' : b >= a
      BY <2>1 DEF NoLoss
    <2>3. a \in Int /\ b \in Int /\ bak[t].time \in Int
      <3>1. bak[t] \in Image
        BY DEF TypeOK
      <3> QED BY <3>1, IsImage, GroupSize DEF Available
    <2>4. bak[t].time <= b
      BY <2>1, <2>2, <2>3
    <2> QED BY <2>4 DEF Secure
  <1> QED BY <1>1, <1>2

(* The front is a set that every task has.                                 *)
LEMMA FrontAvailable ==
  ASSUME NEW X \in Image, X # None, Front(X)
  PROVE  X.time \in Available
  <1>1. X = [time |-> X.time, whole |-> TRUE] /\ X.time \in 0 .. MaxTime
    BY IsImage DEF Front
  <1>2. \A t \in Task : X \in {file[t], bak[t]}
    BY DEF Front, FrontOf
  <1> QED BY <1>1, <1>2 DEF Available, Has

(* No step loses the latest set that every task has, and a job runs only   *)
(* when all tasks have the same set.                                       *)
LEMMA FilesStep ==
  ASSUME Inv, [Next]_vars
  PROVE  Files' /\ NoLoss
  <1> DEFINE Goal == FilesSound' /\ NoLoss /\ Running'
  <1> USE GroupSize, Turns DEF Inv, Control, Files
  <1>0. FilesSound /\ TypeOK' /\ Control'
    BY TypeStep, ControlStep DEF FilesSound
  <1> SUFFICES Goal
    BY DEF FilesSound
  <1>1. ASSUME UNCHANGED files, job' \notin {"run", "write"}
        PROVE  Goal
    BY <1>0, <1>1, FilesUnchanged DEF Running
  <1>2. CASE UNCHANGED vars
    <2>1. UNCHANGED files /\ UNCHANGED <<job, file, bak, Time, groupTask, pc>>
      BY <1>2 DEF vars, files, loop
    <2>2. Running'
      BY <2>1 DEF Running, Front, FrontOf, NotRenamed, IsThrough
    <2> QED BY <1>0, <2>1, <2>2, FilesUnchanged
  <1>3. CASE Run
    <2>1. /\ job = "run" /\ job' = "run" /\ UNCHANGED files
          /\ UNCHANGED <<file, bak, groupTask, pc>>
          /\ Time' = [t \in Task |-> Time[t] + 1]
      BY <1>3 DEF Run, files, loop
    <2>2. PICK X \in Image : Front(X)
      BY <2>1 DEF Running
    <2>3. X # None => \A t \in Task : X.time <= Time'[t]
      <3>1. X.time \in Int
        BY IsImage
      <3>2. \A t \in Task : Time[t] \in Int /\ Time'[t] = Time[t] + 1
        BY <2>1 DEF TypeOK
      <3> QED BY <2>2, <3>1, <3>2 DEF Front
    <2>4. Front(X)'
      BY <2>1, <2>2, <2>3 DEF Front, FrontOf, NotRenamed
    <2>5. \A t, u \in Task : Time'[t] = Time'[u]
      BY <2>1 DEF Running
    <2> QED BY <1>0, <2>1, <2>4, <2>5, FilesUnchanged DEF Running
  <1>4. CASE BeginWrite
    <2>1. /\ job = "run" /\ job' = "write" /\ UNCHANGED files
          /\ UNCHANGED <<file, bak, Time>>
          /\ \A t \in Task : groupTask'[t] = 0 /\ pc'[t] = "turn"
      BY <1>4 DEF BeginWrite, Begin, files
    <2>2. PICK X \in Image : Front(X)
      BY <2>1 DEF Running
    <2>3. \A t \in Task : NotRenamed(t)'
      BY <2>1 DEF NotRenamed
    <2>4. Front(X)'
      BY <2>1, <2>2, <2>3 DEF Front, FrontOf, NotRenamed
    <2>5. \A t, u \in Task : Time'[t] = Time'[u]
      BY <2>1 DEF Running
    <2> QED BY <1>0, <2>1, <2>4, <2>5, FilesUnchanged DEF Running
  <1>5. CASE BeginRead \/ Down
    BY <1>1, <1>5 DEF BeginRead, Begin, Down, files
  <1>6. CASE PutInPlace
    <2>1. PICK latest \in Available :
            /\ \A other \in Available : other <= latest
            /\ file' = [t \in Task |-> [time |-> latest, whole |-> TRUE]]
      BY <1>6 DEF PutInPlace
    <2>2. \A t \in Task : bak'[t] \in {bak[t], None} /\ file'[t].time = latest
      BY <1>6, <2>1 DEF PutInPlace, TypeOK
    <2>3. latest \in Available' /\ latest \in Nat
      BY <2>1 DEF Available, Has
    <2>4. NoLoss
      BY <2>1, <2>3 DEF NoLoss
    <2>5. ASSUME NEW t \in Task PROVE Sound(t)' /\ Secure(t)'
      <3>1. bak[t].time <= latest /\ None.time <= latest
        <4>1. CASE bak[t] = None
          BY <2>3, <4>1 DEF None, NoTime
        <4>2. CASE bak[t] # None
          <5>1. PICK a \in Available : bak[t].time <= a
            BY <4>2 DEF Secure
          <5>2. a <= latest /\ a \in Int
            BY <2>1, AvailableInNat
          <5>3. bak[t].time \in Int
            BY IsImage DEF TypeOK
          <5> QED BY <2>3, <5>1, <5>2, <5>3 DEF None, NoTime
        <4> QED BY <4>1, <4>2
      <3>2. bak'[t].time <= latest
        BY <2>2, <3>1
      <3>3. bak'[t] # None => bak'[t].whole
        BY <2>2 DEF Sound
      <3> QED BY <2>2, <2>3, <3>2, <3>3 DEF Sound, Secure
    <2>6. job' = "down"
      BY <1>6 DEF PutInPlace
    <2> QED BY <2>4, <2>5, <2>6 DEF FilesSound, Running
  <1>7. ASSUME Barrier, job' \in {"run", "write"}
        PROVE  Goal
    <2>1. /\ UNCHANGED files /\ UNCHANGED <<file, bak, Time>>
          /\ \A t \in Task : groupTask'[t] = groupTask[t] + 1 /\ pc[t] = "barrier"
      BY <1>7 DEF Barrier, files
    <2>2. CASE job' = "write"
      <3>1. job = "write"
        BY <1>7, <2>2 DEF Barrier
      <3>2. \A t \in Task : pc'[t] = "turn"
        BY <1>7, <1>0, <2>2 DEF Barrier, InTurn, InLoop
      <3>3. PICK X \in Image : Front(X)
        BY <3>1 DEF Running
      <3>4. ASSUME NEW t \in Task PROVE FrontOf(t, X)'
        <4>1. groupTask[t] \in Int /\ Turn(t) \in Int
          BY DEF TypeOK
        <4>2. /\ NotRenamed(t)' <=> NotRenamed(t)
              /\ IsThrough(t)' <=> IsThrough(t)
          BY <2>1, <2>2, <3>1, <3>2, <4>1 DEF NotRenamed, IsThrough
        <4> QED BY <2>1, <3>2, <3>3, <4>2 DEF Front, FrontOf
      <3>5. Front(X)'
        BY <2>1, <3>3, <3>4 DEF Front
      <3> QED BY <1>0, <2>1, <3>1, <3>5, FilesUnchanged DEF Running
    <2>3. CASE job' = "run"
      <3>1. \A t \in Task : IsThrough(t)
        <4>1. groupTask[0] + 1 >= nprocgroup
          <5>1. ~(groupTask'[0] < nprocgroup)
            BY <1>7, <2>3 DEF Barrier
          <5> QED BY <2>1, <5>1 DEF TypeOK
        <4> SUFFICES ASSUME NEW t \in Task PROVE Turn(t) <= groupTask[t]
          BY <2>1 DEF IsThrough, TypeOK
        <4>2. groupTask[t] = groupTask[0]
          BY DEF Together
        <4> QED BY <4>1, <4>2 DEF TypeOK
      <3>2. \A t \in Task : /\ file[t] = [time |-> Time[t], whole |-> TRUE]
                            /\ Time[t] = Time[0]
        <4>1. CASE job = "write"
          <5>1. PICK X \in Image : Front(X)
            BY <4>1 DEF Running
          <5>2. \A t \in Task : ~NotRenamed(t)
            <6> SUFFICES ASSUME NEW t \in Task PROVE ~NotRenamed(t)
              OBVIOUS
            <6>1. groupTask[t] \in Int /\ Turn(t) \in Int
              BY DEF TypeOK
            <6> QED BY <2>1, <3>1, <4>1, <6>1 DEF NotRenamed, IsThrough
          <5> QED BY <3>1, <4>1, <5>1, <5>2 DEF Front, FrontOf, Running
        <4>2. CASE job = "read"
          <5>1. \A t \in Task : HasCompared(t)
            BY <3>1 DEF IsThrough, HasCompared
          <5>2. \A t \in Task : Time[t] = file[t].time /\ Time[t] = all_task0[t] /\ file[t].whole
            BY <3>1, <4>2, <5>1 DEF Reading
          <5>3. \A t \in Task : all_task0[t] = all_task0[0]
            BY <2>1, <4>2, EqualAtBarrier
          <5>4. \A t \in Task : file[t] = [time |-> Time[t], whole |-> TRUE]
            BY <5>2, IsImage DEF TypeOK
          <5> QED BY <5>2, <5>3, <5>4
        <4> QED BY <1>7, <4>1, <4>2 DEF Barrier
      <3>3. Time[0] \in 0 .. MaxTime
        BY DEF TypeOK
      <3>4. \A t \in Task : /\ Time'[t] = Time[0]
                            /\ file'[t] = [time |-> Time[0], whole |-> TRUE]
        BY <2>1, <3>2
      <3> DEFINE X == [time |-> Time[0], whole |-> TRUE]
      <3>5. X \in Image /\ X # None
        BY <3>3 DEF Image, None
      <3>6. Front(X)'
        <4>1. X.whole /\ \A t \in Task : X.time <= Time'[t]
          BY <3>3, <3>4
        <4>2. \A t \in Task : FrontOf(t, X)'
          BY <2>3, <3>4 DEF FrontOf, NotRenamed
        <4> QED BY <2>1, <3>5, <4>1, <4>2 DEF Front
      <3>7. Running'
        BY <3>4, <3>5, <3>6 DEF Running
      <3> QED BY <1>0, <2>1, <3>7, FilesUnchanged
    <2> QED BY <1>7, <2>2, <2>3
  <1>8. ASSUME job = "write", job' = "write", UNCHANGED <<Time, groupTask>>,
               NEW t \in Task, NEW X \in Image, Front(X), FrontOf(t, X)',
               pc' = [pc EXCEPT ![t] = pc'[t]],
               \A u \in Task \ {t} : file'[u] = file[u] /\ bak'[u] = bak[u],
               X = None => bak'[t] = bak[t]
        PROVE  Running'
    <2>1. \A u \in Task \ {t} : FrontOf(u, X)'
      BY <1>8 DEF Front, FrontOf, NotRenamed, IsThrough, TypeOK
    <2>2. Front(X)'
      BY <1>8, <2>1 DEF Front
    <2> QED BY <1>8, <2>2 DEF Running
  <1>9. ASSUME NEW t \in Task, TaskStep(t), job = "write"
        PROVE  Goal
    <2>0. /\ MyTurn(t) <=> Turn(t) = groupTask[t]
          /\ groupTask[t] \in Int /\ Turn(t) \in Int
      BY MyTurnIsTurn DEF TypeOK
    <2>1. PICK X \in Image : Front(X)
      BY <1>9 DEF Running
    <2>2. CASE RenameToBak(t)
      <3>1. NotRenamed(t) /\ file[t] = X
        BY <2>0, <2>1, <2>2 DEF RenameToBak, NotRenamed, Front, FrontOf
      <3>2. ~NotRenamed(t)' /\ ~IsThrough(t)' /\ pc'[t] = "renamed"
        BY <2>0, <2>2 DEF RenameToBak, Goto, NotRenamed, IsThrough, TypeOK
      <3>3. CASE X = None
        <4>1. UNCHANGED files /\ UNCHANGED <<file, bak>>
          BY <2>2, <3>1, <3>3 DEF RenameToBak, files
        <4>2. FrontOf(t, X)'
          BY <2>1, <3>1, <3>2, <3>3, <4>1 DEF Front, FrontOf
        <4>3. Running'
          BY <1>8, <2>1, <2>2, <4>1, <4>2 DEF RenameToBak, Goto, TypeOK
        <4> QED BY <1>0, <4>1, <4>3, FilesUnchanged
      <3>4. CASE X # None
        <4>1. /\ bak' = [bak EXCEPT ![t] = X] /\ file' = [file EXCEPT ![t] = None]
              /\ bak'[t] = X /\ file'[t] = None
          BY <2>2, <3>1, <3>4 DEF RenameToBak, TypeOK
        <4>2. FrontOf(t, X)'
          BY <3>2, <4>1 DEF FrontOf
        <4>3. Running'
          BY <1>8, <2>1, <2>2, <3>4, <4>1, <4>2 DEF RenameToBak, Goto, TypeOK
        <4>4. X.whole /\ X.time \in 0 .. MaxTime /\ X = [time |-> X.time, whole |-> TRUE]
          BY <2>1, <3>4, IsImage DEF Front
        <4>5. X.time \in Available'
          <5>1. \A u \in Task : X \in {file[u], bak[u]}
            BY <2>1 DEF Front, FrontOf
          <5>2. \A u \in Task : X \in {file'[u], bak'[u]}
            BY <4>1, <5>1 DEF TypeOK
          <5> QED BY <4>4, <5>2 DEF Available, Has
        <4>6. NoLoss
          <5> SUFFICES ASSUME NEW a \in Available PROVE a <= X.time
            BY <4>5, <4>4, AvailableInNat DEF NoLoss
          <5>1. [time |-> a, whole |-> TRUE] \in {X, bak[t]}
            BY <3>1 DEF Available, Has
          <5>2. bak[t].time <= X.time
            BY <3>1, <4>4 DEF Sound
          <5> QED BY <4>4, <5>1, <5>2, AvailableInNat
        <4>7. ASSUME NEW u \in Task \ {t} PROVE Sound(u)' /\ Secure(u)'
          <5>1. file'[u] = file[u] /\ bak'[u] = bak[u]
            BY <4>1 DEF TypeOK
          <5> QED BY <1>0, <4>6, <5>1, SecureStays DEF Sound
        <4>8. Sound(t)' /\ Secure(t)'
          <5>1. ~None.whole
            BY DEF None
          <5> QED BY <4>1, <4>4, <4>5, <5>1 DEF Sound, Secure
        <4> QED BY <4>3, <4>6, <4>7, <4>8 DEF FilesSound
      <3> QED BY <3>3, <3>4
    <2>3. ASSUME NEW w \in BOOLEAN, UNCHANGED bak, ~file[t].whole,
                 file' = [file EXCEPT ![t] = [time |-> Time[t], whole |-> w]],
                 bak[t] = X, UNCHANGED Time
          PROVE  FilesSound' /\ NoLoss
      <3>1. NoLoss
        <4>1. ASSUME NEW u \in Task, NEW time \in 0 .. MaxTime, Has(u, time)
              PROVE  Has(u, time)'
          <5>1. CASE u = t
            <6>1. [time |-> time, whole |-> TRUE] # file[t]
              BY <2>3
            <6> QED BY <2>3, <4>1, <5>1, <6>1 DEF Has
          <5>2. CASE u # t
            <6>1. file'[u] = file[u]
              BY <2>3, <5>2 DEF TypeOK
            <6> QED BY <2>3, <4>1, <6>1 DEF Has
          <5> QED BY <5>1, <5>2
        <4> QED BY <4>1, MoreHave
      <3>2. bak[t].time <= Time[t]
        <4>1. Time[t] \in Nat
          BY DEF TypeOK
        <4>2. None.time <= Time[t]
          BY <4>1 DEF None, NoTime
        <4> QED BY <2>1, <2>3, <4>2 DEF Front
      <3>3. ASSUME NEW u \in Task PROVE Sound(u)' /\ Secure(u)'
        <4>1. Secure(u)'
          BY <1>0, <2>3, <3>1, SecureStays
        <4>2. Sound(u)'
          <5>1. CASE u = t
            <6>1. file'[t].time = Time[t]
              BY <2>3 DEF TypeOK
            <6> QED BY <2>3, <3>2, <5>1, <6>1 DEF Sound
          <5>2. CASE u # t
            BY <2>3, <5>2 DEF Sound, TypeOK
          <5> QED BY <5>1, <5>2
        <4> QED BY <4>1, <4>2
      <3> QED BY <3>1, <3>3 DEF FilesSound
    <2>4. CASE OpenForWriting(t)
      <3>1. Turn(t) = groupTask[t] /\ ~NotRenamed(t)
        BY <1>9, <2>0, <2>4 DEF OpenForWriting, WritePlace, NotRenamed
      <3>2. bak[t] = X /\ file[t] = None
        BY <2>1, <2>4, <3>1 DEF OpenForWriting, Front, FrontOf
      <3>3. ~NotRenamed(t)' /\ ~IsThrough(t)' /\ pc'[t] = "open"
        BY <2>0, <2>4, <3>1 DEF OpenForWriting, Goto, NotRenamed, IsThrough, TypeOK
      <3>4. /\ file' = [file EXCEPT ![t] = [time |-> Time[t], whole |-> FALSE]]
            /\ UNCHANGED <<bak, Time>> /\ ~file[t].whole
            /\ file'[t] = [time |-> Time'[t], whole |-> FALSE]
        BY <2>4, <3>2 DEF OpenForWriting, None, TypeOK
      <3>5. FrontOf(t, X)'
        BY <3>2, <3>3, <3>4 DEF FrontOf
      <3>6. Running'
        BY <1>8, <2>1, <2>4, <3>4, <3>5 DEF OpenForWriting, Goto, TypeOK
      <3> QED BY <2>3, <3>2, <3>4, <3>6
    <2>5. CASE Written(t)
      <3>1. Turn(t) = groupTask[t] /\ ~NotRenamed(t)
        BY <1>9, <2>0, <2>5 DEF Written, WritePlace, NotRenamed
      <3>2. bak[t] = X /\ file[t] = [time |-> Time[t], whole |-> FALSE]
        BY <2>1, <2>5, <3>1 DEF Written, Front, FrontOf
      <3>3. ~NotRenamed(t)' /\ pc'[t] = "barrier"
        BY <2>0, <2>5, <3>1 DEF Written, Goto, NotRenamed, TypeOK
      <3>4. /\ file' = [file EXCEPT ![t] = [time |-> Time[t], whole |-> TRUE]]
            /\ UNCHANGED <<bak, Time>> /\ ~file[t].whole
            /\ file'[t] = [time |-> Time'[t], whole |-> TRUE]
        <4>1. [file[t] EXCEPT !.whole = TRUE] = [time |-> Time[t], whole |-> TRUE]
          <5> DEFINE r == file[t]
                     s == [r EXCEPT !.whole = TRUE]
          <5>1. r \in [time : 0 .. MaxTime, whole : BOOLEAN] /\ r.time = Time[t]
            BY <3>2 DEF TypeOK
          <5> HIDE DEF r
          <5>2. s \in [time : 0 .. MaxTime, whole : BOOLEAN] /\ s.time = r.time /\ s.whole
            BY <5>1
          <5> HIDE DEF s
          <5>3. s = [time |-> Time[t], whole |-> TRUE]
            BY <5>1, <5>2
          <5> QED BY <5>3 DEF r, s
        <4>2. file' = [file EXCEPT ![t] = [time |-> Time[t], whole |-> TRUE]]
          BY <2>5, <4>1 DEF Written
        <4>3. UNCHANGED <<bak, Time>> /\ ~file[t].whole
          BY <2>5, <3>2 DEF Written
        <4> QED BY <4>2, <4>3 DEF TypeOK
      <3>5. FrontOf(t, X)'
        BY <3>2, <3>3, <3>4 DEF FrontOf
      <3>6. Running'
        BY <1>8, <2>1, <2>5, <3>4, <3>5 DEF Written, Goto, TypeOK
      <3> QED BY <2>3, <3>2, <3>4, <3>6
    <2>6. CASE WaitInGroup(t)
      <3>1. /\ UNCHANGED files /\ UNCHANGED <<job, file, bak, Time, groupTask>>
            /\ pc[t] = "turn" /\ pc'[t] = "barrier" /\ pc' = [pc EXCEPT ![t] = pc'[t]]
        BY <1>9, <2>6 DEF WaitInGroup, Goto, files, TypeOK
      <3>2. (NotRenamed(t)' <=> NotRenamed(t)) /\ (IsThrough(t)' <=> IsThrough(t))
        BY <2>0, <2>6, <3>1 DEF WaitInGroup, NotRenamed, IsThrough
      <3>3. FrontOf(t, X)'
        BY <2>1, <3>1, <3>2 DEF Front, FrontOf
      <3>4. Running'
        BY <1>8, <1>9, <2>1, <3>1, <3>3
      <3> QED BY <1>0, <3>1, <3>4, FilesUnchanged
    <2>7. CASE CannotOpen(t)
      BY <1>5, <2>7 DEF CannotOpen
    <2> QED BY <1>9, <2>2, <2>4, <2>5, <2>6, <2>7
            DEF TaskStep, ReadCommon, CannotRead, BcastArrives, Consistent, NotConsistent,
                ReadRest
  <1>10. ASSUME NEW t \in Task, TaskStep(t), job # "write"
         PROVE  Goal
    <2>1. UNCHANGED files /\ job' \notin {"run", "write"}
      BY <1>10 DEF TaskStep, RenameToBak, OpenForWriting, CannotOpen, Written, ReadCommon, Down,
                   CannotRead, WaitInGroup, BcastArrives, Consistent, NotConsistent, ReadRest
    <2> QED BY <1>1, <2>1
  <1>11. CASE BcastFromTask0
    BY <1>1, <1>11 DEF BcastFromTask0
  <1>12. CASE Barrier
    <2>1. UNCHANGED files /\ job' \in {"run", "write", "read", "down"}
      BY <1>12 DEF Barrier
    <2> QED BY <1>1, <1>7, <1>12, <2>1
  <1> QED BY <1>2, <1>3, <1>4, <1>5, <1>6, <1>9, <1>10, <1>11, <1>12 DEF Next, Progress, Crash
-------------------------------------------------------------------------------
LEMMA InvStep == Inv /\ [Next]_vars => Inv'
  BY ControlStep, ReadingStep, FilesStep DEF Inv

(* The variables keep their types, the loop variable its bound.            *)
THEOREM TypeCorrect == Spec => []TypeOK
  <1>1. Inv => TypeOK
    BY DEF Inv, Control
  <1> QED BY StartsSound, InvStep, <1>1, PTL DEF Spec

(* A job only runs with the files of one set, whatever was broken off and  *)
(* whatever files it was started with (restart, the check of All.Time).    *)
THEOREM RunsWithOneSet == Spec => []OneSet
  <1>1. Inv => OneSet
    BY DEF Inv, Files, Running, OneSet
  <1> QED BY StartsSound, InvStep, <1>1, PTL DEF Spec

(* The latest set that every task has is never lost: a crash at any point  *)
(* of the writing leaves it, as file or as .bak (restart, the renaming).   *)
THEOREM LatestSetStays == Spec => NothingLost
  <1>1. Inv /\ [Next]_vars => (\A time \in Available : \E later \in Available' : later >= time)
    BY FilesStep DEF NoLoss
  <1> QED BY StartsSound, InvStep, <1>1, PTL DEF Spec, NothingLost

(* At most NumFilesWrittenInParallel files are open at the same time: one  *)
(* of each group (restart, the loop over the groups).                      *)
THEOREM FilesInParallel == Spec => []ParallelBounded
  <1>1. Inv => ParallelBounded
    <2> SUFFICES ASSUME Inv PROVE ParallelBounded
      OBVIOUS
    <2> DEFINE S == {t \in Task : FileOpen(t)}
               N == NumFilesWrittenInParallel
               group == [t \in S |-> t \div nprocgroup]
    <2>1. \A t \in S : t \in Task /\ t \in Nat /\ Turn(t) = groupTask[0]
      <3> SUFFICES ASSUME NEW t \in Task, FileOpen(t)
                   PROVE  t \in Nat /\ Turn(t) = groupTask[0]
        OBVIOUS
      <3>1. groupTask[t] \in Nat /\ groupTask[t] = groupTask[0]
        BY GroupSize, Turns DEF Inv, Control, TypeOK, Together
      <3>2. MyTurn(t) <=> Turn(t) = groupTask[t]
        BY <3>1, MyTurnIsTurn
      <3> QED BY <3>1, <3>2 DEF FileOpen, Inv, Control, WritePlace, Task
    <2>2. \A t \in S : t \div nprocgroup \in 0 .. N - 1
      <3> SUFFICES ASSUME NEW t \in Nat, NEW p \in Nat \ {0}, t < NTask, NTask <= N * p
                   PROVE  t \div p \in 0 .. N - 1
        BY <2>1, GroupSize DEF Task
      <3>1. t \div p \in Nat /\ t = p * (t \div p) + (t % p) /\ t % p \in 0 .. p - 1
        OBVIOUS
      <3> DEFINE q == t \div p
      <3>2. q >= N => p * q >= N * p
        BY <3>1, GroupSize
      <3> QED BY <3>1, <3>2, GroupSize
    <2>3. group \in Injection(S, 0 .. N - 1)
      <3>1. ASSUME NEW t \in S, NEW u \in S, group[t] = group[u]
            PROVE  t = u
        <4>1. masterTask(t) = masterTask(u) /\ masterTask(t) \in Nat
          BY <3>1, <2>1, Turns DEF masterTask
        <4> QED BY <2>1, <4>1 DEF Turn
      <3>2. group \in [S -> 0 .. N - 1]
        BY <2>2
      <3> QED BY <3>1, <3>2 DEF Injection, IsInjective
    <2>4. IsFiniteSet(0 .. N - 1) /\ Cardinality(0 .. N - 1) = N
      BY GroupSize, FS_Interval
    <2> QED BY <2>3, <2>4, FS_Injection DEF ParallelBounded
  <1> QED BY StartsSound, InvStep, <1>1, PTL DEF Spec
-------------------------------------------------------------------------------
(* What survives the change of the array sizes, for every tree and every   *)
(* pair of sizes that hold it.                                             *)
Natural ==
  /\ NumPart \in Nat /\ Numnodestree \in Nat /\ Leaves \in Nat
  /\ Sizes \subseteq [MaxPart : Nat, MaxNodes : Nat]

LEMMA AdjustedIndex ==
  ASSUME Natural, old \in Sizes, new \in Sizes, Fits(old), NEW link \in Link
  PROVE  Adjusted(Index(link, old)) = Index(link, new)
  <1>1. /\ old.MaxPart \in Nat /\ old.MaxNodes \in Nat
        /\ new.MaxPart \in Nat /\ new.MaxNodes \in Nat
    BY DEF Natural
  <1>2. NumPart <= old.MaxPart /\ Numnodestree <= old.MaxNodes
    BY DEF Fits
  <1>3. PICK k \in {"particle", "node", "pseudo", "end"} :
          \E n \in Kinds[k] : link = [kind |-> k, number |-> n]
    BY DEF Link, Links
  <1>4. PICK n \in Kinds[k] : link = [kind |-> k, number |-> n]
    BY <1>3
  <1>5. link.kind = k /\ link.number = n
    BY <1>4
  <1>6. CASE k = "particle"
    <2>1. n \in Nat /\ n < NumPart
      BY <1>4, <1>6 DEF Kinds, Particle, Natural
    <2> QED BY <1>1, <1>2, <1>5, <1>6, <2>1 DEF Index, Adjusted, Natural
  <1>7. CASE k = "node"
    <2>1. n \in Nat /\ n < Numnodestree
      BY <1>4, <1>7 DEF Kinds, Node, Natural
    <2>2. Index(link, old) = old.MaxPart + n /\ Index(link, new) = new.MaxPart + n
      BY <1>5, <1>7 DEF Index
    <2> QED BY <1>1, <1>2, <2>1, <2>2 DEF Adjusted, Natural
  <1>8. CASE k = "pseudo"
    <2>1. n \in Nat
      BY <1>4, <1>8 DEF Kinds, Leaf, Natural
    <2>2. /\ Index(link, old) = old.MaxPart + old.MaxNodes + n
          /\ Index(link, new) = new.MaxPart + new.MaxNodes + n
      BY <1>5, <1>8 DEF Index
    <2> QED BY <1>1, <2>1, <2>2 DEF Adjusted
  <1>9. CASE k = "end"
    <2>1. Index(link, old) = -1 /\ Index(link, new) = -1
      BY <1>5, <1>9 DEF Index
    <2> QED BY <1>1, <2>1 DEF Adjusted
  <1> QED BY <1>3, <1>6, <1>7, <1>8, <1>9

LEMMA AdjustedIndices ==
  ASSUME Natural, old \in Sizes, new \in Sizes, Fits(old), NEW S, NEW f \in [S -> Link]
  PROVE  [x \in S |-> Adjusted(Indices(f, old)[x])] = Indices(f, new)
  BY AdjustedIndex DEF Indices

(* Father of a particle, a node, is shifted without being looked at.       *)
LEMMA ShiftedFather ==
  ASSUME Natural, old \in Sizes, new \in Sizes, NEW f \in [Particle -> Links({"node"})]
  PROVE  [i \in Particle |-> Indices(f, old)[i] + (new.MaxPart - old.MaxPart)] = Indices(f, new)
  <1>1. \A i \in Particle : \E n \in Node : f[i] = [kind |-> "node", number |-> n]
    BY DEF Links, Kinds
  <1>2. old.MaxPart \in Nat /\ new.MaxPart \in Nat
    BY DEF Natural
  <1>3. \A i \in Particle :
          Index(f[i], old) + (new.MaxPart - old.MaxPart) = Index(f[i], new)
    <2> SUFFICES ASSUME NEW i \in Particle
                 PROVE  Index(f[i], old) + (new.MaxPart - old.MaxPart) = Index(f[i], new)
      OBVIOUS
    <2>1. PICK n \in Node : f[i] = [kind |-> "node", number |-> n]
      BY <1>1
    <2>2. Index(f[i], old) = old.MaxPart + n /\ Index(f[i], new) = new.MaxPart + n /\ n \in Int
      BY <2>1 DEF Index, Node
    <2> QED BY <1>2, <2>2
  <1> QED BY <1>3 DEF Indices

LEMMA NodeLinks == Links({"node"}) \subseteq Link
  <1>1. {"node"} \subseteq {"particle", "node", "pseudo", "end"}
    OBVIOUS
  <1> QED BY <1>1 DEF Link, Links

AsWritten ==
  /\ old \in Sizes /\ new \in Sizes /\ Fits(old)
  /\ tree \in Trees
  /\ ~loaded => /\ Father = Indices(tree.Father, old)
                /\ nodes = Indices(tree.nodes, old)
                /\ NextOfLeaf = Indices(tree.NextOfLeaf, old)
                /\ DomainNodeIndex = Indices(tree.DomainNodeIndex, old)
  /\ NodesKept

LEMMA LoadAsWritten ==
  ASSUME Natural
  PROVE  AsWritten /\ [Load]_layout_vars => AsWritten'
  <1> SUFFICES ASSUME AsWritten, [Load]_layout_vars PROVE AsWritten'
    OBVIOUS
  <1>1. CASE Load
    <2>1. /\ tree.Father \in [Particle -> Links({"node"})]
          /\ tree.nodes \in [Node \X Field -> Link]
          /\ tree.NextOfLeaf \in [Leaf -> Link]
          /\ tree.DomainNodeIndex \in [Leaf -> Link]
      <3>1. /\ tree.Father \in [Particle -> Links({"node"})]
            /\ tree.nodes \in [Node \X Field -> Link]
            /\ tree.NextOfLeaf \in [Leaf -> Link]
            /\ tree.DomainNodeIndex \in [Leaf -> Links({"node"})]
        BY DEF AsWritten, Trees
      <3>2. tree.DomainNodeIndex \in [Leaf -> Link]
        BY <3>1, NodeLinks
      <3> QED BY <3>1, <3>2
    <2>2. Father' = Indices(tree.Father, new)
      BY <1>1, <2>1, ShiftedFather DEF AsWritten, Load
    <2>3. nodes' = Indices(tree.nodes, new)
      <3>1. nodes = Indices(tree.nodes, old) /\ DOMAIN nodes = Node \X Field
        BY <1>1, <2>1 DEF AsWritten, Load, Indices
      <3>2. nodes' = [x \in Node \X Field |-> Adjusted(Indices(tree.nodes, old)[x])]
        BY <1>1, <3>1 DEF Load
      <3> QED BY <2>1, <3>2, AdjustedIndices DEF AsWritten
    <2>4. NextOfLeaf' = Indices(tree.NextOfLeaf, new)
      BY <1>1, <2>1, AdjustedIndices DEF AsWritten, Load
    <2>5. DomainNodeIndex' = Indices(tree.DomainNodeIndex, new)
      BY <1>1, <2>1, AdjustedIndices DEF AsWritten, Load
    <2>6. loaded' /\ UNCHANGED <<old, new, tree>>
      BY <1>1 DEF Load
    <2> QED BY <2>2, <2>3, <2>4, <2>5, <2>6 DEF AsWritten, NodesKept, Fits
  <1>2. CASE UNCHANGED layout_vars
    BY <1>2 DEF layout_vars, AsWritten, NodesKept, Fits
  <1> QED BY <1>1, <1>2

(* Sibling, father and next links of the nodes, the next links of pseudo   *)
(* particles, the fathers of particles and the indices of the top-level    *)
(* leaves mean the same after restart() has moved them to other sizes.     *)
THEOREM NodeLinksSurvive ==
  ASSUME Natural
  PROVE  LayoutSpec => []NodesKept
  <1>1. LayoutInit => AsWritten
    BY DEF LayoutInit, AsWritten, NodesKept
  <1>2. AsWritten /\ [Load]_layout_vars => AsWritten'
    BY LoadAsWritten
  <1>3. AsWritten => NodesKept
    BY DEF AsWritten
  <1> QED BY <1>1, <1>2, <1>3, PTL DEF LayoutSpec
===============================================================================
