----------------------------- MODULE SnapshotFiles -----------------------------
(***************************************************************************)
(* Snapshots and initial conditions (io.c, read_ic.c, init.c): jobs that   *)
(* start from files, from restart files or from a snapshot, with their own *)
(* numbers of tasks and files, write snapshots, and may crash at any time. *)
(*                                                                         *)
(* Every task belongs to one file; the first of its tasks reads or writes  *)
(* it and exchanges pieces of blocks with the others.  Groups of files     *)
(* take turns, with a barrier of all tasks after each turn.  As the tasks  *)
(* of a file run through the same loops, and each piece is a meeting of    *)
(* its owner and the first task, one step stands for a piece.              *)
(*                                                                         *)
(* A value in a block or an array is the particle it belongs to.  Files    *)
(* are in format 2 (format 1 with labels); HDF5 is not compiled in.        *)
(***************************************************************************)
EXTENDS Integers, FiniteSetsExt, SequencesExt

CONSTANTS
  TypeOf,          \* the type of each particle
  Blocks,          \* "POS", "MASS", "U" in the order of the files; VEL and ID go as
                   \* POS, RHO and HSML as U, others are dropped when read
  blockmaxlen,     \* particles that fit into CommBuffer
  InitialFiles,    \* sets of files a first job may start from
  JobParams,       \* for each job, parameters it may have: NTask, NumFilesPerSnapshot,
                   \* NumFilesWrittenInParallel and PartAllocFactor, in per cent
  Layouts,         \* the tasks that particles go to, for a number of tasks
  MaxSnapshots, MaxCrashes

Particle == DOMAIN TypeOf

Types == 0 .. 5

ASSUME SnapshotAssumption ==
  /\ TypeOf \in [Particle -> Types] /\ blockmaxlen > 0
  /\ \A p \in UNION Range(JobParams) : p.ntask > 0 /\ p.nfiles > 0 /\ p.parallel > 0 /\ p.factor > 0

VARIABLES
  jobs,            \* started so far
  crashes,
  phase,           \* "down", "find", "read", "ready", "run", "write", "written"
                   \* or "overrun"
  param,           \* RestartFlag, InitCondFile, and one of JobParams
  Disk,            \* files by their names
  P, SphP, NumPart, N_gas,
  limits,          \* MaxPart, MaxPartSph and MassTable of a task; none at first
  header,          \* the global variable of a task
  rest_files,
  group,           \* filenr, the tasks of the file, and its turn, for a task
  gr,
  progress,        \* of the file whose first task this is: "waiting", "open", "done"
  todo,            \* its pieces that are still to be read or written
  ahead,           \* what is in it behind the position where it is read
  count,           \* All.SnapshotFileCount
  restartset       \* what is in the restart files

memory == <<P, SphP, NumPart, N_gas>>

sharing == <<rest_files, group, gr>>

ofFile == <<progress, todo, ahead>>

tables == <<limits, header>>

fixed == <<jobs, crashes, param, restartset>>

snapshot_vars == <<fixed, phase, Disk, memory, tables, sharing, ofFile, count>>

Tasks == 0 .. param.ntask - 1

Alone == -1

(* Names of files other than snapshots.                                    *)
InitialConditions == -1

RestartFile == -2

NoFile == -3

Nothing == 0

NoLimits == [MaxPart |-> 0, MaxPartSph |-> 0, MassTable |-> {}]

NoSet == [ntask |-> 0]

NoParam == [RestartFlag |-> 0, InitCondFile |-> NoFile, ntask |-> 0, nfiles |-> 1, parallel |-> 1,
            factor |-> 1]

Blank == [Type |-> 0, POS |-> Nothing, MASS |-> Nothing]

BlankSph == [U |-> Nothing]

NoneOf == [k \in Types |-> 0]

(* Globals are zero when a job starts.                                     *)
ZeroHeader ==
  [npart |-> NoneOf, npartTotal |-> NoneOf, mass |-> {}, num_files |-> 0,
   flag_entropy_instead_u |-> 0]

TotalOf(f, S) == FoldFunctionOnSet(+, 0, f, S)

Ceiling(a, b) == (a + b - 1) \div b
-------------------------------------------------------------------------------
RECURSIVE distribute_file(_, _, _, _)

(* Files and tasks are halved until one file is left: for each task the    *)
(* number of its file, and the first and last task of that file.           *)
distribute_file(nfiles, firstfile, firsttask, lasttask) ==
  LET n == lasttask - firsttask + 1
      filesleft == Min({nfiles - 1, Max({1, ((n \div 2) * nfiles) \div n})})
      tasksleft == n \div 2
  IN  IF nfiles > 1
      THEN distribute_file(filesleft, firstfile, firsttask, firsttask + tasksleft - 1)
             @@ distribute_file(nfiles - filesleft, firstfile + filesleft, firsttask + tasksleft,
                                lasttask)
      ELSE [t \in firsttask .. lasttask |-> [filenr |-> firstfile, first |-> firsttask,
                                             last |-> lasttask]]

(* Groups of files that are open at the same time.                         *)
InTurns(shares) ==
  [t \in DOMAIN shares |->
     [filenr |-> shares[t].filenr, first |-> shares[t].first, last |-> shares[t].last,
      turn |-> shares[t].filenr \div param.parallel]]

(* While there are more files than tasks, each task reads one for itself.  *)
WholeFiles(rest) ==
  LET ngroups == Ceiling(param.ntask, param.parallel) IN
  [t \in Tasks |-> [filenr |-> t + rest - param.ntask, first |-> t, last |-> t,
                    turn |-> t % ngroups]]

Round(rest) ==
  IF rest > param.ntask THEN WholeFiles(rest)
  ELSE InTurns(distribute_file(rest, 0, 0, param.ntask - 1))

LastTurn == Max({group[t].turn : t \in Tasks})

Masters == {group[t].first : t \in DOMAIN group}

TasksOf(m) == m .. group[m].last

OnTurn(m) == m \in Masters /\ group[m].turn = gr

NameOf(base, n, numbered) == <<base, IF numbered THEN n ELSE Alone>>

Begun == [t \in Tasks |-> "waiting"]

(* Nothing is left in memory when a job is down.                           *)
NoMemory(n) ==
  /\ P' = [t \in 0 .. n - 1 |-> <<>>] /\ SphP' = [t \in 0 .. n - 1 |-> <<>>]
  /\ NumPart' = [t \in 0 .. n - 1 |-> 0] /\ N_gas' = [t \in 0 .. n - 1 |-> 0]
  /\ limits' = [t \in 0 .. n - 1 |-> NoLimits]
  /\ header' = [t \in 0 .. n - 1 |-> ZeroHeader]
  /\ progress' = [t \in 0 .. n - 1 |-> "waiting"] /\ todo' = [t \in 0 .. n - 1 |-> {}]
  /\ ahead' = [t \in 0 .. n - 1 |-> <<>>]
  /\ rest_files' = 0 /\ group' = <<>> /\ gr' = 0

(* endrun, an exit, or the end of the job.                                 *)
Cleared ==
  /\ phase' = "down" /\ NoMemory(0) /\ count' = 0 /\ param' = NoParam
  /\ UNCHANGED <<jobs, Disk, restartset>>

Stop == Cleared /\ UNCHANGED crashes

(* A store beyond an array; what happens then is left open.                *)
Overrun ==
  /\ phase' = "overrun"
  /\ UNCHANGED <<fixed, Disk, memory, tables, sharing, ofFile, count>>

(* Mutant: tasks whose turn it is not are not in the barrier.              *)
TurnDoneByAll == \A m \in Masters : progress[m] = "done"

(* All files of the turn are done, and all tasks in the barrier.           *)
TurnDone == \A m \in Masters : group[m].turn = gr => progress[m] = "done"
-------------------------------------------------------------------------------
(* get_particles_in_block.                                                 *)
TypesInBlock(b, npart, MassTable) ==
  {k \in Types :
     /\ npart[k] > 0
     /\ b = "MASS" => k \notin MassTable
     /\ b = "U" => k = 0}

ParticlesInBlock(b, npart, MassTable) == TotalOf(npart, TypesInBlock(b, npart, MassTable))

(* A file goes in pieces that fit into the buffer, of the n[t][k] particles *)
(* of each task and type; there are at least so many for each.             *)
Pieces(m, npart, blocks, MassTable, n, least) ==
  {p \in [number : DOMAIN blocks, type : Types, task : TasksOf(m),
           part : 0 .. Cardinality(Particle)] :
     /\ p.type \in TypesInBlock(blocks[p.number], npart, MassTable)
     /\ p.part < Max({least, Ceiling(n[p.task][p.type], blockmaxlen)})}

(* Block by block, in it type by type, of each type those of the first to  *)
(* those of the last task.                                                 *)
IsFirst(p, S) ==
  \A q \in S :
    \/ p.number < q.number
    \/ p.number = q.number /\ p.type < q.type
    \/ p.number = q.number /\ p.type = q.type /\ p.task < q.task
    \/ p.number = q.number /\ p.type = q.type /\ p.task = q.task /\ p.part <= q.part

EndsBlock(p, S) == \A q \in S : q.number = p.number => q = p

Amount(p, n) == Min({blockmaxlen, n - p.part * blockmaxlen})
-------------------------------------------------------------------------------
(* savepositions: the run ends if there are fewer tasks than files.        *)
BeginSnapshot ==
  /\ phase = "run" /\ count < MaxSnapshots /\ param.ntask >= param.nfiles
  /\ phase' = "write" /\ gr' = 0
  /\ group' = InTurns(distribute_file(param.nfiles, 0, 0, param.ntask - 1))
  /\ progress' = Begun
  /\ UNCHANGED <<fixed, Disk, memory, tables, rest_files, todo, ahead, count>>

TooManyFiles == phase = "run" /\ param.ntask < param.nfiles /\ Stop

n_type(t) ==
  [k \in Types |-> Cardinality({i \in 0 .. NumPart[t] - 1 : P[t][i].Type = k})]

CountOf(T) == [k \in Types |-> MapThenSumSet(LAMBDA t : n_type(t)[k], T)]

SnapshotName(m) == NameOf(count, group[m].filenr, param.nfiles > 1)

PiecesToWrite(m) ==
  Pieces(m, CountOf(TasksOf(m)), Blocks, limits[m].MassTable, [t \in TasksOf(m) |-> n_type(t)], 0)

(* All tasks of a file fill in their header; what they leave alone is as   *)
(* it was read from the files the job started from.                        *)
WriteHeader(m) ==
  /\ phase = "write" /\ OnTurn(m) /\ progress[m] = "waiting"
  /\ LET filled(t) ==
           [header[t] EXCEPT !.npart = CountOf(TasksOf(m)), !.npartTotal = CountOf(Tasks),
                             !.mass = limits[m].MassTable, !.num_files = param.nfiles]
     IN  /\ header' = [t \in Tasks |-> IF t \in TasksOf(m) THEN filled(t) ELSE header[t]]
         /\ Disk' = (SnapshotName(m) :> [header |-> filled(m), blocks |-> <<>>, job |-> jobs,
                                         closed |-> FALSE]) @@ Disk
  /\ progress' = [progress EXCEPT ![m] = "open"] /\ todo' = [todo EXCEPT ![m] = PiecesToWrite(m)]
  /\ UNCHANGED <<fixed, phase, memory, limits, sharing, ahead, count>>

Value(t, b, i) ==
  CASE b = "U" -> SphP[t][i].U [] b = "MASS" -> P[t][i].MASS [] OTHER -> P[t][i].POS

SlotsOf(t, k) == SelectSeq([i \in 1 .. NumPart[t] |-> i - 1], LAMBDA i : P[t][i].Type = k)

(* Mutant: every piece is taken from the beginning of the particles.       *)
FilledFromStart(p, b) ==
  [x \in 1 .. Amount(p, n_type(p.task)[p.type]) |-> Value(p.task, b, SlotsOf(p.task, p.type)[x])]

(* fill_write_buffer: the next particles of the type, from startindex on.  *)
Filled(p, b) ==
  [x \in 1 .. Amount(p, n_type(p.task)[p.type]) |->
     Value(p.task, b, SlotsOf(p.task, p.type)[p.part * blockmaxlen + x])]

(* A block begins and ends with its size.                                  *)
WritePiece(m) ==
  /\ phase = "write" /\ OnTurn(m) /\ progress[m] = "open"
  /\ \E p \in todo[m] :
       LET b == Blocks[p.number]
           blocks == Disk[SnapshotName(m)].blocks
           new == blocks = <<>> \/ Last(blocks).label # b
           size == ParticlesInBlock(b, header[m].npart, limits[m].MassTable)
           block == IF new THEN [label |-> b, before |-> size, data |-> <<>>, after |-> -1]
                    ELSE Last(blocks)
       IN  /\ IsFirst(p, todo[m])
           /\ Disk' = [Disk EXCEPT ![SnapshotName(m)].blocks =
                         Append(IF new THEN @ ELSE Front(@),
                                [block EXCEPT !.data = @ \o Filled(p, b),
                                              !.after = IF EndsBlock(p, todo[m]) THEN size ELSE @])]
           /\ todo' = [todo EXCEPT ![m] = @ \ {p}]
  /\ UNCHANGED <<fixed, phase, memory, tables, sharing, progress, ahead, count>>

CloseWritten(m) ==
  /\ phase = "write" /\ OnTurn(m) /\ progress[m] = "open" /\ todo[m] = {}
  /\ Disk' = [Disk EXCEPT ![SnapshotName(m)].closed = TRUE]
  /\ progress' = [progress EXCEPT ![m] = "done"]
  /\ UNCHANGED <<fixed, phase, memory, tables, sharing, todo, ahead, count>>

NextTurnToWrite ==
  /\ phase = "write" /\ TurnDone
  /\ IF gr < LastTurn THEN gr' = gr + 1 /\ UNCHANGED phase
                      ELSE phase' = "written" /\ UNCHANGED gr
  /\ UNCHANGED <<fixed, Disk, memory, tables, rest_files, group, ofFile, count>>

SnapshotDone ==
  /\ phase = "written"
  /\ phase' = "run" /\ count' = count + 1
  /\ UNCHANGED <<fixed, Disk, memory, tables, sharing, ofFile>>
-------------------------------------------------------------------------------
(* A job is started from initial conditions (RestartFlag 0), here only the *)
(* first, or from a snapshot (2), whether or not it is whole.              *)
StartFromFiles(p, flag, base) ==
  /\ phase = "down"
  /\ IF flag = 0 THEN base = InitialConditions /\ jobs = 0 ELSE flag = 2 /\ base \in Nat
  /\ jobs' = jobs + 1 /\ phase' = "find"
  /\ param' = p @@ [RestartFlag |-> flag, InitCondFile |-> base]
  /\ NoMemory(p.ntask)
  /\ count' = IF flag = 2 THEN base + 1 ELSE 0
  /\ UNCHANGED <<crashes, Disk, restartset>>

(* restart(1), and the parameters that begrun takes from the new file.     *)
StartFromRestart(p) ==
  /\ phase = "down"
  /\ restartset # NoSet /\ p.ntask = restartset.ntask
  /\ jobs' = jobs + 1 /\ phase' = "run"
  /\ param' = p @@ [RestartFlag |-> 1, InitCondFile |-> RestartFile]
  /\ P' = restartset.P /\ SphP' = restartset.SphP
  /\ NumPart' = restartset.NumPart /\ N_gas' = restartset.N_gas
  /\ limits' = restartset.limits /\ count' = restartset.count
  /\ header' = [t \in 0 .. p.ntask - 1 |-> ZeroHeader]
  /\ progress' = [t \in 0 .. p.ntask - 1 |-> "waiting"] /\ todo' = [t \in 0 .. p.ntask - 1 |-> {}]
  /\ ahead' = [t \in 0 .. p.ntask - 1 |-> <<>>]
  /\ UNCHANGED <<crashes, Disk, sharing, restartset>>
-------------------------------------------------------------------------------
(* find_files: with a number, or else without.  Task 0 looks and tells.    *)
Found ==
  LET base == param.InitCondFile IN
  IF <<base, 0>> \in DOMAIN Disk /\ Disk[<<base, 0>>].header.num_files > 0
  THEN Disk[<<base, 0>>].header.num_files
  ELSE IF <<base, Alone>> \in DOMAIN Disk THEN 1 ELSE 0

FindFiles ==
  /\ phase = "find"
  /\ IF Found = 0 THEN Stop
     ELSE /\ phase' = "read" /\ rest_files' = Found /\ group' = Round(Found) /\ gr' = 0
          /\ UNCHANGED <<fixed, Disk, memory, tables, ofFile, count>>

FileRead(m) == NameOf(param.InitCondFile, group[m].filenr, Found > 1)

NewLimits(h) ==
  [MaxPart |-> (param.factor * (TotalOf(h.npartTotal, Types) \div param.ntask)) \div 100,
   MaxPartSph |-> (param.factor * (h.npartTotal[0] \div param.ntask)) \div 100,
   MassTable |-> h.mass]

(* The particles of type k in the file that task t gets.                   *)
Share(m, t, k, npart) ==
  LET n == group[m].last - m + 1 IN
  npart[k] \div n + (IF t - m < npart[k] % n THEN 1 ELSE 0)

CannotOpenFile(m) == phase = "read" /\ OnTurn(m) /\ FileRead(m) \notin DOMAIN Disk /\ Stop

(* do ... while: also a task that gets nothing has a piece.                *)
PiecesToRead(m, npart, MassTable) ==
  Pieces(m, npart, Blocks, MassTable,
         [t \in TasksOf(m) |-> [k \in Types |-> Share(m, t, k, npart)]], 1)

(* Mutant: the particles that are not gas are left where they are.         *)
GapLeftOut(row, from, to, nall) == row

(* memmove of slots from .. to - 1 by nall.                                *)
Gap(row, from, to, nall) ==
  [i \in DOMAIN row |-> IF i \in from + nall .. to + nall - 1 THEN row[i - nall] ELSE row[i]]

(* The header goes to all tasks of the file; the first that a task gets    *)
(* tells it how much to allocate.  A gap for the gas of the file is made   *)
(* behind the gas of the files before.                                     *)
OpenToRead(m) ==
  /\ phase = "read" /\ OnTurn(m) /\ progress[m] = "waiting" /\ FileRead(m) \in DOMAIN Disk
  /\ LET found == Disk[FileRead(m)].header
         first == IF found.num_files <= 1 THEN [found EXCEPT !.npartTotal = found.npart] ELSE found
         new(t) == IF limits[t] = NoLimits THEN NewLimits(first) ELSE limits[t]
         rows(t) ==
           IF limits[t] = NoLimits THEN [i \in 0 .. new(t).MaxPart - 1 |-> Blank] ELSE P[t]
         nall(t) == MapThenSumSet(LAMBDA k : Share(m, t, k, found.npart), Types)
         fits(t) == NumPart[t] = N_gas[t] \/ NumPart[t] + nall(t) <= new(t).MaxPart
     IN  IF \A t \in TasksOf(m) : fits(t)
         THEN /\ header' = [t \in Tasks |-> IF t \notin TasksOf(m) THEN header[t]
                                            ELSE IF limits[t] = NoLimits THEN first ELSE found]
              /\ limits' = [t \in Tasks |-> IF t \in TasksOf(m) THEN new(t) ELSE limits[t]]
              /\ P' = [t \in Tasks |-> IF t \in TasksOf(m)
                                       THEN Gap(rows(t), N_gas[t], NumPart[t], nall(t)) ELSE P[t]]
              /\ SphP' = [t \in Tasks |-> IF t \in TasksOf(m) /\ limits[t] = NoLimits
                                          THEN [i \in 0 .. new(t).MaxPartSph - 1 |-> BlankSph]
                                          ELSE SphP[t]]
              /\ progress' = [progress EXCEPT ![m] = "open"]
              /\ todo' = [todo EXCEPT ![m] = PiecesToRead(m, found.npart, new(m).MassTable)]
              /\ ahead' = [ahead EXCEPT ![m] = Disk[FileRead(m)].blocks]
              /\ UNCHANGED <<fixed, phase, Disk, NumPart, N_gas, sharing, count>>
         ELSE Overrun
-------------------------------------------------------------------------------
AmountRead(m, p) == Amount(p, Share(m, p.task, p.type, header[m].npart))

(* my_fread, the labels, and the sizes in front of and behind a block.     *)
Readable(m, p) ==
  /\ ahead[m] # <<>> /\ Head(ahead[m]).label = Blocks[p.number]
  /\ AmountRead(m, p) <= Len(Head(ahead[m]).data)
  /\ EndsBlock(p, todo[m]) => Head(ahead[m]).before = Head(ahead[m]).after

TooMany(m, p) ==
  NumPart[p.task] + Share(m, p.task, p.type, header[m].npart) > limits[p.task].MaxPart

(* endrun(778), (1889), (1890) or, when a task gets too many, (1313).      *)
CannotReadFile(m) ==
  /\ phase = "read" /\ OnTurn(m)
  /\ \E p \in todo[m] : IsFirst(p, todo[m]) /\ (~Readable(m, p) \/ TooMany(m, p))
  /\ Stop

(* nstart + offset.                                                        *)
Target(m, p) ==
  N_gas[p.task] + p.part * blockmaxlen
    + MapThenSumSet(LAMBDA k : Share(m, p.task, k, header[m].npart), {k \in Types : k < p.type})

(* empty_read_buffer.                                                      *)
Stored(row, b, type, target, data) ==
  [i \in DOMAIN row |->
     IF i \notin target .. target + Len(data) - 1 THEN row[i]
     ELSE LET value == data[i - target + 1] IN
          CASE b = "POS" -> [row[i] EXCEPT !.POS = value, !.Type = type]
            [] b = "MASS" -> [row[i] EXCEPT !.MASS = value]
            [] b = "U" -> [row[i] EXCEPT !.U = value]]

ReadPiece(m) ==
  /\ phase = "read" /\ OnTurn(m)
  /\ \E p \in todo[m] :
       LET b == Blocks[p.number]
           n == AmountRead(m, p)
           data == SubSeq(Head(ahead[m]).data, 1, n)
           first == Target(m, p)
           row == IF b = "U" THEN SphP[p.task] ELSE P[p.task]
           new == Stored(row, b, p.type, first, data)
       IN  /\ IsFirst(p, todo[m]) /\ Readable(m, p) /\ ~TooMany(m, p)
           /\ IF ~(first .. first + n - 1 \subseteq DOMAIN row) THEN Overrun
              ELSE /\ P' = IF b = "U" THEN P ELSE [P EXCEPT ![p.task] = new]
                   /\ SphP' = IF b = "U" THEN [SphP EXCEPT ![p.task] = new] ELSE SphP
                   /\ todo' = [todo EXCEPT ![m] = @ \ {p}]
                   /\ ahead' = [ahead EXCEPT ![m] =
                        IF EndsBlock(p, todo[m]) THEN Tail(@)
                        ELSE <<[Head(@) EXCEPT !.data = SubSeq(@, n + 1, Len(@))]>> \o Tail(@)]
                   /\ UNCHANGED <<fixed, phase, Disk, NumPart, N_gas, tables, sharing, progress,
                                  count>>

CloseRead(m) ==
  /\ phase = "read" /\ OnTurn(m) /\ progress[m] = "open" /\ todo[m] = {}
  /\ NumPart' = [t \in Tasks |-> NumPart[t] +
       IF t \in TasksOf(m) THEN MapThenSumSet(LAMBDA k : Share(m, t, k, header[m].npart), Types)
                           ELSE 0]
  /\ N_gas' = [t \in Tasks |-> N_gas[t] +
       IF t \in TasksOf(m) THEN Share(m, t, 0, header[m].npart) ELSE 0]
  /\ progress' = [progress EXCEPT ![m] = "done"]
  /\ UNCHANGED <<fixed, phase, Disk, P, SphP, tables, sharing, todo, ahead, count>>

(* Masses that are in the header.                                          *)
WithMasses(t) ==
  [i \in DOMAIN P[t] |-> IF i < NumPart[t] /\ P[t][i].Type \in limits[t].MassTable
                         THEN [P[t][i] EXCEPT !.MASS = P[t][i].POS] ELSE P[t][i]]

(* The next turn, the next round of files, or the end of read_ic.          *)
NextTurnToRead ==
  /\ phase = "read" /\ TurnDone
  /\ \/ /\ gr < LastTurn /\ gr' = gr + 1
        /\ UNCHANGED <<phase, P, rest_files, group, progress>>
     \/ /\ gr = LastTurn /\ rest_files > param.ntask
        /\ rest_files' = rest_files - param.ntask /\ group' = Round(rest_files') /\ gr' = 0
        /\ progress' = Begun
        /\ UNCHANGED <<phase, P>>
     \/ /\ gr = LastTurn /\ rest_files <= param.ntask
        /\ phase' = "ready" /\ P' = [t \in Tasks |-> WithMasses(t)]
        /\ UNCHANGED <<rest_files, group, gr, progress>>
  /\ UNCHANGED <<fixed, Disk, SphP, NumPart, N_gas, tables, todo, ahead, count>>
-------------------------------------------------------------------------------
(* The rest of init: the job ends if the files hold energies instead of    *)
(* entropies.                                                              *)
Refused == phase = "ready" /\ (\E t \in Tasks : header[t].flag_entropy_instead_u = 0) /\ Stop

(* The domain decomposition brings each particle to a task that has room,  *)
(* gas in front.                                                           *)
Moved(layout, gas) ==
  LET all == FlattenSeq([x \in 1 .. param.ntask |-> [i \in 1 .. NumPart[x - 1] |->
               [p |-> P[x - 1][i - 1],
                sph |-> IF i <= N_gas[x - 1] THEN SphP[x - 1][i - 1] ELSE BlankSph]]])
  IN  [t \in Tasks |-> SelectSeq(all, LAMBDA r : layout[r.p.POS] = t /\ gas = (r.p.Type = 0))]

Initialise ==
  /\ phase = "ready" /\ \A t \in Tasks : header[t].flag_entropy_instead_u # 0
  /\ \E layout \in Layouts[param.ntask] :
       LET g == Moved(layout, TRUE)
           row == [t \in Tasks |-> g[t] \o Moved(layout, FALSE)[t]]
       IN  /\ \A t \in Tasks : Len(row[t]) <= limits[t].MaxPart /\ Len(g[t]) <= limits[t].MaxPartSph
           /\ P' = [t \in Tasks |-> [i \in DOMAIN P[t] |->
                      IF i < Len(row[t]) THEN row[t][i + 1].p ELSE Blank]]
           /\ SphP' = [t \in Tasks |-> [i \in DOMAIN SphP[t] |->
                         IF i < Len(g[t]) THEN g[t][i + 1].sph ELSE BlankSph]]
           /\ NumPart' = [t \in Tasks |-> Len(row[t])]
           /\ N_gas' = [t \in Tasks |-> Len(g[t])]
  /\ phase' = "run"
  /\ UNCHANGED <<fixed, Disk, tables, sharing, ofFile, count>>

(* restart(0), which RestartFiles describes.                               *)
SaveRestart ==
  /\ phase = "run"
  /\ restartset' = [ntask |-> param.ntask, P |-> P, SphP |-> SphP, NumPart |-> NumPart,
                    N_gas |-> N_gas, limits |-> limits, count |-> count]
  /\ UNCHANGED <<jobs, crashes, phase, param, Disk, memory, tables, sharing, ofFile, count>>

EndRun == phase = "run" /\ Stop

(* At other times it leaves what EndRun or Refused does.                   *)
JobCrashes ==
  /\ phase \in {"write", "written", "overrun"} /\ crashes < MaxCrashes
  /\ crashes' = crashes + 1 /\ Cleared

SnapshotInit ==
  /\ jobs = 0 /\ crashes = 0 /\ phase = "down" /\ param = NoParam /\ Disk \in InitialFiles
  /\ P = <<>> /\ SphP = <<>> /\ NumPart = <<>> /\ N_gas = <<>> /\ limits = <<>> /\ header = <<>>
  /\ rest_files = 0 /\ group = <<>> /\ gr = 0 /\ progress = <<>> /\ todo = <<>> /\ ahead = <<>>
  /\ count = 0
  /\ restartset = NoSet

Start ==
  /\ jobs < Len(JobParams)
  /\ \E p \in JobParams[jobs + 1] :
       \/ StartFromRestart(p)
       \/ StartFromFiles(p, 0, InitialConditions)
       \/ \E base \in 0 .. MaxSnapshots - 1 : StartFromFiles(p, 2, base)

Work ==
  \/ FindFiles \/ NextTurnToRead \/ NextTurnToWrite
  \/ \E m \in Masters :
       \/ CannotOpenFile(m) \/ OpenToRead(m) \/ CannotReadFile(m) \/ ReadPiece(m) \/ CloseRead(m)
       \/ WriteHeader(m) \/ WritePiece(m) \/ CloseWritten(m)

SnapshotNext ==
  \/ Start \/ Work \/ Refused \/ Initialise
  \/ BeginSnapshot \/ TooManyFiles \/ SnapshotDone \/ SaveRestart \/ EndRun \/ JobCrashes

Snapshots_Spec == SnapshotInit /\ [][SnapshotNext]_snapshot_vars /\ WF_snapshot_vars(Work)
-------------------------------------------------------------------------------
IsGas(p) == TypeOf[p] = 0

Names(base, n) == {NameOf(base, x, n > 1) : x \in 0 .. n - 1}

(* All the files of a set, written to their ends by the same job.          *)
IsWhole(base, n) ==
  /\ Names(base, n) \subseteq DOMAIN Disk
  /\ \A f \in Names(base, n) : Disk[f].closed /\ (n > 1 => Disk[f].header.num_files = n)
  /\ \A f, g \in Names(base, n) : Disk[f].job = Disk[g].job

DataIn(f, b) ==
  FlattenSeq([x \in DOMAIN Disk[f].blocks |->
                IF Disk[f].blocks[x].label = b THEN Disk[f].blocks[x].data ELSE <<>>])

(* Never are more files open than may be written in parallel (io.c:30).    *)
OpenFiles == {m \in DOMAIN progress : progress[m] = "open"}

FewOpen == Cardinality(OpenFiles) <= param.parallel

(* When a snapshot was written, its files hold every particle once; all    *)
(* blocks of a file name their particles in the same order, gas first, and *)
(* those they should; sizes and headers agree with what is there, and the  *)
(* files together with the totals: pieces of several tasks reach a file in *)
(* messages and by turns (io.c:901, 119), with few files open at a time.   *)
WholeSnapshot ==
  /\ FewOpen
  /\ phase = "written" =>
       LET files == Names(count, param.nfiles)
           mass(f, p) == TypeOf[p] \notin Disk[f].header.mass
       IN  /\ IsWhole(count, param.nfiles)
           /\ \A p \in Particle :
                Cardinality({fx \in files \X (1 .. Cardinality(Particle)) :
                   fx[2] <= Len(DataIn(fx[1], "POS")) /\ DataIn(fx[1], "POS")[fx[2]] = p}) = 1
           /\ \A f \in files :
                LET pos == DataIn(f, "POS")
                    h == Disk[f].header
                IN  /\ \A i, j \in DOMAIN pos : i < j => TypeOf[pos[i]] <= TypeOf[pos[j]]
                    /\ DataIn(f, "U") = SelectSeq(pos, IsGas)
                    /\ DataIn(f, "MASS") = SelectSeq(pos, LAMBDA p : mass(f, p))
                    /\ \A b \in Range(Disk[f].blocks) : b.before = Len(b.data) /\ b.after = b.before
                    /\ \A k \in Types :
                         /\ h.npart[k] = Len(SelectSeq(pos, LAMBDA p : TypeOf[p] = k))
                         /\ h.npartTotal[k] = Cardinality({p \in Particle : TypeOf[p] = k})

(* After read_ic of a set of files that one job, or the maker of initial   *)
(* conditions, wrote to their ends, every particle is on one task, with    *)
(* its own type, mass and entropy, and gas in front of the rest: however   *)
(* many tasks and files there were and are, in whatever rounds and turns   *)
(* the files are read, with several files on a task (read_ic.c:398) or     *)
(* several tasks on a file (:445-556).                                     *)
ReadBack ==
  phase = "ready" /\ IsWhole(param.InitCondFile, Found) =>
    /\ \A p \in Particle :
         Cardinality({t \in Tasks : \E i \in 0 .. NumPart[t] - 1 : P[t][i].POS = p}) = 1
    /\ MapThenSumSet(LAMBDA t : NumPart[t], Tasks) = Cardinality(Particle)
    /\ \A t \in Tasks : \A i \in 0 .. NumPart[t] - 1 :
         LET p == P[t][i].POS IN
         /\ P[t][i] = [Type |-> TypeOf[p], POS |-> p, MASS |-> p]
         /\ IsGas(p) <=> i < N_gas[t]
         /\ IsGas(p) => SphP[t][i].U = p

(* read_ic and savepositions come to an end, though groups of files wait   *)
(* for each other in a barrier (io.c:123, read_ic.c:70, 101).              *)
FilesEnd == (phase \in {"find", "read", "write"}) ~> (phase \notin {"find", "read", "write"})

(* "this is also the way to resume a simulation from a snapshot file in    *)
(* case a regular restart file is not available" (read_ic.c:26-29): a      *)
(* whole snapshot that was read is not refused.                            *)
SnapshotResumes ==
  phase = "ready" /\ param.RestartFlag = 2 /\ IsWhole(param.InitCondFile, Found) =>
    \A t \in Tasks : header[t].flag_entropy_instead_u # 0
===============================================================================
