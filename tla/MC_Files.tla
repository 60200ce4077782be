-------------------------------- MODULE MC_Files --------------------------------
(***************************************************************************)
(* Restart files, snapshots, and the programs that make and use them, each *)
(* checked by itself: restart(0) and restart(1) in detail; snapshots and   *)
(* initial conditions, where a set of restart files is either written or   *)
(* not; and what MC_Programs has.                                          *)
(*                                                                         *)
(* Particles: three of gas, one of a type with masses in the header and    *)
(* two of one without; initial conditions in one, two or four files, or    *)
(* with energies.                                                          *)
(***************************************************************************)
EXTENDS RestartFiles, SnapshotFiles, MC_Programs

VARIABLE part   \* "restart", "snapshots", "planets", "tables" or "remnants"

SixTypes == <<0, 0, 0, 1, 2, 2>>

SomeBlocks == <<"POS", "MASS", "U">>

File(n, seq, flag) ==
  LET gas == SelectSeq(seq, IsGas)
      massive == SelectSeq(seq, LAMBDA p : TypeOf[p] # 1)
      block(b, data) ==
        IF data = <<>> THEN <<>>
        ELSE <<[label |-> b, before |-> Len(data), data |-> data, after |-> Len(data)]>>
      number(s, k) == Len(SelectSeq(s, LAMBDA p : TypeOf[p] = k))
  IN  [header |-> [npart |-> [k \in Types |-> number(seq, k)],
                   npartTotal |-> [k \in Types |-> Cardinality({p \in Particle : TypeOf[p] = k})],
                   mass |-> {1}, num_files |-> n, flag_entropy_instead_u |-> flag],
       blocks |-> block("POS", seq) \o block("MASS", massive) \o block("U", gas),
       job |-> 0, closed |-> TRUE]

OneFile(flag) == <<InitialConditions, Alone>> :> File(1, <<1, 2, 3, 4, 5, 6>>, flag)

Several(seqs) ==
  [name \in {<<InitialConditions, n>> : n \in 0 .. Len(seqs) - 1} |-> File(Len(seqs), seqs[name[2] + 1], 1)]

SomeFiles ==
  {OneFile(1), OneFile(0), Several(<< <<1, 2, 3>>, <<4, 5, 6>> >>),
   Several(<< <<1, 4>>, <<6>>, <<2>>, <<3, 5>> >>)}

Param(ntask, nfiles, parallel, factor) ==
  [ntask |-> ntask, nfiles |-> nfiles, parallel |-> parallel, factor |-> factor]

(* Two of the first cannot write, or have no room for some files.          *)
Params ==
  << {Param(2, 1, 1, 200), Param(3, 2, 2, 300), Param(2, 3, 1, 200), Param(3, 1, 1, 100)},
     {Param(2, 1, 1, 200), Param(2, 2, 1, 200), Param(3, 2, 2, 300)},
     {Param(2, 1, 1, 200), Param(3, 2, 2, 300)} >>

(* With three tasks one has all the gas, in two pieces.                    *)
SomeLayouts ==
  [n \in 1 .. 3 |-> {[p \in Particle |-> IF p \in {IF n = 3 THEN 4 ELSE 1, 5} THEN n - 1 ELSE 0]}]
-------------------------------------------------------------------------------
files_vars ==
  <<vars, snapshot_vars, planet_vars, eos_vars, remnant_vars, part>>

TablesOver ==
  program = ReadSnap /\ d0 = -1 /\ s0 = -1 /\ answer = NoAnswer /\ stopped = "no"

RemnantsOver ==
  /\ finder = DiskMass2 /\ pl = CHOOSE c \in Collisions : TRUE
  /\ bnd = [i \in Indices |-> 0]
  /\ remnant = 1 /\ seedindex = 1
  /\ centre = Centre({}) /\ bndm = 0 /\ oldm = 0 /\ passes = 0 /\ nbound = 0
  /\ search = "done" /\ printed = <<>> /\ table = <<>>

FilesInit ==
  /\ part \in {"restart", "snapshots", "planets", "tables", "remnants"}
  /\ Init /\ PlanetInit
  /\ IF part = "snapshots" THEN SnapshotInit
     ELSE SnapshotInit /\ Disk = OneFile(1)
  /\ IF part = "tables" THEN EosInit ELSE TablesOver
  /\ IF part = "remnants" THEN RemnantsInit ELSE RemnantsOver

Others(name) ==
  /\ part = name /\ UNCHANGED part
  /\ name # "restart" => UNCHANGED vars
  /\ name # "snapshots" => UNCHANGED snapshot_vars
  /\ name # "planets" => UNCHANGED planet_vars
  /\ name # "tables" => UNCHANGED eos_vars
  /\ name # "remnants" => UNCHANGED remnant_vars

RestartNext == Others("restart") /\ Next

SnapshotsNext == Others("snapshots") /\ SnapshotNext

PlanetsNext == Others("planets") /\ PlanetNext

TablesNext == Others("tables") /\ EosNext

BoundNext == Others("remnants") /\ RemnantsNext

RestartProgress == Others("restart") /\ Progress

SnapshotsProgress == Others("snapshots") /\ Work

Files_Spec ==
  /\ FilesInit
  /\ [][RestartNext \/ SnapshotsNext \/ PlanetsNext \/ TablesNext \/ BoundNext]_files_vars
  /\ WF_files_vars(RestartProgress) /\ WF_files_vars(SnapshotsProgress) /\ WF_files_vars(BoundNext)

(* Restart files are written or read to the end, so are snapshots, and a   *)
(* limited search for what is bound comes to an end.                       *)
EverythingEnds == RestartEnds /\ FilesEnd /\ SearchEnds
===============================================================================
