------------------------------ MODULE PlanetTools ------------------------------
(***************************************************************************)
(* The way of a planet through the programs around Gadget2: made shell by  *)
(* shell, equilibrated, freed of what was thrown off, combined with        *)
(* another one, collided, and handed to the analysis programs.  All they   *)
(* share are files without labels, read block by block in the order each   *)
(* program takes for granted, and ids that carry material and body.        *)
(*                                                                         *)
(* A value in a file is what it was written as, of which particle; that of *)
(* POS has its distance from the centre of its body.  A particle is the    *)
(* place <<body, n>> it was made at.  Float ranges, units and physics are  *)
(* left out: a run of Gadget moves the particles somewhere.                *)
(***************************************************************************)
EXTENDS Integers, FiniteSetsExt, SequencesExt

CONSTANTS
  Profiles,        \* for each body, sets of the mass up to each radius, and Rbound
  nSPH, ID_SKIP,
  rad,             \* beyond it 4_Remove takes particles away
  RcrustOf,        \* of each body, 0 for no crust
  Runs,            \* what runs of Gadget do: see Gadget
  OutputOptions,   \* blocks Gadget is told to write after the potential
  MarkPatterns     \* remnants of particles, by their place in a file modulo 3

Bodies == {1, 2}

ASSUME PlanetAssumption ==
  /\ nSPH > 0 /\ ID_SKIP > 0
  /\ \A b \in Bodies : \A p \in Profiles[b] :
       Len(p.mass) > 1 /\ p.mass[1] = 0 /\ p.bound # <<>> /\ Last(p.bound) = Len(p.mass) - 1
  /\ \A o \in OutputOptions : o \subseteq {"ACCE", "ENDT", "TSTP"}
  /\ \A run \in Runs : run.more \in OutputOptions

VARIABLES
  disk,            \* the files of each body, of the collision, and of the programs
  loaded,          \* what a program has read last, and from which files
  gadget,          \* "runs", or "stopped" on a file it cannot read
  meant            \* of each particle: the material, and whether its body is marked

planet_vars == <<disk, loaded, gadget, meant>>

FileNames == {"body1", "body2", "impact", "result", "corrected", "ejecta"}

BodyFile == <<"body1", "body2">>

(* An undefined value.                                                     *)
Garbage == [of |-> "garbage"]

NothingLoaded == [by |-> "nothing"]

Eight == <<"POS", "VEL", "ID", "MASS", "S", "RHO", "HSML", "POT">>

Width(label) == IF label \in {"POS", "VEL", "ACCE"} THEN 3 ELSE 1
-------------------------------------------------------------------------------
(* A file of labels, with the particles at the places keep of the fields   *)
(* p, and what the header says.                                            *)
Block(label, data) == [label |-> label, data |-> data]

At(p, keep, label) ==
  LET places == SelectSeq([i \in DOMAIN p["POS"] |-> i], LAMBDA i : i \in keep)
  IN  [i \in DOMAIN places |-> p[label][places[i]]]

BlocksOf(p, keep, labels) ==
  [k \in DOMAIN labels |-> Block(labels[k], At(p, keep, labels[k]))]

Header(n, time, entr) ==
  [npart |-> n, npartTotal |-> n, time |-> time, flag_entr_ics |-> entr, snapshot |-> FALSE]

Labels(file) == [k \in DOMAIN file.blocks |-> file.blocks[k].label]

(* Reading the wanted blocks one after the other: a block is right only if *)
(* all up to it are as wide and long as they are taken for.                *)
Fields(file, wanted) ==
  LET n == file.header.npart
      fits(k) == /\ k <= Len(file.blocks) /\ Len(file.blocks[k].data) = n
                 /\ Width(file.blocks[k].label) = Width(wanted[k])
      field(k) == IF \A j \in 1 .. k : fits(j) THEN file.blocks[k].data ELSE [i \in 1 .. n |-> Garbage]
  IN  [label \in Range(wanted) |-> field(CHOOSE k \in DOMAIN wanted : wanted[k] = label)]

Reading(name, wanted, pieces) ==
  [by |-> name, wanted |-> wanted, header |-> pieces[1].header, has |-> Labels(pieces[1]),
   fields |-> LET each == [k \in DOMAIN pieces |-> Fields(pieces[k], wanted)]
              IN  [label \in Range(wanted) |-> FlattenSeq([k \in DOMAIN pieces |-> each[k][label]])]]

(* The loaders: most want the eight blocks of a snapshot with potential.   *)
Reader(name, wanted) == [name |-> name, wanted |-> wanted]

RemoveFar == Reader("4_Remove", Eight)
CombineBodies == Reader("5_CombineBodies", Eight)
RemoveBox == Reader("analysis/Remove_box", Eight)
LoadBoundMass == Reader("tools/BoundMass", Eight)
LoadMoreBound == Reader("tools/MoreBound", Eight)
LoadRemoveLR == Reader("tools/RemoveLR", Eight)
LoadBoundMass0 == Reader("analysis/BoundMass", Eight)
LoadDiskMass2 == Reader("analysis/DiskMass2", Eight)
Pressures == Reader("analysis/SnapshotPressure", SubSeq(Eight, 1, 7))
CorrectEntropy == Reader("tools/CorrectEntropy", SubSeq(Eight, 1, 5))
LoadThermoVars == Reader("tools/Snapshot_ThermoVars", Eight \o <<"ACCE", "ENDT", "TSTP">>)
RemoveLR_long ==
  Reader("tools/RemoveLR_long", Eight \o <<"PRES", "T", "U", "CS", "ACCE", "TSTP">>)

(* AnalyseEquil and its relatives: all blocks after HSML have a flag.       *)
Equil(name, flags) ==
  Reader(name, SubSeq(Eight, 1, 7)
                 \o SelectSeq(<<"POT", "ACCE", "ENDT", "TSTP">>, LAMBDA label : label \in flags))

LoadAnalyseEquil(flags) == Equil("3b_AnalyseEquil", flags)
LoadSnapshotToTable(flags) == Equil("tools/SnapshotToTable", flags)
LoadEvolutionTables(flags) == Equil("tools/EvolutionTables", flags)
LoadFindPeakPressure(flags) == Equil("tools/FindPeakPressure", flags)
LoadEscaping(flags) == Equil("tools/EscapingParticles", flags)

(* ReadSnap and Snap2ss: densities only from a file with "snapshot" in its *)
(* name, the potential only from one whose time is not 0.                  *)
ReadSnapWants(header) ==
  SubSeq(Eight, 1, 5)
    \o (IF header.snapshot THEN SubSeq(Eight, 6, 7) ELSE <<>>)
    \o (IF header.time > 0 THEN <<"POT">> ELSE <<>>)

LoadReadSnap(header) == Reader("3_ReadSnap", ReadSnapWants(header))
LoadSnap2ss(header) == Reader("tools/Snap2ss", ReadSnapWants(header))

(* The programs that only read.                                            *)
Viewers(header, flags) ==
  {LoadBoundMass, LoadMoreBound, LoadBoundMass0, LoadDiskMass2, LoadAnalyseEquil(flags),
   LoadSnapshotToTable(flags), LoadEvolutionTables(flags), LoadFindPeakPressure(flags),
   LoadEscaping(flags), LoadReadSnap(header), LoadSnap2ss(header)}
-------------------------------------------------------------------------------
(* 1_MakePlanet.  Particles of each shell, from its part of the mass; those *)
(* that are missing are added to the outer half of the shells, from the    *)
(* outside.  Shells count from 0.                                          *)
NumberIn(mass) ==
  LET nr == Len(mass)
      half == nr - nr \div 2
      whole == [k \in 0 .. nr - 1 |->
                  IF k = 0 THEN 0 ELSE ((mass[k + 1] - mass[k]) * nSPH) \div mass[nr]]
      missing == nSPH - MapThenSumSet(LAMBDA k : whole[k], 0 .. nr - 1)
  IN  [k \in 0 .. nr - 1 |->
         whole[k] + Cardinality({x \in 0 .. missing - 1 : x % half = nr - 1 - k})]

(* Leaving a layer takes one material further, once for a particle.        *)
NextMaterial(mat, r, bound) ==
  IF r <= bound[mat + 1] /\ (mat > 0 => r >= bound[mat]) THEN mat ELSE mat + 1

(* The shell k and the material of each particle; n are in the shell.  A   *)
(* shell that is moved on to gets one particle even if it should have none.*)
Placement(profile) ==
  LET numr == NumberIn(profile.mass)
      place(s, i) ==
        LET more == s.n < numr[s.k]
            k == IF more THEN s.k ELSE s.k + 1
            mat == NextMaterial(s.mat, k, profile.bound)
        IN  [k |-> k, n |-> IF more THEN s.n + 1 ELSE 1, mat |-> mat,
             placed |-> Append(s.placed, [r |-> k, mat |-> mat])]
  IN  FoldLeft(place, [k |-> 0, n |-> 0, mat |-> 0, placed |-> <<>>], [i \in 1 .. nSPH |-> i]).placed

(* WriteICs(): the ids are written by the number of particles of each      *)
(* material, apart from the particles.                                     *)
WriteICs(b, placed, materials) ==
  LET numpart(mat) == Cardinality({i \in DOMAIN placed : placed[i].mat = mat})
      ids == FlattenSeq([m \in 1 .. materials |->
                           [i \in 1 .. numpart(m - 1) |-> i + (m - 1) * ID_SKIP]])
      fields == [label \in {"POS", "VEL", "ID", "MASS", "S"} |->
                   [i \in 1 .. nSPH |->
                      CASE label = "POS" -> [of |-> "POS", p |-> <<b, i>>, r |-> placed[i].r]
                        [] label = "ID" -> [of |-> "ID", id |-> ids[i]]
                        [] OTHER -> [of |-> label, p |-> <<b, i>>]]]
  IN  [header |-> Header(nSPH, 0, 1),
       blocks |-> BlocksOf(fields, 1 .. nSPH, SubSeq(Eight, 1, 5))]

(* The layer a radius is in.                                               *)
LayerAt(r, bound) == Min({m \in DOMAIN bound : r <= bound[m]}) - 1

MakePlanet(b) ==
  /\ gadget = "runs" /\ disk[BodyFile[b]] = <<>> /\ disk["impact"] = <<>>
  /\ \E profile \in Profiles[b] :
       LET placed == Placement(profile)
       IN  /\ disk' = [disk EXCEPT ![BodyFile[b]] = <<WriteICs(b, placed, Len(profile.bound))>>]
           /\ meant' = [meant EXCEPT ![b] =
                          [n \in 1 .. nSPH |->
                             [material |-> LayerAt(placed[n].r, profile.bound), marked |-> FALSE]]]
  /\ loaded' = NothingLoaded /\ UNCHANGED gadget
-------------------------------------------------------------------------------
(* A run of Gadget2: initial conditions are read, particles move and are   *)
(* put into another order, some are flung far away, and a snapshot is      *)
(* written, in one or two files.  The kind of entropy in its header may    *)
(* have got lost.                                                          *)
Whole(file) ==
  /\ Len(file.blocks) >= 5
  /\ \A k \in 1 .. 5 : Len(file.blocks[k].data) = file.header.npart

Gadget(name) ==
  /\ gadget = "runs" /\ Len(disk[name]) = 1
  /\ disk[name][1].header.time = 0 /\ disk[name][1].header.flag_entr_ics = 1
  /\ ~disk[name][1].header.snapshot
  /\ IF ~Whole(disk[name][1]) THEN gadget' = "stopped" /\ UNCHANGED disk
     ELSE /\ UNCHANGED gadget
          /\ \E run \in Runs :
               LET old == Fields(disk[name][1], SubSeq(Eight, 1, 5))
                   n == disk[name][1].header.npart
                   from(i) == IF run.backwards THEN n + 1 - i ELSE i
                   labels == Eight \o SelectSeq(<<"ACCE", "ENDT", "TSTP">>, LAMBDA l : l \in run.more)
                   moved(e) == [e EXCEPT !.r = IF e.p \in run.flung THEN rad + 1 ELSE Min({e.r, rad})]
                   fields == [label \in Range(labels) |->
                                [i \in 1 .. n |->
                                   CASE label = "POS" -> moved(old["POS"][from(i)])
                                     [] label = "ID" -> old["ID"][from(i)]
                                     [] OTHER -> [of |-> label, p |-> old["POS"][from(i)].p]]]
                   header(k) == [npart |-> k, npartTotal |-> n, time |-> run.time,
                                 flag_entr_ics |-> run.entr, snapshot |-> TRUE]
                   piece(keep) == [header |-> header(Cardinality(keep)),
                                   blocks |-> BlocksOf(fields, keep, labels)]
               IN  disk' = [disk EXCEPT ![name] =
                              IF run.pieces = 1 THEN <<piece(1 .. n)>>
                              ELSE <<piece(1 .. n \div 2), piece(n \div 2 + 1 .. n)>>]
  /\ loaded' = NothingLoaded /\ UNCHANGED meant
-------------------------------------------------------------------------------
(* A file is taken by a program that reads one file, and has all it wants. *)
Complete(pieces, wanted) ==
  Len(pieces) = 1 /\ Len(pieces[1].blocks) >= Len(wanted)

(* 4_Remove and analysis/Remove_box: ids of what is taken away become 0,   *)
(* and saving leaves out what has id 0.                                    *)
SaveWithout(file, p, gone, labels) ==
  LET count == Cardinality(gone)
      id == [i \in DOMAIN p["ID"] |-> IF i \in gone THEN [of |-> "ID", id |-> 0] ELSE p["ID"][i]]
      keep == {i \in DOMAIN id : id[i].id # 0}
      n == Len(id) - count
  IN  [header |-> [file.header EXCEPT !.npart = n, !.npartTotal = n, !.snapshot = FALSE],
       blocks |-> BlocksOf([p EXCEPT !["ID"] = id], keep, labels)]

(* A variant that writes the potential of all particles.                   *)
SaveAllPotentials(file, p, gone) ==
  [SaveWithout(file, p, gone, Eight) EXCEPT !.blocks[8] = Block("POT", p["POT"])]

SaveRemoved(file, p, gone) == SaveWithout(file, p, gone, Eight)

SaveOutsideBox(file, p, gone) == SaveWithout(file, p, gone, Eight)

Take(name, reader) ==
  /\ gadget = "runs" /\ Complete(disk[name], reader.wanted)
  /\ loaded' = Reading(reader.name, reader.wanted, disk[name])

RemoveParticles(name) ==
  /\ Take(name, RemoveFar)
  /\ LET p == loaded'.fields
         gone == {i \in DOMAIN p["POS"] : p["POS"][i].r > rad}
     IN  disk' = [disk EXCEPT ![name] = <<SaveRemoved(disk[name][1], p, gone)>>]
  /\ UNCHANGED <<gadget, meant>>

(* What is in the box is some of the particles.                            *)
RemoveTheBox(name) ==
  /\ Take(name, RemoveBox)
  /\ \E pattern \in MarkPatterns :
       LET p == loaded'.fields
           gone == {i \in DOMAIN p["POS"] : pattern[i % 3] = 1}
       IN  disk' = [disk EXCEPT !["result"] = <<SaveOutsideBox(disk[name][1], p, gone)>>]
  /\ UNCHANGED <<gadget, meant>>
-------------------------------------------------------------------------------
(* 5_CombineBodies.  Material and body of a particle by its id.            *)
MaterialById(id) == (id - 1) \div ID_SKIP

MarkedById(id) == (id - 1) % ID_SKIP >= ID_SKIP \div 2

(* identify_crust().                                                       *)
IdentifyCrust(p, rcrust) ==
  [i \in DOMAIN p["ID"] |->
     IF rcrust # 0 /\ p["POS"][i].r >= rcrust /\ p["ID"][i].id > ID_SKIP
     THEN [p["ID"][i] EXCEPT !.id = @ + ID_SKIP] ELSE p["ID"][i]]

Shifted(ids, by) == [i \in DOMAIN ids |-> [ids[i] EXCEPT !.id = @ + by]]

(* A variant that leaves the bodies unmarked.                              *)
IdentifyNone(n1, n2, ids) == ids

(* identify_body().                                                        *)
IdentifyBody(n1, n2, ids) ==
  IF n1 + n2 <= ID_SKIP \div 2 THEN Shifted(ids, ID_SKIP \div 2) ELSE ids

(* save_combined().                                                        *)
SaveCombined(h1, p1, h2, p2) ==
  LET n1 == h1.npart
      n2 == h2.npart
      ids1 == IdentifyCrust(p1, RcrustOf[1])
      ids2 == IdentifyBody(n1, n2,
                IdentifyCrust([p2 EXCEPT !["ID"] = Shifted(p2["ID"], n1)], RcrustOf[2]))
      both == [label \in DOMAIN p1 |-> IF label = "ID" THEN ids1 \o ids2 ELSE p1[label] \o p2[label]]
  IN  [header |-> [h1 EXCEPT !.npart = @ + n2, !.npartTotal = @ + h2.npartTotal,
                             !.time = 0, !.flag_entr_ics = 1, !.snapshot = FALSE],
       blocks |-> BlocksOf(both, 1 .. n1 + n2, Eight)]

(* The files of the bodies are not looked at again.                        *)
Combine ==
  /\ gadget = "runs" /\ disk["impact"] = <<>>
  /\ \A b \in Bodies : Complete(disk[BodyFile[b]], CombineBodies.wanted)
  /\ LET file(b) == disk[BodyFile[b]][1]
         p(b) == Fields(file(b), CombineBodies.wanted)
         n(b) == file(b).header.npart
         crusted(b) == {e.p : e \in {x \in Range(p(b)["POS"]) : RcrustOf[b] # 0 /\ x.r >= RcrustOf[b]}}
     IN  /\ disk' = [disk EXCEPT !["impact"] = <<SaveCombined(file(1).header, p(1), file(2).header, p(2))>>,
                                 !["body1"] = <<>>, !["body2"] = <<>>]
         /\ meant' = [b \in Bodies |->
                        [k \in DOMAIN meant[b] |->
                           [material |-> meant[b][k].material
                                           + (IF <<b, k>> \in crusted(b) /\ meant[b][k].material > 0 THEN 1 ELSE 0),
                            marked |-> b = 2 /\ n(1) + n(2) <= ID_SKIP \div 2]]]
  /\ loaded' = NothingLoaded /\ UNCHANGED gadget
-------------------------------------------------------------------------------
(* The analysis programs that write files.  What they compute belongs to   *)
(* the particle it is computed for.                                        *)
Computed(p, labels) ==
  [label \in DOMAIN p \cup labels |->
     IF label \in labels THEN [i \in DOMAIN p["POS"] |-> [of |-> label, p |-> p["POS"][i].p]] ELSE p[label]]

All(p) == DOMAIN p["POS"]

(* analysis/SnapshotPressure, save_pressure(), where the entropy may be    *)
(* replaced.                                                               *)
SavePressure(header, p, opt) ==
  [header |-> IF opt = "U" THEN [header EXCEPT !.flag_entr_ics = 0] ELSE header,
   blocks |-> BlocksOf(Computed(p, {"PRES", "T", "U"}), All(p),
                       <<"POS", "VEL", "ID", "MASS", opt, "RHO", "HSML", "PRES", "T">>)]

(* tools/CorrectEntropy: of the new entropies one is written.              *)
SaveCorrected(header, p) ==
  LET blocks == BlocksOf(p, All(p), CorrectEntropy.wanted)
  IN  [header |-> [header EXCEPT !.time = 0, !.flag_entr_ics = 1, !.snapshot = FALSE],
       blocks |-> [blocks EXCEPT ![5].data = SubSeq(@, 1, 1)]]

(* tools/Snapshot_ThermoVars.                                              *)
SaveThermoVars(header, p) ==
  [header |-> [header EXCEPT !.snapshot = FALSE],
   blocks |-> BlocksOf(Computed(p, {"PRES", "T", "U", "CS"}), All(p),
                       Eight \o <<"PRES", "T", "U", "CS", "ACCE", "ENDT", "TSTP">>)]

(* tools/RemoveLR and RemoveLR_long: what is not bound to the largest      *)
(* remnant, in a frame whose sums were never set to 0.                     *)
Recentred(p, r) == [p EXCEPT !["POS"] = [i \in DOMAIN @ |-> [@[i] EXCEPT !.r = r]]]

Ejecta(header, p, keep, labels, DensitiesOf(_)) ==
  LET n == Cardinality(keep)
      blocks == BlocksOf(p, keep, labels)
  IN  [header |-> [header EXCEPT !.npart = n, !.npartTotal = n, !.snapshot = FALSE],
       blocks |-> [k \in DOMAIN blocks |->
                     IF labels[k] = "RHO" THEN Block("RHO", At(p, DensitiesOf(keep), "RHO")) ELSE blocks[k]]]

(* The densities of other particles are written than the rest.             *)
WriteEjecta(header, p, bnd) ==
  Ejecta(header, p, {i \in All(p) : bnd[i] # 1}, Eight, LAMBDA keep : {i \in All(p) : bnd[i] # 2})

WriteLongEjecta(header, p, bnd) ==
  Ejecta(header, p, {i \in All(p) : bnd[i] # 1}, RemoveLR_long.wanted, LAMBDA keep : keep)

Derive(name) ==
  LET file == disk[name][1]
      p == loaded'.fields
  IN  \/ /\ Take(name, Pressures)
         /\ \E opt \in {"S", "PRES", "T", "U"} :
              disk' = [disk EXCEPT !["result"] = <<SavePressure(file.header, p, opt)>>]
      \/ /\ Take(name, CorrectEntropy)
         /\ disk' = [disk EXCEPT !["corrected"] = <<SaveCorrected(file.header, p)>>]
      \/ /\ Take(name, LoadThermoVars)
         /\ disk' = [disk EXCEPT !["result"] = <<SaveThermoVars(file.header, p)>>]
      \/ /\ Take(name, LoadRemoveLR)
         /\ \E pattern \in MarkPatterns, r \in {0, rad + 1} :
              disk' = [disk EXCEPT !["ejecta"] =
                         <<WriteEjecta(file.header, Recentred(p, r), [i \in All(p) |-> pattern[i % 3]])>>]

(* From a file of Snapshot_ThermoVars.                                     *)
DeriveLong(name) ==
  /\ Take(name, RemoveLR_long)
  /\ LET p == loaded'.fields
     IN  \E pattern \in MarkPatterns, r \in {0, rad + 1} :
           disk' = [disk EXCEPT !["ejecta"] =
                      <<WriteLongEjecta(disk[name][1].header, Recentred(p, r), [i \in All(p) |-> pattern[i % 3]])>>]

View(name) ==
  /\ gadget = "runs" /\ disk[name] # <<>>
  /\ \E more \in OutputOptions :
       \E reader \in Viewers(disk[name][1].header, more \cup {"POT"}) :
         loaded' = Reading(reader.name, reader.wanted, disk[name])
  /\ UNCHANGED disk
-------------------------------------------------------------------------------
PlanetInit ==
  /\ disk = [name \in FileNames |-> <<>>]
  /\ loaded = NothingLoaded /\ gadget = "runs"
  /\ meant = [b \in Bodies |-> <<>>]

(* Bounds: a program looks at files after one that only writes them, or    *)
(* reads what none of the others does; and one derived file is there.      *)
Unread == loaded = NothingLoaded

Underived == \A name \in {"result", "corrected", "ejecta"} : disk[name] = <<>>

PlanetNext ==
  \/ \E b \in Bodies : MakePlanet(b)
  \/ \E name \in {"body1", "body2"} : RemoveParticles(name)
  \/ Combine
  \/ \E name \in {"body1", "body2", "impact", "corrected"} : Gadget(name)
  \/ Unread /\ Underived /\ RemoveTheBox("impact")
  \/ Unread /\ Underived /\ Derive("impact") /\ UNCHANGED <<gadget, meant>>
  \/ disk["ejecta"] = <<>> /\ DeriveLong("result") /\ UNCHANGED <<gadget, meant>>
  \/ Unread /\ (View("body1") \/ View("impact")) /\ UNCHANGED <<gadget, meant>>

PlanetSpec == PlanetInit /\ [][PlanetNext]_planet_vars
-------------------------------------------------------------------------------
(* Every block of a file is of the particles of its positions, in their    *)
(* order, and as many as the header says.                                  *)
FieldsOf(file) ==
  [label \in Range(Labels(file)) |->
     LET k == CHOOSE k \in DOMAIN file.blocks : file.blocks[k].label = label IN file.blocks[k].data]

InOrder(p, label) ==
  /\ Len(p[label]) = Len(p["POS"])
  /\ \A i \in DOMAIN p[label] :
       /\ p[label][i].of = label
       /\ label # "ID" => p[label][i].p = p["POS"][i].p

(* WriteEjecta() and the entropies of save_snapshot() in CorrectEntropy    *)
(* are not so.                                                             *)
Apart(name) == IF name = "corrected" THEN {"S"} ELSE {}

FilesAgree ==
  \A name \in FileNames \ {"ejecta"} : \A file \in Range(disk[name]) :
    LET p == FieldsOf(file)
    IN  Len(p["POS"]) = file.header.npart /\ \A label \in DOMAIN p \ Apart(name) : InOrder(p, label)

(* Gadget2 starts from all initial conditions that are made, but not from  *)
(* those with the one entropy that CorrectEntropy writes for all.          *)
OthersStart ==
  gadget = "stopped" => disk["corrected"] # <<>> /\ ~Whole(disk["corrected"][1])

(* Ids are unique, give the layer a particle was made in, crust being one  *)
(* more, and the body it is from.                                          *)
IdsRight ==
  \A name \in {"body1", "body2", "impact"} :
    LET files == {FieldsOf(file) : file \in Range(disk[name])}
        pairs == UNION {{<<p["POS"][i].p, p["ID"][i].id>> : i \in DOMAIN p["POS"]} : p \in files}
        known(tok) == meant[tok[1]][tok[2]]
    IN  /\ Cardinality({x[2] : x \in pairs}) = Cardinality({x[1] : x \in pairs})
        /\ disk[name] # <<>> => Cardinality(pairs) = disk[name][1].header.npartTotal
        /\ \A x \in pairs :
             /\ name = "impact" \/ disk["impact"] = <<>> =>
                  MaterialById(x[2]) = known(x[1]).material /\ MarkedById(x[2]) = known(x[1]).marked

(* After 4_Remove no particle is far away, and a collision has the         *)
(* particles of both bodies.                                               *)
NothingFarAway ==
  \A b \in Bodies : \A file \in Range(disk[BodyFile[b]]) :
    ~file.header.snapshot => \A e \in Range(FieldsOf(file)["POS"]) : e.p[1] = b /\ e.r <= rad

(* A program reads what it takes the blocks for, when the file has these   *)
(* blocks in this order; RemoveLR_long but for the last.                   *)
ReadsRight ==
  loaded # NothingLoaded /\ (IsPrefix(loaded.wanted, loaded.has) \/ loaded.by = RemoveLR_long.name) =>
    \A label \in DOMAIN loaded.fields :
      label # "TSTP" \/ loaded.by # RemoveLR_long.name => InOrder(loaded.fields, label)

(* ReadSnap and Snap2ss know of themselves what is in the snapshots.       *)
SnapshotsKnown ==
  loaded # NothingLoaded /\ loaded.by \in {"3_ReadSnap", "tools/Snap2ss"} /\ loaded.header.snapshot =>
    IsPrefix(loaded.wanted, loaded.has)

(* Planets come through all programs with their blocks in step, their ids  *)
(* telling material and body, and nothing lost but what was far away, and  *)
(* Gadget2 can start from them.                                            *)
PlanetsWhole ==
  FilesAgree /\ OthersStart /\ IdsRight /\ NothingFarAway /\ ReadsRight /\ SnapshotsKnown

===============================================================================
