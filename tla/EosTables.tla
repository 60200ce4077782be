------------------------------- MODULE EosTables -------------------------------
(***************************************************************************)
(* Tables of equations of state: eos_table_interp() of Gadget2 and of the  *)
(* programs around it, each with a copy of its own, and the table lookups  *)
(* of 1_MakePlanet.                                                        *)
(*                                                                         *)
(* eos_table_interp() keeps the cell of the last lookup, of whatever       *)
(* material, as the first guess for the next one.  A value of a table is   *)
(* the place it belongs to: [of, d, s] is quantity "of" at the d-th        *)
(* density and the s-th entropy (or temperature), counted from 0.  Tables  *)
(* are ascending, as in EOS_tables, and have at least two rows and columns.*)
(***************************************************************************)
EXTENDS Integers, FiniteSetsExt, SequencesExt

CONSTANTS
  Tables,          \* densities and entropies of the table of each material
  Densities, Entropies, Quantities,   \* that are looked up
  EOS_ID_SKIP,
  ParticleIds,
  MakerTables      \* densities and temperatures of the tables of 1_MakePlanet

Ascending(xx) == \A i, j \in DOMAIN xx : i <= j => xx[i] <= xx[j]

ASSUME EosAssumption ==
  /\ EOS_ID_SKIP \in Nat \ {0} /\ ParticleIds \subseteq Int
  /\ Densities \subseteq Int /\ Entropies \subseteq Int /\ Quantities \subseteq 0 .. 3
  /\ Tables \in Seq([density : Seq(Int), entropy : Seq(Int)]) /\ Len(Tables) = 3
  /\ MakerTables \in Seq([density : Seq(Int), temperature : Seq(Int)])
  /\ \A t \in Range(Tables) :
       Len(t.density) > 1 /\ Ascending(t.density) /\ Len(t.entropy) > 1 /\ Ascending(t.entropy)
  /\ \A t \in Range(MakerTables) :
       /\ Len(t.density) > 1 /\ Ascending(t.density)
       /\ Len(t.temperature) > 1 /\ Ascending(t.temperature)

VARIABLES
  program,         \* one of Programs
  d0, s0,          \* the static variables
  answer,          \* what the last lookup was for, and what it read
  stopped          \* "no", or what made the program exit

eos_vars == <<program, d0, s0, answer, stopped>>

NoAnswer == [of |-> "nothing"]

(* Pressure, temperature, internal energy and sound speed.                 *)
Thermo == 0 .. 3
-------------------------------------------------------------------------------
(* Programs: materials with tables, gases without, and whether a cell      *)
(* outside of the table is replaced by the nearest one; a lookup is for a  *)
(* "particle", in a "table" the caller passes, or for a "shell".           *)
Settings(name, materials, gases, extrapolate, lookup) ==
  [name |-> name, materials |-> materials, gases |-> gases,
   extrapolate |-> extrapolate, lookup |-> lookup]

Gadget2 == Settings("Gadget2", 3, 0, TRUE, "particle")
ReadSnap == Settings("ReadSnap", 3, 0, FALSE, "particle")
Snap2ss == Settings("Snap2ss", 3, 0, FALSE, "particle")
SnapshotPressure == Settings("SnapshotPressure", 2, 0, FALSE, "particle")
ThermoVars == Settings("Snapshot_ThermoVars", 2, 2, TRUE, "particle")
AnalyseEquil == Settings("AnalyseEquil", 3, 0, TRUE, "table")
EvolutionTables == Settings("EvolutionTables", 3, 0, TRUE, "table")
FindPeakPressure == Settings("FindPeakPressure", 3, 0, TRUE, "table")
SnapshotToTable == Settings("SnapshotToTable", 3, 0, TRUE, "table")
PlanetMaker == Settings("1_MakePlanet", Len(MakerTables), 0, TRUE, "shell")

Programs ==
  {Gadget2, ReadSnap, Snap2ss, SnapshotPressure, ThermoVars,
   AnalyseEquil, EvolutionTables, FindPeakPressure, SnapshotToTable,
   PlanetMaker}

(* A table file: the densities, the entropies, and the quantities with the *)
(* density varying first; and what is read from it into flat arrays.       *)
TableFile(t) ==
  LET ND == Len(t.density)
      NS == Len(t.entropy)
      quantity(q) ==
        [n \in 1 .. ND * NS |-> [of |-> q, d |-> (n - 1) % ND, s |-> (n - 1) \div ND]]
  IN  <<ND, NS>> \o t.density \o t.entropy
        \o quantity(0) \o quantity(1) \o quantity(2) \o quantity(3)

Import(file) ==
  LET ND == file[1]
      NS == file[2]
      from(skip, n) == SubSeq(file, 2 + skip + 1, 2 + skip + n)
  IN  [ND |-> ND, NS |-> NS, density |-> from(0, ND), entropy |-> from(ND, NS),
       thermo_quantities |-> [q \in Thermo |-> from(ND + NS + q * ND * NS, ND * NS)]]

Materials == [m \in DOMAIN Tables |-> Import(TableFile(Tables[m]))]

(* The material of a particle; modf() truncates.                           *)
MaterialOf(id) ==
  IF id >= 1 THEN (id - 1) \div EOS_ID_SKIP ELSE -((1 - id) \div EOS_ID_SKIP)

Clamped(x, xx) == IF x < xx[1] THEN xx[1] ELSE IF x > Last(xx) THEN Last(xx) ELSE x
-------------------------------------------------------------------------------
(* A loop is the function that takes the values of its variables through   *)
(* one turn; it ends at values that stay as they are.                      *)
EndOf(turn, start) ==
  LET end[v \in DOMAIN turn] == IF turn[v] = v THEN v ELSE end[turn[v]]
  IN  end[start]

(* hunt(): from the guess in steps that double until the value lies        *)
(* between jlo and jhi, then bisection.  Arrays count from 1 inside it;    *)
(* jlo = 0 and jhi = n + 1 are the ends of the table.                      *)
UpTurn(xx, x) ==
  LET n == Len(xx)
  IN  [v \in (1 .. n) \X (2 .. n + 1) \X (Nat \ {0}) |->
         LET jhi == v[2]
             inc == 2 * v[3]
         IN  IF jhi > n \/ x < xx[jhi] THEN v
             ELSE <<jhi, IF jhi + inc > n THEN n + 1 ELSE jhi + inc, inc>>]

HuntUp(xx, x, guess) == EndOf(UpTurn(xx, x), <<guess, guess + 1, 1>>)

DownTurn(xx, x) ==
  LET n == Len(xx)
  IN  [v \in (0 .. n) \X (1 .. n + 1) \X (Nat \ {0}) |->
         LET jlo == v[1]
             inc == 2 * v[3]
         IN  IF jlo = 0 \/ x >= xx[jlo] THEN v
             ELSE <<IF inc >= jlo THEN 0 ELSE jlo - inc, jlo, inc>>]

HuntDown(xx, x, guess) == EndOf(DownTurn(xx, x), <<guess - 1, guess, 1>>)

BisectTurn(xx, x) ==
  LET n == Len(xx)
  IN  [v \in {w \in (0 .. n) \X (1 .. n + 1) : w[1] < w[2]} |->
         LET jm == (v[2] + v[1]) \div 2
         IN  IF v[2] - v[1] = 1 THEN v
             ELSE IF x >= xx[jm] THEN <<jm, v[2]>> ELSE <<v[1], jm>>]

(* Mutant: without the ends of the table.                                  *)
BisectOpen(xx, x, jlo, jhi) == EndOf(BisectTurn(xx, x), <<jlo, jhi>>)[1] - 1

Bisect(xx, x, jlo, jhi) ==
  CASE x = xx[1] -> 0
    [] x # xx[1] /\ x = Last(xx) -> Len(xx) - 2
    [] OTHER -> EndOf(BisectTurn(xx, x), <<jlo, jhi>>)[1] - 1

(* At an end of the table it returns without the shift to arrays that      *)
(* count from 0.                                                           *)
Hunt(xx, x, guess) ==
  LET n == Len(xx)
      jlo == guess + 1
      useless == jlo <= 0 \/ jlo > n
      up == HuntUp(xx, x, jlo)
      down == HuntDown(xx, x, jlo)
  IN  CASE useless -> Bisect(xx, x, 0, n + 1)
        [] ~useless /\ x >= xx[jlo] -> IF jlo = n THEN n ELSE Bisect(xx, x, up[1], up[2])
        [] OTHER -> IF jlo = 1 THEN 0 ELSE Bisect(xx, x, down[1], down[2])

Within(cell, n) == IF cell < 0 THEN 0 ELSE IF cell > n - 2 THEN n - 2 ELSE cell

(* The corners q11, q12, q21 and q22.                                      *)
Corners(t, q, d, s) ==
  [c \in {0, 1} \X {0, 1} |-> t.thermo_quantities[q][(d + c[1]) + (s + c[2]) * t.ND + 1]]
-------------------------------------------------------------------------------
(* A lookup of rho and s in the table of material m, from 0.               *)
LookUp(m, rho, entr, q) ==
  LET t == Materials[m + 1]
      x == Clamped(rho, t.density)
      y == Clamped(entr, t.entropy)
      d == Hunt(t.density, x, d0)
      s == Hunt(t.entropy, y, s0)
      outside == d \notin 0 .. t.ND - 2 \/ s \notin 0 .. t.NS - 2
  IN  /\ stopped' = IF outside /\ ~program.extrapolate THEN "outside" ELSE "no"
      /\ d0' = IF program.extrapolate THEN Within(d, t.ND) ELSE d
      /\ s0' = IF program.extrapolate THEN Within(s, t.NS) ELSE s
      /\ answer' = [of |-> "table", m |-> m, x |-> x, y |-> y, q |-> q, d |-> d0', s |-> s0',
                    guess |-> IF stopped' = "no" THEN <<>> ELSE <<d0, s0>>,
                    read |-> IF stopped' = "no" THEN Corners(t, q, d0', s0') ELSE <<>>]

(* eos_table_interp(), called for a particle.                              *)
ForParticle(id, rho, entr, q) ==
  LET m == MaterialOf(id)
  IN  /\ stopped = "no" /\ program.lookup = "particle"
      /\ \/ /\ m \notin 0 .. program.materials + program.gases - 1
            /\ stopped' = "id" /\ UNCHANGED <<d0, s0, answer>>
         \/ /\ m \in program.materials .. program.materials + program.gases - 1
            /\ answer' = [of |-> "gas", m |-> m] /\ UNCHANGED <<d0, s0, stopped>>
         \/ m \in 0 .. program.materials - 1 /\ LookUp(m, rho, entr, q)
      /\ UNCHANGED program

(* eos_table_interp(), called with a table.                                *)
ForTable(m, rho, entr, q) ==
  stopped = "no" /\ program.lookup = "table" /\ LookUp(m, rho, entr, q) /\ UNCHANGED program
-------------------------------------------------------------------------------
(* 1_MakePlanet.  All tables are in one array, each with room for nRho     *)
(* densities and nT temperatures, although it may have fewer.              *)
nRho == Max({Len(t.density) : t \in Range(MakerTables)})

nT == Max({Len(t.temperature) : t \in Range(MakerTables)})

(* Readtable(): a quantity of all tables, in an array that counts from 0.  *)
(* In the file the density varies first; "0" is the padding.               *)
QuantityArray(q) ==
  [n \in 0 .. Len(MakerTables) * nRho * nT - 1 |->
     LET mat == n \div (nRho * nT)
         i == (n % (nRho * nT)) \div nT
         j == n % nT
     IN  IF i < Len(MakerTables[mat + 1].density) /\ j < Len(MakerTables[mat + 1].temperature)
         THEN [of |-> q, mat |-> mat, d |-> i, s |-> j] ELSE [of |-> "padding"]]

DensityArray ==
  [n \in 0 .. Len(MakerTables) * nRho - 1 |->
     LET density == MakerTables[n \div nRho + 1].density
     IN  IF (n % nRho) < Len(density) THEN density[(n % nRho) + 1] ELSE 0]

(* The first of n places of an array, from "from", with a value that is    *)
(* not below x, or n.                                                      *)
FirstNotBelow(array, from, n, x) ==
  Min({n} \cup {i \in 0 .. n - 1 : x <= array[from + i]})

(* Interpolate() on P(rho) at temperature T: the density at a pressure     *)
(* that comes i-th among the pressures of the table; a pressure between    *)
(* two of the table gives a density above the lower one.                   *)
DensitiesAt(mat, i) ==
  LET n == Len(MakerTables[mat + 1].density)
      darr == DensityArray
      at(k) == darr[k + mat * nRho]
  IN  CASE i = 0 -> {at(0)}
        [] i = n -> {at(n - 1)}
        [] OTHER -> at(i - 1) + 1 .. at(i)

(* CalcEnt(): the values of the entropy a lookup uses.  The rows at and    *)
(* below T are there for every density; for a density at the lower end it  *)
(* takes a value of the table by the index of the density alone.           *)
EntropyFrom(mat, T, rho) ==
  LET n == Len(MakerTables[mat + 1].density)
      temperature == MakerTables[mat + 1].temperature
      tarr == [k \in 0 .. Len(temperature) - 1 |-> temperature[k + 1]]
      sarr == QuantityArray("entropy")
      t == FirstNotBelow(tarr, 0, Len(temperature), T)
      rows == IF t = 0 THEN {0} ELSE IF t = Len(temperature) THEN {t - 1} ELSE {t - 1, t}
      i == FirstNotBelow(DensityArray, mat * nRho, n, rho)
  IN  CASE i = 0 -> {sarr[mat * nRho]}
        [] i = n -> {sarr[n - 1 + mat * nRho]}
        [] OTHER -> {sarr[c[2] + c[1] * nT + mat * nRho * nT] : c \in {i - 1, i} \X rows}

(* One shell of the planet: its density from the pressure, its entropy     *)
(* from the density.                                                       *)
Shell(mat, T, i) ==
  /\ stopped = "no" /\ program.lookup = "shell"
  /\ \E rho \in DensitiesAt(mat, i) :
       answer' = [of |-> "shell", m |-> mat, x |-> rho, y |-> T, read |-> EntropyFrom(mat, T, rho)]
  /\ UNCHANGED <<program, d0, s0, stopped>>
-------------------------------------------------------------------------------
EosInit ==
  /\ program \in Programs
  /\ d0 = -1 /\ s0 = -1
  /\ answer = NoAnswer /\ stopped = "no"

EosNext ==
  \/ \E rho \in Densities, entr \in Entropies, q \in Quantities :
       \/ \E id \in ParticleIds : ForParticle(id, rho, entr, q)
       \/ \E m \in DOMAIN Tables : ForTable(m - 1, rho, entr, q)
  \/ \E mat \in 0 .. Len(MakerTables) - 1, T \in Entropies :
       \E i \in 0 .. Len(MakerTables[mat + 1].density) : Shell(mat, T, i)

EosSpec == EosInit /\ [][EosNext]_eos_vars
-------------------------------------------------------------------------------
(* The cell that is read holds the value that is looked up, the four       *)
(* values read are of that cell, material and quantity, however far off    *)
(* the guess was.                                                          *)
CellRight ==
  answer.of = "table" /\ stopped = "no" =>
    LET t == Tables[answer.m + 1]
    IN  /\ answer.d \in 0 .. Len(t.density) - 2 /\ answer.s \in 0 .. Len(t.entropy) - 2
        /\ t.density[answer.d + 1] <= answer.x /\ answer.x <= t.density[answer.d + 2]
        /\ t.entropy[answer.s + 1] <= answer.y /\ answer.y <= t.entropy[answer.s + 2]
        /\ \A c \in {0, 1} \X {0, 1} :
             answer.read[c] = [of |-> answer.q, d |-> answer.d + c[1], s |-> answer.s + c[2]]

(* A program that does not extrapolate stops, on values within the table,  *)
(* only if the guess came from a larger table and was the last place of    *)
(* this one, and the value is at the end of it.                            *)
StopsAtStaleGuess ==
  stopped = "outside" =>
    LET t == Tables[answer.m + 1]
    IN  /\ ~program.extrapolate
        /\ \/ answer.guess[1] = Len(t.density) - 1 /\ answer.x = Last(t.density)
                /\ \E u \in Range(Tables) : Len(u.density) > Len(t.density)
           \/ answer.guess[2] = Len(t.entropy) - 1 /\ answer.y = Last(t.entropy)
                /\ \E u \in Range(Tables) : Len(u.entropy) > Len(t.entropy)

(* Places, from 0, of the last value below x and the first not below it.   *)
Around(xx, x) ==
  {k \in 0 .. Len(xx) - 1 :
     \/ xx[k + 1] >= x /\ (k = 0 \/ xx[k] < x)
     \/ xx[k + 1] < x /\ (k + 1 = Len(xx) \/ xx[k + 2] >= x)}

(* A shell of a new planet gets its entropy from the places of the table   *)
(* around its density and temperature, in the table of its material,       *)
(* unless it has the lowest density of the table.                          *)
ShellRight ==
  answer.of = "shell" =>
    LET t == MakerTables[answer.m + 1]
    IN  answer.x > t.density[1] =>
          answer.read = {[of |-> "entropy", mat |-> answer.m, d |-> c[1], s |-> c[2]] :
                           c \in Around(t.density, answer.x) \X Around(t.temperature, answer.y)}

(* Every lookup in a table of an equation of state reads the right place,  *)
(* and stops the program in no case but one.                               *)
LookupRight == CellRight /\ StopsAtStaleGuess /\ ShellRight
===============================================================================
