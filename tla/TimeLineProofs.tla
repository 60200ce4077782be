---------------------------- MODULE TimeLineProofs ----------------------------
(***************************************************************************)
(* Theorems about TimeLine, for every number of particles and tasks, every *)
(* length of the time line, every sequence of steps, outputs, stops,       *)
(* crashes and continued runs; and about KickDrift, for every number of    *)
(* gas particles, with the mesh and without it, and every limit of         *)
(* displacement and of the tree's age.                                     *)
(***************************************************************************)
EXTENDS KickDrift, FiniteSetTheorems, FunctionTheorems, TLAPS

-------------------------------------------------------------------------------
(* Multiples of a step.                                                    *)

LEMMA MultipleExists ==
  ASSUME NEW n \in Nat, NEW s \in Nat \ {0}, n % s = 0
  PROVE  \E k \in Nat : n = k * s
  OBVIOUS

LEMMA MultipleDivides ==
  ASSUME NEW n \in Nat, NEW s \in Nat \ {0}, NEW k \in Int, n = k * s
  PROVE  n % s = 0
  OBVIOUS

(* A multiple of a step is a multiple of every shorter one.                *)
LEMMA MultipleOfShorter ==
  ASSUME NEW n \in Nat, NEW s \in Steps, NEW r \in Steps, r <= s, n % s = 0
  PROVE  n % r = 0
  <1>1. s \in Nat \ {0} /\ r \in Nat \ {0} /\ s % r = 0
    BY StepsAssumption
  <1>2. PICK k \in Nat : n = k * s
    BY <1>1, MultipleExists
  <1>3. PICK j \in Nat : s = j * r
    BY <1>1, MultipleExists
  <1>4. n = (k * j) * r /\ k * j \in Nat
    BY <1>1, <1>2, <1>3
  <1> QED BY <1>1, <1>4, MultipleDivides

(* The next multiple after the end of a step is the end of the next.       *)
LEMMA NextMultiple ==
  ASSUME NEW n \in Nat, NEW s \in Nat \ {0}, n % s = 0
  PROVE  (n + s) % s = 0
  <1>1. PICK k \in Nat : n = k * s
    BY MultipleExists
  <1>2. n + s = (k + 1) * s /\ n + s \in Nat /\ k + 1 \in Int
    BY <1>1
  <1> QED BY <1>2, MultipleDivides

(* What is left of the time line is a multiple only if the time is one.    *)
LEMMA RestMultiple ==
  ASSUME NEW n \in Nat, NEW s \in Steps, n <= TIMEBASE, (TIMEBASE - n) % s = 0
  PROVE  n % s = 0
  <1>1. s \in Nat \ {0} /\ TIMEBASE \in Nat /\ TIMEBASE % s = 0
    BY StepsAssumption
  <1>2. PICK k \in Nat : TIMEBASE = k * s
    BY <1>1, MultipleExists
  <1>0. TIMEBASE - n \in Nat
    BY <1>1
  <1>3. PICK j \in Nat : TIMEBASE - n = j * s
    BY <1>0, <1>1, MultipleExists
  <1>4. n = (k - j) * s /\ k - j \in Int
    BY <1>1, <1>2, <1>3
  <1> QED BY <1>1, <1>4, MultipleDivides

(* A step from a multiple of itself does not pass the end.                 *)
LEMMA StepFits ==
  ASSUME NEW n \in Nat, NEW s \in Steps, n < TIMEBASE, n % s = 0
  PROVE  n + s <= TIMEBASE
  <1>1. s \in Nat \ {0} /\ TIMEBASE \in Nat /\ TIMEBASE % s = 0
    BY StepsAssumption
  <1>2. PICK k \in Nat : TIMEBASE = k * s
    BY <1>1, MultipleExists
  <1>3. PICK j \in Nat : n = j * s
    BY <1>1, MultipleExists
  <1>4. j < k
    BY <1>1, <1>2, <1>3
  <1>5. (j + 1) * s <= k * s
    BY <1>1, <1>4
  <1> QED BY <1>1, <1>2, <1>3, <1>5

(* Two multiples of a step with less than a step between them are equal.   *)
LEMMA SameMultiple ==
  ASSUME NEW m \in Nat, NEW n \in Nat, NEW s \in Nat \ {0}, m % s = 0, n % s = 0, m < n
  PROVE  m + s <= n
  <1>1. PICK j \in Nat : m = j * s
    BY MultipleExists
  <1>2. PICK k \in Nat : n = k * s
    BY MultipleExists
  <1>3. j < k
    BY <1>1, <1>2
  <1>4. (j + 1) * s <= k * s
    BY <1>3
  <1> QED BY <1>1, <1>2, <1>4

(* Half of a multiple is a multiple of half the step.                      *)
LEMMA HalfMultiple ==
  ASSUME NEW n \in Nat, NEW s \in Steps, s # 1, n % s = 0
  PROVE  /\ s \div 2 \in Steps
         /\ (n \div 2) % (s \div 2) = 0
         /\ (n + s) \div 2 - n \div 2 = s \div 2
  <1>1. s \in Nat \ {0} /\ s % 2 = 0 /\ s \div 2 \in Steps /\ s \div 2 \in Nat \ {0}
    BY StepsAssumption
  <1>2. PICK k \in Nat : n = k * s
    BY <1>1, MultipleExists
  <1>3. s = 2 * (s \div 2)
    BY <1>1
  <1>4. n = 2 * (k * (s \div 2))
    BY <1>1, <1>2, <1>3
  <1>5. n \div 2 = k * (s \div 2) /\ n \div 2 \in Nat
    BY <1>1, <1>4
  <1>6. (n \div 2) % (s \div 2) = 0
    <2> DEFINE m == n \div 2
               h == s \div 2
    <2>1. m \in Nat /\ h \in Nat \ {0} /\ m = k * h /\ k \in Int
      BY <1>1, <1>5
    <2> HIDE DEF m, h
    <2>2. m % h = 0
      BY <2>1, MultipleDivides
    <2> QED BY <2>2 DEF m, h
  <1>7. (n + s) \div 2 - n \div 2 = s \div 2
    BY <1>1, <1>3, <1>4
  <1> QED BY <1>1, <1>6, <1>7

-------------------------------------------------------------------------------
(* The inductive invariant for types and steps.                            *)

OnGridOf(beg, end) ==
  \A p \in Particle : end[p] - beg[p] = 0
                      \/ (end[p] - beg[p] \in Steps /\ beg[p] % (end[p] - beg[p]) = 0)

SoundImage(i) ==
  /\ i.owner \in [Particle -> Task]
  /\ i.Ti_begstep \in [Particle -> Ticks] /\ i.Ti_endstep \in [Particle -> Ticks]
  /\ i.Ti_Current \in Ticks
  /\ i.Timebase_interval \in Nat \ {0} /\ i.TimeMax \in Nat
  /\ OnGridOf(i.Ti_begstep, i.Ti_endstep)

GInv ==
  /\ TypeOK /\ OnGrid
  /\ Timebase_interval \in Nat \ {0} /\ TimeMax \in Nat /\ ti_end \in Nat
  /\ Ti_nextoutput \in Nat
  /\ \A i \in {saved[k] : k \in DOMAIN saved} : SoundImage(i)

LEMMA Constants ==
  /\ TIMEBASE \in Nat \ {0} /\ 1 \in Steps /\ TIMEBASE \in Steps
  /\ \A s \in Steps : s \in Nat \ {0}
  BY StepsAssumption

LEMMA GridOf == OnGrid <=> OnGridOf(Ti_begstep, Ti_endstep)
  BY DEF OnGrid, OnGridOf, OldStep

(* The wish of a particle is brought to a step that fits where it begins.  *)
LEMMA SynchronizedFits ==
  ASSUME TypeOK, OnGrid, NEW p \in Particle, NEW s \in Steps
  PROVE  \/ Synchronized(p, s) = 0
         \/ Synchronized(p, s) \in Steps /\ Ti_endstep[p] % Synchronized(p, s) = 0
  <1>1. Ti_begstep[p] \in Nat /\ Ti_endstep[p] \in Nat /\ Ti_endstep[p] <= TIMEBASE
    BY Constants DEF TypeOK, Ticks
  <1>2. OldStep(p) = 0 \/ (OldStep(p) \in Steps /\ Ti_begstep[p] % OldStep(p) = 0)
    BY DEF OnGrid
  <1>3. OldStep(p) \in Steps => Ti_endstep[p] % OldStep(p) = 0
    <2> SUFFICES ASSUME OldStep(p) \in Steps PROVE Ti_endstep[p] % OldStep(p) = 0
      OBVIOUS
    <2>1. OldStep(p) \in Nat \ {0} /\ Ti_begstep[p] % OldStep(p) = 0
      BY <1>2, Constants
    <2>2. (Ti_begstep[p] + OldStep(p)) % OldStep(p) = 0
      BY <1>1, <2>1, NextMultiple
    <2>3. Ti_begstep[p] + OldStep(p) = Ti_endstep[p]
      BY <1>1 DEF OldStep
    <2> QED BY <2>2, <2>3
  <1>4. CASE Synchronized(p, s) = OldStep(p)
    BY <1>2, <1>3, <1>4
  <1>5. CASE Synchronized(p, s) # OldStep(p)
    <2>1. Synchronized(p, s) = s
      BY <1>5 DEF Synchronized
    <2>2. s <= OldStep(p) \/ ~((TIMEBASE - Ti_endstep[p]) % s > 0)
      BY <1>1, <1>5, <2>1, Constants DEF Synchronized, OldStep
    <2>3. CASE s <= OldStep(p)
      <3>1. OldStep(p) \in Steps
        BY <1>2, <2>3, Constants
      <3> QED BY <1>1, <1>3, <2>1, <2>3, <3>1, MultipleOfShorter
    <2>4. CASE ~((TIMEBASE - Ti_endstep[p]) % s > 0)
      <3>1. (TIMEBASE - Ti_endstep[p]) % s = 0
        BY <1>1, <2>4, Constants
      <3> QED BY <1>1, <2>1, <3>1, RestMultiple
    <2> QED BY <2>2, <2>3, <2>4
  <1> QED BY <1>4, <1>5

(* The new step of an active particle: the cut at the end of the time line *)
(* never applies to a step of some length.                                 *)
LEMMA NewStepFits ==
  ASSUME TypeOK, OnGrid, NEW p \in Active, NEW ti \in NewSteps(p)
  PROVE  /\ ti \in Nat /\ Ti_endstep[p] + ti <= TIMEBASE
         /\ ti = 0 \/ (ti \in Steps /\ Ti_endstep[p] % ti = 0)
  <1>1. p \in Particle /\ Ti_endstep[p] = Ti_Current
    BY DEF Active
  <1>2. PICK s \in Steps : ti = CutShort(Synchronized(p, s))
    BY DEF NewSteps
  <1> DEFINE r == Synchronized(p, s)
  <1>3. r = 0 \/ (r \in Steps /\ Ti_endstep[p] % r = 0)
    BY <1>1, SynchronizedFits
  <1>4. Ti_Current \in Nat /\ Ti_Current <= TIMEBASE /\ TIMEBASE \in Nat
    BY Constants DEF TypeOK, Ticks
  <1> HIDE DEF r
  <1>5. CASE Ti_Current = TIMEBASE
    <2>1. ti = 0
      BY <1>2, <1>5 DEF CutShort
    <2> QED BY <1>1, <1>4, <2>1
  <1>6. CASE Ti_Current # TIMEBASE
    <2>1. r \in Nat /\ Ti_Current + r <= TIMEBASE
      <3>1. CASE r = 0
        BY <1>4, <3>1
      <3>2. CASE r \in Steps /\ Ti_endstep[p] % r = 0
        BY <1>1, <1>4, <1>6, <3>2, StepFits, Constants
      <3> QED BY <1>3, <3>1, <3>2
    <2>2. ti = r
      BY <1>2, <1>4, <1>6, <2>1 DEF CutShort, r
    <2> QED BY <1>1, <1>3, <2>1, <2>2
  <1> QED BY <1>5, <1>6

LEMMA NextOutputNat ==
  ASSUME NEW t, NEW interval \in Nat \ {0}, NEW max, NEW next \in NextOutputs(t, interval, max)
  PROVE  next \in Nat
  <1>1. \A o \in Nat : o \div interval \in Nat
    OBVIOUS
  <1> QED BY <1>1, Constants, ListsAssumption DEF NextOutputs, OutputTicks

LEMMA RedistributeType ==
  ASSUME TypeOK, Redistribute
  PROVE  owner' \in [Particle -> Task] /\ stale' \in [Task -> Ticks]
  <1>1. owner' \in [Particle -> Task]
    BY DEF Redistribute, Owners
  <1>2. \A t \in Task : stale'[t] \in Ticks
    <2> SUFFICES ASSUME NEW t \in Task PROVE stale'[t] \in Ticks
      OBVIOUS
    <2>1. stale'[t] \in {Ti_endstep[p] : p \in Held(owner, t)} \/ stale'[t] = stale[t]
      BY DEF Redistribute
    <2>2. \A p \in Held(owner, t) : Ti_endstep[p] \in Ticks
      BY DEF Held, TypeOK
    <2>3. stale[t] \in Ticks
      BY DEF TypeOK
    <2> QED BY <2>1, <2>2, <2>3
  <1>3. stale' = [t \in Task |-> stale'[t]]
    BY DEF Redistribute
  <1> QED BY <1>1, <1>2, <1>3

LEMMA InitGInv == Init => GInv
  <1> SUFFICES ASSUME Init PROVE GInv
    OBVIOUS
  <1>1. Ti_nextoutput \in Nat
    BY NextOutputNat DEF Init
  <1>2. TypeOK
    BY Constants DEF Init, TypeOK, Owners, Ticks
  <1>3. OnGrid
    BY DEF Init, OnGrid, OldStep
  <1>4. \A i \in {saved[k] : k \in DOMAIN saved} : SoundImage(i)
    BY DEF Init
  <1> QED BY <1>1, <1>2, <1>3, <1>4, Constants DEF Init, GInv

(* Writing restart files.                                                  *)
LEMMA ImageSound == GInv => SoundImage(Image)
  BY GridOf DEF GInv, SoundImage, Image, TypeOK

LEMMA SavedSound ==
  ASSUME GInv, saved' = saved \/ saved' = <<Image>>
  PROVE  \A i \in {saved'[k] : k \in DOMAIN saved'} : SoundImage(i)
  <1>1. CASE saved' = saved
    BY <1>1 DEF GInv
  <1>2. CASE saved' = <<Image>>
    <2>1. \A k \in DOMAIN saved' : saved'[k] = Image
      BY <1>2
    <2> QED BY <2>1, ImageSound
  <1> QED BY <1>1, <1>2

(* readjust_timebase keeps the steps on the grid; a step of one tick may   *)
(* become a step of none.                                                  *)
LEMMA HalveGrid ==
  ASSUME GInv, Halve
  PROVE  OnGrid'
  <1> SUFFICES ASSUME NEW p \in Particle
               PROVE  \/ Ti_endstep'[p] - Ti_begstep'[p] = 0
                      \/ /\ Ti_endstep'[p] - Ti_begstep'[p] \in Steps
                         /\ Ti_begstep'[p] % (Ti_endstep'[p] - Ti_begstep'[p]) = 0
    BY DEF OnGrid, OldStep
  <1> DEFINE b == Ti_begstep[p]
             e == Ti_endstep[p]
             s == e - b
  <1>1. b \in Nat /\ e \in Nat
    BY Constants DEF GInv, TypeOK, Ticks
  <1>2. Ti_begstep'[p] = b \div 2 /\ Ti_endstep'[p] = e \div 2
    BY DEF Halve
  <1>3. s = 0 \/ (s \in Steps /\ b % s = 0)
    BY DEF GInv, OnGrid, OldStep
  <1> HIDE DEF b, e
  <1>4. CASE s = 0
    BY <1>1, <1>2, <1>4
  <1>5. CASE s = 1
    <2>1. e = b + 1
      BY <1>1, <1>5
    <2>2. e \div 2 - b \div 2 \in {0, 1} /\ b \div 2 \in Nat
      BY <1>1, <2>1
    <2>3. (b \div 2) % 1 = 0
      BY <2>2
    <2> QED BY <1>2, <2>2, <2>3, Constants
  <1>6. CASE s \in Steps /\ s # 1 /\ b % s = 0
    <2>1. s \in Nat /\ e = b + s
      BY <1>1, <1>6, Constants
    <2> HIDE DEF s
    <2>2. /\ s \div 2 \in Steps
          /\ (b \div 2) % (s \div 2) = 0
          /\ (b + s) \div 2 - b \div 2 = s \div 2
      BY <1>1, <1>6, HalfMultiple
    <2> QED BY <1>2, <2>1, <2>2
  <1> QED BY <1>3, <1>4, <1>5, <1>6

(* The new steps of the active particles stay on the grid and on the time  *)
(* line; the other particles keep theirs.                                  *)
LEMMA AdvanceGrid ==
  ASSUME GInv, AdvanceAndFindTimesteps
  PROVE  /\ Ti_begstep' \in [Particle -> Ticks] /\ Ti_endstep' \in [Particle -> Ticks]
         /\ OnGrid'
  <1>1. PICK step \in [Active -> UNION {NewSteps(p) : p \in Active}] :
          /\ \A p \in Active : step[p] \in NewSteps(p)
          /\ Ti_begstep' = [p \in Particle |-> IF p \in Active THEN Ti_endstep[p] ELSE Ti_begstep[p]]
          /\ Ti_endstep' = [p \in Particle |-> IF p \in Active THEN Ti_endstep[p] + step[p]
                                               ELSE Ti_endstep[p]]
    BY DEF AdvanceAndFindTimesteps
  <1>2. TypeOK /\ OnGrid
    BY DEF GInv
  <1>3. \A p \in Particle : Ti_begstep[p] \in Ticks /\ Ti_endstep[p] \in Ticks
    BY <1>2 DEF TypeOK
  <1>4. \A p \in Particle : Ti_begstep'[p] \in Ticks /\ Ti_endstep'[p] \in Ticks
    <2> SUFFICES ASSUME NEW p \in Particle
                 PROVE  Ti_begstep'[p] \in Ticks /\ Ti_endstep'[p] \in Ticks
      OBVIOUS
    <2>1. CASE p \in Active
      <3>1. step[p] \in Nat /\ Ti_endstep[p] + step[p] <= TIMEBASE
        BY <1>1, <1>2, <2>1, NewStepFits
      <3>2. Ti_begstep'[p] = Ti_endstep[p] /\ Ti_endstep'[p] = Ti_endstep[p] + step[p]
        BY <1>1, <2>1
      <3> QED BY <1>3, <3>1, <3>2, Constants DEF Ticks
    <2>2. CASE p \notin Active
      BY <1>1, <1>3, <2>2
    <2> QED BY <2>1, <2>2
  <1>5. OnGrid'
    <2> SUFFICES ASSUME NEW p \in Particle
                 PROVE  \/ Ti_endstep'[p] - Ti_begstep'[p] = 0
                        \/ /\ Ti_endstep'[p] - Ti_begstep'[p] \in Steps
                           /\ Ti_begstep'[p] % (Ti_endstep'[p] - Ti_begstep'[p]) = 0
      BY DEF OnGrid, OldStep
    <2>1. CASE p \in Active
      <3>1. /\ step[p] \in Nat
            /\ step[p] = 0 \/ (step[p] \in Steps /\ Ti_endstep[p] % step[p] = 0)
        BY <1>1, <1>2, <2>1, NewStepFits
      <3>2. Ti_begstep'[p] = Ti_endstep[p] /\ Ti_endstep'[p] = Ti_endstep[p] + step[p]
        BY <1>1, <2>1
      <3>3. Ti_endstep'[p] - Ti_begstep'[p] = step[p]
        BY <1>3, <3>1, <3>2, Constants DEF Ticks
      <3> QED BY <3>1, <3>2, <3>3
    <2>2. CASE p \notin Active
      <3>1. Ti_begstep'[p] = Ti_begstep[p] /\ Ti_endstep'[p] = Ti_endstep[p]
        BY <1>1, <2>2
      <3> QED BY <1>2, <3>1 DEF OnGrid, OldStep
    <2> QED BY <2>1, <2>2
  <1>6. Ti_begstep' \in [Particle -> Ticks] /\ Ti_endstep' \in [Particle -> Ticks]
    BY <1>1, <1>4
  <1> QED BY <1>5, <1>6

(* What a loaded image restores.                                           *)
LEMMA ResumeGInv ==
  ASSUME GInv, Resume
  PROVE  GInv'
  <1>1. PICK i \in {saved[k] : k \in DOMAIN saved} :
        \E max \in {x \in NewTimeMax \cup {i.TimeMax} : x >= i.TimeMax} :
          /\ owner' = i.owner /\ Ti_begstep' = i.Ti_begstep /\ Ti_endstep' = i.Ti_endstep
          /\ Ti_Current' = i.Ti_Current
          /\ Timebase_interval' = i.Timebase_interval
          /\ TimeMax' = max
          /\ ti_end' = max \div i.Timebase_interval
    BY DEF Resume
  <1>2. SoundImage(i)
    BY <1>1 DEF GInv
  <1>3. TimeMax' \in Nat /\ Timebase_interval' \in Nat \ {0}
    BY <1>1, <1>2, ListsAssumption DEF SoundImage
  <1>4. ti_end' \in Nat
    BY <1>1, <1>3
  <1>5. OnGrid'
    BY <1>1, <1>2 DEF SoundImage, OnGrid, OnGridOf, OldStep
  <1>6. stale' \in [Task -> Ticks]
    BY Constants DEF Resume, Ticks
  <1>7. TypeOK'
    BY <1>1, <1>2, <1>6 DEF GInv, Resume, SoundImage, TypeOK, Ticks
  <1> QED BY <1>3, <1>4, <1>5, <1>7 DEF GInv, Resume

LEMMA FileGInv ==
  ASSUME GInv, saved' = saved \/ saved' = <<Image>>,
         UNCHANGED <<owner, stale, Ti_begstep, Ti_endstep, span, Ti_nextoutput, Ti_Current, min_glob>>,
         phase' \in {"sync", "output", "advance", "check", "final", "ended", "down", "readjust"}
  PROVE  GInv'
  <1>1. \A i \in {saved'[k] : k \in DOMAIN saved'} : SoundImage(i)
    BY SavedSound
  <1>2. OnGrid'
    BY DEF GInv, OnGrid, OldStep
  <1>3. TypeOK'
    BY DEF GInv, TypeOK
  <1> QED BY <1>1, <1>2, <1>3 DEF GInv, span

LEMMA StepGInv == GInv /\ [Next]_vars => GInv'
  <1> SUFFICES ASSUME GInv, [Next]_vars PROVE GInv'
    OBVIOUS
  <1>0. TypeOK /\ OnGrid
    BY DEF GInv
  <1>1. CASE FindNextSyncPoint
    <2>1. min_glob' \in EndSteps
      BY <1>1 DEF FindNextSyncPoint
    <2>2. min_glob' \in Ticks
      BY <1>0, <2>1 DEF EndSteps, TypeOK
    <2>3. TypeOK'
      BY <1>0, <1>1, <2>2 DEF FindNextSyncPoint, TypeOK, line
    <2>4. OnGrid'
      BY <1>0, <1>1 DEF FindNextSyncPoint, OnGrid, OldStep, line
    <2> QED BY <1>1, <2>3, <2>4 DEF FindNextSyncPoint, GInv, span, output
  <1>2. CASE Output
    <2>1. owner' \in [Particle -> Task] /\ stale' \in [Task -> Ticks]
      BY <1>0, <1>2, RedistributeType DEF Output
    <2>2. Ti_nextoutput' \in Nat
      BY <1>2, NextOutputNat DEF Output, GInv
    <2>3. Ti_Current' \in Ticks
      BY <1>2, Constants DEF Output, GInv, TypeOK, Ticks
    <2>4. TypeOK'
      BY <1>0, <1>2, <2>1, <2>3 DEF Output, TypeOK, line
    <2>5. OnGrid'
      BY <1>0, <1>2 DEF Output, OnGrid, OldStep, line
    <2> QED BY <1>2, <2>2, <2>4, <2>5 DEF Output, GInv, span
  <1>3. CASE Drift
    <2>1. owner' \in [Particle -> Task] /\ stale' \in [Task -> Ticks]
      BY <1>0, <1>3, RedistributeType DEF Drift
    <2>2. TypeOK'
      BY <1>0, <1>3, <2>1 DEF Drift, TypeOK, line
    <2>3. OnGrid'
      BY <1>0, <1>3 DEF Drift, OnGrid, OldStep, line
    <2> QED BY <1>3, <2>2, <2>3 DEF Drift, GInv, span, output
  <1>4. CASE AdvanceAndFindTimesteps
    <2>1. /\ Ti_begstep' \in [Particle -> Ticks] /\ Ti_endstep' \in [Particle -> Ticks]
          /\ OnGrid'
      BY <1>4, AdvanceGrid
    <2>2. TypeOK'
      BY <1>0, <1>4, <2>1 DEF AdvanceAndFindTimesteps, TypeOK, place
    <2> QED BY <1>4, <2>1, <2>2 DEF AdvanceAndFindTimesteps, GInv, span, output
  <1>5. CASE Interrupt
    BY <1>5, FileGInv DEF Interrupt, line, place, output
  <1>6. CASE Continue
    <2>1. saved' = saved \/ saved' = <<Image>>
      BY <1>6 DEF Continue
    <2> QED BY <1>6, <2>1, FileGInv DEF Continue, line, place, output
  <1>7. CASE Finish
    BY <1>7, FileGInv DEF Finish, line, place
  <1>8. CASE Crash
    BY <1>8, FileGInv DEF Crash, line, place, output
  <1>9. CASE Resume
    BY <1>9, ResumeGInv
  <1>10. CASE Halve
    <2>1. OnGrid'
      BY <1>10, HalveGrid
    <2>2. \A n \in Ticks : n \div 2 \in Ticks
      BY Constants DEF Ticks
    <2>3. TypeOK'
      BY <1>0, <1>10, <2>2 DEF Halve, TypeOK, place
    <2>4. /\ Timebase_interval' \in Nat \ {0} /\ ti_end' \in Nat
          /\ TimeMax' = TimeMax /\ Ti_nextoutput' = Ti_nextoutput /\ saved' = saved
      BY <1>10 DEF Halve, GInv, output
    <2> QED BY <2>1, <2>3, <2>4 DEF GInv
  <1>11. CASE Readjusted
    <2>1. Ti_nextoutput' \in Nat
      BY <1>11, NextOutputNat DEF Readjusted, GInv
    <2>2. TypeOK'
      BY <1>0, <1>11 DEF Readjusted, TypeOK, line, place
    <2>3. OnGrid'
      BY <1>0, <1>11 DEF Readjusted, OnGrid, OldStep, line
    <2> QED BY <1>11, <2>1, <2>2, <2>3 DEF Readjusted, GInv, span
  <1>12. CASE UNCHANGED vars
    BY <1>12, FileGInv DEF vars, line, place, output, GInv, TypeOK
  <1> QED
    BY <1>1, <1>2, <1>3, <1>4, <1>5, <1>6, <1>7, <1>8, <1>9, <1>10, <1>11, <1>12 DEF Next, Step

LEMMA InvGInv == Spec => []GInv
  BY InitGInv, StepGInv, PTL DEF Spec

(* Times, steps and the synchronisation point stay on the time line (the   *)
(* integers of run.c and timestep.c), in continued and extended runs too.  *)
THEOREM TypeCorrect == Spec => []TypeOK
  <1>1. GInv => TypeOK
    BY DEF GInv
  <1> QED BY <1>1, InvGInv, PTL

(* SYNCHRONIZATION of timestep.c: every step is a power of two that begins *)
(* at a multiple of itself.                                                *)
THEOREM StepsOnGrid == Spec => []OnGrid
  <1>1. GInv => OnGrid
    BY DEF GInv
  <1> QED BY <1>1, InvGInv, PTL

LEMMA GridNested ==
  ASSUME TypeOK, OnGrid
  PROVE  Nested
  <1> SUFFICES ASSUME NEW p \in Particle, NEW q \in Particle,
                      OldStep(p) > 0, OldStep(p) <= OldStep(q),
                      Ti_begstep[p] < Ti_endstep[q], Ti_begstep[q] < Ti_endstep[p]
               PROVE  Ti_begstep[q] <= Ti_begstep[p] /\ Ti_endstep[p] <= Ti_endstep[q]
    BY DEF Nested
  <1> DEFINE s == OldStep(p)
             r == OldStep(q)
             a == Ti_begstep[p]
             b == Ti_begstep[q]
  <1>1. a \in Nat /\ b \in Nat /\ Ti_endstep[p] \in Nat /\ Ti_endstep[q] \in Nat
    BY Constants DEF TypeOK, Ticks
  <1>2. Ti_endstep[p] = a + s /\ Ti_endstep[q] = b + r /\ s \in Int /\ r \in Int
    BY <1>1 DEF OldStep
  <1>3. s \in Steps /\ r \in Steps /\ a % s = 0 /\ b % r = 0 /\ s <= r
    BY <1>1, <1>2 DEF OnGrid
  <1>4. a < b + r /\ b < a + s
    BY <1>2
  <1> HIDE DEF s, r, a, b
  <1>5. s \in Nat \ {0} /\ r \in Nat \ {0}
    BY <1>3, Constants
  <1>6. (b + r) % r = 0 /\ b + r \in Nat
    BY <1>1, <1>3, <1>5, NextMultiple
  <1>7. b % s = 0 /\ (b + r) % s = 0
    BY <1>1, <1>3, <1>6, MultipleOfShorter
  <1>8. a + s <= b + r
    BY <1>1, <1>3, <1>4, <1>5, <1>6, <1>7, SameMultiple
  <1>9. b <= a
    <2>1. a < b => a + s <= b
      BY <1>1, <1>3, <1>5, <1>7, SameMultiple
    <2> QED BY <1>1, <1>4, <1>5, <2>1
  <1> QED BY <1>2, <1>8, <1>9 DEF a, b

(* No particle's step ends inside another's shorter one, so a particle that*)
(* is active finds every longer step either complete or still around it.   *)
THEOREM StepsNested == Spec => []Nested
  <1>1. GInv => Nested
    BY GridNested DEF GInv
  <1> QED BY <1>1, InvGInv, PTL

-------------------------------------------------------------------------------
(* The time never leaves a particle's step.  This rests on the earliest    *)
(* end being one of a particle's, hence on every task holding a particle.  *)

BehindOf(beg, end, time) == \A p \in Particle : beg[p] <= time /\ time <= end[p]

NobodyEmpty(own) == \A t \in Task : Held(own, t) # {}

SavedBehind ==
  \A i \in {saved[k] : k \in DOMAIN saved} :
    BehindOf(i.Ti_begstep, i.Ti_endstep, i.Ti_Current) /\ NobodyEmpty(i.owner)

(* The synchronisation point is reached before the end of any step.        *)
Ahead ==
  phase = "output" => Ti_Current <= min_glob /\ \A p \in Particle : min_glob <= Ti_endstep[p]

(* In "readjust" the output time is still that of the run that went down.  *)
NInv ==
  /\ NobodyLeftBehind /\ Ahead
  /\ NobodyEmpty(owner)
  /\ phase # "readjust" => Ti_Current <= Ti_nextoutput
  /\ SavedBehind

LEMMA OwnersNonempty ==
  ASSUME MinPerTask = 1, NEW own \in Owners
  PROVE  NobodyEmpty(own)
  <1> SUFFICES ASSUME NEW t \in Task, Held(own, t) = {} PROVE FALSE
    BY DEF NobodyEmpty
  <1>1. Cardinality({}) >= 1
    BY DEF Owners
  <1> QED BY <1>1, FS_EmptySet

LEMMA NextOutputLater ==
  ASSUME NEW t \in Nat, t <= 2 * TIMEBASE, NEW interval \in Nat \ {0}, NEW max,
         NEW next \in NextOutputs(t, interval, max)
  PROVE  next >= t
  BY Constants DEF NextOutputs, IsNextOutput

LEMMA RedistributeOwners ==
  ASSUME MinPerTask = 1, Redistribute
  PROVE  NobodyEmpty(owner)'
  BY OwnersNonempty DEF Redistribute, NobodyEmpty, Held

LEMMA InitNInv ==
  ASSUME MinPerTask = 1
  PROVE  Init => NInv
  <1> SUFFICES ASSUME Init PROVE NInv
    OBVIOUS
  <1>1. NobodyEmpty(owner)
    BY OwnersNonempty DEF Init
  <1>2. Ti_nextoutput >= 0
    BY NextOutputLater, Constants DEF Init
  <1> QED BY <1>1, <1>2 DEF Init, NInv, NobodyLeftBehind, Ahead, SavedBehind

(* The times of a step as numbers.                                         *)
LEMMA Numbers ==
  ASSUME GInv
  PROVE  /\ Ti_Current \in Nat /\ Ti_Current <= TIMEBASE /\ TIMEBASE \in Nat \ {0}
         /\ min_glob \in Nat /\ min_glob <= TIMEBASE /\ Ti_nextoutput \in Nat
         /\ \A p \in Particle : Ti_begstep[p] \in Nat /\ Ti_endstep[p] \in Nat
  BY Constants DEF GInv, TypeOK, Ticks

LEMMA FileNInv ==
  ASSUME NInv, saved' = saved \/ saved' = <<Image>>,
         UNCHANGED <<owner, Ti_begstep, Ti_endstep, Ti_nextoutput, Ti_Current, min_glob>>,
         phase' # "output" \/ phase' = phase, phase = "readjust" => phase' = "readjust"
  PROVE  NInv'
  <1>1. SavedBehind'
    <2>1. CASE saved' = saved
      BY <2>1 DEF NInv, SavedBehind, BehindOf, NobodyEmpty, Held
    <2>2. CASE saved' = <<Image>>
      <3>1. \A k \in DOMAIN saved' : saved'[k] = Image
        BY <2>2
      <3>2. BehindOf(Image.Ti_begstep, Image.Ti_endstep, Image.Ti_Current) /\ NobodyEmpty(Image.owner)
        BY DEF NInv, NobodyLeftBehind, BehindOf, Image
      <3> QED BY <3>1, <3>2 DEF SavedBehind
    <2> QED BY <2>1, <2>2
  <1>2. NobodyLeftBehind' /\ Ahead'
    BY DEF NInv, NobodyLeftBehind, Ahead
  <1>3. NobodyEmpty(owner)'
    BY DEF NInv, NobodyEmpty, Held
  <1> QED BY <1>1, <1>2, <1>3 DEF NInv

(* Every task holds a particle, so that no P[0] is stale.                  *)
LEMMA EndStepsHeld ==
  ASSUME NobodyEmpty(owner)
  PROVE  EndSteps = {Ti_endstep[p] : p \in Particle}
  BY DEF EndSteps, NobodyEmpty

LEMMA StepNInv ==
  ASSUME MinPerTask = 1
  PROVE  GInv /\ NInv /\ [Next]_vars => NInv'
  <1> SUFFICES ASSUME GInv, NInv, [Next]_vars PROVE NInv'
    OBVIOUS
  <1>0. NobodyLeftBehind /\ NobodyEmpty(owner) /\ SavedBehind
    BY DEF NInv
  <1>a. saved' = saved => SavedBehind'
    BY <1>0 DEF SavedBehind
  <1>b. owner' = owner => NobodyEmpty(owner)'
    BY <1>0 DEF NobodyEmpty, Held
  <1>1. CASE FindNextSyncPoint
    <2>1. \A p \in Particle : Ti_endstep[p] \in EndSteps
      BY DEF EndSteps
    <2>2. min_glob' \in {Ti_endstep[p] : p \in Particle} /\ \A p \in Particle : min_glob' <= Ti_endstep[p]
      BY <1>0, <1>1, <2>1, EndStepsHeld DEF FindNextSyncPoint
    <2>4. Ahead'
      <3>1. Ti_Current <= min_glob'
        BY <1>0, <2>2 DEF NobodyLeftBehind
      <3> QED BY <1>1, <2>2, <3>1 DEF FindNextSyncPoint, Ahead, line
    <2>3. NobodyLeftBehind'
      BY <1>0, <1>1 DEF FindNextSyncPoint, NobodyLeftBehind, line
    <2> QED BY <1>1, <1>a, <1>b, <2>3, <2>4 DEF FindNextSyncPoint, NInv, output
  <1>2. CASE Output
    <2>1. NobodyEmpty(owner)'
      BY <1>2, RedistributeOwners DEF Output
    <2>2. NobodyLeftBehind'
      BY <1>2, Numbers DEF Output, NInv, NobodyLeftBehind, Ahead, line
    <2>3. Ahead'
      BY <1>2 DEF Output, NInv, Ahead, line
    <2>4. Ti_Current' <= Ti_nextoutput'
      <3>1. Ti_nextoutput + 1 \in Nat /\ Ti_nextoutput + 1 <= 2 * TIMEBASE
        BY <1>2, Numbers DEF Output
      <3>2. Ti_nextoutput' >= Ti_nextoutput + 1
        BY <1>2, <3>1, NextOutputLater DEF Output, GInv
      <3>3. Ti_nextoutput' \in Nat
        BY <1>2, NextOutputNat DEF Output, GInv
      <3> QED BY <1>2, <3>2, <3>3, Numbers DEF Output
    <2> QED BY <1>2, <1>a, <2>1, <2>2, <2>3, <2>4 DEF Output, NInv
  <1>3. CASE Drift
    <2>1. NobodyEmpty(owner)'
      BY <1>3, RedistributeOwners DEF Drift
    <2>2. Ti_Current <= min_glob
      BY <1>3 DEF Drift, NInv, Ahead
    <2>3. NobodyLeftBehind'
      BY <1>3, <2>2, Numbers DEF Drift, NInv, NobodyLeftBehind, Ahead, line
    <2> QED BY <1>3, <1>a, <2>1, <2>3, Numbers DEF Drift, NInv, Ahead, output
  <1>4. CASE AdvanceAndFindTimesteps
    <2>1. PICK step \in [Active -> UNION {NewSteps(p) : p \in Active}] :
            /\ \A p \in Active : step[p] \in NewSteps(p)
            /\ Ti_begstep' = [p \in Particle |-> IF p \in Active THEN Ti_endstep[p] ELSE Ti_begstep[p]]
            /\ Ti_endstep' = [p \in Particle |-> IF p \in Active THEN Ti_endstep[p] + step[p]
                                                 ELSE Ti_endstep[p]]
      BY <1>4 DEF AdvanceAndFindTimesteps
    <2>2. NobodyLeftBehind'
      <3> SUFFICES ASSUME NEW p \in Particle
                   PROVE  Ti_begstep'[p] <= Ti_Current' /\ Ti_Current' <= Ti_endstep'[p]
        BY DEF NobodyLeftBehind
      <3>1. Ti_Current' = Ti_Current
        BY <1>4 DEF AdvanceAndFindTimesteps
      <3>2. CASE p \in Active
        <4>1. step[p] \in Nat
          BY <2>1, <3>2, NewStepFits DEF GInv
        <4>2. Ti_begstep'[p] = Ti_Current /\ Ti_endstep'[p] = Ti_Current + step[p]
          BY <2>1, <3>2 DEF Active
        <4> QED BY <3>1, <4>1, <4>2, Numbers
      <3>3. CASE p \notin Active
        BY <1>0, <2>1, <3>1, <3>3 DEF NobodyLeftBehind
      <3> QED BY <3>2, <3>3
    <2>3. Ahead'
      BY <1>4 DEF AdvanceAndFindTimesteps, Ahead
    <2> QED BY <1>4, <1>a, <1>b, <2>2, <2>3 DEF AdvanceAndFindTimesteps, NInv, place, output
  <1>5. CASE Interrupt
    BY <1>5, FileNInv DEF Interrupt, line, place, output
  <1>6. CASE Continue
    <2>1. saved' = saved \/ saved' = <<Image>>
      BY <1>6 DEF Continue
    <2> QED BY <1>6, <2>1, FileNInv DEF Continue, line, place, output
  <1>7. CASE Finish
    BY <1>7, FileNInv DEF Finish, line, place
  <1>8. CASE Crash
    BY <1>8, FileNInv DEF Crash, line, place, output
  <1>9. CASE Resume
    <2>1. PICK i \in {saved[k] : k \in DOMAIN saved} :
            /\ owner' = i.owner /\ Ti_begstep' = i.Ti_begstep /\ Ti_endstep' = i.Ti_endstep
            /\ Ti_Current' = i.Ti_Current
      BY <1>9 DEF Resume
    <2>2. BehindOf(i.Ti_begstep, i.Ti_endstep, i.Ti_Current) /\ NobodyEmpty(i.owner)
      BY <1>0, <2>1 DEF SavedBehind
    <2>3. NobodyLeftBehind'
      BY <2>1, <2>2 DEF NobodyLeftBehind, BehindOf
    <2>4. NobodyEmpty(owner)'
      BY <2>1, <2>2 DEF NobodyEmpty, Held
    <2> QED BY <1>9, <1>a, <2>3, <2>4 DEF Resume, NInv, Ahead
  <1>10. CASE Halve
    <2>1. NobodyLeftBehind'
      <3> SUFFICES ASSUME NEW p \in Particle
                   PROVE  Ti_begstep'[p] <= Ti_Current' /\ Ti_Current' <= Ti_endstep'[p]
        BY DEF NobodyLeftBehind
      <3>1. /\ Ti_Current' = Ti_Current \div 2
            /\ Ti_begstep'[p] = Ti_begstep[p] \div 2 /\ Ti_endstep'[p] = Ti_endstep[p] \div 2
        BY <1>10 DEF Halve
      <3>2. Ti_begstep[p] <= Ti_Current /\ Ti_Current <= Ti_endstep[p]
        BY <1>0 DEF NobodyLeftBehind
      <3>3. \A m, n \in Nat : m <= n => m \div 2 <= n \div 2
        OBVIOUS
      <3> QED BY <3>1, <3>2, <3>3, Numbers
    <2> QED BY <1>10, <1>a, <1>b, <2>1 DEF Halve, NInv, Ahead, place
  <1>11. CASE Readjusted
    <2>1. Ti_nextoutput' >= Ti_Current
      BY <1>11, NextOutputLater, Numbers DEF Readjusted, GInv
    <2>2. Ti_Current' <= Ti_nextoutput'
      <3>1. Ti_nextoutput' \in Nat
        BY <1>11, NextOutputNat DEF Readjusted, GInv
      <3> QED BY <1>11, <2>1, <3>1, Numbers DEF Readjusted
    <2>3. NobodyLeftBehind'
      BY <1>0, <1>11 DEF Readjusted, NobodyLeftBehind, line
    <2> QED BY <1>11, <1>a, <1>b, <2>2, <2>3 DEF Readjusted, NInv, Ahead, place
  <1>12. CASE UNCHANGED vars
    BY <1>12, FileNInv DEF vars, line, place, output
  <1> QED
    BY <1>1, <1>2, <1>3, <1>4, <1>5, <1>6, <1>7, <1>8, <1>9, <1>10, <1>11, <1>12 DEF Next, Step

LEMMA InvNInv ==
  ASSUME MinPerTask = 1
  PROVE  Spec => []NInv
  <1>1. Init => NInv
    BY InitNInv
  <1>2. GInv /\ NInv /\ [Next]_vars => NInv'
    BY StepNInv
  <1> QED BY <1>1, <1>2, InvGInv, PTL DEF Spec

(* While every task holds a particle: move_particles and the outputs never *)
(* drift the system past the end of a step, and no restart sets it back    *)
(* before the beginning of one.                                            *)
THEOREM TimeWithinSteps ==
  ASSUME MinPerTask = 1
  PROVE  Spec => []NobodyLeftBehind
  <1>1. NInv => NobodyLeftBehind
    BY DEF NInv
  <1> QED BY <1>1, InvNInv, PTL

LEMMA EarliestStep == NInv /\ EarliestOfAll /\ [Next]_vars => EarliestOfAll'
  <1> SUFFICES ASSUME NInv, EarliestOfAll, [Next]_vars PROVE EarliestOfAll'
    OBVIOUS
  <1>1. CASE FindNextSyncPoint
    BY <1>1, EndStepsHeld DEF NInv, FindNextSyncPoint, EarliestOfAll, line
  <1>2. CASE Output
    BY <1>2 DEF Output, EarliestOfAll, line
  <1>3. CASE UNCHANGED vars
    BY <1>3 DEF vars, line, EarliestOfAll
  <1>4. CASE Drift \/ AdvanceAndFindTimesteps \/ Interrupt \/ Continue \/ Finish \/ Crash
             \/ Resume \/ Halve \/ Readjusted
    <2>1. phase' # "output"
      BY <1>4 DEF Drift, AdvanceAndFindTimesteps, Interrupt, Continue, Finish, Crash, Resume,
                  Halve, Readjusted
    <2> QED BY <2>1 DEF EarliestOfAll
  <1> QED BY <1>1, <1>2, <1>3, <1>4 DEF Next, Step

(* While every task holds a particle: the synchronisation point found by   *)
(* find_next_sync_point_and_drift is the earliest end of all steps.        *)
THEOREM SyncPointEarliest ==
  ASSUME MinPerTask = 1
  PROVE  Spec => []EarliestOfAll
  <1>1. Init => EarliestOfAll
    BY DEF Init, EarliestOfAll
  <1>2. NInv /\ EarliestOfAll /\ [Next]_vars => EarliestOfAll'
    BY EarliestStep
  <1> QED BY <1>1, <1>2, InvNInv, PTL DEF Spec

-------------------------------------------------------------------------------
(* The kicks, in ticks of the first run.                                   *)

LEMMA DivUnique ==
  ASSUME NEW n \in Int, NEW d \in Nat \ {0}, NEW q \in Int, NEW r \in Nat, r < d, n = q * d + r
  PROVE  n \div d = q
  OBVIOUS

LEMMA DivRest ==
  ASSUME NEW n \in Int, NEW d \in Nat \ {0}
  PROVE  \E q \in Int, r \in Nat : r < d /\ n = q * d + r /\ n \div d = q
  <1>1. n = (n \div d) * d + (n % d) /\ n % d \in Nat /\ n % d < d /\ n \div d \in Int
    OBVIOUS
  <1> QED BY <1>1

LEMMA DivShift ==
  ASSUME NEW n \in Int, NEW d \in Nat \ {0}, NEW m \in Int
  PROVE  (n + m * d) \div d = n \div d + m
  <1>1. PICK q \in Int, r \in Nat : r < d /\ n = q * d + r /\ n \div d = q
    BY DivRest
  <1>2. n + m * d = (q + m) * d + r /\ q + m \in Int /\ n + m * d \in Int
    BY <1>1
  <1>3. (n + m * d) \div d = q + m
    BY <1>1, <1>2, DivUnique
  <1> QED BY <1>1, <1>3

LEMMA DivTwice ==
  ASSUME NEW n \in Int, NEW d \in Nat \ {0}
  PROVE  n \div (2 * d) = (n \div d) \div 2
  <1>1. PICK q \in Int, r \in Nat : r < d /\ n = q * d + r /\ n \div d = q
    BY DivRest
  <1>2. PICK h \in Int, t \in Nat : t < 2 /\ q = h * 2 + t /\ q \div 2 = h
    BY DivRest
  <1>3. n = h * (2 * d) + (t * d + r) /\ t * d + r \in Nat /\ t * d + r < 2 * d /\ 2 * d \in Nat \ {0}
    <2>1. t = 0 \/ t = 1
      BY <1>2
    <2> QED BY <1>1, <1>2, <2>1
  <1>4. n \div (2 * d) = h
    BY <1>3, DivUnique
  <1> QED BY <1>1, <1>2, <1>4

(* Halving the ticks takes the middle of a step to the middle of its half. *)
LEMMA MidpointHalf ==
  ASSUME NEW b \in Nat, NEW e \in Nat, e - b = 0 \/ (e - b \in Steps /\ b % (e - b) = 0)
  PROVE  (b \div 2 + e \div 2) \div 2 = ((b + e) \div 2) \div 2
  <1>1. CASE e - b = 0
    <2>1. e = b
      BY <1>1
    <2>2. b + e = 2 * b /\ b \div 2 + e \div 2 = 2 * (b \div 2)
      BY <2>1
    <2> QED BY <2>2
  <1>2. CASE e - b = 1
    <2>1. PICK q \in Int, r \in Nat : r < 2 /\ b = q * 2 + r /\ b \div 2 = q
      BY DivRest
    <2>2. e = b + 1
      BY <1>2
    <2>3. CASE r = 0
      <3>1. e \div 2 = q /\ (b + e) \div 2 = 2 * q
        BY <2>1, <2>2, <2>3
      <3> QED BY <2>1, <3>1
    <2>4. CASE r = 1
      <3>1. e \div 2 = q + 1 /\ (b + e) \div 2 = 2 * q + 1
        BY <2>1, <2>2, <2>4
      <3> QED BY <2>1, <3>1
    <2> QED BY <2>1, <2>3, <2>4
  <1>3. CASE e - b \in Steps /\ e - b # 1 /\ b % (e - b) = 0
    <2> DEFINE s == e - b
    <2>1. s \in Nat \ {0} /\ s % 2 = 0 /\ s \div 2 \in Nat
      BY <1>3, StepsAssumption
    <2>2. PICK k \in Nat : b = k * s
      BY <1>3, <2>1, MultipleExists
    <2>3. e = b + s
      OBVIOUS
    <2> HIDE DEF s
    <2>4. PICK h \in Nat : s = 2 * h
      BY <2>1
    <2>5. PICK m \in Nat : b = 2 * m
      <3>1. b = 2 * (k * h) /\ k * h \in Nat
        BY <2>2, <2>4
      <3> QED BY <3>1
    <2>6. b \div 2 = m /\ e \div 2 = m + h /\ (b + e) \div 2 = 2 * m + h
      BY <2>3, <2>4, <2>5
    <2> QED BY <2>6
  <1> QED BY <1>1, <1>2, <1>3

KickedOf(i) ==
  /\ i.kicked \in [Particle -> Int]
  /\ \A p \in Particle :
       i.kicked[p] \div i.Timebase_interval = (i.Ti_begstep[p] + i.Ti_endstep[p]) \div 2

KInv ==
  /\ kicked \in [Particle -> Int]
  /\ KickedToMidpoint
  /\ \A i \in {saved[k] : k \in DOMAIN saved} : KickedOf(i)

LEMMA StayKInv ==
  ASSUME KInv, saved' = saved \/ saved' = <<Image>>,
         UNCHANGED <<Ti_begstep, Ti_endstep, kicked, Timebase_interval>>
  PROVE  KInv'
  <1>1. \A i \in {saved'[k] : k \in DOMAIN saved'} : KickedOf(i)
    <2>1. CASE saved' = saved
      BY <2>1 DEF KInv
    <2>2. CASE saved' = <<Image>>
      <3>1. \A k \in DOMAIN saved' : saved'[k] = Image
        BY <2>2
      <3>2. KickedOf(Image)
        BY DEF KInv, KickedToMidpoint, Midpoint, KickedOf, Image
      <3> QED BY <3>1, <3>2
    <2> QED BY <2>1, <2>2
  <1>2. KickedToMidpoint'
    BY DEF KInv, KickedToMidpoint, Midpoint
  <1> QED BY <1>1, <1>2 DEF KInv

(* The kick of an active particle ends in the middle of its new step.      *)
LEMMA AdvanceKInv ==
  ASSUME GInv, KInv, AdvanceAndFindTimesteps
  PROVE  KInv'
  <1>1. PICK step \in [Active -> UNION {NewSteps(p) : p \in Active}] :
          /\ \A p \in Active : step[p] \in NewSteps(p)
          /\ Ti_begstep' = [p \in Particle |-> IF p \in Active THEN Ti_endstep[p] ELSE Ti_begstep[p]]
          /\ Ti_endstep' = [p \in Particle |-> IF p \in Active THEN Ti_endstep[p] + step[p]
                                               ELSE Ti_endstep[p]]
          /\ kicked' = [p \in Particle |-> IF p \in Active
                                           THEN kicked[p] + Kick(p, step[p]) * Timebase_interval
                                           ELSE kicked[p]]
    BY DEF AdvanceAndFindTimesteps
  <1>2. Timebase_interval \in Nat \ {0} /\ Timebase_interval' = Timebase_interval
    BY DEF GInv, AdvanceAndFindTimesteps, span
  <1>3. \A p \in Particle :
          kicked'[p] \in Int /\ kicked'[p] \div Timebase_interval = (Ti_begstep'[p] + Ti_endstep'[p]) \div 2
    <2> SUFFICES ASSUME NEW p \in Particle
                 PROVE  /\ kicked'[p] \in Int
                        /\ kicked'[p] \div Timebase_interval = (Ti_begstep'[p] + Ti_endstep'[p]) \div 2
      OBVIOUS
    <2>1. /\ kicked[p] \in Int
          /\ kicked[p] \div Timebase_interval = Midpoint(p)
      BY DEF KInv, KickedToMidpoint
    <2>2. Ti_begstep[p] \in Nat /\ Ti_endstep[p] \in Nat /\ Midpoint(p) \in Int
      BY Numbers DEF Midpoint
    <2>3. CASE p \in Active
      <3>1. step[p] \in Nat
        BY <1>1, <2>3, NewStepFits DEF GInv
      <3>2. Kick(p, step[p]) \in Int /\ Midpoint(p) + Kick(p, step[p]) = Ti_endstep[p] + step[p] \div 2
        BY <2>2, <3>1 DEF Kick
      <3>3. kicked'[p] = kicked[p] + Kick(p, step[p]) * Timebase_interval
        BY <1>1, <2>3
      <3>4. kicked'[p] \div Timebase_interval = Ti_endstep[p] + step[p] \div 2
        BY <1>2, <2>1, <3>2, <3>3, DivShift
      <3>5. (Ti_endstep[p] + (Ti_endstep[p] + step[p])) \div 2 = Ti_endstep[p] + step[p] \div 2
        BY <2>2, <3>1
      <3>6. Ti_begstep'[p] = Ti_endstep[p] /\ Ti_endstep'[p] = Ti_endstep[p] + step[p]
        BY <1>1, <2>3
      <3>7. kicked'[p] \in Int
        BY <1>2, <2>1, <3>2, <3>3
      <3> QED BY <3>4, <3>5, <3>6, <3>7
    <2>4. CASE p \notin Active
      BY <1>1, <2>1, <2>4 DEF Midpoint
    <2> QED BY <2>3, <2>4
  <1>4. KickedToMidpoint'
    BY <1>2, <1>3 DEF KickedToMidpoint, Midpoint
  <1>5. kicked' \in [Particle -> Int]
    BY <1>1, <1>3
  <1> QED BY <1>4, <1>5 DEF KInv, AdvanceAndFindTimesteps

LEMMA HalveKInv ==
  ASSUME GInv, KInv, Halve
  PROVE  KInv'
  <1>1. Timebase_interval \in Nat \ {0} /\ Timebase_interval' = 2 * Timebase_interval
    BY DEF GInv, Halve
  <1>2. \A p \in Particle : kicked'[p] \div Timebase_interval' = (Ti_begstep'[p] + Ti_endstep'[p]) \div 2
    <2> SUFFICES ASSUME NEW p \in Particle
                 PROVE  kicked'[p] \div Timebase_interval' = (Ti_begstep'[p] + Ti_endstep'[p]) \div 2
      OBVIOUS
    <2>1. kicked[p] \in Int /\ kicked[p] \div Timebase_interval = (Ti_begstep[p] + Ti_endstep[p]) \div 2
      BY DEF KInv, KickedToMidpoint, Midpoint
    <2>2. kicked'[p] \div Timebase_interval' = ((Ti_begstep[p] + Ti_endstep[p]) \div 2) \div 2
      <3>1. kicked[p] \div (2 * Timebase_interval) = (kicked[p] \div Timebase_interval) \div 2
        BY <1>1, <2>1, DivTwice
      <3> QED BY <1>1, <2>1, <3>1 DEF Halve
    <2>3. /\ Ti_begstep[p] \in Nat /\ Ti_endstep[p] \in Nat
          /\ \/ Ti_endstep[p] - Ti_begstep[p] = 0
             \/ /\ Ti_endstep[p] - Ti_begstep[p] \in Steps
                /\ Ti_begstep[p] % (Ti_endstep[p] - Ti_begstep[p]) = 0
      BY Numbers DEF GInv, OnGrid, OldStep
    <2>4. (Ti_begstep[p] \div 2 + Ti_endstep[p] \div 2) \div 2
            = ((Ti_begstep[p] + Ti_endstep[p]) \div 2) \div 2
      BY <2>3, MidpointHalf
    <2>5. Ti_begstep'[p] = Ti_begstep[p] \div 2 /\ Ti_endstep'[p] = Ti_endstep[p] \div 2
      BY DEF Halve
    <2> QED BY <2>2, <2>4, <2>5
  <1> QED BY <1>2 DEF KInv, KickedToMidpoint, Midpoint, Halve

LEMMA StepKInv == GInv /\ KInv /\ [Next]_vars => KInv'
  <1> SUFFICES ASSUME GInv, KInv, [Next]_vars PROVE KInv'
    OBVIOUS
  <1>1. CASE AdvanceAndFindTimesteps
    BY <1>1, AdvanceKInv
  <1>2. CASE Halve
    BY <1>2, HalveKInv
  <1>3. CASE Resume
    <2>1. PICK i \in {saved[k] : k \in DOMAIN saved} :
            /\ Ti_begstep' = i.Ti_begstep /\ Ti_endstep' = i.Ti_endstep
            /\ kicked' = i.kicked
            /\ Timebase_interval' = i.Timebase_interval
      BY <1>3 DEF Resume
    <2>2. KickedOf(i)
      BY <2>1 DEF KInv
    <2> QED BY <1>3, <2>1, <2>2 DEF KInv, KickedOf, KickedToMidpoint, Midpoint, Resume
  <1>4. CASE Continue
    <2>1. saved' = saved \/ saved' = <<Image>>
      BY <1>4 DEF Continue
    <2> QED BY <1>4, <2>1, StayKInv DEF Continue, line, span
  <1>5. CASE FindNextSyncPoint
    BY <1>5, StayKInv DEF FindNextSyncPoint, line, span
  <1>6. CASE Output
    BY <1>6, StayKInv DEF Output, line, span
  <1>7. CASE Drift
    BY <1>7, StayKInv DEF Drift, line, span
  <1>8. CASE Interrupt
    BY <1>8, StayKInv DEF Interrupt, line, span
  <1>9. CASE Finish
    BY <1>9, StayKInv DEF Finish, line, span
  <1>10. CASE Crash
    BY <1>10, StayKInv DEF Crash, line, span
  <1>11. CASE Readjusted
    BY <1>11, StayKInv DEF Readjusted, line, span
  <1>12. CASE UNCHANGED vars
    BY <1>12, StayKInv DEF vars, line, span
  <1> QED
    BY <1>1, <1>2, <1>3, <1>4, <1>5, <1>6, <1>7, <1>8, <1>9, <1>10, <1>11, <1>12 DEF Next, Step

(* advance_and_find_timesteps kicks from the middle of one step to the     *)
(* middle of the next: after any sequence of steps, stops, crashes and     *)
(* longer ticks a velocity was kicked up to the middle of its step.        *)
THEOREM VelocityAtMidpoint == Spec => []KickedToMidpoint
  <1>1. Init => KInv
    BY DEF Init, KInv, KickedToMidpoint, Midpoint
  <1>2. GInv /\ KInv /\ [Next]_vars => KInv'
    BY StepKInv
  <1>3. KInv => KickedToMidpoint
    BY DEF KInv
  <1> QED BY <1>1, <1>2, <1>3, InvGInv, PTL DEF Spec

-------------------------------------------------------------------------------
(* The sum over the tasks of the particles that need forces.               *)

Stacks(f) == UNION {{t} \X (1 .. f[t]) : t \in Task}

LEMMA BijectionFacts ==
  ASSUME NEW S, NEW T, NEW b \in Bijection(S, T)
  PROVE  /\ \A k \in S : b[k] \in T
         /\ \A j, k \in S : b[j] = b[k] => j = k
         /\ \A p \in T : \E k \in S : b[k] = p
  <1>1. b \in [S -> T] /\ IsInjective(b) /\ DOMAIN b = S
    BY DEF Bijection, Injection
  <1>2. \A p \in T : \E k \in S : b[k] = p
    BY DEF Bijection, Surjection
  <1> QED BY <1>1, <1>2 DEF IsInjective

(* A set of particles is counted as a whole or task by task.               *)
LEMMA CountedTaskByTask ==
  ASSUME NEW own \in [Particle -> Task], NEW S, S \subseteq Particle
  PROVE  /\ SumOf([t \in Task |-> Cardinality({p \in Held(own, t) : p \in S})]) = Cardinality(S)
         /\ Cardinality(S) \in Nat
  <1> DEFINE part(t) == {p \in Held(own, t) : p \in S}
             f == [t \in Task |-> Cardinality(part(t))]
             number == [t \in Task |-> CHOOSE b : b \in Bijection(1 .. f[t], part(t))]
             whole == [x \in Stacks(f) |-> number[x[1]][x[2]]]
  <1>1. IsFiniteSet(S)
    BY FiniteAssumption, FS_Subset
  <1>2. ASSUME NEW t \in Task
        PROVE  number[t] \in Bijection(1 .. f[t], part(t))
    <2>1. part(t) \subseteq S
      OBVIOUS
    <2>2. IsFiniteSet(part(t))
      BY <1>1, <2>1, FS_Subset
    <2>3. ExistsBijection(1 .. f[t], part(t))
      <3>1. f[t] = Cardinality(part(t))
        OBVIOUS
      <3> HIDE DEF part, f
      <3> QED BY <2>2, <3>1, FS_CardinalityType
    <2> QED BY <2>3 DEF ExistsBijection
  <1>3. \A p : \A t \in Task : p \in part(t) <=> p \in S /\ own[p] = t
    BY DEF Held
  <1>4. \A x \in Stacks(f) : x = <<x[1], x[2]>> /\ x[1] \in Task /\ x[2] \in 1 .. f[x[1]]
    <2> HIDE DEF f
    <2> QED BY DEF Stacks
  <1>5. \A t \in Task : \A k \in 1 .. f[t] : <<t, k>> \in Stacks(f)
    <2> HIDE DEF f
    <2> QED BY DEF Stacks
  <1>6. \A t \in Task : /\ \A k \in 1 .. f[t] : number[t][k] \in part(t)
                        /\ \A j, k \in 1 .. f[t] : number[t][j] = number[t][k] => j = k
                        /\ \A p \in part(t) : \E k \in 1 .. f[t] : number[t][k] = p
    <2> HIDE DEF part, f, number
    <2>1. ASSUME NEW t \in Task
          PROVE  /\ \A k \in 1 .. f[t] : number[t][k] \in part(t)
                 /\ \A j, k \in 1 .. f[t] : number[t][j] = number[t][k] => j = k
                 /\ \A p \in part(t) : \E k \in 1 .. f[t] : number[t][k] = p
      <3>1. PICK b : b = number[t]
        OBVIOUS
      <3>2. PICK S1 : S1 = 1 .. f[t]
        OBVIOUS
      <3>3. PICK T1 : T1 = part(t)
        OBVIOUS
      <3>4. b \in Bijection(S1, T1)
        BY <1>2, <3>1, <3>2, <3>3
      <3>5. /\ \A k \in S1 : b[k] \in T1
            /\ \A j, k \in S1 : b[j] = b[k] => j = k
            /\ \A p \in T1 : \E k \in S1 : b[k] = p
        BY <3>4, BijectionFacts
      <3> QED BY <3>1, <3>2, <3>3, <3>5
    <2> QED BY <2>1
  <1>7. whole \in Bijection(Stacks(f), S)
    <2>1. \A x \in Stacks(f) : whole[x] = number[x[1]][x[2]]
      OBVIOUS
    <2>2. whole = [x \in Stacks(f) |-> whole[x]]
      OBVIOUS
    <2> HIDE DEF part, f, number, whole
    <2>3. \A x \in Stacks(f) : whole[x] \in S /\ own[whole[x]] = x[1]
      BY <1>3, <1>4, <1>6, <2>1
    <2>4. \A x, y \in Stacks(f) : whole[x] = whole[y] => x = y
      BY <1>4, <1>6, <2>1, <2>3
    <2>5. \A p \in S : \E x \in Stacks(f) : whole[x] = p
      <3> SUFFICES ASSUME NEW p \in S PROVE \E x \in Stacks(f) : whole[x] = p
        OBVIOUS
      <3>1. own[p] \in Task /\ p \in part(own[p])
        BY <1>3
      <3>2. PICK k \in 1 .. f[own[p]] : number[own[p]][k] = p
        BY <1>6, <3>1
      <3>3. whole[<<own[p], k>>] = p /\ <<own[p], k>> \in Stacks(f)
        BY <1>5, <2>1, <3>1, <3>2
      <3> QED BY <3>3
    <2>6. whole \in [Stacks(f) -> S]
      BY <2>2, <2>3
    <2>7. whole \in Injection(Stacks(f), S)
      BY <2>4, <2>6 DEF Injection, IsInjective
    <2>8. whole \in Surjection(Stacks(f), S)
      BY <2>5, <2>6 DEF Surjection
    <2> QED BY <2>7, <2>8 DEF Bijection
  <1>8. ExistsBijection(Stacks(f), S)
    BY <1>7 DEF ExistsBijection
  <1>9. ExistsBijection(S, Stacks(f))
    <2> HIDE DEF f
    <2> QED BY <1>8, Fun_ExistsBijSymmetric
  <1>10. Cardinality(Stacks(f)) = Cardinality(S)
    <2> HIDE DEF f
    <2> QED BY <1>1, <1>9, FS_Bijection
  <1>11. Cardinality(Stacks(f)) = SumOf(f)
    BY DEF SumOf, Stacks
  <1> QED BY <1>1, <1>10, <1>11, FS_CardinalityType

Ending(ti) == {p \in Particle : Ti_endstep[p] = ti}

(* The count of the last synchronisation point stays the count of the      *)
(* particles whose steps end there, whoever holds them.                    *)
CInv ==
  /\ phase \in {"output", "advance"} => SumOf(NumForceUpdate) = Cardinality(Ending(min_glob))
  /\ phase = "advance" => Ti_Current = min_glob

LEMMA CountedAtSyncPoint ==
  ASSUME TypeOK, UNCHANGED line, NumForceUpdate' = ForceUpdates(min_glob')
  PROVE  SumOf(NumForceUpdate') = Cardinality(Ending(min_glob)') /\ SumOf(NumForceUpdate') \in Nat
  <1> DEFINE S == {p \in Particle : Ti_endstep[p] = min_glob'}
  <1>1. Ending(min_glob)' = S
    BY DEF Ending, line
  <1>2. NumForceUpdate' = [t \in Task |-> Cardinality({p \in Held(owner, t) : p \in S})]
    <2>1. \A t \in Task : {p \in Held(owner, t) : p \in S} = {p \in Held(owner, t) : Ti_endstep[p] = min_glob'}
      BY DEF Held
    <2> QED BY <2>1 DEF ForceUpdates
  <1>3. owner \in [Particle -> Task] /\ S \subseteq Particle
    BY DEF TypeOK
  <1> HIDE DEF S
  <1>4. /\ SumOf([t \in Task |-> Cardinality({p \in Held(owner, t) : p \in S})]) = Cardinality(S)
        /\ Cardinality(S) \in Nat
    BY <1>3, CountedTaskByTask
  <1> QED BY <1>1, <1>2, <1>4

(* An output, the drift, and what ends the two phases.                     *)
LEMMA CountStays ==
  ASSUME CInv, UNCHANGED <<NumForceUpdate, Ti_endstep, min_glob>>,
         phase' \in {"output", "advance"} => phase = "output" \/ (phase' = phase /\ Ti_Current' = Ti_Current),
         phase' = "advance" /\ phase = "output" => Ti_Current' = min_glob
  PROVE  CInv'
  <1>1. Ending(min_glob)' = Ending(min_glob)
    BY DEF Ending
  <1>2. SumOf(NumForceUpdate)' = SumOf(NumForceUpdate)
    BY DEF SumOf
  <1> QED BY <1>1, <1>2 DEF CInv

LEMMA StepCInv == GInv /\ CInv /\ [Next]_vars => CInv'
  <1> SUFFICES ASSUME GInv, CInv, [Next]_vars PROVE CInv'
    OBVIOUS
  <1>1. CASE FindNextSyncPoint
    <2>1. SumOf(NumForceUpdate') = Cardinality(Ending(min_glob)')
      BY <1>1, CountedAtSyncPoint DEF FindNextSyncPoint, GInv
    <2>2. SumOf(NumForceUpdate)' = Cardinality(Ending(min_glob))' /\ phase' = "output"
      BY <1>1, <2>1 DEF FindNextSyncPoint, SumOf
    <2> QED BY <2>2 DEF CInv
  <1>2. CASE Output
    BY <1>2, CountStays DEF Output, line
  <1>3. CASE Drift
    BY <1>3, CountStays DEF Drift, line
  <1>4. CASE /\ phase' \notin {"output", "advance"}
             /\ AdvanceAndFindTimesteps \/ Interrupt \/ Continue \/ Finish \/ Crash \/ Resume
                \/ Halve \/ Readjusted
    BY <1>4 DEF CInv
  <1>5. AdvanceAndFindTimesteps \/ Interrupt \/ Continue \/ Finish \/ Crash \/ Resume \/ Readjusted
          => phase' \notin {"output", "advance"}
    BY DEF AdvanceAndFindTimesteps, Interrupt, Continue, Finish, Crash, Resume, Readjusted
  <1>6. Halve => phase' \notin {"output", "advance"}
    BY DEF Halve
  <1>7. CASE UNCHANGED vars
    BY <1>7, CountStays DEF vars, line, place
  <1> QED BY <1>1, <1>2, <1>3, <1>4, <1>5, <1>6, <1>7 DEF Next, Step

LEMMA CountedActive ==
  ASSUME CInv
  PROVE  AllActiveCounted
  <1>1. phase = "advance" => Ending(min_glob) = Active
    BY DEF CInv, Ending, Active
  <1> QED BY <1>1 DEF CInv, AllActiveCounted

(* find_next_sync_point_and_drift counts NumForceUpdate before an output   *)
(* or the drift gives particles away: the sum that gravity_tree waits for  *)
(* is still the number of all active particles.                            *)
THEOREM ActiveParticlesCounted == Spec => []AllActiveCounted
  <1>1. Init => CInv
    BY DEF Init, CInv
  <1>2. GInv /\ CInv /\ [Next]_vars => CInv'
    BY StepCInv
  <1>3. CInv => AllActiveCounted
    BY CountedActive
  <1> QED BY <1>1, <1>2, <1>3, InvGInv, PTL DEF Spec

-------------------------------------------------------------------------------
(* The snapshot files.  OutputsKept speaks of the time that has passed; so *)
(* does the inductive invariant, but up to the next output, up to where a  *)
(* continued run begins, and for the files that a set of restart files     *)
(* counts: what a crash leaves behind is written over from there on.       *)

(* The program looks for outputs up to TimeMax.  The first run ends where  *)
(* its time line ends; after an extension a run ends behind TimeMax, so    *)
(* that a second one must not bring output times that lie before that.     *)
FirstExtensionOnly ==
  \A a, b \in NewTimeMax, o \in OutputListTimes : TIMEBASE < a /\ a < o => b < o

FollowsTimeMax(max, interval) ==
  /\ max = TIMEBASE \/ (max \in NewTimeMax /\ max > TIMEBASE)
  /\ max = TIMEBASE => interval = 1

FilesAscend(count, interval, now) ==
  /\ \A i, j \in 1 .. count : i < j => snapshots[i] \div interval <= snapshots[j] \div interval
  /\ \A n \in 1 .. count : snapshots[n] \div interval <= now

KeptBefore(limit, interval, max, count) ==
  \A o \in OutputListTimes :
    o <= max /\ o \div interval < limit =>
      \E n \in 1 .. count : snapshots[n] \div interval = o \div interval

ImageKept(i) ==
  /\ i.SnapshotFileCount \in 0 .. SnapshotFileCount
  /\ FollowsTimeMax(i.TimeMax, i.Timebase_interval)
  /\ FilesAscend(i.SnapshotFileCount, i.Timebase_interval, i.Ti_Current)
  /\ KeptBefore(i.Ti_Current + 1, i.Timebase_interval, i.TimeMax, i.SnapshotFileCount)

Passed == {"advance", "check", "final", "ended"}

Files ==
  /\ snapshots \in Seq(Nat) /\ SnapshotFileCount \in 0 .. Len(snapshots)
  /\ FilesAscend(SnapshotFileCount, Timebase_interval, Ti_Current)

Outputs ==
  /\ phase \in {"sync", "output"} \cup Passed =>
       KeptBefore(Ti_nextoutput, Timebase_interval, TimeMax, SnapshotFileCount)
  /\ phase = "readjust" => KeptBefore(Ti_Current, Timebase_interval, TimeMax, SnapshotFileCount)
  /\ phase \in Passed => Ti_Current < Ti_nextoutput

Span ==
  /\ FollowsTimeMax(TimeMax, Timebase_interval)
  /\ phase = "readjust" /\ TimeMax = TIMEBASE => ti_end = TIMEBASE

Restorable == saved = <<>> \/ \E i : saved = <<i>> /\ ImageKept(i)

OInv == Files /\ Outputs /\ Span /\ Restorable

LEMMA TickOf ==
  ASSUME NEW ti \in Nat, NEW interval \in Nat \ {0}
  PROVE  ti * interval \in Nat /\ (ti * interval) \div interval = ti
  <1>1. ti * interval \in Nat /\ ti * interval = ti * interval + 0
    OBVIOUS
  <1> QED BY <1>1, DivUnique

(* A file more, behind those that are counted.                             *)
LEMMA FileAdded ==
  ASSUME snapshots \in Seq(Nat), SnapshotFileCount \in 0 .. Len(snapshots),
         Timebase_interval \in Nat \ {0}, NEW ti \in Nat, SavePositions(ti)
  PROVE  /\ snapshots' \in Seq(Nat)
         /\ SnapshotFileCount' = SnapshotFileCount + 1
         /\ SnapshotFileCount' \in 0 .. Len(snapshots')
         /\ \A n \in 1 .. SnapshotFileCount : snapshots'[n] = snapshots[n]
         /\ snapshots'[SnapshotFileCount + 1] = ti * Timebase_interval
  <1>1. ti * Timebase_interval \in Nat
    BY TickOf
  <1>2. CASE SnapshotFileCount < Len(snapshots)
    <2>1. snapshots' = [snapshots EXCEPT ![SnapshotFileCount + 1] = ti * Timebase_interval]
      BY <1>2 DEF SavePositions
    <2> QED BY <1>1, <1>2, <2>1 DEF SavePositions
  <1>3. CASE ~(SnapshotFileCount < Len(snapshots))
    <2>1. snapshots' = Append(snapshots, ti * Timebase_interval) /\ SnapshotFileCount = Len(snapshots)
      BY <1>3 DEF SavePositions
    <2> QED BY <1>1, <2>1 DEF SavePositions
  <1> QED BY <1>2, <1>3

(* The counted files are the same, so that what holds of them holds on.    *)
LEMMA SameFiles ==
  ASSUME NEW count \in Nat, NEW interval, NEW now, NEW limit, NEW max,
         \A n \in 1 .. count : snapshots'[n] = snapshots[n]
  PROVE  /\ FilesAscend(count, interval, now) =>
              /\ \A i, j \in 1 .. count :
                   i < j => snapshots'[i] \div interval <= snapshots'[j] \div interval
              /\ \A n \in 1 .. count : snapshots'[n] \div interval <= now
         /\ KeptBefore(limit, interval, max, count) =>
              \A o \in OutputListTimes :
                o <= max /\ o \div interval < limit =>
                  \E n \in 1 .. count : snapshots'[n] \div interval = o \div interval
  BY DEF FilesAscend, KeptBefore

LEMMA SameImage ==
  ASSUME NEW i, ImageKept(i), SnapshotFileCount \in Nat, SnapshotFileCount' \in Nat,
         i.SnapshotFileCount <= SnapshotFileCount',
         \A n \in 1 .. SnapshotFileCount : snapshots'[n] = snapshots[n]
  PROVE  ImageKept(i)'
  <1>1. i.SnapshotFileCount \in Nat /\ i.SnapshotFileCount <= SnapshotFileCount
    BY DEF ImageKept
  <1>2. \A n \in 1 .. i.SnapshotFileCount : snapshots'[n] = snapshots[n]
    BY <1>1
  <1>3. FilesAscend(i.SnapshotFileCount, i.Timebase_interval, i.Ti_Current)'
    BY <1>1, <1>2, SameFiles DEF ImageKept, FilesAscend
  <1>4. KeptBefore(i.Ti_Current + 1, i.Timebase_interval, i.TimeMax, i.SnapshotFileCount)'
    BY <1>1, <1>2, SameFiles DEF ImageKept, KeptBefore
  <1> QED BY <1>1, <1>3, <1>4 DEF ImageKept, FollowsTimeMax

(* No output that is looked for lies between.                              *)
LEMMA NextOutputFirst ==
  ASSUME NEW t \in Nat, NEW interval \in Nat \ {0}, NEW max,
         NEW next \in NextOutputs(t, interval, max),
         NEW o \in OutputListTimes, o <= max, o \div interval < next
  PROVE  o \div interval < t
  <1>1. next \in Nat /\ o \div interval \in Nat
    BY NextOutputNat, ListsAssumption
  <1>2. o \div interval \in OutputTicks(interval, max)
    BY DEF OutputTicks
  <1>3. o \div interval >= t => next <= o \div interval
    BY <1>2 DEF NextOutputs, IsNextOutput
  <1> QED BY <1>1, <1>3

LEMMA InitOInv == Init => OInv
  <1> SUFFICES ASSUME Init PROVE OInv
    OBVIOUS
  <1>1. Files
    BY DEF Init, Files, FilesAscend
  <1>2. KeptBefore(Ti_nextoutput, Timebase_interval, TimeMax, SnapshotFileCount)
    <2> SUFFICES ASSUME NEW o \in OutputListTimes, o <= TIMEBASE, o \div 1 < Ti_nextoutput
                 PROVE  FALSE
      BY DEF Init, KeptBefore
    <2>1. o \div 1 < 0
      BY NextOutputFirst DEF Init
    <2> QED BY <2>1, ListsAssumption
  <1> QED BY <1>1, <1>2 DEF Init, OInv, Outputs, Span, FollowsTimeMax, Restorable, Passed

(* A set of restart files, the one before or one just written.             *)
LEMMA StillRestorable ==
  ASSUME GInv, OInv, saved' = saved \/ (saved' = <<Image>> /\ phase \in Passed),
         SnapshotFileCount' \in Nat, SnapshotFileCount <= SnapshotFileCount',
         \A n \in 1 .. SnapshotFileCount : snapshots'[n] = snapshots[n]
  PROVE  Restorable'
  <1>1. SnapshotFileCount \in Nat
    BY DEF OInv, Files
  <1>2. CASE saved' = saved
    <2>1. CASE saved = <<>>
      BY <1>2, <2>1 DEF Restorable
    <2>2. CASE saved # <<>>
      <3>1. PICK i : saved = <<i>> /\ ImageKept(i)
        BY <2>2 DEF OInv, Restorable
      <3>2. i.SnapshotFileCount <= SnapshotFileCount' /\ i.SnapshotFileCount \in Nat
        BY <1>1, <3>1 DEF ImageKept
      <3>3. ImageKept(i)'
        BY <1>1, <3>1, <3>2, SameImage
      <3> QED BY <1>2, <3>1, <3>3 DEF Restorable
    <2> QED BY <2>1, <2>2
  <1>3. CASE saved' = <<Image>> /\ phase \in Passed
    <2>1. PICK i : i = Image
      OBVIOUS
    <2>2. /\ i.SnapshotFileCount = SnapshotFileCount /\ i.Timebase_interval = Timebase_interval
          /\ i.TimeMax = TimeMax /\ i.Ti_Current = Ti_Current
      BY <2>1 DEF Image
    <2>3. KeptBefore(Ti_nextoutput, Timebase_interval, TimeMax, SnapshotFileCount)
          /\ Ti_Current < Ti_nextoutput
      BY <1>3 DEF OInv, Outputs
    <2>4. \A o \in OutputListTimes : o \div Timebase_interval \in Nat
      BY ListsAssumption DEF GInv
    <2>5. KeptBefore(Ti_Current + 1, Timebase_interval, TimeMax, SnapshotFileCount)
      <3> SUFFICES ASSUME NEW o \in OutputListTimes, o <= TimeMax,
                          o \div Timebase_interval < Ti_Current + 1
                   PROVE  o \div Timebase_interval < Ti_nextoutput
        BY <2>3 DEF KeptBefore
      <3> QED BY <2>3, <2>4, Numbers
    <2>6. ImageKept(i)
      BY <1>1, <2>2, <2>5 DEF ImageKept, OInv, Span, Files
    <2>7. ImageKept(i)'
      BY <1>1, <2>2, <2>6, SameImage
    <2> QED BY <1>3, <2>1, <2>7 DEF Restorable
  <1> QED BY <1>2, <1>3

LEMMA DivNat ==
  ASSUME NEW n \in Nat, NEW d \in Nat \ {0}
  PROVE  n \div d \in Nat
  OBVIOUS

LEMMA FileTicks ==
  ASSUME GInv, OInv
  PROVE  \A n \in 1 .. SnapshotFileCount :
           snapshots[n] \in Nat /\ snapshots[n] \div Timebase_interval \in Nat
  <1> SUFFICES ASSUME NEW n \in 1 .. SnapshotFileCount
               PROVE  snapshots[n] \in Nat /\ snapshots[n] \div Timebase_interval \in Nat
    OBVIOUS
  <1>1. snapshots \in Seq(Nat) /\ SnapshotFileCount \in 0 .. Len(snapshots)
    BY DEF OInv, Files
  <1>2. snapshots[n] \in Nat
    BY <1>1
  <1> QED BY <1>2, DivNat DEF GInv

(* Steps that write no snapshot.                                           *)
LEMMA StillFiles ==
  ASSUME GInv, OInv, UNCHANGED <<snapshots, SnapshotFileCount, Timebase_interval>>,
         Ti_Current' \in Nat, Ti_Current <= Ti_Current'
  PROVE  Files'
  <1>1. \A n \in 1 .. SnapshotFileCount : snapshots[n] \div Timebase_interval \in Nat
    BY FileTicks
  <1>2. \A n \in 1 .. SnapshotFileCount : snapshots[n] \div Timebase_interval <= Ti_Current'
    BY <1>1, Numbers DEF OInv, Files, FilesAscend
  <1> QED BY <1>2 DEF OInv, Files, FilesAscend

LEMMA StillOInv ==
  ASSUME GInv, OInv, UNCHANGED <<snapshots, SnapshotFileCount, Timebase_interval, TimeMax, Ti_nextoutput>>,
         Ti_Current' \in Nat, Ti_Current <= Ti_Current',
         saved' = saved \/ (saved' = <<Image>> /\ phase \in Passed),
         phase' = phase \/ (phase \in {"sync", "output"} \cup Passed /\ phase' # "readjust"),
         phase = "readjust" => Ti_Current' = Ti_Current /\ ti_end' = ti_end,
         phase' \in Passed => Ti_Current' < Ti_nextoutput
  PROVE  OInv'
  <1>1. Restorable'
    BY StillRestorable DEF OInv, Files
  <1>2. Files'
    BY StillFiles
  <1>3. Span'
    BY DEF OInv, Span, FollowsTimeMax
  <1>4. Outputs'
    BY DEF OInv, Outputs, KeptBefore
  <1> QED BY <1>1, <1>2, <1>3, <1>4 DEF OInv

LEMMA OutputOInv ==
  ASSUME GInv, NInv, OInv, Output
  PROVE  OInv'
  <1> DEFINE next == Ti_nextoutput
             count == SnapshotFileCount
             d == Timebase_interval
  <1>0. /\ snapshots \in Seq(Nat) /\ count \in 0 .. Len(snapshots) /\ d \in Nat \ {0}
        /\ next \in Nat /\ Ti_Current \in Nat /\ Ti_Current <= next /\ phase = "output"
        /\ \A o \in OutputListTimes : o \div d \in Nat
    BY Numbers, ListsAssumption DEF OInv, Files, GInv, NInv, Output
  <1>1. /\ Ti_Current' = next /\ d' = d /\ TimeMax' = TimeMax /\ saved' = saved /\ phase' = phase
        /\ ti_end' = ti_end /\ SavePositions(next) /\ next' \in NextOutputs(next + 1, d, TimeMax)
    BY DEF Output, span
  <1>2. /\ snapshots' \in Seq(Nat)
        /\ count' = count + 1 /\ count' \in 0 .. Len(snapshots')
        /\ \A n \in 1 .. count : snapshots'[n] = snapshots[n]
        /\ snapshots'[count + 1] = next * d
    BY <1>0, <1>1, FileAdded
  <1>3. snapshots'[count + 1] \div d = next
    BY <1>0, <1>2, TickOf
  <1>4. \A n \in 1 .. count : /\ snapshots'[n] \div d = snapshots[n] \div d
                              /\ snapshots'[n] \div d \in Nat /\ snapshots'[n] \div d <= next
    <2> SUFFICES ASSUME NEW n \in 1 .. count
                 PROVE  /\ snapshots'[n] \div d = snapshots[n] \div d
                        /\ snapshots'[n] \div d \in Nat /\ snapshots'[n] \div d <= next
      OBVIOUS
    <2>1. snapshots[n] \div d \in Nat /\ snapshots[n] \div d <= Ti_Current
      BY FileTicks DEF OInv, Files, FilesAscend
    <2>2. snapshots'[n] = snapshots[n]
      BY <1>2
    <2> QED BY <1>0, <2>1, <2>2
  <1>5. Files'
    <2>1. \A i, j \in 1 .. count : i < j => snapshots[i] \div d <= snapshots[j] \div d
      BY DEF OInv, Files, FilesAscend
    <2>2. ASSUME NEW n \in 1 .. count + 1
          PROVE  snapshots'[n] \div d <= next
      BY <1>0, <1>3, <1>4
    <2>3. ASSUME NEW i \in 1 .. count + 1, NEW j \in 1 .. count + 1, i < j
          PROVE  snapshots'[i] \div d <= snapshots'[j] \div d
      <3>1. i \in 1 .. count
        BY <1>0, <2>3
      <3>2. CASE j = count + 1
        BY <1>3, <1>4, <3>1, <3>2
      <3>3. CASE j \in 1 .. count
        BY <1>4, <2>1, <2>3, <3>1, <3>3
      <3> QED BY <1>0, <3>2, <3>3
    <2> QED BY <1>1, <1>2, <2>2, <2>3 DEF Files, FilesAscend
  <1>6. KeptBefore(Ti_nextoutput, Timebase_interval, TimeMax, SnapshotFileCount)'
    <2> SUFFICES ASSUME NEW o \in OutputListTimes, o <= TimeMax, o \div d < next'
                 PROVE  \E n \in 1 .. count + 1 : snapshots'[n] \div d = o \div d
      BY <1>1, <1>2 DEF KeptBefore
    <2>1. o \div d < next + 1
      BY <1>0, <1>1, NextOutputFirst
    <2>2. CASE o \div d = next
      BY <1>0, <1>3, <2>2
    <2>3. CASE o \div d < next
      <3>1. PICK n \in 1 .. count : snapshots[n] \div d = o \div d
        BY <1>0, <2>3 DEF OInv, Outputs, KeptBefore
      <3>2. n \in 1 .. count + 1
        BY <1>0
      <3> QED BY <1>4, <3>1, <3>2
    <2> QED BY <1>0, <2>1, <2>2, <2>3
  <1>7. Restorable'
    BY <1>0, <1>1, <1>2, StillRestorable
  <1> QED BY <1>0, <1>1, <1>5, <1>6, <1>7 DEF OInv, Outputs, Span, FollowsTimeMax, Passed

(* The last snapshot, behind all others.                                   *)
LEMMA FinishOInv ==
  ASSUME GInv, OInv, Finish
  PROVE  OInv'
  <1> DEFINE count == SnapshotFileCount
             d == Timebase_interval
  <1>0. /\ snapshots \in Seq(Nat) /\ count \in 0 .. Len(snapshots) /\ d \in Nat \ {0}
        /\ Ti_Current \in Nat /\ phase = "final"
    BY Numbers DEF OInv, Files, GInv, Finish
  <1>1. /\ UNCHANGED <<Ti_Current, Timebase_interval, TimeMax, ti_end, Ti_nextoutput>>
        /\ saved' = <<Image>> /\ SavePositions(Ti_Current) /\ phase' = "ended"
    BY DEF Finish, span
  <1>2. /\ snapshots' \in Seq(Nat)
        /\ count' = count + 1 /\ count' \in 0 .. Len(snapshots')
        /\ \A n \in 1 .. count : snapshots'[n] = snapshots[n]
        /\ snapshots'[count + 1] = Ti_Current * d
    BY <1>0, <1>1, FileAdded
  <1>3. snapshots'[count + 1] \div d = Ti_Current
    BY <1>0, <1>2, TickOf
  <1>4. \A n \in 1 .. count : /\ snapshots'[n] \div d = snapshots[n] \div d
                              /\ snapshots'[n] \div d <= Ti_Current
    BY <1>0, <1>2 DEF OInv, Files, FilesAscend
  <1>5. Files'
    <2>1. \A i, j \in 1 .. count : i < j => snapshots[i] \div d <= snapshots[j] \div d
      BY DEF OInv, Files, FilesAscend
    <2>2. ASSUME NEW n \in 1 .. count + 1
          PROVE  snapshots'[n] \div d <= Ti_Current
      BY <1>0, <1>3, <1>4
    <2>3. ASSUME NEW i \in 1 .. count + 1, NEW j \in 1 .. count + 1, i < j
          PROVE  snapshots'[i] \div d <= snapshots'[j] \div d
      <3>1. i \in 1 .. count
        BY <1>0, <2>3
      <3>2. CASE j = count + 1
        BY <1>3, <1>4, <3>1, <3>2
      <3>3. CASE j \in 1 .. count
        BY <1>4, <2>1, <2>3, <3>1, <3>3
      <3> QED BY <1>0, <3>2, <3>3
    <2> QED BY <1>1, <1>2, <2>2, <2>3 DEF Files, FilesAscend
  <1>6. KeptBefore(Ti_nextoutput, Timebase_interval, TimeMax, SnapshotFileCount)'
    <2> SUFFICES ASSUME NEW o \in OutputListTimes, o <= TimeMax, o \div d < Ti_nextoutput
                 PROVE  \E n \in 1 .. count + 1 : snapshots'[n] \div d = o \div d
      BY <1>1, <1>2 DEF KeptBefore
    <2>1. PICK n \in 1 .. count : snapshots[n] \div d = o \div d
      BY <1>0 DEF OInv, Outputs, KeptBefore, Passed
    <2>2. n \in 1 .. count + 1
      BY <1>0
    <2> QED BY <1>4, <2>1, <2>2
  <1>7. Restorable'
    BY <1>0, <1>1, <1>2, StillRestorable DEF Passed
  <1>8. Ti_Current' < Ti_nextoutput'
    BY <1>0, <1>1 DEF OInv, Outputs, Passed
  <1> QED BY <1>1, <1>5, <1>6, <1>7, <1>8 DEF OInv, Outputs, Span, FollowsTimeMax, Passed

(* A tick twice as long: what lay in one tick lies in one tick.            *)
LEMMA HalfTicks ==
  ASSUME NEW m \in Nat, NEW n \in Nat, NEW d \in Nat \ {0}
  PROVE  /\ n \div (2 * d) = (n \div d) \div 2
         /\ m \div d <= n \div d => m \div (2 * d) <= n \div (2 * d)
         /\ m \div d = n \div d => m \div (2 * d) = n \div (2 * d)
  <1>0. m \in Int /\ n \in Int
    OBVIOUS
  <1>a. m \div (2 * d) = (m \div d) \div 2
    BY <1>0, DivTwice, Zenon
  <1>b. n \div (2 * d) = (n \div d) \div 2
    BY <1>0, DivTwice, Zenon
  <1>1. m \div (2 * d) = (m \div d) \div 2 /\ n \div (2 * d) = (n \div d) \div 2
    BY <1>a, <1>b
  <1>2. m \div d \in Nat /\ n \div d \in Nat
    BY DivNat
  <1>3. \A j, k \in Nat : j <= k => j \div 2 <= k \div 2
    OBVIOUS
  <1> QED BY <1>1, <1>2, <1>3

LEMMA HalveOInv ==
  ASSUME GInv, OInv, Halve
  PROVE  OInv'
  <1> DEFINE count == SnapshotFileCount
             d == Timebase_interval
  <1>0. /\ snapshots \in Seq(Nat) /\ count \in 0 .. Len(snapshots) /\ d \in Nat \ {0}
        /\ Ti_Current \in Nat /\ phase = "readjust"
    BY Numbers DEF OInv, Files, GInv, Halve
  <1>1. /\ UNCHANGED <<snapshots, SnapshotFileCount, TimeMax, saved, phase>>
        /\ d' = 2 * d /\ Ti_Current' = Ti_Current \div 2 /\ ti_end > TIMEBASE
    BY DEF Halve, output
  <1>2. Files'
    <2>1. ASSUME NEW n \in 1 .. count
          PROVE  snapshots[n] \div (2 * d) <= Ti_Current \div 2
      <3>1. snapshots[n] \in Nat /\ snapshots[n] \div d \in Nat /\ snapshots[n] \div d <= Ti_Current
        BY FileTicks DEF OInv, Files, FilesAscend
      <3>2. snapshots[n] \div (2 * d) = (snapshots[n] \div d) \div 2
        BY <1>0, <3>1, HalfTicks
      <3>3. \A j, k \in Nat : j <= k => j \div 2 <= k \div 2
        OBVIOUS
      <3> QED BY <1>0, <3>1, <3>2, <3>3
    <2>2. ASSUME NEW i \in 1 .. count, NEW j \in 1 .. count, i < j
          PROVE  snapshots[i] \div (2 * d) <= snapshots[j] \div (2 * d)
      <3>1. snapshots[i] \in Nat /\ snapshots[j] \in Nat
        BY FileTicks
      <3>2. snapshots[i] \div d <= snapshots[j] \div d
        BY <2>2 DEF OInv, Files, FilesAscend
      <3> QED BY <1>0, <3>1, <3>2, HalfTicks
    <2> QED BY <1>0, <1>1, <2>1, <2>2 DEF Files, FilesAscend
  <1>3. KeptBefore(Ti_Current, Timebase_interval, TimeMax, SnapshotFileCount)'
    <2> SUFFICES ASSUME NEW o \in OutputListTimes, o <= TimeMax,
                        o \div (2 * d) < Ti_Current \div 2
                 PROVE  \E n \in 1 .. count : snapshots[n] \div (2 * d) = o \div (2 * d)
      BY <1>1 DEF KeptBefore
    <2>1. o \in Nat /\ o \div d \in Nat
      BY <1>0, ListsAssumption, DivNat
    <2>2. o \div (2 * d) = (o \div d) \div 2
      BY <1>0, <2>1, HalfTicks
    <2>3. \A j, k \in Nat : j \div 2 < k \div 2 => j < k
      OBVIOUS
    <2>4. o \div d < Ti_Current
      BY <1>0, <2>1, <2>2, <2>3
    <2>5. PICK n \in 1 .. count : snapshots[n] \div d = o \div d
      BY <1>0, <2>4 DEF OInv, Outputs, KeptBefore
    <2>6. snapshots[n] \in Nat
      BY FileTicks
    <2> QED BY <1>0, <2>1, <2>5, <2>6, HalfTicks
  <1>4. Span'
    <2>1. TIMEBASE \in Nat
      BY Constants
    <2>2. TimeMax # TIMEBASE
      BY <1>0, <1>1, <2>1 DEF OInv, Span
    <2> QED BY <1>1, <2>2 DEF OInv, Span, FollowsTimeMax
  <1>5. Restorable'
    BY <1>0, <1>1, StillRestorable
  <1> QED BY <1>0, <1>1, <1>2, <1>3, <1>4, <1>5 DEF OInv, Outputs, Passed

LEMMA ReadjustedOInv ==
  ASSUME GInv, OInv, Readjusted
  PROVE  OInv'
  <1>1. /\ UNCHANGED <<snapshots, SnapshotFileCount, Timebase_interval, TimeMax, Ti_Current, saved>>
        /\ Ti_nextoutput' \in NextOutputs(Ti_Current, Timebase_interval, TimeMax)
        /\ phase = "readjust" /\ phase' = "sync"
    BY DEF Readjusted, span
  <1>2. Ti_Current \in Nat /\ Timebase_interval \in Nat \ {0} /\ SnapshotFileCount \in Nat
    BY Numbers DEF GInv, OInv, Files
  <1>3. KeptBefore(Ti_nextoutput, Timebase_interval, TimeMax, SnapshotFileCount)'
    <2> SUFFICES ASSUME NEW o \in OutputListTimes, o <= TimeMax, o \div Timebase_interval < Ti_nextoutput'
                 PROVE  \E n \in 1 .. SnapshotFileCount :
                          snapshots[n] \div Timebase_interval = o \div Timebase_interval
      BY <1>1 DEF KeptBefore
    <2>1. o \div Timebase_interval < Ti_Current
      BY <1>1, <1>2, NextOutputFirst
    <2> QED BY <1>1, <2>1 DEF OInv, Outputs, KeptBefore
  <1>4. Files' /\ Restorable'
    BY <1>1, <1>2, StillFiles, StillRestorable
  <1> QED BY <1>1, <1>3, <1>4 DEF OInv, Outputs, Span, FollowsTimeMax, Passed

(* begrun with the restart files: the first extension adds outputs behind  *)
(* the end of the first run, others add none.                              *)
LEMMA ResumeOInv ==
  ASSUME FirstExtensionOnly, GInv, OInv, Resume
  PROVE  OInv'
  <1>1. PICK i : saved = <<i>> /\ ImageKept(i)
    BY DEF Resume, OInv, Restorable
  <1>2. {saved[k] : k \in DOMAIN saved} = {i}
    BY <1>1
  <1>3. PICK max \in {x \in NewTimeMax \cup {i.TimeMax} : x >= i.TimeMax} :
          /\ Ti_Current' = i.Ti_Current
          /\ Timebase_interval' = i.Timebase_interval
          /\ SnapshotFileCount' = i.SnapshotFileCount
          /\ TimeMax' = max
          /\ ti_end' = max \div i.Timebase_interval
    BY <1>2 DEF Resume
  <1>4. SoundImage(i)
    BY <1>2 DEF GInv
  <1>5. /\ UNCHANGED <<snapshots, saved>> /\ phase' = "readjust"
    BY DEF Resume
  <1>6. /\ snapshots \in Seq(Nat) /\ SnapshotFileCount \in 0 .. Len(snapshots)
        /\ i.SnapshotFileCount \in 0 .. SnapshotFileCount
        /\ i.Ti_Current \in Nat /\ i.Ti_Current <= TIMEBASE /\ TIMEBASE \in Nat
        /\ i.Timebase_interval \in Nat \ {0}
    BY <1>1, <1>4, Constants DEF OInv, Files, ImageKept, SoundImage, Ticks
  <1>7. Files'
    BY <1>1, <1>3, <1>5, <1>6 DEF Files, ImageKept, FilesAscend
  <1>8. Span'
    <2>1. i.TimeMax \in Nat /\ max \in Nat /\ TIMEBASE <= i.TimeMax /\ max >= i.TimeMax
      BY <1>1, <1>3, <1>4, <1>6, ListsAssumption DEF SoundImage, ImageKept, FollowsTimeMax
    <2>2. max = TIMEBASE => i.TimeMax = TIMEBASE
      BY <1>6, <2>1
    <2>3. i.TimeMax = TIMEBASE => i.Timebase_interval = 1
      BY <1>1 DEF ImageKept, FollowsTimeMax
    <2>4. max = TIMEBASE \/ (max \in NewTimeMax /\ max > TIMEBASE)
      BY <1>1, <1>3, <1>6, <2>1 DEF ImageKept, FollowsTimeMax
    <2>5. TIMEBASE \div 1 = TIMEBASE
      BY <1>6
    <2> QED BY <1>3, <2>2, <2>3, <2>4, <2>5 DEF Span, FollowsTimeMax
  <1>9. KeptBefore(Ti_Current, Timebase_interval, TimeMax, SnapshotFileCount)'
    <2> SUFFICES ASSUME NEW o \in OutputListTimes, o <= max, o \div i.Timebase_interval < i.Ti_Current
                 PROVE  \E n \in 1 .. i.SnapshotFileCount :
                          snapshots[n] \div i.Timebase_interval = o \div i.Timebase_interval
      BY <1>3, <1>5 DEF KeptBefore
    <2>1. o \in Nat /\ o \div i.Timebase_interval \in Nat /\ i.TimeMax \in Nat /\ max \in Nat
      BY <1>3, <1>4, <1>6, DivNat, ListsAssumption DEF SoundImage
    <2>2. CASE o <= i.TimeMax
      <3>1. o \div i.Timebase_interval < i.Ti_Current + 1
        BY <1>6, <2>1
      <3> QED BY <1>1, <2>2, <3>1 DEF ImageKept, KeptBefore
    <2>3. CASE ~(o <= i.TimeMax)
      <3>1. CASE i.TimeMax = TIMEBASE
        <4>1. i.Timebase_interval = 1
          BY <1>1, <3>1 DEF ImageKept, FollowsTimeMax
        <4>2. o < TIMEBASE
          BY <1>6, <2>1, <4>1
        <4> QED BY <1>6, <2>1, <2>3, <3>1, <4>2
      <3>2. CASE i.TimeMax # TIMEBASE
        <4>1. i.TimeMax \in NewTimeMax /\ TIMEBASE < i.TimeMax /\ i.TimeMax < o
          BY <1>1, <1>6, <2>1, <2>3, <3>2 DEF ImageKept, FollowsTimeMax
        <4>2. max \in NewTimeMax
          BY <1>3, <2>1, <4>1
        <4>3. max < o
          BY <4>1, <4>2 DEF FirstExtensionOnly
        <4> QED BY <2>1, <4>3
      <3> QED BY <3>1, <3>2
    <2> QED BY <2>2, <2>3
  <1>10. Restorable'
    <2>1. ImageKept(i)'
      BY <1>1, <1>3, <1>5, <1>6, SameImage
    <2> QED BY <1>1, <1>5, <2>1 DEF Restorable
  <1> QED BY <1>5, <1>7, <1>8, <1>9, <1>10 DEF OInv, Outputs, Passed

(* A new synchronisation point, with the mesh or without it.               *)
LEMMA SyncOInv ==
  ASSUME GInv, OInv, phase = "sync", phase' = "output", UNCHANGED <<span, output, Ti_Current, saved>>
  PROVE  OInv'
  BY Numbers, StillOInv DEF span, output, Passed

LEMMA StepOInv ==
  ASSUME FirstExtensionOnly
  PROVE  GInv /\ NInv /\ OInv /\ [Next]_vars => OInv'
  <1> SUFFICES ASSUME GInv, NInv, OInv, [Next]_vars PROVE OInv'
    OBVIOUS
  <1>0. Ti_Current \in Nat /\ min_glob \in Nat
    BY Numbers
  <1>1. CASE FindNextSyncPoint
    BY <1>1, SyncOInv DEF FindNextSyncPoint
  <1>2. CASE Output
    BY <1>2, OutputOInv
  <1>3. CASE Drift
    <2>1. Ti_Current <= min_glob
      BY <1>3 DEF Drift, NInv, Ahead
    <2> QED BY <1>0, <1>3, <2>1, StillOInv DEF Drift, span, output
  <1>4. CASE AdvanceAndFindTimesteps
    <2>1. Ti_Current < Ti_nextoutput
      BY <1>4 DEF AdvanceAndFindTimesteps, OInv, Outputs, Passed
    <2> QED BY <1>0, <1>4, <2>1, StillOInv DEF AdvanceAndFindTimesteps, span, output, Passed
  <1>5. CASE Interrupt
    BY <1>0, <1>5, StillOInv DEF Interrupt, span, output, Passed
  <1>6. CASE Continue
    <2>1. Ti_Current < Ti_nextoutput
      BY <1>6 DEF Continue, OInv, Outputs, Passed
    <2>2. saved' = saved \/ saved' = <<Image>>
      BY <1>6 DEF Continue
    <2>3. phase' \in {"sync", "final"} /\ phase = "check" /\ UNCHANGED <<span, output, Ti_Current>>
      BY <1>6 DEF Continue
    <2> QED BY <1>0, <2>1, <2>2, <2>3, StillOInv DEF span, output, Passed
  <1>7. CASE Finish
    BY <1>7, FinishOInv
  <1>8. CASE Crash
    BY <1>0, <1>8, StillOInv DEF Crash, span, output, Passed
  <1>9. CASE Resume
    BY <1>9, ResumeOInv
  <1>10. CASE Halve
    BY <1>10, HalveOInv
  <1>11. CASE Readjusted
    BY <1>11, ReadjustedOInv
  <1>12. CASE UNCHANGED vars
    <2>1. phase \in Passed => Ti_Current < Ti_nextoutput
      BY DEF OInv, Outputs
    <2> QED BY <1>0, <1>12, <2>1, StillOInv DEF vars, span, output
  <1> QED
    BY <1>1, <1>2, <1>3, <1>4, <1>5, <1>6, <1>7, <1>8, <1>9, <1>10, <1>11, <1>12 DEF Next, Step

LEMMA KeptFromOInv ==
  ASSUME GInv, OInv
  PROVE  OutputsKept
  <1> SUFFICES ASSUME phase \in Passed
               PROVE  /\ SnapshotsAscend
                      /\ \A ti \in OutputTicks(Timebase_interval, TimeMax) :
                           ti <= Ti_Current =>
                             \E n \in 1 .. SnapshotFileCount : snapshots[n] \div Timebase_interval = ti
    BY DEF OutputsKept, Passed
  <1>1. SnapshotsAscend
    BY DEF OInv, Files, FilesAscend, SnapshotsAscend
  <1>2. ASSUME NEW ti \in OutputTicks(Timebase_interval, TimeMax), ti <= Ti_Current
        PROVE  \E n \in 1 .. SnapshotFileCount : snapshots[n] \div Timebase_interval = ti
    <2>1. PICK o \in OutputListTimes : o <= TimeMax /\ ti = o \div Timebase_interval
      BY DEF OutputTicks
    <2>2. ti \in Nat
      BY <2>1, DivNat, ListsAssumption DEF GInv
    <2>3. ti < Ti_nextoutput
      BY <1>2, <2>2, Numbers DEF OInv, Outputs
    <2> QED BY <2>1, <2>3 DEF OInv, Outputs, KeptBefore
  <1> QED BY <1>1, <1>2

(* While every task holds a particle, and if only the first extension of   *)
(* TimeMax adds output times: find_next_outputtime and the loop in         *)
(* find_next_sync_point_and_drift leave none out, and the snapshot files   *)
(* are numbered in the order of time, through all stops, crashes and       *)
(* continued runs.                                                         *)
THEOREM OutputsAlwaysKept ==
  ASSUME MinPerTask = 1, FirstExtensionOnly
  PROVE  Spec => []OutputsKept
  <1>1. Init => OInv
    BY InitOInv
  <1>2. GInv /\ NInv /\ OInv /\ [Next]_vars => OInv'
    BY StepOInv
  <1>3. GInv /\ OInv => OutputsKept
    BY KeptFromOInv
  <1> QED BY <1>1, <1>2, <1>3, InvGInv, InvNInv, PTL DEF Spec

-------------------------------------------------------------------------------
(* What holds of the velocities, and of those in a set of restart files.   *)

LongGrid(beg, end) ==
  /\ beg \in Ticks /\ end \in Ticks
  /\ end - beg = 0 \/ (end - beg \in Steps /\ beg % (end - beg) = 0)

(* The mesh kicked up to the middle of the long-range step.                *)
MeshOf(interval, beg, end, k) ==
  /\ LongGrid(beg, end)
  /\ k \in [Particle -> Int]
  /\ PMGRID => \A p \in Particle : k[p] \div interval = (beg + end) \div 2

PredictedOf(interval, now, vel) ==
  /\ vel \in [Gas -> [grav : Int, hydro : Int, pm : Int]]
  /\ \A p \in Gas : /\ vel[p].grav \div interval = now /\ vel[p].hydro \div interval = now
                    /\ PMGRID => vel[p].pm \div interval = now

NodesOf(forces, nodes, k, kPM) ==
  /\ forces \in Nat
  /\ forces <= UpdateLimit => nodes = [p \in Particle |-> [tree |-> k[p], pm |-> kPM[p]]]

Mesh == MeshOf(Timebase_interval, PM_Ti_begstep, PM_Ti_endstep, kickedPM)

Predicted == PredictedOf(Timebase_interval, Ti_Current, VelPred)

Nodes == NodesOf(NumForcesSinceLastDomainDecomp, NodeVel, kicked, kickedPM)

(* The end of the long-range step is never passed.                         *)
LongAhead ==
  PMGRID => Ti_Current <= PM_Ti_endstep /\ (phase = "output" => min_glob <= PM_Ti_endstep)

(* On a full step everybody is kicked at its end: by the mesh, or because  *)
(* all steps end there.                                                    *)
FullStep ==
  phase \in {"output", "advance"} /\ Flag_FullStep =>
    (PMGRID /\ PM_Ti_endstep = min_glob) \/ \A p \in Particle : Ti_endstep[p] = min_glob

Cooled ==
  /\ phase \notin {"advance", "down", "ended"} => uncooled = {}
  /\ phase = "advance" => Ti_Current = min_glob
                          /\ (uncooled = {} \/ (uncooled = Gas /\ Flag_FullStep))

PairSound(i, k) ==
  /\ MeshOf(i.Timebase_interval, k.PM_Ti_begstep, k.PM_Ti_endstep, k.kickedPM)
  /\ PredictedOf(i.Timebase_interval, i.Ti_Current, k.VelPred)
  /\ NodesOf(k.forces, k.NodeVel, i.kicked, k.kickedPM)
  /\ k.uncooled = {}
  /\ PMGRID => i.Ti_Current <= k.PM_Ti_endstep

Filed ==
  \/ saved = <<>> /\ kept = <<>>
  \/ \E i, k : saved = <<i>> /\ kept = <<k>> /\ PairSound(i, k)

VInv == Mesh /\ LongAhead /\ Predicted /\ Nodes /\ FullStep /\ Cooled /\ Filed

-------------------------------------------------------------------------------
(* What KickDrift keeps of TimeLine.  Only the synchronisation point is    *)
(* found in a new way: it may be the end of the long-range step.           *)

LEMMA OrdinaryStep == [KickDriftNext]_kdvars => [Next]_vars \/ Synchronise
  <1> SUFFICES ASSUME [KickDriftNext]_kdvars, ~Synchronise PROVE [Next]_vars
    OBVIOUS
  <1>1. CASE UNCHANGED kdvars
    BY <1>1 DEF kdvars
  <1>2. CASE KickDriftStep
    <2>1. Output \/ Drift \/ AdvanceAndFindTimesteps \/ Continue \/ Finish \/ Halve \/ Readjusted
      BY <1>2 DEF KickDriftStep, OutputOnTheWay, DriftAndCool, AdvanceAndKick, ContinueKept,
                  FinishKept, HalveLong, ReadjustedKept
    <2> QED BY <2>1 DEF Next, Step
  <1>3. CASE InterruptKept \/ CrashKept \/ ResumeKept
    BY <1>3 DEF InterruptKept, CrashKept, ResumeKept, Next
  <1> QED BY <1>1, <1>2, <1>3 DEF KickDriftNext

LEMMA SyncPointOnLine ==
  ASSUME GInv, Mesh, Synchronise
  PROVE  min_glob' \in Ticks
  <1>1. PICK m \in EndSteps : min_glob' = IF LongRangeDue(m) THEN PM_Ti_endstep ELSE m
    BY DEF Synchronise
  <1>2. m \in Ticks
    BY <1>1 DEF EndSteps, GInv, TypeOK
  <1>3. PM_Ti_endstep \in Ticks
    BY DEF Mesh, MeshOf, LongGrid
  <1> QED BY <1>1, <1>2, <1>3

LEMMA KickDriftGInv == GInv /\ Mesh /\ [KickDriftNext]_kdvars => GInv'
  <1> SUFFICES ASSUME GInv, Mesh, Synchronise PROVE GInv'
    BY OrdinaryStep, StepGInv
  <1>1. min_glob' \in Ticks
    BY SyncPointOnLine
  <1>2. TypeOK'
    BY <1>1 DEF GInv, TypeOK, Synchronise, line
  <1>3. OnGrid'
    BY DEF GInv, OnGrid, OldStep, Synchronise, line
  <1> QED BY <1>2, <1>3 DEF GInv, Synchronise, span, output

LEMMA KickDriftKInv == GInv /\ KInv /\ [KickDriftNext]_kdvars => KInv'
  <1> SUFFICES ASSUME KInv, Synchronise PROVE KInv'
    BY OrdinaryStep, StepKInv
  <1> QED BY StayKInv DEF Synchronise, line, span

LEMMA KickDriftCInv == GInv /\ CInv /\ [KickDriftNext]_kdvars => CInv'
  <1> SUFFICES ASSUME GInv, Synchronise PROVE CInv'
    BY OrdinaryStep, StepCInv
  <1>1. SumOf(NumForceUpdate') = Cardinality(Ending(min_glob)')
    BY CountedAtSyncPoint DEF Synchronise, GInv
  <1>2. SumOf(NumForceUpdate)' = Cardinality(Ending(min_glob))' /\ phase' = "output"
    BY <1>1 DEF Synchronise, SumOf
  <1> QED BY <1>2 DEF CInv

-------------------------------------------------------------------------------
(* The long-range step.                                                    *)

(* Like a particle's step it is longer than before only if whole steps     *)
(* lead to the end of the time line.                                       *)
LEMMA LongStepFits ==
  ASSUME LongGrid(PM_Ti_begstep, PM_Ti_endstep), Ti_Current = PM_Ti_endstep, NEW step \in LongSteps
  PROVE  LongGrid(PM_Ti_endstep, PM_Ti_endstep + step) /\ step \in Nat
  <1> DEFINE b == PM_Ti_begstep
             e == PM_Ti_endstep
             old == e - b
  <1>1. b \in Nat /\ e \in Nat /\ e <= TIMEBASE /\ TIMEBASE \in Nat \ {0}
    BY Constants DEF LongGrid, Ticks
  <1>2. old = 0 \/ (old \in Steps /\ b % old = 0)
    BY DEF LongGrid
  <1>3. PICK s \in Steps : step = IF Ti_Current = TIMEBASE THEN 0 ELSE LongStep(s)
    BY DEF LongSteps
  <1>4. old \in Steps => e % old = 0
    <2> SUFFICES ASSUME old \in Steps PROVE e % old = 0
      OBVIOUS
    <2>1. old \in Nat \ {0} /\ b % old = 0
      BY <1>2, Constants
    <2>2. (b + old) % old = 0
      BY <1>1, <2>1, NextMultiple
    <2>3. b + old = e
      BY <1>1
    <2> QED BY <2>2, <2>3
  <1>5. LongStep(s) = 0 \/ (LongStep(s) \in Steps /\ e % LongStep(s) = 0)
    <2>1. CASE LongStep(s) = old
      BY <1>2, <1>4, <2>1
    <2>2. CASE LongStep(s) # old
      <3>1. LongStep(s) = s /\ (s <= old \/ ~((TIMEBASE - e) % s > 0))
        BY <1>1, <1>3, <2>2, Constants DEF LongStep
      <3>2. CASE s <= old
        <4>1. old \in Steps
          BY <1>1, <1>2, <1>3, <3>2, Constants
        <4> QED BY <1>1, <1>3, <1>4, <3>1, <3>2, <4>1, MultipleOfShorter
      <3>3. CASE ~((TIMEBASE - e) % s > 0)
        <4>1. (TIMEBASE - e) % s = 0
          BY <1>1, <1>3, <3>3, Constants
        <4> QED BY <1>1, <1>3, <3>1, <4>1, RestMultiple
      <3> QED BY <3>1, <3>2, <3>3
    <2> QED BY <2>1, <2>2
  <1>6. step \in Nat /\ e + step <= TIMEBASE /\ (step = 0 \/ (step \in Steps /\ e % step = 0))
    <2>1. CASE Ti_Current = TIMEBASE
      BY <1>1, <1>3, <2>1
    <2>2. CASE Ti_Current # TIMEBASE
      <3>1. step = LongStep(s) /\ e < TIMEBASE
        BY <1>1, <1>3, <2>2
      <3>2. CASE step = 0
        BY <1>1, <3>2
      <3>3. CASE step \in Steps /\ e % step = 0
        BY <1>1, <3>1, <3>3, StepFits, Constants
      <3> QED BY <1>5, <3>1, <3>2, <3>3
    <2> QED BY <2>1, <2>2
  <1>7. (e + step) - e = step
    BY <1>1, <1>6
  <1> QED BY <1>1, <1>6, <1>7 DEF LongGrid, Ticks

(* Half of a step on the grid is one, or no step at all.                   *)
LEMMA HalfLongGrid ==
  ASSUME NEW b, NEW e, LongGrid(b, e)
  PROVE  LongGrid(b \div 2, e \div 2)
  <1> DEFINE s == e - b
  <1>1. b \in Nat /\ e \in Nat /\ b <= TIMEBASE /\ e <= TIMEBASE /\ TIMEBASE \in Nat
    BY Constants DEF LongGrid, Ticks
  <1>2. b \div 2 \in Ticks /\ e \div 2 \in Ticks
    BY <1>1 DEF Ticks
  <1>3. s = 0 \/ (s \in Steps /\ b % s = 0)
    BY DEF LongGrid
  <1>4. CASE s = 0
    <2>1. e \div 2 - b \div 2 = 0
      <3>1. e = b
        BY <1>1, <1>4
      <3> QED BY <1>1, <3>1
    <2> QED BY <1>2, <2>1 DEF LongGrid
  <1>5. CASE s = 1
    <2>1. e = b + 1
      BY <1>1, <1>5
    <2>2. e \div 2 - b \div 2 \in {0, 1} /\ b \div 2 \in Nat
      BY <1>1, <2>1
    <2>3. (b \div 2) % 1 = 0
      BY <2>2
    <2> QED BY <1>2, <2>2, <2>3, Constants DEF LongGrid
  <1>6. CASE s \in Steps /\ s # 1 /\ b % s = 0
    <2>1. s \in Nat /\ e = b + s
      BY <1>1, <1>6, Constants
    <2> HIDE DEF s
    <2>2. /\ s \div 2 \in Steps
          /\ (b \div 2) % (s \div 2) = 0
          /\ (b + s) \div 2 - b \div 2 = s \div 2
      BY <1>1, <1>6, HalfMultiple
    <2> QED BY <1>2, <2>1, <2>2 DEF LongGrid
  <1> QED BY <1>3, <1>4, <1>5, <1>6

(* A factor moves a velocity by the time it covers.                        *)
LEMMA FactorShifts ==
  ASSUME Timebase_interval \in Nat \ {0}, NEW n \in Int, NEW a \in Int, NEW b \in Int
  PROVE  /\ get_gravkick_factor(a, b) \in Int
         /\ get_hydrokick_factor(a, b) = get_gravkick_factor(a, b)
         /\ (n + get_gravkick_factor(a, b)) \div Timebase_interval = n \div Timebase_interval + (b - a)
         /\ (n - get_gravkick_factor(a, b)) \div Timebase_interval = n \div Timebase_interval - (b - a)
  <1>0. PICK T \in Nat \ {0} : T = Timebase_interval
    OBVIOUS
  <1>1. get_gravkick_factor(a, b) = b * T - a * T /\ get_hydrokick_factor(a, b) = b * T - a * T
    BY <1>0 DEF get_gravkick_factor, get_hydrokick_factor, Upto
  <1>2. b * T - a * T \in Int
    OBVIOUS
  <1>3. n + (b * T - a * T) = n + (b - a) * T
    OBVIOUS
  <1>4. n - (b * T - a * T) = n + (a - b) * T
    OBVIOUS
  <1>5. (n + (b - a) * T) \div T = n \div T + (b - a)
    <2>1. b - a \in Int
      OBVIOUS
    <2> QED BY <2>1, DivShift
  <1>6. (n + (a - b) * T) \div T = n \div T + (a - b)
    <2>1. a - b \in Int
      OBVIOUS
    <2> QED BY <2>1, DivShift
  <1>7. n \div T + (a - b) = n \div T - (b - a)
    OBVIOUS
  <1> QED BY <1>0, <1>1, <1>2, <1>3, <1>4, <1>5, <1>6, <1>7

LEMMA FactorsShift ==
  ASSUME Timebase_interval \in Nat \ {0}
  PROVE  \A n, a, b \in Int :
           /\ get_gravkick_factor(a, b) \in Int
           /\ get_hydrokick_factor(a, b) = get_gravkick_factor(a, b)
           /\ (n + get_gravkick_factor(a, b)) \div Timebase_interval = n \div Timebase_interval + (b - a)
           /\ (n - get_gravkick_factor(a, b)) \div Timebase_interval = n \div Timebase_interval - (b - a)
  BY FactorShifts

LEMMA QuietMesh ==
  ASSUME Mesh, UNCHANGED <<options, longRange, Timebase_interval>>
  PROVE  Mesh'
  BY DEF Mesh, MeshOf, longRange, options, LongGrid, Ticks

LEMMA LongKickMesh ==
  ASSUME GInv, Mesh, LongKick, Ti_Current = PM_Ti_endstep, UNCHANGED <<options, Timebase_interval>>
  PROVE  Mesh'
  <1> DEFINE T == Timebase_interval
             b == PM_Ti_begstep
             e == PM_Ti_endstep
  <1>1. PICK step \in LongSteps :
          /\ PM_Ti_begstep' = e
          /\ PM_Ti_endstep' = e + step
          /\ kickedPM' = [p \in Particle |->
                            kickedPM[p] + get_gravkick_factor(PMMidpoint, e + step \div 2)]
    BY DEF LongKick
  <1>2. LongGrid(e, e + step) /\ step \in Nat
    BY LongStepFits DEF Mesh, MeshOf
  <1>3. T \in Nat \ {0} /\ b \in Nat /\ e \in Nat /\ PMMidpoint = (b + e) \div 2 /\ PMMidpoint \in Int
    BY Constants DEF GInv, Mesh, MeshOf, LongGrid, Ticks, PMMidpoint
  <1>f. \A k, c, d \in Int :
          /\ get_gravkick_factor(c, d) \in Int
          /\ get_hydrokick_factor(c, d) = get_gravkick_factor(c, d)
          /\ (k + get_gravkick_factor(c, d)) \div T = k \div T + (d - c)
          /\ (k - get_gravkick_factor(c, d)) \div T = k \div T - (d - c)
    BY <1>3, FactorsShift, Zenon
  <1>4. e + step \div 2 \in Int /\ (e + (e + step)) \div 2 = e + step \div 2
    BY <1>2, <1>3
  <1>5. ASSUME NEW p \in Particle
        PROVE  /\ kickedPM'[p] \in Int
               /\ PMGRID => kickedPM'[p] \div T = (e + (e + step)) \div 2
    <2>1. kickedPM[p] \in Int /\ (PMGRID => kickedPM[p] \div T = PMMidpoint)
      BY <1>3 DEF Mesh, MeshOf
    <2>2. kickedPM'[p] = kickedPM[p] + get_gravkick_factor(PMMidpoint, e + step \div 2)
      BY <1>1
    <2>3. PICK n \in Int, m \in Int, h \in Int :
            n = kickedPM[p] /\ m = PMMidpoint /\ h = e + step \div 2
      BY <1>3, <1>4, <2>1
    <2>4. /\ get_gravkick_factor(m, h) \in Int
          /\ (n + get_gravkick_factor(m, h)) \div T = n \div T + (h - m)
      BY <1>f
    <2>5. kickedPM'[p] = n + get_gravkick_factor(m, h)
      BY <2>2, <2>3
    <2>6. PICK d \in Int : d = get_gravkick_factor(m, h)
      BY <2>4
    <2>7. kickedPM'[p] \in Int
      BY <2>5, <2>6
    <2>8. PMGRID => n \div T + (h - m) = h
      <3>1. PMGRID => n \div T = m
        BY <2>1, <2>3
      <3> QED BY <3>1
    <2>9. PMGRID => kickedPM'[p] \div T = h
      BY <2>4, <2>5, <2>8
    <2> QED BY <1>4, <2>3, <2>7, <2>9
  <1>6. kickedPM' \in [Particle -> Int]
    BY <1>1, <1>5
  <1>7. LongGrid(PM_Ti_begstep', PM_Ti_endstep')
    BY <1>1, <1>2
  <1>8. PMGRID' = PMGRID
    BY DEF options
  <1> QED BY <1>1, <1>5, <1>6, <1>7, <1>8 DEF Mesh, MeshOf, LongGrid, Ticks

LEMMA HalveMesh ==
  ASSUME GInv, Mesh, HalveLong
  PROVE  Mesh'
  <1> DEFINE T == Timebase_interval
             b == PM_Ti_begstep
             e == PM_Ti_endstep
  <1>1. /\ PM_Ti_begstep' = b \div 2 /\ PM_Ti_endstep' = e \div 2
        /\ kickedPM' = kickedPM /\ PMGRID' = PMGRID
        /\ Timebase_interval' = 2 * T
    BY DEF HalveLong, Halve, options
  <1>2. LongGrid(b \div 2, e \div 2) /\ LongGrid(b, e)
    BY HalfLongGrid DEF Mesh, MeshOf
  <1>3. T \in Nat \ {0} /\ b \in Nat /\ e \in Nat
    BY <1>2, Constants DEF GInv, LongGrid, Ticks
  <1>4. (b \div 2 + e \div 2) \div 2 = ((b + e) \div 2) \div 2
    BY <1>2, <1>3, MidpointHalf DEF LongGrid
  <1>5. ASSUME NEW p \in Particle
        PROVE  PMGRID => kickedPM[p] \div (2 * T) = (b \div 2 + e \div 2) \div 2
    <2>1. kickedPM[p] \in Int
      BY DEF Mesh, MeshOf
    <2>2. kickedPM[p] \div (2 * T) = (kickedPM[p] \div T) \div 2
      BY <1>3, <2>1, DivTwice
    <2>3. PMGRID => kickedPM[p] \div T = (b + e) \div 2
      BY DEF Mesh, MeshOf
    <2> QED BY <1>4, <2>2, <2>3
  <1>6. kickedPM \in [Particle -> Int]
    BY DEF Mesh, MeshOf
  <1> HIDE DEF b, e, T
  <1>7. LongGrid(PM_Ti_begstep, PM_Ti_endstep)'
    BY <1>1, <1>2 DEF LongGrid, Ticks
  <1>8. \A p \in Particle :
          PMGRID => kickedPM[p] \div Timebase_interval' = (PM_Ti_begstep' + PM_Ti_endstep') \div 2
    BY <1>1, <1>5
  <1> QED BY <1>1, <1>6, <1>7, <1>8 DEF Mesh, MeshOf

-------------------------------------------------------------------------------
(* What the other actions leave alone.                                     *)

motion == <<options, longRange, velocities, line, Timebase_interval, Ti_Current, min_glob,
            Flag_FullStep, NumForcesSinceLastDomainDecomp>>

LEMMA StillSteps ==
  ASSUME ContinueKept \/ FinishKept \/ ReadjustedKept \/ InterruptKept \/ CrashKept \/ UNCHANGED kdvars
  PROVE  UNCHANGED motion
  <1>1. CASE ContinueKept
    BY <1>1 DEF ContinueKept, Continue, Same, motion, span
  <1>2. CASE FinishKept
    BY <1>2 DEF FinishKept, Finish, Same, motion, span
  <1>3. CASE ReadjustedKept
    BY <1>3 DEF ReadjustedKept, Readjusted, Same, motion, span
  <1>4. CASE InterruptKept
    BY <1>4 DEF InterruptKept, Interrupt, Same, motion, span
  <1>5. CASE CrashKept
    BY <1>5 DEF CrashKept, Crash, Same, motion, span
  <1>6. CASE UNCHANGED kdvars
    BY <1>6 DEF kdvars, vars, motion, span
  <1> QED BY <1>1, <1>2, <1>3, <1>4, <1>5, <1>6

LEMMA StillMotion ==
  ASSUME Mesh, Predicted, Nodes, UNCHANGED motion
  PROVE  Mesh' /\ Predicted' /\ Nodes'
  <1>1. Mesh'
    BY QuietMesh DEF motion
  <1>2. Predicted'
    BY DEF Predicted, PredictedOf, motion, options, velocities
  <1>3. Nodes'
    BY DEF Nodes, NodesOf, motion, longRange, velocities, line
  <1> QED BY <1>1, <1>2, <1>3

LEMMA MeshOption == [KickDriftNext]_kdvars => PMGRID' = PMGRID
  <1> SUFFICES ASSUME [KickDriftNext]_kdvars PROVE UNCHANGED options
    BY DEF options
  <1>1. CASE ContinueKept \/ FinishKept \/ ReadjustedKept \/ InterruptKept \/ CrashKept
             \/ UNCHANGED kdvars
    BY <1>1, StillSteps DEF motion
  <1>2. CASE Synchronise \/ OutputOnTheWay \/ DriftAndCool \/ AdvanceAndKick \/ HalveLong \/ ResumeKept
    BY <1>2 DEF Synchronise, OutputOnTheWay, DriftAndCool, AdvanceAndKick, HalveLong, ResumeKept
  <1> QED BY <1>1, <1>2 DEF KickDriftNext, KickDriftStep

(* A run continued from a pair of images takes over all of it.             *)
LEMMA ResumeMotion ==
  ASSUME Filed, ResumeKept
  PROVE  Mesh' /\ LongAhead' /\ Predicted' /\ Nodes' /\ uncooled' = {} /\ phase' = "readjust"
  <1>1. PICK i, k : saved = <<i>> /\ kept = <<k>> /\ PairSound(i, k)
    <2>1. {kept[n] : n \in DOMAIN kept} # {}
      BY DEF ResumeKept
    <2> QED BY <2>1 DEF Filed
  <1>2. {saved[n] : n \in DOMAIN saved} = {i} /\ {kept[n] : n \in DOMAIN kept} = {k}
    <2>1. ASSUME NEW x
          PROVE  {<<x>>[n] : n \in DOMAIN <<x>>} = {x}
      <3>1. DOMAIN <<x>> = {1} /\ <<x>>[1] = x
        OBVIOUS
      <3> QED BY <3>1
    <2> QED BY <1>1, <2>1
  <1>3. /\ Ti_begstep' = i.Ti_begstep /\ Ti_endstep' = i.Ti_endstep
        /\ kicked' = i.kicked /\ Ti_Current' = i.Ti_Current
        /\ Timebase_interval' = i.Timebase_interval
        /\ phase' = "readjust"
    BY <1>2 DEF ResumeKept, Resume
  <1>4. /\ PM_Ti_begstep' = k.PM_Ti_begstep /\ PM_Ti_endstep' = k.PM_Ti_endstep
        /\ kickedPM' = k.kickedPM
        /\ VelPred' = k.VelPred /\ NodeVel' = k.NodeVel /\ uncooled' = k.uncooled
        /\ NumForcesSinceLastDomainDecomp' = k.forces
        /\ PMGRID' = PMGRID
    BY <1>2 DEF ResumeKept, options
  <1>5. Mesh'
    BY <1>1, <1>3, <1>4 DEF PairSound, Mesh, MeshOf, LongGrid, Ticks
  <1>6. Predicted'
    BY <1>1, <1>3, <1>4 DEF PairSound, Predicted, PredictedOf
  <1>7. Nodes'
    BY <1>1, <1>3, <1>4 DEF PairSound, Nodes, NodesOf
  <1>8. LongAhead'
    BY <1>1, <1>3, <1>4 DEF PairSound, LongAhead
  <1> QED BY <1>1, <1>3, <1>4, <1>5, <1>6, <1>7, <1>8 DEF PairSound

LEMMA MeshStep == GInv /\ Mesh /\ Filed /\ [KickDriftNext]_kdvars => Mesh'
  <1> SUFFICES ASSUME GInv, Mesh, Filed, [KickDriftNext]_kdvars PROVE Mesh'
    OBVIOUS
  <1>1. CASE ContinueKept \/ FinishKept \/ ReadjustedKept \/ InterruptKept \/ CrashKept
             \/ UNCHANGED kdvars
    BY <1>1, StillSteps, QuietMesh DEF motion
  <1>2. CASE Synchronise
    BY <1>2, QuietMesh DEF Synchronise, span
  <1>3. CASE OutputOnTheWay
    BY <1>3, QuietMesh DEF OutputOnTheWay, Output, span
  <1>4. CASE DriftAndCool
    BY <1>4, QuietMesh DEF DriftAndCool, Drift, span
  <1>5. CASE AdvanceAndKick
    <2>1. UNCHANGED <<options, Timebase_interval>>
      BY <1>5 DEF AdvanceAndKick, AdvanceAndFindTimesteps, span
    <2>2. CASE KickIsDue
      <3>1. LongKick /\ Ti_Current = PM_Ti_endstep
        BY <1>5, <2>2 DEF AdvanceAndKick, KickIsDue
      <3> QED BY <2>1, <3>1, LongKickMesh
    <2>3. CASE ~KickIsDue
      <3>1. UNCHANGED longRange
        BY <1>5, <2>3 DEF AdvanceAndKick, ShortKick
      <3> QED BY <2>1, <3>1, QuietMesh
    <2> QED BY <2>2, <2>3
  <1>6. CASE HalveLong
    BY <1>6, HalveMesh
  <1>7. CASE ResumeKept
    BY <1>7, ResumeMotion
  <1> QED BY <1>1, <1>2, <1>3, <1>4, <1>5, <1>6, <1>7 DEF KickDriftNext, KickDriftStep

LEMMA LongAheadStep == GInv /\ Mesh /\ LongAhead /\ Filed /\ [KickDriftNext]_kdvars => LongAhead'
  <1> SUFFICES ASSUME GInv, Mesh, LongAhead, Filed, [KickDriftNext]_kdvars PROVE LongAhead'
    OBVIOUS
  <1>0. /\ PMGRID' = PMGRID
        /\ PM_Ti_endstep \in Nat /\ Ti_Current \in Nat /\ min_glob \in Nat /\ Ti_nextoutput \in Nat
    BY MeshOption, Numbers, Constants DEF Mesh, MeshOf, LongGrid, Ticks
  <1>1. CASE ContinueKept \/ FinishKept \/ ReadjustedKept \/ InterruptKept \/ CrashKept
    <2>1. UNCHANGED motion
      BY <1>1, StillSteps
    <2>2. phase' # "output"
      BY <1>1 DEF ContinueKept, Continue, FinishKept, Finish, ReadjustedKept, Readjusted,
                  InterruptKept, Interrupt, CrashKept, Crash
    <2> QED BY <2>1, <2>2 DEF motion, options, longRange, LongAhead
  <1>2. CASE UNCHANGED kdvars
    BY <1>2 DEF kdvars, vars, options, longRange, LongAhead
  <1>3. CASE Synchronise
    <2>1. PICK m \in EndSteps : min_glob' = IF LongRangeDue(m) THEN PM_Ti_endstep ELSE m
      BY <1>3 DEF Synchronise
    <2>2. m \in Nat
      <3>1. m \in Ticks
        BY <2>1 DEF EndSteps, GInv, TypeOK
      <3> QED BY <3>1, Constants DEF Ticks
    <2>3. PMGRID => min_glob' <= PM_Ti_endstep
      BY <1>0, <2>1, <2>2 DEF LongRangeDue
    <2>4. Ti_Current' = Ti_Current /\ PM_Ti_endstep' = PM_Ti_endstep
      BY <1>3 DEF Synchronise, longRange
    <2> QED BY <1>0, <2>3, <2>4 DEF LongAhead
  <1>4. CASE OutputOnTheWay
    <2>1. /\ phase = "output" /\ Ti_nextoutput <= min_glob /\ Ti_Current' = Ti_nextoutput
          /\ min_glob' = min_glob /\ PM_Ti_endstep' = PM_Ti_endstep
      BY <1>0, <1>4 DEF OutputOnTheWay, Output, longRange
    <2> QED BY <1>0, <2>1 DEF LongAhead
  <1>5. CASE DriftAndCool
    <2>1. /\ phase = "output" /\ phase' = "advance" /\ Ti_Current' = min_glob
          /\ PM_Ti_endstep' = PM_Ti_endstep
      BY <1>5 DEF DriftAndCool, Drift, longRange
    <2> QED BY <1>0, <2>1 DEF LongAhead
  <1>6. CASE AdvanceAndKick
    <2>1. phase' = "check" /\ Ti_Current' = Ti_Current
      BY <1>6 DEF AdvanceAndKick, AdvanceAndFindTimesteps
    <2>2. CASE KickIsDue
      <3>1. Ti_Current = PM_Ti_endstep /\ LongKick
        BY <1>6, <2>2 DEF AdvanceAndKick, KickIsDue
      <3>2. PICK step \in LongSteps : PM_Ti_endstep' = PM_Ti_endstep + step
        BY <3>1 DEF LongKick
      <3>3. step \in Nat
        BY <3>1, LongStepFits DEF Mesh, MeshOf
      <3> QED BY <1>0, <2>1, <3>1, <3>2, <3>3 DEF LongAhead
    <2>3. CASE ~KickIsDue
      <3>1. PM_Ti_endstep' = PM_Ti_endstep
        BY <1>6, <2>3 DEF AdvanceAndKick, ShortKick, longRange
      <3> QED BY <1>0, <2>1, <3>1 DEF LongAhead
    <2> QED BY <2>2, <2>3
  <1>7. CASE HalveLong
    <2>1. /\ phase' = "readjust" /\ Ti_Current' = Ti_Current \div 2
          /\ PM_Ti_endstep' = PM_Ti_endstep \div 2
      BY <1>7 DEF HalveLong, Halve
    <2>2. \A m, n \in Nat : m <= n => m \div 2 <= n \div 2
      OBVIOUS
    <2> QED BY <1>0, <2>1, <2>2 DEF LongAhead
  <1>8. CASE ResumeKept
    BY <1>8, ResumeMotion
  <1> QED
    BY <1>1, <1>2, <1>3, <1>4, <1>5, <1>6, <1>7, <1>8 DEF KickDriftNext, KickDriftStep

-------------------------------------------------------------------------------
(* The velocities of gas belong to the present time.                       *)

LEMMA DriftPredicted ==
  ASSUME GInv, Predicted, NEW ti \in Int, VelPred' = Drifted(Ti_Current, ti), Ti_Current' = ti,
         PMGRID' = PMGRID, UNCHANGED Timebase_interval
  PROVE  Predicted'
  <1>1. Timebase_interval \in Nat \ {0} /\ Ti_Current \in Int
    BY Numbers DEF GInv
  <1>f. \A k, a, b \in Int :
          /\ get_gravkick_factor(a, b) \in Int
          /\ get_hydrokick_factor(a, b) = get_gravkick_factor(a, b)
          /\ (k + get_gravkick_factor(a, b)) \div Timebase_interval = k \div Timebase_interval + (b - a)
          /\ (k - get_gravkick_factor(a, b)) \div Timebase_interval = k \div Timebase_interval - (b - a)
    BY <1>1, FactorsShift, Zenon
  <1>2. PICK d : d = get_gravkick_factor(Ti_Current, ti)
    OBVIOUS
  <1>3. /\ d \in Int /\ d = get_hydrokick_factor(Ti_Current, ti)
        /\ \A n \in Int : (n + d) \div Timebase_interval = n \div Timebase_interval + (ti - Ti_Current)
    BY <1>1, <1>2, <1>f
  <1>4. VelPred' = [p \in Gas |-> [grav |-> VelPred[p].grav + d, hydro |-> VelPred[p].hydro + d,
                                   pm |-> VelPred[p].pm + (IF PMGRID THEN d ELSE 0)]]
    BY <1>2, <1>3 DEF Drifted
  <1>5. ASSUME NEW p \in Gas
        PROVE  /\ VelPred'[p] \in [grav : Int, hydro : Int, pm : Int]
               /\ VelPred'[p].grav \div Timebase_interval = ti
               /\ VelPred'[p].hydro \div Timebase_interval = ti
               /\ PMGRID => VelPred'[p].pm \div Timebase_interval = ti
    <2>1. VelPred[p] \in [grav : Int, hydro : Int, pm : Int]
      BY DEF Predicted, PredictedOf
    <2>2. PICK g \in Int, h \in Int, m \in Int :
            g = VelPred[p].grav /\ h = VelPred[p].hydro /\ m = VelPred[p].pm
      BY <2>1
    <2>3. /\ g \div Timebase_interval = Ti_Current /\ h \div Timebase_interval = Ti_Current
          /\ PMGRID => m \div Timebase_interval = Ti_Current
      BY <2>2 DEF Predicted, PredictedOf
    <2>4. VelPred'[p] = [grav |-> g + d, hydro |-> h + d, pm |-> m + (IF PMGRID THEN d ELSE 0)]
      BY <1>4, <2>2
    <2>5. g + d \in Int /\ h + d \in Int /\ m + (IF PMGRID THEN d ELSE 0) \in Int
      BY <1>3
    <2>6. Ti_Current + (ti - Ti_Current) = ti
      BY <1>1
    <2>7. (g + d) \div Timebase_interval = ti /\ (h + d) \div Timebase_interval = ti
      BY <1>3, <2>3, <2>6
    <2>8. PMGRID => (m + d) \div Timebase_interval = ti
      BY <1>3, <2>3, <2>6
    <2> QED BY <2>4, <2>5, <2>7, <2>8
  <1>6. VelPred' \in [Gas -> [grav : Int, hydro : Int, pm : Int]]
    BY <1>4, <1>5
  <1> QED BY <1>5, <1>6 DEF Predicted, PredictedOf

(* What is known of the steps after advance_and_find_timesteps.            *)
LEMMA AdvancedSteps ==
  ASSUME GInv, KInv, AdvanceAndFindTimesteps
  PROVE  /\ \A p \in Particle :
              /\ Ti_begstep'[p] \in Int /\ Ti_endstep'[p] \in Int /\ kicked'[p] \in Int
              /\ kicked'[p] \div Timebase_interval = (Ti_begstep'[p] + Ti_endstep'[p]) \div 2
         /\ \A p \in Active : /\ Ti_endstep[p] = Ti_Current /\ Ti_begstep'[p] = Ti_Current
                              /\ Ti_endstep'[p] >= Ti_Current
  <1>1. PICK step \in [Active -> UNION {NewSteps(p) : p \in Active}] :
          /\ \A p \in Active : step[p] \in NewSteps(p)
          /\ Ti_begstep' = [p \in Particle |-> IF p \in Active THEN Ti_endstep[p] ELSE Ti_begstep[p]]
          /\ Ti_endstep' = [p \in Particle |-> IF p \in Active THEN Ti_endstep[p] + step[p]
                                               ELSE Ti_endstep[p]]
    BY DEF AdvanceAndFindTimesteps
  <1>2. Ti_begstep' \in [Particle -> Ticks] /\ Ti_endstep' \in [Particle -> Ticks]
    BY AdvanceGrid
  <1>3. \A n \in Ticks : n \in Int
    BY DEF Ticks
  <1>4. KInv' /\ Timebase_interval' = Timebase_interval
    BY AdvanceKInv DEF AdvanceAndFindTimesteps, span
  <1>5. \A p \in Active : /\ Ti_endstep[p] = Ti_Current /\ Ti_begstep'[p] = Ti_Current
                          /\ Ti_endstep'[p] >= Ti_Current
    <2> SUFFICES ASSUME NEW p \in Active
                 PROVE  /\ Ti_endstep[p] = Ti_Current /\ Ti_begstep'[p] = Ti_Current
                        /\ Ti_endstep'[p] >= Ti_Current
      OBVIOUS
    <2>1. p \in Particle /\ Ti_endstep[p] = Ti_Current
      BY DEF Active
    <2>2. step[p] \in Nat
      BY <1>1, NewStepFits DEF GInv
    <2> QED BY <1>1, <2>1, <2>2, Numbers
  <1> QED BY <1>2, <1>3, <1>4, <1>5 DEF KInv, KickedToMidpoint, Midpoint

(* Back from the middle of a new step to where it begins.                  *)
LEMMA BackToBegin ==
  ASSUME Timebase_interval \in Nat \ {0}, NEW now \in Int, NEW end \in Int, NEW n \in Int,
         n \div Timebase_interval = (now + end) \div 2
  PROVE  /\ n - get_gravkick_factor(now, now + (end - now) \div 2) \in Int
         /\ (n - get_gravkick_factor(now, now + (end - now) \div 2)) \div Timebase_interval = now
  <1>1. PICK h \in Int : h = (end - now) \div 2
    OBVIOUS
  <1>2. (now + end) \div 2 = now + h
    BY <1>1
  <1>3. PICK m \in Int : m = now + h
    OBVIOUS
  <1>f. \A k, a, b \in Int :
          /\ get_gravkick_factor(a, b) \in Int
          /\ get_hydrokick_factor(a, b) = get_gravkick_factor(a, b)
          /\ (k + get_gravkick_factor(a, b)) \div Timebase_interval = k \div Timebase_interval + (b - a)
          /\ (k - get_gravkick_factor(a, b)) \div Timebase_interval = k \div Timebase_interval - (b - a)
    BY FactorsShift, Zenon
  <1>g. /\ get_gravkick_factor(now, m) \in Int
        /\ (n - get_gravkick_factor(now, m)) \div Timebase_interval
             = n \div Timebase_interval - (m - now)
    BY <1>f
  <1>4. /\ get_gravkick_factor(now, now + h) \in Int
        /\ (n - get_gravkick_factor(now, now + h)) \div Timebase_interval
             = n \div Timebase_interval - ((now + h) - now)
    BY <1>3, <1>g
  <1>5. n - get_gravkick_factor(now, now + h) \in Int
    BY <1>4
  <1>6. (now + h) - ((now + h) - now) = now
    OBVIOUS
  <1> QED BY <1>1, <1>2, <1>4, <1>5, <1>6

LEMMA ShortKickPredicted ==
  ASSUME GInv, KInv, Mesh, Predicted, AdvanceAndFindTimesteps, ShortKick, PMGRID' = PMGRID
  PROVE  Predicted'
  <1>1. /\ Timebase_interval \in Nat \ {0} /\ Ti_Current \in Int
        /\ Ti_Current' = Ti_Current /\ Timebase_interval' = Timebase_interval
    BY Numbers DEF GInv, AdvanceAndFindTimesteps, span
  <1>f. \A n, a, b \in Int :
          /\ get_gravkick_factor(a, b) \in Int
          /\ get_hydrokick_factor(a, b) = get_gravkick_factor(a, b)
          /\ (n + get_gravkick_factor(a, b)) \div Timebase_interval = n \div Timebase_interval + (b - a)
          /\ (n - get_gravkick_factor(a, b)) \div Timebase_interval = n \div Timebase_interval - (b - a)
    BY <1>1, FactorsShift, Zenon
  <1>2. VelPred' = [p \in Gas |-> IF p \in Active THEN KickedGas(p) ELSE VelPred[p]]
    BY DEF ShortKick
  <1>3. ASSUME NEW p \in Gas
        PROVE  /\ VelPred'[p] \in [grav : Int, hydro : Int, pm : Int]
               /\ VelPred'[p].grav \div Timebase_interval = Ti_Current
               /\ VelPred'[p].hydro \div Timebase_interval = Ti_Current
               /\ PMGRID => VelPred'[p].pm \div Timebase_interval = Ti_Current
    <2>0. p \in Particle
      BY GasAssumption
    <2>1. CASE p \notin Active
      BY <1>2, <2>1 DEF Predicted, PredictedOf
    <2>2. CASE p \in Active
      <3>1. PICK n \in Int, e \in Int : n = kicked'[p] /\ e = Ti_endstep'[p]
        BY <2>0, AdvancedSteps
      <3>2. /\ Ti_endstep[p] = Ti_Current /\ Ti_begstep'[p] = Ti_Current
            /\ n \div Timebase_interval = (Ti_Current + e) \div 2
        BY <2>0, <2>2, <3>1, AdvancedSteps
      <3>3. PICK now \in Int : now = Ti_Current
        BY <1>1
      <3>4. PICK g : g = n - get_gravkick_factor(now, now + (e - now) \div 2)
        OBVIOUS
      <3>5. g \in Int /\ g \div Timebase_interval = now
        BY <1>1, <3>2, <3>3, <3>4, BackToBegin
      <3>6. get_hydrokick_factor(now, now + (e - now) \div 2) = get_gravkick_factor(now, now + (e - now) \div 2)
        <4>1. now + (e - now) \div 2 \in Int
          OBVIOUS
        <4> QED BY <1>1, <4>1, <1>f
      <3>7. PICK m : m = kickedPM[p] + (IF PMGRID THEN get_gravkick_factor(PMMidpoint, now) ELSE 0)
        OBVIOUS
      <3>8. KickedGas(p) = [grav |-> g, hydro |-> g, pm |-> m]
        BY <3>1, <3>2, <3>3, <3>4, <3>6, <3>7 DEF KickedGas
      <3>9. m \in Int /\ (PMGRID => m \div Timebase_interval = now)
        <4>1. PICK k \in Int, mid \in Int : k = kickedPM[p] /\ mid = PMMidpoint
          BY <2>0, Constants DEF Mesh, MeshOf, LongGrid, Ticks, PMMidpoint
        <4>2. PMGRID => k \div Timebase_interval = mid
          BY <2>0, <4>1 DEF Mesh, MeshOf, PMMidpoint
        <4>3. /\ get_gravkick_factor(mid, now) \in Int
              /\ (k + get_gravkick_factor(mid, now)) \div Timebase_interval
                   = k \div Timebase_interval + (now - mid)
          BY <1>1, <1>f
        <4>4. mid + (now - mid) = now
          OBVIOUS
        <4>5. k + get_gravkick_factor(mid, now) \in Int
          BY <4>3
        <4>6. PMGRID => (k + get_gravkick_factor(mid, now)) \div Timebase_interval = now
          BY <4>2, <4>3, <4>4
        <4> QED BY <3>7, <4>1, <4>5, <4>6
      <3>10. VelPred'[p] = [grav |-> g, hydro |-> g, pm |-> m]
        BY <1>2, <2>2, <3>8
      <3> QED BY <3>3, <3>5, <3>9, <3>10
    <2> QED BY <2>1, <2>2
  <1>4. VelPred' \in [Gas -> [grav : Int, hydro : Int, pm : Int]]
    BY <1>2, <1>3
  <1> QED BY <1>1, <1>3, <1>4 DEF Predicted, PredictedOf

LEMMA LongKickPredicted ==
  ASSUME GInv, KInv, Mesh', Ti_Current = PM_Ti_endstep, AdvanceAndFindTimesteps, LongKick,
         PMGRID' = PMGRID
  PROVE  Predicted'
  <1>1. /\ Timebase_interval \in Nat \ {0} /\ Ti_Current \in Int
        /\ Ti_Current' = Ti_Current /\ Timebase_interval' = Timebase_interval
    BY Numbers DEF GInv, AdvanceAndFindTimesteps, span
  <1>f. \A n, a, b \in Int :
          /\ get_gravkick_factor(a, b) \in Int
          /\ get_hydrokick_factor(a, b) = get_gravkick_factor(a, b)
          /\ (n + get_gravkick_factor(a, b)) \div Timebase_interval = n \div Timebase_interval + (b - a)
          /\ (n - get_gravkick_factor(a, b)) \div Timebase_interval = n \div Timebase_interval - (b - a)
    BY <1>1, FactorsShift, Zenon
  <1>2. VelPred' = [p \in Gas |-> KickedByMesh(p)]
    BY DEF LongKick
  <1>3. PICK now \in Int : now = Ti_Current
    BY <1>1
  <1>4. PM_Ti_begstep' = now
    BY <1>3 DEF LongKick
  <1>5. ASSUME NEW p \in Gas
        PROVE  /\ VelPred'[p] \in [grav : Int, hydro : Int, pm : Int]
               /\ VelPred'[p].grav \div Timebase_interval = now
               /\ VelPred'[p].hydro \div Timebase_interval = now
               /\ PMGRID => VelPred'[p].pm \div Timebase_interval = now
    <2>0. p \in Particle
      BY GasAssumption
    <2>1. PICK n \in Int, b \in Int, e \in Int :
            n = kicked'[p] /\ b = Ti_begstep'[p] /\ e = Ti_endstep'[p]
      BY <2>0, AdvancedSteps
    <2>2. PICK mid \in Int : mid = (b + e) \div 2
      OBVIOUS
    <2>3. n \div Timebase_interval = mid
      BY <2>0, <2>1, <2>2, AdvancedSteps
    <2>4. PICK d1 : d1 = get_gravkick_factor(b, now)
      OBVIOUS
    <2>5. PICK d2 : d2 = get_gravkick_factor(b, mid)
      OBVIOUS
    <2>6. d1 \in Int /\ (n + d1) \div Timebase_interval = mid + (now - b)
      <3>1. /\ get_gravkick_factor(b, now) \in Int
            /\ (n + get_gravkick_factor(b, now)) \div Timebase_interval
                 = n \div Timebase_interval + (now - b)
        BY <1>f
      <3> QED BY <2>3, <2>4, <3>1
    <2>7. PICK x \in Int : x = n + d1
      BY <2>6
    <2>8. d2 \in Int /\ (x - d2) \div Timebase_interval = x \div Timebase_interval - (mid - b)
      BY <1>1, <2>5, <1>f
    <2>9. mid + (now - b) - (mid - b) = now
      OBVIOUS
    <2>10. n + d1 - d2 \in Int /\ (n + d1 - d2) \div Timebase_interval = now
      <3>1. n + d1 - d2 = x - d2
        BY <2>6, <2>7, <2>8
      <3>2. x - d2 \in Int
        BY <2>8
      <3> QED BY <2>6, <2>7, <2>8, <2>9, <3>1, <3>2
    <2>11. /\ get_hydrokick_factor(b, now) = d1
           /\ get_hydrokick_factor(b, mid) = d2
      BY <1>1, <2>4, <2>5, <1>f
    <2>12. PICK m : m = kickedPM'[p] - get_gravkick_factor(PM_Ti_begstep', PMMidpoint')
      OBVIOUS
    <2>13. KickedByMesh(p) = [grav |-> n + d1 - d2, hydro |-> n + d1 - d2, pm |-> m]
      BY <1>3, <2>1, <2>2, <2>4, <2>5, <2>11, <2>12 DEF KickedByMesh
    <2>14. m \in Int /\ (PMGRID => m \div Timebase_interval = now)
      <3>1. PICK k \in Int, half \in Int : k = kickedPM'[p] /\ half = PMMidpoint'
        <4>1. kickedPM'[p] \in Int
          BY <2>0 DEF Mesh, MeshOf
        <4>2. PM_Ti_begstep' \in Nat /\ PM_Ti_endstep' \in Nat
          BY Constants DEF Mesh, MeshOf, LongGrid, Ticks
        <4>3. PMMidpoint' = (PM_Ti_begstep' + PM_Ti_endstep') \div 2
          BY DEF PMMidpoint
        <4>4. PMMidpoint' \in Int
          BY <4>2, <4>3
        <4> QED BY <4>1, <4>4
      <3>2. PMGRID => k \div Timebase_interval = half
        BY <1>1, <2>0, <3>1 DEF Mesh, MeshOf, PMMidpoint
      <3>3. /\ get_gravkick_factor(now, half) \in Int
            /\ (k - get_gravkick_factor(now, half)) \div Timebase_interval
                 = k \div Timebase_interval - (half - now)
        BY <1>1, <1>f
      <3>4. half - (half - now) = now
        OBVIOUS
      <3>5. k - get_gravkick_factor(now, half) \in Int
        BY <3>3
      <3>6. PMGRID => (k - get_gravkick_factor(now, half)) \div Timebase_interval = now
        BY <3>2, <3>3, <3>4
      <3> QED BY <1>4, <2>12, <3>1, <3>5, <3>6
    <2>15. VelPred'[p] = [grav |-> n + d1 - d2, hydro |-> n + d1 - d2, pm |-> m]
      BY <1>2, <2>13
    <2> QED BY <2>10, <2>14, <2>15
  <1>6. VelPred' \in [Gas -> [grav : Int, hydro : Int, pm : Int]]
    BY <1>2, <1>5
  <1> QED BY <1>1, <1>3, <1>5, <1>6 DEF Predicted, PredictedOf

LEMMA HalvePredicted ==
  ASSUME GInv, Predicted, HalveLong
  PROVE  Predicted'
  <1>1. /\ Timebase_interval' = 2 * Timebase_interval /\ Ti_Current' = Ti_Current \div 2
        /\ VelPred' = VelPred /\ PMGRID' = PMGRID
        /\ Timebase_interval \in Nat \ {0}
    BY DEF GInv, HalveLong, Halve, options, velocities
  <1>2. ASSUME NEW n \in Int, n \div Timebase_interval = Ti_Current
        PROVE  n \div Timebase_interval' = Ti_Current'
    BY <1>1, <1>2, DivTwice
  <1>3. VelPred \in [Gas -> [grav : Int, hydro : Int, pm : Int]]
    BY DEF Predicted, PredictedOf
  <1>4. \A p \in Gas : VelPred[p].grav \in Int /\ VelPred[p].hydro \in Int /\ VelPred[p].pm \in Int
    BY <1>3
  <1>5. \A p \in Gas :
          /\ VelPred'[p].grav \div Timebase_interval' = Ti_Current'
          /\ VelPred'[p].hydro \div Timebase_interval' = Ti_Current'
          /\ PMGRID => VelPred'[p].pm \div Timebase_interval' = Ti_Current'
    BY <1>1, <1>2, <1>4 DEF Predicted, PredictedOf
  <1> QED BY <1>1, <1>3, <1>5 DEF Predicted, PredictedOf

LEMMA PredictedStep ==
  GInv /\ KInv /\ Mesh /\ Mesh' /\ Predicted /\ Nodes /\ Filed /\ [KickDriftNext]_kdvars => Predicted'
  <1> SUFFICES ASSUME GInv, KInv, Mesh, Mesh', Predicted, Nodes, Filed, [KickDriftNext]_kdvars
               PROVE  Predicted'
    OBVIOUS
  <1>0. PMGRID' = PMGRID
    BY MeshOption
  <1>1. CASE ContinueKept \/ FinishKept \/ ReadjustedKept \/ InterruptKept \/ CrashKept
             \/ UNCHANGED kdvars
    BY <1>1, StillSteps, StillMotion
  <1>2. CASE Synchronise
    BY <1>2 DEF Synchronise, Predicted, PredictedOf, span, options, velocities
  <1>3. CASE OutputOnTheWay
    <2>1. Ti_nextoutput \in Int
      BY Numbers
    <2>2. VelPred' = Drifted(Ti_Current, Ti_nextoutput) /\ Ti_Current' = Ti_nextoutput
          /\ UNCHANGED Timebase_interval
      BY <1>3 DEF OutputOnTheWay, Output, span
    <2> QED BY <1>0, <2>1, <2>2, DriftPredicted
  <1>4. CASE DriftAndCool
    <2>1. min_glob \in Int
      BY Numbers
    <2>2. VelPred' = Drifted(Ti_Current, min_glob) /\ Ti_Current' = min_glob
          /\ UNCHANGED Timebase_interval
      BY <1>4 DEF DriftAndCool, Drift, span
    <2> QED BY <1>0, <2>1, <2>2, DriftPredicted
  <1>5. CASE AdvanceAndKick
    <2>1. AdvanceAndFindTimesteps
      BY <1>5 DEF AdvanceAndKick
    <2>2. CASE KickIsDue
      <3>1. LongKick /\ Ti_Current = PM_Ti_endstep
        BY <1>5, <2>2 DEF AdvanceAndKick, KickIsDue
      <3> QED BY <1>0, <2>1, <3>1, LongKickPredicted
    <2>3. CASE ~KickIsDue
      <3>1. ShortKick
        BY <1>5, <2>3 DEF AdvanceAndKick
      <3> QED BY <1>0, <2>1, <3>1, ShortKickPredicted
    <2> QED BY <2>2, <2>3
  <1>6. CASE HalveLong
    BY <1>6, HalvePredicted
  <1>7. CASE ResumeKept
    BY <1>7, ResumeMotion
  <1> QED BY <1>1, <1>2, <1>3, <1>4, <1>5, <1>6, <1>7 DEF KickDriftNext, KickDriftStep

-------------------------------------------------------------------------------
(* The nodes of the tree.                                                  *)

LEMMA NewTreeNodes ==
  ASSUME Nodes, NEW forces \in Nat, NEW missed, NewTree(forces, missed), UNCHANGED <<kicked, kickedPM>>,
         forces <= UpdateLimit => forces = NumForcesSinceLastDomainDecomp
  PROVE  Nodes'
  <1>1. CASE forces > UpdateLimit \/ (PMGRID /\ PM_Ti_endstep = Ti_Current')
    <2>1. /\ NodeVel' = [p \in Particle |-> [tree |-> kicked[p], pm |-> kickedPM[p]]]
          /\ NumForcesSinceLastDomainDecomp' = 0
      BY <1>1 DEF NewTree
    <2> QED BY <2>1 DEF Nodes, NodesOf
  <1>2. CASE ~(forces > UpdateLimit \/ (PMGRID /\ PM_Ti_endstep = Ti_Current'))
    <2>1. NodeVel' = NodeVel /\ NumForcesSinceLastDomainDecomp' = forces
      BY <1>2 DEF NewTree
    <2>2. forces = NumForcesSinceLastDomainDecomp
      BY <1>2, GasAssumption
    <2> QED BY <2>1, <2>2 DEF Nodes, NodesOf
  <1> QED BY <1>1, <1>2

LEMMA KickedNodes ==
  ASSUME GInv, KInv, Mesh, Nodes, AdvanceAndKick
  PROVE  Nodes'
  <1>1. /\ AdvanceAndFindTimesteps
        /\ NumForcesSinceLastDomainDecomp' = ForcesAfter
        /\ KickNodes(ForcesAfter)
    BY DEF AdvanceAndKick
  <1>2. UpdateLimit \in Nat /\ NumForcesSinceLastDomainDecomp \in Nat
    BY GasAssumption DEF Nodes, NodesOf
  <1>3. CASE KickIsDue
    <2>1. ForcesAfter = 1 + UpdateLimit
      BY <1>3 DEF ForcesAfter
    <2> QED BY <1>1, <1>2, <2>1 DEF Nodes, NodesOf
  <1>4. CASE ~KickIsDue
    <2>1. ForcesAfter = NumForcesSinceLastDomainDecomp
      BY <1>4 DEF ForcesAfter
    <2>2. kickedPM' = kickedPM
      BY <1>4 DEF AdvanceAndKick, ShortKick, longRange
    <2> SUFFICES ASSUME ForcesAfter <= UpdateLimit
                 PROVE  NodeVel' = [p \in Particle |-> [tree |-> kicked'[p], pm |-> kickedPM[p]]]
      BY <1>1, <1>2, <2>1, <2>2 DEF Nodes, NodesOf
    <2>3. NodeVel = [p \in Particle |-> [tree |-> kicked[p], pm |-> kickedPM[p]]]
      BY <2>1 DEF Nodes, NodesOf
    <2>4. NodeVel' = [p \in Particle |->
                        IF p \in Active
                        THEN [NodeVel[p] EXCEPT !.tree = @ + (kicked'[p] - kicked[p])] ELSE NodeVel[p]]
      BY <1>1 DEF KickNodes
    <2>5. ASSUME NEW p \in Particle
          PROVE  NodeVel'[p] = [tree |-> kicked'[p], pm |-> kickedPM[p]]
      <3>1. CASE p \in Active
        <4>1. NodeVel'[p] = [[tree |-> kicked[p], pm |-> kickedPM[p]]
                               EXCEPT !.tree = @ + (kicked'[p] - kicked[p])]
          BY <2>3, <2>4, <3>1
        <4>2. kicked[p] \in Int /\ kicked'[p] \in Int
          BY <1>1, AdvancedSteps DEF KInv
        <4>3. kicked[p] + (kicked'[p] - kicked[p]) = kicked'[p]
          BY <4>2
        <4> QED BY <4>1, <4>3
      <3>2. CASE p \notin Active
        <4>1. kicked'[p] = kicked[p]
          BY <1>1, <3>2 DEF AdvanceAndFindTimesteps
        <4> QED BY <2>3, <2>4, <3>2, <4>1
      <3> QED BY <3>1, <3>2
    <2> QED BY <2>4, <2>5
  <1> QED BY <1>3, <1>4

LEMMA NodesStep == GInv /\ KInv /\ Mesh /\ Predicted /\ Nodes /\ Filed /\ [KickDriftNext]_kdvars => Nodes'
  <1> SUFFICES ASSUME GInv, KInv, Mesh, Predicted, Nodes, Filed, [KickDriftNext]_kdvars PROVE Nodes'
    OBVIOUS
  <1>0. UpdateLimit \in Nat /\ NumForcesSinceLastDomainDecomp \in Nat
    BY GasAssumption DEF Nodes, NodesOf
  <1>1. CASE ContinueKept \/ FinishKept \/ ReadjustedKept \/ InterruptKept \/ CrashKept
             \/ UNCHANGED kdvars
    BY <1>1, StillSteps, StillMotion
  <1>2. CASE Synchronise
    <2>1. SumOf(NumForceUpdate') \in Nat
      BY <1>2, CountedAtSyncPoint DEF GInv, Synchronise
    <2>2. /\ NumForcesSinceLastDomainDecomp' = NumForcesSinceLastDomainDecomp + SumOf(NumForceUpdate')
          /\ NodeVel' = NodeVel /\ kicked' = kicked /\ kickedPM' = kickedPM
      BY <1>2 DEF Synchronise, CountForces, velocities, line, longRange
    <2> QED BY <1>0, <2>1, <2>2 DEF Nodes, NodesOf
  <1>3. CASE OutputOnTheWay
    <2>1. NewTree(1 + UpdateLimit, nodesMissed) /\ UNCHANGED <<kicked, kickedPM>>
      BY <1>3 DEF OutputOnTheWay, Output, line, longRange
    <2> QED BY <1>0, <2>1, NewTreeNodes
  <1>4. CASE DriftAndCool
    <2>1. NewTree(NumForcesSinceLastDomainDecomp, AfterCooling) /\ UNCHANGED <<kicked, kickedPM>>
      BY <1>4 DEF DriftAndCool, Drift, line, longRange
    <2> QED BY <1>0, <2>1, NewTreeNodes
  <1>5. CASE AdvanceAndKick
    BY <1>5, KickedNodes
  <1>6. CASE HalveLong
    BY <1>6 DEF HalveLong, Halve, Nodes, NodesOf, velocities
  <1>7. CASE ResumeKept
    BY <1>7, ResumeMotion
  <1> QED BY <1>1, <1>2, <1>3, <1>4, <1>5, <1>6, <1>7 DEF KickDriftNext, KickDriftStep

-------------------------------------------------------------------------------
(* Full steps and cooling.                                                 *)

LEMMA SynchroniseFull ==
  ASSUME GInv, Mesh, Synchronise
  PROVE  FullStep'
  <1>1. PICK m \in EndSteps :
          /\ \A e \in EndSteps : m <= e
          /\ min_glob' = IF LongRangeDue(m) THEN PM_Ti_endstep ELSE m
          /\ Flag_FullStep' = (LongRangeDue(m) \/ \A p \in Particle : Ti_endstep[p] <= m)
    BY DEF Synchronise
  <1>2. PMGRID' = PMGRID /\ PM_Ti_endstep' = PM_Ti_endstep /\ Ti_endstep' = Ti_endstep
    BY DEF Synchronise, options, longRange, line
  <1>3. CASE LongRangeDue(m)
    BY <1>1, <1>2, <1>3 DEF LongRangeDue, FullStep
  <1>4. CASE ~LongRangeDue(m)
    <2>1. \A p \in Particle : Ti_endstep[p] \in EndSteps
      BY DEF EndSteps
    <2>2. m \in Int
      <3>1. m \in Ticks
        BY <1>1 DEF EndSteps, GInv, TypeOK
      <3> QED BY <3>1 DEF Ticks
    <2>3. Flag_FullStep' => \A p \in Particle : Ti_endstep[p] = m
      <3>1. \A p \in Particle : Ti_endstep[p] \in Int /\ m <= Ti_endstep[p]
        BY <1>1, <2>1, Numbers
      <3>2. Flag_FullStep' => \A p \in Particle : Ti_endstep[p] <= m
        BY <1>1, <1>4, Zenon
      <3>3. \A p \in Particle : Ti_endstep[p] <= m => Ti_endstep[p] = m
        BY <2>2, <3>1
      <3> QED BY <3>2, <3>3, Zenon
    <2> QED BY <1>1, <1>2, <1>4, <2>3 DEF FullStep
  <1> QED BY <1>3, <1>4

(* What happens to the cooled gas at the end of a step.                    *)
LEMMA KickedGasCooled ==
  ASSUME FullStep, Cooled, AdvanceAndKick
  PROVE  uncooled' = {}
  <1>1. phase = "advance"
    BY DEF AdvanceAndKick, AdvanceAndFindTimesteps
  <1>2. Ti_Current = min_glob /\ (uncooled = {} \/ (uncooled = Gas /\ Flag_FullStep))
    BY <1>1 DEF Cooled
  <1>3. CASE KickIsDue
    BY <1>3 DEF AdvanceAndKick, LongKick
  <1>4. CASE ~KickIsDue
    <2>1. uncooled' = uncooled \ Active
      BY <1>4 DEF AdvanceAndKick, ShortKick
    <2>2. CASE uncooled = {}
      BY <2>1, <2>2
    <2>3. CASE uncooled = Gas /\ Flag_FullStep
      <3>1. \A p \in Particle : Ti_endstep[p] = min_glob
        BY <1>1, <1>2, <1>4, <2>3 DEF FullStep, KickIsDue
      <3>2. Gas \subseteq Active
        BY <1>2, <3>1, GasAssumption DEF Active
      <3> QED BY <2>1, <2>3, <3>2
    <2> QED BY <1>2, <2>2, <2>3
  <1> QED BY <1>3, <1>4

LEMMA CooledStep ==
  GInv /\ Mesh /\ FullStep /\ Cooled /\ Filed /\ [KickDriftNext]_kdvars => FullStep' /\ Cooled'
  <1> SUFFICES ASSUME GInv, Mesh, FullStep, Cooled, Filed, [KickDriftNext]_kdvars
               PROVE  FullStep' /\ Cooled'
    OBVIOUS
  <1>1. CASE UNCHANGED kdvars
    BY <1>1 DEF kdvars, vars, line, options, longRange, velocities, FullStep, Cooled
  <1>2. CASE Synchronise
    BY <1>2, SynchroniseFull DEF Synchronise, Cooled, velocities
  <1>3. CASE OutputOnTheWay
    <2>1. /\ phase = "output" /\ phase' = "output" /\ Flag_FullStep' = Flag_FullStep
          /\ min_glob' = min_glob /\ Ti_endstep' = Ti_endstep
          /\ PMGRID' = PMGRID /\ PM_Ti_endstep' = PM_Ti_endstep /\ uncooled' = uncooled
      BY <1>3 DEF OutputOnTheWay, Output, line, options, longRange
    <2> QED BY <2>1 DEF FullStep, Cooled
  <1>4. CASE DriftAndCool
    <2>1. /\ phase = "output" /\ phase' = "advance" /\ Flag_FullStep' = Flag_FullStep
          /\ min_glob' = min_glob /\ Ti_endstep' = Ti_endstep /\ Ti_Current' = min_glob
          /\ PMGRID' = PMGRID /\ PM_Ti_endstep' = PM_Ti_endstep
          /\ uncooled' = IF Flag_FullStep /\ ReduceVels THEN Gas ELSE uncooled
      BY <1>4 DEF DriftAndCool, Drift, Cooling, CoolsNow, line, options, longRange
    <2> QED BY <2>1 DEF FullStep, Cooled
  <1>5. CASE AdvanceAndKick
    <2>1. phase' = "check"
      BY <1>5 DEF AdvanceAndKick, AdvanceAndFindTimesteps
    <2> QED BY <1>5, <2>1, KickedGasCooled DEF FullStep, Cooled
  <1>6. CASE ContinueKept
    <2>1. phase = "check" /\ phase' \in {"sync", "final"} /\ uncooled' = uncooled
      BY <1>6 DEF ContinueKept, Continue, Same, velocities
    <2> QED BY <2>1 DEF FullStep, Cooled
  <1>7. CASE FinishKept \/ InterruptKept \/ CrashKept
    <2>1. phase' \in {"ended", "down"}
      BY <1>7 DEF FinishKept, Finish, InterruptKept, Interrupt, CrashKept, Crash
    <2> QED BY <2>1 DEF FullStep, Cooled
  <1>8. CASE ReadjustedKept
    <2>1. phase = "readjust" /\ phase' = "sync" /\ uncooled' = uncooled
      BY <1>8 DEF ReadjustedKept, Readjusted, Same, velocities
    <2> QED BY <2>1 DEF FullStep, Cooled
  <1>9. CASE HalveLong
    <2>1. phase = "readjust" /\ phase' = "readjust" /\ uncooled' = uncooled
      BY <1>9 DEF HalveLong, Halve, velocities
    <2> QED BY <2>1 DEF FullStep, Cooled
  <1>10. CASE ResumeKept
    BY <1>10, ResumeMotion DEF FullStep, Cooled
  <1> QED
    BY <1>1, <1>2, <1>3, <1>4, <1>5, <1>6, <1>7, <1>8, <1>9, <1>10 DEF KickDriftNext, KickDriftStep

-------------------------------------------------------------------------------
(* The restart files.                                                      *)

LEMMA ImagesSound ==
  ASSUME Mesh, LongAhead, Predicted, Nodes, uncooled = {}
  PROVE  PairSound(Image, Kept)
  BY DEF PairSound, Image, Kept, Mesh, LongAhead, Predicted, Nodes

LEMMA FiledStep ==
  Mesh /\ LongAhead /\ Predicted /\ Nodes /\ Cooled /\ Filed /\ [KickDriftNext]_kdvars => Filed'
  <1> SUFFICES ASSUME Mesh, LongAhead, Predicted, Nodes, Cooled, Filed, [KickDriftNext]_kdvars PROVE Filed'
    OBVIOUS
  <1>0. PMGRID' = PMGRID
    BY MeshOption
  <1>1. ASSUME UNCHANGED <<saved, kept>>
        PROVE  Filed'
    BY <1>0, <1>1 DEF Filed, PairSound, MeshOf, PredictedOf, NodesOf, LongGrid, Ticks
  <1>2. ASSUME Save, uncooled = {}
        PROVE  Filed'
    <2>1. PICK i, k : i = Image /\ k = Kept
      OBVIOUS
    <2>2. PairSound(i, k) /\ saved' = <<i>> /\ kept' = <<k>>
      BY <1>2, <2>1, ImagesSound DEF Save
    <2> QED BY <1>0, <2>2 DEF Filed, PairSound, MeshOf, PredictedOf, NodesOf, LongGrid, Ticks
  <1>3. CASE InterruptKept \/ FinishKept
    <2>1. Save /\ phase \in {"check", "final"}
      BY <1>3 DEF InterruptKept, Interrupt, FinishKept, Finish
    <2> QED BY <1>2, <2>1 DEF Cooled
  <1>4. CASE ContinueKept
    <2>1. phase = "check" /\ (Save \/ UNCHANGED <<saved, kept>>)
      BY <1>4 DEF ContinueKept, Continue
    <2> QED BY <1>1, <1>2, <2>1 DEF Cooled
  <1>5. CASE UNCHANGED kdvars
    BY <1>1, <1>5 DEF kdvars, vars
  <1>6. CASE Synchronise \/ OutputOnTheWay \/ DriftAndCool \/ AdvanceAndKick \/ HalveLong
             \/ ReadjustedKept \/ CrashKept \/ ResumeKept
    <2>1. UNCHANGED <<saved, kept>>
      BY <1>6 DEF Synchronise, OutputOnTheWay, Output, DriftAndCool, Drift, AdvanceAndKick,
                  AdvanceAndFindTimesteps, HalveLong, Halve, ReadjustedKept, Readjusted,
                  CrashKept, Crash, ResumeKept, Resume
    <2> QED BY <1>1, <2>1
  <1> QED BY <1>3, <1>4, <1>5, <1>6 DEF KickDriftNext, KickDriftStep

-------------------------------------------------------------------------------
(* The coolings the nodes of a tree were not told of: at most one, if a    *)
(* full step has more forces than a tree is used for.                      *)

Told(forces, missed) == missed \in Nat /\ (forces <= UpdateLimit => missed <= 1)

(* Before the particles are cooled, a tree that will stay was made by an   *)
(* output on the way to this full step.                                    *)
FreshTree ==
  phase = "output" /\ Flag_FullStep /\ NumForcesSinceLastDomainDecomp <= UpdateLimit =>
    nodesMissed = 0 \/ (PMGRID /\ PM_Ti_endstep = min_glob)

FiledTold == kept = <<>> \/ \E k : kept = <<k>> /\ Told(k.forces, k.missed)

WInv == Told(NumForcesSinceLastDomainDecomp, nodesMissed) /\ FreshTree /\ FiledTold

(* Everybody active at a full step, there are too many forces for a tree.  *)
LEMMA ManyForces ==
  ASSUME UpdateLimit < Cardinality(Particle), GInv, Mesh, Nodes, Synchronise, Flag_FullStep',
         NumForcesSinceLastDomainDecomp' <= UpdateLimit
  PROVE  PMGRID' /\ PM_Ti_endstep' = min_glob'
  <1>1. FullStep' /\ phase' = "output"
    BY SynchroniseFull DEF Synchronise
  <1>2. SUFFICES ASSUME \A p \in Particle : Ti_endstep'[p] = min_glob' PROVE FALSE
    BY <1>1 DEF FullStep
  <1>3. Ending(min_glob)' = Particle
    BY <1>2 DEF Ending
  <1>4. SumOf(NumForceUpdate') = Cardinality(Particle) /\ SumOf(NumForceUpdate') \in Nat
    BY <1>3, CountedAtSyncPoint DEF Synchronise, GInv
  <1>5. /\ NumForcesSinceLastDomainDecomp \in Nat /\ UpdateLimit \in Nat
        /\ NumForcesSinceLastDomainDecomp' = NumForcesSinceLastDomainDecomp + SumOf(NumForceUpdate')
    BY GasAssumption DEF Nodes, NodesOf, Synchronise, CountForces
  <1> QED BY <1>4, <1>5

(* The tree of domain_Decomposition, cooled for or not.                    *)
LEMMA CooledTree ==
  ASSUME Nodes, WInv, DriftAndCool
  PROVE  Told(NumForcesSinceLastDomainDecomp', nodesMissed')
  <1>1. /\ phase = "output" /\ PM_Ti_endstep' = PM_Ti_endstep /\ Ti_Current' = min_glob
        /\ NewTree(NumForcesSinceLastDomainDecomp, AfterCooling)
    BY DEF DriftAndCool, Drift, longRange
  <1>2. /\ NumForcesSinceLastDomainDecomp \in Nat /\ UpdateLimit \in Nat /\ nodesMissed \in Nat
        /\ NumForcesSinceLastDomainDecomp <= UpdateLimit => nodesMissed <= 1
    BY GasAssumption DEF Nodes, NodesOf, WInv, Told
  <1>3. CASE NumForcesSinceLastDomainDecomp > UpdateLimit \/ (PMGRID /\ PM_Ti_endstep = min_glob)
    <2>1. nodesMissed' = 0
      BY <1>1, <1>3 DEF NewTree
    <2> QED BY <2>1 DEF Told
  <1>4. CASE ~(NumForcesSinceLastDomainDecomp > UpdateLimit \/ (PMGRID /\ PM_Ti_endstep = min_glob))
    <2>1. nodesMissed' = AfterCooling
      BY <1>1, <1>4 DEF NewTree
    <2>2. Flag_FullStep => nodesMissed = 0
      BY <1>1, <1>2, <1>4 DEF WInv, FreshTree
    <2>3. AfterCooling \in Nat /\ AfterCooling <= 1
      BY <1>2, <1>4, <2>2 DEF AfterCooling, CoolsNow
    <2> QED BY <2>1, <2>3 DEF Told
  <1> QED BY <1>3, <1>4

LEMMA FiledToldStep ==
  ASSUME WInv, [KickDriftNext]_kdvars
  PROVE  FiledTold'
  <1>1. ASSUME kept' = kept PROVE FiledTold'
    BY <1>1 DEF WInv, FiledTold, Told
  <1>2. ASSUME kept' = <<Kept>> PROVE FiledTold'
    <2>1. Kept.forces = NumForcesSinceLastDomainDecomp /\ Kept.missed = nodesMissed
      BY DEF Kept
    <2>2. PICK k : k = Kept
      OBVIOUS
    <2> QED BY <1>2, <2>1, <2>2 DEF WInv, FiledTold, Told
  <1>3. kept' = kept \/ kept' = <<Kept>>
    BY DEF KickDriftNext, KickDriftStep, kdvars, Synchronise, OutputOnTheWay, DriftAndCool, AdvanceAndKick,
           HalveLong, ReadjustedKept, CrashKept, ResumeKept, InterruptKept, FinishKept, ContinueKept, Save
  <1> QED BY <1>1, <1>2, <1>3

LEMMA WInvStep ==
  ASSUME UpdateLimit < Cardinality(Particle), GInv, VInv, WInv, [KickDriftNext]_kdvars
  PROVE  WInv'
  <1>0. /\ NumForcesSinceLastDomainDecomp \in Nat /\ UpdateLimit \in Nat
        /\ Told(NumForcesSinceLastDomainDecomp, nodesMissed) /\ Mesh /\ Nodes
    BY GasAssumption DEF VInv, WInv, Nodes, NodesOf
  <1>1. FiledTold'
    BY FiledToldStep
  <1>2. CASE UNCHANGED kdvars
    BY <1>0, <1>1, <1>2 DEF kdvars, vars, velocities, longRange, options, WInv, FreshTree
  <1>3. CASE Synchronise
    <2>1. nodesMissed' = nodesMissed
      BY <1>3 DEF Synchronise, velocities
    <2>2. NumForcesSinceLastDomainDecomp' >= NumForcesSinceLastDomainDecomp
      <3>1. SumOf(NumForceUpdate') \in Nat
        BY <1>3, CountedAtSyncPoint DEF GInv, Synchronise
      <3> QED BY <1>0, <1>3, <3>1 DEF Synchronise, CountForces
    <2>3. NumForcesSinceLastDomainDecomp' \in Nat
      <3>1. SumOf(NumForceUpdate') \in Nat
        BY <1>3, CountedAtSyncPoint DEF GInv, Synchronise
      <3> QED BY <1>0, <1>3, <3>1 DEF Synchronise, CountForces
    <2>4. Told(NumForcesSinceLastDomainDecomp', nodesMissed')
      BY <1>0, <2>1, <2>2, <2>3 DEF Told
    <2>5. FreshTree'
      BY <1>0, <1>3, ManyForces DEF FreshTree
    <2> QED BY <1>1, <2>4, <2>5 DEF WInv
  <1>4. CASE OutputOnTheWay
    <2>1. nodesMissed' = 0
      BY <1>0, <1>4 DEF OutputOnTheWay, NewTree
    <2> QED BY <1>1, <2>1 DEF WInv, Told, FreshTree
  <1>5. CASE DriftAndCool
    <2>1. phase' = "advance"
      BY <1>5 DEF DriftAndCool, Drift
    <2> QED BY <1>0, <1>1, <1>5, <2>1, CooledTree DEF WInv, FreshTree
  <1>6. CASE AdvanceAndKick
    <2>1. phase' = "check" /\ nodesMissed' = nodesMissed
      BY <1>6 DEF AdvanceAndKick, AdvanceAndFindTimesteps
    <2>2. NumForcesSinceLastDomainDecomp' \in {1 + UpdateLimit, NumForcesSinceLastDomainDecomp}
      BY <1>6 DEF AdvanceAndKick, ForcesAfter
    <2>3. Told(NumForcesSinceLastDomainDecomp', nodesMissed')
      BY <1>0, <2>1, <2>2 DEF Told
    <2> QED BY <1>1, <2>1, <2>3 DEF WInv, FreshTree
  <1>7. CASE ContinueKept \/ FinishKept \/ ReadjustedKept \/ InterruptKept \/ CrashKept \/ HalveLong
    <2>1. /\ nodesMissed' = nodesMissed
          /\ NumForcesSinceLastDomainDecomp' = NumForcesSinceLastDomainDecomp
          /\ phase' # "output"
      BY <1>7 DEF ContinueKept, Continue, FinishKept, Finish, ReadjustedKept, Readjusted, InterruptKept,
                  Interrupt, CrashKept, Crash, HalveLong, Halve, Same, velocities
    <2> QED BY <1>0, <1>1, <2>1 DEF WInv, FreshTree
  <1>8. CASE ResumeKept
    <2>1. PICK k \in {kept[n] : n \in DOMAIN kept} :
            nodesMissed' = k.missed /\ NumForcesSinceLastDomainDecomp' = k.forces
      BY <1>8 DEF ResumeKept
    <2>2. Told(k.forces, k.missed)
      <3>1. PICK n \in DOMAIN kept : k = kept[n]
        BY <2>1
      <3>2. PICK x : kept = <<x>> /\ Told(x.forces, x.missed)
        BY <3>1 DEF WInv, FiledTold
      <3>3. k = x
        BY <3>1, <3>2
      <3> QED BY <3>2, <3>3
    <2>3. phase' = "readjust"
      BY <1>8 DEF ResumeKept, Resume
    <2> QED BY <1>1, <2>1, <2>2, <2>3 DEF WInv, FreshTree
  <1> QED BY <1>2, <1>3, <1>4, <1>5, <1>6, <1>7, <1>8 DEF KickDriftNext, KickDriftStep

-------------------------------------------------------------------------------
(* The theorems.                                                           *)

LEMMA InitVInv == KickDriftInit => GInv /\ KInv /\ CInv /\ VInv
  <1> SUFFICES ASSUME KickDriftInit PROVE GInv /\ KInv /\ CInv /\ VInv
    OBVIOUS
  <1>0. Init
    BY DEF KickDriftInit
  <1>1. GInv
    BY <1>0, InitGInv
  <1>2. KInv /\ CInv
    BY <1>0 DEF Init, KInv, KickedToMidpoint, Midpoint, CInv
  <1>3. 0 \in Ticks
    BY Constants DEF Ticks
  <1>4. Mesh
    BY <1>0, <1>3 DEF KickDriftInit, Init, Mesh, MeshOf, LongGrid
  <1>5. Predicted
    BY <1>0 DEF KickDriftInit, Init, Everywhere, Predicted, PredictedOf
  <1>6. Nodes
    BY <1>0 DEF KickDriftInit, Init, Nodes, NodesOf
  <1>7. LongAhead /\ FullStep /\ Cooled /\ Filed
    BY <1>0 DEF KickDriftInit, Init, LongAhead, FullStep, Cooled, Filed
  <1> QED BY <1>1, <1>2, <1>4, <1>5, <1>6, <1>7 DEF VInv

LEMMA InvVInv == KickDriftSpec => [](GInv /\ KInv /\ CInv /\ VInv)
  <1>1. GInv /\ KInv /\ CInv /\ VInv /\ [KickDriftNext]_kdvars => (GInv /\ KInv /\ CInv /\ VInv)'
    <2> SUFFICES ASSUME GInv, KInv, CInv, VInv, [KickDriftNext]_kdvars
                 PROVE  GInv' /\ KInv' /\ CInv' /\ VInv'
      OBVIOUS
    <2>1. Mesh /\ LongAhead /\ Predicted /\ Nodes /\ FullStep /\ Cooled /\ Filed
      BY DEF VInv
    <2>2. GInv' /\ KInv' /\ CInv'
      BY <2>1, KickDriftGInv, KickDriftKInv, KickDriftCInv
    <2>3. Mesh' /\ LongAhead' /\ Nodes' /\ FullStep' /\ Cooled' /\ Filed'
      BY <2>1, MeshStep, LongAheadStep, NodesStep, CooledStep, FiledStep
    <2>4. Predicted'
      BY <2>1, <2>3, PredictedStep
    <2> QED BY <2>2, <2>3, <2>4 DEF VInv
  <1> QED BY <1>1, InitVInv, PTL DEF KickDriftSpec

(* The formulas of snapshots and energies yield velocities of the present  *)
(* time.                                                                   *)
LEMMA StatedNow ==
  ASSUME GInv, KInv, Mesh, NEW p \in Particle
  PROVE  /\ Reaches(StateOfSystem(p).vel)
         /\ StateOfSystem(p).entr \div Timebase_interval = Ti_Current
  <1>1. Timebase_interval \in Nat \ {0}
    BY DEF GInv
  <1>f. \A n, a, b \in Int :
          /\ get_gravkick_factor(a, b) \in Int
          /\ get_hydrokick_factor(a, b) = get_gravkick_factor(a, b)
          /\ (n + get_gravkick_factor(a, b)) \div Timebase_interval = n \div Timebase_interval + (b - a)
          /\ (n - get_gravkick_factor(a, b)) \div Timebase_interval = n \div Timebase_interval - (b - a)
    BY <1>1, FactorsShift, Zenon
  <1>2. PICK n \in Int, b \in Int, now \in Int, mid \in Int :
          n = kicked[p] /\ b = Ti_begstep[p] /\ now = Ti_Current /\ mid = Midpoint(p)
    BY Numbers DEF KInv, Midpoint
  <1>3. n \div Timebase_interval = mid
    BY <1>2 DEF KInv, KickedToMidpoint
  (* On to the present time and back to the middle of a step.              *)
  <1>4. ASSUME NEW x \in Int, NEW c \in Int, NEW m \in Int, x \div Timebase_interval = m
        PROVE  (x + get_gravkick_factor(c, now) - get_gravkick_factor(c, m)) \div Timebase_interval = now
    <2>1. /\ get_gravkick_factor(c, now) \in Int
          /\ (x + get_gravkick_factor(c, now)) \div Timebase_interval = x \div Timebase_interval + (now - c)
      BY <1>f
    <2>2. PICK d \in Int : d = get_gravkick_factor(c, now)
      BY <2>1
    <2>3. PICK y \in Int : y = x + d
      OBVIOUS
    <2>4. get_gravkick_factor(c, m) \in Int
      BY <1>f
    <2>5. (y - get_gravkick_factor(c, m)) \div Timebase_interval = y \div Timebase_interval - (m - c)
      BY <1>f
    <2>6. y \div Timebase_interval = m + (now - c)
      BY <1>4, <2>1, <2>2, <2>3
    <2>7. m + (now - c) - (m - c) = now
      OBVIOUS
    <2>8. x + get_gravkick_factor(c, now) - get_gravkick_factor(c, m) = y - get_gravkick_factor(c, m)
      BY <2>2, <2>3, <2>4
    <2> QED BY <2>5, <2>6, <2>7, <2>8
  <1>5. (n + get_gravkick_factor(b, now) - get_gravkick_factor(b, mid)) \div Timebase_interval = now
    BY <1>3, <1>4
  <1>6. /\ get_hydrokick_factor(b, now) = get_gravkick_factor(b, now)
        /\ get_hydrokick_factor(b, mid) = get_gravkick_factor(b, mid)
    BY <1>f
  <1>7. PMGRID => (kickedPM[p] + get_gravkick_factor(PM_Ti_begstep, now)
                     - get_gravkick_factor(PM_Ti_begstep, PMMidpoint)) \div Timebase_interval = now
    <2>1. PICK k \in Int, c \in Int, m \in Int : k = kickedPM[p] /\ c = PM_Ti_begstep /\ m = PMMidpoint
      BY Constants DEF Mesh, MeshOf, LongGrid, Ticks, PMMidpoint
    <2>2. PMGRID => k \div Timebase_interval = m
      BY <2>1 DEF Mesh, MeshOf, PMMidpoint
    <2> QED BY <1>4, <2>1, <2>2
  <1>8. Reaches(VelocityNow(p))
    BY <1>2, <1>5, <1>6, <1>7 DEF Reaches, VelocityNow
  <1>9. kicked[p] + Upto(Ti_Current) - Upto(Midpoint(p))
          = n + get_gravkick_factor(b, now) - get_gravkick_factor(b, mid)
    <2>1. PICK T \in Nat : T = Timebase_interval
      BY <1>1
    <2>2. PICK u \in Int, v \in Int, w \in Int : u = now * T /\ v = mid * T /\ w = b * T
      OBVIOUS
    <2>3. n + u - v = n + (u - w) - (v - w)
      OBVIOUS
    <2> QED BY <1>2, <2>1, <2>2, <2>3 DEF get_gravkick_factor, Upto
  <1>10. StateOfSystem(p).entr \div Timebase_interval = Ti_Current
    BY <1>2, <1>5, <1>9 DEF StateOfSystem
  <1> QED BY <1>8, <1>10 DEF StateOfSystem

LEMMA AgreeFromVInv ==
  ASSUME GInv, KInv, VInv, WInv
  PROVE  VelocitiesAgree
  <1>1. Mesh /\ Predicted /\ Nodes /\ Cooled
    BY DEF VInv
  <1>2. \A p \in Gas : Reaches(VelPred[p])
    BY <1>1 DEF Predicted, PredictedOf, Reaches
  <1>3. \A p \in Particle : /\ Reaches(StateOfSystem(p).vel)
                            /\ StateOfSystem(p).entr \div Timebase_interval = Ti_Current
    BY <1>1, StatedNow
  <1>4. phase \in {"check", "sync"} => uncooled = {}
    BY <1>1 DEF Cooled
  <1>5. TreeFollows
    <2> SUFFICES ASSUME NumForcesSinceLastDomainDecomp <= UpdateLimit
                 PROVE  /\ \A p \in Particle : NodeVel[p] = [tree |-> kicked[p], pm |-> kickedPM[p]]
                        /\ nodesMissed <= 1
      BY DEF TreeFollows, TreeInUse
    <2>1. \A p \in Particle : NodeVel[p] = [tree |-> kicked[p], pm |-> kickedPM[p]]
      BY <1>1 DEF Nodes, NodesOf
    <2> QED BY <2>1 DEF WInv, Told
  <1> QED BY <1>2, <1>3, <1>4, <1>5 DEF VelocitiesAgree, PredictedNow

(* The short-range kick, the long-range kick, the drift, and every         *)
(* snapshot and energy statistics agree on the velocities; cooled gas is   *)
(* kicked before its next drift; a tree in use has the kicks of its        *)
(* particles, and misses no more than the cooling of the full step an      *)
(* output made it on the way to (timestep.c, predict.c, io.c, global.c,    *)
(* artificialcooling.c).  TreeDomainUpdateFrequency is below one: a full   *)
(* step has more forces than a tree is used for.                           *)
THEOREM VelocitiesAgreeAlways ==
  ASSUME UpdateLimit < Cardinality(Particle)
  PROVE  KickDriftSpec => []VelocitiesAgree
  <1>1. KickDriftInit => WInv
    BY DEF KickDriftInit, Init, WInv, Told, FreshTree, FiledTold
  <1>2. GInv /\ VInv /\ WInv /\ [KickDriftNext]_kdvars => WInv'
    BY WInvStep
  <1>3. GInv /\ KInv /\ VInv /\ WInv => VelocitiesAgree
    BY AgreeFromVInv
  <1> QED BY <1>1, <1>2, <1>3, InvVInv, PTL DEF KickDriftSpec

(* SYNCHRONIZATION of timestep.c with a long-range step beside the steps   *)
(* of the particles: every step is a power of two that begins at a         *)
(* multiple of itself.                                                     *)
THEOREM StepsOnGridWithMesh == KickDriftSpec => []OnGrid
  <1>1. GInv => OnGrid
    BY DEF GInv
  <1> QED BY <1>1, InvVInv, PTL

(* advance_and_find_timesteps kicks from the middle of one step to the     *)
(* middle of the next, also at points that only the long-range step needs. *)
THEOREM VelocityAtMidpointWithMesh == KickDriftSpec => []KickedToMidpoint
  <1>1. KInv => KickedToMidpoint
    BY DEF KInv
  <1> QED BY <1>1, InvVInv, PTL

(* NumForceUpdate is the number of active particles at a synchronisation   *)
(* point of the long-range step too, where it may be zero.                 *)
THEOREM ActiveCountedWithMesh == KickDriftSpec => []AllActiveCounted
  <1>1. CInv => AllActiveCounted
    BY CountedActive
  <1> QED BY <1>1, InvVInv, PTL

-------------------------------------------------------------------------------
(* The time and the steps, while every task holds a particle.              *)

LEMMA SynchroniseNInv ==
  ASSUME GInv, Mesh, LongAhead, NInv, Synchronise
  PROVE  NInv'
  <1>1. PICK m \in EndSteps :
          /\ \A e \in EndSteps : m <= e
          /\ min_glob' = IF LongRangeDue(m) THEN PM_Ti_endstep ELSE m
    BY DEF Synchronise
  <1>2. EndSteps = {Ti_endstep[p] : p \in Particle}
    BY EndStepsHeld DEF NInv
  <1>3. Ti_Current \in Nat /\ m \in Nat /\ PM_Ti_endstep \in Nat /\ \A p \in Particle : Ti_endstep[p] \in Nat
    BY <1>2, Numbers, Constants DEF Mesh, MeshOf, LongGrid, Ticks
  <1>4. Ti_Current <= m /\ \A p \in Particle : m <= Ti_endstep[p]
    BY <1>1, <1>2 DEF NInv, NobodyLeftBehind
  <1>5. Ti_Current <= min_glob' /\ \A p \in Particle : min_glob' <= Ti_endstep[p]
    <2>1. CASE LongRangeDue(m)
      <3>1. PM_Ti_endstep <= m /\ Ti_Current <= PM_Ti_endstep /\ min_glob' = PM_Ti_endstep
        BY <1>1, <1>3, <2>1 DEF LongRangeDue, LongAhead
      <3> QED BY <1>3, <1>4, <3>1
    <2>2. CASE ~LongRangeDue(m)
      BY <1>1, <1>4, <2>2
    <2> QED BY <2>1, <2>2
  <1>6. Ahead'
    BY <1>5 DEF Synchronise, Ahead, line
  <1>7. NobodyLeftBehind' /\ NobodyEmpty(owner)' /\ SavedBehind'
    BY DEF NInv, Synchronise, NobodyLeftBehind, NobodyEmpty, Held, SavedBehind, line
  <1> QED BY <1>6, <1>7 DEF NInv, Synchronise, output

(* While every task holds a particle: with the points of the long-range    *)
(* step in between, too, move_particles and the outputs never drift the    *)
(* system past the end of a step, nor a restart back before its begin.     *)
THEOREM TimeWithinStepsWithMesh ==
  ASSUME MinPerTask = 1
  PROVE  KickDriftSpec => []NobodyLeftBehind
  <1>1. KickDriftInit => NInv
    BY InitNInv DEF KickDriftInit
  <1>2. GInv /\ VInv /\ NInv /\ [KickDriftNext]_kdvars => NInv'
    BY OrdinaryStep, StepNInv, SynchroniseNInv DEF VInv
  <1>3. NInv => NobodyLeftBehind
    BY DEF NInv
  <1> QED BY <1>1, <1>2, <1>3, InvVInv, PTL DEF KickDriftSpec

(* The same with the points of the long-range step in between: no output   *)
(* time is left out, and the snapshot files are numbered in the order of   *)
(* time.                                                                   *)
THEOREM OutputsKeptWithMesh ==
  ASSUME MinPerTask = 1, FirstExtensionOnly
  PROVE  KickDriftSpec => []OutputsKept
  <1>1. KickDriftInit => NInv /\ OInv
    BY InitNInv, InitOInv DEF KickDriftInit
  <1>2. GInv /\ VInv /\ NInv /\ [KickDriftNext]_kdvars => NInv'
    BY OrdinaryStep, StepNInv, SynchroniseNInv DEF VInv
  <1>3. GInv /\ NInv /\ OInv /\ [KickDriftNext]_kdvars => OInv'
    <2>1. GInv /\ OInv /\ Synchronise => OInv'
      BY SyncOInv DEF Synchronise
    <2> QED BY <2>1, OrdinaryStep, StepOInv
  <1>4. GInv /\ OInv => OutputsKept
    BY KeptFromOInv
  <1> QED BY <1>1, <1>2, <1>3, <1>4, InvVInv, PTL DEF KickDriftSpec

(* find_next_sync_point_and_drift stops at the end of the long-range step, *)
(* so that its force is never missed (PM_Ti_endstep in run.c:186).         *)
THEOREM LongStepNotPassed == KickDriftSpec => [](PMGRID => Ti_Current <= PM_Ti_endstep)
  <1>1. VInv => (PMGRID => Ti_Current <= PM_Ti_endstep)
    BY DEF VInv, LongAhead
  <1> QED BY <1>1, InvVInv, PTL
===============================================================================
