------------------------- MODULE DomainExchangeProofs -------------------------
(***************************************************************************)
(* Proofs about DomainExchange, for any number of tasks, array sizes,      *)
(* schedule and initial placement.                                         *)
(*                                                                         *)
(* The argument: (1) the pair of numbers findExchangeNumbers returns fits  *)
(* both partners at once (lemmas about Squeeze); (2) so the bookkeeping    *)
(* keeps every entry of every copy of list_NumPart below MaxPart; (3) the  *)
(* own entry of the own copy is the task's fill level plus what it still   *)
(* waits for, and the own row of the own copy of toGo is what its arrays   *)
(* hold.  (3) is the inductive link between the books and the arrays.      *)
(* (4) Last, the copies of the books agree: every task works out the same  *)
(* sequence of stages at its own pace, so a send meets its own receive.    *)
(***************************************************************************)
EXTENDS DomainExchange, TLAPS

Transfers == [send : Nat, recv : Nat]

(* One pass over a pair of transfers leaves transfers that are no larger   *)
(* and fit: what a partner receives is at most its room plus what it sends. *)
LEMMA SqueezeFits ==
  ASSUME NEW x \in Transfers, NEW roomA \in Nat, NEW roomB \in Nat
  PROVE  LET y == Squeeze(x, roomA, roomB)
         IN  /\ y \in Transfers
             /\ y.send <= x.send /\ y.recv <= x.recv
             /\ y.send <= roomB + y.recv
             /\ y.recv <= roomA + y.send
  BY DEF Squeeze, Lesser, Transfers

(* The second fit, for the SPH arrays, does not undo the first.            *)
LEMMA SqueezeKeepsFit ==
  ASSUME NEW x \in Transfers, NEW roomA \in Nat, NEW roomB \in Nat,
         NEW sphA \in Nat, NEW sphB \in Nat,
         x.send <= roomB + x.recv, x.recv <= roomA + x.send
  PROVE  LET y == Squeeze(x, sphA, sphB)
         IN  y.send <= roomB + y.recv /\ y.recv <= roomA + y.send
  BY DEF Squeeze, Lesser, Transfers

(* The do-while of domain_findExchangeNumbers changes nothing after its    *)
(* first pass, so one application of Squeeze is the whole loop.            *)
THEOREM SqueezeOnce ==
  ASSUME NEW x \in Transfers, NEW roomA \in Nat, NEW roomB \in Nat
  PROVE  Squeeze(Squeeze(x, roomA, roomB), roomA, roomB) = Squeeze(x, roomA, roomB)
  BY DEF Squeeze, Lesser, Transfers
-------------------------------------------------------------------------------
(* The entries of a copy of the books respect the array sizes, and no copy *)
(* expects more SPH particles to travel than particles.                    *)
Fits(b) == \A a \in Task : b.list_NumPart[a] <= MaxPart /\ b.list_N_gas[a] <= MaxPartSph

Covers(b) == \A a, p \in Task : b.toGoSph[a][p] <= b.toGo[a][p]

(* What the books say task a still has to send to p in this phase.         *)
Pending(b, a, p, sph) ==
  IF sph THEN b.toGoSph[a][p] ELSE b.toGo[a][p] - b.toGoSph[a][p]

(* The numbers for a pair are available, fit the buffer, and leave both    *)
(* partners within their arrays.                                           *)
LEMMA NumbersFit ==
  ASSUME NEW b \in BookType, Fits(b), Covers(b),
         NEW a \in Task, NEW p \in Task, NEW sph \in BOOLEAN
  PROVE  LET x == FindExchangeNumbers(b, a, p, sph)
         IN  /\ x \in Transfers
             /\ x.send <= BunchSizeDomain /\ x.recv <= BunchSizeDomain
             /\ x.send <= Pending(b, a, p, sph)
             /\ x.recv <= Pending(b, p, a, sph)
             /\ b.list_NumPart[a] + x.recv - x.send <= MaxPart
             /\ b.list_NumPart[p] - x.recv + x.send <= MaxPart
             /\ sph => /\ b.list_N_gas[a] + x.recv - x.send <= MaxPartSph
                       /\ b.list_N_gas[p] - x.recv + x.send <= MaxPartSph
  <1> DEFINE w == Wanted(b, a, p, sph)
             roomA == MaxPart - b.list_NumPart[a]
             roomB == MaxPart - b.list_NumPart[p]
             sphA == MaxPartSph - b.list_N_gas[a]
             sphB == MaxPartSph - b.list_N_gas[p]
             y == Squeeze(w, roomA, roomB)
             z == Squeeze(y, sphA, sphB)
  <1>1. /\ w \in Transfers
        /\ w.send <= BunchSizeDomain /\ w.recv <= BunchSizeDomain
        /\ w.send <= Pending(b, a, p, sph) /\ w.recv <= Pending(b, p, a, sph)
    BY SizesAssumption DEF Wanted, Pending, Covers, BookType, Lesser, Transfers
  <1>2. roomA \in Nat /\ roomB \in Nat /\ sphA \in Nat /\ sphB \in Nat
    BY SizesAssumption DEF Fits, BookType
  <1>3. /\ y \in Transfers
        /\ y.send <= w.send /\ y.recv <= w.recv
        /\ y.send <= roomB + y.recv /\ y.recv <= roomA + y.send
    <2> HIDE DEF w, roomA, roomB
    <2> QED BY <1>1, <1>2, SqueezeFits
  <1>4. /\ z \in Transfers
        /\ z.send <= y.send /\ z.recv <= y.recv
        /\ z.send <= roomB + z.recv /\ z.recv <= roomA + z.send
        /\ z.send <= sphB + z.recv /\ z.recv <= sphA + z.send
    <2> HIDE DEF y, roomA, roomB, sphA, sphB
    <2> QED BY <1>2, <1>3, SqueezeFits, SqueezeKeepsFit
  <1>5. FindExchangeNumbers(b, a, p, sph) = IF sph THEN z ELSE y
    BY DEF FindExchangeNumbers
  <1>6. /\ b.list_NumPart[a] \in Int /\ b.list_NumPart[p] \in Int
        /\ b.list_N_gas[a] \in Int /\ b.list_N_gas[p] \in Int
        /\ Pending(b, a, p, sph) \in Int /\ Pending(b, p, a, sph) \in Int
    BY DEF BookType, Pending
  <1> HIDE DEF w, y, z
  <1>7. /\ w.send \in Nat /\ w.recv \in Nat /\ y.send \in Nat /\ y.recv \in Nat
        /\ z.send \in Nat /\ z.recv \in Nat
        /\ BunchSizeDomain \in Nat /\ MaxPart \in Nat /\ MaxPartSph \in Nat
    BY <1>1, <1>3, <1>4, SizesAssumption DEF Transfers
  <1> DEFINE Good(x) == /\ x \in Transfers
                        /\ x.send <= BunchSizeDomain /\ x.recv <= BunchSizeDomain
                        /\ x.send <= Pending(b, a, p, sph)
                        /\ x.recv <= Pending(b, p, a, sph)
                        /\ b.list_NumPart[a] + x.recv - x.send <= MaxPart
                        /\ b.list_NumPart[p] - x.recv + x.send <= MaxPart
             GoodSph(x) == /\ b.list_N_gas[a] + x.recv - x.send <= MaxPartSph
                           /\ b.list_N_gas[p] - x.recv + x.send <= MaxPartSph
  <1>8. Good(y)
    BY <1>1, <1>3, <1>6, <1>7
  <1>9. Good(z) /\ GoodSph(z)
    BY <1>1, <1>3, <1>4, <1>6, <1>7
  <1>10. CASE sph
    BY <1>5, <1>9, <1>10, Zenon
  <1>11. CASE ~sph
    BY <1>5, <1>8, <1>11, Zenon
  <1> QED BY <1>10, <1>11

(* Entry <<q, r>> of a matrix, and entry q of a list, after the transfers x *)
(* between a and p.                                                        *)
EntryAfter(m, a, p, x, q, r) ==
  IF q = a /\ r = p THEN m[q][r] - x.send
  ELSE IF q = p /\ r = a THEN m[q][r] - x.recv
  ELSE m[q][r]

LevelAfter(l, a, p, x, q) ==
  IF q = a THEN l[q] + x.recv - x.send
  ELSE IF q = p THEN l[q] - x.recv + x.send
  ELSE l[q]

(* What Settle does to the entries of a table.                             *)
Settles(m, a, p, x) ==
  /\ Settle(m, a, p, x) \in [Task -> [Task -> Nat]]
  /\ \A q, r \in Task : Settle(m, a, p, x)[q][r] = EntryAfter(m, a, p, x, q, r)

(* What Settle does to a matrix: the two entries of the pair drop by what  *)
(* travels, the others stay.                                               *)
LEMMA SettleEntries ==
  ASSUME NEW m \in [Task -> [Task -> Nat]], NEW x \in Transfers,
         NEW a \in Task, NEW p \in Task, a # p,
         x.send <= m[a][p], x.recv <= m[p][a]
  PROVE  Settles(m, a, p, x)
  <1> DEFINE s == m[a][p] - x.send
             r0 == m[p][a] - x.recv
             n == [m EXCEPT ![a][p] = s]
             o == [n EXCEPT ![p][a] = r0]
  <1>1. s \in Nat /\ r0 \in Nat
    BY DEF Transfers
  <1>2. Settle(m, a, p, x) = o
    BY DEF Settle
  <1> HIDE DEF s, r0
  <1>3. /\ n \in [Task -> [Task -> Nat]]
        /\ \A q, r \in Task : n[q][r] = IF q = a /\ r = p THEN s ELSE m[q][r]
    BY <1>1
  <1> HIDE DEF n
  <1>4. /\ o \in [Task -> [Task -> Nat]]
        /\ \A q, r \in Task : o[q][r] = IF q = p /\ r = a THEN r0 ELSE n[q][r]
    BY <1>1, <1>3
  <1> HIDE DEF o
  <1> QED BY <1>2, <1>3, <1>4 DEF s, r0, EntryAfter, Settles

(* The bookkeeping of a pair keeps the books well formed.                  *)
LEMMA AccountFits ==
  ASSUME NEW b \in BookType, Fits(b), Covers(b),
         NEW a \in Task, NEW p \in Task, a # p, NEW sph \in BOOLEAN
  PROVE  LET c == Account(b, a, p, sph, FindExchangeNumbers(b, a, p, sph))
         IN  c \in BookType /\ Fits(c) /\ Covers(c)
  <1> DEFINE x == FindExchangeNumbers(b, a, p, sph)
             c == Account(b, a, p, sph, x)
  <1>1. /\ x \in Transfers
        /\ x.send <= Pending(b, a, p, sph) /\ x.recv <= Pending(b, p, a, sph)
        /\ b.list_NumPart[a] + x.recv - x.send <= MaxPart
        /\ b.list_NumPart[p] - x.recv + x.send <= MaxPart
        /\ sph => /\ b.list_N_gas[a] + x.recv - x.send <= MaxPartSph
                  /\ b.list_N_gas[p] - x.recv + x.send <= MaxPartSph
    BY NumbersFit
  <1> HIDE DEF x
  <1>2. /\ \A q \in Task : b.list_NumPart[q] \in Int /\ b.list_N_gas[q] \in Int
        /\ \A q, r \in Task : b.toGo[q][r] \in Nat /\ b.toGoSph[q][r] \in Nat
    BY DEF BookType
  <1>3. c.list_NumPart \in [Task -> Int] /\ c.list_N_gas \in [Task -> Int]
    BY <1>1, <1>2 DEF Account, Shift, BookType, Transfers
  <1>4. x \in Transfers
    BY <1>1
  <1>5. /\ x.send <= b.toGo[a][p] /\ x.recv <= b.toGo[p][a]
        /\ sph => x.send <= b.toGoSph[a][p] /\ x.recv <= b.toGoSph[p][a]
    BY <1>1, <1>2 DEF Pending, Covers, Transfers
  <1>6. b.toGo \in [Task -> [Task -> Nat]] /\ b.toGoSph \in [Task -> [Task -> Nat]]
    BY DEF BookType
  <1>11. /\ Settle(b.toGo, a, p, x) \in [Task -> [Task -> Nat]]
         /\ \A q, r \in Task : Settle(b.toGo, a, p, x)[q][r] = EntryAfter(b.toGo, a, p, x, q, r)
    <2> DEFINE m == b.toGo
    <2>1. m \in [Task -> [Task -> Nat]] /\ x.send <= m[a][p] /\ x.recv <= m[p][a]
      BY <1>5, <1>6
    <2> HIDE DEF m
    <2>2. Settles(m, a, p, x)
      BY <1>4, <2>1, SettleEntries
    <2> QED BY <2>2, Zenon DEF m, Settles
  <1>12. sph => /\ Settle(b.toGoSph, a, p, x) \in [Task -> [Task -> Nat]]
                /\ \A q, r \in Task :
                     Settle(b.toGoSph, a, p, x)[q][r] = EntryAfter(b.toGoSph, a, p, x, q, r)
    <2> DEFINE m == b.toGoSph
    <2>1. sph => m \in [Task -> [Task -> Nat]] /\ x.send <= m[a][p] /\ x.recv <= m[p][a]
      BY <1>5, <1>6
    <2> HIDE DEF m
    <2>2. sph => Settles(m, a, p, x)
      BY <1>4, <2>1, SettleEntries
    <2> QED BY <2>2, Zenon DEF m, Settles
  <1>7. c.toGo \in [Task -> [Task -> Nat]] /\ c.toGoSph \in [Task -> [Task -> Nat]]
    BY <1>6, <1>11, <1>12 DEF Account
  <1>8. c \in BookType
    BY <1>3, <1>7 DEF Account, BookType
  <1>9. Fits(c)
    BY <1>1, <1>2 DEF Fits, Account, Shift, BookType, Transfers
  <1>10. Covers(c)
    <2> SUFFICES ASSUME NEW q \in Task, NEW r \in Task
                 PROVE  c.toGoSph[q][r] <= c.toGo[q][r]
      BY DEF Covers
    <2>3. b.toGoSph[q][r] <= b.toGo[q][r]
      BY DEF Covers
    <2>4. /\ b.toGo[q][r] \in Nat /\ b.toGoSph[q][r] \in Nat
          /\ x.send \in Nat /\ x.recv \in Nat
      BY <1>1, <1>2 DEF Transfers
    <2>5. ~sph => /\ x.send <= b.toGo[a][p] - b.toGoSph[a][p]
                  /\ x.recv <= b.toGo[p][a] - b.toGoSph[p][a]
      BY <1>1 DEF Pending
    <2>6. c.toGo[q][r] = EntryAfter(b.toGo, a, p, x, q, r)
      BY <1>11 DEF Account
    <2>7. c.toGoSph[q][r] = IF sph THEN EntryAfter(b.toGoSph, a, p, x, q, r)
                           ELSE b.toGoSph[q][r]
      BY <1>12 DEF Account
    <2> HIDE DEF c
    <2> QED BY <2>3, <2>4, <2>5, <2>6, <2>7 DEF EntryAfter
  <1> QED BY <1>8, <1>9, <1>10 DEF x

(* The entries of the books after a pair, for transfers that are there.    *)
LEMMA AccountEntries ==
  ASSUME NEW b \in BookType, NEW x \in Transfers,
         NEW a \in Task, NEW p \in Task, a # p, NEW sph \in BOOLEAN,
         x.send <= b.toGo[a][p], x.recv <= b.toGo[p][a],
         sph => x.send <= b.toGoSph[a][p] /\ x.recv <= b.toGoSph[p][a]
  PROVE  LET c == Account(b, a, p, sph, x)
         IN  /\ \A q \in Task :
                  c.list_NumPart[q] = LevelAfter(b.list_NumPart, a, p, x, q)
             /\ sph => \A q \in Task :
                  c.list_N_gas[q] = LevelAfter(b.list_N_gas, a, p, x, q)
             /\ ~sph => c.list_N_gas = b.list_N_gas
             /\ \A q, r \in Task : c.toGo[q][r] = EntryAfter(b.toGo, a, p, x, q, r)
             /\ sph => \A q, r \in Task :
                  c.toGoSph[q][r] = EntryAfter(b.toGoSph, a, p, x, q, r)
             /\ ~sph => c.toGoSph = b.toGoSph
  <1>1. /\ b.list_NumPart \in [Task -> Int] /\ b.list_N_gas \in [Task -> Int]
        /\ b.toGo \in [Task -> [Task -> Nat]] /\ b.toGoSph \in [Task -> [Task -> Nat]]
    BY DEF BookType
  <1>2. \A l \in [Task -> Int], q \in Task : Shift(l, a, p, x)[q] = LevelAfter(l, a, p, x, q)
    BY DEF Shift, LevelAfter
  <1>3. \A q, r \in Task : Settle(b.toGo, a, p, x)[q][r] = EntryAfter(b.toGo, a, p, x, q, r)
    <2> DEFINE m == b.toGo
    <2>1. m \in [Task -> [Task -> Nat]] /\ x.send <= m[a][p] /\ x.recv <= m[p][a]
      BY <1>1
    <2> HIDE DEF m
    <2>2. Settles(m, a, p, x)
      BY <2>1, SettleEntries
    <2> QED BY <2>2, Zenon DEF m, Settles
  <1>4. ASSUME sph
        PROVE  \A q, r \in Task :
                 Settle(b.toGoSph, a, p, x)[q][r] = EntryAfter(b.toGoSph, a, p, x, q, r)
    <2> DEFINE m == b.toGoSph
    <2>1. m \in [Task -> [Task -> Nat]] /\ x.send <= m[a][p] /\ x.recv <= m[p][a]
      BY <1>1, <1>4
    <2> HIDE DEF m
    <2>2. Settles(m, a, p, x)
      BY <2>1, SettleEntries
    <2> QED BY <2>2, Zenon DEF m, Settles
  <1> QED BY <1>1, <1>2, <1>3, <1>4 DEF Account
-------------------------------------------------------------------------------
(* The inductive invariant.                                                *)

(* What task t still waits for, and still has to hand over, in the running *)
(* exchange.                                                               *)
ToCome(t) == IF pos[t].leg = "rep0" \/ (pos[t].leg = "rep1" /\ t < Partner(t))
             THEN amount[t].recv ELSE 0

ToGive(t) == IF pos[t].leg = "rep0" \/ (pos[t].leg = "rep1" /\ t > Partner(t))
             THEN amount[t].send ELSE 0

(* The own entries of the own copy of the books describe the arrays.       *)
OwnBook(t) ==
  /\ NumPart[t] + ToCome(t) = book[t].list_NumPart[t]
  /\ pos[t].sph => N_gas[t] + ToCome(t) = book[t].list_N_gas[t]
  /\ ~pos[t].sph => N_gas[t] = book[t].list_N_gas[t]
  /\ buf[t] = ToGive(t)
  /\ \A u \in Task \ {t} :
       /\ book[t].toGo[t][u] = hold[t][u].sph + hold[t][u].other
       /\ book[t].toGoSph[t][u] = hold[t][u].sph

Settled(t) == pos[t].leg = "done" => ~AnyToGo(book[t])

Sound(t) == Fits(book[t]) /\ Covers(book[t]) /\ OwnBook(t) /\ Settled(t)

IInv == TypeOK /\ NoAbort /\ \A t \in Task : Sound(t)

(* The members of a pair are two different tasks.                          *)
LEMMA PairFacts ==
  ASSUME TypeOK, NEW t \in Task
  PROVE  /\ Lower(t) \in Task /\ Upper(t) \in Task /\ Lower(t) < Upper(t)
         /\ t \in Int /\ Lower(t) \in Int /\ Upper(t) \in Int
         /\ KindOf(t) \in Kind
         /\ pos[t].pair \in 1 .. Len(PairSchedule)
         /\ InPair(t) => /\ Partner(t) \in Task
                         /\ \/ t = Lower(t) /\ Partner(t) = Upper(t)
                            \/ t = Upper(t) /\ Partner(t) = Lower(t)
  <1>1. pos[t].pair \in 1 .. Len(PairSchedule) /\ pos[t].sph \in BOOLEAN
    BY DEF TypeOK
  <1>2. PairSchedule[pos[t].pair] \in Task \X Task
    BY <1>1, ScheduleAssumption
  <1>3. Lower(t) \in Task /\ Upper(t) \in Task /\ Lower(t) < Upper(t)
    BY <1>1, <1>2, ScheduleAssumption DEF Lower, Upper
  <1>4. \A u \in Task : u \in Int
    BY SizesAssumption DEF Task
  <1> QED BY <1>1, <1>3, <1>4 DEF KindOf, Kind, InPair, Partner

(* Leaving a pair leads to another pair or out of the loop.                *)
LEMMA StageFacts ==
  ASSUME NEW p \in [pair : 1 .. Len(PairSchedule), sph : BOOLEAN, leg : Leg], NEW b
  PROVE  /\ StageAfter(p, b) \in [pair : 1 .. Len(PairSchedule), sph : BOOLEAN, leg : Leg]
         /\ StageAfter(p, b).leg \in {"book", "done"}
         /\ StageAfter(p, b).leg = "done" => ~AnyToGo(b)
  <1>1. Len(PairSchedule) \in Nat /\ Len(PairSchedule) > 0
    BY ScheduleAssumption
  <1>2. p.pair \in 1 .. Len(PairSchedule) /\ p.sph \in BOOLEAN /\ WithGas \in BOOLEAN
    BY SizesAssumption
  <1> QED BY <1>1, <1>2 DEF StageAfter, FirstStage, Leg

(* A task whose own part of the state does not change stays sound.         *)
LEMMA Frame ==
  ASSUME NEW s \in Task, Sound(s),
         hold'[s] = hold[s], NumPart'[s] = NumPart[s], N_gas'[s] = N_gas[s],
         buf'[s] = buf[s], book'[s] = book[s], pos'[s] = pos[s], amount'[s] = amount[s]
  PROVE  Sound(s)'
  BY DEF Sound, OwnBook, Settled, Fits, Covers, ToCome, ToGive, AnyToGo, Partner, Lower, Upper

LEMMA InitIInv == Init => IInv
  <1> SUFFICES ASSUME Init PROVE IInv
    OBVIOUS
  <1> USE SizesAssumption
  <1>1. hold \in [Task -> [Task -> [Kind -> Nat]]]
    BY DEF Init
  <1>2. \A t, u \in Task : hold[t][u].sph \in Nat /\ hold[t][u].other \in Nat
    BY <1>1 DEF Kind
  <1>3. /\ CountToGo(hold) \in [Task -> [Task -> Nat]]
        /\ CountToGoSph(hold) \in [Task -> [Task -> Nat]]
    BY <1>2 DEF CountToGo, CountToGoSph
  <1>4. \A t \in Task : book[t] = [list_NumPart |-> NumPart, list_N_gas |-> N_gas,
                                   toGo |-> CountToGo(hold), toGoSph |-> CountToGoSph(hold)]
    BY DEF Init
  <1>5. book \in [Task -> BookType]
    <2>1. [list_NumPart |-> NumPart, list_N_gas |-> N_gas,
           toGo |-> CountToGo(hold), toGoSph |-> CountToGoSph(hold)] \in BookType
      BY <1>3 DEF Init, BookType
    <2> QED BY <2>1 DEF Init
  <1>6. /\ FirstStage \in [pair : 1 .. Len(PairSchedule), sph : BOOLEAN, leg : Leg]
        /\ [FirstStage EXCEPT !.leg = "done"]
              \in [pair : 1 .. Len(PairSchedule), sph : BOOLEAN, leg : Leg]
    BY ScheduleAssumption DEF FirstStage, Leg
  <1>7. \A t \in Task : /\ pos[t] \in [pair : 1 .. Len(PairSchedule), sph : BOOLEAN, leg : Leg]
                        /\ pos[t].leg \in {"book", "done"}
                        /\ pos[t].leg = "done" => ~AnyToGo(book[t])
    BY <1>6 DEF Init, FirstStage
  <1>8. TypeOK
    <2>1. pos \in [Task -> [pair : 1 .. Len(PairSchedule), sph : BOOLEAN, leg : Leg]]
      BY <1>7 DEF Init
    <2>2. NumPart \in [Task -> Int] /\ N_gas \in [Task -> Int]
      BY DEF Init
    <2>3. buf \in [Task -> 0 .. BunchSizeDomain]
      BY DEF Init
    <2>4. amount \in [Task -> [send : Nat, recv : Nat]]
      BY DEF Init
    <2> QED BY <1>1, <1>5, <2>1, <2>2, <2>3, <2>4 DEF TypeOK
  <1>9. NoAbort
    BY <1>7 DEF NoAbort
  <1>10. ASSUME NEW t \in Task PROVE Sound(t)
    <2>1. Fits(book[t])
      BY <1>4 DEF Fits, Init
    <2>2. Covers(book[t])
      <3>1. \A a, p \in Task : CountToGoSph(hold)[a][p] <= CountToGo(hold)[a][p]
        BY <1>2 DEF CountToGo, CountToGoSph
      <3> QED BY <1>4, <3>1 DEF Covers
    <2>3. OwnBook(t)
      <3>1. ToCome(t) = 0 /\ ToGive(t) = 0
        BY <1>7 DEF ToCome, ToGive
      <3>2. NumPart[t] \in Int /\ N_gas[t] \in Int
        BY DEF Init
      <3>3. book[t].list_NumPart = NumPart /\ book[t].list_N_gas = N_gas
        BY <1>4
      <3>4. buf[t] = 0
        BY DEF Init
      <3>5. \A u \in Task \ {t} :
              /\ book[t].toGo[t][u] = hold[t][u].sph + hold[t][u].other
              /\ book[t].toGoSph[t][u] = hold[t][u].sph
        <4> TAKE u \in Task \ {t}
        <4>1. /\ CountToGo(hold)[t][u] = hold[t][u].sph + hold[t][u].other
              /\ CountToGoSph(hold)[t][u] = hold[t][u].sph
          BY DEF CountToGo, CountToGoSph
        <4> QED BY <1>4, <4>1
      <3>6. NumPart[t] + ToCome(t) = NumPart[t] /\ N_gas[t] + ToCome(t) = N_gas[t]
        BY <3>1, <3>2
      <3> QED BY <3>1, <3>3, <3>4, <3>5, <3>6 DEF OwnBook
    <2>4. Settled(t)
      BY <1>7 DEF Settled
    <2> QED BY <2>1, <2>2, <2>3, <2>4 DEF Sound
  <1> QED BY <1>8, <1>9, <1>10 DEF IInv

LEMMA BookkeepIInv ==
  ASSUME IInv, NEW t \in Task, Bookkeep(t) PROVE IInv'
  <1> DEFINE a == Lower(t)
             p == Upper(t)
             x == Numbers(t)
             b == Accounted(t, x)
  <1>1. TypeOK /\ NoAbort /\ \A s \in Task : Sound(s)
    BY DEF IInv
  <1>2. /\ a \in Task /\ p \in Task /\ a # p /\ t # a /\ t # p
        /\ book[t] \in BookType /\ Fits(book[t]) /\ Covers(book[t])
        /\ pos[t].sph \in BOOLEAN
    <2>1. a \in Task /\ p \in Task /\ a < p /\ a \in Int /\ p \in Int
      BY <1>1, PairFacts
    <2>2. t # a /\ t # p
      BY DEF Bookkeep, InPair
    <2>3. book[t] \in BookType /\ Fits(book[t]) /\ Covers(book[t])
      BY <1>1 DEF TypeOK, Sound
    <2>4. pos[t].sph \in BOOLEAN
      BY <1>1 DEF TypeOK
    <2> QED BY <2>1, <2>2, <2>3, <2>4
  <1>3. /\ x \in Transfers
        /\ x.send <= Pending(book[t], a, p, pos[t].sph)
        /\ x.recv <= Pending(book[t], p, a, pos[t].sph)
    BY <1>2, NumbersFit DEF Numbers
  <1>4. b \in BookType /\ Fits(b) /\ Covers(b)
    BY <1>2, AccountFits DEF Accounted, Numbers
  <1>5. /\ book' = [book EXCEPT ![t] = b]
        /\ pos' = [pos EXCEPT ![t] = StageAfter(@, b)]
        /\ UNCHANGED <<hold, NumPart, N_gas, buf, amount>>
        /\ pos[t].leg = "book"
    BY DEF Bookkeep
  <1>6. /\ StageAfter(pos[t], b) \in [pair : 1 .. Len(PairSchedule), sph : BOOLEAN, leg : Leg]
        /\ StageAfter(pos[t], b).leg \in {"book", "done"}
        /\ StageAfter(pos[t], b).leg = "done" => ~AnyToGo(b)
    <2>1. pos[t] \in [pair : 1 .. Len(PairSchedule), sph : BOOLEAN, leg : Leg]
      BY <1>1 DEF TypeOK
    <2> QED BY <2>1, StageFacts
  <1> DEFINE st == StageAfter(pos[t], b)
  <1> HIDE DEF b, x, a, p, st
  <1>7. TypeOK'
    BY <1>1, <1>4, <1>5, <1>6 DEF TypeOK, st
  <1>8. NoAbort'
    BY <1>1, <1>5, <1>6 DEF TypeOK, NoAbort, st
  <1>9. /\ book'[t] = b /\ pos'[t] = st
    BY <1>1, <1>5 DEF TypeOK, st
  <1>11. /\ b.list_NumPart[t] = book[t].list_NumPart[t]
         /\ b.list_N_gas[t] = book[t].list_N_gas[t]
         /\ \A u \in Task : /\ b.toGo[t][u] = book[t].toGo[t][u]
                           /\ b.toGoSph[t][u] = book[t].toGoSph[t][u]
    <2>1. /\ x.send <= book[t].toGo[a][p] /\ x.recv <= book[t].toGo[p][a]
          /\ pos[t].sph => /\ x.send <= book[t].toGoSph[a][p]
                           /\ x.recv <= book[t].toGoSph[p][a]
      BY <1>2, <1>3 DEF Pending, Covers, BookType, Transfers
    <2> QED BY <1>2, <1>3, <2>1, AccountEntries DEF b, Accounted, a, p, EntryAfter, LevelAfter
  <1>10. ASSUME NEW s \in Task PROVE Sound(s)'
    <2>1. CASE s # t
      <3>1. /\ hold'[s] = hold[s] /\ NumPart'[s] = NumPart[s] /\ N_gas'[s] = N_gas[s]
            /\ buf'[s] = buf[s] /\ book'[s] = book[s] /\ pos'[s] = pos[s]
            /\ amount'[s] = amount[s]
        BY <1>1, <1>5, <2>1 DEF TypeOK
      <3> QED BY <1>1, <3>1, Frame
    <2>2. CASE s = t
      <3>1. OwnBook(t)
        BY <1>1 DEF Sound
      <3>2. OwnBook(t)'
        <4>1. ToCome(t) = 0 /\ ToGive(t) = 0
          BY <1>5 DEF ToCome, ToGive
        <4>2. ToCome(t)' = 0 /\ ToGive(t)' = 0
          BY <1>6, <1>9 DEF ToCome, ToGive, st
        <4>3. NumPart[t] \in Int /\ N_gas[t] \in Int
          BY <1>1 DEF TypeOK
        <4>4. /\ NumPart[t] = book[t].list_NumPart[t]
              /\ N_gas[t] = book[t].list_N_gas[t]
              /\ buf[t] = 0
          BY <3>1, <4>1, <4>3 DEF OwnBook
        <4>5. /\ NumPart'[t] = b.list_NumPart[t] /\ NumPart'[t] \in Int
              /\ N_gas'[t] = b.list_N_gas[t] /\ N_gas'[t] \in Int
              /\ buf'[t] = 0
          BY <1>5, <1>11, <4>3, <4>4
        <4>6. \A u \in Task \ {t} :
                /\ b.toGo[t][u] = hold'[t][u].sph + hold'[t][u].other
                /\ b.toGoSph[t][u] = hold'[t][u].sph
          BY <1>5, <1>11, <3>1 DEF OwnBook
        <4> QED BY <1>9, <4>2, <4>5, <4>6 DEF OwnBook
      <3>3. Fits(book[t])' /\ Covers(book[t])' /\ Settled(t)'
        BY <1>4, <1>6, <1>9 DEF Fits, Covers, Settled, AnyToGo, st
      <3> QED BY <2>2, <3>2, <3>3 DEF Sound
    <2> QED BY <2>1, <2>2
  <1> QED BY <1>7, <1>8, <1>10 DEF IInv

(* Replacing one count in the table of held particles.                     *)
LEMMA ReplaceCount ==
  ASSUME NEW f \in [Task -> [Task -> [Kind -> Nat]]],
         NEW t \in Task, NEW q \in Task, NEW k \in Kind, NEW v \in Nat
  PROVE  LET g == [f EXCEPT ![t][q][k] = v]
         IN  /\ g \in [Task -> [Task -> [Kind -> Nat]]]
             /\ \A r \in Task : r # t => g[r] = f[r]
             /\ \A u \in Task : u # q => g[t][u] = f[t][u]
             /\ g[t][q][k] = v
             /\ \A j \in Kind : j # k => g[t][q][j] = f[t][q][j]
  <1> DEFINE inner == [f[t][q] EXCEPT ![k] = v]
             row == [f[t] EXCEPT ![q] = inner]
             g == [f EXCEPT ![t] = row]
  <1>1. f[t] \in [Task -> [Kind -> Nat]] /\ f[t][q] \in [Kind -> Nat]
    OBVIOUS
  <1>2. inner \in [Kind -> Nat] /\ inner[k] = v /\ \A j \in Kind : j # k => inner[j] = f[t][q][j]
    BY <1>1
  <1>3. g = [f EXCEPT ![t][q][k] = v]
    OBVIOUS
  <1> HIDE DEF inner
  <1>4. /\ row \in [Task -> [Kind -> Nat]] /\ row[q] = inner
        /\ \A u \in Task : u # q => row[u] = f[t][u]
    BY <1>1, <1>2
  <1> HIDE DEF row
  <1>5. /\ g \in [Task -> [Task -> [Kind -> Nat]]] /\ g[t] = row
        /\ \A r \in Task : r # t => g[r] = f[r]
    BY <1>4
  <1> HIDE DEF g
  <1> QED BY <1>2, <1>3, <1>4, <1>5

LEMMA HoldType ==
  ASSUME TypeOK, NEW t \in Task, NEW u \in Task
  PROVE  /\ hold[t][u] \in [Kind -> Nat]
         /\ hold[t][u].sph \in Nat /\ hold[t][u].other \in Nat
  <1>1. hold[t][u] \in [Kind -> Nat]
    BY DEF TypeOK
  <1> QED BY <1>1 DEF Kind

(* The collecting task finds what its books promise, so it never aborts.   *)
LEMMA CollectIInv ==
  ASSUME IInv, NEW t \in Task, Collect(t) PROVE IInv'
  <1> DEFINE a == Lower(t)
             p == Upper(t)
             q == Partner(t)
             k == KindOf(t)
             x == Numbers(t)
             c == Accounted(t, x)
             mine == IF t = a THEN x ELSE [send |-> x.recv, recv |-> x.send]
             n == Lesser(mine.send, hold[t][q][k])
  <1>1. TypeOK /\ NoAbort /\ \A s \in Task : Sound(s)
    BY DEF IInv
  <1>2. /\ a \in Task /\ p \in Task /\ a # p /\ q \in Task /\ k \in Kind
        /\ \/ t = a /\ q = p
           \/ t = p /\ q = a
    <2>1. a < p /\ a \in Int /\ p \in Int
      BY <1>1, PairFacts
    <2> QED BY <1>1, <2>1, PairFacts DEF Collect
  <1>3. /\ book[t] \in BookType /\ Fits(book[t]) /\ Covers(book[t])
        /\ pos[t].sph \in BOOLEAN /\ OwnBook(t)
    BY <1>1 DEF TypeOK, Sound
  <1>4. /\ x \in Transfers
        /\ x.send <= BunchSizeDomain /\ x.recv <= BunchSizeDomain
        /\ x.send <= Pending(book[t], a, p, pos[t].sph)
        /\ x.recv <= Pending(book[t], p, a, pos[t].sph)
    BY <1>2, <1>3, NumbersFit DEF Numbers
  <1>5. c \in BookType /\ Fits(c) /\ Covers(c)
    BY <1>2, <1>3, AccountFits DEF Accounted, Numbers
  <1>6. /\ mine \in Transfers
        /\ mine.send <= BunchSizeDomain
        /\ mine.send <= Pending(book[t], t, q, pos[t].sph)
    BY <1>2, <1>4 DEF Transfers
  <1>7. /\ hold[t] \in [Task -> [Kind -> Nat]] /\ hold[t][q] \in [Kind -> Nat]
        /\ hold[t][q][k] \in Nat /\ hold[t][q].sph \in Nat /\ hold[t][q].other \in Nat
        /\ NumPart[t] \in Int /\ N_gas[t] \in Int
    <2>1. hold[t][q].sph \in Nat /\ hold[t][q].other \in Nat
      BY <1>1, <1>2, HoldType
    <2>2. /\ hold[t] \in [Task -> [Kind -> Nat]]
          /\ NumPart[t] \in Int /\ N_gas[t] \in Int
      BY <1>1 DEF TypeOK
    <2> HIDE DEF q, k
    <2> QED BY <1>2, <2>1, <2>2
  <1>8. Pending(book[t], t, q, pos[t].sph) = hold[t][q][k]
    <2>1. q \in Task \ {t}
      BY <1>2
    <2>2. /\ book[t].toGo[t][q] = hold[t][q].sph + hold[t][q].other
          /\ book[t].toGoSph[t][q] = hold[t][q].sph
      BY <1>3, <2>1 DEF OwnBook
    <2>3. CASE pos[t].sph
      BY <2>2, <2>3 DEF Pending, KindOf
    <2>4. CASE ~pos[t].sph
      <3>1. Pending(book[t], t, q, pos[t].sph) = book[t].toGo[t][q] - book[t].toGoSph[t][q]
        BY <2>4 DEF Pending
      <3>2. k = "other"
        BY <2>4 DEF KindOf
      <3> QED BY <1>7, <2>2, <3>1, <3>2
    <2> QED BY <2>3, <2>4
  <1>9. n = mine.send /\ n \in 0 .. BunchSizeDomain /\ n <= hold[t][q][k]
    <2>1. mine.send <= hold[t][q][k] /\ mine.send \in Nat
      BY <1>6, <1>8 DEF Transfers
    <2> QED BY <1>6, <1>7, <2>1, SizesAssumption DEF Lesser
  <1>10. /\ book' = [book EXCEPT ![t] = c]
         /\ amount' = [amount EXCEPT ![t] = mine]
         /\ hold' = [hold EXCEPT ![t][q][k] = @ - n]
         /\ NumPart' = [NumPart EXCEPT ![t] = @ - n]
         /\ N_gas' = IF pos[t].sph THEN [N_gas EXCEPT ![t] = @ - n] ELSE N_gas
         /\ buf' = [buf EXCEPT ![t] = n]
         /\ pos' = [pos EXCEPT ![t].leg = "rep0"]
    <2>1. amount' = [amount EXCEPT ![t] = mine] /\ book' = [book EXCEPT ![t] = c]
      BY DEF Collect
    <2>2. amount'[t] = mine
      BY <1>1, <2>1 DEF TypeOK
    <2> HIDE DEF a, p, q, k, x, c, mine
    <2>3. Lesser(amount'[t].send, hold[t][Partner(t)][KindOf(t)]) = n
      BY <2>2 DEF q, k
    <2>4. n = amount'[t].send
      BY <1>9, <2>2
    <2> QED BY <2>1, <2>3, <2>4, Zenon DEF Collect, q, k
  <1>11. /\ c.list_NumPart[t] = book[t].list_NumPart[t] + mine.recv - mine.send
         /\ pos[t].sph => c.list_N_gas[t] = book[t].list_N_gas[t] + mine.recv - mine.send
         /\ ~pos[t].sph => c.list_N_gas[t] = book[t].list_N_gas[t]
         /\ \A u \in Task \ {t} :
              /\ c.toGo[t][u] = book[t].toGo[t][u] - (IF u = q THEN mine.send ELSE 0)
              /\ pos[t].sph =>
                   c.toGoSph[t][u] = book[t].toGoSph[t][u] - (IF u = q THEN mine.send ELSE 0)
              /\ ~pos[t].sph => c.toGoSph[t][u] = book[t].toGoSph[t][u]
    <2>1. /\ x.send <= book[t].toGo[a][p] /\ x.recv <= book[t].toGo[p][a]
          /\ pos[t].sph => /\ x.send <= book[t].toGoSph[a][p]
                           /\ x.recv <= book[t].toGoSph[p][a]
      BY <1>2, <1>3, <1>4 DEF Pending, Covers, BookType, Transfers
    <2>2. /\ \A r \in Task : book[t].list_NumPart[r] \in Int /\ book[t].list_N_gas[r] \in Int
          /\ \A r, u \in Task : book[t].toGo[r][u] \in Nat /\ book[t].toGoSph[r][u] \in Nat
          /\ x.send \in Nat /\ x.recv \in Nat
      BY <1>3, <1>4 DEF BookType, Transfers
    <2>6. c = Account(book[t], a, p, pos[t].sph, x)
      BY DEF Accounted
    <2> HIDE DEF a, p, q, x, c
    <2>3. /\ \A r \in Task :
               c.list_NumPart[r] = LevelAfter(book[t].list_NumPart, a, p, x, r)
          /\ pos[t].sph => \A r \in Task :
               c.list_N_gas[r] = LevelAfter(book[t].list_N_gas, a, p, x, r)
          /\ ~pos[t].sph => c.list_N_gas = book[t].list_N_gas
          /\ \A r, u \in Task : c.toGo[r][u] = EntryAfter(book[t].toGo, a, p, x, r, u)
          /\ pos[t].sph => \A r, u \in Task :
               c.toGoSph[r][u] = EntryAfter(book[t].toGoSph, a, p, x, r, u)
          /\ ~pos[t].sph => c.toGoSph = book[t].toGoSph
      BY <1>2, <1>3, <1>4, <2>1, <2>6, AccountEntries, SMTT(60)
    <2>4. CASE t = a
      BY <1>2, <2>2, <2>3, <2>4 DEF LevelAfter, EntryAfter
    <2>5. CASE t # a
      BY <1>2, <2>2, <2>3, <2>5 DEF LevelAfter, EntryAfter
    <2> QED BY <2>4, <2>5
  <1> HIDE DEF a, p, q, k, x, c, mine, n
  <1>12. /\ hold' \in [Task -> [Task -> [Kind -> Nat]]]
         /\ \A r \in Task : r # t => hold'[r] = hold[r]
         /\ \A u \in Task : u # q => hold'[t][u] = hold[t][u]
         /\ hold'[t][q][k] = hold[t][q][k] - n
         /\ \A j \in Kind : j # k => hold'[t][q][j] = hold[t][q][j]
    <2>1. hold[t][q][k] - n \in Nat
      BY <1>7, <1>9
    <2>2. hold \in [Task -> [Task -> [Kind -> Nat]]]
      BY <1>1 DEF TypeOK
    <2>3. hold' = [hold EXCEPT ![t][q][k] = hold[t][q][k] - n]
      BY <1>10
    <2> QED BY <1>2, <2>1, <2>2, <2>3, ReplaceCount
  <1>13. TypeOK'
    <2>1. NumPart' \in [Task -> Int] /\ N_gas' \in [Task -> Int]
      BY <1>1, <1>9, <1>10 DEF TypeOK
    <2>2. buf' \in [Task -> 0 .. BunchSizeDomain] /\ book' \in [Task -> BookType]
      BY <1>1, <1>5, <1>9, <1>10 DEF TypeOK
    <2>3. pos' \in [Task -> [pair : 1 .. Len(PairSchedule), sph : BOOLEAN, leg : Leg]]
      BY <1>1, <1>10 DEF TypeOK, Leg
    <2>4. amount' \in [Task -> [send : Nat, recv : Nat]]
      BY <1>1, <1>6, <1>10 DEF TypeOK, Transfers
    <2> QED BY <1>12, <2>1, <2>2, <2>3, <2>4 DEF TypeOK
  <1>14. /\ book'[t] = c /\ amount'[t] = mine /\ buf'[t] = n
         /\ pos'[t].leg = "rep0" /\ pos'[t].sph = pos[t].sph
         /\ NumPart'[t] = NumPart[t] - n
         /\ pos[t].sph => N_gas'[t] = N_gas[t] - n
         /\ ~pos[t].sph => N_gas'[t] = N_gas[t]
    BY <1>1, <1>10 DEF TypeOK
  <1>15. ASSUME NEW s \in Task, s # t
         PROVE  /\ hold'[s] = hold[s] /\ NumPart'[s] = NumPart[s] /\ N_gas'[s] = N_gas[s]
                /\ buf'[s] = buf[s] /\ book'[s] = book[s] /\ pos'[s] = pos[s]
                /\ amount'[s] = amount[s]
    BY <1>1, <1>10, <1>12, <1>15 DEF TypeOK
  <1>16. NoAbort'
    BY <1>1, <1>14, <1>15 DEF NoAbort
  <1>17. \A u \in Task \ {t} :
           /\ c.toGo[t][u] = hold'[t][u].sph + hold'[t][u].other
           /\ c.toGoSph[t][u] = hold'[t][u].sph
    <2> TAKE u \in Task \ {t}
    <2>1. /\ book[t].toGo[t][u] = hold[t][u].sph + hold[t][u].other
          /\ book[t].toGoSph[t][u] = hold[t][u].sph
      BY <1>3 DEF OwnBook
    <2>2. hold[t][u].sph \in Nat /\ hold[t][u].other \in Nat /\ mine.send \in Nat
      BY <1>1, <1>6, HoldType DEF Transfers
    <2>3. CASE u # q
      <3>1. hold'[t][u] = hold[t][u]
        BY <1>12, <2>3
      <3>2. c.toGo[t][u] = book[t].toGo[t][u] - 0
        BY <1>11, <2>3
      <3>3. c.toGoSph[t][u] = hold[t][u].sph
        BY <1>3, <1>11, <2>1, <2>2, <2>3
      <3> QED BY <2>1, <2>2, <3>1, <3>2, <3>3
    <2>4. CASE u = q /\ pos[t].sph
      <3>1. k = "sph"
        BY <2>4 DEF k, KindOf
      <3>2. /\ hold'[t][u].sph = hold[t][u].sph - mine.send
            /\ hold'[t][u].other = hold[t][u].other
        BY <1>9, <1>12, <2>4, <3>1 DEF Kind
      <3>3. /\ c.toGo[t][u] = book[t].toGo[t][u] - mine.send
            /\ c.toGoSph[t][u] = book[t].toGoSph[t][u] - mine.send
        BY <1>11, <2>4
      <3> QED BY <2>1, <2>2, <3>2, <3>3
    <2>5. CASE u = q /\ ~pos[t].sph
      <3>1. k = "other"
        BY <2>5 DEF k, KindOf
      <3>2. /\ hold'[t][u].sph = hold[t][u].sph
            /\ hold'[t][u].other = hold[t][u].other - mine.send
        BY <1>9, <1>12, <2>5, <3>1 DEF Kind
      <3>3. /\ c.toGo[t][u] = book[t].toGo[t][u] - mine.send
            /\ c.toGoSph[t][u] = book[t].toGoSph[t][u]
        BY <1>11, <2>5
      <3> QED BY <2>1, <2>2, <3>2, <3>3
    <2> QED BY <1>3, <2>3, <2>4, <2>5
  <1>18. OwnBook(t)'
    <2>1. ToCome(t) = 0 /\ ToGive(t) = 0
      BY DEF ToCome, ToGive, Collect
    <2>2. ToCome(t)' = mine.recv /\ ToGive(t)' = mine.send
      BY <1>14 DEF ToCome, ToGive
    <2>3. mine.send \in Nat /\ mine.recv \in Nat
      BY <1>6 DEF Transfers
    <2>4. /\ NumPart[t] = book[t].list_NumPart[t]
          /\ N_gas[t] = book[t].list_N_gas[t]
      BY <1>3, <1>7, <2>1 DEF OwnBook
    <2>5. NumPart'[t] + mine.recv = c.list_NumPart[t]
      BY <1>7, <1>9, <1>11, <1>14, <2>3, <2>4
    <2>6. pos[t].sph => N_gas'[t] + mine.recv = c.list_N_gas[t]
      BY <1>7, <1>9, <1>11, <1>14, <2>3, <2>4
    <2>7. ~pos[t].sph => N_gas'[t] = c.list_N_gas[t]
      BY <1>11, <1>14, <2>4
    <2> QED BY <1>9, <1>14, <1>17, <2>2, <2>5, <2>6, <2>7 DEF OwnBook
  <1>19. ASSUME NEW s \in Task PROVE Sound(s)'
    <2>1. CASE s # t
      BY <1>1, <1>15, <2>1, Frame
    <2>2. CASE s = t
      BY <1>5, <1>14, <1>18, <2>2 DEF Sound, Settled, Fits, Covers
    <2> QED BY <2>1, <2>2
  <1> QED BY <1>13, <1>16, <1>19 DEF IInv

(* Finishing a direction: the second direction follows the first, and the  *)
(* next stage the second.                                                  *)
LEMMA LegFacts ==
  ASSUME NEW p \in [pair : 1 .. Len(PairSchedule), sph : BOOLEAN, leg : Leg], NEW b,
         p.leg \in {"rep0", "rep1"}
  PROVE  LET r == LegAfter(p, b)
         IN  /\ r \in [pair : 1 .. Len(PairSchedule), sph : BOOLEAN, leg : Leg]
             /\ p.leg = "rep0" => r.leg = "rep1" /\ r.pair = p.pair /\ r.sph = p.sph
             /\ p.leg = "rep1" => r.leg \in {"book", "done"}
             /\ r.leg = "done" => ~AnyToGo(b)
  <1>1. CASE p.leg = "rep0"
    <2>1. LegAfter(p, b) = [p EXCEPT !.leg = "rep1"]
      BY <1>1 DEF LegAfter
    <2> QED BY <1>1, <2>1 DEF Leg
  <1>2. CASE p.leg = "rep1"
    <2>1. LegAfter(p, b) = StageAfter(p, b)
      BY <1>2 DEF LegAfter
    <2> QED BY <1>2, <2>1, StageFacts
  <1> QED BY <1>1, <1>2

(* A task that finishes a direction without handing over or receiving more *)
(* than its fill levels record stays sound.  Either the direction was its  *)
(* turn to send, and the buffer is empty afterwards, or its turn to        *)
(* receive, and the fill levels grow by the count it computed.             *)
LEMMA LegSound ==
  ASSUME TypeOK, NEW t \in Task, Sound(t), pos[t].leg \in {"rep0", "rep1"},
         pos'[t] = LegAfter(pos[t], book[t]), book'[t] = book[t], amount'[t] = amount[t],
         \A u \in Task \ {t} : hold'[t][u] = hold[t][u],
         \/ /\ Sending(t) /\ buf'[t] = 0
            /\ NumPart'[t] = NumPart[t] /\ N_gas'[t] = N_gas[t]
         \/ /\ Receiving(t) /\ buf'[t] = buf[t]
            /\ NumPart'[t] = NumPart[t] + amount[t].recv
            /\ pos[t].sph => N_gas'[t] = N_gas[t] + amount[t].recv
            /\ ~pos[t].sph => N_gas'[t] = N_gas[t]
  PROVE  Sound(t)'
  <1> DEFINE r == LegAfter(pos[t], book[t])
             g == Partner(t)
  <1>1. /\ pos[t] \in [pair : 1 .. Len(PairSchedule), sph : BOOLEAN, leg : Leg]
        /\ amount[t].send \in Nat /\ amount[t].recv \in Nat
        /\ NumPart[t] \in Int /\ N_gas[t] \in Int
        /\ t \in Int /\ g \in Int
    <2>1. t \in Int /\ g \in Int
      BY PairFacts DEF Partner
    <2> QED BY <2>1 DEF TypeOK
  <1>2. /\ pos[t].leg = "rep0" => r.leg = "rep1" /\ r.pair = pos[t].pair /\ r.sph = pos[t].sph
        /\ pos[t].leg = "rep1" => r.leg \in {"book", "done"}
        /\ r.leg = "done" => ~AnyToGo(book[t])
    BY <1>1, LegFacts
  <1> HIDE DEF r
  <1>3. pos'[t] = r
    BY DEF r
  <1>4. pos[t].leg = "rep0" => Partner(t)' = g
    BY <1>2, <1>3 DEF Partner, Lower, Upper
  <1> HIDE DEF g
  <1>5. OwnBook(t) /\ Fits(book[t]) /\ Covers(book[t])
    BY DEF Sound
  <1>6. ASSUME Sending(t), buf'[t] = 0, NumPart'[t] = NumPart[t], N_gas'[t] = N_gas[t]
        PROVE  OwnBook(t)'
    <2>1. \/ pos[t].leg = "rep0" /\ t < g
          \/ pos[t].leg = "rep1" /\ t > g
      BY <1>6 DEF Sending, g
    <2>2. ToCome(t)' = ToCome(t) /\ ToGive(t)' = 0
      BY <1>1, <1>2, <1>3, <1>4, <2>1 DEF ToCome, ToGive, g
    <2>3. pos[t].leg = "rep1" => ToCome(t) = 0
      BY <1>1, <2>1 DEF ToCome, g
    <2>4. CASE pos[t].leg = "rep0"
      BY <1>2, <1>3, <1>5, <1>6, <2>2, <2>4 DEF OwnBook
    <2>5. CASE pos[t].leg = "rep1"
      <3>1. N_gas[t] = book[t].list_N_gas[t] /\ N_gas[t] + 0 = N_gas[t]
        BY <1>1, <1>5, <2>3, <2>5 DEF OwnBook
      <3> QED BY <1>5, <1>6, <2>2, <2>3, <2>5, <3>1 DEF OwnBook
    <2> QED BY <2>4, <2>5
  <1>7. ASSUME Receiving(t), buf'[t] = buf[t],
               NumPart'[t] = NumPart[t] + amount[t].recv,
               pos[t].sph => N_gas'[t] = N_gas[t] + amount[t].recv,
               ~pos[t].sph => N_gas'[t] = N_gas[t]
        PROVE  OwnBook(t)'
    <2>1. \/ pos[t].leg = "rep0" /\ t > g
          \/ pos[t].leg = "rep1" /\ t < g
      BY <1>7 DEF Receiving, g
    <2>2. ToCome(t) = amount[t].recv /\ ToCome(t)' = 0 /\ ToGive(t)' = ToGive(t)
      BY <1>1, <1>2, <1>3, <1>4, <2>1 DEF ToCome, ToGive, g
    <2>3. /\ NumPart'[t] = book[t].list_NumPart[t] /\ NumPart'[t] + 0 = NumPart'[t]
          /\ N_gas'[t] = book[t].list_N_gas[t] /\ N_gas'[t] + 0 = N_gas'[t]
      BY <1>1, <1>5, <1>7, <2>2 DEF OwnBook
    <2> QED BY <1>5, <1>7, <2>2, <2>3 DEF OwnBook
  <1>8. OwnBook(t)'
    BY <1>6, <1>7
  <1>9. Settled(t)' /\ Fits(book[t])' /\ Covers(book[t])'
    BY <1>2, <1>3, <1>5 DEF Settled, AnyToGo, Fits, Covers
  <1> QED BY <1>8, <1>9 DEF Sound

LEMMA SkipLegIInv ==
  ASSUME IInv, NEW t \in Task, SkipLeg(t) PROVE IInv'
  <1>1. TypeOK /\ NoAbort /\ \A s \in Task : Sound(s)
    BY DEF IInv
  <1>2. pos[t].leg \in {"rep0", "rep1"}
    BY DEF SkipLeg, Sending, Receiving
  <1>3. /\ pos' = [pos EXCEPT ![t] = LegAfter(pos[t], book[t])]
        /\ UNCHANGED <<hold, NumPart, N_gas, buf, book, amount>>
    BY DEF SkipLeg
  <1>4. pos[t] \in [pair : 1 .. Len(PairSchedule), sph : BOOLEAN, leg : Leg]
    BY <1>1 DEF TypeOK
  <1>5. /\ LegAfter(pos[t], book[t]) \in [pair : 1 .. Len(PairSchedule), sph : BOOLEAN, leg : Leg]
        /\ LegAfter(pos[t], book[t]).leg # "abort"
    BY <1>2, <1>4, LegFacts
  <1>6. pos'[t] = LegAfter(pos[t], book[t]) /\ \A s \in Task \ {t} : pos'[s] = pos[s]
    BY <1>1, <1>3 DEF TypeOK
  <1>7. TypeOK'
    BY <1>1, <1>3, <1>5 DEF TypeOK
  <1>8. NoAbort'
    BY <1>1, <1>5, <1>6 DEF NoAbort
  <1>9. Sound(t)'
    <2>1. NumPart[t] \in Int /\ N_gas[t] \in Int
      BY <1>1 DEF TypeOK
    <2>2. CASE Sending(t) /\ amount[t].send = 0
      <3>1. buf[t] = 0
        BY <1>1, <2>2 DEF Sound, OwnBook, ToGive, Sending
      <3> QED BY <1>1, <1>2, <1>3, <1>6, <2>2, <3>1, LegSound
    <2>3. CASE Receiving(t) /\ amount[t].recv = 0
      <3>1. /\ NumPart'[t] = NumPart[t] + amount[t].recv
            /\ N_gas'[t] = N_gas[t] + amount[t].recv
            /\ N_gas'[t] = N_gas[t]
        BY <1>3, <2>1, <2>3
      <3> QED BY <1>1, <1>2, <1>3, <1>6, <2>3, <3>1, LegSound
    <2> QED BY <2>2, <2>3 DEF SkipLeg
  <1>10. ASSUME NEW s \in Task, s # t PROVE Sound(s)'
    BY <1>1, <1>3, <1>6, <1>10, Frame
  <1> QED BY <1>7, <1>8, <1>9, <1>10 DEF IInv

LEMMA TransferIInv ==
  ASSUME IInv, NEW t \in Task, NEW u \in Task, Transfer(t, u) PROVE IInv'
  <1> DEFINE k == KindOf(t)
             v == hold[u][u][k] + buf[t]
  <1>1. TypeOK /\ NoAbort /\ \A s \in Task : Sound(s)
    BY DEF IInv
  <1>2. /\ Sending(t) /\ Partner(t) = u /\ Receiving(u) /\ Partner(u) = t
        /\ pos[t].leg \in {"rep0", "rep1"} /\ pos[u].leg \in {"rep0", "rep1"}
    BY DEF Transfer, MeetsAt, Sending, Receiving
  <1>3. t # u
    <2>1. t \in Int /\ u \in Int
      BY SizesAssumption DEF Task
    <2> QED BY <1>2, <2>1 DEF Sending
  <1>4. /\ pos[t] \in [pair : 1 .. Len(PairSchedule), sph : BOOLEAN, leg : Leg]
        /\ pos[u] \in [pair : 1 .. Len(PairSchedule), sph : BOOLEAN, leg : Leg]
        /\ buf[t] \in Nat /\ amount[u].recv \in Nat
    BY <1>1, SizesAssumption DEF TypeOK
  <1>5. /\ k \in Kind /\ v \in Nat
    <2>1. k \in Kind
      BY <1>1, PairFacts
    <2> HIDE DEF k
    <2>2. hold[u][u][k] \in Nat
      BY <1>1, <2>1, HoldType
    <2> QED BY <1>4, <2>1, <2>2
  <1>6. /\ hold' = [hold EXCEPT ![u][u][k] = v]
        /\ NumPart' = [NumPart EXCEPT ![u] = @ + amount[u].recv]
        /\ N_gas' = IF pos[u].sph THEN [N_gas EXCEPT ![u] = @ + amount[u].recv] ELSE N_gas
        /\ buf' = [buf EXCEPT ![t] = 0]
        /\ pos' = [pos EXCEPT ![t] = LegAfter(pos[t], book[t]), ![u] = LegAfter(pos[u], book[u])]
        /\ UNCHANGED <<book, amount>>
    BY <1>1, <1>3 DEF Transfer, TypeOK
  <1> HIDE DEF k, v
  <1>7. /\ hold' \in [Task -> [Task -> [Kind -> Nat]]]
        /\ \A s \in Task : s # u => hold'[s] = hold[s]
        /\ \A s \in Task : s # u => hold'[u][s] = hold[u][s]
    <2>1. hold \in [Task -> [Task -> [Kind -> Nat]]]
      BY <1>1 DEF TypeOK
    <2> QED BY <1>5, <1>6, <2>1, ReplaceCount
  <1>8. /\ LegAfter(pos[t], book[t]) \in [pair : 1 .. Len(PairSchedule), sph : BOOLEAN, leg : Leg]
        /\ LegAfter(pos[u], book[u]) \in [pair : 1 .. Len(PairSchedule), sph : BOOLEAN, leg : Leg]
        /\ LegAfter(pos[t], book[t]).leg # "abort"
        /\ LegAfter(pos[u], book[u]).leg # "abort"
    BY <1>2, <1>4, LegFacts
  <1>9. /\ pos'[t] = LegAfter(pos[t], book[t]) /\ pos'[u] = LegAfter(pos[u], book[u])
        /\ \A s \in Task \ {t, u} : pos'[s] = pos[s]
    BY <1>1, <1>3, <1>6 DEF TypeOK
  <1>10. TypeOK'
    <2>1. NumPart' \in [Task -> Int] /\ N_gas' \in [Task -> Int]
      BY <1>1, <1>4, <1>6, SMTT(60) DEF TypeOK
    <2>2. buf' \in [Task -> 0 .. BunchSizeDomain]
      BY <1>1, <1>6, SizesAssumption DEF TypeOK
    <2>3. pos' \in [Task -> [pair : 1 .. Len(PairSchedule), sph : BOOLEAN, leg : Leg]]
      BY <1>1, <1>6, <1>8 DEF TypeOK
    <2> QED BY <1>1, <1>6, <1>7, <2>1, <2>2, <2>3 DEF TypeOK
  <1>11. NoAbort'
    BY <1>1, <1>8, <1>9 DEF NoAbort
  <1>12. Sound(t)'
    <2>1. /\ buf'[t] = 0 /\ NumPart'[t] = NumPart[t] /\ N_gas'[t] = N_gas[t]
          /\ hold'[t] = hold[t] /\ book'[t] = book[t] /\ amount'[t] = amount[t]
      BY <1>1, <1>3, <1>6, <1>7 DEF TypeOK
    <2> QED BY <1>1, <1>2, <1>9, <2>1, LegSound
  <1>13. Sound(u)'
    <2>1. /\ buf'[u] = buf[u] /\ book'[u] = book[u] /\ amount'[u] = amount[u]
          /\ NumPart'[u] = NumPart[u] + amount[u].recv
          /\ pos[u].sph => N_gas'[u] = N_gas[u] + amount[u].recv
          /\ ~pos[u].sph => N_gas'[u] = N_gas[u]
      BY <1>1, <1>3, <1>6 DEF TypeOK
    <2>2. \A s \in Task \ {u} : hold'[u][s] = hold[u][s]
      BY <1>7
    <2> QED BY <1>1, <1>2, <1>9, <2>1, <2>2, LegSound
  <1>14. ASSUME NEW s \in Task, s # t, s # u PROVE Sound(s)'
    <2>1. /\ hold'[s] = hold[s] /\ NumPart'[s] = NumPart[s] /\ N_gas'[s] = N_gas[s]
          /\ buf'[s] = buf[s] /\ book'[s] = book[s] /\ pos'[s] = pos[s]
          /\ amount'[s] = amount[s]
      BY <1>1, <1>6, <1>7, <1>9, <1>14 DEF TypeOK
    <2> QED BY <1>1, <2>1, Frame
  <1> QED BY <1>10, <1>11, <1>12, <1>13, <1>14 DEF IInv

LEMMA NextIInv == IInv /\ [Next]_vars => IInv'
  <1> SUFFICES ASSUME IInv, [Next]_vars PROVE IInv'
    OBVIOUS
  <1>1. CASE \E t \in Task : Step(t)
    <2>1. PICK t \in Task : Step(t)
      BY <1>1
    <2>2. CASE Bookkeep(t)
      BY <2>2, BookkeepIInv
    <2>3. CASE Collect(t)
      BY <2>3, CollectIInv
    <2>4. CASE SkipLeg(t)
      BY <2>4, SkipLegIInv
    <2>5. CASE \E u \in Task : Transfer(t, u)
      BY <2>5, TransferIInv
    <2> QED BY <2>1, <2>2, <2>3, <2>4, <2>5 DEF Step
  <1>2. CASE UNCHANGED vars
    BY <1>2 DEF IInv, TypeOK, NoAbort, Sound, Fits, Covers, OwnBook, Settled,
                ToCome, ToGive, AnyToGo, Partner, Lower, Upper, vars
  <1>3. CASE Return
    BY <1>2, <1>3 DEF Return
  <1> QED BY <1>1, <1>2, <1>3 DEF Next

THEOREM Invariance == Spec => []IInv
  BY InitIInv, NextIInv, PTL DEF Spec

(* The variables keep their types.                                         *)
THEOREM TypeCorrect == Spec => []TypeOK
  <1>1. IInv => TypeOK
    BY DEF IInv
  <1> QED BY <1>1, Invariance, PTL

(* No array of any task is ever overrun by the exchange.                   *)
THEOREM MemorySafe == Spec => []MemoryBound
  <1>1. IInv => MemoryBound
    <2> SUFFICES ASSUME IInv, NEW t \in Task
                 PROVE  NumPart[t] <= MaxPart /\ N_gas[t] <= MaxPartSph
      BY DEF MemoryBound
    <2>1. /\ NumPart[t] \in Int /\ N_gas[t] \in Int
          /\ amount[t].recv \in Nat /\ pos[t].sph \in BOOLEAN
      BY DEF IInv, TypeOK
    <2>2. ToCome(t) \in Nat
      BY <2>1 DEF ToCome
    <2>3. /\ book[t].list_NumPart[t] <= MaxPart /\ book[t].list_N_gas[t] <= MaxPartSph
          /\ OwnBook(t)
      BY DEF IInv, Sound, Fits
    <2>4. /\ NumPart[t] + ToCome(t) = book[t].list_NumPart[t]
          /\ \/ N_gas[t] + ToCome(t) = book[t].list_N_gas[t]
             \/ N_gas[t] = book[t].list_N_gas[t]
      BY <2>1, <2>3 DEF OwnBook
    <2> QED BY <2>1, <2>2, <2>3, <2>4, SizesAssumption
  <1> QED BY <1>1, Invariance, PTL

(* No task ever reaches endrun(88): its arrays hold what its books say.    *)
THEOREM NeverAborts == Spec => []NoAbort
  <1>1. IInv => NoAbort
    BY DEF IInv
  <1> QED BY <1>1, Invariance, PTL

(* Whoever has left the loop keeps no particle of another task.            *)
THEOREM LeavesClean == Spec => []DoneIsHome
  <1>1. IInv => DoneIsHome
    <2> SUFFICES ASSUME IInv, NEW t \in Task, pos[t].leg = "done"
                 PROVE  /\ buf[t] = 0
                        /\ \A d \in Task \ {t} : hold[t][d] = [k \in Kind |-> 0]
      BY DEF DoneIsHome
    <2>1. TypeOK /\ OwnBook(t) /\ ~AnyToGo(book[t])
      BY DEF IInv, Sound, Settled
    <2>2. buf[t] = 0
      BY <2>1 DEF OwnBook, ToGive
    <2>3. ASSUME NEW d \in Task \ {t} PROVE hold[t][d] = [k \in Kind |-> 0]
      <3>1. /\ hold[t][d] \in [Kind -> Nat]
            /\ hold[t][d].sph \in Nat /\ hold[t][d].other \in Nat
        BY <2>1, HoldType
      <3>2. book[t].toGo[t][d] \in Nat /\ ~(book[t].toGo[t][d] > 0)
        BY <2>1 DEF TypeOK, BookType, AnyToGo
      <3>3. book[t].toGo[t][d] = hold[t][d].sph + hold[t][d].other
        BY <2>1 DEF OwnBook
      <3>4. hold[t][d].sph = 0 /\ hold[t][d].other = 0
        BY <3>1, <3>2, <3>3
      <3> QED BY <3>1, <3>4 DEF Kind
    <2> QED BY <2>2, <2>3
  <1> QED BY <1>1, Invariance, PTL
-------------------------------------------------------------------------------
(* Refinement: the exchange implements the safety part of Redistribution.  *)

Table == [Task -> [Task -> [Kind -> Nat]]]

(* The particles of t in flight to d.                                      *)
InFlight(t, d, k) ==
  IF pos[t].leg \in {"rep0", "rep1"} /\ d = Partner(t) /\ k = KindOf(t) THEN buf[t] ELSE 0

LEMMA TableEqual ==
  ASSUME NEW f \in Table, NEW g \in Table,
         \A t, d \in Task : \A k \in Kind : f[t][d][k] = g[t][d][k]
  PROVE  f = g
  <1>1. \A t, d \in Task : f[t][d] = g[t][d]
    BY DEF Table
  <1>2. \A t \in Task : f[t] = g[t]
    BY <1>1 DEF Table
  <1> QED BY <1>2 DEF Table

LEMMA HeldEntries ==
  TypeOK => /\ Held \in Table
            /\ \A t, d \in Task : \A k \in Kind : Held[t][d][k] = hold[t][d][k] + InFlight(t, d, k)
  <1> SUFFICES ASSUME TypeOK
               PROVE  /\ Held \in Table
                      /\ \A t, d \in Task : \A k \in Kind :
                           Held[t][d][k] = hold[t][d][k] + InFlight(t, d, k)
    OBVIOUS
  <1>1. Held = [t \in Task |-> [d \in Task |-> [k \in Kind |-> hold[t][d][k] + InFlight(t, d, k)]]]
    BY DEF Held, InFlight
  <1>2. ASSUME NEW t \in Task, NEW d \in Task, NEW k \in Kind
        PROVE  hold[t][d][k] + InFlight(t, d, k) \in Nat
    <2>1. hold[t][d][k] \in Nat /\ buf[t] \in Nat
      BY HoldType, SizesAssumption DEF TypeOK
    <2> QED BY <2>1 DEF InFlight
  <1> QED BY <1>1, <1>2 DEF Table

LEMMA HeldEntriesNext ==
  TypeOK' => /\ Held' \in Table
             /\ \A t, d \in Task : \A k \in Kind :
                  Held'[t][d][k] = hold'[t][d][k] + InFlight(t, d, k)'
  <1>1. (TypeOK => /\ Held \in Table
                   /\ \A t, d \in Task : \A k \in Kind :
                        Held[t][d][k] = hold[t][d][k] + InFlight(t, d, k))'
    BY HeldEntries, PTL
  <1> QED BY <1>1

(* Initially nothing is in flight.                                         *)
LEMMA InitRefines == Init => R!RInit
  <1> SUFFICES ASSUME Init PROVE R!RInit
    OBVIOUS
  <1>1. TypeOK
    BY InitIInv DEF IInv
  <1>2. \A t, d \in Task : \A k \in Kind : InFlight(t, d, k) = 0
    BY DEF Init, InFlight, FirstStage
  <1>3. hold \in Table
    BY <1>1 DEF TypeOK, Table
  <1>4. \A t, d \in Task : \A k \in Kind : Held[t][d][k] = hold[t][d][k]
    BY <1>1, <1>2, <1>3, HeldEntries DEF Table
  <1>5. Held = hold
    BY <1>1, <1>3, <1>4, HeldEntries, TableEqual
  <1> QED BY <1>5 DEF Init, R!RInit

(* A step after which every task answers for the same particles stutters.  *)
LEMMA SameHeld ==
  ASSUME TypeOK, TypeOK',
         \A t, d \in Task : \A k \in Kind :
            hold[t][d][k] + InFlight(t, d, k) = hold'[t][d][k] + InFlight(t, d, k)'
  PROVE  Held' = Held
  <1>1. /\ Held' \in Table
        /\ \A t, d \in Task : \A k \in Kind :
             Held'[t][d][k] = hold'[t][d][k] + InFlight(t, d, k)'
    BY HeldEntriesNext
  <1>2. /\ Held \in Table
        /\ \A t, d \in Task : \A k \in Kind : Held[t][d][k] = hold[t][d][k] + InFlight(t, d, k)
    BY HeldEntries
  <1> QED BY <1>1, <1>2, TableEqual

LEMMA BookkeepStutters ==
  ASSUME TypeOK, TypeOK', NEW t \in Task, Bookkeep(t) PROVE Held' = Held
  <1>1. /\ pos[t].leg = "book" /\ hold' = hold /\ buf' = buf
        /\ \E b : pos' = [pos EXCEPT ![t] = StageAfter(pos[t], b)]
    BY DEF Bookkeep
  <1>2. pos'[t].leg \in {"book", "done"} /\ \A s \in Task \ {t} : pos'[s] = pos[s]
    BY <1>1, StageFacts DEF TypeOK
  <1>3. \A s, d \in Task : \A k \in Kind : InFlight(s, d, k)' = InFlight(s, d, k)
    <2> SUFFICES ASSUME NEW s \in Task, NEW d \in Task, NEW k \in Kind
                 PROVE  InFlight(s, d, k)' = InFlight(s, d, k)
      OBVIOUS
    <2>1. CASE s = t
      BY <1>1, <1>2, <2>1 DEF InFlight
    <2>2. CASE s # t
      BY <1>1, <1>2, <2>2 DEF InFlight, Partner, KindOf, Lower, Upper
    <2> QED BY <2>1, <2>2
  <1> QED BY <1>1, <1>3, SameHeld

(* Collecting moves particles from the arrays into flight.                 *)
LEMMA CollectStutters ==
  ASSUME IInv, TypeOK', NEW t \in Task, Collect(t) PROVE Held' = Held
  <1> DEFINE q == Partner(t)
             k == KindOf(t)
             n == Lesser(amount'[t].send, hold[t][q][k])
  <1>1. TypeOK
    BY DEF IInv
  <1>2. q \in Task /\ k \in Kind
    BY <1>1, PairFacts DEF Collect
  <1>3. hold[t][q][k] \in Nat /\ amount'[t].send \in Nat
    <2>1. amount'[t].send \in Nat
      BY DEF TypeOK
    <2> HIDE DEF q, k
    <2>2. hold[t][q] \in [Kind -> Nat]
      BY <1>1, <1>2, HoldType
    <2> QED BY <1>2, <2>1, <2>2
  <1>4. n \in Nat /\ n <= hold[t][q][k]
    BY <1>3 DEF Lesser
  <1>5. /\ pos[t].leg = "book"
        /\ hold' = [hold EXCEPT ![t][q][k] = hold[t][q][k] - n]
        /\ buf' = [buf EXCEPT ![t] = n]
        /\ pos' = [pos EXCEPT ![t].leg = IF n = amount'[t].send THEN "rep0" ELSE "abort"]
    BY DEF Collect
  <1>6. NoAbort'
    BY CollectIInv DEF IInv
  <1>7. /\ pos'[t].leg = "rep0" /\ pos'[t].pair = pos[t].pair /\ pos'[t].sph = pos[t].sph
        /\ \A s \in Task \ {t} : pos'[s] = pos[s] /\ buf'[s] = buf[s]
        /\ buf'[t] = n
    BY <1>1, <1>5, <1>6 DEF TypeOK, NoAbort
  <1>8. Partner(t)' = q /\ KindOf(t)' = k
    BY <1>7 DEF Partner, Lower, Upper, KindOf
  <1> HIDE DEF q, k, n
  <1>9. /\ \A r \in Task : r # t => hold'[r] = hold[r]
        /\ \A u \in Task : u # q => hold'[t][u] = hold[t][u]
        /\ hold'[t][q][k] = hold[t][q][k] - n
        /\ \A j \in Kind : j # k => hold'[t][q][j] = hold[t][q][j]
    <2>1. hold[t][q][k] - n \in Nat
      BY <1>3, <1>4
    <2>2. hold \in [Task -> [Task -> [Kind -> Nat]]]
      BY <1>1 DEF TypeOK
    <2> QED BY <1>2, <1>5, <2>1, <2>2, ReplaceCount
  <1>10. ASSUME NEW s \in Task, NEW d \in Task, NEW j \in Kind
         PROVE  hold[s][d][j] + InFlight(s, d, j) = hold'[s][d][j] + InFlight(s, d, j)'
    <2>1. CASE s # t
      <3>1. InFlight(s, d, j)' = InFlight(s, d, j)
        BY <1>7, <2>1 DEF InFlight, Partner, KindOf, Lower, Upper
      <3> QED BY <1>9, <2>1, <3>1
    <2>2. CASE s = t /\ d = q /\ j = k
      <3>1. InFlight(s, d, j) = 0 /\ InFlight(s, d, j)' = n
        BY <1>5, <1>7, <1>8, <2>2 DEF InFlight
      <3> QED BY <1>3, <1>4, <1>9, <2>2, <3>1
    <2>3. CASE s = t /\ ~(d = q /\ j = k)
      <3>1. InFlight(s, d, j) = 0 /\ InFlight(s, d, j)' = 0
        BY <1>5, <1>8, <2>3 DEF InFlight
      <3> QED BY <1>9, <2>3, <3>1
    <2> QED BY <2>1, <2>2, <2>3
  <1> QED BY <1>1, <1>10, SameHeld

(* A skipped direction has nothing in flight that it would lose.           *)
LEMMA SkipLegStutters ==
  ASSUME IInv, TypeOK', NEW t \in Task, SkipLeg(t) PROVE Held' = Held
  <1>1. TypeOK /\ OwnBook(t)
    BY DEF IInv, Sound
  <1>2. /\ pos[t].leg \in {"rep0", "rep1"}
        /\ pos' = [pos EXCEPT ![t] = LegAfter(pos[t], book[t])]
        /\ hold' = hold /\ buf' = buf
    BY DEF SkipLeg, Sending, Receiving
  <1>3. /\ pos'[t] = LegAfter(pos[t], book[t])
        /\ \A s \in Task \ {t} : pos'[s] = pos[s]
        /\ pos[t] \in [pair : 1 .. Len(PairSchedule), sph : BOOLEAN, leg : Leg]
    BY <1>1, <1>2 DEF TypeOK
  <1>4. /\ pos[t].leg = "rep0" => /\ pos'[t].leg = "rep1" /\ pos'[t].pair = pos[t].pair
                                  /\ pos'[t].sph = pos[t].sph
        /\ pos[t].leg = "rep1" => pos'[t].leg \in {"book", "done"}
    BY <1>2, <1>3, LegFacts
  <1>5. pos[t].leg = "rep1" => buf[t] = 0
    <2>1. t \in Int /\ Partner(t) \in Int
      BY <1>1, PairFacts DEF Partner
    <2> QED BY <1>1, <2>1 DEF OwnBook, ToGive, SkipLeg, Sending, Receiving
  <1>6. ASSUME NEW s \in Task, NEW d \in Task, NEW j \in Kind
        PROVE  InFlight(s, d, j)' = InFlight(s, d, j)
    <2>1. CASE s # t
      BY <1>2, <1>3, <2>1 DEF InFlight, Partner, KindOf, Lower, Upper
    <2>2. CASE s = t /\ pos[t].leg = "rep0"
      BY <1>2, <1>4, <2>2 DEF InFlight, Partner, KindOf, Lower, Upper
    <2>3. CASE s = t /\ pos[t].leg = "rep1"
      BY <1>2, <1>4, <1>5, <2>3 DEF InFlight
    <2> QED BY <1>2, <2>1, <2>2, <2>3
  <1> QED BY <1>1, <1>2, <1>6, SameHeld

(* A message that is received is one delivery.                             *)
LEMMA TransferDelivers ==
  ASSUME IInv, TypeOK', NEW t \in Task, NEW u \in Task, Transfer(t, u)
  PROVE  R!Deliver(t, u, KindOf(t))
  <1> DEFINE k == KindOf(t)
             n == buf[t]
             v == hold[u][u][k] + n
  <1>1. TypeOK /\ OwnBook(t) /\ OwnBook(u)
    BY DEF IInv, Sound
  <1>2. /\ Sending(t) /\ Partner(t) = u /\ amount[t].send > 0
        /\ Receiving(u) /\ Partner(u) = t
        /\ pos[t].leg \in {"rep0", "rep1"} /\ pos[u].leg \in {"rep0", "rep1"}
        /\ t \in Int /\ u \in Int
    <2>1. t \in Int /\ u \in Int
      BY <1>1, PairFacts
    <2> QED BY <2>1 DEF Transfer, MeetsAt, Sending, Receiving
  <1>3. t # u
    BY <1>2 DEF Sending
  <1>4. n = amount[t].send /\ n \in Nat /\ n > 0
    <2>1. amount[t].send \in Nat
      BY <1>1 DEF TypeOK
    <2> QED BY <1>1, <1>2, <2>1 DEF OwnBook, ToGive, Sending
  <1>5. k \in Kind /\ hold[u][u] \in [Kind -> Nat] /\ hold[t][u] \in [Kind -> Nat]
    BY <1>1, PairFacts, HoldType
  <1>6. /\ hold' = [hold EXCEPT ![u][u][k] = v]
        /\ buf' = [buf EXCEPT ![t] = 0]
        /\ pos' = [pos EXCEPT ![t] = LegAfter(pos[t], book[t]), ![u] = LegAfter(pos[u], book[u])]
    BY <1>1, <1>3 DEF Transfer, TypeOK
  <1>7. /\ pos'[t] = LegAfter(pos[t], book[t]) /\ pos'[u] = LegAfter(pos[u], book[u])
        /\ \A s \in Task \ {t, u} : pos'[s] = pos[s]
        /\ buf'[t] = 0 /\ \A s \in Task \ {t} : buf'[s] = buf[s]
        /\ pos[t] \in [pair : 1 .. Len(PairSchedule), sph : BOOLEAN, leg : Leg]
        /\ pos[u] \in [pair : 1 .. Len(PairSchedule), sph : BOOLEAN, leg : Leg]
    BY <1>1, <1>3, <1>6 DEF TypeOK
  <1>8. /\ pos[u].leg = "rep0" => /\ pos'[u].leg = "rep1" /\ pos'[u].pair = pos[u].pair
                                  /\ pos'[u].sph = pos[u].sph
        /\ pos[u].leg = "rep1" => pos'[u].leg \in {"book", "done"}
    BY <1>2, <1>7, LegFacts
  <1>9. pos[u].leg = "rep1" => buf[u] = 0
    BY <1>1, <1>2 DEF OwnBook, ToGive, Receiving
  <1> HIDE DEF k, n, v
  <1>10. /\ \A s \in Task : s # u => hold'[s] = hold[s]
         /\ \A d \in Task : d # u => hold'[u][d] = hold[u][d]
         /\ hold'[u][u][k] = v
         /\ \A j \in Kind : j # k => hold'[u][u][j] = hold[u][u][j]
    <2>1. hold \in [Task -> [Task -> [Kind -> Nat]]]
      BY <1>1 DEF TypeOK
    <2>2. v \in Nat
      BY <1>4, <1>5 DEF v
    <2> QED BY <1>5, <1>6, <2>1, <2>2, ReplaceCount
  <1>11. /\ \A s, d \in Task : \A j \in Kind : s # t => InFlight(s, d, j)' = InFlight(s, d, j)
         /\ \A d \in Task : \A j \in Kind : InFlight(t, d, j)' = 0
         /\ \A d \in Task : \A j \in Kind :
              InFlight(t, d, j) = IF d = u /\ j = k THEN n ELSE 0
    <2>1. \A d \in Task : \A j \in Kind :
             /\ InFlight(t, d, j)' = 0
             /\ InFlight(t, d, j) = IF d = u /\ j = k THEN n ELSE 0
      BY <1>2, <1>7 DEF InFlight, k, n
    <2>2. ASSUME NEW s \in Task, NEW d \in Task, NEW j \in Kind, s # t
          PROVE  InFlight(s, d, j)' = InFlight(s, d, j)
      <3>1. CASE s # u
        BY <1>7, <2>2, <3>1 DEF InFlight, Partner, KindOf, Lower, Upper
      <3>2. CASE s = u /\ pos[u].leg = "rep0"
        BY <1>3, <1>7, <1>8, <3>2 DEF InFlight, Partner, KindOf, Lower, Upper
      <3>3. CASE s = u /\ pos[u].leg = "rep1"
        BY <1>3, <1>7, <1>8, <1>9, <3>3 DEF InFlight
      <3> QED BY <1>2, <3>1, <3>2, <3>3
    <2> QED BY <2>1, <2>2
  <1>12. /\ Held \in Table /\ Held' \in Table
         /\ \A s, d \in Task : \A j \in Kind :
              /\ Held[s][d][j] = hold[s][d][j] + InFlight(s, d, j)
              /\ Held'[s][d][j] = hold'[s][d][j] + InFlight(s, d, j)'
    BY <1>1, HeldEntries, HeldEntriesNext
  <1>13. ASSUME NEW s \in Task, NEW d \in Task, NEW j \in Kind
         PROVE  /\ hold[s][d][j] \in Nat
                /\ InFlight(s, d, j) \in Nat
    <2>1. hold[s][d] \in [Kind -> Nat] /\ buf[s] \in Nat
      BY <1>1, HoldType, SizesAssumption DEF TypeOK
    <2> QED BY <2>1 DEF InFlight
  <1> DEFINE After == [Held EXCEPT ![t][u][k] = @ - n, ![u][u][k] = @ + n]
  <1>14. Held[t][u][k] = hold[t][u][k] + n /\ hold[t][u][k] \in Nat
    BY <1>5, <1>11, <1>12
  <1>15. /\ After \in Table
         /\ \A s, d \in Task : \A j \in Kind :
              After[s][d][j] = IF s = t /\ d = u /\ j = k THEN Held[s][d][j] - n
                               ELSE IF s = u /\ d = u /\ j = k THEN Held[s][d][j] + n
                               ELSE Held[s][d][j]
    <2> DEFINE w == Held[t][u][k] - n
               z == Held[u][u][k] + n
               g == [Held EXCEPT ![t][u][k] = w]
               h == [g EXCEPT ![u][u][k] = z]
    <2>1. Held[u][u][k] \in Nat
      BY <1>5, <1>12 DEF Table
    <2>2. w \in Nat /\ z \in Nat
      BY <1>4, <1>14, <2>1
    <2>3. Held \in [Task -> [Task -> [Kind -> Nat]]]
      BY <1>12 DEF Table
    <2> HIDE DEF w, z
    <2>4. /\ g \in [Task -> [Task -> [Kind -> Nat]]]
          /\ \A r \in Task : r # t => g[r] = Held[r]
          /\ \A d \in Task : d # u => g[t][d] = Held[t][d]
          /\ g[t][u][k] = w
          /\ \A j \in Kind : j # k => g[t][u][j] = Held[t][u][j]
      BY <1>5, <2>2, <2>3, ReplaceCount
    <2> HIDE DEF g
    <2>5. /\ h \in [Task -> [Task -> [Kind -> Nat]]]
          /\ \A r \in Task : r # u => h[r] = g[r]
          /\ \A d \in Task : d # u => h[u][d] = g[u][d]
          /\ h[u][u][k] = z
          /\ \A j \in Kind : j # k => h[u][u][j] = g[u][u][j]
      BY <1>5, <2>2, <2>4, ReplaceCount
    <2> HIDE DEF h
    <2>6. After = h
      <3>1. g[u][u][k] = Held[u][u][k]
        BY <1>3, <2>4
      <3> QED BY <1>3, <3>1, <2>3 DEF h, g, w, z
    <2>7. ASSUME NEW s \in Task, NEW d \in Task, NEW j \in Kind
          PROVE  h[s][d][j] = IF s = t /\ d = u /\ j = k THEN Held[s][d][j] - n
                              ELSE IF s = u /\ d = u /\ j = k THEN Held[s][d][j] + n
                              ELSE Held[s][d][j]
      BY <1>3, <2>4, <2>5 DEF w, z
    <2> HIDE DEF After
    <2> QED BY <2>5, <2>6, <2>7, Zenon DEF Table
  <1> HIDE DEF After
  <1>16. ASSUME NEW s \in Task, NEW d \in Task, NEW j \in Kind
         PROVE  Held'[s][d][j] = After[s][d][j]
    <2>1. CASE s = t /\ d = u /\ j = k
      BY <1>3, <1>4, <1>10, <1>11, <1>12, <1>13, <1>14, <1>15, <2>1
    <2>2. CASE s = u /\ d = u /\ j = k
      BY <1>3, <1>4, <1>10, <1>11, <1>12, <1>13, <1>15, <2>2 DEF v
    <2>3. CASE s = t /\ ~(d = u /\ j = k)
      BY <1>3, <1>10, <1>11, <1>12, <1>15, <2>3
    <2>4. CASE s # t /\ ~(s = u /\ d = u /\ j = k)
      <3>1. hold'[s][d][j] = hold[s][d][j]
        BY <1>10, <2>4
      <3> QED BY <1>11, <1>12, <1>15, <2>4, <3>1
    <2> QED BY <2>1, <2>2, <2>3, <2>4
  <1>17. Held' = After
    BY <1>12, <1>15, <1>16, TableEqual
  <1>18. n \in 1 .. Held[t][u][k]
    BY <1>4, <1>14
  <1>19. Held' = [Held EXCEPT ![t][u][k] = @ - n, ![u][u][k] = @ + n]
    BY <1>17 DEF After
  <1> QED BY <1>3, <1>18, <1>19 DEF R!Deliver, k

(* Every step of the exchange is a delivery or leaves the redistribution   *)
(* unchanged.                                                              *)
LEMMA NextRefines ==
  ASSUME IInv, TypeOK', [Next]_vars PROVE [R!RNext]_Held
  <1>1. ASSUME NEW t \in Task, Bookkeep(t) PROVE Held' = Held
    BY <1>1, BookkeepStutters DEF IInv, Sound
  <1>2. ASSUME NEW t \in Task, Collect(t) PROVE Held' = Held
    BY <1>2, CollectStutters
  <1>3. ASSUME NEW t \in Task, SkipLeg(t) PROVE Held' = Held
    BY <1>3, SkipLegStutters
  <1>4. ASSUME NEW t \in Task, NEW u \in Task, Transfer(t, u) PROVE R!RNext
    <2>1. KindOf(t) \in Kind
      BY DEF KindOf, Kind
    <2> QED BY <1>4, <2>1, TransferDelivers DEF R!RNext
  <1>5. ASSUME UNCHANGED vars PROVE Held' = Held
    BY <1>5 DEF vars, Held, Partner, KindOf, Lower, Upper
  <1> QED BY <1>1, <1>2, <1>3, <1>4, <1>5 DEF Next, Step, Return

(* The exchange implements the safety part of the redistribution: in every *)
(* run, for every number of tasks and every array size, particles travel   *)
(* straight to the owner of their domain, and none is lost, duplicated or  *)
(* moved elsewhere (domain_exchangeParticles, domain.c).                   *)
THEOREM Refines == Spec => ImplementsSafely
  <1>1. Init => R!RInit
    BY InitRefines
  <1>2. IInv /\ TypeOK' /\ [Next]_vars => [R!RNext]_Held
    BY NextRefines
  <1>3. IInv => TypeOK
    BY DEF IInv, Sound
  <1> QED BY <1>1, <1>2, <1>3, Invariance, PTL DEF Spec, ImplementsSafely, R!RSafe
-------------------------------------------------------------------------------
(* The copies of the books.  No task asks another for its books; they      *)
(* agree because every task works out the same sequence of stages H, a     *)
(* stage being a place in the loop and the books before it.  Task t is at  *)
(* stage k[t].  As far as two partners are apart, they had nothing to      *)
(* exchange in between.                                                    *)

LowerOf(h) == PairSchedule[h.pos.pair][1]

UpperOf(h) == PairSchedule[h.pos.pair][2]

NumbersOf(h) == FindExchangeNumbers(h.book, LowerOf(h), UpperOf(h), h.pos.sph)

BooksAfter(h) == Account(h.book, LowerOf(h), UpperOf(h), h.pos.sph, NumbersOf(h))

Following(h) == [pos |-> StageAfter(h.pos, BooksAfter(h)), book |-> BooksAfter(h)]

AmountOf(h, t) ==
  IF t = LowerOf(h) THEN NumbersOf(h)
  ELSE [send |-> NumbersOf(h).recv, recv |-> NumbersOf(h).send]

(* Task t is at stage h, before the bookkeeping or after it.               *)
At(t, h) ==
  /\ pos[t].leg \in {"book", "done"} => pos[t] = h.pos /\ book[t] = h.book
  /\ pos[t].leg \in {"rep0", "rep1"} =>
       /\ h.pos.leg = "book" /\ h.pos.pair = pos[t].pair /\ h.pos.sph = pos[t].sph
       /\ InPair(t)
       /\ book[t] = BooksAfter(h) /\ amount[t] = AmountOf(h, t)

(* Task t has the two directions of stage j behind it.                     *)
Past0(t, j, k) == k[t] > j \/ (k[t] = j /\ pos[t].leg = "rep1")

Past1(t, j, k) == k[t] > j

InStep(j, k, h) ==
  /\ ~(Past0(LowerOf(h), j, k) <=> Past0(UpperOf(h), j, k)) => NumbersOf(h).send = 0
  /\ ~(Past1(LowerOf(h), j, k) <=> Past1(UpperOf(h), j, k)) => NumbersOf(h).recv = 0

Replicas(n, k, H) ==
  /\ n \in Nat \ {0} /\ k \in [Task -> 1 .. n]
  /\ \A j \in 1 .. n : H[j].pos.pair \in 1 .. Len(PairSchedule)
  /\ \A j \in 1 .. n - 1 : H[j + 1] = Following(H[j])
  /\ \A t \in Task : At(t, H[k[t]])
  /\ \A j \in 1 .. n : InStep(j, k, H[j])

Replicated == \E n, k, H : Replicas(n, k, H)

(* At the start all tasks are at the first stage, with the reduced counts. *)
LEMMA InitReplicated == Init => Replicated
  <1> SUFFICES ASSUME Init PROVE Replicated
    OBVIOUS
  <1> DEFINE b == [list_NumPart |-> NumPart, list_N_gas |-> N_gas,
                   toGo |-> CountToGo(hold), toGoSph |-> CountToGoSph(hold)]
             p == IF AnyToGo(b) THEN FirstStage ELSE [FirstStage EXCEPT !.leg = "done"]
             k == [t \in Task |-> 1]
             H == [j \in {1} |-> [pos |-> p, book |-> b]]
  <1>1. \A t \in Task : book[t] = b /\ pos[t] = p
    BY DEF Init
  <1>2. p.leg \in {"book", "done"} /\ p.pair = 1
    BY DEF FirstStage
  <1>3. 1 \in 1 .. Len(PairSchedule)
    BY ScheduleAssumption
  <1> HIDE DEF b, p
  <1>4. H[1].pos = p /\ H[1].book = b
    OBVIOUS
  <1>5. \A t \in Task : k[t] = 1 /\ At(t, H[k[t]])
    BY <1>1, <1>2, <1>4 DEF At
  <1>6. LowerOf(H[1]) \in Task /\ UpperOf(H[1]) \in Task
    <2>1. PairSchedule[1] \in Task \X Task
      BY <1>3, ScheduleAssumption
    <2> QED BY <1>2, <1>4, <2>1 DEF LowerOf, UpperOf
  <1>7. \A t \in Task : ~Past0(t, 1, k) /\ ~Past1(t, 1, k)
    BY <1>1, <1>2 DEF Past0, Past1
  <1>8. InStep(1, k, H[1])
    BY <1>6, <1>7 DEF InStep
  <1>9. Replicas(1, k, H)
    BY <1>2, <1>3, <1>4, <1>5, <1>8 DEF Replicas
  <1> QED BY <1>9 DEF Replicated

(* The pair of a stage, and the pair of a task that is at it.              *)
LEMMA StagePair ==
  ASSUME NEW h, h.pos.pair \in 1 .. Len(PairSchedule)
  PROVE  /\ LowerOf(h) \in Task /\ UpperOf(h) \in Task /\ LowerOf(h) < UpperOf(h)
         /\ LowerOf(h) \in Int /\ UpperOf(h) \in Int /\ LowerOf(h) # UpperOf(h)
  <1>1. PairSchedule[h.pos.pair] \in Task \X Task
    BY ScheduleAssumption
  <1>2. LowerOf(h) \in Task /\ UpperOf(h) \in Task /\ LowerOf(h) < UpperOf(h)
    BY <1>1, ScheduleAssumption DEF LowerOf, UpperOf
  <1>3. LowerOf(h) \in Int /\ UpperOf(h) \in Int
    BY <1>2, SizesAssumption DEF Task
  <1> QED BY <1>2, <1>3

(* The stages can be continued, so that a task may go on.                  *)
LEMMA Continued ==
  ASSUME TypeOK, NEW n, NEW k, NEW H, Replicas(n, k, H), NEW t \in Task
  PROVE  \E m, G : Replicas(m, k, G) /\ k[t] < m /\ G[k[t]] = H[k[t]]
  <1>1. n \in Nat \ {0} /\ k \in [Task -> 1 .. n] /\ k[t] \in 1 .. n
    BY DEF Replicas
  <1>2. CASE k[t] < n
    BY <1>2
  <1>3. CASE k[t] = n
    <2> DEFINE m == n + 1
               G == [j \in 1 .. m |-> IF j = m THEN Following(H[n]) ELSE H[j]]
    <2>1. /\ m \in Nat \ {0} /\ k \in [Task -> 1 .. m] /\ k[t] < m
          /\ \A j \in 1 .. n : j \in 1 .. m /\ j # m
          /\ \A j \in 1 .. m : j \in 1 .. n \/ j = m
          /\ m \in 1 .. m /\ n \in 1 .. n /\ m - 1 = n
      <3>1. n \in Nat \ {0} /\ 1 .. n \subseteq 1 .. m
        BY <1>1
      <3>2. k \in [Task -> 1 .. m]
        BY <1>1, <3>1
      <3> QED BY <1>1, <1>3, <3>2
    <2>2. G[m] = Following(H[n]) /\ \A j \in 1 .. n : G[j] = H[j]
      BY <2>1
    <2> HIDE DEF G
    <2>3. \A j \in 1 .. m - 1 : G[j + 1] = Following(G[j])
      <3> SUFFICES ASSUME NEW j \in 1 .. n PROVE G[j + 1] = Following(G[j])
        BY <2>1
      <3>1. CASE j = n
        BY <2>1, <2>2, <3>1 DEF m
      <3>2. CASE j # n
        <4>1. j \in 1 .. n - 1 /\ j + 1 \in 1 .. n
          BY <1>1, <3>2
        <4> QED BY <2>2, <4>1 DEF Replicas
      <3> QED BY <3>1, <3>2
    <2>4. H[n].pos.pair \in 1 .. Len(PairSchedule)
      BY <2>1 DEF Replicas
    <2>5. Following(H[n]).pos.pair \in 1 .. Len(PairSchedule)
      <3>1. Len(PairSchedule) \in Nat /\ Len(PairSchedule) > 0
        BY ScheduleAssumption
      <3>2. PICK st : st = StageAfter(H[n].pos, BooksAfter(H[n]))
        OBVIOUS
      <3>3. \/ st = [pair |-> H[n].pos.pair, sph |-> FALSE, leg |-> "book"]
            \/ st = [pair |-> H[n].pos.pair + 1, sph |-> WithGas, leg |-> "book"]
                 /\ H[n].pos.pair < Len(PairSchedule)
            \/ st = [pair |-> 1, sph |-> WithGas, leg |-> "book"]
            \/ st = [pair |-> H[n].pos.pair, sph |-> FALSE, leg |-> "done"]
        BY <3>2, Zenon DEF StageAfter, FirstStage
      <3>4. st.pair \in {H[n].pos.pair, 1}
            \/ (st.pair = H[n].pos.pair + 1 /\ H[n].pos.pair < Len(PairSchedule))
        BY <3>3
      <3>5. st.pair \in 1 .. Len(PairSchedule)
        BY <2>4, <3>1, <3>4
      <3> QED BY <3>2, <3>5 DEF Following
    <2>6. \A j \in 1 .. m : G[j].pos.pair \in 1 .. Len(PairSchedule)
      BY <2>1, <2>2, <2>5 DEF Replicas
    <2>7. \A s \in Task : At(s, G[k[s]])
      BY <1>1, <2>2 DEF Replicas
    <2>8. InStep(m, k, G[m])
      <3>1. \A s \in Task : ~Past0(s, m, k) /\ ~Past1(s, m, k)
        BY <1>1 DEF Past0, Past1
      <3>2. LowerOf(G[m]) \in Task /\ UpperOf(G[m]) \in Task
        BY <2>1, <2>6, StagePair
      <3> QED BY <3>1, <3>2 DEF InStep
    <2>9. \A j \in 1 .. m : InStep(j, k, G[j])
      BY <2>1, <2>2, <2>8 DEF Replicas
    <2> HIDE DEF m
    <2>10. Replicas(m, k, G)
      BY <2>1, <2>3, <2>6, <2>7, <2>9 DEF Replicas
    <2> QED BY <1>3, <2>1, <2>2, <2>10
  <1> QED BY <1>1, <1>2, <1>3

(* A task that is at a stage, and the pair and the numbers it works with.  *)
LEMMA TaskAtStage ==
  ASSUME TypeOK, NEW n, NEW k, NEW H, Replicas(n, k, H), NEW t \in Task
  PROVE  LET h == H[k[t]]
         IN  /\ k[t] \in 1 .. n /\ At(t, h)
             /\ h.pos.pair \in 1 .. Len(PairSchedule)
             /\ pos[t].leg # "abort" => /\ Lower(t) = LowerOf(h) /\ Upper(t) = UpperOf(h)
                                        /\ pos[t].sph = h.pos.sph
             /\ pos[t].leg = "book" => Numbers(t) = NumbersOf(h)
                                       /\ Accounted(t, Numbers(t)) = BooksAfter(h)
  <1> DEFINE h == H[k[t]]
  <1>1. k[t] \in 1 .. n /\ At(t, h) /\ h.pos.pair \in 1 .. Len(PairSchedule)
    BY DEF Replicas
  <1> HIDE DEF h
  <1>2. pos[t].leg \in {"book", "rep0", "rep1", "done", "abort"}
    BY DEF TypeOK, Leg
  <1>3. pos[t].leg # "abort" => h.pos.pair = pos[t].pair /\ pos[t].sph = h.pos.sph
    BY <1>1, <1>2 DEF At
  <1>4. pos[t].leg # "abort" => Lower(t) = LowerOf(h) /\ Upper(t) = UpperOf(h)
    BY <1>3 DEF Lower, Upper, LowerOf, UpperOf
  <1>5. pos[t].leg = "book" => Numbers(t) = NumbersOf(h)
                               /\ Accounted(t, Numbers(t)) = BooksAfter(h)
    <2> SUFFICES ASSUME pos[t].leg = "book"
                 PROVE  Numbers(t) = NumbersOf(h) /\ Accounted(t, Numbers(t)) = BooksAfter(h)
      OBVIOUS
    <2>1. book[t] = h.book
      BY <1>1 DEF At
    <2>2. Numbers(t) = NumbersOf(h)
      BY <1>3, <1>4, <2>1, Zenon DEF Numbers, NumbersOf
    <2> QED BY <1>3, <1>4, <2>1, <2>2, Zenon DEF Accounted, BooksAfter
  <1> QED BY <1>1, <1>3, <1>4, <1>5 DEF h

(* What a partner in a running exchange sends and receives.                *)
LEMMA PartnersNumbers ==
  ASSUME TypeOK, NEW n, NEW k, NEW H, Replicas(n, k, H), NEW t \in Task,
         pos[t].leg \in {"rep0", "rep1"}
  PROVE  LET h == H[k[t]]
         IN  \/ /\ t = LowerOf(h) /\ Partner(t) = UpperOf(h)
                /\ amount[t].send = NumbersOf(h).send /\ amount[t].recv = NumbersOf(h).recv
                /\ Sending(t) <=> pos[t].leg = "rep0"
                /\ Receiving(t) <=> pos[t].leg = "rep1"
             \/ /\ t = UpperOf(h) /\ Partner(t) = LowerOf(h)
                /\ amount[t].send = NumbersOf(h).recv /\ amount[t].recv = NumbersOf(h).send
                /\ Sending(t) <=> pos[t].leg = "rep1"
                /\ Receiving(t) <=> pos[t].leg = "rep0"
  <1> DEFINE h == H[k[t]]
  <1>1. /\ At(t, h) /\ Lower(t) = LowerOf(h) /\ Upper(t) = UpperOf(h)
        /\ h.pos.pair \in 1 .. Len(PairSchedule)
    BY TaskAtStage
  <1> HIDE DEF h
  <1>2. InPair(t) /\ amount[t] = AmountOf(h, t)
    BY <1>1 DEF At
  <1>3. /\ LowerOf(h) \in Int /\ UpperOf(h) \in Int /\ LowerOf(h) < UpperOf(h)
        /\ LowerOf(h) # UpperOf(h)
    BY <1>1, StagePair
  <1>4. CASE t = LowerOf(h)
    <2>1. Partner(t) = UpperOf(h) /\ amount[t] = NumbersOf(h)
      BY <1>1, <1>2, <1>4 DEF Partner, AmountOf
    <2> QED BY <1>3, <1>4, <2>1 DEF Sending, Receiving, h
  <1>5. CASE t # LowerOf(h)
    <2>1. t = UpperOf(h)
      BY <1>1, <1>2, <1>5 DEF InPair
    <2>2. Partner(t) = LowerOf(h)
      BY <1>1, <1>5 DEF Partner
    <2>3. amount[t].send = NumbersOf(h).recv /\ amount[t].recv = NumbersOf(h).send
      BY <1>2, <1>5 DEF AmountOf
    <2> QED BY <1>3, <2>1, <2>2, <2>3 DEF Sending, Receiving, h
  <1> QED BY <1>4, <1>5

(* A send meets the receive of the same stage: the later of the partners   *)
(* has the direction still before it that the other one has passed, so     *)
(* that it carries nothing.                                                *)
LEMMA MeetAtStage ==
  ASSUME TypeOK, NEW n, NEW k, NEW H, Replicas(n, k, H), NEW t \in Task, NEW u \in Task,
         MeetsAt(t, u)
  PROVE  k[t] = k[u] /\ pos[t].leg = pos[u].leg /\ t # u /\ amount[t].send = amount[u].recv
  <1> DEFINE g == H[k[t]]
             h == H[k[u]]
  <1>1. /\ Sending(t) /\ Partner(t) = u /\ amount[t].send > 0
        /\ Receiving(u) /\ Partner(u) = t /\ amount[u].recv > 0
        /\ pos[t].leg \in {"rep0", "rep1"} /\ pos[u].leg \in {"rep0", "rep1"}
    BY DEF MeetsAt, Sending, Receiving
  <1>2. k[t] \in 1 .. n /\ k[u] \in 1 .. n /\ n \in Nat
    BY DEF Replicas
  <1>3. InStep(k[t], k, g) /\ InStep(k[u], k, h)
    BY <1>2 DEF Replicas
  <1>4. \/ /\ t = LowerOf(g) /\ u = UpperOf(g)
           /\ amount[t].send = NumbersOf(g).send /\ pos[t].leg = "rep0"
        \/ /\ t = UpperOf(g) /\ u = LowerOf(g)
           /\ amount[t].send = NumbersOf(g).recv /\ pos[t].leg = "rep1"
    <2> HIDE DEF g, h
    <2> QED BY <1>1, PartnersNumbers DEF g
  <1>5. \/ /\ u = LowerOf(h) /\ t = UpperOf(h)
           /\ amount[u].recv = NumbersOf(h).recv /\ pos[u].leg = "rep1"
        \/ /\ u = UpperOf(h) /\ t = LowerOf(h)
           /\ amount[u].recv = NumbersOf(h).send /\ pos[u].leg = "rep0"
    <2> HIDE DEF g, h
    <2> QED BY <1>1, PartnersNumbers DEF h
  <1>6. t # u
    <2>1. t \in Int /\ u \in Int
      BY SizesAssumption DEF Task
    <2> QED BY <1>1, <2>1 DEF Sending
  <1>7. ~(k[u] < k[t])
    <2> SUFFICES ASSUME k[u] < k[t] PROVE FALSE
      OBVIOUS
    <2>1. Past0(t, k[u], k) /\ Past1(t, k[u], k) /\ ~Past1(u, k[u], k)
      BY <1>2 DEF Past0, Past1
    <2>2. pos[u].leg = "rep0" => ~Past0(u, k[u], k)
      BY <1>2 DEF Past0
    <2> HIDE DEF g, h
    <2> QED BY <1>1, <1>3, <1>5, <2>1, <2>2 DEF InStep
  <1>8. ~(k[t] < k[u])
    <2> SUFFICES ASSUME k[t] < k[u] PROVE FALSE
      OBVIOUS
    <2>1. Past0(u, k[t], k) /\ Past1(u, k[t], k) /\ ~Past1(t, k[t], k)
      BY <1>2 DEF Past0, Past1
    <2>2. pos[t].leg = "rep0" => ~Past0(t, k[t], k)
      BY <1>2 DEF Past0
    <2> HIDE DEF g, h
    <2> QED BY <1>1, <1>3, <1>4, <2>1, <2>2 DEF InStep
  <1>9. k[t] = k[u]
    BY <1>2, <1>7, <1>8
  <1>10. g = h
    BY <1>9
  <1> HIDE DEF g, h
  <1> QED BY <1>4, <1>5, <1>6, <1>9, <1>10

(* What a stage says does not depend on the state.                         *)
LEMMA StagesRigid ==
  ASSUME NEW h
  PROVE  /\ LowerOf(h)' = LowerOf(h) /\ UpperOf(h)' = UpperOf(h)
         /\ NumbersOf(h)' = NumbersOf(h)
  <1>1. LowerOf(h)' = LowerOf(h) /\ UpperOf(h)' = UpperOf(h)
    BY DEF LowerOf, UpperOf
  <1>2. NumbersOf(h)' = NumbersOf(h)
    BY Zenon DEF LowerOf, UpperOf, NumbersOf, FindExchangeNumbers, Wanted, Squeeze, Lesser
  <1> QED BY <1>1, <1>2

(* What two partners are apart is judged by the two of them alone, so it   *)
(* may be stated for the state after a step.                               *)
LEMMA InStepNext ==
  ASSUME NEW i, NEW k, NEW h, NEW a, NEW p, a = LowerOf(h), p = UpperOf(h),
         ~(Past0(a, i, k)' <=> Past0(p, i, k)') => NumbersOf(h).send = 0,
         ~(Past1(a, i, k)' <=> Past1(p, i, k)') => NumbersOf(h).recv = 0
  PROVE  InStep(i, k, h)'
  <1>1. LowerOf(h)' = a /\ UpperOf(h)' = p /\ NumbersOf(h)' = NumbersOf(h)
    BY StagesRigid
  <1>2. NumbersOf(h)'.send = NumbersOf(h).send /\ NumbersOf(h)'.recv = NumbersOf(h).recv
    BY <1>1
  <1> QED BY <1>1, <1>2 DEF InStep, Past0, Past1

(* A step that leaves the partners as far apart as before in all stages    *)
(* but one.                                                                *)
LEMMA Moved ==
  ASSUME NEW n, NEW k, NEW H, Replicas(n, k, H), NEW kk \in [Task -> 1 .. n], NEW i,
         \A s \in Task : At(s, H[kk[s]])',
         InStep(i, kk, H[i])',
         \A s \in Task : \A j \in 1 .. n : j # i => /\ Past0(s, j, kk)' <=> Past0(s, j, k)
                                                    /\ Past1(s, j, kk)' <=> Past1(s, j, k)
  PROVE  Replicas(n, kk, H)'
  <1>1. ASSUME NEW j \in 1 .. n, j # i PROVE InStep(j, kk, H[j])'
    <2>1. InStep(j, k, H[j]) /\ LowerOf(H[j]) \in Task /\ UpperOf(H[j]) \in Task
      BY StagePair DEF Replicas
    <2>2. PICK a \in Task, p \in Task : a = LowerOf(H[j]) /\ p = UpperOf(H[j])
      BY <2>1
    <2>a. /\ ~(Past0(a, j, k) <=> Past0(p, j, k)) => NumbersOf(H[j]).send = 0
          /\ ~(Past1(a, j, k) <=> Past1(p, j, k)) => NumbersOf(H[j]).recv = 0
      BY <2>1, <2>2 DEF InStep
    <2>b. /\ Past0(a, j, kk)' <=> Past0(a, j, k)
          /\ Past0(p, j, kk)' <=> Past0(p, j, k)
          /\ Past1(a, j, kk)' <=> Past1(a, j, k)
          /\ Past1(p, j, kk)' <=> Past1(p, j, k)
      BY <1>1, <2>2
    <2>3. /\ ~(Past0(a, j, kk)' <=> Past0(p, j, kk)') => NumbersOf(H[j]).send = 0
          /\ ~(Past1(a, j, kk)' <=> Past1(p, j, kk)') => NumbersOf(H[j]).recv = 0
      BY <2>a, <2>b, Zenon
    <2> QED BY <2>2, <2>3, InStepNext
  <1>2. \A j \in 1 .. n : InStep(j, kk, H[j])'
    BY <1>1
  <1> QED BY <1>2 DEF Replicas

(* Others stay at their stages.                                            *)
LEMMA OthersAt ==
  ASSUME NEW h, NEW s \in Task, At(s, h),
         pos'[s] = pos[s], book'[s] = book[s], amount'[s] = amount[s]
  PROVE  At(s, h)'
  BY DEF At, InPair, Lower, Upper

(* A task outside the pair books what the pair exchanges and goes on to    *)
(* the next stage.                                                         *)
LEMMA BookkeepReplicated ==
  ASSUME TypeOK, Replicated, NEW t \in Task, Bookkeep(t) PROVE Replicated'
  <1>1. PICK n, k, H : Replicas(n, k, H) /\ k[t] < n
    <2>1. PICK m, k, G : Replicas(m, k, G)
      BY DEF Replicated
    <2> QED BY <2>1, Continued
  <1> DEFINE h == H[k[t]]
             kk == [k EXCEPT ![t] = k[t] + 1]
  <1>2. n \in Nat \ {0} /\ k \in [Task -> 1 .. n] /\ k[t] \in 1 .. n
    BY <1>1 DEF Replicas
  <1>3. /\ At(t, h) /\ h.pos.pair \in 1 .. Len(PairSchedule)
        /\ Lower(t) = LowerOf(h) /\ Upper(t) = UpperOf(h)
        /\ Accounted(t, Numbers(t)) = BooksAfter(h)
        /\ pos[t].leg = "book"
    <2>1. pos[t].leg = "book"
      BY DEF Bookkeep
    <2> QED BY <1>1, <2>1, TaskAtStage
  <1>4. H[k[t] + 1] = Following(h)
    <2>1. k[t] \in 1 .. n - 1
      BY <1>1, <1>2
    <2> QED BY <1>1, <2>1 DEF Replicas
  <1>5. kk \in [Task -> 1 .. n] /\ kk[t] = k[t] + 1 /\ \A s \in Task : s # t => kk[s] = k[s]
    <2>1. k[t] + 1 \in 1 .. n
      BY <1>1, <1>2
    <2> QED BY <1>2, <2>1
  <1> HIDE DEF h, kk
  <1>6. pos[t] = h.pos
    BY <1>3 DEF At
  <1>7. /\ pos'[t] = StageAfter(h.pos, BooksAfter(h)) /\ book'[t] = BooksAfter(h)
        /\ \A s \in Task : s # t => pos'[s] = pos[s] /\ book'[s] = book[s]
        /\ amount' = amount
    BY <1>3, <1>6 DEF Bookkeep, TypeOK
  <1>8. pos'[t].leg \in {"book", "done"}
    <2>1. pos[t] \in [pair : 1 .. Len(PairSchedule), sph : BOOLEAN, leg : Leg]
      BY DEF TypeOK
    <2> QED BY <1>6, <1>7, <2>1, StageFacts
  <1>9. ASSUME NEW s \in Task PROVE At(s, H[kk[s]])'
    <2>1. CASE s = t
      <3>1. H[kk[t]] = Following(h)
        BY <1>4, <1>5
      <3>2. PICK g : g = Following(h)
        OBVIOUS
      <3>3. g.pos = pos'[t] /\ g.book = book'[t]
        BY <1>7, <3>2 DEF Following
      <3>4. At(t, g)'
        BY <1>8, <3>3 DEF At
      <3> QED BY <2>1, <3>1, <3>2, <3>4
    <2>2. CASE s # t
      <3>1. At(s, H[k[s]])
        BY <1>1 DEF Replicas
      <3>2. At(s, H[k[s]])'
        BY <1>7, <2>2, <3>1, OthersAt
      <3> QED BY <1>5, <2>2, <3>2
    <2> QED BY <2>1, <2>2
  <1>10. \A s \in Task : \A j \in 1 .. n :
            s # t => /\ Past0(s, j, kk)' <=> Past0(s, j, k)
                     /\ Past1(s, j, kk)' <=> Past1(s, j, k)
    BY <1>5, <1>7 DEF Past0, Past1
  <1>11. \A j \in 1 .. n : j # k[t] => /\ Past0(t, j, kk)' <=> Past0(t, j, k)
                                       /\ Past1(t, j, kk)' <=> Past1(t, j, k)
    BY <1>2, <1>3, <1>5, <1>8 DEF Past0, Past1
  <1>12. InStep(k[t], kk, h)'
    <2>1. LowerOf(h) # t /\ UpperOf(h) # t
      BY <1>3 DEF Bookkeep, InPair
    <2>2. PICK a \in Task, p \in Task : a = LowerOf(h) /\ p = UpperOf(h)
      BY <1>3, StagePair
    <2>3. InStep(k[t], k, h)
      BY <1>1, <1>2 DEF Replicas, h
    <2>4. /\ ~(Past0(a, k[t], kk)' <=> Past0(p, k[t], kk)') => NumbersOf(h).send = 0
          /\ ~(Past1(a, k[t], kk)' <=> Past1(p, k[t], kk)') => NumbersOf(h).recv = 0
      BY <1>2, <1>10, <2>1, <2>2, <2>3 DEF InStep
    <2> QED BY <2>2, <2>4, InStepNext
  <1>13. Replicas(n, kk, H)'
    <2>1. \A s \in Task : \A j \in 1 .. n : j # k[t] => /\ Past0(s, j, kk)' <=> Past0(s, j, k)
                                                        /\ Past1(s, j, kk)' <=> Past1(s, j, k)
      BY <1>10, <1>11
    <2>2. InStep(k[t], kk, H[k[t]])'
      BY <1>12 DEF h
    <2> QED BY <1>1, <1>5, <1>9, <2>1, <2>2, Moved
  <1> QED BY <1>13 DEF Replicated

(* A task of the pair works out its stage from its own copy of the books:  *)
(* it stays at the stage, with the directions before it.                   *)
LEMMA CollectReplicated ==
  ASSUME IInv, Replicated, NEW t \in Task, Collect(t) PROVE Replicated'
  <1>1. PICK n, k, H : Replicas(n, k, H)
    BY DEF Replicated
  <1> DEFINE h == H[k[t]]
  <1>2. n \in Nat \ {0} /\ k \in [Task -> 1 .. n] /\ k[t] \in 1 .. n
    BY <1>1 DEF Replicas
  <1>3. TypeOK /\ TypeOK' /\ NoAbort' /\ pos[t].leg = "book" /\ InPair(t)
    BY CollectIInv DEF IInv, Collect
  <1>4. /\ At(t, h) /\ h.pos.pair \in 1 .. Len(PairSchedule)
        /\ Lower(t) = LowerOf(h) /\ Upper(t) = UpperOf(h)
        /\ Numbers(t) = NumbersOf(h) /\ Accounted(t, Numbers(t)) = BooksAfter(h)
    BY <1>1, <1>3, TaskAtStage
  <1> HIDE DEF h
  <1>5. /\ book' = [book EXCEPT ![t] = Accounted(t, Numbers(t))]
        /\ amount' = [amount EXCEPT ![t] =
             IF t = Lower(t) THEN Numbers(t)
             ELSE [send |-> Numbers(t).recv, recv |-> Numbers(t).send]]
    BY DEF Collect
  <1>6. \E l \in {"rep0", "abort"} : pos' = [pos EXCEPT ![t].leg = l]
    BY DEF Collect
  <1>7. pos' = [pos EXCEPT ![t].leg = "rep0"]
    <2>1. PICK l \in {"rep0", "abort"} : pos' = [pos EXCEPT ![t].leg = l]
      BY <1>6
    <2>2. pos'[t].leg = l
      BY <1>3, <2>1 DEF TypeOK
    <2> QED BY <1>3, <2>1, <2>2 DEF NoAbort
  <1>8. /\ book'[t] = BooksAfter(h) /\ amount'[t] = AmountOf(h, t)
        /\ pos'[t].leg = "rep0" /\ pos'[t].pair = pos[t].pair /\ pos'[t].sph = pos[t].sph
        /\ \A s \in Task : s # t => /\ pos'[s] = pos[s] /\ book'[s] = book[s]
                                    /\ amount'[s] = amount[s]
    BY <1>3, <1>4, <1>5, <1>7 DEF TypeOK, AmountOf
  <1>9. ASSUME NEW s \in Task PROVE At(s, H[k[s]])'
    <2>1. CASE s = t
      <3>1. h.pos = pos[t]
        BY <1>3, <1>4 DEF At
      <3>2. InPair(t)'
        BY <1>3, <1>8 DEF InPair, Lower, Upper
      <3>3. At(t, h)'
        BY <1>3, <1>8, <3>1, <3>2 DEF At
      <3> QED BY <2>1, <3>3 DEF h
    <2>2. CASE s # t
      <3>1. At(s, H[k[s]])
        BY <1>1 DEF Replicas
      <3> QED BY <1>8, <2>2, <3>1, OthersAt
    <2> QED BY <2>1, <2>2
  <1>10. \A s \in Task : \A j \in 1 .. n : /\ Past0(s, j, k)' <=> Past0(s, j, k)
                                           /\ Past1(s, j, k)' <=> Past1(s, j, k)
    <2>1. \A s \in Task : pos'[s].leg = "rep1" <=> pos[s].leg = "rep1"
      BY <1>3, <1>8
    <2> QED BY <2>1 DEF Past0, Past1
  <1>11. InStep(k[t], k, h)'
    <2>1. PICK a \in Task, p \in Task : a = LowerOf(h) /\ p = UpperOf(h)
      BY <1>4, StagePair
    <2>2. InStep(k[t], k, h)
      BY <1>1, <1>2 DEF Replicas, h
    <2>a. /\ ~(Past0(a, k[t], k) <=> Past0(p, k[t], k)) => NumbersOf(h).send = 0
          /\ ~(Past1(a, k[t], k) <=> Past1(p, k[t], k)) => NumbersOf(h).recv = 0
      BY <2>2, <2>1 DEF InStep
    <2>b. /\ Past0(a, k[t], k)' <=> Past0(a, k[t], k)
          /\ Past0(p, k[t], k)' <=> Past0(p, k[t], k)
          /\ Past1(a, k[t], k)' <=> Past1(a, k[t], k)
          /\ Past1(p, k[t], k)' <=> Past1(p, k[t], k)
      BY <1>2, <1>10, <2>1
    <2>3. /\ ~(Past0(a, k[t], k)' <=> Past0(p, k[t], k)') => NumbersOf(h).send = 0
          /\ ~(Past1(a, k[t], k)' <=> Past1(p, k[t], k)') => NumbersOf(h).recv = 0
      BY <2>a, <2>b, Zenon
    <2> QED BY <2>1, <2>3, InStepNext
  <1>12. Replicas(n, k, H)'
    <2>1. InStep(k[t], k, H[k[t]])'
      BY <1>11 DEF h
    <2> QED BY <1>1, <1>2, <1>9, <1>10, <2>1, Moved
  <1> QED BY <1>12 DEF Replicated

(* The tasks of T, which are at the same direction of stage i, all finish  *)
(* it; nothing else moves.                                                 *)
PassesOn(T, n, k, i, leg) ==
  /\ T \in SUBSET Task /\ i \in 1 .. n - 1 /\ leg \in {"rep0", "rep1"}
  /\ \A s \in T : k[s] = i /\ pos[s].leg = leg
  /\ \A s \in T : pos'[s] = LegAfter(pos[s], book[s])
  /\ \A s \in Task \ T : pos'[s] = pos[s]
  /\ book' = book /\ amount' = amount

(* Where they are then.                                                    *)
PassedBy(T, n, k, H, i, leg, kk) ==
  /\ kk \in [Task -> 1 .. n]
  /\ \A s \in Task : At(s, H[kk[s]])'
  /\ \A s \in Task \ T : \A j \in 1 .. n : /\ Past0(s, j, kk)' <=> Past0(s, j, k)
                                           /\ Past1(s, j, kk)' <=> Past1(s, j, k)
  /\ \A s \in T : \A j \in 1 .. n : j # i => /\ Past0(s, j, kk)' <=> Past0(s, j, k)
                                             /\ Past1(s, j, kk)' <=> Past1(s, j, k)
  /\ \A s \in T : /\ Past0(s, i, kk)'
                  /\ Past0(s, i, k) <=> leg = "rep1"
                  /\ ~Past1(s, i, k)
                  /\ Past1(s, i, kk)' <=> leg = "rep1"

(* Then each of them is at the place the stages give it.                   *)
LEMMA DirectionPassed ==
  ASSUME TypeOK, NEW n, NEW k, NEW H, Replicas(n, k, H), NEW T, NEW i, NEW leg,
         PassesOn(T, n, k, i, leg)
  PROVE  \E kk : /\ kk = [s \in Task |-> IF s \in T /\ leg = "rep1" THEN i + 1 ELSE k[s]]
                 /\ PassedBy(T, n, k, H, i, leg, kk)
  <1> USE DEF PassesOn
  <1>0. PICK kk : kk = [s \in Task |-> IF s \in T /\ leg = "rep1" THEN i + 1 ELSE k[s]]
    OBVIOUS
  <1>1. n \in Nat \ {0} /\ k \in [Task -> 1 .. n] /\ i \in 1 .. n /\ i + 1 \in 1 .. n
    BY DEF Replicas
  <1>2. kk \in [Task -> 1 .. n] /\ \A s \in Task \ T : kk[s] = k[s]
    BY <1>0, <1>1
  <1>3. \A s \in T : kk[s] = IF leg = "rep1" THEN i + 1 ELSE i
    BY <1>0, <1>1
  <1>4. ASSUME NEW s \in T
        PROVE  /\ leg = "rep0" => /\ pos'[s].leg = "rep1" /\ pos'[s].pair = pos[s].pair
                                  /\ pos'[s].sph = pos[s].sph
               /\ leg = "rep1" => pos'[s].leg \in {"book", "done"}
                                  /\ pos'[s] = StageAfter(pos[s], book[s])
    <2>1. pos[s] \in [pair : 1 .. Len(PairSchedule), sph : BOOLEAN, leg : Leg]
      BY DEF TypeOK
    <2>2. PICK r : r = LegAfter(pos[s], book[s])
      OBVIOUS
    <2>3. /\ pos[s].leg = "rep0" => r.leg = "rep1" /\ r.pair = pos[s].pair /\ r.sph = pos[s].sph
          /\ pos[s].leg = "rep1" => r.leg \in {"book", "done"}
      BY <2>1, <2>2, LegFacts
    <2>4. pos[s].leg = "rep1" => r = StageAfter(pos[s], book[s])
      BY <2>2 DEF LegAfter
    <2>5. pos'[s] = r /\ pos[s].leg = leg
      BY <2>2
    <2> QED BY <2>3, <2>4, <2>5
  <1>5. ASSUME NEW s \in Task, s \notin T PROVE At(s, H[kk[s]])'
    <2>1. At(s, H[k[s]]) /\ pos'[s] = pos[s] /\ book'[s] = book[s] /\ amount'[s] = amount[s]
      BY <1>5 DEF Replicas
    <2>2. At(s, H[k[s]])'
      BY <2>1, OthersAt
    <2> QED BY <1>2, <1>5, <2>2
  <1>6. ASSUME NEW s \in T PROVE At(s, H[kk[s]])'
    <2>1. PICK h : h = H[i]
      OBVIOUS
    <2>2. At(s, h) /\ s \in Task /\ pos[s].leg \in {"rep0", "rep1"}
      BY <1>6, <2>1 DEF Replicas
    <2>3. /\ h.pos.leg = "book" /\ h.pos.pair = pos[s].pair /\ h.pos.sph = pos[s].sph
          /\ InPair(s) /\ book[s] = BooksAfter(h) /\ amount[s] = AmountOf(h, s)
      BY <2>2 DEF At
    <2>4. CASE leg = "rep0"
      <3>1. InPair(s)'
        BY <1>4, <1>6, <2>3, <2>4 DEF InPair, Lower, Upper
      <3>2. h.pos.pair = pos'[s].pair /\ h.pos.sph = pos'[s].sph /\ pos'[s].leg = "rep1"
        BY <1>4, <1>6, <2>3, <2>4
      <3>3. BooksAfter(h)' = BooksAfter(h) /\ AmountOf(h, s)' = AmountOf(h, s)
        <4>1. NumbersOf(h)' = NumbersOf(h) /\ LowerOf(h)' = LowerOf(h) /\ UpperOf(h)' = UpperOf(h)
          BY StagesRigid
        <4> QED BY <4>1 DEF AmountOf, BooksAfter, Account, Shift, Settle
      <3>4. book'[s] = BooksAfter(h)' /\ amount'[s] = AmountOf(h, s)'
        BY <2>3, <3>3
      <3>5. At(s, h)'
        BY <2>3, <3>1, <3>2, <3>4 DEF At
      <3> QED BY <1>3, <1>6, <2>1, <2>4, <3>5
    <2>5. CASE leg = "rep1"
      <3>1. PICK g : g = Following(h)
        OBVIOUS
      <3>2. H[kk[s]] = g
        BY <1>3, <1>6, <2>1, <2>5, <3>1 DEF Replicas
      <3>3. pos'[s] = StageAfter(h.pos, BooksAfter(h))
        <4>1. pos'[s] = StageAfter(pos[s], BooksAfter(h))
          BY <1>4, <1>6, <2>3, <2>5
        <4> QED BY <2>3, <4>1 DEF StageAfter
      <3>4. g.pos = pos'[s] /\ g.book = book'[s] /\ pos'[s].leg \in {"book", "done"}
        BY <1>4, <1>6, <2>3, <2>5, <3>1, <3>3 DEF Following
      <3>5. At(s, g)'
        BY <3>4 DEF At
      <3> QED BY <3>2, <3>5
    <2> QED BY <2>4, <2>5
  <1>7. \A s \in Task \ T : \A j \in 1 .. n : /\ Past0(s, j, kk)' <=> Past0(s, j, k)
                                              /\ Past1(s, j, kk)' <=> Past1(s, j, k)
    BY <1>2 DEF Past0, Past1
  <1>8. ASSUME NEW s \in T, NEW j \in 1 .. n, j # i
        PROVE  /\ Past0(s, j, kk)' <=> Past0(s, j, k)
               /\ Past1(s, j, kk)' <=> Past1(s, j, k)
    <2>1. k[s] = i /\ kk[s] \in {i, i + 1} /\ i \in Int /\ j \in Int
          /\ (kk[s] = i + 1 => pos'[s].leg \in {"book", "done"})
      BY <1>1, <1>3, <1>4, <1>8
    <2> QED BY <1>8, <2>1 DEF Past0, Past1
  <1>9. ASSUME NEW s \in T
        PROVE  /\ Past0(s, i, kk)' /\ ~Past1(s, i, k)
               /\ Past0(s, i, k) <=> leg = "rep1"
               /\ Past1(s, i, kk)' <=> leg = "rep1"
    <2>1. CASE leg = "rep0"
      <3>1. k[s] = i /\ kk[s] = i /\ pos[s].leg = "rep0" /\ pos'[s].leg = "rep1" /\ i \in Int
        BY <1>1, <1>3, <1>4, <1>9, <2>1
      <3> QED BY <2>1, <3>1 DEF Past0, Past1
    <2>2. CASE leg = "rep1"
      <3>1. k[s] = i /\ kk[s] = i + 1 /\ pos[s].leg = "rep1" /\ i \in Int
        BY <1>1, <1>3, <1>9, <2>2
      <3> QED BY <2>2, <3>1 DEF Past0, Past1
    <2> QED BY <2>1, <2>2
  <1>10. PassedBy(T, n, k, H, i, leg, kk)
    BY <1>2, <1>5, <1>6, <1>7, <1>8, <1>9 DEF PassedBy
  <1> QED BY <1>0, <1>10

(* A direction in which nothing is to go is left by a task alone.          *)
LEMMA SkipLegReplicated ==
  ASSUME TypeOK, Replicated, NEW t \in Task, SkipLeg(t) PROVE Replicated'
  <1>1. PICK n, k, H : Replicas(n, k, H) /\ k[t] < n
    <2>1. PICK m, k, G : Replicas(m, k, G)
      BY DEF Replicated
    <2> QED BY <2>1, Continued
  <1>2. /\ pos[t].leg \in {"rep0", "rep1"}
        /\ \/ Sending(t) /\ amount[t].send = 0
           \/ Receiving(t) /\ amount[t].recv = 0
        /\ pos' = [pos EXCEPT ![t] = LegAfter(pos[t], book[t])]
        /\ book' = book /\ amount' = amount
    BY DEF SkipLeg, Sending, Receiving
  <1>3. PICK i, leg, T : i = k[t] /\ leg = pos[t].leg /\ T = {t}
    OBVIOUS
  <1>4. /\ n \in Nat \ {0} /\ i \in 1 .. n - 1 /\ i \in 1 .. n /\ leg \in {"rep0", "rep1"}
        /\ T \in SUBSET Task /\ k \in [Task -> 1 .. n]
    BY <1>1, <1>2, <1>3 DEF Replicas
  <1>5. PassesOn(T, n, k, i, leg)
    BY <1>2, <1>3, <1>4 DEF TypeOK, PassesOn
  <1>6. PICK kk : PassedBy(T, n, k, H, i, leg, kk)
    BY <1>1, <1>5, DirectionPassed
  <1>7. /\ kk \in [Task -> 1 .. n]
        /\ \A s \in Task : At(s, H[kk[s]])'
        /\ \A s \in Task \ T : \A j \in 1 .. n : /\ Past0(s, j, kk)' <=> Past0(s, j, k)
                                                 /\ Past1(s, j, kk)' <=> Past1(s, j, k)
        /\ \A s \in T : \A j \in 1 .. n : j # i => /\ Past0(s, j, kk)' <=> Past0(s, j, k)
                                                   /\ Past1(s, j, kk)' <=> Past1(s, j, k)
        /\ \A s \in T : /\ Past0(s, i, kk)'
                        /\ Past0(s, i, k) <=> leg = "rep1"
                        /\ ~Past1(s, i, k)
                        /\ Past1(s, i, kk)' <=> leg = "rep1"
    BY <1>6 DEF PassedBy
  <1>8. PICK h : h = H[i]
    OBVIOUS
  <1>9. /\ leg = "rep0" => NumbersOf(h).send = 0
        /\ leg = "rep1" => NumbersOf(h).recv = 0
    <2>1. \/ /\ amount[t].send = NumbersOf(h).send /\ amount[t].recv = NumbersOf(h).recv
             /\ Sending(t) <=> leg = "rep0"
             /\ Receiving(t) <=> leg = "rep1"
          \/ /\ amount[t].send = NumbersOf(h).recv /\ amount[t].recv = NumbersOf(h).send
             /\ Sending(t) <=> leg = "rep1"
             /\ Receiving(t) <=> leg = "rep0"
      BY <1>1, <1>2, <1>3, <1>8, PartnersNumbers
    <2> QED BY <1>2, <1>4, <2>1
  <1>10. PICK a \in Task, p \in Task : a = LowerOf(h) /\ p = UpperOf(h)
    BY <1>1, <1>4, <1>8, StagePair DEF Replicas
  <1>11. InStep(i, k, h)
    BY <1>1, <1>4, <1>8 DEF Replicas
  <1>12. /\ leg = "rep0" => \A s \in Task : Past1(s, i, kk)' <=> Past1(s, i, k)
         /\ leg = "rep1" => \A s \in Task : Past0(s, i, kk)' <=> Past0(s, i, k)
    <2>1. \A s \in Task : s \in T \/ s \in Task \ T
      OBVIOUS
    <2> QED BY <1>4, <1>7, <2>1
  <1>13. /\ ~(Past0(a, i, k) <=> Past0(p, i, k)) => NumbersOf(h).send = 0
         /\ ~(Past1(a, i, k) <=> Past1(p, i, k)) => NumbersOf(h).recv = 0
    BY <1>10, <1>11 DEF InStep
  <1>14. /\ ~(Past0(a, i, kk)' <=> Past0(p, i, kk)') => NumbersOf(h).send = 0
         /\ ~(Past1(a, i, kk)' <=> Past1(p, i, kk)') => NumbersOf(h).recv = 0
    BY <1>4, <1>9, <1>10, <1>12, <1>13
  <1>15. InStep(i, kk, H[i])'
    BY <1>8, <1>10, <1>14, InStepNext
  <1>16. \A s \in Task : \A j \in 1 .. n : j # i => /\ Past0(s, j, kk)' <=> Past0(s, j, k)
                                                    /\ Past1(s, j, kk)' <=> Past1(s, j, k)
    BY <1>7
  <1>17. Replicas(n, kk, H)'
    BY <1>1, <1>7, <1>15, <1>16, Moved
  <1> QED BY <1>17 DEF Replicated

(* A transfer moves both partners on together.                             *)
LEMMA TransferReplicated ==
  ASSUME TypeOK, Replicated, NEW t \in Task, NEW u \in Task, Transfer(t, u) PROVE Replicated'
  <1>1. PICK n, k, H : Replicas(n, k, H) /\ k[t] < n
    <2>1. PICK m, k, G : Replicas(m, k, G)
      BY DEF Replicated
    <2> QED BY <2>1, Continued
  <1>2. /\ Sending(t) /\ Partner(t) = u
        /\ pos[t].leg \in {"rep0", "rep1"}
        /\ pos' = [pos EXCEPT ![t] = LegAfter(@, book[t]), ![u] = LegAfter(@, book[u])]
        /\ book' = book /\ amount' = amount
    BY DEF Transfer, MeetsAt, Sending
  <1>3. k[t] = k[u] /\ pos[t].leg = pos[u].leg /\ t # u
    BY <1>1, MeetAtStage DEF Transfer
  <1>4. PICK i, leg, T : i = k[t] /\ leg = pos[t].leg /\ T = {t, u}
    OBVIOUS
  <1>5. /\ n \in Nat \ {0} /\ i \in 1 .. n - 1 /\ i \in 1 .. n /\ leg \in {"rep0", "rep1"}
        /\ T \in SUBSET Task /\ k \in [Task -> 1 .. n]
    BY <1>1, <1>2, <1>4 DEF Replicas
  <1>6. PassesOn(T, n, k, i, leg)
    BY <1>2, <1>3, <1>4, <1>5 DEF TypeOK, PassesOn
  <1>7. PICK kk : PassedBy(T, n, k, H, i, leg, kk)
    BY <1>1, <1>6, DirectionPassed
  <1>8. /\ kk \in [Task -> 1 .. n]
        /\ \A s \in Task : At(s, H[kk[s]])'
        /\ \A s \in Task \ T : \A j \in 1 .. n : /\ Past0(s, j, kk)' <=> Past0(s, j, k)
                                                 /\ Past1(s, j, kk)' <=> Past1(s, j, k)
        /\ \A s \in T : \A j \in 1 .. n : j # i => /\ Past0(s, j, kk)' <=> Past0(s, j, k)
                                                   /\ Past1(s, j, kk)' <=> Past1(s, j, k)
        /\ \A s \in T : /\ Past0(s, i, kk)'
                        /\ Past0(s, i, k) <=> leg = "rep1"
                        /\ ~Past1(s, i, k)
                        /\ Past1(s, i, kk)' <=> leg = "rep1"
    BY <1>7 DEF PassedBy
  <1>9. PICK h : h = H[i]
    OBVIOUS
  <1>10. LowerOf(h) \in T /\ UpperOf(h) \in T
    BY <1>1, <1>2, <1>4, <1>9, PartnersNumbers
  <1>11. PICK a \in T, p \in T : a = LowerOf(h) /\ p = UpperOf(h)
    BY <1>10
  <1>12. /\ Past0(a, i, kk)' <=> Past0(p, i, kk)'
         /\ Past1(a, i, kk)' <=> Past1(p, i, kk)'
    BY <1>8
  <1>13. InStep(i, kk, H[i])'
    BY <1>9, <1>11, <1>12, InStepNext
  <1>14. \A s \in Task : \A j \in 1 .. n : j # i => /\ Past0(s, j, kk)' <=> Past0(s, j, k)
                                                    /\ Past1(s, j, kk)' <=> Past1(s, j, k)
    BY <1>8
  <1>15. Replicas(n, kk, H)'
    BY <1>1, <1>8, <1>13, <1>14, Moved
  <1> QED BY <1>15 DEF Replicated

(* Every step leaves the books replicas.                                   *)
LEMMA NextReplicated == IInv /\ Replicated /\ [Next]_vars => Replicated'
  <1> SUFFICES ASSUME IInv, Replicated, [Next]_vars PROVE Replicated'
    OBVIOUS
  <1>1. TypeOK
    BY DEF IInv
  <1>2. ASSUME NEW t \in Task, Step(t) PROVE Replicated'
    BY <1>1, <1>2, BookkeepReplicated, CollectReplicated, SkipLegReplicated, TransferReplicated
       DEF Step
  <1>3. ASSUME UNCHANGED vars PROVE Replicated'
    <2>1. PICK n, k, H : Replicas(n, k, H)
      BY DEF Replicated
    <2>2. \A s \in Task : At(s, H[k[s]])'
      <3> SUFFICES ASSUME NEW s \in Task PROVE At(s, H[k[s]])'
        OBVIOUS
      <3>1. At(s, H[k[s]])
        BY <2>1 DEF Replicas
      <3> QED BY <1>3, <3>1, OthersAt DEF vars
    <2>3. \A s \in Task : \A j \in 1 .. n : /\ Past0(s, j, k)' <=> Past0(s, j, k)
                                            /\ Past1(s, j, k)' <=> Past1(s, j, k)
      BY <1>3 DEF vars, Past0, Past1
    <2>4. n \in Nat \ {0} /\ 1 \in 1 .. n /\ k \in [Task -> 1 .. n]
      BY <2>1 DEF Replicas
    <2>5. PICK a \in Task, p \in Task : a = LowerOf(H[1]) /\ p = UpperOf(H[1])
      BY <2>1, <2>4, StagePair DEF Replicas
    <2>6. /\ ~(Past0(a, 1, k) <=> Past0(p, 1, k)) => NumbersOf(H[1]).send = 0
          /\ ~(Past1(a, 1, k) <=> Past1(p, 1, k)) => NumbersOf(H[1]).recv = 0
      BY <2>1, <2>4, <2>5 DEF Replicas, InStep
    <2>7. /\ Past0(a, 1, k)' <=> Past0(a, 1, k)
          /\ Past0(p, 1, k)' <=> Past0(p, 1, k)
          /\ Past1(a, 1, k)' <=> Past1(a, 1, k)
          /\ Past1(p, 1, k)' <=> Past1(p, 1, k)
      BY <2>3, <2>4
    <2>8. /\ ~(Past0(a, 1, k)' <=> Past0(p, 1, k)') => NumbersOf(H[1]).send = 0
          /\ ~(Past1(a, 1, k)' <=> Past1(p, 1, k)') => NumbersOf(H[1]).recv = 0
      BY <2>6, <2>7, Zenon
    <2>9. InStep(1, k, H[1])'
      BY <2>5, <2>8, InStepNext
    <2>10. Replicas(n, k, H)'
      BY <2>1, <2>2, <2>3, <2>4, <2>9, Moved
    <2> QED BY <2>10 DEF Replicated
  <1> QED BY <1>2, <1>3 DEF Next, Return

(* Whenever a blocking send meets a receive, both tasks have worked out    *)
(* the same number for the same pass of the same pair, each from its own   *)
(* books: no message is cut, none is mistaken for that of another round    *)
(* (domain_findExchangeNumbers and domain_exchangeParticles, domain.c).    *)
THEOREM MessagesMatch == Spec => []SameMessage
  <1>1. IInv /\ Replicated => SameMessage
    <2> SUFFICES ASSUME IInv, Replicated, NEW t \in Task, NEW u \in Task, MeetsAt(t, u)
                 PROVE  /\ pos[t].pair = pos[u].pair /\ pos[t].sph = pos[u].sph
                        /\ amount[t].send = amount[u].recv /\ amount[t].send = buf[t]
      BY DEF SameMessage
    <2>1. PICK n, k, H : Replicas(n, k, H)
      BY DEF Replicated
    <2>2. TypeOK /\ OwnBook(t)
      BY DEF IInv, Sound
    <2>3. k[t] = k[u] /\ amount[t].send = amount[u].recv
      BY <2>1, <2>2, MeetAtStage
    <2>4. At(t, H[k[t]]) /\ At(u, H[k[u]])
      BY <2>1 DEF Replicas
    <2>5. /\ pos[t].leg \in {"rep0", "rep1"} /\ pos[u].leg \in {"rep0", "rep1"} /\ Sending(t)
      BY DEF MeetsAt, Sending, Receiving
    <2>6. pos[t].pair = pos[u].pair /\ pos[t].sph = pos[u].sph
      BY <2>3, <2>4, <2>5 DEF At
    <2>7. buf[t] = amount[t].send
      BY <2>2, <2>5 DEF OwnBook, ToGive, Sending
    <2> QED BY <2>3, <2>6, <2>7
  <1> QED BY <1>1, InitReplicated, NextReplicated, Invariance, PTL DEF Spec
===============================================================================
