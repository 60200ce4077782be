---------------------------- MODULE DomainExchange ----------------------------
(***************************************************************************)
(* The particle exchange that ends a domain decomposition (domain.c,       *)
(* domain_decompose from domain_countToGo on, domain_findExchangeNumbers,  *)
(* domain_exchangeParticles).                                              *)
(*                                                                         *)
(* Every MPI task walks the same list of task pairs, over and over, until  *)
(* its copy of the toGo matrix is empty.  There is no coordinator: each    *)
(* task redoes the bookkeeping of every pair on its own copies of          *)
(* list_NumPart, list_N_gas, toGo and toGoSph, and only the two members of *)
(* the pair move particles, with a blocking synchronous send in each       *)
(* direction.  A task whose copies differ from its partner's would send a  *)
(* message nobody waits for, overrun an array or hang.                     *)
(*                                                                         *)
(* Data abstraction: a particle is its destination (the task of its top    *)
(* level leaf) and its kind (SPH or other); the arrays P, Key and SphP of  *)
(* a task are the numbers of particles of each such class.                 *)
(***************************************************************************)
EXTENDS Integers, Sequences, Functions

CONSTANTS NTask,            \* number of MPI tasks
          PairSchedule,     \* the pairs <<task, partner>> of one round, in loop order
          MaxPart,          \* All.MaxPart
          MaxPartSph,       \* All.MaxPartSph
          BunchSizeDomain,  \* All.BunchSizeDomain, capacity of DomainPartBuf
          WithGas,          \* All.TotN_gas > 0
          InitialHold       \* the particle placements the exchange may start from

Task == 0 .. NTask - 1

Kind == {"sph", "other"}

ASSUME SizesAssumption ==
  /\ NTask \in Nat \ {0}
  /\ MaxPart \in Nat /\ MaxPartSph \in Nat
  /\ BunchSizeDomain \in Nat \ {0}
  /\ WithGas \in BOOLEAN
  /\ InitialHold \subseteq [Task -> [Task -> [Kind -> Nat]]]

ASSUME ScheduleAssumption ==
  /\ PairSchedule \in Seq(Task \X Task)
  /\ PairSchedule # <<>>
  /\ \A i \in DOMAIN PairSchedule : PairSchedule[i][1] < PairSchedule[i][2]
  /\ \A t, u \in Task : t < u => \E i \in DOMAIN PairSchedule : PairSchedule[i] = <<t, u>>

VARIABLES
  hold,     \* hold[t][d][k]: particles in the arrays of t with destination d and kind k
  NumPart,  \* NumPart[t], N_gas[t]: fill levels of P and SphP on task t
  N_gas,
  buf,      \* buf[t]: particles collected in DomainPartBuf
  book,     \* book[t]: the copies of list_NumPart, list_N_gas, toGo, toGoSph on task t
  pos,      \* pos[t]: place of task t in the exchange loop
  amount    \* amount[t]: send_count and recv_count of the running exchange

vars == <<hold, NumPart, N_gas, buf, book, pos, amount>>

-------------------------------------------------------------------------------
(* Counting particles.                                                     *)

RowSum(row, k) == SumFunction([d \in Task |-> row[d][k]])

PartCount(row) == RowSum(row, "sph") + RowSum(row, "other")

(* The final number of particles of task d.                                *)
TargetSph(h, d) == SumFunction([t \in Task |-> h[t][d].sph])

TargetLoad(h, d) == TargetSph(h, d) + SumFunction([t \in Task |-> h[t][d].other])

(* maxload and maxloadsph: the split may fill the arrays up to REDUC_FAC.  *)
Reduced(n) == (98 * n) \div 100

MaxLoad == Reduced(MaxPart)

MaxLoadSph == Reduced(MaxPartSph)

(* The domain split found by domain_findSplit and domain_shiftSplit        *)
(* respects maxload and maxloadsph.                                        *)
WithinLoad(h) ==
  \A d \in Task : TargetLoad(h, d) <= MaxLoad /\ TargetSph(h, d) <= MaxLoadSph

(* domain_countToGo.                                                       *)
CountToGo(h) == [t \in Task |-> [d \in Task |->
                   IF t = d THEN 0 ELSE h[t][d].sph + h[t][d].other]]

CountToGoSph(h) == [t \in Task |-> [d \in Task |-> IF t = d THEN 0 ELSE h[t][d].sph]]

-------------------------------------------------------------------------------
(* domain_findExchangeNumbers.                                             *)

Lesser(a, b) == IF a <= b THEN a ELSE b

(* Mutant: the rooms are not looked at.                                    *)
SqueezeNothing(x, roomA, roomB) == x

(* One pass of the do-while that fits both transfers of a pair into the    *)
(* rooms the partners have left; the pass is idempotent (theorem           *)
(* SqueezeOnce), so the loop leaves the value of its first pass.           *)
Squeeze(x, roomA, roomB) ==
  LET s == Lesser(roomB + x.recv, x.send)
  IN  [send |-> s, recv |-> Lesser(roomA + s, x.recv)]

Wanted(b, a, p, sph) ==
  [send |-> Lesser(BunchSizeDomain,
                   IF sph THEN b.toGoSph[a][p] ELSE b.toGo[a][p] - b.toGoSph[a][p]),
   recv |-> Lesser(BunchSizeDomain,
                   IF sph THEN b.toGoSph[p][a] ELSE b.toGo[p][a] - b.toGoSph[p][a])]

(* Mutant: the room in SphP is not looked at.                              *)
FindExchangeNumbersNoSph(b, a, p, sph) ==
  Squeeze(Wanted(b, a, p, sph), MaxPart - b.list_NumPart[a], MaxPart - b.list_NumPart[p])

FindExchangeNumbers(b, a, p, sph) ==
  LET x == Squeeze(Wanted(b, a, p, sph),
                   MaxPart - b.list_NumPart[a], MaxPart - b.list_NumPart[p])
  IN  IF sph THEN Squeeze(x, MaxPartSph - b.list_N_gas[a], MaxPartSph - b.list_N_gas[p])
             ELSE x

(* The bookkeeping of one pair, done by every task.                        *)
Shift(list, a, p, x) == [list EXCEPT ![a] = @ + x.recv - x.send, ![p] = @ - x.recv + x.send]

(* Mutant: what is sent is taken off the other direction.                  *)
SettleTransposed(matrix, a, p, x) == [matrix EXCEPT ![p][a] = @ - x.send, ![a][p] = @ - x.recv]

(* Mutant: what the partner sends is not taken off.                        *)
SettleHalf(matrix, a, p, x) == [matrix EXCEPT ![a][p] = @ - x.send]

Settle(matrix, a, p, x) == [matrix EXCEPT ![a][p] = @ - x.send, ![p][a] = @ - x.recv]

Account(b, a, p, sph, x) ==
  [list_NumPart |-> Shift(b.list_NumPart, a, p, x),
   list_N_gas   |-> IF sph THEN Shift(b.list_N_gas, a, p, x) ELSE b.list_N_gas,
   toGo         |-> Settle(b.toGo, a, p, x),
   toGoSph      |-> IF sph THEN Settle(b.toGoSph, a, p, x) ELSE b.toGoSph]

-------------------------------------------------------------------------------
(* The loop over the pairs.  leg: "book" before the bookkeeping of the     *)
(* pair, "rep0" and "rep1" in the two directions of                        *)
(* domain_exchangeParticles, "done" after the loop, "abort" in endrun(88). *)

Leg == {"book", "rep0", "rep1", "done", "abort"}

FirstStage == [pair |-> 1, sph |-> WithGas, leg |-> "book"]

(* sumtogo > 0.                                                            *)
AnyToGo(b) == \E t, d \in Task : b.toGo[t][d] > 0

(* Mutant: a single round over the pairs.                                  *)
StageAfterOneRound(p, b) ==
  IF p.sph THEN [pair |-> p.pair, sph |-> FALSE, leg |-> "book"]
  ELSE IF p.pair < Len(PairSchedule)
  THEN [pair |-> p.pair + 1, sph |-> WithGas, leg |-> "book"]
  ELSE [pair |-> p.pair, sph |-> FALSE, leg |-> "done"]

StageAfter(p, b) ==
  IF p.sph THEN [pair |-> p.pair, sph |-> FALSE, leg |-> "book"]
  ELSE IF p.pair < Len(PairSchedule)
  THEN [pair |-> p.pair + 1, sph |-> WithGas, leg |-> "book"]
  ELSE IF AnyToGo(b) THEN FirstStage
  ELSE [pair |-> p.pair, sph |-> FALSE, leg |-> "done"]

LegAfter(p, b) == IF p.leg = "rep0" THEN [p EXCEPT !.leg = "rep1"] ELSE StageAfter(p, b)

Lower(t) == PairSchedule[pos[t].pair][1]
Upper(t) == PairSchedule[pos[t].pair][2]

InPair(t) == t \in {Lower(t), Upper(t)}

Partner(t) == IF t = Lower(t) THEN Upper(t) ELSE Lower(t)

KindOf(t) == IF pos[t].sph THEN "sph" ELSE "other"

Sending(t) == \/ pos[t].leg = "rep0" /\ t < Partner(t)
              \/ pos[t].leg = "rep1" /\ t > Partner(t)

Receiving(t) == \/ pos[t].leg = "rep0" /\ t > Partner(t)
                \/ pos[t].leg = "rep1" /\ t < Partner(t)

(* Initially the arrays hold no more than they were allocated for.         *)
Init ==
  /\ hold \in InitialHold
  /\ WithinLoad(hold)
  /\ WithGas \/ \A t, d \in Task : hold[t][d].sph = 0
  /\ NumPart = [t \in Task |-> PartCount(hold[t])]
  /\ NumPart \in [Task -> 0 .. MaxPart]
  /\ N_gas = [t \in Task |-> RowSum(hold[t], "sph")]
  /\ N_gas \in [Task -> 0 .. MaxPartSph]
  /\ buf = [t \in Task |-> 0]
  /\ book = [t \in Task |-> [list_NumPart |-> NumPart, list_N_gas |-> N_gas,
                             toGo |-> CountToGo(hold), toGoSph |-> CountToGoSph(hold)]]
  /\ pos = [t \in Task |-> IF AnyToGo(book[t]) THEN FirstStage
                           ELSE [FirstStage EXCEPT !.leg = "done"]]
  /\ amount = [t \in Task |-> [send |-> 0, recv |-> 0]]

(* The numbers of the current pair, from the copies of task t.             *)
Numbers(t) == FindExchangeNumbers(book[t], Lower(t), Upper(t), pos[t].sph)

Accounted(t, x) == Account(book[t], Lower(t), Upper(t), pos[t].sph, x)

(* Mutant: a task outside the pair does not keep its books.                *)
BookkeepNothing(t) ==
  /\ pos[t].leg = "book"
  /\ ~InPair(t)
  /\ pos' = [pos EXCEPT ![t] = StageAfter(@, book[t])]
  /\ UNCHANGED <<hold, NumPart, N_gas, buf, book, amount>>

(* A task outside the pair only keeps its books.                           *)
Bookkeep(t) ==
  /\ pos[t].leg = "book"
  /\ ~InPair(t)
  /\ \E b \in {Accounted(t, Numbers(t))} :
       /\ book' = [book EXCEPT ![t] = b]
       /\ pos' = [pos EXCEPT ![t] = StageAfter(@, b)]
  /\ UNCHANGED <<hold, NumPart, N_gas, buf, amount>>

(* A member of the pair also collects the particles it sends; it gives up  *)
(* if its arrays hold fewer of them than the books say.                    *)
Collect(t) ==
  /\ pos[t].leg = "book"
  /\ InPair(t)
  /\ \E x \in {Numbers(t)} :
       /\ book' = [book EXCEPT ![t] = Accounted(t, x)]
       /\ amount' = [amount EXCEPT ![t] = IF t = Lower(t) THEN x
                                          ELSE [send |-> x.recv, recv |-> x.send]]
  /\ \E n \in {Lesser(amount'[t].send, hold[t][Partner(t)][KindOf(t)])} :
       /\ hold' = [hold EXCEPT ![t][Partner(t)][KindOf(t)] = @ - n]
       /\ NumPart' = [NumPart EXCEPT ![t] = @ - n]
       /\ N_gas' = IF pos[t].sph THEN [N_gas EXCEPT ![t] = @ - n] ELSE N_gas
       /\ buf' = [buf EXCEPT ![t] = n]
       /\ pos' = [pos EXCEPT ![t].leg = IF n = amount'[t].send THEN "rep0" ELSE "abort"]

(* A direction with nothing to carry is skipped without a message.         *)
SkipLeg(t) ==
  /\ \/ Sending(t) /\ amount[t].send = 0
     \/ Receiving(t) /\ amount[t].recv = 0
  /\ pos' = [pos EXCEPT ![t] = LegAfter(@, book[t])]
  /\ UNCHANGED <<hold, NumPart, N_gas, buf, book, amount>>

(* MPI_Ssend completes together with the matching MPI_Recv: source and     *)
(* destination select the message, the byte count is not compared.         *)
MeetsAt(t, u) ==
  /\ Sending(t) /\ Partner(t) = u /\ amount[t].send > 0
  /\ Receiving(u) /\ Partner(u) = t /\ amount[u].recv > 0

(* Mutant: the received particles are counted but overwritten.             *)
TransferLost(t, u) ==
  /\ MeetsAt(t, u)
  /\ NumPart' = [NumPart EXCEPT ![u] = @ + amount[u].recv]
  /\ N_gas' = IF pos[u].sph THEN [N_gas EXCEPT ![u] = @ + amount[u].recv] ELSE N_gas
  /\ buf' = [buf EXCEPT ![t] = 0]
  /\ pos' = [pos EXCEPT ![t] = LegAfter(@, book[t]), ![u] = LegAfter(@, book[u])]
  /\ UNCHANGED <<hold, book, amount>>

Transfer(t, u) ==
  /\ MeetsAt(t, u)
  /\ hold' = [hold EXCEPT ![u][u][KindOf(t)] = @ + buf[t]]
  /\ NumPart' = [NumPart EXCEPT ![u] = @ + amount[u].recv]
  /\ N_gas' = IF pos[u].sph THEN [N_gas EXCEPT ![u] = @ + amount[u].recv] ELSE N_gas
  /\ buf' = [buf EXCEPT ![t] = 0]
  /\ pos' = [pos EXCEPT ![t] = LegAfter(@, book[t]), ![u] = LegAfter(@, book[u])]
  /\ UNCHANGED <<book, amount>>

Finished == \A t \in Task : pos[t].leg = "done"

(* domain_decompose returns.                                               *)
Return == Finished /\ UNCHANGED vars

Step(t) == Bookkeep(t) \/ Collect(t) \/ SkipLeg(t) \/ \E u \in Task : Transfer(t, u)

Next == (\E t \in Task : Step(t)) \/ Return

(* Some task that can proceed is eventually scheduled, and MPI completes a *)
(* send whose receive has been posted.                                     *)
Fairness == WF_vars(Next)

Spec == Init /\ [][Next]_vars /\ Fairness
-------------------------------------------------------------------------------
(* Type invariant.                                                         *)
BookType == [list_NumPart : [Task -> Int],
             list_N_gas   : [Task -> Int],
             toGo         : [Task -> [Task -> Nat]],
             toGoSph      : [Task -> [Task -> Nat]]]

TypeOK ==
  /\ hold \in [Task -> [Task -> [Kind -> Nat]]]
  /\ NumPart \in [Task -> Int]
  /\ N_gas \in [Task -> Int]
  /\ buf \in [Task -> 0 .. BunchSizeDomain]
  /\ book \in [Task -> BookType]
  /\ pos \in [Task -> [pair : 1 .. Len(PairSchedule), sph : BOOLEAN, leg : Leg]]
  /\ amount \in [Task -> [send : Nat, recv : Nat]]

(* Memory safety of the exchange: at no point of either direction does a   *)
(* task hold more particles, or more SPH particles, than its arrays were   *)
(* allocated for, although partners exchange while both may be full.       *)
MemoryBound == \A t \in Task : NumPart[t] <= MaxPart /\ N_gas[t] <= MaxPartSph

(* No "Houston, we got a problem": the count a task derives from its copy  *)
(* of toGo is always available in its arrays.                              *)
NoAbort == \A t \in Task : pos[t].leg # "abort"

(* When a send meets a receive, the two tasks, which computed their counts *)
(* independently, are in the same pass of the same pair and expect the     *)
(* same number of particles (so no truncated or short message).            *)
SameMessage ==
  \A t, u \in Task :
    MeetsAt(t, u) => /\ pos[t].pair = pos[u].pair
                     /\ pos[t].sph = pos[u].sph
                     /\ amount[t].send = amount[u].recv
                     /\ amount[t].send = buf[t]

(* A task leaves the loop only when its own particles all belong to it.    *)
DoneIsHome ==
  \A t \in Task : pos[t].leg = "done" =>
    /\ buf[t] = 0
    /\ \A d \in Task \ {t} : hold[t][d] = [k \in Kind |-> 0]

(* The repeated exchange ends on every task: tasks that are full of        *)
(* third-party particles never block each other for good.                  *)
Terminates == <>Finished

(* The exchange implements the redistribution: the particles in flight     *)
(* still count for the task that collected them.                           *)
Held == [t \in Task |-> [d \in Task |-> [k \in Kind |->
          hold[t][d][k] + IF /\ pos[t].leg \in {"rep0", "rep1"}
                             /\ d = Partner(t) /\ k = KindOf(t) THEN buf[t] ELSE 0]]]

R == INSTANCE Redistribution WITH held <- Held, InitialHeld <- InitialHold

Implements == R!RSpec

(* The safety part: particles travel straight to the owner of their domain *)
(* and none is lost, duplicated or moved elsewhere.                        *)
ImplementsSafely == R!RSafe
===============================================================================
