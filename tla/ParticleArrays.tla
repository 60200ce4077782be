---------------------------- MODULE ParticleArrays ----------------------------
(***************************************************************************)
(* The arrays P, Key and SphP of one MPI task during a domain              *)
(* decomposition: particles are collected for a partner                    *)
(* (domain_exchangeParticles), particles of the partner are inserted, and  *)
(* the rest is brought into Peano-Hilbert order in place (peano.c).  Gas   *)
(* stays in front, because SphP[i] belongs to P[i].                        *)
(*                                                                         *)
(* Every loop iteration that moves a particle is an action.  A particle is *)
(* an identity; an element of P or SphP is the identity whose data it      *)
(* holds, an element of Key is a key value.  The other tasks are the sets  *)
(* away and incoming.  The counts of an exchange are any counts that       *)
(* module DomainExchange allows: available, and within the arrays.         *)
(***************************************************************************)
EXTENDS Integers, Sequences, FiniteSets

CONSTANTS Gas, Other,          \* the particles, by type
          KeyOf,               \* the Peano-Hilbert key of each particle
          NoParticle,          \* content of an array element never written
          MaxPart, MaxPartSph  \* the lengths of P, Key and of SphP

Particle == Gas \cup Other

ASSUME ArraysAssumption ==
  /\ Gas \cap Other = {}
  /\ NoParticle \notin Particle
  /\ KeyOf \in [Particle -> Nat]
  /\ MaxPart \in Nat /\ MaxPartSph \in Nat
  /\ MaxPartSph <= MaxPart

VARIABLES
  P, Key, SphP, NumPart, N_gas,
  away,      \* the particles in the arrays of other tasks
  incoming,  \* the particles the partner has collected for this task
  DomainPartBuf, DomainKeyBuf, DomainSphBuf,
  xchg,      \* the running call of domain_exchangeParticles
  perm,      \* the running loop of reorder_gas or reorder_particles
  phase      \* "idle", "exchange", "collect", "receive", "send", "endrun",
             \* "reorder_gas", "reorder_particles"

arrays == <<P, Key, SphP, NumPart, N_gas>>

bufs == <<DomainPartBuf, DomainKeyBuf, DomainSphBuf>>

vars == <<arrays, away, incoming, bufs, xchg, perm, phase>>

Slot == 0 .. MaxPart - 1

SphSlot == 0 .. MaxPartSph - 1

Used == 0 .. NumPart - 1

UsedSph == 0 .. N_gas - 1

Here == {P[i] : i \in Used}

Buffered == {DomainPartBuf[i] : i \in DOMAIN DomainPartBuf}

(* theirs: the particles of this task, of the type that is exchanged, in   *)
(* the partner's domain; rest: what is left to do of the two directions.   *)
NoXchg == [sph |-> FALSE, theirs |-> {}, send |-> 0, n |-> 0, rest |-> <<>>]

NoPerm == [i |-> 0, Id |-> <<>>, inside |-> FALSE, Psource |-> NoParticle,
           SphPsource |-> NoParticle, dest |-> 0]

(* A task with gas in front, as read_ic and earlier decompositions leave   *)
(* it.                                                                     *)
Init ==
  /\ \E g \in 0 .. MaxPartSph : \E f \in [0 .. g - 1 -> Gas] :
     \E o \in 0 .. MaxPart - g : \E h \in [0 .. o - 1 -> Other] :
       /\ \A i, j \in 0 .. g - 1 : i # j => f[i] # f[j]
       /\ \A i, j \in 0 .. o - 1 : i # j => h[i] # h[j]
       /\ P = [i \in Slot |-> IF i < g THEN f[i] ELSE IF i < g + o THEN h[i - g] ELSE NoParticle]
       /\ N_gas = g /\ NumPart = g + o
       /\ SphP = [i \in SphSlot |-> IF i < g THEN f[i] ELSE NoParticle]
  /\ Key = [i \in Slot |-> 0]
  /\ away = Particle \ Here
  /\ incoming = <<>>
  /\ DomainPartBuf = <<>> /\ DomainKeyBuf = <<>> /\ DomainSphBuf = <<>>
  /\ xchg = NoXchg /\ perm = NoPerm /\ phase = "idle"

(* domain_determineTopTree computes the keys of all particles.             *)
ComputeKeys ==
  /\ phase = "idle"
  /\ Key' = [i \in Slot |-> IF i \in Used THEN KeyOf[P[i]] ELSE 0]
  /\ phase' = "exchange"
  /\ UNCHANGED <<P, SphP, NumPart, N_gas, away, incoming, bufs, xchg, perm>>

-------------------------------------------------------------------------------
(* domain_exchangeParticles(partner, sphflag, send_count, recv_count).     *)

OfKind(sph) == IF sph THEN Gas ELSE Other

(* The lower task of a pair sends first, the upper one receives first.     *)
Orders == {<<"send", "receive">>, <<"receive", "send">>}

Begin(sph, theirs, send, in, order) ==
  /\ phase = "exchange"
  /\ send <= Cardinality(theirs)
  /\ NumPart - send + Len(in) <= MaxPart
  /\ sph => N_gas - send + Len(in) <= MaxPartSph
  /\ xchg' = [sph |-> sph, theirs |-> theirs, send |-> send, n |-> 0, rest |-> order]
  /\ incoming' = in
  /\ away' = away \ {in[i] : i \in DOMAIN in}
  /\ phase' = "collect"
  /\ UNCHANGED <<arrays, bufs, perm>>

(* The particle at n stays, it has the other type or another destination.  *)
Stays(p) == p \notin OfKind(xchg.sph) \/ p \notin xchg.theirs

Collecting == phase = "collect" /\ Len(DomainPartBuf) < xchg.send /\ xchg.n < NumPart

Skip ==
  /\ Collecting
  /\ Stays(P[xchg.n])
  /\ xchg' = [xchg EXCEPT !.n = @ + 1]
  /\ UNCHANGED <<arrays, away, incoming, bufs, perm, phase>>

(* The gap of a gas particle is filled by the last gas particle, whose     *)
(* place the last particle takes; n stays where it is.                     *)
CloseGap(f, n) ==
  LET g == [f EXCEPT ![n] = f[N_gas - 1]]
  IN  [g EXCEPT ![N_gas - 1] = g[NumPart - 1]]

CollectGas ==
  /\ Collecting /\ xchg.sph
  /\ ~Stays(P[xchg.n])
  /\ DomainPartBuf' = Append(DomainPartBuf, P[xchg.n])
  /\ DomainKeyBuf' = Append(DomainKeyBuf, Key[xchg.n])
  /\ DomainSphBuf' = Append(DomainSphBuf, SphP[xchg.n])
  /\ P' = CloseGap(P, xchg.n)
  /\ Key' = CloseGap(Key, xchg.n)
  /\ SphP' = [SphP EXCEPT ![xchg.n] = SphP[N_gas - 1]]
  /\ N_gas' = N_gas - 1 /\ NumPart' = NumPart - 1
  /\ UNCHANGED <<away, incoming, xchg, perm, phase>>

CollectOther ==
  /\ Collecting /\ ~xchg.sph
  /\ ~Stays(P[xchg.n])
  /\ DomainPartBuf' = Append(DomainPartBuf, P[xchg.n])
  /\ DomainKeyBuf' = Append(DomainKeyBuf, Key[xchg.n])
  /\ P' = [P EXCEPT ![xchg.n] = P[NumPart - 1]]
  /\ Key' = [Key EXCEPT ![xchg.n] = Key[NumPart - 1]]
  /\ NumPart' = NumPart - 1
  /\ UNCHANGED <<SphP, N_gas, DomainSphBuf, away, incoming, xchg, perm, phase>>

(* The loop ends; a wrong count ends the run (endrun(88)).                 *)
Collected ==
  /\ phase = "collect" /\ ~Collecting
  /\ IF Len(DomainPartBuf) = xchg.send
     THEN /\ phase' = Head(xchg.rest)
          /\ xchg' = [xchg EXCEPT !.rest = Tail(@)]
     ELSE phase' = "endrun" /\ xchg' = xchg
  /\ UNCHANGED <<arrays, away, incoming, bufs, perm>>

(* The second direction follows the first.                                 *)
Proceed ==
  IF xchg.rest = <<>> THEN phase' = "exchange" /\ xchg' = NoXchg
  ELSE phase' = Head(xchg.rest) /\ xchg' = [xchg EXCEPT !.rest = Tail(@)]

Send ==
  /\ phase = "send"
  /\ away' = away \cup Buffered
  /\ DomainPartBuf' = <<>> /\ DomainKeyBuf' = <<>> /\ DomainSphBuf' = <<>>
  /\ Proceed
  /\ UNCHANGED <<arrays, incoming, perm>>

(* Mutant: the first k move even if there are fewer.                       *)
MakeRoomAtEnd(f, k) ==
  [i \in Slot |-> IF i \in NumPart .. NumPart + k - 1 THEN f[N_gas + (i - NumPart)] ELSE f[i]]

(* Room for k gas particles: the first k of the others move to the end, or *)
(* all of them move up if there are no more than k.                        *)
MakeRoom(f, k) ==
  IF NumPart - N_gas > k
  THEN [i \in Slot |-> IF i \in NumPart .. NumPart + k - 1 THEN f[N_gas + (i - NumPart)] ELSE f[i]]
  ELSE [i \in Slot |-> IF i \in N_gas + k .. NumPart + k - 1 THEN f[i - k] ELSE f[i]]

(* MPI_Recv of the elements x[1], x[2], ... at f[at], f[at + 1], ...       *)
Put(f, at, x) ==
  [i \in DOMAIN f |-> IF i \in at .. at + Len(x) - 1 THEN x[i - at + 1] ELSE f[i]]

Keys(x) == [i \in DOMAIN x |-> KeyOf[x[i]]]

Receive ==
  /\ phase = "receive"
  /\ LET k == Len(incoming)
     IN  IF xchg.sph
         THEN /\ P' = Put(MakeRoom(P, k), N_gas, incoming)
              /\ Key' = Put(MakeRoom(Key, k), N_gas, Keys(incoming))
              /\ SphP' = Put(SphP, N_gas, incoming)
              /\ N_gas' = N_gas + k /\ NumPart' = NumPart + k
         ELSE /\ P' = Put(P, NumPart, incoming)
              /\ Key' = Put(Key, NumPart, Keys(incoming))
              /\ NumPart' = NumPart + k
              /\ UNCHANGED <<SphP, N_gas>>
  /\ incoming' = <<>>
  /\ Proceed
  /\ UNCHANGED <<away, bufs, perm>>

-------------------------------------------------------------------------------
(* peano_hilbert_order.  Id[i] is the place of element i in the sorted     *)
(* block; qsort may leave equal keys in any order.                         *)

Sorting(block) ==
  {Id \in [block -> block] :
     /\ \A i, j \in block : i # j => Id[i] # Id[j]
     /\ \A i, j \in block : Key[i] < Key[j] => Id[i] < Id[j]}

OtherSlots == N_gas .. NumPart - 1

OrderGas ==
  /\ phase = "exchange"
  /\ \E Id \in Sorting(UsedSph) : perm' = [NoPerm EXCEPT !.Id = Id]
  /\ phase' = "reorder_gas"
  /\ UNCHANGED <<arrays, away, incoming, bufs, xchg>>

Permuting == phase \in {"reorder_gas", "reorder_particles"}

BlockEnd == IF phase = "reorder_gas" THEN N_gas ELSE NumPart

(* An element at its place is passed over.                                 *)
InPlace ==
  /\ Permuting /\ ~perm.inside /\ perm.i < BlockEnd
  /\ perm.Id[perm.i] = perm.i
  /\ perm' = [perm EXCEPT !.i = @ + 1]
  /\ UNCHANGED <<arrays, away, incoming, bufs, xchg, phase>>

(* A cycle starts with a copy of its first element.                        *)
StartCycle ==
  /\ Permuting /\ ~perm.inside /\ perm.i < BlockEnd
  /\ perm.Id[perm.i] # perm.i
  /\ perm' = [perm EXCEPT !.inside = TRUE, !.Psource = P[perm.i], !.dest = perm.Id[perm.i],
                          !.SphPsource = IF phase = "reorder_gas" THEN SphP[perm.i] ELSE @]
  /\ UNCHANGED <<arrays, away, incoming, bufs, xchg, phase>>

(* Mutant: the SPH data stays.                                             *)
PlaceWithoutSph ==
  /\ Permuting /\ perm.inside
  /\ P' = [P EXCEPT ![perm.dest] = perm.Psource]
  /\ perm' = IF perm.dest = perm.i
             THEN [NoPerm EXCEPT !.i = perm.i + 1, !.Id = [perm.Id EXCEPT ![perm.i] = perm.i]]
             ELSE [perm EXCEPT !.Id[perm.dest] = perm.dest, !.dest = perm.Id[perm.dest],
                               !.Psource = P[perm.dest]]
  /\ UNCHANGED <<Key, SphP, NumPart, N_gas, away, incoming, bufs, xchg, phase>>

(* Mutant: a place that is filled is not marked.                           *)
PlaceUnmarked ==
  /\ Permuting /\ perm.inside
  /\ P' = [P EXCEPT ![perm.dest] = perm.Psource]
  /\ SphP' = IF phase = "reorder_gas" THEN [SphP EXCEPT ![perm.dest] = perm.SphPsource] ELSE SphP
  /\ perm' = IF perm.dest = perm.i
             THEN [NoPerm EXCEPT !.i = perm.i + 1, !.Id = perm.Id]
             ELSE [perm EXCEPT !.dest = perm.Id[perm.dest], !.Psource = P[perm.dest],
                               !.SphPsource = IF phase = "reorder_gas" THEN SphP[perm.dest] ELSE @]
  /\ UNCHANGED <<Key, NumPart, N_gas, away, incoming, bufs, xchg, phase>>

(* The copy goes to its place and the element it replaces is copied; the   *)
(* cycle ends where it began.  idsource of the code equals dest.           *)
Place ==
  /\ Permuting /\ perm.inside
  /\ P' = [P EXCEPT ![perm.dest] = perm.Psource]
  /\ SphP' = IF phase = "reorder_gas" THEN [SphP EXCEPT ![perm.dest] = perm.SphPsource] ELSE SphP
  /\ perm' = IF perm.dest = perm.i
             THEN [NoPerm EXCEPT !.i = perm.i + 1, !.Id = [perm.Id EXCEPT ![perm.i] = perm.i]]
             ELSE [perm EXCEPT !.Id[perm.dest] = perm.dest, !.dest = perm.Id[perm.dest],
                               !.Psource = P[perm.dest],
                               !.SphPsource = IF phase = "reorder_gas" THEN SphP[perm.dest] ELSE @]
  /\ UNCHANGED <<Key, NumPart, N_gas, away, incoming, bufs, xchg, phase>>

(* The other particles follow the gas, and end the decomposition.          *)
OrderOther ==
  /\ phase = "reorder_gas" /\ ~perm.inside /\ perm.i = BlockEnd
  /\ \E Id \in Sorting(OtherSlots) : perm' = [NoPerm EXCEPT !.i = N_gas, !.Id = Id]
  /\ phase' = "reorder_particles"
  /\ UNCHANGED <<arrays, away, incoming, bufs, xchg>>

Ordered ==
  /\ phase = "reorder_particles" /\ ~perm.inside /\ perm.i = BlockEnd
  /\ perm' = NoPerm
  /\ phase' = "idle"
  /\ UNCHANGED <<arrays, away, incoming, bufs, xchg>>

(* The sequences without repetition over a set, up to a length.            *)
Batches(S, max) ==
  {in \in UNION {[1 .. k -> S] : k \in 0 .. max} : \A i, j \in DOMAIN in : i # j => in[i] # in[j]}

Exchange ==
  \E sph \in BOOLEAN : \E theirs \in SUBSET (Here \cap OfKind(sph)) :
  \E send \in 0 .. Cardinality(theirs) :
  \E in \in Batches(away \cap OfKind(sph), MaxPart) : \E order \in Orders :
    Begin(sph, theirs, send, in, order)

Next == \/ ComputeKeys \/ Exchange
        \/ Skip \/ CollectGas \/ CollectOther \/ Collected
        \/ Send \/ Receive
        \/ OrderGas \/ InPlace \/ StartCycle \/ Place \/ OrderOther \/ Ordered

Spec == Init /\ [][Next]_vars /\ WF_vars(Next)
-------------------------------------------------------------------------------
TypeOK ==
  /\ P \in [Slot -> Particle \cup {NoParticle}]
  /\ Key \in [Slot -> Nat]
  /\ SphP \in [SphSlot -> Particle \cup {NoParticle}]
  /\ NumPart \in 0 .. MaxPart
  /\ N_gas \in 0 .. MaxPartSph
  /\ away \subseteq Particle
  /\ incoming \in Seq(Particle)
  /\ DomainPartBuf \in Seq(Particle)
  /\ DomainKeyBuf \in Seq(Nat)
  /\ DomainSphBuf \in Seq(Particle)
  /\ phase \in {"idle", "exchange", "collect", "receive", "send", "endrun",
                "reorder_gas", "reorder_particles"}

(* The arrays, with the element a running cycle has copied back in place.  *)
WholeP == IF perm.inside THEN [P EXCEPT ![perm.i] = perm.Psource] ELSE P

WholeSphP ==
  IF perm.inside /\ phase = "reorder_gas" THEN [SphP EXCEPT ![perm.i] = perm.SphPsource] ELSE SphP

(* Gas stays in front of the other particles, between any two moves.       *)
GasInFront ==
  /\ \A i \in UsedSph : WholeP[i] \in Gas
  /\ \A i \in OtherSlots : WholeP[i] \in Other

(* The SPH data beside a gas particle is its own, in the arrays, inside a  *)
(* permutation cycle, and in the send buffers.                             *)
SphBeside ==
  /\ \A i \in UsedSph : WholeSphP[i] = WholeP[i]
  /\ xchg.sph => DomainSphBuf = DomainPartBuf

(* The keys of the exchange stay beside their particles.                   *)
KeyBeside ==
  phase \in {"exchange", "collect", "receive", "send"} =>
    /\ \A i \in Used : Key[i] = KeyOf[P[i]]
    /\ DomainKeyBuf = Keys(DomainPartBuf)

(* Gas stays in front, and both parallel arrays stay beside P.             *)
Beside == GasInFront /\ SphBeside /\ KeyBeside

(* The collecting loop finds as many particles as there are to send.       *)
NoShortage == phase # "endrun"

(* Every particle exists exactly once: in the arrays, in the send buffer,  *)
(* on its way here, or on another task; none that is to be sent is missed. *)
Once ==
  LET here == {WholeP[i] : i \in Used}
      in == {incoming[i] : i \in DOMAIN incoming}
  IN  /\ \A i, j \in Used : i # j => WholeP[i] # WholeP[j]
      /\ \A i, j \in DOMAIN DomainPartBuf : i # j => DomainPartBuf[i] # DomainPartBuf[j]
      /\ here \cup Buffered \cup in \cup away = Particle
      /\ here \cap (Buffered \cup in \cup away) = {}
      /\ Buffered \cap (in \cup away) = {}
      /\ in \cap away = {}
      /\ NoShortage

(* A decomposition leaves gas and other particles sorted by their keys.    *)
InOrder(block) == \A i, j \in block : i < j => KeyOf[P[i]] <= KeyOf[P[j]]

SortedAfterwards ==
  [][phase = "reorder_particles" /\ phase' = "idle" => InOrder(UsedSph) /\ InOrder(OtherSlots)]_vars
===============================================================================
