-------------------------- MODULE ParticleArraysProofs -------------------------
(***************************************************************************)
(* Proofs about ParticleArrays, for any particles, keys and array sizes,   *)
(* and any number of exchanges and decompositions.                         *)
(*                                                                         *)
(* The argument: each move of elements is described by the place that the  *)
(* new content of a place comes from (GasSource, RoomSource); this map is  *)
(* the same for P, Key and SphP and does not carry gas behind the others.  *)
(* Inside a permutation the arrays with the copied element put back        *)
(* (WholeP) and the places the elements still have to go to (Target) are   *)
(* swapped together, so that their order stays the one of the keys.        *)
(***************************************************************************)
EXTENDS ParticleArrays, FiniteSetTheorems, TLAPS

Content == Particle \cup {NoParticle}

Moving == {"collect", "receive", "send"}

Ordering == {"reorder_gas", "reorder_particles"}

Coming == {incoming[i] : i \in DOMAIN incoming}

Whole == {WholeP[i] : i \in Used}

(* What is left to do of an exchange after the step that is taken.         *)
Rests == {<<>>, <<"send">>, <<"receive">>}

BlockStart == IF phase = "reorder_gas" THEN 0 ELSE N_gas

Block == BlockStart .. BlockEnd - 1

(* The place the element at j of the whole array still has to go to.       *)
Target(j) == IF perm.inside /\ j = perm.i THEN perm.dest ELSE perm.Id[j]

Calls == [sph : BOOLEAN, theirs : SUBSET Particle, send : Nat, n : Nat, rest : Rests \cup Orders]

Typed ==
  /\ P \in [Slot -> Content] /\ Key \in [Slot -> Nat] /\ SphP \in [SphSlot -> Content]
  /\ NumPart \in 0 .. MaxPart /\ N_gas \in 0 .. MaxPartSph /\ N_gas <= NumPart
  /\ away \subseteq Particle
  /\ incoming \in Seq(Particle) /\ DomainPartBuf \in Seq(Particle)
  /\ DomainKeyBuf \in Seq(Nat) /\ DomainSphBuf \in Seq(Particle)
  /\ xchg \in Calls

NothingBuffered == DomainPartBuf = <<>> /\ DomainKeyBuf = <<>> /\ DomainSphBuf = <<>>

(* Which step of a call is taken, and what the others have left behind.    *)
Staged ==
  /\ phase \in {"idle", "exchange"} \cup Moving \cup Ordering
  /\ phase = "collect" => xchg.rest \in Orders
  /\ phase = "receive" => xchg.rest \in {<<>>, <<"send">>} /\ (xchg.rest = <<>> => NothingBuffered)
  /\ phase = "send" => xchg.rest \in {<<>>, <<"receive">>} /\ (xchg.rest = <<>> => incoming = <<>>)
  /\ phase \notin Moving => xchg = NoXchg /\ incoming = <<>> /\ NothingBuffered
  /\ phase \notin Ordering => perm = NoPerm

(* What comes and goes is of the kind that is exchanged, and fits.         *)
Fits ==
  /\ Coming \cup Buffered \subseteq OfKind(xchg.sph)
  /\ phase = "collect" =>
       /\ Len(DomainPartBuf) <= xchg.send
       /\ NumPart - (xchg.send - Len(DomainPartBuf)) + Len(incoming) <= MaxPart
       /\ xchg.sph => N_gas - (xchg.send - Len(DomainPartBuf)) + Len(incoming) <= MaxPartSph
  /\ phase \in {"receive", "send"} =>
       /\ NumPart + Len(incoming) <= MaxPart
       /\ xchg.sph => N_gas + Len(incoming) <= MaxPartSph

(* The particles to be sent are collected, or not behind the search.       *)
Search ==
  phase = "collect" =>
    /\ xchg.n <= NumPart
    /\ xchg.theirs \subseteq OfKind(xchg.sph)
    /\ xchg.send <= Cardinality(xchg.theirs)
    /\ \A p \in xchg.theirs : p \in Buffered \/ \E i \in xchg.n .. NumPart - 1 : P[i] = p

(* Nothing is there twice, or in two of the four places.                   *)
Distinct ==
  /\ \A i, j \in Used : i # j => WholeP[i] # WholeP[j]
  /\ \A i, j \in DOMAIN DomainPartBuf : i # j => DomainPartBuf[i] # DomainPartBuf[j]
  /\ \A i, j \in DOMAIN incoming : i # j => incoming[i] # incoming[j]

Divided(here, buffered, coming, others) ==
  /\ here \cup buffered \cup coming \cup others = Particle
  /\ here \cap (buffered \cup coming \cup others) = {}
  /\ buffered \cap (coming \cup others) = {}
  /\ coming \cap others = {}

Permutation ==
  phase \in Ordering =>
    /\ perm \in [i : Nat, Id : [Block -> Block], inside : BOOLEAN, Psource : Content,
                 SphPsource : Content, dest : Nat]
    /\ perm.i \in BlockStart .. BlockEnd
    /\ perm.inside => perm.i \in Block /\ perm.dest \in Block

Sorted ==
  phase \in Ordering =>
    /\ \A a, b \in Block : KeyOf[WholeP[a]] < KeyOf[WholeP[b]] => Target(a) < Target(b)
    /\ \A j \in Block : j < perm.i => perm.Id[j] = j
    /\ phase = "reorder_gas" => \A i \in OtherSlots : Key[i] = KeyOf[P[i]]
    /\ phase = "reorder_particles" => InOrder(UsedSph)

IInv ==
  /\ Typed /\ Staged /\ Fits /\ Search
  /\ GasInFront /\ SphBeside /\ KeyBeside
  /\ Distinct /\ Divided(Whole, Buffered, Coming, away)
  /\ Permutation /\ Sorted

LEMMA Constants ==
  /\ Gas \cap Other = {} /\ NoParticle \notin Particle
  /\ KeyOf \in [Particle -> Nat]
  /\ MaxPart \in Nat /\ MaxPartSph \in Nat /\ MaxPartSph <= MaxPart
  /\ Particle = Gas \cup Other
  BY ArraysAssumption DEF Particle

(* As many particles as a sequence is long, at most.                       *)
LEMMA Counted ==
  ASSUME NEW s \in Seq(Particle)
  PROVE  /\ IsFiniteSet({s[i] : i \in DOMAIN s})
         /\ Cardinality({s[i] : i \in DOMAIN s}) <= Len(s)
         /\ Cardinality({s[i] : i \in DOMAIN s}) \in Nat
  <1> DEFINE T == {s[i] : i \in DOMAIN s}
  <1>1. Len(s) \in Nat /\ DOMAIN s = 1 .. Len(s)
    OBVIOUS
  <1>2. s \in Surjection(1 .. Len(s), T)
    BY <1>1 DEF Surjection
  <1>3. IsFiniteSet(1 .. Len(s)) /\ Cardinality(1 .. Len(s)) = Len(s)
    BY <1>1, FS_Interval
  <1> QED BY <1>2, <1>3, FS_Surjection, FS_CardinalityType

LEMMA StartsRight == Init => IInv
  <1> SUFFICES ASSUME Init PROVE IInv
    OBVIOUS
  <1> USE Constants
  <1> DEFINE Filled(g, f, o, h) ==
        /\ \A i, j \in 0 .. g - 1 : i # j => f[i] # f[j]
        /\ \A i, j \in 0 .. o - 1 : i # j => h[i] # h[j]
        /\ P = [i \in Slot |-> IF i < g THEN f[i] ELSE IF i < g + o THEN h[i - g] ELSE NoParticle]
        /\ N_gas = g /\ NumPart = g + o
        /\ SphP = [i \in SphSlot |-> IF i < g THEN f[i] ELSE NoParticle]
  <1>a. PICK g \in 0 .. MaxPartSph : \E f \in [0 .. g - 1 -> Gas] :
          \E o \in 0 .. MaxPart - g : \E h \in [0 .. o - 1 -> Other] : Filled(g, f, o, h)
    BY DEF Init
  <1>b. PICK f \in [0 .. g - 1 -> Gas], o \in 0 .. MaxPart - g :
          \E h \in [0 .. o - 1 -> Other] : Filled(g, f, o, h)
    BY <1>a
  <1>1. PICK h \in [0 .. o - 1 -> Other] : Filled(g, f, o, h)
    BY <1>b
  <1>2. /\ incoming = <<>> /\ NothingBuffered /\ xchg = NoXchg /\ perm = NoPerm /\ phase = "idle"
        /\ Key = [i \in Slot |-> 0] /\ away = Particle \ Here
    BY DEF Init, NothingBuffered
  <1>3. Typed
    <2>1. P \in [Slot -> Content] /\ SphP \in [SphSlot -> Content]
      BY <1>1 DEF Slot, SphSlot, Content
    <2>2. Key \in [Slot -> Nat]
      BY <1>2
    <2>3. xchg \in Calls
      BY <1>2 DEF NoXchg, Rests, Calls
    <2>4. NumPart \in 0 .. MaxPart /\ N_gas \in 0 .. MaxPartSph /\ N_gas <= NumPart
      BY <1>1
    <2> QED BY <1>2, <2>1, <2>2, <2>3, <2>4 DEF Typed, NothingBuffered
  <1>4. WholeP = P /\ WholeSphP = SphP
    BY <1>2 DEF WholeP, WholeSphP, NoPerm
  <1>5. Staged /\ Permutation /\ Sorted /\ Search
    BY <1>2 DEF Staged, Permutation, Sorted, Search, Moving, Ordering
  <1>6. Coming = {} /\ Buffered = {}
    BY <1>2 DEF Coming, Buffered, NothingBuffered
  <1>7. Fits
    BY <1>2, <1>6 DEF Fits
  <1>8. GasInFront /\ SphBeside /\ KeyBeside
    BY <1>1, <1>2, <1>4 DEF GasInFront, SphBeside, KeyBeside, UsedSph, OtherSlots, Slot, SphSlot,
       NoXchg
  <1>9. Distinct
    <2>1. \A i, j \in Used : i # j => P[i] # P[j]
      BY <1>1 DEF Used, Slot
    <2> QED BY <2>1, <1>2, <1>4 DEF Distinct, NothingBuffered
  <1>10. Here \subseteq Particle
    BY <1>1 DEF Here, Used, Slot
  <1>11. Whole = Here
    BY <1>4 DEF Whole, Here
  <1>12. Divided(Whole, Buffered, Coming, away)
    BY <1>2, <1>6, <1>10, <1>11 DEF Divided
  <1> QED BY <1>3, <1>5, <1>7, <1>8, <1>9, <1>12 DEF IInv

(* The sizes and types that the steps below rest on.                       *)
LEMMA Basics ==
  ASSUME Typed
  PROVE  /\ NumPart \in Nat /\ N_gas \in Nat /\ N_gas <= NumPart /\ NumPart <= MaxPart
         /\ N_gas <= MaxPartSph
         /\ xchg \in Calls /\ xchg.n \in Nat /\ xchg.send \in Nat /\ xchg.sph \in BOOLEAN
         /\ xchg.theirs \subseteq Particle
         /\ Len(incoming) \in Nat /\ DOMAIN incoming = 1 .. Len(incoming)
         /\ Len(DomainPartBuf) \in Nat /\ DOMAIN DomainPartBuf = 1 .. Len(DomainPartBuf)
         /\ Coming \subseteq Particle /\ Buffered \subseteq Particle
         /\ Used \subseteq Slot /\ UsedSph \subseteq SphSlot /\ SphSlot \subseteq Slot
         /\ Used = UsedSph \cup OtherSlots /\ UsedSph \cap OtherSlots = {}
  <1> USE Constants
  <1>1. NumPart \in Nat /\ N_gas \in Nat /\ N_gas <= NumPart /\ NumPart <= MaxPart /\ N_gas <= MaxPartSph
    BY DEF Typed
  <1>2. xchg \in Calls
    BY DEF Typed
  <1>3. xchg.n \in Nat /\ xchg.send \in Nat /\ xchg.sph \in BOOLEAN /\ xchg.theirs \subseteq Particle
    BY <1>2 DEF Calls
  <1>4. incoming \in Seq(Particle) /\ DomainPartBuf \in Seq(Particle)
    BY DEF Typed
  <1>5. Coming \subseteq Particle /\ Buffered \subseteq Particle
    BY <1>4 DEF Coming, Buffered
  <1>6. Used \subseteq Slot /\ UsedSph \subseteq SphSlot /\ SphSlot \subseteq Slot
    BY <1>1 DEF Used, UsedSph, Slot, SphSlot
  <1>7. Used = UsedSph \cup OtherSlots /\ UsedSph \cap OtherSlots = {}
    BY <1>1 DEF Used, UsedSph, OtherSlots
  <1> QED BY <1>1, <1>2, <1>3, <1>4, <1>5, <1>6, <1>7

(* What does not change when the arrays, buffers and copies do not.        *)
LEMMA SameArrays ==
  ASSUME UNCHANGED <<P, SphP, NumPart, N_gas, away, incoming, bufs, perm>>,
         phase' = "reorder_gas" <=> phase = "reorder_gas"
  PROVE  /\ WholeP' = WholeP /\ WholeSphP' = WholeSphP
         /\ Used' = Used /\ UsedSph' = UsedSph /\ OtherSlots' = OtherSlots
         /\ Whole' = Whole /\ Buffered' = Buffered /\ Coming' = Coming
         /\ NothingBuffered' = NothingBuffered
         /\ GasInFront' = GasInFront /\ Distinct' = Distinct
         /\ Divided(Whole, Buffered, Coming, away)' = Divided(Whole, Buffered, Coming, away)
  <1>1. WholeP' = WholeP /\ WholeSphP' = WholeSphP
    BY DEF WholeP, WholeSphP
  <1>2. Used' = Used /\ UsedSph' = UsedSph /\ OtherSlots' = OtherSlots
    BY DEF Used, UsedSph, OtherSlots
  <1>3. Whole' = Whole /\ Buffered' = Buffered /\ Coming' = Coming
    BY <1>1, <1>2 DEF Whole, Buffered, Coming, bufs
  <1>4. NothingBuffered' = NothingBuffered
    BY DEF NothingBuffered, bufs
  <1>5. GasInFront' = GasInFront /\ Distinct' = Distinct
    BY <1>1, <1>2 DEF GasInFront, Distinct, bufs
  <1> QED BY <1>1, <1>2, <1>3, <1>4, <1>5 DEF Divided

LEMMA ComputeKeysKeeps == IInv /\ ComputeKeys => IInv'
  <1> SUFFICES ASSUME IInv, ComputeKeys PROVE IInv'
    OBVIOUS
  <1> USE Constants
  <1>1. /\ phase = "idle" /\ phase' = "exchange"
        /\ Key' = [i \in Slot |-> IF i \in Used THEN KeyOf[P[i]] ELSE 0]
        /\ UNCHANGED <<P, SphP, NumPart, N_gas, away, incoming, bufs, xchg, perm>>
    BY DEF ComputeKeys
  <1>2. perm = NoPerm /\ xchg = NoXchg /\ incoming = <<>> /\ NothingBuffered
    BY <1>1 DEF IInv, Staged, Moving, Ordering
  <1>3. WholeP = P /\ WholeSphP = SphP
    BY <1>2 DEF WholeP, WholeSphP, NoPerm
  <1>4. \A i \in Used : i \in Slot /\ P[i] \in Particle
    <2>1. \A i \in Used : i \in Slot /\ (i \in UsedSph \/ i \in OtherSlots)
      BY DEF IInv, Typed, Used, Slot, UsedSph, OtherSlots
    <2> QED BY <2>1, <1>3 DEF IInv, GasInFront
  <1>5. \A i \in Slot : KeyOf[P[i]] \in Nat \/ i \notin Used
    BY <1>4
  <1>6. Key' \in [Slot -> Nat]
    BY <1>1, <1>5
  <1>7. Typed'
    BY <1>1, <1>6 DEF IInv, Typed, Slot, SphSlot, bufs
  <1>8. /\ Staged' /\ Search' /\ Permutation' /\ Sorted'
    BY <1>1, <1>2 DEF Staged, Search, Permutation, Sorted, Moving, Ordering, NothingBuffered, bufs
  <1>9. /\ WholeP' = WholeP /\ WholeSphP' = WholeSphP /\ Used' = Used /\ UsedSph' = UsedSph
        /\ Buffered' = Buffered /\ Coming' = Coming
        /\ GasInFront' = GasInFront /\ Distinct' = Distinct
        /\ Divided(Whole, Buffered, Coming, away)' = Divided(Whole, Buffered, Coming, away)
    BY <1>1, SameArrays
  <1>10. GasInFront' /\ Distinct' /\ Divided(Whole, Buffered, Coming, away)'
    BY <1>9 DEF IInv
  <1>11. SphBeside'
    BY <1>1, <1>9 DEF IInv, SphBeside, bufs
  <1>12. Fits'
    BY <1>1, <1>9 DEF IInv, Fits, bufs
  <1>13. KeyBeside'
    <2>1. \A i \in Used' : Key'[i] = KeyOf[P'[i]]
      BY <1>1, <1>4, <1>9
    <2>2. DomainKeyBuf' = Keys(DomainPartBuf)'
      BY <1>1, <1>2 DEF Keys, NothingBuffered, bufs
    <2> QED BY <2>1, <2>2 DEF KeyBeside
  <1> QED BY <1>7, <1>8, <1>10, <1>11, <1>12, <1>13 DEF IInv

LEMMA SkipKeeps == IInv /\ Skip => IInv'
  <1> SUFFICES ASSUME IInv, Skip PROVE IInv'
    OBVIOUS
  <1> USE Constants
  <1>1. /\ phase = "collect" /\ phase' = phase /\ xchg.n < NumPart
        /\ xchg' = [xchg EXCEPT !.n = @ + 1]
        /\ UNCHANGED <<P, Key, SphP, NumPart, N_gas, away, incoming, bufs, perm>>
        /\ P[xchg.n] \notin OfKind(xchg.sph) \/ P[xchg.n] \notin xchg.theirs
    BY DEF Skip, Collecting, Stays, arrays
  <1>a. /\ xchg \in Calls /\ xchg.n \in Nat /\ xchg.n + 1 \in Nat /\ NumPart \in Nat
    BY Basics DEF IInv
  <1>2. /\ xchg'.n = xchg.n + 1 /\ xchg'.sph = xchg.sph /\ xchg'.theirs = xchg.theirs
        /\ xchg'.send = xchg.send /\ xchg'.rest = xchg.rest
        /\ xchg' \in Calls
    BY <1>1, <1>a DEF Calls
  <1>3. /\ WholeP' = WholeP /\ WholeSphP' = WholeSphP /\ Used' = Used /\ UsedSph' = UsedSph
        /\ Buffered' = Buffered /\ Coming' = Coming
        /\ GasInFront' = GasInFront /\ Distinct' = Distinct
        /\ Divided(Whole, Buffered, Coming, away)' = Divided(Whole, Buffered, Coming, away)
    BY <1>1, SameArrays
  <1>4. Typed'
    BY <1>1, <1>2 DEF IInv, Typed, Slot, SphSlot, bufs
  <1>5. Staged'
    BY <1>1, <1>2 DEF IInv, Staged, Moving, Ordering
  <1>9. Permutation' /\ Sorted'
    BY <1>1 DEF Permutation, Sorted, Ordering
  <1>6. Fits'
    BY <1>1, <1>2, <1>3 DEF IInv, Fits, OfKind, bufs
  <1>7. Search'
    <2>1. ASSUME NEW p \in xchg.theirs, p \notin Buffered
          PROVE  \E i \in xchg.n + 1 .. NumPart - 1 : P[i] = p
      <3>1. PICK i \in xchg.n .. NumPart - 1 : P[i] = p
        BY <1>1, <2>1 DEF IInv, Search
      <3>2. p \in OfKind(xchg.sph)
        BY <1>1 DEF IInv, Search
      <3>3. i # xchg.n
        BY <1>1, <3>1, <3>2
      <3> QED BY <3>1, <3>3, <1>a
    <2>2. xchg.n + 1 <= NumPart
      BY <1>1, <1>a
    <2> QED BY <1>1, <1>2, <1>3, <2>1, <2>2 DEF IInv, Search, OfKind
  <1>8. SphBeside' /\ KeyBeside'
    BY <1>1, <1>2, <1>3 DEF IInv, SphBeside, KeyBeside, Keys, bufs
  <1> QED BY <1>3, <1>4, <1>5, <1>6, <1>7, <1>8, <1>9 DEF IInv

LEMMA OrdersUnfold ==
  /\ \A o \in Orders : o \in {<<"send", "receive">>, <<"receive", "send">>}
  /\ Head(<<"send", "receive">>) = "send" /\ Tail(<<"send", "receive">>) = <<"receive">>
  /\ Head(<<"receive", "send">>) = "receive" /\ Tail(<<"receive", "send">>) = <<"send">>
  /\ Head(<<"send">>) = "send" /\ Tail(<<"send">>) = <<>>
  /\ Head(<<"receive">>) = "receive" /\ Tail(<<"receive">>) = <<>>
  /\ <<"send">> # <<>> /\ <<"receive">> # <<>>
  BY DEF Orders

LEMMA ExchangeKeeps == IInv /\ Exchange => IInv'
  <1> SUFFICES ASSUME IInv, Exchange PROVE IInv'
    OBVIOUS
  <1> USE Constants
  <1>1. PICK sph \in BOOLEAN : \E theirs \in SUBSET (Here \cap OfKind(sph)) :
          \E send \in 0 .. Cardinality(theirs) :
          \E in \in Batches(away \cap OfKind(sph), MaxPart) : \E order \in Orders :
            Begin(sph, theirs, send, in, order)
    BY DEF Exchange
  <1>2. PICK theirs \in SUBSET (Here \cap OfKind(sph)) :
          \E send \in 0 .. Cardinality(theirs) :
          \E in \in Batches(away \cap OfKind(sph), MaxPart) : \E order \in Orders :
            Begin(sph, theirs, send, in, order)
    BY <1>1
  <1>3. PICK send \in 0 .. Cardinality(theirs), in \in Batches(away \cap OfKind(sph), MaxPart), order \in Orders :
          Begin(sph, theirs, send, in, order)
    BY <1>2
  <1>4. /\ phase = "exchange" /\ phase' = "collect"
        /\ send <= Cardinality(theirs) /\ NumPart - send + Len(in) <= MaxPart
        /\ sph => N_gas - send + Len(in) <= MaxPartSph
        /\ xchg' = [sph |-> sph, theirs |-> theirs, send |-> send, n |-> 0, rest |-> order]
        /\ incoming' = in /\ away' = away \ {in[i] : i \in DOMAIN in}
        /\ UNCHANGED <<P, Key, SphP, NumPart, N_gas, DomainPartBuf, DomainKeyBuf, DomainSphBuf, perm>>
    BY <1>3 DEF Begin, arrays, bufs
  <1>5. xchg = NoXchg /\ incoming = <<>> /\ NothingBuffered /\ perm = NoPerm
    BY <1>4 DEF IInv, Staged, Moving, Ordering
  <1>6. WholeP = P /\ WholeSphP = SphP /\ WholeP' = P' /\ WholeSphP' = SphP'
    BY <1>4, <1>5 DEF WholeP, WholeSphP, NoPerm
  <1>7. /\ NumPart \in Nat /\ N_gas \in Nat /\ N_gas <= NumPart /\ Used \subseteq Slot
        /\ Used = UsedSph \cup OtherSlots
    BY Basics DEF IInv
  <1>8. Here = Whole /\ Here \subseteq Particle /\ IsFiniteSet(Here)
    <2>1. Here = Whole
      BY <1>6 DEF Here, Whole
    <2>2. Here \subseteq Particle
      BY <1>6, <1>7 DEF IInv, GasInFront, Here
    <2>3. [i \in Used |-> P[i]] \in Surjection(Used, Here)
      BY DEF Surjection, Here
    <2>4. IsFiniteSet(Used)
      BY <1>7, FS_Interval DEF Used
    <2> QED BY <2>1, <2>2, <2>3, <2>4, FS_Surjection
  <1>9. Cardinality(theirs) \in Nat
    <2>1. theirs \in SUBSET Here
      OBVIOUS
    <2> QED BY <1>8, <2>1, FS_Subset, FS_CardinalityType
  <1>10. send \in Nat
    BY <1>9
  <1>11. /\ in \in Seq(Particle) /\ Len(in) \in Nat
         /\ {in[i] : i \in DOMAIN in} \subseteq away \cap OfKind(sph)
         /\ \A i, j \in DOMAIN in : i # j => in[i] # in[j]
    <2>1. PICK k \in 0 .. MaxPart : in \in [1 .. k -> away \cap OfKind(sph)]
      BY DEF Batches
    <2>2. k \in Nat
      OBVIOUS
    <2>3. in \in Seq(away \cap OfKind(sph))
      BY <2>1, <2>2
    <2>4. away \cap OfKind(sph) \subseteq Particle
      BY DEF IInv, Typed
    <2>5. in \in Seq(Particle)
      BY <2>1, <2>2, <2>4
    <2>6. \A i, j \in DOMAIN in : i # j => in[i] # in[j]
      BY DEF Batches
    <2> QED BY <2>1, <2>5, <2>6
  <1>12. Buffered = {} /\ Buffered' = {} /\ Coming = {} /\ Coming' = {in[i] : i \in DOMAIN in}
    BY <1>4, <1>5 DEF Buffered, Coming, NothingBuffered
  <1>13. Typed'
    <2>1. theirs \in SUBSET Particle
      BY <1>8
    <2>2. xchg' \in Calls
      BY <1>4, <1>10, <2>1 DEF Calls
    <2> QED BY <1>4, <1>11, <2>2 DEF IInv, Typed, Slot, SphSlot
  <1>14. Staged' /\ Permutation' /\ Sorted'
    BY <1>4, <1>5 DEF Staged, Permutation, Sorted, Moving, Ordering
  <1>15. Fits'
    <2>1. Len(DomainPartBuf') = 0
      BY <1>4, <1>5 DEF NothingBuffered
    <2>2. Coming' \cup Buffered' \subseteq OfKind(sph)
      BY <1>11, <1>12
    <2> QED BY <1>4, <1>7, <1>10, <1>11, <2>1, <2>2 DEF Fits, OfKind
  <1>16. Search'
    <2>1. \A p \in theirs : \E i \in 0 .. NumPart - 1 : P[i] = p
      BY DEF Here, Used
    <2> QED BY <1>4, <1>7, <2>1 DEF Search, OfKind
  <1>17. GasInFront' /\ SphBeside' /\ KeyBeside'
    <2>1. UsedSph' = UsedSph /\ OtherSlots' = OtherSlots /\ Used' = Used
      BY <1>4 DEF UsedSph, OtherSlots, Used
    <2>2. GasInFront'
      BY <1>4, <1>6, <2>1 DEF IInv, GasInFront
    <2>3. SphBeside'
      BY <1>4, <1>5, <1>6, <2>1 DEF IInv, SphBeside, NothingBuffered
    <2>4. KeyBeside'
      BY <1>4, <2>1 DEF IInv, KeyBeside, Keys
    <2> QED BY <2>2, <2>3, <2>4
  <1>18. Distinct'
    BY <1>4, <1>6, <1>11 DEF IInv, Distinct, Used
  <1>19. Divided(Whole, Buffered, Coming, away)'
    <2>1. Whole' = Whole
      BY <1>4, <1>6 DEF Whole, Used
    <2> QED BY <1>4, <1>11, <1>12, <2>1 DEF IInv, Divided
  <1> QED BY <1>13, <1>14, <1>15, <1>16, <1>17, <1>18, <1>19 DEF IInv

LEMMA CollectedKeeps == IInv /\ Collected => IInv'
  <1> SUFFICES ASSUME IInv, Collected PROVE IInv'
    OBVIOUS
  <1> USE Constants
  <1>1. /\ phase = "collect" /\ ~Collecting
        /\ UNCHANGED <<P, Key, SphP, NumPart, N_gas, away, incoming, bufs, perm>>
    BY DEF Collected, arrays
  <1>2. /\ NumPart \in Nat /\ N_gas \in Nat /\ xchg \in Calls /\ xchg.n \in Nat /\ xchg.send \in Nat
        /\ Len(incoming) \in Nat /\ Len(DomainPartBuf) \in Nat
    BY Basics DEF IInv
  <1>3. Len(DomainPartBuf) <= xchg.send
    BY <1>1 DEF IInv, Fits
  (* The search was not short of particles.                                *)
  <1>4. Len(DomainPartBuf) = xchg.send
    <2> SUFFICES ASSUME Len(DomainPartBuf) < xchg.send PROVE FALSE
      BY <1>2, <1>3
    <2>1. xchg.n = NumPart
      BY <1>1, <1>2 DEF IInv, Search, Collecting
    <2>2. xchg.theirs \in SUBSET Buffered
      BY <1>1, <1>2, <2>1 DEF IInv, Search
    <2>3. DomainPartBuf \in Seq(Particle)
      BY DEF IInv, Typed
    <2>4. /\ IsFiniteSet(Buffered) /\ Cardinality(Buffered) \in Nat
          /\ Cardinality(Buffered) <= Len(DomainPartBuf)
      BY <2>3, Counted DEF Buffered
    <2>5. IsFiniteSet(xchg.theirs) /\ Cardinality(xchg.theirs) <= Cardinality(Buffered)
      BY <2>2, <2>4, FS_Subset
    <2>6. Cardinality(xchg.theirs) \in Nat
      BY <2>5, FS_CardinalityType
    <2>7. xchg.send <= Cardinality(xchg.theirs)
      BY <1>1 DEF IInv, Search
    <2> QED BY <1>2, <2>4, <2>5, <2>6, <2>7
  <1>5. phase' = Head(xchg.rest) /\ xchg' = [xchg EXCEPT !.rest = Tail(@)]
    BY <1>4 DEF Collected
  <1>6. \/ phase' = "send" /\ Tail(xchg.rest) = <<"receive">>
        \/ phase' = "receive" /\ Tail(xchg.rest) = <<"send">>
    <2>1. xchg.rest \in Orders
      BY <1>1 DEF IInv, Staged
    <2> QED BY <1>5, <2>1, OrdersUnfold
  <1>7. /\ xchg' \in Calls /\ xchg'.rest = Tail(xchg.rest) /\ xchg'.sph = xchg.sph
    BY <1>2, <1>5, <1>6 DEF Calls, Rests
  <1>8. /\ WholeP' = WholeP /\ WholeSphP' = WholeSphP /\ Used' = Used /\ UsedSph' = UsedSph
        /\ Buffered' = Buffered /\ Coming' = Coming
        /\ GasInFront' = GasInFront /\ Distinct' = Distinct
        /\ Divided(Whole, Buffered, Coming, away)' = Divided(Whole, Buffered, Coming, away)
    BY <1>1, <1>6, SameArrays
  <1>9. Typed'
    BY <1>1, <1>7 DEF IInv, Typed, Slot, SphSlot, bufs
  <1>10. Staged'
    BY <1>1, <1>6, <1>7, OrdersUnfold DEF IInv, Staged, Moving, Ordering
  <1>11. Fits'
    BY <1>1, <1>2, <1>4, <1>6, <1>7, <1>8 DEF IInv, Fits, OfKind, bufs
  <1>12. Search' /\ Permutation' /\ Sorted'
    BY <1>6 DEF Search, Permutation, Sorted, Ordering
  <1>13. SphBeside' /\ KeyBeside'
    BY <1>1, <1>7, <1>8 DEF IInv, SphBeside, KeyBeside, Keys, bufs
  <1> QED BY <1>8, <1>9, <1>10, <1>11, <1>12, <1>13 DEF IInv

(* How the second direction follows the first.                             *)
LEMMA ProceedsRight ==
  ASSUME Typed, Proceed, xchg.rest \in {<<>>, <<"send">>, <<"receive">>}
  PROVE  /\ xchg' \in Calls
         /\ \/ xchg.rest = <<>> /\ phase' = "exchange" /\ xchg' = NoXchg
            \/ xchg.rest = <<"send">> /\ phase' = "send" /\ xchg'.rest = <<>> /\ xchg'.sph = xchg.sph
            \/ xchg.rest = <<"receive">> /\ phase' = "receive" /\ xchg'.rest = <<>> /\ xchg'.sph = xchg.sph
  <1>1. xchg \in Calls
    BY Basics
  <1>2. CASE xchg.rest = <<>>
    <2>1. phase' = "exchange" /\ xchg' = NoXchg
      BY <1>2 DEF Proceed
    <2>2. NoXchg \in Calls
      BY DEF NoXchg, Calls, Rests
    <2> QED BY <1>2, <2>1, <2>2
  <1>3. CASE xchg.rest # <<>>
    <2>1. phase' = Head(xchg.rest) /\ xchg' = [xchg EXCEPT !.rest = Tail(@)]
      BY <1>3 DEF Proceed
    <2>2. Tail(xchg.rest) = <<>> /\ Tail(xchg.rest) \in Rests
      BY <1>3, OrdersUnfold DEF Rests
    <2>3. xchg' \in Calls /\ xchg'.rest = <<>> /\ xchg'.sph = xchg.sph
      BY <1>1, <2>1, <2>2 DEF Calls
    <2> QED BY <1>3, <2>1, <2>3, OrdersUnfold
  <1> QED BY <1>2, <1>3

LEMMA SendKeeps == IInv /\ Send => IInv'
  <1> SUFFICES ASSUME IInv, Send PROVE IInv'
    OBVIOUS
  <1> USE Constants
  <1>1. /\ phase = "send" /\ Proceed /\ away' = away \cup Buffered
        /\ DomainPartBuf' = <<>> /\ DomainKeyBuf' = <<>> /\ DomainSphBuf' = <<>>
        /\ UNCHANGED <<P, Key, SphP, NumPart, N_gas, incoming, perm>>
    BY DEF Send, arrays
  <1>2. xchg.rest \in {<<>>, <<"receive">>} /\ (xchg.rest = <<>> => incoming = <<>>) /\ perm = NoPerm
    BY <1>1 DEF IInv, Staged, Ordering
  <1>3. /\ NumPart \in Nat /\ N_gas \in Nat /\ xchg \in Calls /\ Len(incoming) \in Nat
        /\ Buffered \subseteq Particle
    BY Basics DEF IInv
  <1>4. /\ xchg' \in Calls
        /\ \/ phase' = "exchange" /\ xchg' = NoXchg /\ incoming = <<>>
           \/ phase' = "receive" /\ xchg'.rest = <<>> /\ xchg'.sph = xchg.sph
    BY <1>1, <1>2, ProceedsRight, OrdersUnfold DEF IInv
  <1>5. /\ WholeP' = WholeP /\ WholeSphP' = WholeSphP /\ Used' = Used /\ UsedSph' = UsedSph
        /\ OtherSlots' = OtherSlots /\ Coming' = Coming /\ Buffered' = {} /\ Whole' = Whole
    <2>1. WholeP = P /\ WholeSphP = SphP /\ WholeP' = P' /\ WholeSphP' = SphP'
      BY <1>1, <1>2 DEF WholeP, WholeSphP, NoPerm
    <2>2. Used' = Used /\ UsedSph' = UsedSph /\ OtherSlots' = OtherSlots
      BY <1>1 DEF Used, UsedSph, OtherSlots
    <2> QED BY <1>1, <2>1, <2>2 DEF Coming, Buffered, Whole
  <1>6. Typed'
    <2>1. away' \subseteq Particle
      BY <1>1, <1>3 DEF IInv, Typed
    <2> QED BY <1>1, <1>4, <2>1 DEF IInv, Typed, Slot, SphSlot
  <1>7. Staged'
    BY <1>1, <1>2, <1>4 DEF Staged, NothingBuffered, Moving, Ordering
  <1>8. Fits'
    <2>1. CASE phase' = "exchange"
      <3>1. Coming' = {}
        BY <1>4, <1>5, <2>1 DEF Coming
      <3> QED BY <1>5, <2>1, <3>1 DEF Fits
    <2>2. CASE phase' = "receive"
      BY <1>1, <1>4, <1>5, <2>2 DEF IInv, Fits, OfKind
    <2> QED BY <1>4, <2>1, <2>2
  <1>9. Search' /\ Permutation' /\ Sorted'
    BY <1>4 DEF Search, Permutation, Sorted, Ordering
  <1>10. GasInFront' /\ SphBeside' /\ KeyBeside'
    <2>1. GasInFront'
      BY <1>5 DEF IInv, GasInFront
    <2>2. SphBeside'
      BY <1>1, <1>5 DEF IInv, SphBeside
    <2>3. KeyBeside'
      BY <1>1, <1>5 DEF IInv, KeyBeside, Keys
    <2> QED BY <2>1, <2>2, <2>3
  <1>11. Distinct'
    BY <1>1, <1>5 DEF IInv, Distinct
  <1>12. Divided(Whole, Buffered, Coming, away)'
    BY <1>1, <1>5 DEF IInv, Divided
  <1> QED BY <1>6, <1>7, <1>8, <1>9, <1>10, <1>11, <1>12 DEF IInv

(* A particle is taken out at xchg.n, and src says from where the places   *)
(* of the others are filled: none gets lost, none moves in front of n.     *)
Takes(src) ==
  /\ src \in [0 .. NumPart - 2 -> Used \ {xchg.n}]
  /\ \A a, b \in 0 .. NumPart - 2 : a # b => src[a] # src[b]
  /\ \A q \in Used \ {xchg.n} : \E a \in 0 .. NumPart - 2 : src[a] = q /\ (q > xchg.n => a >= xchg.n)

LEMMA SameLength ==
  ASSUME NEW a \in Nat, NEW b \in Nat, 1 .. a = 1 .. b
  PROVE  a = b
  <1>1. a >= 1 => a \in 1 .. b
    BY SMT
  <1>2. b >= 1 => b \in 1 .. a
    BY SMT
  <1> QED BY <1>1, <1>2

LEMMA KeysAppend ==
  ASSUME NEW x \in Seq(Particle), NEW p \in Particle, NEW k \in Seq(Nat), k = Keys(x)
  PROVE  Append(k, KeyOf[p]) = Keys(Append(x, p))
  <1> USE Constants
  <1>1. DOMAIN k = 1 .. Len(k) /\ DOMAIN x = 1 .. Len(x) /\ DOMAIN k = DOMAIN x /\ Len(k) \in Nat /\ Len(x) \in Nat
    BY DEF Keys
  <1>2. Len(k) = Len(x)
    BY <1>1, SameLength
  <1>3. KeyOf[p] \in Nat
    OBVIOUS
  <1> DEFINE l == Append(k, KeyOf[p])
             y == Append(x, p)
  <1>4. /\ l \in Seq(Nat) /\ DOMAIN l = 1 .. Len(k) + 1
        /\ \A i \in 1 .. Len(k) + 1 : l[i] = IF i = Len(k) + 1 THEN KeyOf[p] ELSE k[i]
    BY <1>1, <1>3
  <1>5. /\ y \in Seq(Particle) /\ DOMAIN y = 1 .. Len(x) + 1
        /\ \A i \in 1 .. Len(x) + 1 : y[i] = IF i = Len(x) + 1 THEN p ELSE x[i]
    BY <1>1
  <1>6. \A i \in 1 .. Len(x) : k[i] = KeyOf[x[i]]
    BY <1>1 DEF Keys
  <1>7. \A i \in DOMAIN l : l[i] = KeyOf[y[i]]
    BY <1>1, <1>2, <1>4, <1>5, <1>6
  <1>8. l = [i \in DOMAIN l |-> l[i]]
    BY <1>4
  <1> HIDE DEF l, y
  <1>9. l = [i \in DOMAIN y |-> KeyOf[y[i]]]
    BY <1>2, <1>4, <1>5, <1>7, <1>8
  <1> QED BY <1>9 DEF l, y, Keys

LEMMA TakenRight ==
  ASSUME IInv, phase = "collect", phase' = "collect", ~Stays(P[xchg.n]),
         xchg.n < NumPart, Len(DomainPartBuf) < xchg.send,
         NumPart' = NumPart - 1,
         DomainPartBuf' = Append(DomainPartBuf, P[xchg.n]),
         DomainKeyBuf' = Append(DomainKeyBuf, Key[xchg.n]),
         UNCHANGED <<away, incoming, xchg, perm>>,
         NEW src, Takes(src),
         \A j \in 0 .. NumPart - 2 : P'[j] = P[src[j]] /\ Key'[j] = Key[src[j]]
  PROVE  /\ DomainPartBuf' \in Seq(Particle) /\ DomainKeyBuf' \in Seq(Nat)
         /\ Len(DomainPartBuf') = Len(DomainPartBuf) + 1
         /\ WholeP' = P' /\ WholeP = P /\ P[xchg.n] \in Particle
         /\ Buffered' = Buffered \cup {P[xchg.n]} /\ Coming' = Coming
         /\ Search' /\ KeyBeside' /\ Distinct' /\ Divided(Whole, Buffered, Coming, away)'
         /\ Staged' /\ Permutation' /\ Sorted'
  <1> USE Constants
  <1> DEFINE n == xchg.n
             p == P[n]
  <1>1. /\ NumPart \in Nat /\ N_gas \in Nat /\ N_gas <= NumPart /\ xchg.n \in Nat /\ xchg.theirs \subseteq Particle
        /\ Used \subseteq Slot /\ Len(DomainPartBuf) \in Nat /\ DOMAIN DomainPartBuf = 1 .. Len(DomainPartBuf)
        /\ Used = UsedSph \cup OtherSlots
    BY Basics DEF IInv
  <1>2. perm = NoPerm /\ perm' = NoPerm
    BY DEF IInv, Staged, Ordering
  <1>3. WholeP' = P' /\ WholeP = P
    BY <1>2 DEF WholeP, NoPerm
  <1>4. n \in Used /\ p \in xchg.theirs /\ p \in OfKind(xchg.sph) /\ p \in Particle
    BY <1>1 DEF Used, Stays
  <1>5. DomainPartBuf \in Seq(Particle) /\ DomainKeyBuf \in Seq(Nat)
    BY DEF IInv, Typed
  <1>6. Key[n] = KeyOf[p] /\ DomainKeyBuf = Keys(DomainPartBuf)
    BY <1>4 DEF IInv, KeyBeside
  <1>7. /\ DomainPartBuf' \in Seq(Particle) /\ DomainKeyBuf' \in Seq(Nat)
        /\ Len(DomainPartBuf') = Len(DomainPartBuf) + 1 /\ DOMAIN DomainPartBuf' = 1 .. Len(DomainPartBuf) + 1
        /\ \A i \in 1 .. Len(DomainPartBuf) : DomainPartBuf'[i] = DomainPartBuf[i]
        /\ DomainPartBuf'[Len(DomainPartBuf) + 1] = p
    BY <1>1, <1>4, <1>5, <1>6
  <1>8. Buffered' = Buffered \cup {p} /\ Coming' = Coming
    <2>1. p \in Buffered'
      <3>1. Len(DomainPartBuf) + 1 \in DOMAIN DomainPartBuf'
        BY <1>1, <1>7
      <3> QED BY <1>7, <3>1 DEF Buffered
    <2>3. \A i \in DOMAIN DomainPartBuf : DomainPartBuf[i] \in Buffered'
      BY <1>1, <1>7 DEF Buffered
    <2>4. Buffered \subseteq Buffered'
      BY <2>3 DEF Buffered
    <2>2. \A x \in Buffered' : x \in Buffered \cup {p}
      BY <1>1, <1>7 DEF Buffered
    <2> QED BY <2>1, <2>2, <2>4 DEF Coming
  <1>9. Used' = 0 .. NumPart - 2
    BY <1>1 DEF Used
  <1>10. Whole' = Whole \ {p} /\ p \in Whole
    <2>1. \A x \in Whole' : x \in Whole \ {p}
      <3> SUFFICES ASSUME NEW a \in 0 .. NumPart - 2 PROVE P'[a] \in Whole \ {p}
        BY <1>3, <1>9 DEF Whole
      <3>1. P'[a] = P[src[a]] /\ src[a] \in Used \ {n}
        BY DEF Takes
      <3> QED BY <1>3, <1>4, <3>1 DEF IInv, Distinct, Whole
    <2>2. \A x \in Whole \ {p} : x \in Whole'
      <3> SUFFICES ASSUME NEW q \in Used, P[q] # p PROVE P[q] \in Whole'
        BY <1>3 DEF Whole
      <3>1. PICK a \in 0 .. NumPart - 2 : src[a] = q
        BY DEF Takes
      <3>2. P'[a] = P[q]
        BY <3>1
      <3> QED BY <1>3, <1>9, <3>2 DEF Whole
    <2> QED BY <1>3, <1>4, <2>1, <2>2 DEF Whole
  <1>11. Divided(Whole, Buffered, Coming, away)'
    BY <1>8, <1>10 DEF IInv, Divided
  <1>12. Distinct'
    <2>1. \A a, b \in Used' : a # b => WholeP'[a] # WholeP'[b]
      <3> SUFFICES ASSUME NEW a \in 0 .. NumPart - 2, NEW b \in 0 .. NumPart - 2, a # b
                   PROVE  P'[a] # P'[b]
        BY <1>3, <1>9
      <3>1. src[a] \in Used /\ src[b] \in Used /\ src[a] # src[b]
        BY DEF Takes
      <3> QED BY <1>3, <3>1 DEF IInv, Distinct
    <2>2. \A i \in 1 .. Len(DomainPartBuf) : DomainPartBuf[i] # p
      BY <1>1, <1>10 DEF IInv, Divided, Buffered
    <2>3. \A i, j \in DOMAIN DomainPartBuf' : i # j => DomainPartBuf'[i] # DomainPartBuf'[j]
      BY <1>1, <1>7, <2>2 DEF IInv, Distinct
    <2> QED BY <2>1, <2>3 DEF IInv, Distinct
  <1>13. KeyBeside'
    <2>1. \A j \in Used' : Key'[j] = KeyOf[P'[j]]
      BY <1>9 DEF IInv, KeyBeside, Takes
    <2>2. DomainKeyBuf' = Keys(DomainPartBuf')
      <3>1. Append(DomainKeyBuf, KeyOf[p]) = Keys(Append(DomainPartBuf, p))
        BY <1>4, <1>5, <1>6, KeysAppend
      <3> QED BY <1>6, <3>1
    <2> QED BY <2>1, <2>2 DEF KeyBeside, Keys
  <1>14. Search'
    <2>1. ASSUME NEW x \in xchg.theirs, x \notin Buffered'
          PROVE  \E a \in n .. NumPart - 2 : P'[a] = x
      <3>1. PICK q \in n .. NumPart - 1 : P[q] = x
        BY <1>8, <2>1 DEF IInv, Search
      <3>2. q \in Used \ {n} /\ q > n
        BY <1>1, <1>8, <2>1, <3>1 DEF Used
      <3>3. PICK a \in 0 .. NumPart - 2 : src[a] = q /\ a >= n
        BY <3>2 DEF Takes
      <3>4. P'[a] = x
        BY <3>1, <3>3
      <3> QED BY <1>1, <3>3, <3>4
    <2>2. n <= NumPart - 1 /\ n .. NumPart' - 1 = n .. NumPart - 2
      BY <1>1
    <2>3. xchg.theirs \subseteq OfKind(xchg.sph) /\ xchg.send <= Cardinality(xchg.theirs)
      BY DEF IInv, Search
    <2> QED BY <2>1, <2>2, <2>3 DEF Search, OfKind
  <1>15. Staged'
    BY <1>2 DEF IInv, Staged, Moving, Ordering
  <1>16. Permutation' /\ Sorted'
    BY DEF Permutation, Sorted, Ordering
  <1> QED BY <1>3, <1>4, <1>7, <1>8, <1>11, <1>12, <1>13, <1>14, <1>15, <1>16

(* From where the places are filled when gas, or another particle, leaves. *)
GasSource ==
  [j \in 0 .. NumPart - 2 |->
     IF j = N_gas - 1 THEN NumPart - 1 ELSE IF j = xchg.n THEN N_gas - 1 ELSE j]

OtherSource == [j \in 0 .. NumPart - 2 |-> IF j = xchg.n THEN NumPart - 1 ELSE j]

LEMMA GasSourceTakes ==
  ASSUME Typed, xchg.n \in UsedSph
  PROVE  /\ Takes(GasSource)
         /\ \A j \in 0 .. N_gas - 2 : GasSource[j] \in UsedSph
         /\ \A j \in N_gas - 1 .. NumPart - 2 : GasSource[j] \in OtherSlots
  <1> DEFINE n == xchg.n
  <1>1. NumPart \in Nat /\ N_gas \in Nat /\ N_gas <= NumPart /\ n \in Nat /\ n < N_gas
    BY Basics DEF UsedSph
  <1>2. \A j \in 0 .. NumPart - 2 : GasSource[j] \in Used \ {n}
    BY <1>1 DEF GasSource, Used
  <1>3. GasSource \in [0 .. NumPart - 2 -> Used \ {n}]
    BY <1>2 DEF GasSource
  <1>4. \A a, b \in 0 .. NumPart - 2 : a # b => GasSource[a] # GasSource[b]
    BY <1>1 DEF GasSource
  <1>5. ASSUME NEW q \in Used \ {n}
        PROVE  \E a \in 0 .. NumPart - 2 : GasSource[a] = q /\ (q > n => a >= n)
    <2>1. q \in 0 .. NumPart - 1 /\ q # n
      BY DEF Used
    <2>2. CASE q = NumPart - 1 /\ q >= N_gas
      <3>1. N_gas - 1 \in 0 .. NumPart - 2 /\ N_gas - 1 >= n
        BY <1>1, <2>2
      <3> QED BY <2>2, <3>1 DEF GasSource
    <2>3. CASE q = N_gas - 1
      <3>1. n \in 0 .. NumPart - 2 /\ n # N_gas - 1
        BY <1>1, <2>1, <2>3
      <3> QED BY <1>1, <2>3, <3>1 DEF GasSource
    <2>4. CASE q # N_gas - 1 /\ q # NumPart - 1
      <3>1. q \in 0 .. NumPart - 2
        BY <1>1, <2>1, <2>4
      <3> QED BY <1>1, <2>1, <2>4, <3>1 DEF GasSource
    <2> QED BY <1>1, <2>1, <2>2, <2>3, <2>4
  <1>6. \A j \in 0 .. N_gas - 2 : GasSource[j] \in UsedSph
    BY <1>1 DEF GasSource, UsedSph
  <1>7. \A j \in N_gas - 1 .. NumPart - 2 : GasSource[j] \in OtherSlots
    BY <1>1 DEF GasSource, OtherSlots
  <1> QED BY <1>3, <1>4, <1>5, <1>6, <1>7 DEF Takes

LEMMA OtherSourceTakes ==
  ASSUME Typed, xchg.n \in OtherSlots
  PROVE  /\ Takes(OtherSource)
         /\ \A j \in 0 .. N_gas - 1 : OtherSource[j] = j /\ j \in 0 .. NumPart - 2
         /\ \A j \in N_gas .. NumPart - 2 : OtherSource[j] \in OtherSlots
  <1> DEFINE n == xchg.n
  <1>1. NumPart \in Nat /\ N_gas \in Nat /\ N_gas <= NumPart /\ n \in Nat /\ n >= N_gas /\ n < NumPart
    BY Basics DEF OtherSlots
  <1>2. \A j \in 0 .. NumPart - 2 : OtherSource[j] \in Used \ {n}
    BY <1>1 DEF OtherSource, Used
  <1>3. OtherSource \in [0 .. NumPart - 2 -> Used \ {n}]
    BY <1>2 DEF OtherSource
  <1>4. \A a, b \in 0 .. NumPart - 2 : a # b => OtherSource[a] # OtherSource[b]
    BY <1>1 DEF OtherSource
  <1>5. ASSUME NEW q \in Used \ {n}
        PROVE  \E a \in 0 .. NumPart - 2 : OtherSource[a] = q /\ (q > n => a >= n)
    <2>1. q \in 0 .. NumPart - 1 /\ q # n
      BY DEF Used
    <2>2. CASE q = NumPart - 1
      <3>1. n \in 0 .. NumPart - 2
        BY <1>1, <2>1, <2>2
      <3> QED BY <1>1, <2>2, <3>1 DEF OtherSource
    <2>3. CASE q # NumPart - 1
      <3>1. q \in 0 .. NumPart - 2
        BY <1>1, <2>1, <2>3
      <3> QED BY <1>1, <2>1, <3>1 DEF OtherSource
    <2> QED BY <2>2, <2>3
  <1>6. \A j \in 0 .. N_gas - 1 : OtherSource[j] = j /\ j \in 0 .. NumPart - 2
    BY <1>1 DEF OtherSource
  <1>7. \A j \in N_gas .. NumPart - 2 : OtherSource[j] \in OtherSlots
    BY <1>1 DEF OtherSource, OtherSlots
  <1> QED BY <1>3, <1>4, <1>5, <1>6, <1>7 DEF Takes

LEMMA GapClosed ==
  ASSUME Typed, xchg.n \in UsedSph, NEW S, NEW f \in [Slot -> S]
  PROVE  /\ CloseGap(f, xchg.n) \in [Slot -> S]
         /\ \A j \in 0 .. NumPart - 2 : CloseGap(f, xchg.n)[j] = f[GasSource[j]]
  <1> DEFINE n == xchg.n
  <1>1. /\ NumPart \in Nat /\ N_gas \in Nat /\ N_gas <= NumPart /\ NumPart <= MaxPart
        /\ n \in Nat /\ n < N_gas /\ MaxPart \in Nat
    BY Basics, Constants DEF UsedSph
  <1>2. n \in Slot /\ N_gas - 1 \in Slot /\ NumPart - 1 \in Slot
    BY <1>1 DEF Slot
  <1> DEFINE g == [f EXCEPT ![n] = f[N_gas - 1]]
  <1>3. g \in [Slot -> S] /\ \A j \in Slot : g[j] = IF j = n THEN f[N_gas - 1] ELSE f[j]
    BY <1>2
  <1>4. CloseGap(f, n) = [g EXCEPT ![N_gas - 1] = g[NumPart - 1]]
    BY DEF CloseGap
  <1> HIDE DEF g
  <1>5. /\ CloseGap(f, n) \in [Slot -> S]
        /\ \A j \in Slot : CloseGap(f, n)[j] = IF j = N_gas - 1 THEN g[NumPart - 1] ELSE g[j]
    BY <1>2, <1>3, <1>4
  <1>6. ASSUME NEW j \in 0 .. NumPart - 2
        PROVE  CloseGap(f, n)[j] = f[GasSource[j]]
    <2>1. j \in Slot
      BY <1>1 DEF Slot
    <2>2. CASE j = N_gas - 1
      <3>1. NumPart - 1 # n
        BY <1>1, <2>2
      <3>2. CloseGap(f, n)[j] = f[NumPart - 1]
        BY <1>2, <1>3, <1>5, <2>1, <2>2, <3>1
      <3> QED BY <2>2, <3>2 DEF GasSource
    <2>3. CASE j # N_gas - 1
      <3>1. CloseGap(f, n)[j] = IF j = n THEN f[N_gas - 1] ELSE f[j]
        BY <1>3, <1>5, <2>1, <2>3
      <3> QED BY <2>3, <3>1 DEF GasSource
    <2> QED BY <2>2, <2>3
  <1> QED BY <1>5, <1>6

LEMMA CollectGasKeeps == IInv /\ CollectGas => IInv'
  <1> SUFFICES ASSUME IInv, CollectGas PROVE IInv'
    OBVIOUS
  <1> USE Constants
  <1> DEFINE n == xchg.n
  <1>1. /\ phase = "collect" /\ phase' = "collect" /\ xchg.sph /\ ~Stays(P[n])
        /\ n < NumPart /\ Len(DomainPartBuf) < xchg.send
        /\ DomainPartBuf' = Append(DomainPartBuf, P[n])
        /\ DomainKeyBuf' = Append(DomainKeyBuf, Key[n])
        /\ DomainSphBuf' = Append(DomainSphBuf, SphP[n])
        /\ P' = CloseGap(P, n) /\ Key' = CloseGap(Key, n)
        /\ SphP' = [SphP EXCEPT ![n] = SphP[N_gas - 1]]
        /\ N_gas' = N_gas - 1 /\ NumPart' = NumPart - 1
        /\ UNCHANGED <<away, incoming, xchg, perm>>
    BY DEF CollectGas, Collecting
  <1>2. Typed /\ perm = NoPerm /\ perm' = NoPerm
    BY <1>1 DEF IInv, Staged, Ordering
  <1>3. /\ NumPart \in Nat /\ N_gas \in Nat /\ N_gas <= NumPart /\ NumPart <= MaxPart /\ N_gas <= MaxPartSph
        /\ n \in Nat /\ xchg.send \in Nat /\ Len(DomainPartBuf) \in Nat /\ Len(incoming) \in Nat
        /\ Used = UsedSph \cup OtherSlots /\ UsedSph \subseteq SphSlot
    BY <1>2, Basics
  <1>4. WholeP = P /\ WholeSphP = SphP /\ WholeP' = P' /\ WholeSphP' = SphP'
    BY <1>2 DEF WholeP, WholeSphP, NoPerm
  <1>5. n \in UsedSph /\ P[n] \in Gas
    <2>1. P[n] \in Gas
      BY <1>1 DEF Stays, OfKind
    <2>2. n \in Used
      BY <1>1, <1>3 DEF Used
    <2> QED BY <1>3, <1>4, <2>1, <2>2 DEF IInv, GasInFront
  <1>6. /\ Takes(GasSource)
        /\ \A j \in 0 .. N_gas - 2 : GasSource[j] \in UsedSph
        /\ \A j \in N_gas - 1 .. NumPart - 2 : GasSource[j] \in OtherSlots
    BY <1>2, <1>5, GasSourceTakes
  <1>7. /\ P' \in [Slot -> Content] /\ Key' \in [Slot -> Nat]
        /\ \A j \in 0 .. NumPart - 2 : P'[j] = P[GasSource[j]] /\ Key'[j] = Key[GasSource[j]]
    <2>1. P \in [Slot -> Content] /\ Key \in [Slot -> Nat]
      BY <1>2 DEF Typed
    <2> QED BY <1>1, <1>2, <1>5, <2>1, GapClosed
  <1>8. /\ DomainPartBuf' \in Seq(Particle) /\ DomainKeyBuf' \in Seq(Nat)
        /\ Len(DomainPartBuf') = Len(DomainPartBuf) + 1
        /\ Buffered' = Buffered \cup {P[n]} /\ Coming' = Coming
        /\ Search' /\ KeyBeside' /\ Distinct' /\ Divided(Whole, Buffered, Coming, away)'
        /\ Staged' /\ Permutation' /\ Sorted'
    BY <1>1, <1>6, <1>7, TakenRight
  <1>9. SphP[n] = P[n] /\ SphP \in [SphSlot -> Content] /\ n \in SphSlot /\ N_gas - 1 \in SphSlot
    <2>1. SphP[n] = P[n]
      BY <1>4, <1>5 DEF IInv, SphBeside
    <2>2. N_gas - 1 \in SphSlot /\ n \in SphSlot
      BY <1>3, <1>5 DEF UsedSph, SphSlot
    <2> QED BY <1>2, <2>1, <2>2 DEF Typed
  <1>10. Typed'
    <2>1. SphP' \in [SphSlot -> Content]
      BY <1>1, <1>9
    <2>2. DomainSphBuf' \in Seq(Particle)
      BY <1>1, <1>2, <1>5, <1>9 DEF Typed, Particle
    <2>3. N_gas - 1 \in 0 .. MaxPartSph /\ NumPart - 1 \in 0 .. MaxPart /\ N_gas - 1 <= NumPart - 1
      BY <1>3, <1>5 DEF UsedSph
    <2> QED BY <1>1, <1>2, <1>7, <1>8, <2>1, <2>2, <2>3 DEF Typed, Slot, SphSlot
  <1>11. Fits'
    <2>1. Coming' \cup Buffered' \subseteq OfKind(TRUE)
      BY <1>1, <1>5, <1>8 DEF IInv, Fits, OfKind
    <2>2. /\ Len(DomainPartBuf) <= xchg.send
          /\ NumPart - (xchg.send - Len(DomainPartBuf)) + Len(incoming) <= MaxPart
          /\ N_gas - (xchg.send - Len(DomainPartBuf)) + Len(incoming) <= MaxPartSph
      BY <1>1 DEF IInv, Fits
    <2>3. /\ Len(DomainPartBuf) + 1 <= xchg.send
          /\ NumPart - 1 - (xchg.send - (Len(DomainPartBuf) + 1)) + Len(incoming) <= MaxPart
          /\ N_gas - 1 - (xchg.send - (Len(DomainPartBuf) + 1)) + Len(incoming) <= MaxPartSph
      <3>1. Len(DomainPartBuf) < xchg.send
        BY <1>1
      <3> QED BY <1>3, <2>2, <3>1
    <2>4. OfKind(xchg.sph)' = OfKind(TRUE)
      BY <1>1 DEF OfKind
    <2> QED BY <1>1, <1>8, <2>1, <2>3, <2>4 DEF Fits
  <1>12. UsedSph' = 0 .. N_gas - 2 /\ OtherSlots' = N_gas - 1 .. NumPart - 2
    <2>1. N_gas - 1 - 1 = N_gas - 2 /\ NumPart - 1 - 1 = NumPart - 2
      BY <1>3
    <2>2. N_gas' = N_gas - 1 /\ NumPart' = NumPart - 1
      BY <1>1
    <2> QED BY <2>1, <2>2 DEF UsedSph, OtherSlots
  <1>13. 0 .. N_gas - 2 \subseteq 0 .. NumPart - 2 /\ N_gas - 1 .. NumPart - 2 \subseteq 0 .. NumPart - 2
    BY <1>3, <1>5 DEF UsedSph
  <1>14. GasInFront'
    <2>1. \A i \in 0 .. N_gas - 2 : P'[i] \in Gas
      BY <1>4, <1>6, <1>7, <1>13 DEF IInv, GasInFront
    <2>2. \A i \in N_gas - 1 .. NumPart - 2 : P'[i] \in Other
      BY <1>4, <1>6, <1>7, <1>13 DEF IInv, GasInFront
    <2> QED BY <1>4, <1>12, <2>1, <2>2 DEF GasInFront
  <1>15. SphBeside'
    <2>1. ASSUME NEW i \in 0 .. N_gas - 2 PROVE SphP'[i] = P'[i]
      <3>1. SphP'[i] = SphP[GasSource[i]]
        BY <1>1, <1>3, <1>9, <1>13 DEF GasSource, SphSlot
      <3> QED BY <1>4, <1>6, <1>7, <1>13, <3>1 DEF IInv, SphBeside
    <2>2. DomainSphBuf' = DomainPartBuf'
      BY <1>1, <1>9 DEF IInv, SphBeside
    <2> QED BY <1>4, <1>12, <2>1, <2>2 DEF SphBeside
  <1> QED BY <1>8, <1>10, <1>11, <1>14, <1>15 DEF IInv

LEMMA CollectOtherKeeps == IInv /\ CollectOther => IInv'
  <1> SUFFICES ASSUME IInv, CollectOther PROVE IInv'
    OBVIOUS
  <1> USE Constants
  <1> DEFINE n == xchg.n
  <1>1. /\ phase = "collect" /\ phase' = "collect" /\ ~xchg.sph /\ ~Stays(P[n])
        /\ n < NumPart /\ Len(DomainPartBuf) < xchg.send
        /\ DomainPartBuf' = Append(DomainPartBuf, P[n])
        /\ DomainKeyBuf' = Append(DomainKeyBuf, Key[n])
        /\ P' = [P EXCEPT ![n] = P[NumPart - 1]] /\ Key' = [Key EXCEPT ![n] = Key[NumPart - 1]]
        /\ NumPart' = NumPart - 1
        /\ UNCHANGED <<SphP, N_gas, DomainSphBuf, away, incoming, xchg, perm>>
    BY DEF CollectOther, Collecting
  <1>2. Typed /\ perm = NoPerm /\ perm' = NoPerm
    BY <1>1 DEF IInv, Staged, Ordering
  <1>3. /\ NumPart \in Nat /\ N_gas \in Nat /\ N_gas <= NumPart /\ NumPart <= MaxPart
        /\ n \in Nat /\ xchg.send \in Nat /\ Len(DomainPartBuf) \in Nat /\ Len(incoming) \in Nat
        /\ Used = UsedSph \cup OtherSlots /\ xchg.sph = FALSE
    BY <1>1, <1>2, Basics
  <1>4. WholeP = P /\ WholeSphP = SphP /\ WholeP' = P' /\ WholeSphP' = SphP'
    BY <1>2 DEF WholeP, WholeSphP, NoPerm
  <1>5. n \in OtherSlots /\ P[n] \in Other
    <2>1. P[n] \in Other
      BY <1>1 DEF Stays, OfKind
    <2>2. n \in Used
      BY <1>1, <1>3 DEF Used
    <2> QED BY <1>3, <1>4, <2>1, <2>2 DEF IInv, GasInFront
  <1>6. /\ Takes(OtherSource)
        /\ \A j \in 0 .. N_gas - 1 : OtherSource[j] = j /\ j \in 0 .. NumPart - 2
        /\ \A j \in N_gas .. NumPart - 2 : OtherSource[j] \in OtherSlots
    BY <1>2, <1>5, OtherSourceTakes
  <1>7. /\ P' \in [Slot -> Content] /\ Key' \in [Slot -> Nat]
        /\ \A j \in 0 .. NumPart - 2 : P'[j] = P[OtherSource[j]] /\ Key'[j] = Key[OtherSource[j]]
    <2>1. P \in [Slot -> Content] /\ Key \in [Slot -> Nat] /\ n \in Slot /\ NumPart - 1 \in Slot
      BY <1>1, <1>2, <1>3 DEF Typed, Slot
    <2>2. P' \in [Slot -> Content] /\ Key' \in [Slot -> Nat]
      BY <1>1, <2>1
    <2>3. \A j \in 0 .. NumPart - 2 : j \in Slot
      BY <1>3 DEF Slot
    <2> QED BY <1>1, <2>1, <2>2, <2>3 DEF OtherSource
  <1>8. /\ DomainPartBuf' \in Seq(Particle) /\ DomainKeyBuf' \in Seq(Nat)
        /\ Len(DomainPartBuf') = Len(DomainPartBuf) + 1
        /\ Buffered' = Buffered \cup {P[n]} /\ Coming' = Coming
        /\ Search' /\ KeyBeside' /\ Distinct' /\ Divided(Whole, Buffered, Coming, away)'
        /\ Staged' /\ Permutation' /\ Sorted'
    BY <1>1, <1>6, <1>7, TakenRight
  <1>9. N_gas <= NumPart - 1
    BY <1>3, <1>5 DEF OtherSlots
  <1>10. Typed'
    <2>1. NumPart - 1 \in 0 .. MaxPart
      BY <1>3, <1>9
    <2> QED BY <1>1, <1>2, <1>7, <1>8, <1>9, <2>1 DEF Typed, Slot, SphSlot
  <1>11. Fits'
    <2>1. Coming' \cup Buffered' \subseteq OfKind(FALSE)
      BY <1>3, <1>5, <1>8 DEF IInv, Fits, OfKind
    <2>2. /\ Len(DomainPartBuf) <= xchg.send
          /\ NumPart - (xchg.send - Len(DomainPartBuf)) + Len(incoming) <= MaxPart
      BY <1>1 DEF IInv, Fits
    <2>3. /\ Len(DomainPartBuf) + 1 <= xchg.send
          /\ NumPart - 1 - (xchg.send - (Len(DomainPartBuf) + 1)) + Len(incoming) <= MaxPart
      BY <1>1, <1>3, <2>2
    <2>4. OfKind(xchg.sph)' = OfKind(FALSE)
      BY <1>1, <1>3 DEF OfKind
    <2> QED BY <1>1, <1>8, <2>1, <2>3, <2>4 DEF Fits
  <1>12. UsedSph' = UsedSph /\ OtherSlots' = N_gas .. NumPart - 2
    BY <1>1, <1>3 DEF UsedSph, OtherSlots
  <1>13. \A i \in UsedSph : P'[i] = P[i]
    BY <1>6, <1>7 DEF UsedSph
  <1>14. GasInFront'
    <2>1. N_gas .. NumPart - 2 \subseteq 0 .. NumPart - 2
      BY <1>3
    <2>2. \A i \in N_gas .. NumPart - 2 : P'[i] \in Other
      BY <1>4, <1>6, <1>7, <2>1 DEF IInv, GasInFront
    <2> QED BY <1>4, <1>12, <1>13, <2>2 DEF IInv, GasInFront
  <1>15. SphBeside'
    BY <1>1, <1>4, <1>12, <1>13 DEF IInv, SphBeside
  <1> QED BY <1>8, <1>10, <1>11, <1>14, <1>15 DEF IInv

(* Room is made for k particles at "at", and src says from where the other *)
(* places are filled: none gets lost.                                      *)
Fills(at, k, src) ==
  /\ at \in 0 .. NumPart
  /\ src \in [(0 .. NumPart + k - 1) \ (at .. at + k - 1) -> Used]
  /\ \A a, b \in (0 .. NumPart + k - 1) \ (at .. at + k - 1) : a # b => src[a] # src[b]
  /\ \A q \in Used : \E a \in (0 .. NumPart + k - 1) \ (at .. at + k - 1) : src[a] = q

LEMMA UsedAfter ==
  ASSUME NEW m, NumPart' = m
  PROVE  Used' = 0 .. m - 1
  BY DEF Used

LEMMA ReceivedRight ==
  ASSUME IInv, phase = "receive", Proceed, NEW k, k = Len(incoming),
         NumPart' = NumPart + k, N_gas' = (IF xchg.sph THEN N_gas + k ELSE N_gas), incoming' = <<>>,
         UNCHANGED <<away, DomainPartBuf, DomainKeyBuf, DomainSphBuf, perm>>,
         NEW at, NEW src, Fills(at, k, src),
         \A j \in (0 .. NumPart + k - 1) \ (at .. at + k - 1) : P'[j] = P[src[j]] /\ Key'[j] = Key[src[j]],
         \A j \in at .. at + k - 1 :
           P'[j] = incoming[j - at + 1] /\ Key'[j] = KeyOf[incoming[j - at + 1]]
  PROVE  /\ xchg' \in Calls /\ WholeP' = P' /\ WholeP = P /\ WholeSphP' = SphP' /\ WholeSphP = SphP
         /\ xchg'.sph => xchg.sph
         /\ Search' /\ KeyBeside' /\ Distinct' /\ Divided(Whole, Buffered, Coming, away)'
         /\ Staged' /\ Fits' /\ Permutation' /\ Sorted'
  <1> USE Constants
  <1> DEFINE Rest == (0 .. NumPart + k - 1) \ (at .. at + k - 1)
             Gap == at .. at + k - 1
  <1>1. /\ NumPart \in Nat /\ N_gas \in Nat /\ k \in Nat /\ DOMAIN incoming = 1 .. k
        /\ Coming \subseteq Particle
    BY Basics DEF IInv
  <1>2. perm = NoPerm /\ perm' = NoPerm
    BY DEF IInv, Staged, Ordering
  <1>3. WholeP' = P' /\ WholeP = P /\ WholeSphP' = SphP' /\ WholeSphP = SphP
    BY <1>2 DEF WholeP, WholeSphP, NoPerm
  <1>4. xchg.rest \in {<<>>, <<"send">>} /\ (xchg.rest = <<>> => NothingBuffered)
    BY DEF IInv, Staged
  <1>5. /\ xchg' \in Calls
        /\ \/ phase' = "exchange" /\ xchg' = NoXchg /\ NothingBuffered
           \/ phase' = "send" /\ xchg'.rest = <<>> /\ xchg'.sph = xchg.sph
    BY <1>4, ProceedsRight, OrdersUnfold DEF IInv
  <1>6. xchg'.sph => xchg.sph
    <2>1. NoXchg.sph = FALSE
      BY DEF NoXchg
    <2>2. xchg'.sph = xchg.sph \/ xchg'.sph = FALSE
      BY <1>5, <2>1, Zenon
    <2>3. xchg.sph \in BOOLEAN
      BY Basics DEF IInv
    <2> QED BY <2>2, <2>3
  <1>7. Coming' = {} /\ Buffered' = Buffered
    BY DEF Coming, Buffered
  <1>8. Used' = Rest \cup Gap /\ Gap \subseteq Used'
    <2>1. at \in Nat /\ at <= NumPart
      BY <1>1 DEF Fills
    <2>2. Used' = 0 .. NumPart + k - 1
      <3>1. Used' = 0 .. (NumPart + k) - 1
        BY UsedAfter, Zenon
      <3>2. (NumPart + k) - 1 = NumPart + k - 1
        BY <1>1
      <3> QED BY <3>1, <3>2, Zenon
    <2>3. Gap \subseteq 0 .. NumPart + k - 1
      BY <1>1, <2>1
    <2> QED BY <2>2, <2>3
  <1>9. \A j \in Gap : j - at + 1 \in DOMAIN incoming
    BY <1>1 DEF Fills
  <1>10. \A j \in Gap : P'[j] \in Coming
    BY <1>9 DEF Coming
  <1>11. \A j \in Rest : src[j] \in Used /\ P'[j] \in Whole
    BY <1>3 DEF Fills, Whole
  <1>12. Whole' = Whole \cup Coming
    <2>1. \A x \in Whole' : x \in Whole \cup Coming
      BY <1>3, <1>8, <1>10, <1>11 DEF Whole
    <2>2. \A q \in Used : P[q] \in Whole'
      <3> SUFFICES ASSUME NEW q \in Used PROVE P[q] \in Whole'
        OBVIOUS
      <3>1. PICK a \in Rest : src[a] = q
        BY DEF Fills
      <3>2. P'[a] = P[q] /\ a \in Used'
        BY <1>8, <3>1
      <3> QED BY <1>3, <3>2 DEF Whole
    <2>3. \A i \in 1 .. k : incoming[i] \in Whole'
      <3> SUFFICES ASSUME NEW i \in 1 .. k PROVE incoming[i] \in Whole'
        OBVIOUS
      <3>1. at + i - 1 \in Gap /\ (at + i - 1) - at + 1 = i
        BY <1>1 DEF Fills
      <3>2. P'[at + i - 1] = incoming[i]
        BY <3>1
      <3> QED BY <1>3, <1>8, <3>1, <3>2 DEF Whole
    <2>4. Whole \subseteq Whole'
      BY <1>3, <2>2 DEF Whole
    <2>5. Coming \subseteq Whole'
      BY <1>1, <2>3 DEF Coming
    <2> QED BY <2>1, <2>4, <2>5
  <1>13. Divided(Whole, Buffered, Coming, away)'
    BY <1>7, <1>12 DEF IInv, Divided
  <1>14. Distinct'
    <2>1. \A a, b \in Rest : a # b => P'[a] # P'[b]
      BY <1>3, <1>11 DEF IInv, Distinct, Fills
    <2>2. \A a, b \in Gap : a # b => P'[a] # P'[b]
      <3> SUFFICES ASSUME NEW a \in Gap, NEW b \in Gap, a # b PROVE P'[a] # P'[b]
        OBVIOUS
      <3>1. a - at + 1 # b - at + 1
        BY <1>1 DEF Fills
      <3> QED BY <1>9, <3>1 DEF IInv, Distinct
    <2>3. \A a \in Rest, b \in Gap : P'[a] # P'[b]
      BY <1>10, <1>11 DEF IInv, Divided
    <2>4. \A a, b \in Used' : a # b => P'[a] # P'[b]
      BY <1>8, <2>1, <2>2, <2>3
    <2> QED BY <1>3, <2>4 DEF IInv, Distinct
  <1>15. KeyBeside'
    <2>1. \A j \in Rest : Key'[j] = KeyOf[P'[j]]
      BY <1>11 DEF IInv, KeyBeside
    <2>2. \A j \in Gap : Key'[j] = KeyOf[P'[j]]
      OBVIOUS
    <2>3. DomainKeyBuf = Keys(DomainPartBuf)
      BY DEF IInv, KeyBeside
    <2> QED BY <1>8, <2>1, <2>2, <2>3 DEF KeyBeside, Keys
  <1>16. Staged'
    BY <1>2, <1>5 DEF Staged, NothingBuffered, Moving, Ordering
  <1>17. Fits'
    <2>1. CASE phase' = "exchange"
      <3>1. Buffered' = {}
        BY <1>5, <1>7, <2>1 DEF Buffered, NothingBuffered
      <3> QED BY <1>7, <2>1, <3>1 DEF Fits
    <2>2. CASE phase' = "send"
      <3>1. Buffered \subseteq OfKind(xchg.sph) /\ OfKind(xchg.sph)' = OfKind(xchg.sph)
        BY <1>5, <2>2 DEF IInv, Fits, OfKind
      <3>2. NumPart + k <= MaxPart /\ (xchg.sph => N_gas + k <= MaxPartSph)
        BY DEF IInv, Fits
      <3>3. Len(incoming') = 0
        OBVIOUS
      <3>4. NumPart' + Len(incoming') <= MaxPart /\ (xchg'.sph => N_gas' + Len(incoming') <= MaxPartSph)
        BY <1>1, <1>6, <3>2, <3>3
      <3> QED BY <1>7, <2>2, <3>1, <3>4 DEF Fits
    <2> QED BY <1>5, <2>1, <2>2
  <1>18. Search' /\ Permutation' /\ Sorted'
    BY <1>5 DEF Search, Permutation, Sorted, Ordering
  <1> QED BY <1>3, <1>5, <1>6, <1>13, <1>14, <1>15, <1>16, <1>17, <1>18

Rest(at, k) == (0 .. NumPart + k - 1) \ (at .. at + k - 1)

RoomSource(k) ==
  [i \in Rest(N_gas, k) |->
     IF i < N_gas THEN i
     ELSE IF NumPart - N_gas > k THEN IF i >= NumPart THEN N_gas + (i - NumPart) ELSE i
     ELSE i - k]

EndSource(k) == [i \in Rest(NumPart, k) |-> i]

LEMMA RoomSourceFills ==
  ASSUME Typed, NEW k \in Nat
  PROVE  /\ Fills(N_gas, k, RoomSource(k))
         /\ \A j \in Rest(N_gas, k) : j < N_gas => RoomSource(k)[j] = j
         /\ \A j \in Rest(N_gas, k) : j >= N_gas + k => RoomSource(k)[j] \in OtherSlots
         /\ \A j \in Rest(N_gas, k) : j < N_gas \/ j >= N_gas + k
  <1>1. NumPart \in Nat /\ N_gas \in Nat /\ N_gas <= NumPart
    BY Basics
  <1>2. \A j \in Rest(N_gas, k) : j \in Nat /\ j < NumPart + k /\ (j < N_gas \/ j >= N_gas + k)
    BY <1>1 DEF Rest
  <1>3. \A j \in Rest(N_gas, k) : RoomSource(k)[j] \in Used
    BY <1>1, <1>2 DEF RoomSource, Used
  <1>4. RoomSource(k) \in [Rest(N_gas, k) -> Used]
    BY <1>3 DEF RoomSource
  <1>5. \A a, b \in Rest(N_gas, k) : a # b => RoomSource(k)[a] # RoomSource(k)[b]
    BY <1>1, <1>2 DEF RoomSource
  <1>6. ASSUME NEW q \in Used PROVE \E a \in Rest(N_gas, k) : RoomSource(k)[a] = q
    <2>1. q \in Nat /\ q < NumPart
      BY <1>1 DEF Used
    <2>2. CASE q < N_gas
      <3>1. q \in Rest(N_gas, k)
        BY <1>1, <2>1, <2>2 DEF Rest
      <3> QED BY <2>2, <3>1 DEF RoomSource
    <2>3. CASE q >= N_gas /\ NumPart - N_gas > k /\ q < N_gas + k
      <3>1. NumPart + (q - N_gas) \in Rest(N_gas, k)
        BY <1>1, <2>1, <2>3 DEF Rest
      <3>2. RoomSource(k)[NumPart + (q - N_gas)] = q
        BY <1>1, <2>1, <2>3, <3>1 DEF RoomSource
      <3> QED BY <3>1, <3>2
    <2>4. CASE q >= N_gas /\ NumPart - N_gas > k /\ q >= N_gas + k
      <3>1. q \in Rest(N_gas, k)
        BY <1>1, <2>1, <2>4 DEF Rest
      <3>2. RoomSource(k)[q] = q
        BY <1>1, <2>1, <2>4, <3>1 DEF RoomSource
      <3> QED BY <3>1, <3>2
    <2>5. CASE q >= N_gas /\ ~(NumPart - N_gas > k)
      <3>1. q + k \in Rest(N_gas, k)
        BY <1>1, <2>1, <2>5 DEF Rest
      <3>2. RoomSource(k)[q + k] = q
        BY <1>1, <2>1, <2>5, <3>1 DEF RoomSource
      <3> QED BY <3>1, <3>2
    <2> QED BY <1>1, <2>1, <2>2, <2>3, <2>4, <2>5
  <1>7. \A j \in Rest(N_gas, k) : j < N_gas => RoomSource(k)[j] = j
    BY DEF RoomSource
  <1>8. \A j \in Rest(N_gas, k) : j >= N_gas + k => RoomSource(k)[j] \in OtherSlots
    BY <1>1, <1>2 DEF RoomSource, OtherSlots
  <1>9. N_gas \in 0 .. NumPart
    BY <1>1
  <1> QED BY <1>2, <1>4, <1>5, <1>6, <1>7, <1>8, <1>9 DEF Fills, Rest

LEMMA EndSourceFills ==
  ASSUME Typed, NEW k \in Nat
  PROVE  /\ Fills(NumPart, k, EndSource(k))
         /\ Rest(NumPart, k) = Used
  <1>1. NumPart \in Nat
    BY Basics
  <1>2. Rest(NumPart, k) = Used
    BY <1>1 DEF Rest, Used
  <1>3. EndSource(k) \in [Rest(NumPart, k) -> Used]
    BY <1>2 DEF EndSource
  <1>4. \A a \in Rest(NumPart, k) : EndSource(k)[a] = a
    BY DEF EndSource
  <1>5. NumPart \in 0 .. NumPart
    BY <1>1
  <1> QED BY <1>2, <1>3, <1>4, <1>5 DEF Fills, Rest

LEMMA RoomMade ==
  ASSUME Typed, NEW k \in Nat, NumPart + k <= MaxPart, NEW S, NEW f \in [Slot -> S],
         NEW x \in Seq(S), Len(x) = k
  PROVE  /\ Put(MakeRoom(f, k), N_gas, x) \in [Slot -> S]
         /\ \A j \in Rest(N_gas, k) : Put(MakeRoom(f, k), N_gas, x)[j] = f[RoomSource(k)[j]]
         /\ \A j \in N_gas .. N_gas + k - 1 : Put(MakeRoom(f, k), N_gas, x)[j] = x[j - N_gas + 1]
  <1>1. NumPart \in Nat /\ N_gas \in Nat /\ N_gas <= NumPart /\ MaxPart \in Nat
    BY Basics, Constants
  <1>2. x \in [1 .. k -> S]
    OBVIOUS
  <1> DEFINE g == MakeRoom(f, k)
             h == Put(g, N_gas, x)
  <1>3. g \in [Slot -> S]
    <2>1. CASE NumPart - N_gas > k
      <3>1. g = [i \in Slot |-> IF i \in NumPart .. NumPart + k - 1 THEN f[N_gas + (i - NumPart)] ELSE f[i]]
        BY <2>1 DEF MakeRoom
      <3>2. \A i \in NumPart .. NumPart + k - 1 : N_gas + (i - NumPart) \in Slot
        BY <1>1, <2>1 DEF Slot
      <3> QED BY <3>1, <3>2
    <2>2. CASE ~(NumPart - N_gas > k)
      <3>1. g = [i \in Slot |-> IF i \in N_gas + k .. NumPart + k - 1 THEN f[i - k] ELSE f[i]]
        BY <2>2 DEF MakeRoom
      <3>2. \A i \in N_gas + k .. NumPart + k - 1 : i - k \in Slot
        BY <1>1, <2>2 DEF Slot
      <3> QED BY <3>1, <3>2
    <2> QED BY <2>1, <2>2
  <1>4. h = [i \in Slot |-> IF i \in N_gas .. N_gas + k - 1 THEN x[i - N_gas + 1] ELSE g[i]]
    BY <1>3 DEF Put
  <1>5. \A i \in N_gas .. N_gas + k - 1 : i - N_gas + 1 \in 1 .. k /\ i \in Slot
    BY <1>1 DEF Slot
  <1>6. \A j \in Rest(N_gas, k) : j \in Slot /\ j \notin N_gas .. N_gas + k - 1 /\ j \in Nat /\ j < NumPart + k
    BY <1>1 DEF Rest, Slot
  <1>7. \A j \in Rest(N_gas, k) : g[j] = f[RoomSource(k)[j]]
    <2>1. CASE NumPart - N_gas > k
      <3>1. \A j \in Rest(N_gas, k) : g[j] = IF j \in NumPart .. NumPart + k - 1 THEN f[N_gas + (j - NumPart)] ELSE f[j]
        BY <1>6, <2>1 DEF MakeRoom
      <3>2. \A j \in Rest(N_gas, k) : j \in NumPart .. NumPart + k - 1 <=> j >= NumPart
        BY <1>1, <1>6
      <3> QED BY <1>1, <1>6, <2>1, <3>1, <3>2 DEF RoomSource
    <2>2. CASE ~(NumPart - N_gas > k)
      <3>1. \A j \in Rest(N_gas, k) : g[j] = IF j \in N_gas + k .. NumPart + k - 1 THEN f[j - k] ELSE f[j]
        BY <1>6, <2>2 DEF MakeRoom
      <3>2. \A j \in Rest(N_gas, k) : j \in N_gas + k .. NumPart + k - 1 <=> j >= N_gas
        BY <1>1, <1>6
      <3> QED BY <1>1, <1>6, <2>2, <3>1, <3>2 DEF RoomSource
    <2> QED BY <2>1, <2>2
  <1> HIDE DEF g, h
  <1>8. h \in [Slot -> S]
    BY <1>2, <1>3, <1>4, <1>5
  <1>9. \A j \in Rest(N_gas, k) : h[j] = f[RoomSource(k)[j]]
    BY <1>4, <1>6, <1>7
  <1>10. \A j \in N_gas .. N_gas + k - 1 : h[j] = x[j - N_gas + 1]
    BY <1>4, <1>5
  <1> QED BY <1>8, <1>9, <1>10 DEF g, h

LEMMA PutAfter ==
  ASSUME NEW at \in Nat, NEW T, NEW S, NEW f \in [T -> S], NEW x \in Seq(S),
         at .. at + Len(x) - 1 \subseteq T
  PROVE  /\ Put(f, at, x) \in [T -> S]
         /\ \A j \in T : j \notin at .. at + Len(x) - 1 => Put(f, at, x)[j] = f[j]
         /\ \A j \in at .. at + Len(x) - 1 : Put(f, at, x)[j] = x[j - at + 1]
  <1>1. x \in [1 .. Len(x) -> S] /\ Len(x) \in Nat
    OBVIOUS
  <1>2. Put(f, at, x) = [i \in T |-> IF i \in at .. at + Len(x) - 1 THEN x[i - at + 1] ELSE f[i]]
    BY DEF Put
  <1>3. \A i \in at .. at + Len(x) - 1 : i - at + 1 \in 1 .. Len(x) /\ i \in T
    BY <1>1
  <1>4. Put(f, at, x) \in [T -> S]
    BY <1>1, <1>2, <1>3
  <1> QED BY <1>2, <1>3, <1>4

LEMMA KeysOfSequence ==
  ASSUME NEW x \in Seq(Particle)
  PROVE  /\ Keys(x) \in Seq(Nat) /\ Len(Keys(x)) = Len(x)
         /\ \A i \in 1 .. Len(x) : Keys(x)[i] = KeyOf[x[i]]
  <1> USE Constants
  <1> DEFINE m == Len(x)
  <1>1. m \in Nat /\ DOMAIN x = 1 .. m /\ \A i \in 1 .. m : x[i] \in Particle
    OBVIOUS
  <1>2. Keys(x) = [i \in 1 .. m |-> KeyOf[x[i]]]
    BY <1>1 DEF Keys
  <1>3. \A i \in 1 .. m : KeyOf[x[i]] \in Nat
    BY <1>1
  <1>4. Keys(x) \in [1 .. m -> Nat]
    BY <1>2, <1>3
  <1>5. Keys(x) \in Seq(Nat) /\ Len(Keys(x)) = m
    BY <1>1, <1>4
  <1> QED BY <1>2, <1>5

LEMMA ReceiveKeeps == IInv /\ Receive => IInv'
  <1> SUFFICES ASSUME IInv, Receive PROVE IInv'
    OBVIOUS
  <1> USE Constants
  <1> DEFINE k == Len(incoming)
  <1>1. /\ phase = "receive" /\ Proceed /\ incoming' = <<>>
        /\ UNCHANGED <<away, DomainPartBuf, DomainKeyBuf, DomainSphBuf, perm>>
    BY DEF Receive, bufs
  <1>2. Typed
    BY DEF IInv
  <1>3. /\ NumPart \in Nat /\ N_gas \in Nat /\ N_gas <= NumPart /\ k \in Nat
        /\ NumPart <= MaxPart /\ N_gas <= MaxPartSph /\ DOMAIN incoming = 1 .. k
    BY <1>2, Basics
  <1>4. incoming \in Seq(Particle) /\ incoming \in Seq(Content)
    BY <1>2, <1>3 DEF Typed, Content
  <1>5. /\ Keys(incoming) \in Seq(Nat) /\ Len(Keys(incoming)) = k
        /\ \A i \in 1 .. k : Keys(incoming)[i] = KeyOf[incoming[i]]
    BY <1>4, KeysOfSequence
  <1>6. /\ NumPart + k <= MaxPart /\ (xchg.sph => N_gas + k <= MaxPartSph)
        /\ \A i \in 1 .. k : incoming[i] \in OfKind(xchg.sph)
    BY <1>1, <1>3 DEF IInv, Fits, Coming
  <1>7. WholeP = P /\ WholeSphP = SphP
    <2>1. perm = NoPerm
      BY <1>1 DEF IInv, Staged, Ordering
    <2> QED BY <2>1 DEF WholeP, WholeSphP, NoPerm
  <1>8. P \in [Slot -> Content] /\ Key \in [Slot -> Nat] /\ SphP \in [SphSlot -> Content]
    BY <1>2 DEF Typed
  <1>9. /\ \A i \in 0 .. N_gas - 1 : P[i] \in Gas /\ SphP[i] = P[i]
        /\ \A i \in N_gas .. NumPart - 1 : P[i] \in Other
    BY <1>7 DEF IInv, GasInFront, SphBeside, UsedSph, OtherSlots
  <1>10. CASE xchg.sph
    <2>1. /\ P' = Put(MakeRoom(P, k), N_gas, incoming)
          /\ Key' = Put(MakeRoom(Key, k), N_gas, Keys(incoming))
          /\ SphP' = Put(SphP, N_gas, incoming)
          /\ N_gas' = N_gas + k /\ NumPart' = NumPart + k
      BY <1>10 DEF Receive
    <2>2. /\ P' \in [Slot -> Content]
          /\ \A j \in Rest(N_gas, k) : P'[j] = P[RoomSource(k)[j]]
          /\ \A j \in N_gas .. N_gas + k - 1 : P'[j] = incoming[j - N_gas + 1]
      BY <1>2, <1>3, <1>4, <1>6, <1>8, <2>1, RoomMade
    <2>3. /\ Key' \in [Slot -> Nat]
          /\ \A j \in Rest(N_gas, k) : Key'[j] = Key[RoomSource(k)[j]]
          /\ \A j \in N_gas .. N_gas + k - 1 : Key'[j] = Keys(incoming)[j - N_gas + 1]
      <3> DEFINE x == Keys(incoming)
      <3>1. x \in Seq(Nat) /\ Len(x) = k
        BY <1>5
      <3> HIDE DEF x
      <3>2. /\ Put(MakeRoom(Key, k), N_gas, x) \in [Slot -> Nat]
            /\ \A j \in Rest(N_gas, k) : Put(MakeRoom(Key, k), N_gas, x)[j] = Key[RoomSource(k)[j]]
            /\ \A j \in N_gas .. N_gas + k - 1 : Put(MakeRoom(Key, k), N_gas, x)[j] = x[j - N_gas + 1]
        BY <1>2, <1>3, <1>6, <1>8, <3>1, RoomMade
      <3>3. Key' = Put(MakeRoom(Key, k), N_gas, x)
        BY <2>1 DEF x
      <3> QED BY <3>2, <3>3 DEF x
    <2>4. \A j \in N_gas .. N_gas + k - 1 : j - N_gas + 1 \in 1 .. k
      BY <1>3
    <2>5. \A j \in N_gas .. N_gas + k - 1 : Key'[j] = KeyOf[incoming[j - N_gas + 1]]
      BY <1>5, <2>3, <2>4
    <2>6. /\ Fills(N_gas, k, RoomSource(k))
          /\ \A j \in Rest(N_gas, k) : j < N_gas => RoomSource(k)[j] = j
          /\ \A j \in Rest(N_gas, k) : j >= N_gas + k => RoomSource(k)[j] \in OtherSlots
      BY <1>2, <1>3, RoomSourceFills
    <2>7. /\ SphP' \in [SphSlot -> Content]
          /\ \A j \in 0 .. N_gas - 1 : SphP'[j] = SphP[j]
          /\ \A j \in N_gas .. N_gas + k - 1 : SphP'[j] = incoming[j - N_gas + 1]
      <3>1. /\ N_gas .. N_gas + k - 1 \subseteq SphSlot
            /\ \A j \in 0 .. N_gas - 1 : j \in SphSlot /\ j \notin N_gas .. N_gas + k - 1
        BY <1>3, <1>6, <1>10 DEF SphSlot
      <3>2. /\ Put(SphP, N_gas, incoming) \in [SphSlot -> Content]
            /\ \A j \in SphSlot : j \notin N_gas .. N_gas + k - 1 => Put(SphP, N_gas, incoming)[j] = SphP[j]
            /\ \A j \in N_gas .. N_gas + k - 1 : Put(SphP, N_gas, incoming)[j] = incoming[j - N_gas + 1]
        BY <1>3, <1>4, <1>8, <3>1, PutAfter
      <3> QED BY <2>1, <3>1, <3>2
    <2>8. /\ xchg' \in Calls /\ WholeP' = P' /\ WholeSphP' = SphP'
          /\ xchg'.sph => xchg.sph
          /\ Search' /\ KeyBeside' /\ Distinct' /\ Divided(Whole, Buffered, Coming, away)'
          /\ Staged' /\ Fits' /\ Permutation' /\ Sorted'
      <3>1. N_gas' = (IF xchg.sph THEN N_gas + k ELSE N_gas)
        BY <1>10, <2>1
      <3> QED BY <1>1, <2>1, <2>2, <2>3, <2>5, <2>6, <3>1, ReceivedRight DEF Rest
    <2>9. Typed'
      <3>1. NumPart + k \in 0 .. MaxPart /\ N_gas + k \in 0 .. MaxPartSph /\ N_gas + k <= NumPart + k
        BY <1>3, <1>6, <1>10
      <3>2. incoming' \in Seq(Particle)
        BY <1>1
      <3> QED BY <1>1, <1>2, <2>1, <2>2, <2>3, <2>7, <2>8, <3>1, <3>2 DEF Typed, Slot, SphSlot
    <2>10. /\ UsedSph' = 0 .. N_gas + k - 1 /\ OtherSlots' = N_gas + k .. NumPart + k - 1
      <3>1. N_gas + k - 1 = (N_gas + k) - 1 /\ NumPart + k - 1 = (NumPart + k) - 1
        BY <1>3
      <3> QED BY <2>1, <3>1 DEF UsedSph, OtherSlots
    <2>11. \A i \in 0 .. N_gas + k - 1 : P'[i] \in Gas /\ SphP'[i] = P'[i]
      <3> SUFFICES ASSUME NEW i \in 0 .. N_gas + k - 1 PROVE P'[i] \in Gas /\ SphP'[i] = P'[i]
        OBVIOUS
      <3>1. CASE i < N_gas
        <4>1. i \in Rest(N_gas, k) /\ i \in 0 .. N_gas - 1
          BY <1>3, <3>1 DEF Rest
        <4>2. P'[i] = P[i]
          BY <2>2, <2>6, <3>1, <4>1
        <4> QED BY <1>9, <2>7, <4>1, <4>2
      <3>2. CASE i >= N_gas
        <4>1. i \in N_gas .. N_gas + k - 1
          BY <1>3, <3>2
        <4>2. P'[i] = incoming[i - N_gas + 1] /\ SphP'[i] = P'[i]
          BY <2>2, <2>7, <4>1
        <4> QED BY <1>6, <1>10, <2>4, <4>1, <4>2 DEF OfKind
      <3> QED BY <1>3, <3>1, <3>2
    <2>12. \A i \in N_gas + k .. NumPart + k - 1 : P'[i] \in Other
      <3> SUFFICES ASSUME NEW i \in N_gas + k .. NumPart + k - 1 PROVE P'[i] \in Other
        OBVIOUS
      <3>1. i \in Rest(N_gas, k) /\ i >= N_gas + k
        BY <1>3 DEF Rest
      <3>2. RoomSource(k)[i] \in N_gas .. NumPart - 1
        BY <2>6, <3>1 DEF OtherSlots
      <3> QED BY <1>9, <2>2, <3>1, <3>2
    <2>13. GasInFront'
      BY <2>8, <2>10, <2>11, <2>12 DEF GasInFront
    <2>14. SphBeside'
      <3>1. DomainSphBuf = DomainPartBuf
        BY <1>10 DEF IInv, SphBeside
      <3>2. DomainSphBuf' = DomainPartBuf'
        BY <1>1, <3>1
      <3> QED BY <2>8, <2>10, <2>11, <3>2 DEF SphBeside
    <2> QED BY <2>8, <2>9, <2>13, <2>14 DEF IInv
  <1>11. CASE ~xchg.sph
    <2>1. /\ P' = Put(P, NumPart, incoming) /\ Key' = Put(Key, NumPart, Keys(incoming))
          /\ NumPart' = NumPart + k /\ SphP' = SphP /\ N_gas' = N_gas
      BY <1>11 DEF Receive
    <2>2. /\ NumPart .. NumPart + k - 1 \subseteq Slot
          /\ \A j \in 0 .. NumPart - 1 : j \in Slot /\ j \notin NumPart .. NumPart + k - 1
      BY <1>3, <1>6 DEF Slot
    <2>3. /\ P' \in [Slot -> Content]
          /\ \A j \in 0 .. NumPart - 1 : P'[j] = P[j]
          /\ \A j \in NumPart .. NumPart + k - 1 : P'[j] = incoming[j - NumPart + 1]
      <3>1. /\ Put(P, NumPart, incoming) \in [Slot -> Content]
            /\ \A j \in Slot : j \notin NumPart .. NumPart + k - 1 => Put(P, NumPart, incoming)[j] = P[j]
            /\ \A j \in NumPart .. NumPart + k - 1 : Put(P, NumPart, incoming)[j] = incoming[j - NumPart + 1]
        BY <1>3, <1>4, <1>8, <2>2, PutAfter
      <3> QED BY <2>1, <2>2, <3>1
    <2>4. /\ Key' \in [Slot -> Nat]
          /\ \A j \in 0 .. NumPart - 1 : Key'[j] = Key[j]
          /\ \A j \in NumPart .. NumPart + k - 1 : Key'[j] = Keys(incoming)[j - NumPart + 1]
      <3> DEFINE x == Keys(incoming)
      <3>1. x \in Seq(Nat) /\ Len(x) = k
        BY <1>5
      <3> HIDE DEF x
      <3>2. /\ Put(Key, NumPart, x) \in [Slot -> Nat]
            /\ \A j \in Slot : j \notin NumPart .. NumPart + k - 1 => Put(Key, NumPart, x)[j] = Key[j]
            /\ \A j \in NumPart .. NumPart + k - 1 : Put(Key, NumPart, x)[j] = x[j - NumPart + 1]
        BY <1>3, <1>8, <2>2, <3>1, PutAfter
      <3>3. Key' = Put(Key, NumPart, x)
        BY <2>1 DEF x
      <3> QED BY <2>2, <3>2, <3>3 DEF x
    <2>5. \A j \in NumPart .. NumPart + k - 1 : j - NumPart + 1 \in 1 .. k
      BY <1>3
    <2>6. \A j \in NumPart .. NumPart + k - 1 : Key'[j] = KeyOf[incoming[j - NumPart + 1]]
      BY <1>5, <2>4, <2>5
    <2>7. Fills(NumPart, k, EndSource(k)) /\ Rest(NumPart, k) = Used
      BY <1>2, <1>3, EndSourceFills
    <2>8. \A j \in Rest(NumPart, k) : P'[j] = P[EndSource(k)[j]] /\ Key'[j] = Key[EndSource(k)[j]]
      <3>1. \A j \in Rest(NumPart, k) : EndSource(k)[j] = j /\ j \in 0 .. NumPart - 1
        BY <2>7 DEF EndSource, Used
      <3> QED BY <2>3, <2>4, <3>1
    <2>9. /\ xchg' \in Calls /\ WholeP' = P' /\ WholeSphP' = SphP'
          /\ xchg'.sph => xchg.sph
          /\ Search' /\ KeyBeside' /\ Distinct' /\ Divided(Whole, Buffered, Coming, away)'
          /\ Staged' /\ Fits' /\ Permutation' /\ Sorted'
      <3>1. N_gas' = (IF xchg.sph THEN N_gas + k ELSE N_gas)
        BY <1>11, <2>1
      <3> QED BY <1>1, <2>1, <2>3, <2>6, <2>7, <2>8, <3>1, ReceivedRight DEF Rest
    <2>10. Typed'
      <3>1. NumPart + k \in 0 .. MaxPart /\ N_gas <= NumPart + k
        BY <1>3, <1>6
      <3>2. incoming' \in Seq(Particle)
        BY <1>1
      <3> QED BY <1>1, <1>2, <2>1, <2>3, <2>4, <2>9, <3>1, <3>2 DEF Typed, Slot, SphSlot
    <2>11. /\ UsedSph' = UsedSph /\ OtherSlots' = N_gas .. NumPart + k - 1
      <3>1. NumPart + k - 1 = (NumPart + k) - 1
        BY <1>3
      <3> QED BY <2>1, <3>1 DEF UsedSph, OtherSlots
    <2>12. \A i \in UsedSph : P'[i] \in Gas /\ SphP'[i] = P'[i]
      <3>1. \A i \in UsedSph : i \in 0 .. N_gas - 1 /\ i \in 0 .. NumPart - 1
        BY <1>3 DEF UsedSph
      <3> QED BY <1>9, <2>1, <2>3, <3>1
    <2>13. \A i \in N_gas .. NumPart + k - 1 : P'[i] \in Other
      <3> SUFFICES ASSUME NEW i \in N_gas .. NumPart + k - 1 PROVE P'[i] \in Other
        OBVIOUS
      <3>1. CASE i < NumPart
        <4>1. i \in 0 .. NumPart - 1 /\ i \in N_gas .. NumPart - 1
          BY <1>3, <3>1
        <4> QED BY <1>9, <2>3, <4>1
      <3>2. CASE i >= NumPart
        <4>1. i \in NumPart .. NumPart + k - 1
          BY <1>3, <3>2
        <4> QED BY <1>6, <1>11, <2>3, <2>5, <4>1 DEF OfKind
      <3> QED BY <1>3, <3>1, <3>2
    <2>14. GasInFront'
      BY <2>9, <2>11, <2>12, <2>13 DEF GasInFront
    <2>15. SphBeside'
      BY <1>11, <2>9, <2>11, <2>12 DEF SphBeside
    <2> QED BY <2>9, <2>10, <2>14, <2>15 DEF IInv
  <1> QED BY <1>10, <1>11

(* What a step of a permutation starts from.                               *)
LEMMA OrderingBasics ==
  ASSUME IInv, phase \in Ordering
  PROVE  /\ xchg = NoXchg /\ incoming = <<>> /\ NothingBuffered
         /\ BlockStart \in Nat /\ BlockEnd \in Nat
         /\ phase = "reorder_gas" => Block = UsedSph
         /\ phase # "reorder_gas" => Block = OtherSlots
         /\ Block \subseteq Used
         /\ perm.i \in Nat /\ perm.i >= BlockStart /\ perm.i <= BlockEnd
         /\ perm.Id \in [Block -> Block] /\ perm.inside \in BOOLEAN /\ perm.dest \in Nat
         /\ perm.Psource \in Content /\ perm.SphPsource \in Content
         /\ perm.inside => perm.i \in Block /\ perm.dest \in Block
         /\ perm.i < BlockEnd => perm.i \in Block
  <1>1. /\ NumPart \in Nat /\ N_gas \in Nat /\ N_gas <= NumPart
        /\ Used = UsedSph \cup OtherSlots
    BY Basics DEF IInv
  <1>2. BlockStart \in Nat /\ BlockEnd \in Nat
    BY <1>1 DEF BlockStart, BlockEnd
  <1>3. /\ phase = "reorder_gas" => Block = UsedSph
        /\ phase # "reorder_gas" => Block = OtherSlots
    BY DEF Block, BlockStart, BlockEnd, UsedSph, OtherSlots
  <1>4. xchg = NoXchg /\ incoming = <<>> /\ NothingBuffered
    BY DEF IInv, Staged, Moving, Ordering
  <1>5. /\ perm \in [i : Nat, Id : [Block -> Block], inside : BOOLEAN, Psource : Content,
                     SphPsource : Content, dest : Nat]
        /\ perm.i \in BlockStart .. BlockEnd
        /\ perm.inside => perm.i \in Block /\ perm.dest \in Block
    BY DEF IInv, Permutation
  <1>6. /\ perm.Id \in [Block -> Block] /\ perm.inside \in BOOLEAN /\ perm.dest \in Nat
        /\ perm.Psource \in Content /\ perm.SphPsource \in Content
    BY <1>5
  <1>7. perm.i \in Nat /\ perm.i >= BlockStart /\ perm.i <= BlockEnd
    BY <1>2, <1>5
  <1>8. perm.i < BlockEnd => perm.i \in Block
    BY <1>2, <1>7 DEF Block
  <1> QED BY <1>1, <1>2, <1>3, <1>4, <1>5, <1>6, <1>7, <1>8

(* An exchange of elements inside the block keeps what is said about the   *)
(* whole arrays.                                                           *)
LEMMA SwappedKeeps ==
  ASSUME IInv, phase \in Ordering, phase' = phase,
         UNCHANGED <<Key, NumPart, N_gas, away, incoming, bufs, xchg>>,
         P' \in [Slot -> Content], SphP' \in [SphSlot -> Content],
         NEW sw \in [Used -> Used],
         \A a \in Used : sw[sw[a]] = a,
         \A a \in Used : a \in Block <=> sw[a] \in Block,
         \A a \in Used : a \notin Block => sw[a] = a,
         \A a \in Used : WholeP'[a] = WholeP[sw[a]],
         \A a \in UsedSph : WholeSphP'[a] = WholeSphP[sw[a]]
  PROVE  /\ Typed' /\ Staged' /\ Fits' /\ Search'
         /\ GasInFront' /\ SphBeside' /\ KeyBeside'
         /\ Distinct' /\ Divided(Whole, Buffered, Coming, away)'
  <1>1. /\ Used = UsedSph \cup OtherSlots /\ UsedSph \cap OtherSlots = {}
    BY Basics DEF IInv
  <1>2. /\ phase = "reorder_gas" => Block = UsedSph
        /\ phase # "reorder_gas" => Block = OtherSlots
        /\ xchg = NoXchg /\ incoming = <<>> /\ NothingBuffered
    BY OrderingBasics
  <1>3. Used' = Used /\ UsedSph' = UsedSph /\ OtherSlots' = OtherSlots
    BY DEF Used, UsedSph, OtherSlots
  <1>4. \A a \in Used : (a \in UsedSph <=> sw[a] \in UsedSph) /\ (a \in OtherSlots <=> sw[a] \in OtherSlots)
    BY <1>1, <1>2
  <1>5. GasInFront'
    BY <1>1, <1>3, <1>4 DEF IInv, GasInFront
  <1>6. SphBeside'
    <2>1. \A a \in UsedSph : WholeSphP'[a] = WholeP'[a]
      BY <1>1, <1>4 DEF IInv, SphBeside
    <2>2. xchg'.sph = FALSE
      BY <1>2 DEF NoXchg
    <2> QED BY <1>3, <2>1, <2>2 DEF SphBeside
  <1>7. KeyBeside' /\ Search'
    BY DEF KeyBeside, Search, Ordering
  <1>8. Typed'
    BY DEF IInv, Typed, Slot, SphSlot, bufs
  <1>9. Staged'
    BY <1>2 DEF IInv, Staged, NothingBuffered, Moving, Ordering, bufs
  <1>10. Coming' = Coming /\ Buffered' = Buffered
    BY DEF Coming, Buffered, bufs
  <1>11. Fits'
    BY <1>10 DEF IInv, Fits, Ordering, bufs, OfKind
  <1>12. Whole' = Whole
    <2>1. \A a \in Used : WholeP'[a] \in Whole
      BY DEF Whole
    <2>2. \A q \in Used : WholeP[q] = WholeP'[sw[q]] /\ sw[q] \in Used
      OBVIOUS
    <2>3. Whole' = {WholeP'[a] : a \in Used}
      BY <1>3 DEF Whole
    <2>4. \A q \in Used : WholeP[q] \in Whole'
      BY <2>2, <2>3
    <2> QED BY <2>1, <2>3, <2>4 DEF Whole
  <1>13. Divided(Whole, Buffered, Coming, away)'
    BY <1>10, <1>12 DEF IInv, Divided
  <1>14. Distinct'
    <2>1. \A a, b \in Used : a # b => sw[a] # sw[b]
      OBVIOUS
    <2>2. \A a, b \in Used : a # b => WholeP'[a] # WholeP'[b]
      BY <2>1 DEF IInv, Distinct
    <2> QED BY <1>3, <2>2 DEF IInv, Distinct, bufs
  <1> QED BY <1>5, <1>6, <1>7, <1>8, <1>9, <1>11, <1>13, <1>14

LEMMA OrderGasKeeps == IInv /\ OrderGas => IInv'
  <1> SUFFICES ASSUME IInv, OrderGas PROVE IInv'
    OBVIOUS
  <1> USE Constants
  <1>1. PICK Id \in Sorting(UsedSph) : perm' = [NoPerm EXCEPT !.Id = Id]
    BY DEF OrderGas
  <1>2. /\ phase = "exchange" /\ phase' = "reorder_gas"
        /\ UNCHANGED <<P, Key, SphP, NumPart, N_gas, away, incoming, bufs, xchg>>
    BY DEF OrderGas, arrays
  <1>3. xchg = NoXchg /\ incoming = <<>> /\ NothingBuffered /\ perm = NoPerm
    BY <1>2 DEF IInv, Staged, Moving, Ordering
  <1>4. /\ perm' = [i |-> 0, Id |-> Id, inside |-> FALSE, Psource |-> NoParticle,
                    SphPsource |-> NoParticle, dest |-> 0]
    BY <1>1 DEF NoPerm
  <1>5. WholeP = P /\ WholeSphP = SphP /\ WholeP' = P /\ WholeSphP' = SphP
    BY <1>2, <1>3, <1>4 DEF WholeP, WholeSphP, NoPerm
  <1>6. /\ NumPart \in Nat /\ N_gas \in Nat /\ N_gas <= NumPart
        /\ Used = UsedSph \cup OtherSlots
    BY Basics DEF IInv
  <1>7. Used' = Used /\ UsedSph' = UsedSph /\ OtherSlots' = OtherSlots /\ Block' = UsedSph /\ BlockStart' = 0
        /\ BlockEnd' = N_gas
    BY <1>2 DEF Used, UsedSph, OtherSlots, Block, BlockStart, BlockEnd
  <1>8. Whole' = Whole /\ Coming' = Coming /\ Buffered' = Buffered
    BY <1>2, <1>5, <1>7 DEF Whole, Coming, Buffered, bufs
  <1>9. Typed'
    BY <1>2 DEF IInv, Typed, Slot, SphSlot, bufs
  <1>10. Staged'
    BY <1>2, <1>3 DEF Staged, NothingBuffered, Moving, Ordering, bufs
  <1>11. Fits' /\ Search' /\ KeyBeside'
    BY <1>2, <1>8 DEF IInv, Fits, Search, KeyBeside, OfKind
  <1>12. GasInFront' /\ SphBeside'
    BY <1>2, <1>5, <1>7 DEF IInv, GasInFront, SphBeside, bufs
  <1>13. Distinct' /\ Divided(Whole, Buffered, Coming, away)'
    BY <1>2, <1>5, <1>7, <1>8 DEF IInv, Distinct, Divided, bufs
  <1>14. /\ Id \in [UsedSph -> UsedSph]
         /\ \A a, b \in UsedSph : Key[a] < Key[b] => Id[a] < Id[b]
    BY DEF Sorting
  <1>15. Permutation'
    <2>1. NoParticle \in Content /\ 0 \in 0 .. N_gas
      BY <1>6 DEF Content
    <2> QED BY <1>4, <1>7, <1>14, <2>1 DEF Permutation
  <1>16. Sorted'
    <2>1. \A a \in Used : Key[a] = KeyOf[P[a]]
      BY <1>2 DEF IInv, KeyBeside
    <2>2. \A a, b \in UsedSph : KeyOf[WholeP'[a]] < KeyOf[WholeP'[b]] => Id[a] < Id[b]
      BY <1>5, <1>6, <1>14, <2>1
    <2>3. \A j : Target(j)' = Id[j]
      BY <1>4 DEF Target
    <2>4. \A j \in UsedSph : ~(j < perm'.i)
      BY <1>4, <1>6 DEF UsedSph
    <2>5. \A a \in OtherSlots : Key'[a] = KeyOf[P'[a]]
      BY <1>2, <1>6, <2>1
    <2> QED BY <1>2, <1>7, <2>2, <2>3, <2>4, <2>5 DEF Sorted
  <1> QED BY <1>9, <1>10, <1>11, <1>12, <1>13, <1>15, <1>16 DEF IInv

(* Nothing is moved, and the whole arrays stay what they are.              *)
LEMMA UnmovedKeeps ==
  ASSUME IInv, phase \in Ordering, phase' = phase,
         UNCHANGED <<P, Key, SphP, NumPart, N_gas, away, incoming, bufs, xchg>>,
         WholeP' = WholeP, WholeSphP' = WholeSphP
  PROVE  /\ Typed' /\ Staged' /\ Fits' /\ Search'
         /\ GasInFront' /\ SphBeside' /\ KeyBeside'
         /\ Distinct' /\ Divided(Whole, Buffered, Coming, away)'
         /\ Block' = Block /\ BlockStart' = BlockStart /\ BlockEnd' = BlockEnd
         /\ UsedSph' = UsedSph /\ OtherSlots' = OtherSlots
  <1> DEFINE sw == [a \in Used |-> a]
  <1>1. sw \in [Used -> Used] /\ \A a \in Used : sw[a] = a
    OBVIOUS
  <1>2. UsedSph \subseteq Used
    BY Basics DEF IInv
  <1>3. P' \in [Slot -> Content] /\ SphP' \in [SphSlot -> Content]
    BY DEF IInv, Typed
  <1> HIDE DEF sw
  <1>4. \A a \in Used : sw[sw[a]] = a /\ (a \in Block <=> sw[a] \in Block) /\ (a \notin Block => sw[a] = a)
    BY <1>1
  <1>5. \A a \in Used : WholeP'[a] = WholeP[sw[a]]
    BY <1>1
  <1>6. \A a \in UsedSph : WholeSphP'[a] = WholeSphP[sw[a]]
    BY <1>1, <1>2
  <1>7. /\ Typed' /\ Staged' /\ Fits' /\ Search'
        /\ GasInFront' /\ SphBeside' /\ KeyBeside'
        /\ Distinct' /\ Divided(Whole, Buffered, Coming, away)'
    BY <1>1, <1>3, <1>4, <1>5, <1>6, SwappedKeeps
  <1> QED BY <1>7 DEF Block, BlockStart, BlockEnd, UsedSph, OtherSlots

LEMMA InPlaceKeeps == IInv /\ InPlace => IInv'
  <1> SUFFICES ASSUME IInv, InPlace PROVE IInv'
    OBVIOUS
  <1>1. /\ phase \in Ordering /\ phase' = phase /\ ~perm.inside /\ perm.i < BlockEnd
        /\ perm.Id[perm.i] = perm.i /\ perm' = [perm EXCEPT !.i = @ + 1]
        /\ UNCHANGED <<P, Key, SphP, NumPart, N_gas, away, incoming, bufs, xchg>>
    BY DEF InPlace, Permuting, Ordering, arrays
  <1>2. perm \in [i : Nat, Id : [Block -> Block], inside : BOOLEAN, Psource : Content,
                  SphPsource : Content, dest : Nat]
    BY <1>1 DEF IInv, Permutation
  <1>3. /\ BlockStart \in Nat /\ BlockEnd \in Nat /\ perm.i \in Nat /\ perm.i >= BlockStart
    BY <1>1, OrderingBasics
  <1>4. /\ perm'.i = perm.i + 1 /\ perm'.Id = perm.Id /\ perm'.inside = FALSE /\ perm'.dest = perm.dest
        /\ perm' \in [i : Nat, Id : [Block -> Block], inside : BOOLEAN, Psource : Content,
                      SphPsource : Content, dest : Nat]
    BY <1>1, <1>2, <1>3
  <1>5. WholeP' = WholeP /\ WholeSphP' = WholeSphP
    BY <1>1, <1>4 DEF WholeP, WholeSphP
  <1>6. /\ Typed' /\ Staged' /\ Fits' /\ Search'
        /\ GasInFront' /\ SphBeside' /\ KeyBeside'
        /\ Distinct' /\ Divided(Whole, Buffered, Coming, away)'
        /\ Block' = Block /\ BlockStart' = BlockStart /\ BlockEnd' = BlockEnd
        /\ UsedSph' = UsedSph /\ OtherSlots' = OtherSlots
    BY <1>1, <1>5, UnmovedKeeps
  <1>7. Permutation'
    <2>1. perm.i + 1 \in BlockStart .. BlockEnd
      BY <1>1, <1>3
    <2> QED BY <1>4, <1>6, <2>1 DEF Permutation
  <1>8. Sorted'
    <2>1. \A j : Target(j)' = perm.Id[j] /\ Target(j) = perm.Id[j]
      BY <1>1, <1>4 DEF Target
    <2>2. \A j \in Block : j < perm.i + 1 => perm.Id[j] = j
      <3>1. \A j \in Block : j < perm.i + 1 => j < perm.i \/ j = perm.i
        BY <1>3 DEF Block
      <3> QED BY <1>1, <3>1 DEF IInv, Sorted
    <2>3. phase = "reorder_particles" => InOrder(UsedSph)'
      BY <1>1, <1>6 DEF IInv, Sorted, InOrder
    <2> QED BY <1>1, <1>4, <1>5, <1>6, <2>1, <2>2, <2>3 DEF IInv, Sorted
  <1> QED BY <1>6, <1>7, <1>8 DEF IInv

LEMMA StartCycleKeeps == IInv /\ StartCycle => IInv'
  <1> SUFFICES ASSUME IInv, StartCycle PROVE IInv'
    OBVIOUS
  <1> DEFINE i == perm.i
  <1>1. /\ phase \in Ordering /\ phase' = phase /\ ~perm.inside /\ i < BlockEnd
        /\ perm' = [perm EXCEPT !.inside = TRUE, !.Psource = P[i], !.dest = perm.Id[i],
                                !.SphPsource = IF phase = "reorder_gas" THEN SphP[i] ELSE @]
        /\ UNCHANGED <<P, Key, SphP, NumPart, N_gas, away, incoming, bufs, xchg>>
    BY DEF StartCycle, Permuting, Ordering, arrays
  <1>2. perm \in [i : Nat, Id : [Block -> Block], inside : BOOLEAN, Psource : Content,
                  SphPsource : Content, dest : Nat]
    BY <1>1 DEF IInv, Permutation
  <1>3. /\ BlockStart \in Nat /\ i \in Block /\ Block \subseteq Used /\ (phase = "reorder_gas" => Block = UsedSph)
        /\ i \in BlockStart .. BlockEnd
    BY <1>1, OrderingBasics
  <1>4. /\ P \in [Slot -> Content] /\ SphP \in [SphSlot -> Content] /\ Used \subseteq Slot /\ UsedSph \subseteq SphSlot
    BY Basics DEF IInv, Typed
  <1>5. P[i] \in Content /\ (phase = "reorder_gas" => SphP[i] \in Content) /\ perm.Id[i] \in Block /\ perm.Id[i] \in Nat
    <2>1. \A x \in Block : x \in Nat
      BY <1>3 DEF Block
    <2> QED BY <1>2, <1>3, <1>4, <2>1
  <1>6. /\ perm'.i = i /\ perm'.Id = perm.Id /\ perm'.inside = TRUE /\ perm'.dest = perm.Id[i]
        /\ perm'.Psource = P[i] /\ (phase = "reorder_gas" => perm'.SphPsource = SphP[i])
        /\ perm' \in [i : Nat, Id : [Block -> Block], inside : BOOLEAN, Psource : Content,
                      SphPsource : Content, dest : Nat]
    BY <1>1, <1>2, <1>5
  <1>7. WholeP' = WholeP /\ WholeSphP' = WholeSphP
    <2>1. [P EXCEPT ![i] = P[i]] = P /\ [SphP EXCEPT ![i] = SphP[i]] = SphP
      BY <1>4
    <2>2. WholeP' = [P EXCEPT ![i] = P[i]] /\ WholeP = P
      BY <1>1, <1>6 DEF WholeP
    <2>3. WholeSphP' = (IF phase = "reorder_gas" THEN [SphP EXCEPT ![i] = SphP[i]] ELSE SphP) /\ WholeSphP = SphP
      BY <1>1, <1>6 DEF WholeSphP
    <2> QED BY <2>1, <2>2, <2>3
  <1>8. /\ Typed' /\ Staged' /\ Fits' /\ Search'
        /\ GasInFront' /\ SphBeside' /\ KeyBeside'
        /\ Distinct' /\ Divided(Whole, Buffered, Coming, away)'
        /\ Block' = Block /\ BlockStart' = BlockStart /\ BlockEnd' = BlockEnd
        /\ UsedSph' = UsedSph /\ OtherSlots' = OtherSlots
    BY <1>1, <1>7, UnmovedKeeps
  <1>9. Permutation'
    BY <1>3, <1>5, <1>6, <1>8 DEF Permutation
  <1>10. Sorted'
    <2>1. \A j : Target(j)' = perm.Id[j] /\ Target(j) = perm.Id[j]
      BY <1>1, <1>6 DEF Target
    <2>2. phase = "reorder_particles" => InOrder(UsedSph)'
      BY <1>1, <1>8 DEF IInv, Sorted, InOrder
    <2> QED BY <1>1, <1>6, <1>7, <1>8, <2>1, <2>2 DEF IInv, Sorted
  <1> QED BY <1>8, <1>9, <1>10 DEF IInv

(* An element goes to its place: in the whole arrays it changes places     *)
(* with the element that was there.                                        *)
LEMMA PlaceKeeps == IInv /\ Place => IInv'
  <1> SUFFICES ASSUME IInv, Place PROVE IInv'
    OBVIOUS
  <1> DEFINE i == perm.i
             d == perm.dest
             sw == [a \in Used |-> IF a = i THEN d ELSE IF a = d THEN i ELSE a]
             Permutations == [i : Nat, Id : [Block -> Block], inside : BOOLEAN, Psource : Content,
                              SphPsource : Content, dest : Nat]
  <1>1. /\ phase \in Ordering /\ phase' = phase /\ perm.inside
        /\ P' = [P EXCEPT ![d] = perm.Psource]
        /\ SphP' = IF phase = "reorder_gas" THEN [SphP EXCEPT ![d] = perm.SphPsource] ELSE SphP
        /\ UNCHANGED <<Key, NumPart, N_gas, away, incoming, bufs, xchg>>
    BY DEF Place, Permuting, Ordering
  <1>2. perm \in Permutations
    BY <1>1 DEF IInv, Permutation
  <1>3. /\ BlockStart \in Nat /\ BlockEnd \in Nat /\ i \in Block /\ d \in Block /\ Block \subseteq Used
        /\ (phase = "reorder_gas" => Block = UsedSph) /\ (phase # "reorder_gas" => Block = OtherSlots)
        /\ i \in Nat /\ i >= BlockStart
        /\ perm.Psource \in Content /\ perm.SphPsource \in Content /\ perm.Id \in [Block -> Block]
    BY <1>1, OrderingBasics
  <1>4. /\ P \in [Slot -> Content] /\ SphP \in [SphSlot -> Content] /\ Used \subseteq Slot /\ UsedSph \subseteq SphSlot
        /\ Used = UsedSph \cup OtherSlots /\ UsedSph \cap OtherSlots = {}
    BY Basics DEF IInv, Typed
  <1>5. i \in Slot /\ d \in Slot /\ (phase = "reorder_gas" => i \in SphSlot /\ d \in SphSlot)
    BY <1>3, <1>4
  <1>6. P' \in [Slot -> Content] /\ SphP' \in [SphSlot -> Content]
    BY <1>1, <1>3, <1>4, <1>5
  <1>7. \A x \in Block : x \in Nat /\ x >= BlockStart /\ x < BlockEnd
    BY <1>3 DEF Block
  <1>8. \A j : Target(j) = IF j = i THEN d ELSE perm.Id[j]
    BY <1>1 DEF Target
  <1>9. WholeP = [P EXCEPT ![i] = perm.Psource]
    BY <1>1 DEF WholeP
  <1>10. WholeSphP = IF phase = "reorder_gas" THEN [SphP EXCEPT ![i] = perm.SphPsource] ELSE SphP
    BY <1>1 DEF WholeSphP
  <1>11. \A a \in Used : sw[a] = IF a = i THEN d ELSE IF a = d THEN i ELSE a
    OBVIOUS
  <1>12. sw \in [Used -> Used]
    BY <1>3
  <1> HIDE DEF sw
  <1>13. \A a \in Used : sw[sw[a]] = a /\ (a \in Block <=> sw[a] \in Block) /\ (a \notin Block => sw[a] = a)
    BY <1>3, <1>11, <1>12
  <1>14. ASSUME NEW i2 \in {i, i + 1}, perm'.i = i2, perm' \in Permutations,
                \A j \in Block : j < i2 => perm'.Id[j] = j,
                i2 \in BlockStart .. BlockEnd,
                perm'.inside => i2 \in Block /\ perm'.dest \in Block,
                \A a \in Used : WholeP'[a] = WholeP[sw[a]],
                \A a \in UsedSph : WholeSphP'[a] = WholeSphP[sw[a]],
                \A j \in Block : Target(j)' = Target(sw[j])
         PROVE  IInv'
    <2>1. /\ Typed' /\ Staged' /\ Fits' /\ Search'
          /\ GasInFront' /\ SphBeside' /\ KeyBeside'
          /\ Distinct' /\ Divided(Whole, Buffered, Coming, away)'
      BY <1>1, <1>6, <1>12, <1>13, <1>14, SwappedKeeps
    <2>2. /\ Block' = Block /\ BlockStart' = BlockStart /\ BlockEnd' = BlockEnd
          /\ UsedSph' = UsedSph /\ OtherSlots' = OtherSlots
      BY <1>1 DEF Block, BlockStart, BlockEnd, UsedSph, OtherSlots
    <2>3. Permutation'
      BY <1>14, <2>2 DEF Permutation
    <2>4. Sorted'
      <3>1. \A a, b \in Block : KeyOf[WholeP'[a]] < KeyOf[WholeP'[b]] => Target(a)' < Target(b)'
        <4> SUFFICES ASSUME NEW a \in Block, NEW b \in Block, KeyOf[WholeP'[a]] < KeyOf[WholeP'[b]]
                     PROVE  Target(a)' < Target(b)'
          OBVIOUS
        <4>1. sw[a] \in Block /\ sw[b] \in Block /\ a \in Used /\ b \in Used
          BY <1>3, <1>13
        <4>2. KeyOf[WholeP[sw[a]]] < KeyOf[WholeP[sw[b]]]
          BY <1>14, <4>1
        <4>3. Target(sw[a]) < Target(sw[b])
          BY <1>1, <4>1, <4>2 DEF IInv, Sorted
        <4> QED BY <1>14, <4>3
      <3>2. phase = "reorder_gas" => \A a \in OtherSlots : Key'[a] = KeyOf[P'[a]]
        <4> SUFFICES ASSUME phase = "reorder_gas", NEW a \in OtherSlots PROVE Key'[a] = KeyOf[P'[a]]
          OBVIOUS
        <4>1. a # d /\ a \in Slot
          BY <1>3, <1>4
        <4>2. P'[a] = P[a]
          BY <1>1, <1>4, <4>1
        <4> QED BY <1>1, <4>2 DEF IInv, Sorted
      <3>3. phase = "reorder_particles" => InOrder(UsedSph)'
        <4> SUFFICES ASSUME phase = "reorder_particles" PROVE InOrder(UsedSph)'
          OBVIOUS
        <4>1. \A a \in UsedSph : a # d /\ a \in Slot
          BY <1>3, <1>4
        <4>2. \A a \in UsedSph : P'[a] = P[a]
          BY <1>1, <1>4, <4>1
        <4> QED BY <1>1, <2>2, <4>2 DEF IInv, Sorted, InOrder
      <3> QED BY <1>1, <1>14, <2>2, <3>1, <3>2, <3>3 DEF Sorted
    <2> QED BY <2>1, <2>3, <2>4 DEF IInv
  <1>15. CASE d = i
    <2>1. perm' = [i |-> i + 1, Id |-> [perm.Id EXCEPT ![i] = i], inside |-> FALSE, Psource |-> NoParticle,
                   SphPsource |-> NoParticle, dest |-> 0]
      BY <1>15 DEF Place, NoPerm
    <2>2. NoParticle \in Content
      BY DEF Content
    <2>3. [perm.Id EXCEPT ![i] = i] \in [Block -> Block]
      BY <1>3
    <2>4. perm' \in Permutations /\ perm'.i = i + 1 /\ perm'.inside = FALSE
      BY <1>3, <2>1, <2>2, <2>3
    <2>5. \A j \in Block : perm'.Id[j] = IF j = i THEN i ELSE perm.Id[j]
      BY <1>3, <2>1
    <2>6. \A j : Target(j)' = perm'.Id[j]
      BY <2>4 DEF Target
    <2>7. \A a \in Used : sw[a] = a
      BY <1>11, <1>15
    <2>8. WholeP' = WholeP
      BY <1>1, <1>9, <1>15, <2>4 DEF WholeP
    <2>9. WholeSphP' = WholeSphP
      BY <1>1, <1>10, <1>15, <2>4 DEF WholeSphP
    <2>10. \A j \in Block : Target(j)' = Target(sw[j])
      BY <1>3, <1>8, <1>15, <2>5, <2>6, <2>7
    <2>11. \A j \in Block : j < i + 1 => perm'.Id[j] = j
      <3>1. \A j \in Block : j < i + 1 => j < i \/ j = i
        BY <1>3, <1>7
      <3>2. \A j \in Block : j < i => perm.Id[j] = j
        BY <1>1 DEF IInv, Sorted
      <3> QED BY <2>5, <3>1, <3>2
    <2>12. i + 1 \in BlockStart .. BlockEnd
      BY <1>3, <1>7
    <2>13. \A a \in UsedSph : WholeSphP'[a] = WholeSphP[sw[a]]
      BY <1>4, <2>7, <2>9
    <2> QED BY <1>14, <2>4, <2>7, <2>8, <2>10, <2>11, <2>12, <2>13
  <1>16. CASE d # i
    <2>1. perm' = [perm EXCEPT !.Id[d] = d, !.dest = perm.Id[d], !.Psource = P[d],
                               !.SphPsource = IF phase = "reorder_gas" THEN SphP[d] ELSE @]
      BY <1>16 DEF Place
    <2>2. P[d] \in Content /\ (phase = "reorder_gas" => SphP[d] \in Content)
      BY <1>4, <1>5
    <2>3. [perm.Id EXCEPT ![d] = d] \in [Block -> Block] /\ perm.Id[d] \in Block /\ perm.Id[d] \in Nat
      BY <1>3, <1>7
    <2>4. /\ perm'.i = i /\ perm'.inside = TRUE /\ perm'.dest = perm.Id[d] /\ perm'.Psource = P[d]
          /\ (phase = "reorder_gas" => perm'.SphPsource = SphP[d])
          /\ perm'.Id = [perm.Id EXCEPT ![d] = d]
      BY <1>1, <1>2, <2>1
    <2>5. perm' \in Permutations
      BY <1>2, <2>1, <2>2, <2>3
    <2>6. \A j \in Block : perm'.Id[j] = IF j = d THEN d ELSE perm.Id[j]
      BY <1>3, <2>4
    <2>7. \A j : Target(j)' = IF j = i THEN perm.Id[d] ELSE perm'.Id[j]
      BY <2>4 DEF Target
    <2>8. \A j \in Block : Target(j)' = Target(sw[j])
      BY <1>3, <1>8, <1>11, <1>16, <2>6, <2>7
    <2>9. WholeP' = [P' EXCEPT ![i] = P[d]]
      BY <2>4 DEF WholeP
    <2>10. \A a \in Used : WholeP'[a] = WholeP[sw[a]]
      <3> SUFFICES ASSUME NEW a \in Used PROVE WholeP'[a] = WholeP[sw[a]]
        OBVIOUS
      <3>1. a \in Slot
        BY <1>4
      <3>2. CASE a = i
        BY <1>4, <1>5, <1>6, <1>9, <1>11, <1>16, <2>9, <3>2
      <3>3. CASE a = d
        BY <1>1, <1>4, <1>5, <1>6, <1>9, <1>11, <1>16, <2>9, <3>3
      <3>4. CASE a # i /\ a # d
        BY <1>1, <1>4, <1>5, <1>6, <1>9, <1>11, <2>9, <3>1, <3>4
      <3> QED BY <3>2, <3>3, <3>4
    <2>11. \A a \in UsedSph : WholeSphP'[a] = WholeSphP[sw[a]]
      <3> SUFFICES ASSUME NEW a \in UsedSph PROVE WholeSphP'[a] = WholeSphP[sw[a]]
        OBVIOUS
      <3>1. a \in SphSlot /\ a \in Used
        BY <1>4
      <3>2. CASE phase = "reorder_gas"
        <4>1. /\ WholeSphP' = [SphP' EXCEPT ![i] = SphP[d]]
              /\ WholeSphP = [SphP EXCEPT ![i] = perm.SphPsource]
              /\ SphP' = [SphP EXCEPT ![d] = perm.SphPsource]
          BY <1>1, <1>10, <2>4, <3>2 DEF WholeSphP
        <4>2. CASE a = i
          BY <1>4, <1>5, <1>6, <1>11, <1>16, <3>1, <3>2, <4>1, <4>2
        <4>3. CASE a = d
          BY <1>4, <1>5, <1>6, <1>11, <1>16, <3>1, <3>2, <4>1, <4>3
        <4>4. CASE a # i /\ a # d
          BY <1>4, <1>5, <1>6, <1>11, <3>1, <3>2, <4>1, <4>4
        <4> QED BY <4>2, <4>3, <4>4
      <3>3. CASE phase # "reorder_gas"
        <4>1. WholeSphP' = SphP /\ WholeSphP = SphP
          BY <1>1, <1>10, <3>3 DEF WholeSphP
        <4>2. a \notin Block
          BY <1>3, <1>4, <3>3
        <4> QED BY <1>13, <3>1, <4>1, <4>2
      <3> QED BY <3>2, <3>3
    <2>12. \A j \in Block : j < i => perm'.Id[j] = j
      <3>1. \A j \in Block : j < i => perm.Id[j] = j
        BY <1>1 DEF IInv, Sorted
      <3> QED BY <2>6, <3>1
    <2>13. i \in BlockStart .. BlockEnd
      BY <1>3, <1>7
    <2> QED BY <1>3, <1>14, <2>3, <2>4, <2>5, <2>8, <2>10, <2>11, <2>12, <2>13
  <1> QED BY <1>15, <1>16

(* A block in which every element is at its place is in order.             *)
LEMMA BlockInOrder ==
  ASSUME IInv, phase \in Ordering, ~perm.inside, perm.i = BlockEnd
  PROVE  InOrder(Block) /\ WholeP = P /\ WholeSphP = SphP
  <1>1. WholeP = P /\ WholeSphP = SphP
    BY DEF WholeP, WholeSphP
  <1>2. /\ BlockStart \in Nat /\ BlockEnd \in Nat /\ Block \subseteq Used
    BY OrderingBasics
  <1>3. \A j \in Block : j \in Nat /\ j < perm.i
    BY <1>2 DEF Block
  <1>4. \A j \in Block : Target(j) = j
    BY <1>3 DEF IInv, Sorted, Target
  <1>5. \A j \in Block : KeyOf[P[j]] \in Nat
    <2>1. \A j \in Used : P[j] \in Particle
      BY <1>1, Basics DEF IInv, GasInFront, Particle
    <2> QED BY <1>2, <2>1, Constants
  <1>6. \A a, b \in Block : KeyOf[P[a]] < KeyOf[P[b]] => a < b
    BY <1>1, <1>4 DEF IInv, Sorted
  <1> QED BY <1>1, <1>3, <1>5, <1>6 DEF InOrder

LEMMA OrderOtherKeeps == IInv /\ OrderOther => IInv'
  <1> SUFFICES ASSUME IInv, OrderOther PROVE IInv'
    OBVIOUS
  <1> USE Constants
  <1>1. PICK Id \in Sorting(OtherSlots) : perm' = [NoPerm EXCEPT !.i = N_gas, !.Id = Id]
    BY DEF OrderOther
  <1>2. /\ phase = "reorder_gas" /\ phase' = "reorder_particles" /\ phase \in Ordering
        /\ ~perm.inside /\ perm.i = BlockEnd
        /\ UNCHANGED <<P, Key, SphP, NumPart, N_gas, away, incoming, bufs, xchg>>
    BY DEF OrderOther, arrays, Ordering
  <1>3. xchg = NoXchg /\ incoming = <<>> /\ NothingBuffered /\ Block = UsedSph
    BY <1>2, OrderingBasics
  <1>4. perm' = [i |-> N_gas, Id |-> Id, inside |-> FALSE, Psource |-> NoParticle,
                 SphPsource |-> NoParticle, dest |-> 0]
    BY <1>1 DEF NoPerm
  <1>5. InOrder(UsedSph) /\ WholeP = P /\ WholeSphP = SphP /\ WholeP' = P /\ WholeSphP' = SphP
    <2>1. InOrder(UsedSph) /\ WholeP = P /\ WholeSphP = SphP
      BY <1>2, <1>3, BlockInOrder
    <2> QED BY <1>2, <1>4, <2>1 DEF WholeP, WholeSphP
  <1>6. /\ NumPart \in Nat /\ N_gas \in Nat /\ N_gas <= NumPart
    BY Basics DEF IInv
  <1>7. /\ Used' = Used /\ UsedSph' = UsedSph /\ OtherSlots' = OtherSlots /\ Block' = OtherSlots
        /\ BlockStart' = N_gas /\ BlockEnd' = NumPart
    BY <1>2 DEF Used, UsedSph, OtherSlots, Block, BlockStart, BlockEnd
  <1>8. Whole' = Whole /\ Coming' = Coming /\ Buffered' = Buffered
    BY <1>2, <1>5, <1>7 DEF Whole, Coming, Buffered, bufs
  <1>9. Typed'
    BY <1>2 DEF IInv, Typed, Slot, SphSlot, bufs
  <1>10. Staged'
    BY <1>2, <1>3 DEF Staged, NothingBuffered, Moving, Ordering, bufs
  <1>11. Fits' /\ Search' /\ KeyBeside'
    BY <1>2, <1>8 DEF IInv, Fits, Search, KeyBeside, OfKind
  <1>12. GasInFront' /\ SphBeside'
    BY <1>2, <1>5, <1>7 DEF IInv, GasInFront, SphBeside, bufs
  <1>13. Distinct' /\ Divided(Whole, Buffered, Coming, away)'
    BY <1>2, <1>5, <1>7, <1>8 DEF IInv, Distinct, Divided, bufs
  <1>14. /\ Id \in [OtherSlots -> OtherSlots]
         /\ \A a, b \in OtherSlots : Key[a] < Key[b] => Id[a] < Id[b]
    BY DEF Sorting
  <1>15. Permutation'
    <2>1. NoParticle \in Content /\ N_gas \in N_gas .. NumPart
      BY <1>6 DEF Content
    <2> QED BY <1>4, <1>6, <1>7, <1>14, <2>1 DEF Permutation
  <1>16. Sorted'
    <2>1. \A a \in OtherSlots : Key[a] = KeyOf[P[a]]
      BY <1>2 DEF IInv, Sorted
    <2>2. \A a, b \in OtherSlots : KeyOf[WholeP'[a]] < KeyOf[WholeP'[b]] => Id[a] < Id[b]
      BY <1>5, <1>14, <2>1
    <2>3. \A j : Target(j)' = Id[j]
      BY <1>4 DEF Target
    <2>4. \A j \in OtherSlots : ~(j < perm'.i)
      BY <1>4, <1>6 DEF OtherSlots
    <2>5. InOrder(UsedSph)'
      BY <1>2, <1>5, <1>7 DEF InOrder
    <2> QED BY <1>2, <1>7, <2>2, <2>3, <2>4, <2>5 DEF Sorted
  <1> QED BY <1>9, <1>10, <1>11, <1>12, <1>13, <1>15, <1>16 DEF IInv

LEMMA OrderedKeeps ==
  ASSUME IInv, Ordered
  PROVE  IInv' /\ InOrder(UsedSph) /\ InOrder(OtherSlots)
  <1>1. /\ phase = "reorder_particles" /\ phase' = "idle" /\ phase \in Ordering
        /\ ~perm.inside /\ perm.i = BlockEnd /\ perm' = NoPerm
        /\ UNCHANGED <<P, Key, SphP, NumPart, N_gas, away, incoming, bufs, xchg>>
    BY DEF Ordered, arrays, Ordering
  <1>2. xchg = NoXchg /\ incoming = <<>> /\ NothingBuffered /\ Block = OtherSlots
    BY <1>1, OrderingBasics
  <1>3. InOrder(OtherSlots) /\ WholeP = P /\ WholeSphP = SphP
    BY <1>1, <1>2, BlockInOrder
  <1>4. InOrder(UsedSph)
    BY <1>1 DEF IInv, Sorted
  <1>5. WholeP' = P /\ WholeSphP' = SphP
    BY <1>1 DEF WholeP, WholeSphP, NoPerm
  <1>6. /\ Used' = Used /\ UsedSph' = UsedSph /\ OtherSlots' = OtherSlots
    BY <1>1 DEF Used, UsedSph, OtherSlots
  <1>7. Whole' = Whole /\ Coming' = Coming /\ Buffered' = Buffered
    BY <1>1, <1>3, <1>5, <1>6 DEF Whole, Coming, Buffered, bufs
  <1>8. Typed'
    BY <1>1 DEF IInv, Typed, Slot, SphSlot, bufs
  <1>9. Staged'
    BY <1>1, <1>2 DEF Staged, NothingBuffered, Moving, Ordering, bufs
  <1>10. Fits' /\ Search' /\ KeyBeside' /\ Permutation' /\ Sorted'
    BY <1>1, <1>7 DEF IInv, Fits, Search, KeyBeside, OfKind, Permutation, Sorted, Ordering
  <1>11. GasInFront' /\ SphBeside'
    BY <1>1, <1>3, <1>5, <1>6 DEF IInv, GasInFront, SphBeside, bufs
  <1>12. Distinct' /\ Divided(Whole, Buffered, Coming, away)'
    BY <1>1, <1>3, <1>5, <1>6, <1>7 DEF IInv, Distinct, Divided, bufs
  <1> QED BY <1>3, <1>4, <1>8, <1>9, <1>10, <1>11, <1>12 DEF IInv

LEMMA StutteringKeeps == IInv /\ UNCHANGED vars => IInv'
  <1> SUFFICES ASSUME IInv, UNCHANGED vars PROVE IInv'
    OBVIOUS
  <1>1. UNCHANGED <<P, Key, SphP, NumPart, N_gas, away, incoming, bufs, xchg, perm, phase>>
    BY DEF vars, arrays
  <1>2. /\ WholeP' = WholeP /\ WholeSphP' = WholeSphP
        /\ Used' = Used /\ UsedSph' = UsedSph /\ OtherSlots' = OtherSlots
        /\ Buffered' = Buffered /\ Coming' = Coming
        /\ GasInFront' = GasInFront /\ Distinct' = Distinct
        /\ Divided(Whole, Buffered, Coming, away)' = Divided(Whole, Buffered, Coming, away)
    BY <1>1, SameArrays
  <1>3. Block' = Block /\ BlockStart' = BlockStart /\ BlockEnd' = BlockEnd /\ \A j : Target(j)' = Target(j)
    BY <1>1 DEF Block, BlockStart, BlockEnd, Target
  <1>4. Typed' /\ Staged'
    BY <1>1 DEF IInv, Typed, Slot, SphSlot, Staged, NothingBuffered, Moving, Ordering, bufs
  <1>5. Fits' /\ Search'
    BY <1>1, <1>2 DEF IInv, Fits, Search, OfKind, bufs
  <1>6. SphBeside' /\ KeyBeside'
    BY <1>1, <1>2 DEF IInv, SphBeside, KeyBeside, Keys, bufs
  <1>7. Permutation'
    BY <1>1, <1>3 DEF IInv, Permutation, Ordering
  <1>8. Sorted'
    BY <1>1, <1>2, <1>3 DEF IInv, Sorted, InOrder, Ordering
  <1> QED BY <1>2, <1>4, <1>5, <1>6, <1>7, <1>8 DEF IInv

LEMMA NextKeeps == IInv /\ [Next]_vars => IInv'
  <1> SUFFICES ASSUME IInv, [Next]_vars PROVE IInv'
    OBVIOUS
  <1>1. CASE ComputeKeys
    BY <1>1, ComputeKeysKeeps
  <1>2. CASE Exchange
    BY <1>2, ExchangeKeeps
  <1>3. CASE Skip
    BY <1>3, SkipKeeps
  <1>4. CASE CollectGas
    BY <1>4, CollectGasKeeps
  <1>5. CASE CollectOther
    BY <1>5, CollectOtherKeeps
  <1>6. CASE Collected
    BY <1>6, CollectedKeeps
  <1>7. CASE Send
    BY <1>7, SendKeeps
  <1>8. CASE Receive
    BY <1>8, ReceiveKeeps
  <1>9. CASE OrderGas
    BY <1>9, OrderGasKeeps
  <1>10. CASE InPlace
    BY <1>10, InPlaceKeeps
  <1>11. CASE StartCycle
    BY <1>11, StartCycleKeeps
  <1>12. CASE Place
    BY <1>12, PlaceKeeps
  <1>13. CASE OrderOther
    BY <1>13, OrderOtherKeeps
  <1>14. CASE Ordered
    BY <1>14, OrderedKeeps
  <1>15. CASE UNCHANGED vars
    BY <1>15, StutteringKeeps
  <1> QED BY <1>1, <1>2, <1>3, <1>4, <1>5, <1>6, <1>7, <1>8, <1>9, <1>10, <1>11, <1>12, <1>13,
             <1>14, <1>15 DEF Next

(* The inductive invariant holds in every state of the particle arrays.    *)
THEOREM Invariance == Spec => []IInv
  BY StartsRight, NextKeeps, PTL DEF Spec

(* Every element of the arrays and buffers has its type, and the counts    *)
(* stay within the arrays, whatever an exchange brings.                    *)
THEOREM TypeCorrect == Spec => []TypeOK
  <1>1. IInv => TypeOK
    <2> SUFFICES ASSUME IInv PROVE TypeOK
      OBVIOUS
    <2>1. Typed /\ Staged
      BY DEF IInv
    <2>2. phase \in {"idle", "exchange", "collect", "receive", "send", "endrun",
                     "reorder_gas", "reorder_particles"}
      BY <2>1 DEF Staged, Moving, Ordering
    <2> QED BY <2>1, <2>2 DEF Typed, TypeOK, Content
  <1> QED BY <1>1, Invariance, PTL

(* domain_exchangeParticles and peano_hilbert_order never let gas come     *)
(* behind other particles, and never part a particle from its SPH data or  *)
(* its key: not between two moves, not inside a cycle, not in a buffer.    *)
THEOREM BesideKept == Spec => []Beside
  <1>1. IInv => Beside
    BY DEF IInv, Beside
  <1> QED BY <1>1, Invariance, PTL

(* No particle is lost or doubled by collecting, making room, inserting or *)
(* reordering, and the collecting loop always finds as many as it has to   *)
(* send, so that endrun(88) is never reached.                              *)
THEOREM OnceKept == Spec => []Once
  <1>1. IInv => Once
    <2> SUFFICES ASSUME IInv PROVE Once
      OBVIOUS
    <2>1. NoShortage
      BY DEF IInv, Staged, Moving, Ordering, NoShortage
    <2> QED BY <2>1 DEF IInv, Distinct, Divided, Whole, Coming, Once
  <1> QED BY <1>1, Invariance, PTL

(* When peano_hilbert_order returns, the gas and the other particles are   *)
(* each in the order of their keys, however qsort arranged equal keys.     *)
THEOREM SortedAfter == Spec => SortedAfterwards
  <1> DEFINE Goal == phase = "reorder_particles" /\ phase' = "idle" => InOrder(UsedSph) /\ InOrder(OtherSlots)
  <1>1. IInv /\ [Next]_vars => [Goal]_vars
    <2> SUFFICES ASSUME IInv, Next, phase = "reorder_particles", phase' = "idle"
                 PROVE  InOrder(UsedSph) /\ InOrder(OtherSlots)
      OBVIOUS
    <2>1. Ordered
      BY DEF Next, ComputeKeys, Exchange, Begin, Skip, Collecting, CollectGas, CollectOther, Collected,
         Send, Receive, OrderGas, InPlace, StartCycle, Place, OrderOther
    <2> QED BY <2>1, OrderedKeeps
  <1> QED BY <1>1, Invariance, PTL DEF Spec, SortedAfterwards

===============================================================================
