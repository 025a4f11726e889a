------------------------- MODULE SegTransferProofs -------------------------
(***************************************************************************)
(* Proofs about SegTransfer, for any number of devices, SDUs, segments and *)
(* contexts: the types, that an SDU is delivered once, and that success    *)
(* means delivery.                                                         *)
(***************************************************************************)
EXTENDS SegTransfer, FiniteSetTheorems, SequenceTheorems, WellFoundedInduction, TLAPS

Sent(s) == tx[s].state # "new"

\* The SeqZero of an SDU that is or was sent.
Zero(s) == tx[s].seq_auth % SeqZeros

(***************************************************************************)
(* Among the SDUs of one device no SeqZero comes twice.  A device uses     *)
(* 2^13 sequence numbers before one does, far more than it sends while     *)
(* segments and acknowledgements of an earlier SDU can still be under way. *)
(***************************************************************************)
SeqZeroFresh ==
  \A s, u \in Sdus :
    Sent(s) /\ Sent(u) /\ SourceOf[s] = SourceOf[u] /\ Zero(s) = Zero(u) => s = u

\* A context in use belongs to a device.
Attributed == \A i \in RxCtxs : rx[i].in_use => rx[i].src \in Sources

Typed == TypeOK /\ Attributed

\* Every segment on the air is from an SDU that was sent.
OnAir == \A p \in air : Sent(p.sdu) /\ p.seq_zero = Zero(p.sdu)

(***************************************************************************)
(* An SDU that was delivered has its completed context, and in front of it *)
(* there is none that could complete the SDU again.                        *)
(***************************************************************************)
Remembered(s, i) ==
  /\ rx[i].block = Segs /\ ~rx[i].in_use /\ s \in rx[i].sdus
  /\ rx[i].src = SourceOf[s] /\ rx[i].seq_auth = tx[s].seq_auth
  /\ \A j \in RxCtxs :
       j < i /\ rx[j].src = SourceOf[s] /\ rx[j].seq_auth = tx[s].seq_auth
         => \E u \in rx[j].sdus : u # s

Once ==
  \A s \in Sdus : delivered[s] > 0 =>
    /\ Sent(s)
    /\ lost[s] \cap {"reallocated", "shadowed"} = {} =>
         delivered[s] = 1 /\ \E i \in RxCtxs : Remembered(s, i)

\* The inductive invariant for DeliveredOnce.
OnceInv == Typed /\ OnAir /\ Once

\* What a context holds is from its source and under its SeqAuth.
Held ==
  \A i \in RxCtxs : \A s \in rx[i].sdus :
    /\ Sent(s) /\ SourceOf[s] = rx[i].src
    /\ \E p \in air : p.sdu = s /\ SeqAuth(p) = rx[i].seq_auth

\* A context in use is incomplete, and the only one of its source.
Open ==
  \A i \in RxCtxs : rx[i].in_use =>
    /\ rx[i].sdus # {} /\ rx[i].block # Segs
    /\ \A j \in RxCtxs : rx[j].in_use /\ rx[j].src = rx[i].src => j = i

\* A complete context stands for a delivery.
Full ==
  \A i \in RxCtxs : rx[i].block = Segs =>
    /\ rx[i].sdus # {}
    /\ \A s \in rx[i].sdus : ~Straddles(s) => delivered[s] > 0

\* An acknowledgement under way answers an SDU that was sent.
AckFor ==
  \A a \in Sources : \A n \in 1..Len(acks[a]) :
    \E s \in Sdus : Sent(s) /\ SourceOf[s] = a /\ Zero(s) = acks[a][n].seq_zero

\* Segment o of s is acknowledged, or its acknowledgement is under way.
Acked(s, o) ==
  \/ o \notin tx[s].unacked
  \/ \E n \in 1..Len(acks[SourceOf[s]]) :
       /\ acks[SourceOf[s]][n].seq_zero = Zero(s)
       /\ o \in acks[SourceOf[s]][n].block

\* Then a context in use holds it, or the SDU was delivered.
Backed ==
  \A s \in Sdus :
    Active(s) /\ "displaced" \notin lost[s] /\ ~Straddles(s) /\ delivered[s] = 0
      => \A o \in Segs : Acked(s, o) =>
           \E i \in RxCtxs : rx[i].in_use /\ s \in rx[i].sdus /\ o \in rx[i].block

\* The inductive invariant for SuccessIsDelivery.
SuccessInv ==
  Typed /\ OnAir /\ Held /\ Open /\ Full /\ AckFor /\ Backed /\ SuccessIsDelivery

-----------------------------------------------------------------------------
(***************************************************************************)
(* The operators of the model.                                             *)
(***************************************************************************)
\* A nonempty set of contexts has a first one.
LEMMA FirstContext ==
  ASSUME NEW S, S \subseteq RxCtxs, S # {}
  PROVE  First(S) \in S /\ First(S) \in RxCtxs /\ \A k \in S : First(S) <= k
<1> DEFINE R == {q \in Nat \X Nat : q[1] < q[2]}
<1>1. IsWellFoundedOn(R, Nat)
  <2>1. OpToRel(<, Nat) = R
    BY DEF OpToRel
  <2> QED BY <2>1, NatLessThanWellFounded
<1>2. S \subseteq Nat
  BY TransferAssumption DEF RxCtxs
<1>3. PICK x \in S : \A y \in S : ~(<<y, x>> \in R)
  <2> HIDE DEF R
  <2> QED BY <1>1, <1>2, WFMin
<1>4. ASSUME NEW y \in S PROVE x <= y
  <2>1. x \in Nat /\ y \in Nat
    BY <1>2
  <2>2. y < x => <<y, x>> \in R
    BY <2>1
  <2>3. ~(y < x)
    BY <1>3, <2>2
  <2> QED BY <2>1, <2>3
<1>5. First(S) \in S /\ \A k \in S : First(S) <= k
  BY <1>3, <1>4 DEF First
<1> QED BY <1>5

LEMMA SegSets ==
  ASSUME NEW K, K \subseteq Segs
  PROVE  IsFiniteSet(K) /\ Cardinality(K) \in Nat
<1>1. IsFiniteSet(0..SegN)
  BY TransferAssumption, FS_Interval
<1> QED BY <1>1, FS_Subset, FS_CardinalityType DEF Segs

\* The SeqAuth that a receiver derives has the SeqZero of the segment.
LEMMA SeqAuthIs ==
  ASSUME NEW p \in Pdu
  PROVE  SeqAuth(p) \in Nat /\ SeqAuth(p) % SeqZeros = p.seq_zero
<1> DEFINE Z == SeqZeros
           x == p.seq
           y == p.seq_zero
           q == x \div Z
           r == x % Z
<1>1. Z \in Nat \ {0} /\ x \in Nat /\ y \in 0..Z - 1
  BY TransferAssumption DEF Pdu
<1>2. SeqAuth(p) = x - r + y
  BY DEF SeqAuth
<1> HIDE DEF Z, x, y
<1>3. q \in Nat /\ r \in 0..Z - 1 /\ x = Z * q + r
  BY <1>1
<1> HIDE DEF q, r
<1>4. Z * q \in Nat
  BY <1>1, <1>3
<1>5. x - r + y = Z * q + y
  BY <1>1, <1>3, <1>4
<1>6. (Z * q + y) % Z = y /\ Z * q + y \in Nat
  BY <1>1, <1>3, <1>4
<1> QED BY <1>2, <1>5, <1>6 DEF Z, y

LEMMA ZeroIn == \A n \in Nat : n % SeqZeros \in 0..SeqZeros - 1
BY TransferAssumption

\* The segments that a transmission adds.
LEMMA Transmits ==
  ASSUME TypeOK, NEW s \in Sdus, NEW start \in Nat, NEW K, K \subseteq Segs, Transmit(s, start, K)
  PROVE  /\ seq' \in [Sources -> Nat] /\ air' \subseteq Pdu /\ air \subseteq air'
         /\ \A p \in air' : p \in air \/ (p.sdu = s /\ p.seq_zero = start % SeqZeros)
<1> DEFINE a == SourceOf[s]
           N == PdusOf(s, start, K, seq[a])
<1>1. a \in Sources /\ seq \in [Sources -> Nat] /\ air \subseteq Pdu
  BY TransferAssumption DEF TypeOK
<1>2. air' = air \cup N /\ seq' = [seq EXCEPT ![a] = @ + Cardinality(K)]
  BY DEF Transmit
<1>3. Cardinality(K) \in Nat
  BY SegSets
<1>4. seq' \in [Sources -> Nat]
  BY <1>1, <1>2, <1>3
<1>5. ASSUME NEW p \in N PROVE p \in Pdu /\ p.sdu = s /\ p.seq_zero = start % SeqZeros
  <2> DEFINE n(o) == Cardinality({k \in K : k < o})
  <2>1. PICK o \in K : p = [sdu |-> s, seg_o |-> o, seq_zero |-> start % SeqZeros,
                            seq |-> seq[a] + n(o)]
    BY <1>5 DEF PdusOf
  <2>2. n(o) \in Nat
    <3>1. {k \in K : k < o} \subseteq Segs
      OBVIOUS
    <3> QED BY <3>1, SegSets
  <2> HIDE DEF n
  <2>3. seq[a] + n(o) \in Nat /\ start % SeqZeros \in 0..SeqZeros - 1 /\ o \in Segs
    BY <1>1, <2>2, ZeroIn
  <2> QED BY <2>1, <2>3 DEF Pdu
<1> QED BY <1>1, <1>2, <1>4, <1>5

\* An acknowledgement goes to the end of the queue, or gets lost.
LEMMA AckSent ==
  ASSUME TypeOK, NEW a \in Sources, NEW zero \in 0..SeqZeros - 1, NEW block \in SUBSET Segs,
         SendAck(a, zero, block)
  PROVE  /\ acks' \in [Sources -> Seq(Ack)]
         /\ \A b \in Sources : b # a => acks'[b] = acks[b]
         /\ \A n \in 1..Len(acks'[a]) :
              \/ n \in 1..Len(acks[a]) /\ acks'[a][n] = acks[a][n]
              \/ Lookup(a, zero) # {} /\ acks'[a][n] = [seq_zero |-> zero, block |-> block]
<1>1. acks \in [Sources -> Seq(Ack)]
  BY DEF TypeOK
<1>2. CASE UNCHANGED acks
  BY <1>1, <1>2
<1>3. CASE /\ Lookup(a, zero) # {}
           /\ acks' = [acks EXCEPT ![a] = Append(@, [seq_zero |-> zero, block |-> block])]
  <2> DEFINE e == [seq_zero |-> zero, block |-> block]
             q == acks[a]
  <2>1. e \in Ack /\ q \in Seq(Ack) /\ acks'[a] = Append(q, e)
    BY <1>1, <1>3 DEF Ack
  <2> HIDE DEF e, q
  <2>2. /\ Append(q, e) \in Seq(Ack) /\ Len(Append(q, e)) = Len(q) + 1 /\ Len(q) \in Nat
        /\ \A n \in 1..Len(q) : Append(q, e)[n] = q[n]
        /\ Append(q, e)[Len(q) + 1] = e
    BY <2>1, AppendProperties, LenProperties
  <2>3. \A n \in 1..Len(q) + 1 : n \in 1..Len(q) \/ n = Len(q) + 1
    BY <2>2
  <2>4. \A n \in 1..Len(acks'[a]) : (n \in 1..Len(q) /\ acks'[a][n] = q[n]) \/ acks'[a][n] = e
    BY <2>1, <2>2, <2>3
  <2>5. acks' \in [Sources -> Seq(Ack)]
    BY <1>1, <1>3, <2>1, <2>2 DEF e, q
  <2>6. \A b \in Sources : b # a => acks'[b] = acks[b]
    BY <1>1, <1>3
  <2> QED BY <1>3, <2>4, <2>5, <2>6 DEF e, q
<1> QED BY <1>2, <1>3 DEF SendAck

\* What Store does to the contexts and the upper layer.
Delivers(c, i, p) ==
  c[i].sdus \subseteq {p.sdu} /\ c[i].seq_auth = tx[p.sdu].seq_auth /\ delivered[p.sdu] < 2

LEMMA Stores ==
  ASSUME TypeOK, NEW c \in [RxCtxs -> SegRx], NEW i \in RxCtxs, NEW p \in Pdu, Store(c, i, p)
  PROVE  /\ p.seg_o \notin c[i].block
         /\ rx' \in [RxCtxs -> SegRx]
         /\ \A j \in RxCtxs : j # i => rx'[j] = c[j]
         /\ rx'[i].src = c[i].src /\ rx'[i].seq_auth = c[i].seq_auth
         /\ rx'[i].sdus = c[i].sdus \cup {p.sdu}
         /\ \/ /\ rx'[i].in_use = c[i].in_use /\ rx'[i].block # Segs
               /\ c[i].block \subseteq rx'[i].block
               /\ UNCHANGED <<acks, rpl, delivered>>
            \/ /\ rx'[i].in_use = FALSE /\ rx'[i].block = Segs
               /\ SendAck(SourceOf[p.sdu], p.seq_zero, Segs)
               /\ rpl' = [rpl EXCEPT ![SourceOf[p.sdu]] = p.seq]
               /\ delivered' = [delivered EXCEPT ![p.sdu] = IF Delivers(c, i, p) THEN @ + 1 ELSE @]
<1> DEFINE a == SourceOf[p.sdu]
           B == c[i].block \cup {p.seg_o}
           D == c[i].sdus \cup {p.sdu}
           d == [c EXCEPT ![i].block = @ \cup {p.seg_o}, ![i].sdus = @ \cup {p.sdu}]
<1>1. p.sdu \in Sdus /\ p.seg_o \in Segs /\ p.seg_o \notin c[i].block /\ c[i] \in SegRx
  BY DEF Pdu, Store
<1>2. /\ d[i] = [c[i] EXCEPT !.block = @ \cup {p.seg_o}, !.sdus = @ \cup {p.sdu}]
      /\ \A j \in RxCtxs : j # i => d[j] = c[j]
  BY DEF SegRx
<1>3. /\ d[i].in_use = c[i].in_use /\ d[i].src = c[i].src /\ d[i].seq_auth = c[i].seq_auth
      /\ d[i].block = B /\ d[i].sdus = D /\ d[i] \in SegRx
  <2> HIDE DEF d
  <2>1. B \in SUBSET Segs /\ D \in SUBSET Sdus /\ d[i] = [c[i] EXCEPT !.block = B, !.sdus = D]
    BY <1>1, <1>2 DEF SegRx
  <2> HIDE DEF B, D
  <2>2. d[i] \in SegRx
    BY <1>1, <2>1 DEF SegRx
  <2> QED BY <1>1, <2>1, <2>2 DEF SegRx
<1>4. d \in [RxCtxs -> SegRx]
  <2>1. \A j \in RxCtxs : d[j] \in SegRx
    <3> HIDE DEF d
    <3> QED BY <1>2, <1>3
  <2> QED BY <2>1
<1>5. D = {p.sdu} <=> c[i].sdus \subseteq {p.sdu}
  OBVIOUS
<1> HIDE DEF d
<1>6. CASE d[i].block # Segs /\ rx' = d /\ UNCHANGED <<acks, rpl, delivered>>
  BY <1>1, <1>2, <1>3, <1>4, <1>6
<1>7. CASE /\ d[i].block = Segs /\ rx' = [d EXCEPT ![i].block = @ \ {p.seg_o}]
           /\ UNCHANGED <<acks, rpl, delivered>>
  <2>1. /\ rx'[i] = [d[i] EXCEPT !.block = @ \ {p.seg_o}]
        /\ \A j \in RxCtxs : j # i => rx'[j] = d[j]
    BY <1>4, <1>7 DEF SegRx
  <2>2. rx'[i] \in SegRx
    BY <1>3, <2>1 DEF SegRx
  <2>3. /\ rx'[i].in_use = c[i].in_use /\ rx'[i].src = c[i].src
        /\ rx'[i].seq_auth = c[i].seq_auth
        /\ rx'[i].block = B \ {p.seg_o} /\ rx'[i].sdus = D
    BY <1>3, <2>1 DEF SegRx
  <2>4. rx' \in [RxCtxs -> SegRx]
    <3>1. \A j \in RxCtxs : rx'[j] \in SegRx
      BY <1>4, <2>1, <2>2
    <3> QED BY <1>4, <1>7, <3>1
  <2>5. B \ {p.seg_o} = c[i].block /\ c[i].block # Segs
    BY <1>1
  <2>6. \A j \in RxCtxs : j # i => rx'[j] = c[j]
    BY <1>2, <2>1
  <2> QED BY <1>1, <1>7, <2>3, <2>4, <2>5, <2>6
<1>8. CASE /\ d[i].block = Segs
           /\ rpl' = [rpl EXCEPT ![a] = p.seq]
           /\ rx' = FreeAfter(d, i)
           /\ SendAck(a, p.seq_zero, Segs)
           /\ SduRecv(d[i], p.sdu)
  <2>1. /\ rx'[i] = [d[i] EXCEPT !.in_use = FALSE]
        /\ \A j \in RxCtxs : j # i => rx'[j] = d[j]
    BY <1>4, <1>8 DEF SegRx, FreeAfter
  <2>2. rx'[i] \in SegRx
    BY <1>3, <2>1 DEF SegRx
  <2>3. /\ rx'[i].in_use = FALSE /\ rx'[i].src = c[i].src
        /\ rx'[i].seq_auth = c[i].seq_auth
        /\ rx'[i].block = B /\ rx'[i].sdus = D
    BY <1>3, <2>1 DEF SegRx
  <2>4. rx' \in [RxCtxs -> SegRx]
    <3>1. \A j \in RxCtxs : rx'[j] \in SegRx
      BY <1>4, <2>1, <2>2
    <3> QED BY <1>4, <1>8, <3>1 DEF FreeAfter
  <2>5. \A j \in RxCtxs : j # i => rx'[j] = c[j]
    BY <1>2, <2>1
  <2>6. delivered' = [delivered EXCEPT ![p.sdu] = IF Delivers(c, i, p) THEN @ + 1 ELSE @]
    <3>1. (d[i].sdus = {p.sdu} /\ d[i].seq_auth = tx[p.sdu].seq_auth /\ delivered[p.sdu] < 2)
            <=> Delivers(c, i, p)
      BY <1>3, <1>5 DEF Delivers
    <3> QED BY <1>8, <3>1 DEF SduRecv
  <2>7. B = Segs
    BY <1>3, <1>8
  <2> QED BY <1>1, <1>8, <2>3, <2>4, <2>5, <2>6, <2>7
<1> QED BY <1>6, <1>7, <1>8 DEF Store, d

-----------------------------------------------------------------------------
(***************************************************************************)
(* What a step does, as far as the invariants tell.                        *)
(***************************************************************************)
\* A step in which the device of s works on s.
Sends(s) ==
  /\ seq' \in [Sources -> Nat] /\ tx' \in [Sdus -> SegTx]
  /\ air' \subseteq Pdu /\ air \subseteq air'
  /\ \A u \in Sdus : u # s => tx'[u] = tx[u]
  /\ tx'[s].state # "new"
  /\ tx[s].state # "new" => tx'[s].seq_auth = tx[s].seq_auth
  /\ \A p \in air' : p \in air \/ (p.sdu = s /\ p.seq_zero = tx'[s].seq_auth % SeqZeros)

LEMMA Completes ==
  ASSUME NEW t \in SegTx, NEW o \in {"ok", "failed"}
  PROVE  /\ Complete(t, o) \in SegTx
         /\ Complete(t, o).state = o /\ Complete(t, o).seq_auth = t.seq_auth
BY DEF Complete, SegTx

LEMMA SendSegStep ==
  ASSUME TypeOK, NEW s \in Sdus, NEW j \in 1..SegN + 1, SendSeg(s, j)
  PROVE  /\ Sends(s) /\ tx[s].state = "new" /\ tx'[s].state \in {"active", "failed"}
         /\ tx'[s].state = "active" => tx'[s].unacked = Segs
<1> DEFINE start == seq[SourceOf[s]]
           t == [state |-> "active", seq_auth |-> start, unacked |-> Segs, left |-> Segs]
           e == IF j = SegN + 1 THEN t ELSE Complete(t, "failed")
           K == {o \in Segs : o < j}
<1>1. start \in Nat /\ tx \in [Sdus -> SegTx]
  BY TransferAssumption DEF TypeOK
<1>2. t \in SegTx /\ t.state = "active" /\ t.seq_auth = start /\ t.unacked = Segs
  BY <1>1 DEF SegTx
<1>3. tx[s].state = "new" /\ tx' = [tx EXCEPT ![s] = e] /\ Transmit(s, start, K)
  BY DEF SendSeg
<1> HIDE DEF t
<1>4. /\ e \in SegTx /\ e.state \in {"active", "failed"} /\ e.seq_auth = start
      /\ e.state = "active" => e.unacked = Segs
  <2>1. CASE j = SegN + 1
    BY <1>2, <2>1
  <2>2. CASE j # SegN + 1
    BY <1>2, <2>2, Completes
  <2> QED BY <2>1, <2>2
<1> HIDE DEF e
<1>5. tx' \in [Sdus -> SegTx] /\ tx'[s] = e /\ \A u \in Sdus : u # s => tx'[u] = tx[u]
  BY <1>1, <1>3, <1>4
<1>6. /\ seq' \in [Sources -> Nat] /\ air' \subseteq Pdu /\ air \subseteq air'
      /\ \A p \in air' : p \in air \/ (p.sdu = s /\ p.seq_zero = start % SeqZeros)
  <2>1. K \subseteq Segs
    OBVIOUS
  <2> HIDE DEF K, start
  <2> QED BY <1>1, <1>3, <2>1, Transmits
<1> HIDE DEF start
<1> QED BY <1>3, <1>4, <1>5, <1>6 DEF Sends

LEMMA SendUnackedStep ==
  ASSUME TypeOK, NEW s \in Sdus, NEW t \in SegTx, t.state = "active", t.seq_auth = tx[s].seq_auth,
         NEW K \in SUBSET Segs, NEW out \in BOOLEAN, SendUnacked(s, t, K, out)
  PROVE  /\ Sends(s) /\ tx'[s].state \in {"active", "failed"}
         /\ tx'[s].state = "active" => tx'[s].unacked = t.unacked
<1> DEFINE e == IF out THEN Complete(t, "failed") ELSE [t EXCEPT !.left = @ \ K]
<1>1. /\ e \in SegTx /\ e.state \in {"active", "failed"} /\ e.seq_auth = t.seq_auth
      /\ e.state = "active" => e.unacked = t.unacked
  <2>1. CASE out
    BY <2>1, Completes
  <2>2. CASE ~out
    <3>1. t.left \ K \in SUBSET Segs
      BY DEF SegTx
    <3> QED BY <2>2, <3>1 DEF SegTx
  <2> QED BY <2>1, <2>2
<1>2. tx \in [Sdus -> SegTx] /\ tx' = [tx EXCEPT ![s] = e] /\ Transmit(s, t.seq_auth, K)
  BY DEF TypeOK, SendUnacked
<1> HIDE DEF e
<1>3. tx' \in [Sdus -> SegTx] /\ tx'[s] = e /\ \A u \in Sdus : u # s => tx'[u] = tx[u]
  BY <1>1, <1>2
<1>4. /\ seq' \in [Sources -> Nat] /\ air' \subseteq Pdu /\ air \subseteq air'
      /\ \A p \in air' : p \in air \/ (p.sdu = s /\ p.seq_zero = t.seq_auth % SeqZeros)
  <2>1. t.seq_auth \in Nat
    BY DEF SegTx
  <2> QED BY <1>2, <2>1, Transmits
<1> QED BY <1>1, <1>3, <1>4 DEF Sends

LEMMA RetransmitStep ==
  ASSUME TypeOK, NEW s \in Sdus, NEW K \in SUBSET Segs, NEW out \in BOOLEAN, Retransmit(s, K, out)
  PROVE  /\ Sends(s) /\ Active(s) /\ tx'[s].state \in {"active", "failed"}
         /\ tx'[s].state = "active" => tx'[s].unacked = tx[s].unacked
<1>1. tx[s] \in SegTx /\ tx[s].state = "active" /\ SendUnacked(s, tx[s], K, out)
  BY DEF TypeOK, Retransmit, Active
<1>2. /\ Sends(s) /\ tx'[s].state \in {"active", "failed"}
      /\ tx'[s].state = "active" => tx'[s].unacked = tx[s].unacked
  BY <1>1, SendUnackedStep
<1> QED BY <1>1, <1>2 DEF Active

\* What an acknowledgement makes of the transfer it is for.
AckedBy(s, block) ==
  /\ Active(s) /\ Sends(s)
  /\ tx'[s].state \in {"active", "failed", "ok"}
  /\ tx'[s].state = "active" => tx'[s].unacked = tx[s].unacked \ block
  /\ tx'[s].state = "ok" => tx[s].unacked \subseteq block

LEMMA RecvAckStep ==
  ASSUME TypeOK, NEW a \in Sources, NEW K \in SUBSET Segs, NEW out \in BOOLEAN, RecvAck(a, K, out)
  PROVE  /\ acks[a] # <<>> /\ acks' = [acks EXCEPT ![a] = Tail(@)]
         /\ UNCHANGED receiverVars
         /\ \/ UNCHANGED senderVars /\ Lookup(a, Head(acks[a]).seq_zero) = {}
            \/ \E s \in Lookup(a, Head(acks[a]).seq_zero) : AckedBy(s, Head(acks[a]).block)
<1> DEFINE ack == Head(acks[a])
<1>1. /\ acks[a] # <<>> /\ acks' = [acks EXCEPT ![a] = Tail(@)] /\ UNCHANGED receiverVars
  BY DEF RecvAck
<1>2. CASE Lookup(a, ack.seq_zero) = {}
  BY <1>1, <1>2 DEF RecvAck
<1>3. CASE Lookup(a, ack.seq_zero) # {}
  <2> DEFINE t(s) == [tx[s] EXCEPT !.unacked = @ \ ack.block, !.left = @ \ ack.block]
  <2>1. PICK s \in Lookup(a, ack.seq_zero) :
          IF ack.block = {} \/ t(s).unacked = {}
            THEN /\ K = {} /\ ~out
                 /\ tx' = [tx EXCEPT ![s] =
                             Complete(t(s), IF ack.block = {} THEN "failed" ELSE "ok")]
                 /\ UNCHANGED <<seq, air>>
            ELSE SendUnacked(s, t(s), K, out)
    BY <1>3 DEF RecvAck
  <2>2. s \in Sdus /\ Active(s) /\ tx[s] \in SegTx /\ tx \in [Sdus -> SegTx]
    BY DEF Lookup, TypeOK
  <2>3. /\ t(s) \in SegTx /\ t(s).state = "active" /\ t(s).seq_auth = tx[s].seq_auth
        /\ t(s).unacked = tx[s].unacked \ ack.block
    <3> DEFINE U == tx[s].unacked \ ack.block
               L == tx[s].left \ ack.block
    <3>1. U \in SUBSET Segs /\ L \in SUBSET Segs
      BY <2>2 DEF SegTx
    <3>2. t(s) = [tx[s] EXCEPT !.unacked = U, !.left = L]
      BY <2>2 DEF SegTx
    <3> HIDE DEF U, L, t
    <3>3. /\ t(s) \in SegTx /\ t(s).state = "active" /\ t(s).seq_auth = tx[s].seq_auth
          /\ t(s).unacked = U
      BY <2>2, <3>1, <3>2 DEF SegTx, Active
    <3> QED BY <3>3 DEF U
  <2> HIDE DEF t, ack
  <2>4. CASE ack.block = {} \/ t(s).unacked = {}
    <3> DEFINE o == IF ack.block = {} THEN "failed" ELSE "ok"
               e == Complete(t(s), o)
    <3>1. /\ e \in SegTx /\ e.state = o /\ o \in {"failed", "ok"} /\ e.seq_auth = tx[s].seq_auth
      BY <2>3, Completes
    <3>2. tx' = [tx EXCEPT ![s] = e] /\ seq' = seq /\ air' = air
      BY <2>1, <2>4
    <3>3. o = "ok" => tx[s].unacked \subseteq ack.block
      BY <2>3, <2>4
    <3> HIDE DEF e, o
    <3>4. tx' \in [Sdus -> SegTx] /\ tx'[s] = e /\ \A u \in Sdus : u # s => tx'[u] = tx[u]
      BY <2>2, <3>1, <3>2
    <3>5. Sends(s)
      BY <3>1, <3>2, <3>4 DEF Sends, TypeOK
    <3>6. AckedBy(s, ack.block)
      BY <2>2, <3>1, <3>3, <3>4, <3>5 DEF AckedBy
    <3> QED BY <1>1, <3>6 DEF ack
  <2>5. CASE ~(ack.block = {} \/ t(s).unacked = {})
    <3>1. SendUnacked(s, t(s), K, out)
      BY <2>1, <2>5
    <3>2. /\ Sends(s) /\ tx'[s].state \in {"active", "failed"}
          /\ tx'[s].state = "active" => tx'[s].unacked = t(s).unacked
      BY <2>2, <2>3, <3>1, SendUnackedStep
    <3>3. AckedBy(s, ack.block)
      BY <2>2, <2>3, <3>2 DEF AckedBy
    <3> QED BY <1>1, <3>3 DEF ack
  <2> QED BY <2>4, <2>5
<1> QED BY <1>2, <1>3

\* The context that a segment is found in is the first of its SeqAuth.
LEMMA FoundIs ==
  ASSUME TypeOK, NEW p \in air, Found(p)
  PROVE  LET i == First(Stops(p))
         IN  /\ i \in RxCtxs /\ rx[i].src = SourceOf[p.sdu] /\ rx[i].seq_auth = SeqAuth(p)
             /\ \A k \in RxCtxs : rx[k].src = SourceOf[p.sdu] /\ rx[k].seq_auth = SeqAuth(p) => i <= k
<1>1. Stops(p) \subseteq RxCtxs /\ Stops(p) # {}
  BY DEF Found, Stops
<1>2. First(Stops(p)) \in Stops(p) /\ \A k \in Stops(p) : First(Stops(p)) <= k
  BY <1>1, FirstContext
<1>3. rx[First(Stops(p))].seq_auth = SeqAuth(p)
  BY DEF Found
<1> QED BY <1>2, <1>3 DEF Stops

\* The contexts c when a segment gets a new one, f, after those in D were reset.
Opens(p, c, f, D) ==
  /\ c \in [RxCtxs -> SegRx] /\ f \in RxCtxs /\ D \subseteq RxCtxs
  /\ c[f] = NewRx(p)
  /\ \A i \in RxCtxs : i # f =>
       /\ c[i].src = rx[i].src /\ c[i].seq_auth = rx[i].seq_auth
       /\ c[i].block = rx[i].block /\ c[i].sdus = rx[i].sdus
       /\ c[i].in_use <=> rx[i].in_use /\ i \notin D
  /\ rx[f].in_use => f \in D
  /\ \A k \in Stops(p) : f <= k
  /\ \A k \in D : rx[k].in_use /\ rx[k].src = SourceOf[p.sdu]
  /\ Stops(p) # {} => D # {}

LEMMA OpensStep ==
  ASSUME TypeOK, NEW p \in air, RecvForNone(p)
  PROVE  \E c, f, D : /\ Opens(p, c, f, D) /\ Store(c, f, p)
                      /\ lost' = [s \in Sdus |-> lost[s] \cup Loses(s, p, D, f)]
<1> DEFINE S == Stops(p)
           D == IF S = {} THEN {} ELSE {First(S)}
           b == [i \in RxCtxs |-> IF i \in D THEN [rx[i] EXCEPT !.in_use = FALSE] ELSE rx[i]]
           F == {i \in RxCtxs : ~b[i].in_use}
           f == First(F)
           c == [b EXCEPT ![f] = NewRx(p)]
<1>1. /\ ~Found(p) /\ F # {} /\ Store(c, f, p)
      /\ lost' = [s \in Sdus |-> lost[s] \cup Loses(s, p, D, f)]
  BY DEF RecvForNone
<1>2. rx \in [RxCtxs -> SegRx] /\ p \in Pdu
  BY DEF TypeOK
<1>3. S \subseteq RxCtxs /\ D \subseteq S /\ (S # {} => D # {})
  <2>1. S \subseteq RxCtxs
    BY DEF Stops
  <2> HIDE DEF S
  <2> QED BY <2>1, FirstContext
<1>4. \A k \in D : rx[k].in_use /\ rx[k].src = SourceOf[p.sdu]
  <2> SUFFICES ASSUME NEW k \in D PROVE rx[k].in_use /\ rx[k].src = SourceOf[p.sdu]
    OBVIOUS
  <2>1. S # {} /\ k = First(S)
    OBVIOUS
  <2>2. rx[k].seq_auth # SeqAuth(p)
    BY <1>1, <2>1 DEF Found
  <2> QED BY <1>3, <2>2 DEF Stops
<1> HIDE DEF S, D
<1>5. ASSUME NEW i \in RxCtxs
      PROVE  /\ b[i] \in SegRx
             /\ b[i].src = rx[i].src /\ b[i].seq_auth = rx[i].seq_auth
             /\ b[i].block = rx[i].block /\ b[i].sdus = rx[i].sdus
             /\ b[i].in_use <=> rx[i].in_use /\ i \notin D
  <2>1. CASE i \in D
    <3>1. b[i] = [rx[i] EXCEPT !.in_use = FALSE] /\ rx[i] \in SegRx
      BY <1>2, <2>1
    <3> HIDE DEF b
    <3> QED BY <2>1, <3>1 DEF SegRx
  <2>2. CASE i \notin D
    BY <1>2, <2>2
  <2> QED BY <2>1, <2>2
<1>6. b \in [RxCtxs -> SegRx]
  BY <1>5
<1> HIDE DEF b
<1>7. f \in F /\ f \in RxCtxs /\ \A k \in F : f <= k
  <2>1. F \subseteq RxCtxs
    OBVIOUS
  <2> HIDE DEF F
  <2> QED BY <1>1, <2>1, FirstContext
<1>8. rx[f].in_use => f \in D
  BY <1>5, <1>7
<1>9. \A k \in S : f <= k
  <2> TAKE k \in S
  <2>1. First(S) \in S /\ First(S) <= k /\ First(S) \in D
    BY <1>3, FirstContext DEF D
  <2>2. First(S) \in F
    BY <1>3, <1>5, <2>1
  <2>3. f <= First(S)
    BY <1>7, <2>2
  <2>4. f \in RxCtxs /\ First(S) \in RxCtxs /\ k \in RxCtxs
    BY <1>3, <1>7, <2>1
  <2> HIDE DEF f
  <2> QED BY <2>1, <2>3, <2>4, TransferAssumption DEF RxCtxs
<1> HIDE DEF F, f
<1>10. NewRx(p) \in SegRx
  <2>1. SeqAuth(p) \in Nat /\ SourceOf[p.sdu] \in Sources
    BY <1>2, SeqAuthIs, TransferAssumption DEF Pdu
  <2> QED BY <2>1 DEF NewRx, SegRx
<1>11. c \in [RxCtxs -> SegRx] /\ c[f] = NewRx(p) /\ \A i \in RxCtxs : i # f => c[i] = b[i]
  BY <1>6, <1>7, <1>10
<1> HIDE DEF c
<1>12. Opens(p, c, f, D)
  BY <1>3, <1>4, <1>5, <1>7, <1>8, <1>9, <1>11 DEF Opens, S
<1> QED BY <1>1, <1>12

LEMMA NewRxIs ==
  ASSUME NEW p
  PROVE  /\ NewRx(p).src = SourceOf[p.sdu] /\ NewRx(p).seq_auth = SeqAuth(p)
         /\ NewRx(p).block = {} /\ NewRx(p).sdus = {} /\ NewRx(p).in_use = TRUE
BY DEF NewRx

-----------------------------------------------------------------------------
\* What the incomplete timer does to its context.
LEMMA GivenUp ==
  ASSUME TypeOK, NEW i \in RxCtxs, Incomplete(i)
  PROVE  /\ rx' \in [RxCtxs -> SegRx]
         /\ rx'[i].in_use = FALSE /\ rx'[i].src = rx[i].src /\ rx'[i].seq_auth = rx[i].seq_auth
         /\ rx'[i].block = rx[i].block /\ rx'[i].sdus = rx[i].sdus
         /\ \A j \in RxCtxs : j # i => rx'[j] = rx[j]
<1>1. rx \in [RxCtxs -> SegRx] /\ rx' = [rx EXCEPT ![i].in_use = FALSE]
  BY DEF TypeOK, Incomplete
<1>2. rx'[i] = [rx[i] EXCEPT !.in_use = FALSE] /\ \A j \in RxCtxs : j # i => rx'[j] = rx[j]
  BY <1>1 DEF SegRx
<1>3. rx'[i] \in SegRx
  BY <1>1, <1>2 DEF SegRx
<1>4. rx' \in [RxCtxs -> SegRx]
  <2>1. \A j \in RxCtxs : rx'[j] \in SegRx
    BY <1>1, <1>2, <1>3
  <2> QED BY <1>1, <2>1
<1> QED BY <1>1, <1>2, <1>4 DEF SegRx

LEMMA InitTypes == Init => TypeOK
<1> SUFFICES ASSUME Init PROVE TypeOK
  OBVIOUS
<1>1. UnusedRx \in SegRx /\ NewTx \in SegTx /\ -1 \in Int /\ 0 \in 0..2
  BY DEF UnusedRx, SegRx, NewTx, SegTx
<1>2. <<>> \in Seq(Ack)
  BY EmptySeq
<1> QED BY <1>1, <1>2, TransferAssumption DEF Init, TypeOK

LEMMA StoreTypes ==
  ASSUME TypeOK, NEW c \in [RxCtxs -> SegRx], NEW i \in RxCtxs, NEW p \in air, Store(c, i, p)
  PROVE  /\ rx' \in [RxCtxs -> SegRx] /\ acks' \in [Sources -> Seq(Ack)]
         /\ rpl' \in [Sources -> Int] /\ delivered' \in [Sdus -> 0..2]
<1>1. /\ acks \in [Sources -> Seq(Ack)] /\ rpl \in [Sources -> Int]
      /\ delivered \in [Sdus -> 0..2] /\ p \in Pdu
  BY DEF TypeOK
<1>2. /\ p.sdu \in Sdus /\ SourceOf[p.sdu] \in Sources /\ p.seq \in Int
      /\ p.seq_zero \in 0..SeqZeros - 1
  BY <1>1, TransferAssumption DEF Pdu
<1>3. rx' \in [RxCtxs -> SegRx]
  BY <1>1, Stores
<1>4. CASE UNCHANGED <<acks, rpl, delivered>>
  BY <1>1, <1>3, <1>4
<1>5. CASE /\ SendAck(SourceOf[p.sdu], p.seq_zero, Segs)
           /\ rpl' = [rpl EXCEPT ![SourceOf[p.sdu]] = p.seq]
           /\ delivered' = [delivered EXCEPT ![p.sdu] = IF Delivers(c, i, p) THEN @ + 1 ELSE @]
  <2>1. acks' \in [Sources -> Seq(Ack)]
    BY <1>2, <1>5, AckSent
  <2>2. rpl' \in [Sources -> Int]
    BY <1>1, <1>2, <1>5
  <2>3. delivered' \in [Sdus -> 0..2]
    <3> DEFINE n == IF Delivers(c, i, p) THEN delivered[p.sdu] + 1 ELSE delivered[p.sdu]
    <3>1. n \in 0..2
      BY <1>1, <1>2 DEF Delivers
    <3>2. delivered' = [delivered EXCEPT ![p.sdu] = n]
      BY <1>1, <1>2, <1>5
    <3> HIDE DEF n
    <3> QED BY <1>1, <3>1, <3>2
  <2> QED BY <1>3, <2>1, <2>2, <2>3
<1> QED BY <1>1, <1>4, <1>5, Stores

\* Every step but the stuttering ones keeps the types.
LEMMA TypeStep == Typed /\ [Next]_vars => Typed'
<1> SUFFICES ASSUME TypeOK, Attributed, [Next]_vars PROVE TypeOK' /\ Attributed'
  BY DEF Typed
<1>1. ASSUME NEW s \in Sdus, NEW j \in 1..SegN + 1, SendSeg(s, j) PROVE TypeOK' /\ UNCHANGED rx
  BY <1>1, SendSegStep DEF SendSeg, Sends, receiverVars, TypeOK
<1>2. ASSUME NEW s \in Sdus, NEW K \in SUBSET Segs, NEW out \in BOOLEAN, Retransmit(s, K, out)
      PROVE  TypeOK' /\ UNCHANGED rx
  BY <1>2, RetransmitStep DEF Retransmit, Sends, receiverVars, TypeOK
<1>3. ASSUME NEW a \in Sources, NEW K \in SUBSET Segs, NEW out \in BOOLEAN, RecvAck(a, K, out)
      PROVE  TypeOK' /\ UNCHANGED rx
  <2>1. /\ acks[a] # <<>> /\ acks' = [acks EXCEPT ![a] = Tail(@)]
        /\ UNCHANGED receiverVars
        /\ \/ UNCHANGED senderVars /\ Lookup(a, Head(acks[a]).seq_zero) = {}
           \/ \E s \in Lookup(a, Head(acks[a]).seq_zero) : AckedBy(s, Head(acks[a]).block)
    BY <1>3, RecvAckStep
  <2>2. acks' \in [Sources -> Seq(Ack)]
    <3>1. acks \in [Sources -> Seq(Ack)] /\ acks[a] \in Seq(Ack)
      BY DEF TypeOK
    <3>2. Tail(acks[a]) \in Seq(Ack)
      BY <2>1, <3>1, HeadTailProperties
    <3> QED BY <2>1, <3>1, <3>2
  <2>3. seq' \in [Sources -> Nat] /\ tx' \in [Sdus -> SegTx] /\ air' \subseteq Pdu
    BY <2>1 DEF AckedBy, Sends, senderVars, TypeOK
  <2> QED BY <2>1, <2>2, <2>3 DEF receiverVars, TypeOK
<1>4. ASSUME NEW p \in air, RecvForOpen(p) PROVE TypeOK' /\ Attributed'
  <2> DEFINE i == First(Stops(p))
  <2>1. i \in RxCtxs /\ rx[i].in_use /\ Store(rx, i, p)
    BY <1>4, FoundIs DEF RecvForOpen
  <2> HIDE DEF i
  <2>2. /\ rx' \in [RxCtxs -> SegRx] /\ acks' \in [Sources -> Seq(Ack)]
        /\ rpl' \in [Sources -> Int] /\ delivered' \in [Sdus -> 0..2]
    BY <2>1, StoreTypes DEF TypeOK
  <2>3. TypeOK'
    BY <1>4, <2>2 DEF RecvForOpen, senderVars, TypeOK
  <2>4. (\A j \in RxCtxs : j # i => rx'[j] = rx[j]) /\ rx'[i].src = rx[i].src
    BY <2>1, Stores DEF TypeOK
  <2> QED BY <2>1, <2>3, <2>4 DEF Attributed
<1>5. ASSUME NEW a \in Sources, NEW z \in 0..SeqZeros - 1, NEW B \in SUBSET Segs, SendAck(a, z, B)
      PROVE  acks' \in [Sources -> Seq(Ack)]
  BY <1>5, AckSent
<1>6. ASSUME NEW p \in air, RecvForComplete(p) PROVE TypeOK' /\ UNCHANGED rx
  <2>1. SourceOf[p.sdu] \in Sources /\ p.seq_zero \in 0..SeqZeros - 1
    BY TransferAssumption DEF TypeOK, Pdu
  <2>2. acks' \in [Sources -> Seq(Ack)]
    BY <1>5, <1>6, <2>1 DEF RecvForComplete
  <2> QED BY <1>6, <2>2 DEF RecvForComplete, senderVars, receiverVars, TypeOK
<1>7. ASSUME NEW p \in air, RecvForNone(p) PROVE TypeOK' /\ Attributed'
  <2>1. PICK c, f, D : /\ Opens(p, c, f, D) /\ Store(c, f, p)
                       /\ lost' = [s \in Sdus |-> lost[s] \cup Loses(s, p, D, f)]
    BY <1>7, OpensStep
  <2>2. /\ rx' \in [RxCtxs -> SegRx] /\ acks' \in [Sources -> Seq(Ack)]
        /\ rpl' \in [Sources -> Int] /\ delivered' \in [Sdus -> 0..2]
    BY <2>1, StoreTypes DEF Opens
  <2>3. lost' \in [Sdus -> SUBSET Causes]
    <3>1. \A s \in Sdus : lost[s] \cup Loses(s, p, D, f) \in SUBSET Causes
      BY DEF TypeOK, Loses, Causes
    <3> QED BY <2>1, <3>1
  <2>4. TypeOK'
    BY <1>7, <2>2, <2>3 DEF RecvForNone, senderVars, TypeOK
  <2>5. p \in Pdu /\ SourceOf[p.sdu] \in Sources
    BY TransferAssumption DEF TypeOK, Pdu
  <2>6. (\A j \in RxCtxs : j # f => rx'[j] = c[j]) /\ rx'[f].src = c[f].src
    <3>1. c \in [RxCtxs -> SegRx] /\ f \in RxCtxs
      BY <2>1 DEF Opens
    <3> QED BY <2>1, <2>5, <3>1, Stores
  <2>7. rx'[f].src \in Sources
    <3>1. c[f] = NewRx(p)
      BY <2>1 DEF Opens
    <3> QED BY <2>5, <2>6, <3>1, NewRxIs
  <2>8. \A j \in RxCtxs : j # f /\ rx'[j].in_use => rx'[j].src \in Sources
    BY <2>1, <2>6 DEF Opens, Attributed
  <2> QED BY <2>4, <2>7, <2>8 DEF Attributed
<1>8. ASSUME NEW i \in RxCtxs, rx[i].in_use, NEW B \in SUBSET Segs,
             SendAck(rx[i].src, rx[i].seq_auth % SeqZeros, B)
      PROVE  acks' \in [Sources -> Seq(Ack)]
  <2>1. rx[i].seq_auth % SeqZeros \in 0..SeqZeros - 1 /\ rx[i].src \in Sources
    BY <1>8, ZeroIn DEF TypeOK, SegRx, Attributed
  <2> QED BY <1>5, <1>8, <2>1
<1>9. ASSUME NEW i \in RxCtxs, AckTimer(i) PROVE TypeOK' /\ UNCHANGED rx
  <2>1. rx[i].block \in SUBSET Segs
    BY DEF TypeOK, SegRx
  <2>2. acks' \in [Sources -> Seq(Ack)]
    BY <1>8, <1>9, <2>1 DEF AckTimer
  <2> QED BY <1>9, <2>2 DEF AckTimer, senderVars, receiverVars, TypeOK
<1>10. ASSUME NEW i \in RxCtxs, Incomplete(i) PROVE TypeOK' /\ Attributed'
  <2>1. acks' \in [Sources -> Seq(Ack)]
    <3>1. {} \in SUBSET Segs /\ rx[i].in_use /\ SendAck(rx[i].src, rx[i].seq_auth % SeqZeros, {})
      BY <1>10 DEF Incomplete
    <3> QED BY <1>8, <3>1
  <2>2. /\ rx' \in [RxCtxs -> SegRx] /\ ~rx'[i].in_use
        /\ \A j \in RxCtxs : j # i => rx'[j] = rx[j]
    BY <1>10, GivenUp
  <2> QED BY <1>10, <2>1, <2>2 DEF Incomplete, senderVars, TypeOK, Attributed
<1>11. CASE UNCHANGED vars
  BY <1>11 DEF vars, TypeOK, Attributed
<1>12. TypeOK' /\ UNCHANGED rx => Attributed'
  BY DEF Attributed
<1> QED BY <1>1, <1>2, <1>3, <1>4, <1>6, <1>7, <1>9, <1>10, <1>11, <1>12 DEF Next

(***************************************************************************)
(* The transfers, the contexts and the queues of acknowledgements keep     *)
(* their types: in particular, an acknowledgement always goes to a device, *)
(* never to the unassigned address (send_ack, seg_ack).                    *)
(***************************************************************************)
THEOREM TransferTypes == Spec => []TypeOK
<1>1. Init => Typed
  <2>1. Init => \A i \in RxCtxs : ~rx[i].in_use
    BY DEF Init, UnusedRx
  <2> QED BY <2>1, InitTypes DEF Typed, Attributed
<1>2. Typed => TypeOK
  BY DEF Typed
<1> QED BY <1>1, <1>2, TypeStep, PTL DEF Spec

-----------------------------------------------------------------------------
(***************************************************************************)
(* Delivered once.                                                         *)
(***************************************************************************)
\* A step is a device's or the receiver's.
LEMMA Sides ==
  ASSUME Typed, [Next]_vars
  PROVE  \/ UNCHANGED receiverVars /\ \E s \in Sdus : Sends(s)
         \/ UNCHANGED senderVars
<1>1. TypeOK
  BY DEF Typed
<1>2. ASSUME NEW s \in Sdus, NEW j \in 1..SegN + 1, SendSeg(s, j)
      PROVE  UNCHANGED receiverVars /\ Sends(s)
  BY <1>1, <1>2, SendSegStep DEF SendSeg
<1>3. ASSUME NEW s \in Sdus, NEW K \in SUBSET Segs, NEW out \in BOOLEAN, Retransmit(s, K, out)
      PROVE  UNCHANGED receiverVars /\ Sends(s)
  BY <1>1, <1>3, RetransmitStep DEF Retransmit
<1>4. ASSUME NEW a \in Sources, NEW K \in SUBSET Segs, NEW out \in BOOLEAN, RecvAck(a, K, out)
      PROVE  UNCHANGED receiverVars /\ (UNCHANGED senderVars \/ \E s \in Sdus : Sends(s))
  <2>1. /\ UNCHANGED receiverVars
        /\ \/ UNCHANGED senderVars /\ Lookup(a, Head(acks[a]).seq_zero) = {}
           \/ \E s \in Lookup(a, Head(acks[a]).seq_zero) : AckedBy(s, Head(acks[a]).block)
    BY <1>1, <1>4, RecvAckStep
  <2> QED BY <2>1 DEF AckedBy, Lookup
<1>5. ASSUME NEW p \in air, RecvForOpen(p) \/ RecvForComplete(p) \/ RecvForNone(p)
      PROVE  UNCHANGED senderVars
  BY <1>5 DEF RecvForOpen, RecvForComplete, RecvForNone
<1>6. ASSUME NEW i \in RxCtxs, AckTimer(i) \/ Incomplete(i) PROVE UNCHANGED senderVars
  BY <1>6 DEF AckTimer, Incomplete
<1>7. CASE UNCHANGED vars
  BY <1>7 DEF vars, senderVars
<1> QED BY <1>2, <1>3, <1>4, <1>5, <1>6, <1>7 DEF Next

\* An SDU that was sent keeps its sequence number.
LEMMA SentStays ==
  ASSUME Typed, [Next]_vars, NEW s \in Sdus, Sent(s)
  PROVE  Sent(s)' /\ tx'[s].seq_auth = tx[s].seq_auth /\ Zero(s)' = Zero(s)
<1>1. Sent(s)' /\ tx'[s].seq_auth = tx[s].seq_auth
  BY Sides DEF Sent, Sends, senderVars
<1> QED BY <1>1 DEF Zero

LEMMA OnAirStep == Typed /\ OnAir /\ [Next]_vars => OnAir'
<1> SUFFICES ASSUME Typed, OnAir, [Next]_vars, NEW p \in air'
             PROVE  Sent(p.sdu)' /\ p.seq_zero = Zero(p.sdu)'
  BY DEF OnAir
<1>1. CASE p \in air
  <2>1. p.sdu \in Sdus
    BY <1>1 DEF Typed, TypeOK, Pdu
  <2>2. Sent(p.sdu) /\ p.seq_zero = Zero(p.sdu)
    BY <1>1 DEF OnAir
  <2> QED BY <2>1, <2>2, SentStays
<1>2. CASE p \notin air
  <2>1. PICK s \in Sdus : Sends(s)
    BY <1>2, Sides DEF senderVars
  <2> QED BY <1>2, <2>1 DEF Sends, Sent, Zero
<1> QED BY <1>1, <1>2

\* What keeps the memory of a delivery.
LEMMA StaysRemembered ==
  ASSUME NEW s \in Sdus, NEW k \in RxCtxs, Remembered(s, k), tx'[s].seq_auth = tx[s].seq_auth,
         rx'[k].src = rx[k].src, rx'[k].seq_auth = rx[k].seq_auth, rx'[k].block = rx[k].block,
         rx[k].sdus \subseteq rx'[k].sdus, ~rx'[k].in_use,
         \A j \in RxCtxs : j < k =>
           \/ /\ rx'[j].src = rx[j].src /\ rx'[j].seq_auth = rx[j].seq_auth
              /\ rx[j].sdus \subseteq rx'[j].sdus
           \/ \E u \in rx'[j].sdus : u # s
  PROVE  Remembered(s, k)'
BY DEF Remembered

\* A segment stored in a context in use.
LEMMA OnceOpen ==
  ASSUME Typed, OnAir, Once, NEW p \in air, RecvForOpen(p)
  PROVE  Once'
<1> PICK i : i = First(Stops(p))
  OBVIOUS
<1>1. /\ i \in RxCtxs /\ rx[i].src = SourceOf[p.sdu] /\ rx[i].seq_auth = SeqAuth(p)
      /\ \A k \in RxCtxs : rx[k].src = SourceOf[p.sdu] /\ rx[k].seq_auth = SeqAuth(p) => i <= k
  BY FoundIs DEF RecvForOpen, Typed
<1>2. rx[i].in_use /\ Store(rx, i, p) /\ UNCHANGED <<seq, tx, air, lost>>
  BY DEF RecvForOpen, senderVars
<1>3. /\ TypeOK /\ rx \in [RxCtxs -> SegRx] /\ delivered \in [Sdus -> 0..2]
      /\ p \in Pdu /\ p.sdu \in Sdus
  BY DEF Typed, TypeOK, Pdu
<1>4. /\ \A j \in RxCtxs : j # i => rx'[j] = rx[j]
      /\ rx'[i].src = rx[i].src /\ rx'[i].seq_auth = rx[i].seq_auth
      /\ rx'[i].sdus = rx[i].sdus \cup {p.sdu}
      /\ \/ UNCHANGED delivered
         \/ /\ rx'[i].in_use = FALSE /\ rx'[i].block = Segs
            /\ delivered' = [delivered EXCEPT ![p.sdu] = IF Delivers(rx, i, p) THEN @ + 1 ELSE @]
  BY <1>1, <1>2, <1>3, Stores
<1>5. ASSUME NEW s \in Sdus, NEW k \in RxCtxs, Remembered(s, k) PROVE Remembered(s, k)'
  <2>1. k # i
    BY <1>2, <1>5 DEF Remembered
  <2>2. \A j \in RxCtxs : rx'[j].src = rx[j].src /\ rx'[j].seq_auth = rx[j].seq_auth
                          /\ rx[j].sdus \subseteq rx'[j].sdus
    BY <1>4
  <2>3. rx'[k] = rx[k] /\ ~rx'[k].in_use
    BY <1>4, <1>5, <2>1 DEF Remembered
  <2> QED BY <1>2, <1>5, <2>2, <2>3, StaysRemembered
<1>6. ASSUME NEW s \in Sdus, NEW k \in RxCtxs, Remembered(s, k), s = p.sdu
      PROVE  ~Delivers(rx, i, p)
  <2> SUFFICES ASSUME Delivers(rx, i, p) PROVE FALSE
    OBVIOUS
  <2>1. rx[i].seq_auth = tx[s].seq_auth /\ rx[i].sdus \subseteq {s}
    BY <1>6 DEF Delivers
  <2>2. rx[k].src = SourceOf[s] /\ rx[k].seq_auth = tx[s].seq_auth /\ k # i
    BY <1>2, <1>6 DEF Remembered
  <2>3. i <= k
    BY <1>1, <1>6, <2>1, <2>2
  <2>4. i < k
    BY <1>1, <2>2, <2>3, TransferAssumption DEF RxCtxs
  <2> QED BY <1>1, <1>6, <2>1, <2>4 DEF Remembered
<1>7. ASSUME NEW s \in Sdus, delivered[s] = 0, delivered'[s] > 0
      PROVE  delivered'[s] = 1 /\ Remembered(s, i)'
  <2>1. ~UNCHANGED delivered
    BY <1>7
  <2>2. s = p.sdu /\ Delivers(rx, i, p) /\ delivered'[s] = 1
    BY <1>3, <1>4, <1>7, <2>1
  <2>3. rx[i].seq_auth = tx[s].seq_auth
    BY <2>2 DEF Delivers
  <2>4. \A j \in RxCtxs : j < i => ~(rx'[j].src = SourceOf[s] /\ rx'[j].seq_auth = tx[s].seq_auth)
    <3> SUFFICES ASSUME NEW j \in RxCtxs, j < i, rx'[j].src = SourceOf[s],
                        rx'[j].seq_auth = tx[s].seq_auth
                 PROVE  FALSE
      OBVIOUS
    <3>1. i <= j
      BY <1>1, <1>4, <2>2, <2>3
    <3> QED BY <1>1, <3>1, TransferAssumption DEF RxCtxs
  <2> QED BY <1>1, <1>2, <1>4, <2>1, <2>2, <2>3, <2>4 DEF Remembered
<1>8. SUFFICES ASSUME NEW s \in Sdus, delivered'[s] > 0
               PROVE  /\ Sent(s)'
                      /\ lost[s] \cap {"reallocated", "shadowed"} = {} =>
                           delivered'[s] = 1 /\ \E k \in RxCtxs : Remembered(s, k)'
  BY <1>2 DEF Once
<1>9. CASE delivered[s] = 0
  <2>1. s = p.sdu
    BY <1>3, <1>4, <1>8, <1>9
  <2> QED BY <1>1, <1>2, <1>7, <1>8, <1>9, <2>1 DEF OnAir, Sent
<1>10. CASE delivered[s] > 0
  <2>1. Sent(s)'
    BY <1>2, <1>10 DEF Once, Sent
  <2>2. ASSUME lost[s] \cap {"reallocated", "shadowed"} = {}
        PROVE  delivered'[s] = 1 /\ \E k \in RxCtxs : Remembered(s, k)'
    <3>1. delivered[s] = 1
      BY <1>10, <2>2 DEF Once
    <3>2. PICK k \in RxCtxs : Remembered(s, k)
      BY <1>10, <2>2 DEF Once
    <3>3. delivered'[s] = delivered[s]
      BY <1>3, <1>4, <1>6, <3>2
    <3> QED BY <1>5, <3>1, <3>2, <3>3
  <2> QED BY <2>1, <2>2
<1>11. delivered[s] = 0 \/ delivered[s] > 0
  BY <1>3
<1> QED BY <1>9, <1>10, <1>11

\* A segment that got a new context.
LEMMA OnceNone ==
  ASSUME Typed, OnAir, Once, NEW p \in air, RecvForNone(p)
  PROVE  Once'
<1>1. PICK c, f, D : /\ Opens(p, c, f, D) /\ Store(c, f, p)
                     /\ lost' = [s \in Sdus |-> lost[s] \cup Loses(s, p, D, f)]
  BY OpensStep DEF Typed
<1>2. /\ TypeOK /\ rx \in [RxCtxs -> SegRx] /\ delivered \in [Sdus -> 0..2]
      /\ p \in Pdu /\ p.sdu \in Sdus /\ tx' = tx
  BY DEF Typed, TypeOK, Pdu, RecvForNone, senderVars
<1>3. c \in [RxCtxs -> SegRx] /\ f \in RxCtxs /\ c[f] = NewRx(p) /\ \A k \in Stops(p) : f <= k
  BY <1>1 DEF Opens
<1>4. \A j \in RxCtxs : j # f =>
        /\ c[j].src = rx[j].src /\ c[j].seq_auth = rx[j].seq_auth
        /\ c[j].block = rx[j].block /\ c[j].sdus = rx[j].sdus
        /\ c[j].in_use => rx[j].in_use
  BY <1>1 DEF Opens
<1>5. /\ c[f].src = SourceOf[p.sdu] /\ c[f].seq_auth = SeqAuth(p) /\ c[f].sdus = {}
  BY <1>3, NewRxIs
<1>6. /\ \A j \in RxCtxs : j # f => rx'[j] = c[j]
      /\ rx'[f].src = c[f].src /\ rx'[f].seq_auth = c[f].seq_auth
      /\ rx'[f].sdus = c[f].sdus \cup {p.sdu}
      /\ \/ UNCHANGED delivered
         \/ /\ rx'[f].in_use = FALSE /\ rx'[f].block = Segs
            /\ delivered' = [delivered EXCEPT ![p.sdu] = IF Delivers(c, f, p) THEN @ + 1 ELSE @]
  BY <1>1, <1>2, <1>3, Stores
<1>7. ASSUME NEW s \in Sdus, NEW k \in RxCtxs, Remembered(s, k),
             lost'[s] \cap {"reallocated", "shadowed"} = {}
      PROVE  s # p.sdu /\ Remembered(s, k)'
  <2>1. Loses(s, p, D, f) \cap {"reallocated", "shadowed"} = {}
    BY <1>1, <1>7
  <2>2. s \in rx[k].sdus /\ rx[k].block = Segs /\ ~rx[k].in_use
    BY <1>7 DEF Remembered
  <2>3. k # f
    <3>1. ~(s \in rx[f].sdus /\ rx[f].block = Segs)
      BY <2>1 DEF Loses
    <3> QED BY <2>2, <3>1
  <2>4. s # p.sdu
    <3>1. ~(s = p.sdu /\ \E i \in RxCtxs \ {f} : s \in rx[i].sdus /\ rx[i].block = Segs)
      BY <2>1 DEF Loses
    <3> QED BY <2>2, <2>3, <3>1
  <2>5. /\ rx'[k].src = rx[k].src /\ rx'[k].seq_auth = rx[k].seq_auth
        /\ rx'[k].block = rx[k].block /\ rx[k].sdus \subseteq rx'[k].sdus /\ ~rx'[k].in_use
    BY <1>4, <1>6, <2>2, <2>3
  <2>6. \A j \in RxCtxs :
          \/ /\ rx'[j].src = rx[j].src /\ rx'[j].seq_auth = rx[j].seq_auth
             /\ rx[j].sdus \subseteq rx'[j].sdus
          \/ \E u \in rx'[j].sdus : u # s
    BY <1>4, <1>6, <2>4
  <2> QED BY <1>2, <1>7, <2>4, <2>5, <2>6, StaysRemembered
<1>8. ASSUME NEW s \in Sdus, delivered[s] = 0, delivered'[s] > 0
      PROVE  delivered'[s] = 1 /\ Remembered(s, f)'
  <2>1. ~UNCHANGED delivered
    BY <1>8
  <2>2. s = p.sdu /\ Delivers(c, f, p) /\ delivered'[s] = 1
    BY <1>2, <1>6, <1>8, <2>1
  <2>3. c[f].seq_auth = tx[s].seq_auth
    BY <2>2 DEF Delivers
  <2>4. \A j \in RxCtxs : j < f => ~(rx'[j].src = SourceOf[s] /\ rx'[j].seq_auth = tx[s].seq_auth)
    <3> SUFFICES ASSUME NEW j \in RxCtxs, j < f, rx'[j].src = SourceOf[s],
                        rx'[j].seq_auth = tx[s].seq_auth
                 PROVE  FALSE
      OBVIOUS
    <3>1. j # f
      BY <1>3, TransferAssumption DEF RxCtxs
    <3>2. rx[j].src = SourceOf[s] /\ rx[j].seq_auth = tx[s].seq_auth
      BY <1>4, <1>6, <3>1
    <3>3. j \in Stops(p)
      BY <1>5, <2>2, <2>3, <3>2 DEF Stops
    <3>4. f <= j
      BY <1>3, <3>3
    <3> QED BY <1>3, <3>4, TransferAssumption DEF RxCtxs
  <2> QED BY <1>2, <1>3, <1>5, <1>6, <2>1, <2>2, <2>3, <2>4 DEF Remembered
<1>9. SUFFICES ASSUME NEW s \in Sdus, delivered'[s] > 0
               PROVE  /\ Sent(s)'
                      /\ lost'[s] \cap {"reallocated", "shadowed"} = {} =>
                           delivered'[s] = 1 /\ \E k \in RxCtxs : Remembered(s, k)'
  BY DEF Once
<1>10. CASE delivered[s] = 0
  <2>1. s = p.sdu
    BY <1>2, <1>6, <1>9, <1>10
  <2> QED BY <1>2, <1>3, <1>8, <1>9, <1>10, <2>1 DEF OnAir, Sent
<1>11. CASE delivered[s] > 0
  <2>1. Sent(s)'
    BY <1>2, <1>11 DEF Once, Sent
  <2>2. ASSUME lost'[s] \cap {"reallocated", "shadowed"} = {}
        PROVE  delivered'[s] = 1 /\ \E k \in RxCtxs : Remembered(s, k)'
    <3>1. lost[s] \cap {"reallocated", "shadowed"} = {}
      BY <1>1, <2>2
    <3>2. delivered[s] = 1
      BY <1>11, <3>1 DEF Once
    <3>3. PICK k \in RxCtxs : Remembered(s, k)
      BY <1>11, <3>1 DEF Once
    <3>4. s # p.sdu /\ Remembered(s, k)'
      BY <1>7, <2>2, <3>3
    <3>5. delivered'[s] = delivered[s]
      BY <1>2, <1>6, <3>4
    <3> QED BY <3>2, <3>4, <3>5
  <2> QED BY <2>1, <2>2
<1>12. delivered[s] = 0 \/ delivered[s] > 0
  BY <1>2
<1> QED BY <1>10, <1>11, <1>12

LEMMA OnceStep == Typed /\ OnAir /\ Once /\ [Next]_vars => Once'
<1> SUFFICES ASSUME Typed, OnAir, Once, [Next]_vars PROVE Once'
  OBVIOUS
<1>1. ASSUME UNCHANGED <<delivered, lost>>,
             \A s \in Sdus, k \in RxCtxs : Sent(s) /\ Remembered(s, k) => Remembered(s, k)'
      PROVE  Once'
  <2> SUFFICES ASSUME NEW s \in Sdus, delivered[s] > 0
               PROVE  /\ Sent(s)'
                      /\ lost[s] \cap {"reallocated", "shadowed"} = {} =>
                           delivered[s] = 1 /\ \E k \in RxCtxs : Remembered(s, k)'
    BY <1>1 DEF Once
  <2>1. Sent(s)
    BY DEF Once
  <2> QED BY <1>1, <2>1, SentStays DEF Once
<1>2. CASE UNCHANGED receiverVars
  <2>1. ASSUME NEW s \in Sdus, NEW k \in RxCtxs, Sent(s), Remembered(s, k) PROVE Remembered(s, k)'
    <3>1. tx'[s].seq_auth = tx[s].seq_auth /\ rx' = rx
      BY <1>2, <2>1, SentStays DEF receiverVars
    <3> QED BY <2>1, <3>1 DEF Remembered
  <2> QED BY <1>1, <1>2, <2>1 DEF receiverVars
<1>3. ASSUME NEW i \in RxCtxs, Incomplete(i) PROVE Once'
  <2>1. /\ rx'[i].in_use = FALSE /\ rx'[i].src = rx[i].src /\ rx'[i].seq_auth = rx[i].seq_auth
        /\ rx'[i].block = rx[i].block /\ rx'[i].sdus = rx[i].sdus
        /\ \A j \in RxCtxs : j # i => rx'[j] = rx[j]
    BY <1>3, GivenUp DEF Typed
  <2>2. ASSUME NEW s \in Sdus, NEW k \in RxCtxs, Sent(s), Remembered(s, k) PROVE Remembered(s, k)'
    <3>1. tx'[s].seq_auth = tx[s].seq_auth
      BY <2>2, SentStays
    <3>2. ~rx'[k].in_use
      BY <2>1, <2>2 DEF Remembered
    <3>3. \A j \in RxCtxs : /\ rx'[j].src = rx[j].src /\ rx'[j].seq_auth = rx[j].seq_auth
                            /\ rx'[j].block = rx[j].block /\ rx'[j].sdus = rx[j].sdus
      BY <2>1
    <3> QED BY <2>2, <3>1, <3>2, <3>3, StaysRemembered
  <2> QED BY <1>1, <1>3, <2>2 DEF Incomplete
<1>4. ASSUME NEW p \in air, RecvForComplete(p) PROVE UNCHANGED receiverVars
  BY <1>4 DEF RecvForComplete
<1>5. ASSUME NEW i \in RxCtxs, AckTimer(i) PROVE UNCHANGED receiverVars
  BY <1>5 DEF AckTimer
<1>6. CASE UNCHANGED vars
  BY <1>2, <1>6 DEF vars, receiverVars
<1>7. ASSUME NEW s \in Sdus, NEW j \in 1..SegN + 1, SendSeg(s, j) PROVE UNCHANGED receiverVars
  BY <1>7 DEF SendSeg
<1>8. ASSUME NEW s \in Sdus, NEW K \in SUBSET Segs, NEW out \in BOOLEAN, Retransmit(s, K, out)
      PROVE  UNCHANGED receiverVars
  BY <1>8 DEF Retransmit
<1>9. ASSUME NEW a \in Sources, NEW K \in SUBSET Segs, NEW out \in BOOLEAN, RecvAck(a, K, out)
      PROVE  UNCHANGED receiverVars
  BY <1>9 DEF RecvAck
<1> QED BY <1>2, <1>3, <1>4, <1>5, <1>6, <1>7, <1>8, <1>9, OnceOpen, OnceNone DEF Next

(***************************************************************************)
(* An SDU reaches the upper transport layer once, however often its        *)
(* segments arrive, as long as its completed context was neither           *)
(* reallocated nor hidden behind another (seg_rx_find, trans_seg).         *)
(***************************************************************************)
THEOREM DeliversOnce == Spec => []DeliveredOnce
<1>1. Init => OnceInv
  <2> SUFFICES ASSUME Init PROVE OnceInv
    OBVIOUS
  <2>1. TypeOK /\ \A i \in RxCtxs : ~rx[i].in_use
    BY InitTypes DEF Init, UnusedRx
  <2>2. air = {} /\ \A s \in Sdus : delivered[s] = 0
    BY DEF Init
  <2>3. OnAir
    BY <2>2 DEF OnAir
  <2>4. Once
    BY <2>2 DEF Once
  <2> QED BY <2>1, <2>3, <2>4 DEF OnceInv, Typed, Attributed
<1>2. OnceInv /\ [Next]_vars => OnceInv'
  BY TypeStep, OnAirStep, OnceStep DEF OnceInv
<1>3. OnceInv => DeliveredOnce
  <2> SUFFICES ASSUME OnceInv, NEW s \in Sdus, lost[s] \cap {"reallocated", "shadowed"} = {}
               PROVE  delivered[s] < 2
    BY DEF DeliveredOnce
  <2>1. delivered[s] \in 0..2
    BY DEF OnceInv, Typed, TypeOK
  <2>2. delivered[s] > 0 => delivered[s] = 1
    BY DEF OnceInv, Once
  <2> QED BY ONLY <2>1, <2>2
<1> QED BY <1>1, <1>2, <1>3, PTL DEF Spec

-----------------------------------------------------------------------------
(***************************************************************************)
(* Success is delivery.                                                    *)
(***************************************************************************)
\* An acknowledgement under way after the step was so before it.
NoNewAck ==
  \A b \in Sources : \A n \in 1..Len(acks'[b]) :
    \E m \in 1..Len(acks[b]) : acks'[b][n] = acks[b][m]

\* Or it is this one.
NewAck(a, zero, block) ==
  \A b \in Sources : \A n \in 1..Len(acks'[b]) :
    \/ \E m \in 1..Len(acks[b]) : acks'[b][n] = acks[b][m]
    \/ b = a /\ Lookup(a, zero) # {} /\ acks'[b][n] = [seq_zero |-> zero, block |-> block]

LEMMA SendsOne ==
  ASSUME TypeOK, NEW a \in Sources, NEW zero \in 0..SeqZeros - 1, NEW block \in SUBSET Segs,
         SendAck(a, zero, block)
  PROVE  NewAck(a, zero, block)
<1>1. /\ \A b \in Sources : b # a => acks'[b] = acks[b]
      /\ \A n \in 1..Len(acks'[a]) :
           \/ n \in 1..Len(acks[a]) /\ acks'[a][n] = acks[a][n]
           \/ Lookup(a, zero) # {} /\ acks'[a][n] = [seq_zero |-> zero, block |-> block]
  BY AckSent
<1> QED BY <1>1 DEF NewAck

LEMMA TakesOne ==
  ASSUME TypeOK, NEW a \in Sources, acks[a] # <<>>, acks' = [acks EXCEPT ![a] = Tail(@)]
  PROVE  NoNewAck /\ 1 \in 1..Len(acks[a]) /\ Head(acks[a]) = acks[a][1]
<1>1. acks \in [Sources -> Seq(Ack)] /\ acks[a] \in Seq(Ack)
  BY DEF TypeOK
<1>2. acks'[a] = Tail(acks[a]) /\ \A b \in Sources : b # a => acks'[b] = acks[b]
  BY <1>1
<1> DEFINE q == acks[a]
           r == Tail(q)
<1>3. q \in Seq(Ack) /\ q # <<>>
  BY <1>1
<1> HIDE DEF q
<1>4. Len(q) \in Nat \ {0} /\ Len(r) = Len(q) - 1 /\ Head(q) = q[1]
      /\ \A n \in 1..Len(r) : r[n] = q[n + 1]
  <2>1. Len(q) \in Nat /\ Len(q) # 0
    BY <1>3, EmptySeq, LenProperties
  <2>2. Len(r) = Len(q) - 1 /\ \A n \in 1..Len(q) - 1 : r[n] = q[n + 1]
    BY <1>3, HeadTailProperties
  <2> QED BY <1>3, <2>1, <2>2
<1> HIDE DEF r
<1>5. 1 \in 1..Len(q) /\ \A n \in 1..Len(r) : n + 1 \in 1..Len(q) /\ r[n] = q[n + 1]
  BY <1>4
<1> QED BY <1>2, <1>4, <1>5 DEF NoNewAck, q, r

LEMMA AckedBefore ==
  ASSUME NoNewAck, NEW s \in Sdus, NEW o, tx'[s].seq_auth = tx[s].seq_auth,
         o \in tx[s].unacked => o \in tx'[s].unacked, Acked(s, o)'
  PROVE  Acked(s, o)
<1>1. SourceOf[s] \in Sources
  BY TransferAssumption
<1> QED BY <1>1 DEF NoNewAck, Acked, Zero

LEMMA AckedNow ==
  ASSUME NEW a, NEW zero, NEW block, NewAck(a, zero, block), UNCHANGED tx,
         NEW s \in Sdus, NEW o, Acked(s, o)'
  PROVE  Acked(s, o) \/ (SourceOf[s] = a /\ Zero(s) = zero /\ o \in block)
<1>1. SourceOf[s] \in Sources
  BY TransferAssumption
<1>2. CASE o \notin tx'[s].unacked
  BY <1>2 DEF Acked
<1>3. CASE o \in tx'[s].unacked
  <2>1. PICK n \in 1..Len(acks'[SourceOf[s]]) :
          acks'[SourceOf[s]][n].seq_zero = Zero(s) /\ o \in acks'[SourceOf[s]][n].block
    BY <1>3 DEF Acked, Zero
  <2>2. CASE \E m \in 1..Len(acks[SourceOf[s]]) : acks'[SourceOf[s]][n] = acks[SourceOf[s]][m]
    BY <2>1, <2>2 DEF Acked
  <2>3. CASE SourceOf[s] = a /\ acks'[SourceOf[s]][n] = [seq_zero |-> zero, block |-> block]
    BY <2>1, <2>3
  <2> QED BY <1>1, <2>1, <2>2, <2>3 DEF NewAck
<1> QED BY <1>2, <1>3

\* A transfer that straddled nothing after the step did not before it.
LEMMA StillWhole ==
  ASSUME Typed, [Next]_vars, NEW s \in Sdus, Sent(s), ~Straddles(s)'
  PROVE  ~Straddles(s)
<1>1. tx'[s].seq_auth = tx[s].seq_auth
  BY SentStays
<1>2. air \subseteq air'
  BY Sides DEF Sends, senderVars
<1> QED BY <1>1, <1>2 DEF Straddles, SeqAuth

\* The SeqAuth of a context has the SeqZero of the SDU it is for.
LEMMA ZeroOf ==
  ASSUME Typed, OnAir, Held, NEW i \in RxCtxs, NEW s \in rx[i].sdus
  PROVE  /\ s \in Sdus /\ Sent(s) /\ SourceOf[s] = rx[i].src
         /\ Zero(s) = rx[i].seq_auth % SeqZeros
         /\ ~Straddles(s) => rx[i].seq_auth = tx[s].seq_auth
<1>1. s \in Sdus
  BY DEF Typed, TypeOK, SegRx
<1>2. PICK p \in air : p.sdu = s /\ SeqAuth(p) = rx[i].seq_auth
  BY DEF Held
<1>3. p \in Pdu /\ p.seq_zero = Zero(s)
  BY <1>2 DEF Typed, TypeOK, OnAir
<1>4. SeqAuth(p) % SeqZeros = p.seq_zero
  BY <1>3, SeqAuthIs
<1> QED BY <1>1, <1>2, <1>3, <1>4 DEF Held, Straddles

\* A context for the SeqAuth of a segment has no segment of another SDU.
LEMMA OneSdu ==
  ASSUME Typed, OnAir, Held, SeqZeroFresh, NEW i \in RxCtxs, NEW p \in air,
         rx[i].src = SourceOf[p.sdu], rx[i].seq_auth = SeqAuth(p)
  PROVE  rx[i].sdus \subseteq {p.sdu}
<1> SUFFICES ASSUME NEW s \in rx[i].sdus PROVE s = p.sdu
  OBVIOUS
<1>1. p \in Pdu /\ p.sdu \in Sdus /\ Sent(p.sdu) /\ p.seq_zero = Zero(p.sdu)
  BY DEF Typed, TypeOK, OnAir, Pdu
<1>2. SeqAuth(p) % SeqZeros = p.seq_zero
  BY <1>1, SeqAuthIs
<1>3. s \in Sdus /\ Sent(s) /\ SourceOf[s] = rx[i].src /\ Zero(s) = rx[i].seq_auth % SeqZeros
  BY ZeroOf
<1> QED BY <1>1, <1>2, <1>3 DEF SeqZeroFresh

\* What a device's step makes of transfer s.
Moves(s) ==
  \/ tx'[s] = tx[s]
  \/ /\ tx[s].state = "new" /\ tx'[s].state \in {"active", "failed"}
     /\ tx'[s].state = "active" => tx'[s].unacked = Segs
  \/ /\ Active(s) /\ tx'[s].seq_auth = tx[s].seq_auth
     /\ tx'[s].state = "active" => \A o \in Segs : o \notin tx'[s].unacked => Acked(s, o)
     /\ tx'[s].state = "ok" => \A o \in Segs : Acked(s, o)

LEMMA SenderSteps ==
  ASSUME TypeOK,
         \/ \E s \in Sdus, j \in 1..SegN + 1 : SendSeg(s, j)
         \/ \E s \in Sdus, K \in SUBSET Segs, out \in BOOLEAN : Retransmit(s, K, out)
         \/ \E a \in Sources, K \in SUBSET Segs, out \in BOOLEAN : RecvAck(a, K, out)
  PROVE  UNCHANGED receiverVars /\ NoNewAck /\ \A s \in Sdus : Moves(s)
<1>1. UNCHANGED acks => NoNewAck
  BY DEF NoNewAck
<1>2. ASSUME NEW s \in Sdus, NEW j \in 1..SegN + 1, SendSeg(s, j)
      PROVE  UNCHANGED receiverVars /\ NoNewAck /\ \A u \in Sdus : Moves(u)
  <2>1. /\ Sends(s) /\ tx[s].state = "new" /\ tx'[s].state \in {"active", "failed"}
        /\ tx'[s].state = "active" => tx'[s].unacked = Segs
    BY <1>2, SendSegStep
  <2>2. Moves(s) /\ \A u \in Sdus : u # s => Moves(u)
    BY <2>1 DEF Moves, Sends
  <2> QED BY <1>1, <1>2, <2>2 DEF SendSeg
<1>3. ASSUME NEW s \in Sdus, NEW K \in SUBSET Segs, NEW out \in BOOLEAN, Retransmit(s, K, out)
      PROVE  UNCHANGED receiverVars /\ NoNewAck /\ \A u \in Sdus : Moves(u)
  <2>1. /\ Sends(s) /\ Active(s) /\ tx'[s].state \in {"active", "failed"}
        /\ tx'[s].state = "active" => tx'[s].unacked = tx[s].unacked
    BY <1>3, RetransmitStep
  <2>2. tx'[s].seq_auth = tx[s].seq_auth /\ \A u \in Sdus : u # s => Moves(u)
    BY <2>1 DEF Moves, Sends, Active
  <2>3. Moves(s)
    BY <2>1, <2>2 DEF Moves, Acked
  <2> QED BY <1>1, <1>3, <2>2, <2>3 DEF Retransmit
<1>4. ASSUME NEW a \in Sources, NEW K \in SUBSET Segs, NEW out \in BOOLEAN, RecvAck(a, K, out)
      PROVE  UNCHANGED receiverVars /\ NoNewAck /\ \A u \in Sdus : Moves(u)
  <2>1. /\ acks[a] # <<>> /\ acks' = [acks EXCEPT ![a] = Tail(@)]
        /\ UNCHANGED receiverVars
        /\ \/ UNCHANGED senderVars /\ Lookup(a, Head(acks[a]).seq_zero) = {}
           \/ \E s \in Lookup(a, Head(acks[a]).seq_zero) : AckedBy(s, Head(acks[a]).block)
    BY <1>4, RecvAckStep
  <2>2. NoNewAck /\ 1 \in 1..Len(acks[a]) /\ Head(acks[a]) = acks[a][1]
    BY <2>1, TakesOne
  <2>3. CASE UNCHANGED senderVars
    BY <2>1, <2>2, <2>3 DEF senderVars, Moves
  <2>4. ASSUME NEW s \in Lookup(a, Head(acks[a]).seq_zero), AckedBy(s, Head(acks[a]).block)
        PROVE  \A u \in Sdus : Moves(u)
    <3>1. s \in Sdus /\ SourceOf[s] = a /\ Zero(s) = acks[a][1].seq_zero
      BY <2>2 DEF Lookup, Zero
    <3>2. /\ Active(s) /\ Sends(s)
          /\ tx'[s].state = "active" => tx'[s].unacked = tx[s].unacked \ acks[a][1].block
          /\ tx'[s].state = "ok" => tx[s].unacked \subseteq acks[a][1].block
      BY <2>2, <2>4 DEF AckedBy
    <3>3. \A o : o \in acks[a][1].block => Acked(s, o)
      BY <2>2, <3>1 DEF Acked
    <3>4. \A o : o \notin tx[s].unacked => Acked(s, o)
      BY DEF Acked
    <3>5. tx'[s].seq_auth = tx[s].seq_auth /\ \A u \in Sdus : u # s => Moves(u)
      BY <3>2 DEF Moves, Sends, Active
    <3>6. Moves(s)
      BY <3>2, <3>3, <3>4, <3>5 DEF Moves
    <3> QED BY <3>5, <3>6
  <2> QED BY <2>1, <2>2, <2>3, <2>4
<1> QED BY <1>2, <1>3, <1>4

\* When every segment is acknowledged the SDU was delivered.
LEMMA AllAcked ==
  ASSUME SuccessInv, NEW s \in Sdus, Active(s), "displaced" \notin lost[s], ~Straddles(s),
         \A o \in Segs : Acked(s, o)
  PROVE  delivered[s] > 0
<1> SUFFICES ASSUME delivered[s] = 0 PROVE FALSE
  <2>1. delivered[s] \in 0..2
    BY DEF SuccessInv, Typed, TypeOK
  <2> QED BY <2>1
<1>1. \A o \in Segs : \E i \in RxCtxs : rx[i].in_use /\ s \in rx[i].sdus /\ o \in rx[i].block
  BY DEF SuccessInv, Backed
<1>2. 0 \in Segs
  BY TransferAssumption DEF Segs
<1>3. PICK i \in RxCtxs : rx[i].in_use /\ s \in rx[i].sdus
  BY <1>1, <1>2
<1>4. \A o \in Segs : o \in rx[i].block
  <2> TAKE o \in Segs
  <2>1. PICK k \in RxCtxs : rx[k].in_use /\ s \in rx[k].sdus /\ o \in rx[k].block
    BY <1>1
  <2>2. rx[k].src = rx[i].src
    BY <1>3, <2>1 DEF SuccessInv, Held
  <2>3. k = i
    BY <1>3, <2>1, <2>2 DEF SuccessInv, Open
  <2> QED BY <2>1, <2>3
<1>5. rx[i].block \subseteq Segs
  BY DEF SuccessInv, Typed, TypeOK, SegRx
<1>6. rx[i].block = Segs
  BY <1>4, <1>5
<1> QED BY <1>3, <1>6 DEF SuccessInv, Open

LEMMA SuccessSender ==
  ASSUME SuccessInv, SeqZeroFresh', [Next]_vars, UNCHANGED receiverVars, NoNewAck,
         \A s \in Sdus : Moves(s)
  PROVE  (Held /\ Open /\ Full /\ AckFor /\ Backed /\ SuccessIsDelivery)'
<1>1. Typed /\ UNCHANGED <<rx, delivered, lost>>
  BY DEF SuccessInv, receiverVars
<1>2. \A s \in Sdus : Sent(s) => Sent(s)' /\ Zero(s)' = Zero(s)
  BY <1>1, SentStays
<1>3. \A s \in Sdus : Sent(s) /\ ~Straddles(s)' => ~Straddles(s)
  BY <1>1, StillWhole
<1>4. air \subseteq air'
  BY <1>1, Sides DEF Sends, senderVars
<1>5. \A i \in RxCtxs : rx[i].sdus \subseteq Sdus
  BY DEF SuccessInv, Typed, TypeOK, SegRx
<1>6. Held'
  BY <1>1, <1>2, <1>4, <1>5 DEF SuccessInv, Held, SeqAuth
<1>7. Open'
  BY <1>1 DEF SuccessInv, Open
<1>8. Full'
  <2> SUFFICES ASSUME NEW i \in RxCtxs, rx[i].block = Segs
               PROVE  rx[i].sdus # {} /\ \A s \in rx[i].sdus : ~Straddles(s)' => delivered[s] > 0
    BY <1>1 DEF Full
  <2>1. \A s \in rx[i].sdus : s \in Sdus /\ Sent(s)
    BY <1>5 DEF SuccessInv, Held
  <2> QED BY <1>3, <2>1 DEF SuccessInv, Full
<1>9. AckFor'
  <2> SUFFICES ASSUME NEW a \in Sources, NEW n \in 1..Len(acks'[a])
               PROVE  \E s \in Sdus : Sent(s)' /\ SourceOf[s] = a /\ Zero(s)' = acks'[a][n].seq_zero
    BY DEF AckFor
  <2>1. PICK m \in 1..Len(acks[a]) : acks'[a][n] = acks[a][m]
    BY DEF NoNewAck
  <2>2. PICK s \in Sdus : Sent(s) /\ SourceOf[s] = a /\ Zero(s) = acks[a][m].seq_zero
    BY DEF SuccessInv, AckFor
  <2> QED BY <1>2, <2>1, <2>2
<1>10. Backed'
  <2> SUFFICES ASSUME NEW s \in Sdus, Active(s)', "displaced" \notin lost[s], ~Straddles(s)',
                      delivered[s] = 0, NEW o \in Segs, Acked(s, o)'
               PROVE  \E i \in RxCtxs : rx[i].in_use /\ s \in rx[i].sdus /\ o \in rx[i].block
    BY <1>1 DEF Backed
  <2>1. tx'[s].state = "active" /\ Moves(s) /\ tx[s].seq_auth \in Nat
    BY <1>1 DEF Active, Typed, TypeOK, SegTx
  <2>2. ASSUME Active(s), Acked(s, o)
        PROVE  \E i \in RxCtxs : rx[i].in_use /\ s \in rx[i].sdus /\ o \in rx[i].block
    <3>1. Sent(s)
      BY <2>2 DEF Active, Sent
    <3>2. ~Straddles(s)
      BY <1>3, <3>1
    <3> QED BY <2>2, <3>2 DEF SuccessInv, Backed
  <2>3. CASE tx'[s] = tx[s]
    <3>1. Acked(s, o)
      BY <2>3, AckedBefore
    <3> QED BY <2>1, <2>2, <2>3, <3>1 DEF Active
  <2>4. CASE tx[s].state = "new" /\ tx'[s].unacked = Segs
    <3> DEFINE a == SourceOf[s]
    <3>1. a \in Sources
      BY TransferAssumption
    <3>2. PICK n \in 1..Len(acks'[a]) : acks'[a][n].seq_zero = Zero(s)'
      BY <2>4 DEF Acked
    <3>3. PICK u \in Sdus : Sent(u)' /\ SourceOf[u] = a /\ Zero(u)' = acks'[a][n].seq_zero /\ Sent(u)
      <4>1. PICK m \in 1..Len(acks[a]) : acks'[a][n] = acks[a][m]
        BY <3>1 DEF NoNewAck
      <4>2. PICK u \in Sdus : Sent(u) /\ SourceOf[u] = a /\ Zero(u) = acks[a][m].seq_zero
        BY <3>1 DEF SuccessInv, AckFor
      <4> QED BY <1>2, <4>1, <4>2
    <3>4. Sent(s)'
      BY <2>1 DEF Sent
    <3>5. u = s
      BY <3>2, <3>3, <3>4 DEF SeqZeroFresh
    <3> QED BY <2>4, <3>3, <3>5 DEF Sent
  <2>5. CASE /\ Active(s) /\ tx'[s].seq_auth = tx[s].seq_auth
             /\ \A k \in Segs : k \notin tx'[s].unacked => Acked(s, k)
    <3>1. CASE o \in tx'[s].unacked
      <4>1. Acked(s, o)
        BY <2>5, <3>1, AckedBefore
      <4> QED BY <2>2, <2>5, <4>1
    <3> QED BY <2>2, <2>5, <3>1
  <2> QED BY <2>1, <2>3, <2>4, <2>5 DEF Moves
<1>11. SuccessIsDelivery'
  <2> SUFFICES ASSUME NEW s \in Sdus, tx'[s].state = "ok", "displaced" \notin lost[s], ~Straddles(s)'
               PROVE  delivered[s] > 0
    BY <1>1 DEF SuccessIsDelivery
  <2>1. Moves(s)
    OBVIOUS
  <2>2. Sent(s)
    BY <2>1 DEF Moves, Sent, Active
  <2>3. ~Straddles(s)
    BY <1>3, <2>2
  <2>4. CASE tx'[s] = tx[s]
    BY <2>3, <2>4 DEF SuccessInv, SuccessIsDelivery
  <2>5. CASE Active(s) /\ \A o \in Segs : Acked(s, o)
    BY <2>3, <2>5, AllAcked
  <2> QED BY <2>1, <2>4, <2>5 DEF Moves
<1> QED BY <1>6, <1>7, <1>8, <1>9, <1>10, <1>11

(***************************************************************************)
(* A segment p is stored in context i of c: the contexts as they are, or   *)
(* after a new one was opened.                                             *)
(***************************************************************************)
Takes(p, c, i) ==
  /\ c \in [RxCtxs -> SegRx] /\ i \in RxCtxs /\ Store(c, i, p) /\ UNCHANGED senderVars
  /\ c[i].in_use /\ c[i].src = SourceOf[p.sdu] /\ c[i].seq_auth = SeqAuth(p)
  /\ c[i].sdus \subseteq {p.sdu}
  /\ \A j \in RxCtxs : j # i =>
       /\ c[j].src = rx[j].src /\ c[j].seq_auth = rx[j].seq_auth
       /\ c[j].block = rx[j].block /\ c[j].sdus = rx[j].sdus
       /\ c[j].in_use => rx[j].in_use
  /\ \A s \in Sdus : lost[s] \subseteq lost'[s]

LEMMA OpenTakes ==
  ASSUME SuccessInv, SeqZeroFresh, NEW p \in air, RecvForOpen(p)
  PROVE  \E i \in RxCtxs : rx[i].in_use /\ Takes(p, rx, i)
<1> PICK i : i = First(Stops(p))
  OBVIOUS
<1>1. TypeOK /\ Found(p) /\ rx[i].in_use /\ Store(rx, i, p) /\ UNCHANGED senderVars /\ lost' = lost
  BY DEF RecvForOpen, SuccessInv, Typed
<1>2. i \in RxCtxs /\ rx[i].src = SourceOf[p.sdu] /\ rx[i].seq_auth = SeqAuth(p)
  BY <1>1, FoundIs
<1>3. rx[i].sdus \subseteq {p.sdu}
  BY <1>2, OneSdu DEF SuccessInv
<1>4. rx \in [RxCtxs -> SegRx]
  BY <1>1 DEF TypeOK
<1>5. \A s \in Sdus : lost[s] \subseteq lost'[s]
  BY <1>1
<1> QED BY <1>1, <1>2, <1>3, <1>4, <1>5 DEF Takes

LEMMA NewTakes ==
  ASSUME TypeOK, NEW p \in air, RecvForNone(p),
         NEW c, NEW f, NEW D, Opens(p, c, f, D), Store(c, f, p),
         lost' = [s \in Sdus |-> lost[s] \cup Loses(s, p, D, f)]
  PROVE  Takes(p, c, f)
<1>1. c[f] = NewRx(p) /\ c \in [RxCtxs -> SegRx] /\ f \in RxCtxs
  BY DEF Opens
<1>2. /\ c[f].in_use /\ c[f].src = SourceOf[p.sdu] /\ c[f].seq_auth = SeqAuth(p)
      /\ c[f].sdus \subseteq {p.sdu}
  BY <1>1, NewRxIs
<1>3. \A j \in RxCtxs : j # f =>
        /\ c[j].src = rx[j].src /\ c[j].seq_auth = rx[j].seq_auth
        /\ c[j].block = rx[j].block /\ c[j].sdus = rx[j].sdus
        /\ c[j].in_use => rx[j].in_use
  BY DEF Opens
<1>4. UNCHANGED senderVars /\ \A s \in Sdus : lost[s] \subseteq lost'[s]
  BY DEF RecvForNone
<1> QED BY <1>1, <1>2, <1>3, <1>4 DEF Takes

LEMMA TakesEffect ==
  ASSUME TypeOK, NEW p \in air, NEW c, NEW i, Takes(p, c, i)
  PROVE  /\ \A j \in RxCtxs : j # i => rx'[j] = c[j]
         /\ rx'[i].src = SourceOf[p.sdu] /\ rx'[i].seq_auth = SeqAuth(p) /\ rx'[i].sdus = {p.sdu}
         /\ \A s \in Sdus : delivered[s] > 0 => delivered'[s] > 0
         /\ \/ /\ rx'[i].in_use /\ rx'[i].block # Segs /\ c[i].block \subseteq rx'[i].block
               /\ UNCHANGED <<acks, delivered>>
            \/ /\ ~rx'[i].in_use /\ rx'[i].block = Segs
               /\ NewAck(SourceOf[p.sdu], p.seq_zero, Segs)
               /\ ~Straddles(p.sdu) => delivered'[p.sdu] > 0
<1>1. /\ c \in [RxCtxs -> SegRx] /\ i \in RxCtxs /\ Store(c, i, p)
      /\ c[i].in_use /\ c[i].src = SourceOf[p.sdu] /\ c[i].seq_auth = SeqAuth(p)
      /\ c[i].sdus \subseteq {p.sdu}
  BY DEF Takes
<1>2. p \in Pdu /\ delivered \in [Sdus -> 0..2]
  BY DEF TypeOK
<1>3. p.sdu \in Sdus /\ SourceOf[p.sdu] \in Sources /\ p.seq_zero \in 0..SeqZeros - 1
  BY <1>2, TransferAssumption DEF Pdu
<1>4. /\ p.seg_o \notin c[i].block
      /\ rx' \in [RxCtxs -> SegRx]
      /\ \A j \in RxCtxs : j # i => rx'[j] = c[j]
      /\ rx'[i].src = c[i].src /\ rx'[i].seq_auth = c[i].seq_auth
      /\ rx'[i].sdus = c[i].sdus \cup {p.sdu}
      /\ \/ /\ rx'[i].in_use = c[i].in_use /\ rx'[i].block # Segs
            /\ c[i].block \subseteq rx'[i].block
            /\ UNCHANGED <<acks, rpl, delivered>>
         \/ /\ rx'[i].in_use = FALSE /\ rx'[i].block = Segs
            /\ SendAck(SourceOf[p.sdu], p.seq_zero, Segs)
            /\ rpl' = [rpl EXCEPT ![SourceOf[p.sdu]] = p.seq]
            /\ delivered' = [delivered EXCEPT ![p.sdu] = IF Delivers(c, i, p) THEN @ + 1 ELSE @]
  BY <1>1, <1>2, Stores
<1>5. rx'[i].sdus = {p.sdu}
  BY <1>1, <1>4
<1>6. CASE rx'[i].in_use = c[i].in_use /\ UNCHANGED <<acks, rpl, delivered>> /\ rx'[i].block # Segs
           /\ c[i].block \subseteq rx'[i].block
  BY <1>1, <1>4, <1>5, <1>6
<1>7. CASE /\ rx'[i].in_use = FALSE /\ rx'[i].block = Segs
           /\ SendAck(SourceOf[p.sdu], p.seq_zero, Segs)
           /\ delivered' = [delivered EXCEPT ![p.sdu] = IF Delivers(c, i, p) THEN @ + 1 ELSE @]
  <2>1. NewAck(SourceOf[p.sdu], p.seq_zero, Segs)
    BY <1>3, <1>7, SendsOne
  <2>2. \A s \in Sdus : delivered[s] > 0 => delivered'[s] > 0
    BY <1>2, <1>3, <1>7
  <2>3. ASSUME ~Straddles(p.sdu) PROVE delivered'[p.sdu] > 0
    <3>1. c[i].seq_auth = tx[p.sdu].seq_auth
      BY <1>1, <2>3 DEF Straddles
    <3>2. Delivers(c, i, p) \/ ~(delivered[p.sdu] < 2)
      BY <1>1, <3>1 DEF Delivers
    <3> QED BY <1>2, <1>3, <1>7, <3>2
  <2> QED BY <1>1, <1>4, <1>5, <1>7, <2>1, <2>2, <2>3
<1> QED BY <1>4, <1>6, <1>7

\* An SDU that a new acknowledgement for p acknowledges is the one of p.
LEMMA AckedSdu ==
  ASSUME Typed, OnAir, SeqZeroFresh, NEW p \in air, NEW s \in Sdus, Active(s),
         SourceOf[s] = SourceOf[p.sdu], Zero(s) = p.seq_zero
  PROVE  s = p.sdu
<1>1. p.sdu \in Sdus /\ Sent(p.sdu) /\ p.seq_zero = Zero(p.sdu)
  BY DEF Typed, TypeOK, Pdu, OnAir
<1>2. Sent(s)
  BY DEF Active, Sent
<1> QED BY <1>1, <1>2 DEF SeqZeroFresh

\* An acknowledgement is only sent for a transfer that waits for it.
LEMMA AckForNew ==
  ASSUME SuccessInv, UNCHANGED tx, NEW a, NEW zero, NEW block, NewAck(a, zero, block)
  PROVE  AckFor'
<1> SUFFICES ASSUME NEW b \in Sources, NEW n \in 1..Len(acks'[b])
             PROVE  \E s \in Sdus : Sent(s) /\ SourceOf[s] = b /\ Zero(s) = acks'[b][n].seq_zero
  BY DEF AckFor, Sent, Zero
<1>1. CASE \E m \in 1..Len(acks[b]) : acks'[b][n] = acks[b][m]
  BY <1>1 DEF SuccessInv, AckFor
<1>2. CASE b = a /\ Lookup(a, zero) # {} /\ acks'[b][n] = [seq_zero |-> zero, block |-> block]
  <2>1. PICK s \in Lookup(a, zero) : TRUE
    BY <1>2
  <2>2. s \in Sdus /\ Sent(s) /\ SourceOf[s] = a /\ Zero(s) = zero
    BY DEF Lookup, Active, Sent, Zero
  <2> QED BY <1>2, <2>2
<1> QED BY <1>1, <1>2 DEF NewAck

\* A step of the receiver that neither loses a delivery nor an excuse.
LEMMA SuccessKept ==
  ASSUME SuccessIsDelivery, UNCHANGED senderVars,
         \A s \in Sdus : lost[s] \subseteq lost'[s] /\ (delivered[s] > 0 => delivered'[s] > 0)
  PROVE  SuccessIsDelivery'
<1>1. \A s \in Sdus : Straddles(s)' <=> Straddles(s)
  BY DEF Straddles, senderVars, SeqAuth
<1> QED BY <1>1 DEF SuccessIsDelivery, senderVars

(***************************************************************************)
(* A segment is stored, and no context was reset but one whose SDU counts  *)
(* as displaced.                                                           *)
(***************************************************************************)
LEMMA SuccessTakes ==
  ASSUME SuccessInv, SeqZeroFresh, NEW p \in air, NEW c, NEW i, Takes(p, c, i),
         \A k \in RxCtxs, s \in Sdus :
           rx[k].in_use /\ s \in rx[k].sdus /\ "displaced" \notin lost'[s]
             => c[k].in_use /\ s \in c[k].sdus /\ c[k].block = rx[k].block
  PROVE  (Held /\ Full /\ AckFor /\ Backed /\ SuccessIsDelivery)'
<1>1. /\ \A j \in RxCtxs : j # i => rx'[j] = c[j]
      /\ rx'[i].src = SourceOf[p.sdu] /\ rx'[i].seq_auth = SeqAuth(p) /\ rx'[i].sdus = {p.sdu}
      /\ \A s \in Sdus : delivered[s] > 0 => delivered'[s] > 0
      /\ \/ /\ rx'[i].in_use /\ rx'[i].block # Segs /\ c[i].block \subseteq rx'[i].block
            /\ UNCHANGED <<acks, delivered>>
         \/ /\ ~rx'[i].in_use /\ rx'[i].block = Segs
            /\ NewAck(SourceOf[p.sdu], p.seq_zero, Segs)
            /\ ~Straddles(p.sdu) => delivered'[p.sdu] > 0
  BY TakesEffect DEF SuccessInv, Typed
<1>2. /\ i \in RxCtxs /\ UNCHANGED <<seq, tx, air>> /\ c[i].sdus \subseteq {p.sdu}
      /\ \A j \in RxCtxs : j # i =>
           /\ c[j].src = rx[j].src /\ c[j].seq_auth = rx[j].seq_auth
           /\ c[j].block = rx[j].block /\ c[j].sdus = rx[j].sdus
      /\ \A s \in Sdus : lost[s] \subseteq lost'[s]
  BY DEF Takes, senderVars
<1>3. p.sdu \in Sdus /\ Sent(p.sdu)
  BY DEF SuccessInv, Typed, TypeOK, Pdu, OnAir
<1>4. \A j \in RxCtxs : j # i =>
        /\ rx'[j].src = rx[j].src /\ rx'[j].seq_auth = rx[j].seq_auth
        /\ rx'[j].block = rx[j].block /\ rx'[j].sdus = rx[j].sdus
  BY <1>1, <1>2
<1>5. \A s : (Sent(s)' <=> Sent(s)) /\ (Straddles(s)' <=> Straddles(s)) /\ (Active(s)' <=> Active(s))
  BY <1>2 DEF Sent, Straddles, Active, SeqAuth
<1>6. Held'
  <2> SUFFICES ASSUME NEW j \in RxCtxs, NEW s \in rx'[j].sdus
               PROVE  /\ Sent(s) /\ SourceOf[s] = rx'[j].src
                      /\ \E q \in air : q.sdu = s /\ SeqAuth(q) = rx'[j].seq_auth
    BY <1>2, <1>5 DEF Held, SeqAuth
  <2>1. CASE j = i
    BY <1>1, <1>3, <2>1
  <2>2. CASE j # i
    BY <1>4, <2>2 DEF SuccessInv, Held
  <2> QED BY <2>1, <2>2
<1>7. Full'
  <2> SUFFICES ASSUME NEW j \in RxCtxs, rx'[j].block = Segs
               PROVE  rx'[j].sdus # {} /\ \A s \in rx'[j].sdus : ~Straddles(s) => delivered'[s] > 0
    BY <1>5 DEF Full
  <2>1. CASE j = i
    BY <1>1, <2>1
  <2>2. CASE j # i
    <3>1. rx[j].sdus \subseteq Sdus
      BY DEF SuccessInv, Typed, TypeOK, SegRx
    <3> QED BY <1>1, <1>4, <2>2, <3>1 DEF SuccessInv, Full
  <2> QED BY <2>1, <2>2
<1>8. AckFor'
  <2>1. CASE UNCHANGED acks
    BY <1>2, <2>1 DEF SuccessInv, AckFor, Sent, Zero
  <2>2. CASE NewAck(SourceOf[p.sdu], p.seq_zero, Segs)
    BY <1>2, <2>2, AckForNew
  <2> QED BY <1>1, <2>1, <2>2
<1>9. Backed'
  <2> SUFFICES ASSUME NEW s \in Sdus, Active(s), "displaced" \notin lost'[s], ~Straddles(s),
                      delivered'[s] = 0, NEW o \in Segs, Acked(s, o)'
               PROVE  \E k \in RxCtxs : rx'[k].in_use /\ s \in rx'[k].sdus /\ o \in rx'[k].block
    BY <1>5 DEF Backed
  <2>1. "displaced" \notin lost[s]
    BY <1>2
  <2>2. delivered[s] = 0
    <3>1. delivered[s] \in 0..2
      BY DEF SuccessInv, Typed, TypeOK
    <3>2. ~(delivered[s] > 0)
      BY <1>1
    <3> QED BY <3>1, <3>2
  <2>3. ASSUME Acked(s, o)
        PROVE  \E k \in RxCtxs : c[k].in_use /\ s \in c[k].sdus /\ o \in c[k].block
    <3>1. PICK k \in RxCtxs : rx[k].in_use /\ s \in rx[k].sdus /\ o \in rx[k].block
      BY <2>1, <2>2, <2>3 DEF SuccessInv, Backed
    <3> QED BY <3>1
  <2>4. CASE /\ rx'[i].in_use /\ c[i].block \subseteq rx'[i].block /\ UNCHANGED <<acks, delivered>>
    <3>1. Acked(s, o)
      BY <1>2, <2>4 DEF Acked, Zero
    <3>2. PICK k \in RxCtxs : c[k].in_use /\ s \in c[k].sdus /\ o \in c[k].block
      BY <2>3, <3>1
    <3>3. CASE k = i
      BY <1>1, <1>2, <2>4, <3>2, <3>3
    <3>4. CASE k # i
      BY <1>1, <3>2, <3>4
    <3> QED BY <3>3, <3>4
  <2>5. CASE /\ NewAck(SourceOf[p.sdu], p.seq_zero, Segs)
             /\ ~Straddles(p.sdu) => delivered'[p.sdu] > 0
    <3>1. s # p.sdu
      BY <2>5
    <3>2. ~(SourceOf[s] = SourceOf[p.sdu] /\ Zero(s) = p.seq_zero)
      BY <3>1, AckedSdu DEF SuccessInv
    <3>3. Acked(s, o)
      BY <1>2, <2>5, <3>2, AckedNow
    <3>4. PICK k \in RxCtxs : c[k].in_use /\ s \in c[k].sdus /\ o \in c[k].block
      BY <2>3, <3>3
    <3>5. k # i
      BY <1>2, <3>1, <3>4
    <3> QED BY <1>1, <3>4, <3>5
  <2> QED BY <1>1, <2>4, <2>5
<1>10. SuccessIsDelivery'
  BY <1>1, <1>2, SuccessKept DEF SuccessInv, senderVars
<1> QED BY <1>6, <1>7, <1>8, <1>9, <1>10

LEMMA SuccessOpen ==
  ASSUME SuccessInv, SeqZeroFresh, NEW p \in air, RecvForOpen(p)
  PROVE  (Held /\ Open /\ Full /\ AckFor /\ Backed /\ SuccessIsDelivery)'
<1>1. PICK i \in RxCtxs : rx[i].in_use /\ Takes(p, rx, i)
  BY OpenTakes
<1>2. (Held /\ Full /\ AckFor /\ Backed /\ SuccessIsDelivery)'
  BY <1>1, SuccessTakes
<1>3. /\ \A j \in RxCtxs : j # i => rx'[j] = rx[j]
      /\ rx'[i].src = SourceOf[p.sdu] /\ rx'[i].sdus = {p.sdu}
      /\ rx'[i].in_use => rx'[i].block # Segs
  BY <1>1, TakesEffect DEF SuccessInv, Typed
<1>4. rx[i].src = SourceOf[p.sdu]
  BY <1>1 DEF Takes
<1>5. Open'
  <2>1. \A j \in RxCtxs : rx'[j].src = rx[j].src /\ (rx'[j].in_use => rx[j].in_use)
    BY <1>1, <1>3, <1>4
  <2>2. \A j \in RxCtxs : rx'[j].in_use => rx'[j].sdus # {} /\ rx'[j].block # Segs
    BY <1>3 DEF SuccessInv, Open
  <2> QED BY <2>1, <2>2 DEF SuccessInv, Open
<1> QED BY <1>2, <1>5

LEMMA SuccessNone ==
  ASSUME SuccessInv, SeqZeroFresh, NEW p \in air, RecvForNone(p)
  PROVE  (Held /\ Open /\ Full /\ AckFor /\ Backed /\ SuccessIsDelivery)'
<1>1. PICK c, f, D : /\ Opens(p, c, f, D) /\ Store(c, f, p)
                     /\ lost' = [s \in Sdus |-> lost[s] \cup Loses(s, p, D, f)]
  BY OpensStep DEF SuccessInv, Typed
<1>2. Takes(p, c, f)
  BY <1>1, NewTakes DEF SuccessInv, Typed
<1>3. /\ f \in RxCtxs /\ D \subseteq RxCtxs
      /\ \A i \in RxCtxs : i # f =>
           /\ c[i].src = rx[i].src /\ c[i].block = rx[i].block /\ c[i].sdus = rx[i].sdus
           /\ c[i].in_use <=> rx[i].in_use /\ i \notin D
      /\ rx[f].in_use => f \in D
      /\ \A k \in D : rx[k].in_use /\ rx[k].src = SourceOf[p.sdu]
      /\ Stops(p) # {} => D # {}
  BY <1>1 DEF Opens
<1>4. (Held /\ Full /\ AckFor /\ Backed /\ SuccessIsDelivery)'
  <2>1. ASSUME NEW k \in RxCtxs, NEW s \in Sdus, rx[k].in_use, s \in rx[k].sdus,
               "displaced" \notin lost'[s]
        PROVE  c[k].in_use /\ s \in c[k].sdus /\ c[k].block = rx[k].block
    <3>1. "displaced" \notin Loses(s, p, D, f)
      BY <1>1, <2>1
    <3>2. k \notin D
      BY <2>1, <3>1 DEF Loses
    <3>3. k # f
      BY <1>3, <2>1, <3>2
    <3> QED BY <1>3, <2>1, <3>2, <3>3
  <2> QED BY <1>2, <2>1, SuccessTakes
<1>5. /\ \A j \in RxCtxs : j # f => rx'[j] = c[j]
      /\ rx'[f].src = SourceOf[p.sdu] /\ rx'[f].sdus = {p.sdu}
      /\ rx'[f].in_use => rx'[f].block # Segs
  BY <1>2, TakesEffect DEF SuccessInv, Typed
<1>6. ASSUME NEW j \in RxCtxs, j # f, rx'[j].in_use PROVE rx'[j].src # SourceOf[p.sdu]
  <2> SUFFICES ASSUME rx'[j].src = SourceOf[p.sdu] PROVE FALSE
    OBVIOUS
  <2>1. rx[j].in_use /\ j \notin D /\ rx[j].src = SourceOf[p.sdu]
    BY <1>3, <1>5, <1>6
  <2>2. j \in Stops(p)
    BY <2>1 DEF Stops
  <2>3. PICK k \in D : TRUE
    BY <1>3, <2>2
  <2>4. k \in RxCtxs /\ rx[k].in_use /\ rx[k].src = rx[j].src
    BY <1>3, <2>1
  <2>5. k = j
    BY <2>1, <2>4 DEF SuccessInv, Open
  <2> QED BY <2>1, <2>5
<1>7. Open'
  <2>1. \A j \in RxCtxs : j # f => rx'[j].src = rx[j].src /\ (rx'[j].in_use => rx[j].in_use)
    BY <1>3, <1>5
  <2>2. \A j \in RxCtxs : rx'[j].in_use => rx'[j].sdus # {} /\ rx'[j].block # Segs
    BY <1>3, <1>5 DEF SuccessInv, Open
  <2>3. ASSUME NEW i \in RxCtxs, NEW j \in RxCtxs, rx'[i].in_use, rx'[j].in_use,
               rx'[j].src = rx'[i].src
        PROVE  j = i
    <3>1. CASE i = f \/ j = f
      BY <1>5, <1>6, <2>3, <3>1
    <3>2. CASE i # f /\ j # f
      BY <2>1, <2>3, <3>2 DEF SuccessInv, Open
    <3> QED BY <3>1, <3>2
  <2> QED BY <2>2, <2>3 DEF Open
<1> QED BY <1>4, <1>7

\* Contexts in use hold what an acknowledgement says, or the SDU was delivered.
Answers(a, zero, block) ==
  \A s \in Sdus, o \in Segs :
    /\ Active(s) /\ ~Straddles(s) /\ delivered[s] = 0
    /\ SourceOf[s] = a /\ Zero(s) = zero /\ o \in block
    => \E i \in RxCtxs : rx[i].in_use /\ s \in rx[i].sdus /\ o \in rx[i].block

\* A step that changes no more than the acknowledgements under way.
LEMMA SuccessAck ==
  ASSUME SuccessInv, UNCHANGED senderVars, UNCHANGED receiverVars,
         NEW a, NEW zero, NEW block, NewAck(a, zero, block), Answers(a, zero, block)
  PROVE  (Held /\ Open /\ Full /\ AckFor /\ Backed /\ SuccessIsDelivery)'
<1>1. UNCHANGED <<seq, tx, air, rx, rpl, delivered, lost>>
  BY DEF senderVars, receiverVars
<1>2. \A s : (Sent(s)' <=> Sent(s)) /\ (Straddles(s)' <=> Straddles(s)) /\ (Active(s)' <=> Active(s))
  BY <1>1 DEF Sent, Straddles, Active, SeqAuth
<1>3. Held' /\ Open' /\ Full'
  BY <1>1, <1>2 DEF SuccessInv, Held, Open, Full, SeqAuth
<1>4. AckFor'
  BY <1>1, AckForNew
<1>5. Backed'
  <2> SUFFICES ASSUME NEW s \in Sdus, Active(s), "displaced" \notin lost[s], ~Straddles(s),
                      delivered[s] = 0, NEW o \in Segs, Acked(s, o)'
               PROVE  \E i \in RxCtxs : rx[i].in_use /\ s \in rx[i].sdus /\ o \in rx[i].block
    BY <1>1, <1>2 DEF Backed
  <2>1. CASE Acked(s, o)
    BY <2>1 DEF SuccessInv, Backed
  <2>2. CASE SourceOf[s] = a /\ Zero(s) = zero /\ o \in block
    BY <2>2 DEF Answers
  <2> QED BY <1>1, <2>1, <2>2, AckedNow
<1>6. SuccessIsDelivery'
  BY <1>1, <1>2 DEF SuccessInv, SuccessIsDelivery
<1> QED BY <1>3, <1>4, <1>5, <1>6

\* A late segment of a complete SDU is answered with the full block.
LEMMA SuccessComplete ==
  ASSUME SuccessInv, SeqZeroFresh, NEW p \in air, RecvForComplete(p)
  PROVE  (Held /\ Open /\ Full /\ AckFor /\ Backed /\ SuccessIsDelivery)'
<1>1. TypeOK /\ Found(p) /\ p \in Pdu
  BY DEF SuccessInv, Typed, TypeOK, RecvForComplete
<1> PICK i : i = First(Stops(p))
  OBVIOUS
<1>2. /\ rx[i].block = Segs /\ SendAck(SourceOf[p.sdu], p.seq_zero, Segs)
      /\ UNCHANGED senderVars /\ UNCHANGED receiverVars
  BY DEF RecvForComplete
<1>3. i \in RxCtxs /\ rx[i].src = SourceOf[p.sdu] /\ rx[i].seq_auth = SeqAuth(p)
  BY <1>1, FoundIs
<1>4. SourceOf[p.sdu] \in Sources /\ p.seq_zero \in 0..SeqZeros - 1
  BY <1>1, TransferAssumption DEF Pdu
<1>5. NewAck(SourceOf[p.sdu], p.seq_zero, Segs)
  BY <1>1, <1>2, <1>4, SendsOne
<1>6. p.sdu \in rx[i].sdus
  <2>1. rx[i].sdus # {}
    BY <1>2, <1>3 DEF SuccessInv, Full
  <2>2. rx[i].sdus \subseteq {p.sdu}
    BY <1>3, OneSdu DEF SuccessInv
  <2> QED BY <2>1, <2>2
<1>7. ASSUME NEW s \in Sdus, NEW o \in Segs, Active(s), ~Straddles(s), delivered[s] = 0,
             SourceOf[s] = SourceOf[p.sdu], Zero(s) = p.seq_zero, o \in Segs
      PROVE  \E k \in RxCtxs : rx[k].in_use /\ s \in rx[k].sdus /\ o \in rx[k].block
  <2>1. s = p.sdu
    BY <1>7, AckedSdu DEF SuccessInv
  <2>2. delivered[s] > 0
    BY <1>2, <1>3, <1>6, <1>7, <2>1 DEF SuccessInv, Full
  <2> QED BY <1>7, <2>2
<1>8. Answers(SourceOf[p.sdu], p.seq_zero, Segs)
  BY <1>7 DEF Answers
<1> QED BY <1>2, <1>5, <1>8, SuccessAck

\* The ack timer acknowledges what the context holds.
LEMMA SuccessTimer ==
  ASSUME SuccessInv, SeqZeroFresh, NEW i \in RxCtxs, AckTimer(i)
  PROVE  (Held /\ Open /\ Full /\ AckFor /\ Backed /\ SuccessIsDelivery)'
<1> DEFINE z == rx[i].seq_auth % SeqZeros
<1>1. /\ rx[i].in_use /\ SendAck(rx[i].src, z, rx[i].block)
      /\ UNCHANGED senderVars /\ UNCHANGED receiverVars
  BY DEF AckTimer
<1>2. TypeOK /\ rx[i].seq_auth \in Nat /\ rx[i].block \in SUBSET Segs /\ rx[i].src \in Sources
  BY <1>1 DEF SuccessInv, Typed, Attributed, TypeOK, SegRx
<1>3. z \in 0..SeqZeros - 1
  BY <1>2, ZeroIn
<1>4. NewAck(rx[i].src, z, rx[i].block)
  BY <1>1, <1>2, <1>3, SendsOne
<1>5. PICK u \in rx[i].sdus : TRUE
  BY <1>1 DEF SuccessInv, Open
<1>6. u \in Sdus /\ Sent(u) /\ SourceOf[u] = rx[i].src /\ Zero(u) = z
  BY ZeroOf DEF SuccessInv
<1> HIDE DEF z
<1>7. ASSUME NEW s \in Sdus, NEW o \in Segs, Active(s), ~Straddles(s), delivered[s] = 0,
             SourceOf[s] = rx[i].src, Zero(s) = z, o \in rx[i].block
      PROVE  \E k \in RxCtxs : rx[k].in_use /\ s \in rx[k].sdus /\ o \in rx[k].block
  <2>1. Sent(s)
    BY <1>7 DEF Active, Sent
  <2>2. s = u
    BY <1>6, <1>7, <2>1 DEF SeqZeroFresh
  <2> QED BY <1>1, <1>7, <2>2
<1>8. Answers(rx[i].src, z, rx[i].block)
  BY <1>7 DEF Answers
<1> QED BY <1>1, <1>4, <1>8, SuccessAck

\* The incomplete timer gives a context up, after its senders did.
LEMMA SuccessIncomplete ==
  ASSUME SuccessInv, NEW i \in RxCtxs, Incomplete(i)
  PROVE  (Held /\ Open /\ Full /\ AckFor /\ Backed /\ SuccessIsDelivery)'
<1> DEFINE z == rx[i].seq_auth % SeqZeros
<1>1. /\ rx[i].in_use /\ SendAck(rx[i].src, z, {}) /\ \A s \in rx[i].sdus : ~Active(s)
      /\ UNCHANGED <<seq, tx, air, delivered, lost>>
  BY DEF Incomplete, senderVars
<1>2. TypeOK /\ rx[i].seq_auth \in Nat /\ rx[i].src \in Sources /\ {} \in SUBSET Segs
  BY <1>1 DEF SuccessInv, Typed, Attributed, TypeOK, SegRx
<1>3. NewAck(rx[i].src, z, {})
  <2>1. z \in 0..SeqZeros - 1
    BY <1>2, ZeroIn
  <2> QED BY <1>1, <1>2, <2>1, SendsOne
<1>4. /\ ~rx'[i].in_use
      /\ \A j \in RxCtxs : j # i => rx'[j] = rx[j]
      /\ \A j \in RxCtxs : /\ rx'[j].src = rx[j].src /\ rx'[j].seq_auth = rx[j].seq_auth
                            /\ rx'[j].block = rx[j].block /\ rx'[j].sdus = rx[j].sdus
  BY <1>2, GivenUp
<1>5. \A j \in RxCtxs : rx'[j].in_use => rx[j].in_use
  BY <1>1, <1>4
<1>6. \A s : (Sent(s)' <=> Sent(s)) /\ (Straddles(s)' <=> Straddles(s)) /\ (Active(s)' <=> Active(s))
  BY <1>1 DEF Sent, Straddles, Active, SeqAuth
<1>7. Held'
  BY <1>1, <1>4, <1>6 DEF SuccessInv, Held, SeqAuth
<1>8. Open'
  BY <1>4, <1>5 DEF SuccessInv, Open
<1>9. Full'
  BY <1>1, <1>4, <1>6 DEF SuccessInv, Full
<1>10. AckFor'
  BY <1>1, <1>3, AckForNew
<1>11. Backed'
  <2> SUFFICES ASSUME NEW s \in Sdus, Active(s), "displaced" \notin lost[s], ~Straddles(s),
                      delivered[s] = 0, NEW o \in Segs, Acked(s, o)'
               PROVE  \E k \in RxCtxs : rx'[k].in_use /\ s \in rx'[k].sdus /\ o \in rx'[k].block
    BY <1>1, <1>6 DEF Backed
  <2>1. Acked(s, o)
    BY <1>1, <1>3, AckedNow
  <2>2. PICK k \in RxCtxs : rx[k].in_use /\ s \in rx[k].sdus /\ o \in rx[k].block
    BY <2>1 DEF SuccessInv, Backed
  <2>3. k # i
    BY <1>1, <2>2
  <2> QED BY <1>4, <2>2, <2>3
<1>12. SuccessIsDelivery'
  BY <1>1, <1>6 DEF SuccessInv, SuccessIsDelivery
<1> QED BY <1>7, <1>8, <1>9, <1>10, <1>11, <1>12

LEMMA SuccessStep ==
  ASSUME SuccessInv, SeqZeroFresh, SeqZeroFresh', [Next]_vars
  PROVE  SuccessInv'
<1> DEFINE Rest == Held /\ Open /\ Full /\ AckFor /\ Backed /\ SuccessIsDelivery
<1>1. Typed' /\ OnAir'
  BY TypeStep, OnAirStep DEF SuccessInv
<1>2. ASSUME \/ \E s \in Sdus, j \in 1..SegN + 1 : SendSeg(s, j)
             \/ \E s \in Sdus, K \in SUBSET Segs, out \in BOOLEAN : Retransmit(s, K, out)
             \/ \E a \in Sources, K \in SUBSET Segs, out \in BOOLEAN : RecvAck(a, K, out)
      PROVE  Rest'
  <2>1. UNCHANGED receiverVars /\ NoNewAck /\ \A s \in Sdus : Moves(s)
    BY <1>2, SenderSteps DEF SuccessInv, Typed
  <2> QED BY <2>1, SuccessSender
<1>3. ASSUME UNCHANGED vars PROVE Rest'
  BY <1>3 DEF vars, SuccessInv, Held, Open, Full, AckFor, Backed, SuccessIsDelivery,
              Sent, Zero, Active, Acked, Straddles, SeqAuth
<1>4. ASSUME NEW p \in air, RecvForOpen(p) PROVE Rest'
  BY <1>4, SuccessOpen
<1>5. ASSUME NEW p \in air, RecvForComplete(p) PROVE Rest'
  BY <1>5, SuccessComplete
<1>6. ASSUME NEW p \in air, RecvForNone(p) PROVE Rest'
  BY <1>6, SuccessNone
<1>7. ASSUME NEW i \in RxCtxs, AckTimer(i) PROVE Rest'
  BY <1>7, SuccessTimer
<1>8. ASSUME NEW i \in RxCtxs, Incomplete(i) PROVE Rest'
  BY <1>8, SuccessIncomplete
<1>9. Rest'
  BY <1>2, <1>3, <1>4, <1>5, <1>6, <1>7, <1>8 DEF Next
<1> QED BY <1>1, <1>9 DEF SuccessInv

(***************************************************************************)
(* A transfer that ended with success was delivered, whatever the network  *)
(* lost, delayed, reordered or repeated, as long as no SeqZero of a device *)
(* comes round again: excused are the SDUs whose context was given to      *)
(* another SDU of the device, and those that lie across a multiple of 2^13 *)
(* (seg_tx_complete, trans_ack, trans_seg).                                *)
(***************************************************************************)
THEOREM SuccessDelivers == Spec /\ []SeqZeroFresh => []SuccessIsDelivery
<1>1. Init => SuccessInv
  <2> SUFFICES ASSUME Init PROVE SuccessInv
    OBVIOUS
  <2>1. TypeOK
    BY InitTypes
  <2>2. \A i \in RxCtxs : rx[i].in_use = FALSE /\ rx[i].block = {} /\ rx[i].sdus = {}
    BY DEF Init, UnusedRx
  <2>3. air = {} /\ \A s \in Sdus : tx[s].state = "new"
    BY DEF Init, NewTx
  <2>4. \A a \in Sources : Len(acks[a]) = 0
    BY DEF Init
  <2>5. Segs # {}
    BY TransferAssumption DEF Segs
  <2>6. Typed /\ OnAir
    BY <2>1, <2>2, <2>3 DEF Typed, Attributed, OnAir
  <2>7. Held /\ Open /\ Full
    BY <2>2, <2>5 DEF Held, Open, Full
  <2>8. AckFor
    BY <2>4 DEF AckFor
  <2>9. Backed /\ SuccessIsDelivery
    BY <2>3 DEF Backed, SuccessIsDelivery, Active
  <2> QED BY <2>6, <2>7, <2>8, <2>9 DEF SuccessInv
<1>2. SuccessInv /\ SeqZeroFresh /\ SeqZeroFresh' /\ [Next]_vars => SuccessInv'
  BY SuccessStep
<1>3. SuccessInv => SuccessIsDelivery
  BY DEF SuccessInv
<1> QED BY <1>1, <1>2, <1>3, PTL DEF Spec

-----------------------------------------------------------------------------
(***************************************************************************)
(* No SeqZero comes round again before a device has used 2^13 numbers.     *)
(***************************************************************************)
\* A device has used at most as many sequence numbers as there are SeqZeros.
WithinRound == \A a \in Sources : seq[a] <= FirstSeq[a] + SeqZeros

\* Every SDU has a sequence number of its own, among those used.
Numbered ==
  /\ \A a \in Sources : FirstSeq[a] <= seq[a]
  /\ \A s \in Sdus : Sent(s) =>
       FirstSeq[SourceOf[s]] <= tx[s].seq_auth /\ tx[s].seq_auth < seq[SourceOf[s]]
  /\ \A s, u \in Sdus :
       /\ Sent(s) /\ Sent(u)
       /\ SourceOf[u] = SourceOf[s] /\ tx[u].seq_auth = tx[s].seq_auth
       => u = s

\* What a step does to the numbers.
Numbers ==
  /\ seq' \in [Sources -> Nat] /\ \A a \in Sources : seq[a] <= seq'[a]
  /\ \A s \in Sdus : Sent(s)' /\ ~Sent(s) =>
       /\ tx'[s].seq_auth = seq[SourceOf[s]] /\ seq[SourceOf[s]] < seq'[SourceOf[s]]
       /\ \A u \in Sdus : u # s => tx'[u] = tx[u]

LEMMA TransmitNumbers ==
  ASSUME TypeOK, NEW s \in Sdus, NEW start, NEW K \in SUBSET Segs, Transmit(s, start, K)
  PROVE  /\ seq' \in [Sources -> Nat] /\ \A a \in Sources : seq[a] <= seq'[a]
         /\ K # {} => seq[SourceOf[s]] < seq'[SourceOf[s]]
<1> DEFINE n == Cardinality(K)
           b == SourceOf[s]
<1>1. b \in Sources /\ seq \in [Sources -> Nat] /\ seq' = [seq EXCEPT ![b] = @ + n]
  BY TransferAssumption DEF TypeOK, Transmit
<1>2. n \in Nat /\ (K # {} => n # 0)
  BY SegSets, FS_EmptySet
<1> HIDE DEF n, b
<1>3. /\ seq' \in [Sources -> Nat] /\ \A a \in Sources : seq[a] <= seq'[a]
      /\ n # 0 => seq[b] < seq'[b]
  BY <1>1, <1>2
<1> QED BY <1>2, <1>3 DEF b

LEMMA NumbersStep == ASSUME Typed, [Next]_vars PROVE Numbers
<1>1. TypeOK /\ seq \in [Sources -> Nat] /\ SourceOf \in [Sdus -> Sources]
  BY TransferAssumption DEF Typed, TypeOK
<1>2. ASSUME UNCHANGED senderVars PROVE Numbers
  <2>1. \A a \in Sources : seq[a] <= seq'[a]
    BY <1>1, <1>2 DEF senderVars
  <2> QED BY <1>1, <1>2, <2>1 DEF Numbers, senderVars, Sent
<1>3. ASSUME NEW s \in Sdus, NEW j \in 1..SegN + 1, SendSeg(s, j) PROVE Numbers
  <2> DEFINE start == seq[SourceOf[s]]
             K == {o \in Segs : o < j}
             t == [state |-> "active", seq_auth |-> start, unacked |-> Segs, left |-> Segs]
  <2>1. Sends(s)
    BY <1>1, <1>3, SendSegStep
  <2>2. Transmit(s, start, K)
    BY <1>3 DEF SendSeg
  <2>3. K # {} /\ K \in SUBSET Segs
    <3>1. 0 \in K
      BY TransferAssumption DEF Segs
    <3> QED BY <3>1
  <2> HIDE DEF K
  <2>4. /\ seq' \in [Sources -> Nat] /\ \A a \in Sources : seq[a] <= seq'[a]
        /\ seq[SourceOf[s]] < seq'[SourceOf[s]]
    BY <1>1, <2>2, <2>3, TransmitNumbers
  <2>5. tx'[s].seq_auth = start
    <3>1. tx' = [tx EXCEPT ![s] = IF j = SegN + 1 THEN t ELSE Complete(t, "failed")]
      BY <1>3 DEF SendSeg
    <3>2. tx \in [Sdus -> SegTx] /\ start \in Nat
      BY <1>1 DEF TypeOK
    <3>3. t \in SegTx /\ t.seq_auth = start
      BY <3>2 DEF SegTx
    <3> HIDE DEF t, start
    <3>4. Complete(t, "failed").seq_auth = start
      BY <3>3, Completes
    <3> QED BY <3>1, <3>2, <3>3, <3>4
  <2>6. \A u \in Sdus : u # s => tx'[u] = tx[u]
    BY <2>1 DEF Sends
  <2> QED BY <2>4, <2>5, <2>6 DEF Numbers, Sent
<1>4. ASSUME NEW s \in Sdus, NEW t \in SegTx, NEW K \in SUBSET Segs, NEW out \in BOOLEAN,
             Active(s), SendUnacked(s, t, K, out)
      PROVE  Numbers
  <2>1. Transmit(s, t.seq_auth, K)
    BY <1>4 DEF SendUnacked
  <2>2. /\ seq' \in [Sources -> Nat] /\ \A a \in Sources : seq[a] <= seq'[a]
    BY <1>1, <2>1, TransmitNumbers
  <2>3. \A u \in Sdus : u # s => tx'[u] = tx[u]
    BY <1>1, <1>4 DEF SendUnacked, TypeOK
  <2> QED BY <1>4, <2>2, <2>3 DEF Numbers, Sent, Active
<1>5. ASSUME NEW s \in Sdus, NEW K \in SUBSET Segs, NEW out \in BOOLEAN, Retransmit(s, K, out)
      PROVE  Numbers
  <2>1. tx[s] \in SegTx /\ Active(s) /\ SendUnacked(s, tx[s], K, out)
    BY <1>1, <1>5 DEF Retransmit, TypeOK
  <2> QED BY <1>4, <2>1
<1>6. ASSUME NEW a \in Sources, NEW K \in SUBSET Segs, NEW out \in BOOLEAN, RecvAck(a, K, out)
      PROVE  Numbers
  <2> DEFINE ack == Head(acks[a])
             t(s) == [tx[s] EXCEPT !.unacked = @ \ ack.block, !.left = @ \ ack.block]
  <2>1. CASE Lookup(a, ack.seq_zero) = {}
    BY <1>2, <1>6, <2>1 DEF RecvAck
  <2>2. ASSUME NEW s \in Lookup(a, ack.seq_zero),
               \/ /\ tx' = [tx EXCEPT ![s] =
                             Complete(t(s), IF ack.block = {} THEN "failed" ELSE "ok")]
                  /\ UNCHANGED <<seq, air>>
               \/ SendUnacked(s, t(s), K, out)
        PROVE  Numbers
    <3>1. s \in Sdus /\ Active(s) /\ tx[s] \in SegTx
      BY <1>1 DEF Lookup, TypeOK
    <3>2. t(s) \in SegTx
      <4>1. tx[s].unacked \ ack.block \in SUBSET Segs /\ tx[s].left \ ack.block \in SUBSET Segs
        BY <3>1 DEF SegTx
      <4> QED BY <3>1, <4>1 DEF SegTx
    <3> HIDE DEF t, ack
    <3>3. CASE SendUnacked(s, t(s), K, out)
      BY <1>4, <3>1, <3>2, <3>3
    <3>4. CASE /\ tx' = [tx EXCEPT ![s] =
                            Complete(t(s), IF ack.block = {} THEN "failed" ELSE "ok")]
               /\ UNCHANGED <<seq, air>>
      <4>1. \A u \in Sdus : u # s => tx'[u] = tx[u]
        BY <1>1, <3>4 DEF TypeOK
      <4>2. seq' \in [Sources -> Nat] /\ \A b \in Sources : seq[b] <= seq'[b]
        BY <1>1, <3>4
      <4> QED BY <3>1, <4>1, <4>2 DEF Numbers, Sent, Active
    <3> QED BY <2>2, <3>3, <3>4
  <2>3. CASE Lookup(a, ack.seq_zero) # {}
    <3>1. PICK s \in Lookup(a, ack.seq_zero) :
            IF ack.block = {} \/ t(s).unacked = {}
              THEN /\ K = {} /\ ~out
                   /\ tx' = [tx EXCEPT ![s] =
                               Complete(t(s), IF ack.block = {} THEN "failed" ELSE "ok")]
                   /\ UNCHANGED <<seq, air>>
              ELSE SendUnacked(s, t(s), K, out)
      BY <1>6, <2>3 DEF RecvAck
    <3> HIDE DEF t, ack
    <3> QED BY <2>2, <3>1
  <2> QED BY <2>1, <2>3
<1>7. ASSUME NEW p \in air, RecvForOpen(p) \/ RecvForComplete(p) \/ RecvForNone(p)
      PROVE  UNCHANGED senderVars
  BY <1>7 DEF RecvForOpen, RecvForComplete, RecvForNone
<1>8. ASSUME NEW i \in RxCtxs, AckTimer(i) \/ Incomplete(i) PROVE UNCHANGED senderVars
  BY <1>8 DEF AckTimer, Incomplete
<1>9. CASE UNCHANGED vars
  BY <1>2, <1>9 DEF vars, senderVars
<1> QED BY <1>2, <1>3, <1>5, <1>6, <1>7, <1>8, <1>9 DEF Next

LEMMA NumberedStep == Typed /\ Numbered /\ [Next]_vars => Numbered'
<1> SUFFICES ASSUME Typed, Numbered, [Next]_vars PROVE Numbered'
  OBVIOUS
<1>1. Numbers
  BY NumbersStep
<1>2. /\ seq \in [Sources -> Nat] /\ seq' \in [Sources -> Nat] /\ FirstSeq \in [Sources -> Nat]
      /\ SourceOf \in [Sdus -> Sources]
      /\ \A s \in Sdus : tx[s].seq_auth \in Nat /\ tx'[s].seq_auth \in Nat
  BY <1>1, TransferAssumption, TypeStep DEF Numbers, Typed, TypeOK, SegTx
<1>3. \A s \in Sdus : Sent(s) => tx'[s].seq_auth = tx[s].seq_auth
  BY SentStays
<1>4. ASSUME NEW s \in Sdus, Sent(s)'
      PROVE  FirstSeq[SourceOf[s]] <= tx'[s].seq_auth /\ tx'[s].seq_auth < seq'[SourceOf[s]]
  <2> DEFINE a == SourceOf[s]
  <2>1. a \in Sources /\ seq[a] \in Nat /\ seq'[a] \in Nat /\ FirstSeq[a] \in Nat /\ seq[a] <= seq'[a]
    BY <1>1, <1>2 DEF Numbers
  <2>2. CASE Sent(s)
    <3>1. FirstSeq[a] <= tx[s].seq_auth /\ tx[s].seq_auth < seq[a] /\ tx'[s].seq_auth = tx[s].seq_auth
      BY <1>3, <2>2 DEF Numbered
    <3>2. tx[s].seq_auth \in Nat
      BY <1>2
    <3> HIDE DEF a
    <3>3. FirstSeq[a] <= tx'[s].seq_auth /\ tx'[s].seq_auth < seq'[a]
      BY <2>1, <3>1, <3>2
    <3> QED BY <3>3 DEF a
  <2>3. CASE ~Sent(s)
    <3>1. tx'[s].seq_auth = seq[a] /\ seq[a] < seq'[a]
      BY <1>1, <1>4, <2>3 DEF Numbers
    <3>2. FirstSeq[a] <= seq[a]
      BY <2>1 DEF Numbered
    <3> QED BY <3>1, <3>2
  <2> QED BY <2>2, <2>3
<1>5. ASSUME NEW s \in Sdus, NEW u \in Sdus, Sent(s)', Sent(u)', SourceOf[u] = SourceOf[s],
             tx'[u].seq_auth = tx'[s].seq_auth, ~Sent(s)
      PROVE  u = s
  <2> SUFFICES ASSUME u # s PROVE FALSE
    OBVIOUS
  <2>1. tx'[u] = tx[u] /\ tx'[s].seq_auth = seq[SourceOf[s]]
    BY <1>1, <1>5 DEF Numbers
  <2>2. Sent(u)
    BY <1>5, <2>1 DEF Sent
  <2>3. tx[u].seq_auth < seq[SourceOf[s]]
    BY <1>5, <2>2 DEF Numbered
  <2>4. seq[SourceOf[s]] \in Nat
    BY <1>2
  <2> QED BY <1>5, <2>1, <2>3, <2>4
<1>6. ASSUME NEW s \in Sdus, NEW u \in Sdus, Sent(s)', Sent(u)', SourceOf[u] = SourceOf[s],
             tx'[u].seq_auth = tx'[s].seq_auth
      PROVE  u = s
  <2>1. CASE Sent(s) /\ Sent(u)
    BY <1>3, <1>6, <2>1 DEF Numbered
  <2> QED BY <1>5, <1>6, <2>1
<1>7. \A a \in Sources : FirstSeq[a] <= seq'[a]
  <2> TAKE a \in Sources
  <2>1. FirstSeq[a] <= seq[a] /\ seq[a] <= seq'[a]
    BY <1>1 DEF Numbers, Numbered
  <2>2. FirstSeq[a] \in Nat /\ seq[a] \in Nat /\ seq'[a] \in Nat
    BY <1>2
  <2> QED BY ONLY <2>1, <2>2
<1> QED BY <1>4, <1>6, <1>7 DEF Numbered

\* Two numbers less than Z apart with the same rest modulo Z are equal.
LEMMA SameRest ==
  ASSUME NEW Z \in Nat \ {0}, NEW F \in Nat, NEW x \in Nat, NEW y \in Nat,
         F <= x, x < F + Z, F <= y, y < F + Z, x % Z = y % Z
  PROVE  x = y
<1> DEFINE m == x \div Z
           n == y \div Z
           r == x % Z
<1>1. m \in Int /\ n \in Int /\ r \in Int /\ x = Z * m + r /\ y = Z * n + r
  OBVIOUS
<1> HIDE DEF m, n, r
<1>2. ASSUME NEW i \in Int, NEW j \in Int, i < j PROVE Z * j >= Z * i + Z
  <2>1. PICK d \in Nat : j = i + 1 + d
    <3>1. j - i - 1 \in Nat /\ j = i + 1 + (j - i - 1)
      BY <1>2
    <3> QED BY <3>1
  <2>2. Z * j = Z * i + Z + Z * d
    BY <2>1
  <2>3. Z * d >= 0 /\ Z * d \in Int /\ Z * i \in Int
    OBVIOUS
  <2> QED BY <2>2, <2>3
<1>3. ~(m < n)
  <2> SUFFICES ASSUME m < n PROVE FALSE
    OBVIOUS
  <2>1. Z * n >= Z * m + Z /\ Z * n \in Int /\ Z * m \in Int
    BY <1>1, <1>2
  <2> QED BY <1>1, <2>1
<1>4. ~(n < m)
  <2> SUFFICES ASSUME n < m PROVE FALSE
    OBVIOUS
  <2>1. Z * m >= Z * n + Z /\ Z * n \in Int /\ Z * m \in Int
    BY <1>1, <1>2
  <2> QED BY <1>1, <2>1
<1>5. m = n
  BY <1>1, <1>3, <1>4
<1> QED BY <1>1, <1>5

LEMMA FreshZeros == Typed /\ Numbered /\ WithinRound => SeqZeroFresh
<1> SUFFICES ASSUME Typed, Numbered, WithinRound, NEW s \in Sdus, NEW u \in Sdus, Sent(s), Sent(u),
                    SourceOf[s] = SourceOf[u], Zero(s) = Zero(u)
             PROVE  s = u
  BY DEF SeqZeroFresh
<1> DEFINE F == FirstSeq[SourceOf[s]]
           q == seq[SourceOf[s]]
           x == tx[s].seq_auth
           y == tx[u].seq_auth
<1>1. /\ SeqZeros \in Nat \ {0} /\ F \in Nat /\ q \in Nat /\ x \in Nat /\ y \in Nat
  BY TransferAssumption DEF Typed, TypeOK, SegTx
<1>2. F <= x /\ x < q /\ F <= y /\ y < q
  BY DEF Numbered
<1>3. q <= F + SeqZeros
  BY TransferAssumption DEF WithinRound
<1>4. x % SeqZeros = y % SeqZeros
  BY DEF Zero
<1> HIDE DEF F, q, x, y
<1>5. x < F + SeqZeros /\ y < F + SeqZeros
  BY <1>1, <1>2, <1>3
<1>6. x = y
  BY <1>1, <1>2, <1>4, <1>5, SameRest
<1> QED BY <1>6 DEF Numbered, x, y

(***************************************************************************)
(* While no device has used more than 2^13 sequence numbers, a transfer    *)
(* that ended with success was delivered, with the same two excuses        *)
(* (bt_mesh_next_seq, seg_tx_lookup, seg_tx_complete, trans_seg).          *)
(***************************************************************************)
COROLLARY SuccessDeliversInRound == Spec /\ []WithinRound => []SuccessIsDelivery
<1>1. Spec => [](Typed /\ Numbered)
  <2>1. Init => Typed /\ Numbered
    <3> SUFFICES ASSUME Init PROVE Typed /\ Numbered
      OBVIOUS
    <3>1. Typed
      BY InitTypes DEF Typed, Attributed, Init, UnusedRx
    <3>2. \A s \in Sdus : ~Sent(s)
      BY DEF Init, NewTx, Sent
    <3>3. \A a \in Sources : FirstSeq[a] <= seq[a]
      BY TransferAssumption DEF Init
    <3> QED BY <3>1, <3>2, <3>3 DEF Numbered
  <2>2. (Typed /\ Numbered) /\ [Next]_vars => (Typed /\ Numbered)'
    BY TypeStep, NumberedStep
  <2> QED BY <2>1, <2>2, PTL DEF Spec
<1>2. Typed /\ Numbered /\ WithinRound => SeqZeroFresh
  BY FreshZeros
<1> QED BY <1>1, <1>2, SuccessDelivers, PTL
=============================================================================
