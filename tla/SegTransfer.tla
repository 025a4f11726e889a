---------------------------- MODULE SegTransfer ----------------------------
(***************************************************************************)
(* Segmentation and reassembly in the lower transport layer (transport.c). *)
(*                                                                         *)
(* Devices send SDUs in segments to one receiver.  A sender keeps the      *)
(* segments in a seg_tx context until they are acknowledged, sends each    *)
(* one at most twice and reports the outcome through the end callback.     *)
(* The receiver collects segments in a few seg_rx contexts, acknowledges   *)
(* what it has, and hands a complete SDU to the upper transport layer.     *)
(*                                                                         *)
(* The network may lose, delay, reorder and duplicate segments.            *)
(* Acknowledgements are lost or delayed, but never overtake each other:    *)
(* is_replay drops the ones that arrive late (trans_unseg).  Payloads,     *)
(* malformed segments, group addresses and friendship are left out, and    *)
(* the IV index does not change (IvUpdate models what happens then).       *)
(***************************************************************************)
EXTENDS Integers, Sequences, FiniteSets

CONSTANTS
  Sdus,         \* the SDUs that the devices send, each of them once
  Sources,      \* the devices that send
  SourceOf,     \* SourceOf[s]: the device that sends s
  NoSource,     \* BT_MESH_ADDR_UNASSIGNED, src of a context never used
  SegN,         \* seg_n: index of the last segment of every SDU
  SeqZeros,     \* 2^13 in the code: SeqZero holds the low 13 bits of a seq
  FirstSeq,     \* FirstSeq[a]: bt_mesh.seq of device a at the start
  TxCount,      \* CONFIG_BT_MESH_TX_SEG_MSG_COUNT
  RxCount,      \* CONFIG_BT_MESH_RX_SEG_MSG_COUNT
  MaxAcks       \* bound: acknowledgements under way to one device

ASSUME TransferAssumption ==
  /\ SourceOf \in [Sdus -> Sources]
  /\ NoSource \notin Sources
  /\ SegN \in Nat
  /\ SeqZeros \in Nat \ {0}
  /\ FirstSeq \in [Sources -> Nat]
  /\ TxCount \in Nat /\ RxCount \in Nat
  /\ MaxAcks \in Nat

Segs == 0..SegN

RxCtxs == 1..RxCount

\* A segment on the air.
Pdu == [sdu : Sdus, seg_o : Segs, seq_zero : 0..SeqZeros - 1, seq : Nat]

Ack == [seq_zero : 0..SeqZeros - 1, block : SUBSET Segs]

(***************************************************************************)
(* The transfer of one SDU: the seg_tx context while it is active, and the *)
(* outcome the end callback reports afterwards.  unacked: the segments     *)
(* still held.  left: those with their one retransmission attempt left     *)
(* (SEG_RETRANSMIT_ATTEMPTS).  seq_auth is kept as history after the end.  *)
(***************************************************************************)
SegTx ==
  [state : {"new", "active", "ok", "failed"}, seq_auth : Nat,
   unacked : SUBSET Segs, left : SUBSET Segs]

NewTx == [state |-> "new", seq_auth |-> 0, unacked |-> {}, left |-> {}]

\* A seg_rx context.  sdus is history: the SDUs the stored segments are from.
SegRx ==
  [in_use : BOOLEAN, src : Sources \cup {NoSource}, seq_auth : Nat,
   block : SUBSET Segs, sdus : SUBSET Sdus]

UnusedRx ==
  [in_use |-> FALSE, src |-> NoSource, seq_auth |-> 0, block |-> {}, sdus |-> {}]

\* What can deprive an SDU of the context that holds what is known of it.
Causes == {"displaced", "reallocated", "shadowed"}

VARIABLES
  seq,        \* seq[a]: bt_mesh.seq of device a
  tx,         \* tx[s]: the transfer of SDU s
  air,        \* the segments sent so far; the network may deliver any of them
  acks,       \* acks[a]: the acknowledgements under way to device a
  rx,         \* seg_rx of the receiver
  rpl,        \* rpl[a]: the receiver's replay protection entry for a, -1 if none
  delivered,  \* history: how often an SDU reached the upper layer, up to 2
  lost        \* history: lost[s], how a context of SDU s was lost

vars == <<seq, tx, air, acks, rx, rpl, delivered, lost>>

senderVars == <<seq, tx, air>>
receiverVars == <<rx, rpl, delivered, lost>>

-----------------------------------------------------------------------------
Active(s) == tx[s].state = "active"

\* Plausible slip: the sequence number is not cut to 13 bits.
PdusOfUnmasked(s, start, K, q) ==
  {[sdu |-> s, seg_o |-> o, seq_zero |-> start,
    seq |-> q + Cardinality({p \in K : p < o})] : o \in K}

\* The segments of set K of SDU s, encrypted in order from sequence number q on.
PdusOf(s, start, K, q) ==
  {[sdu |-> s, seg_o |-> o, seq_zero |-> start % SeqZeros,
    seq |-> q + Cardinality({p \in K : p < o})] : o \in K}

\* Device a sends the segments K of s: each takes the next sequence number.
Transmit(s, start, K) ==
  LET a == SourceOf[s]
  IN  /\ air' = air \cup PdusOf(s, start, K, seq[a])
      /\ seq' = [seq EXCEPT ![a] = @ + Cardinality(K)]

\* seg_tx_complete and seg_tx_reset
Complete(t, outcome) ==
  [t EXCEPT !.state = outcome, !.unacked = {}, !.left = {}]

(***************************************************************************)
(* send_seg: a free context is taken and the segments go out in order.     *)
(* When no advertising buffer is left after j of them the context is reset *)
(* and -ENOBUFS returned.  A call that finds no free context (-EBUSY), or  *)
(* no buffer for the first segment, changes nothing.                       *)
(***************************************************************************)
SendSeg(s, j) ==
  LET start == seq[SourceOf[s]]
      t == [state |-> "active", seq_auth |-> start, unacked |-> Segs, left |-> Segs]
  IN  /\ tx[s].state = "new"
      /\ Cardinality({u \in Sdus : Active(u) /\ SourceOf[u] = SourceOf[s]}) < TxCount
      /\ tx' = [tx EXCEPT ![s] = IF j = SegN + 1 THEN t ELSE Complete(t, "failed")]
      /\ Transmit(s, start, {o \in Segs : o < j})
      /\ UNCHANGED <<acks, receiverVars>>

\* Plausible slip: a segment without an attempt left is skipped.
SendUnackedForever(s, t, K, out) ==
  /\ K \subseteq t.left
  /\ out => \E o \in t.unacked \ t.left : \A k \in K : k < o
  /\ tx' = [tx EXCEPT ![s] = [t EXCEPT !.left = @ \ K]]
  /\ Transmit(s, t.seq_auth, K)

(***************************************************************************)
(* seg_tx_send_unacked on transfer t of SDU s, in the order of the         *)
(* segments: those in K go out again, segments still advertising are       *)
(* skipped, and with out the loop ends at one without an attempt left      *)
(* (-ETIMEDOUT).                                                           *)
(***************************************************************************)
SendUnacked(s, t, K, out) ==
  /\ K \subseteq t.left
  /\ out => \E o \in t.unacked \ t.left : \A k \in K : k < o
  /\ tx' = [tx EXCEPT ![s] = IF out THEN Complete(t, "failed")
                                    ELSE [t EXCEPT !.left = @ \ K]]
  /\ Transmit(s, t.seq_auth, K)

\* seg_retransmit
Retransmit(s, K, out) ==
  /\ Active(s)
  /\ K # {} \/ out
  /\ SendUnacked(s, tx[s], K, out)
  /\ UNCHANGED <<acks, receiverVars>>

\* seg_tx_lookup: the active transfer of device a that an acknowledgement is for.
Lookup(a, zero) ==
  {s \in Sdus : Active(s) /\ SourceOf[s] = a /\ tx[s].seq_auth % SeqZeros = zero}

(***************************************************************************)
(* trans_ack: block 0 cancels the SDU, a block that leaves nothing         *)
(* unacknowledged completes it, any other sends the rest again at once.    *)
(***************************************************************************)
RecvAck(a, K, out) ==
  LET ack == Head(acks[a])
  IN  /\ acks[a] # <<>>
      /\ acks' = [acks EXCEPT ![a] = Tail(@)]
      /\ IF Lookup(a, ack.seq_zero) = {}
           THEN K = {} /\ ~out /\ UNCHANGED senderVars
           ELSE \E s \in Lookup(a, ack.seq_zero) :
                  LET t == [tx[s] EXCEPT !.unacked = @ \ ack.block, !.left = @ \ ack.block]
                  IN  IF ack.block = {} \/ t.unacked = {}
                        THEN /\ K = {} /\ ~out
                             /\ tx' = [tx EXCEPT ![s] =
                                         Complete(t, IF ack.block = {} THEN "failed" ELSE "ok")]
                             /\ UNCHANGED <<seq, air>>
                        ELSE SendUnacked(s, t, K, out)
      /\ UNCHANGED receiverVars

-----------------------------------------------------------------------------
(***************************************************************************)
(* send_ack, by way of bt_mesh_ctl_send: the acknowledgement may get lost. *)
(* One that no transfer waits for any more counts as lost: trans_ack would *)
(* drop it.                                                                *)
(***************************************************************************)
SendAck(a, zero, block) ==
  \/ UNCHANGED acks
  \/ /\ Len(acks[a]) < MaxAcks
     /\ Lookup(a, zero) # {}
     /\ acks' = [acks EXCEPT ![a] = Append(@, [seq_zero |-> zero, block |-> block])]

\* The SeqAuth that trans_seg derives from a segment's SeqZero and its own seq.
SeqAuth(p) == p.seq - (p.seq % SeqZeros) + p.seq_zero

First(S) == CHOOSE i \in S : \A j \in S : i <= j

(***************************************************************************)
(* The contexts at which the scan of seg_rx_find for segment p ends: one   *)
(* with its SeqAuth, or one in use for another SDU of the same source.     *)
(***************************************************************************)
Stops(p) ==
  {i \in RxCtxs : /\ rx[i].src = SourceOf[p.sdu]
                  /\ rx[i].seq_auth = SeqAuth(p) \/ rx[i].in_use}

Found(p) == Stops(p) # {} /\ rx[First(Stops(p))].seq_auth = SeqAuth(p)

\* Plausible slip: a completed SDU leaves no trace in its context.
FreeAfterForgets(c, i) == [c EXCEPT ![i] = UnusedRx]

\* seg_rx_reset of a completed context: seq_auth and block stay, for late segments.
FreeAfter(c, i) == [c EXCEPT ![i].in_use = FALSE]

(***************************************************************************)
(* sdu_recv: the SDU s in context e reaches the upper layer if it can be   *)
(* decrypted: its segments are all in place, and the SeqAuth of the        *)
(* context is the sequence number the sender encrypted the SDU under.      *)
(***************************************************************************)
SduRecv(e, s) ==
  delivered' = [delivered EXCEPT ![s] =
    IF e.sdus = {s} /\ e.seq_auth = tx[s].seq_auth /\ @ < 2 THEN @ + 1 ELSE @]

\* Plausible slip: the bit of a segment refused as a replay stays set.
StoreKeepsBit(c, i, p) ==
  LET a == SourceOf[p.sdu]
      d == [c EXCEPT ![i].block = @ \cup {p.seg_o}, ![i].sdus = @ \cup {p.sdu}]
  IN  /\ p.seg_o \notin c[i].block
      /\ IF d[i].block # Segs \/ p.seq <= rpl[a]
           THEN rx' = d /\ UNCHANGED <<acks, rpl, delivered>>
           ELSE /\ rpl' = [rpl EXCEPT ![a] = p.seq]
                /\ rx' = FreeAfter(d, i)
                /\ SendAck(a, p.seq_zero, Segs)
                /\ SduRecv(d[i], p.sdu)

(***************************************************************************)
(* trans_seg from label found_rx on, for segment p and context i of c.     *)
(* The segment that completes the SDU must pass is_replay; if it does not, *)
(* its bit is cleared again.  The SDU is acknowledged before it is         *)
(* decrypted (sdu_recv).                                                   *)
(***************************************************************************)
Store(c, i, p) ==
  LET a == SourceOf[p.sdu]
      d == [c EXCEPT ![i].block = @ \cup {p.seg_o}, ![i].sdus = @ \cup {p.sdu}]
  IN  /\ p.seg_o \notin c[i].block
      /\ IF d[i].block # Segs
           THEN rx' = d /\ UNCHANGED <<acks, rpl, delivered>>
         ELSE IF p.seq <= rpl[a]
           THEN rx' = [d EXCEPT ![i].block = @ \ {p.seg_o}] /\ UNCHANGED <<acks, rpl, delivered>>
         ELSE /\ rpl' = [rpl EXCEPT ![a] = p.seq]
              /\ rx' = FreeAfter(d, i)
              /\ SendAck(a, p.seq_zero, Segs)
              /\ SduRecv(d[i], p.sdu)

\* trans_seg: a segment for a context in use.
RecvForOpen(p) ==
  /\ Found(p)
  /\ rx[First(Stops(p))].in_use
  /\ Store(rx, First(Stops(p)), p)
  /\ UNCHANGED <<senderVars, lost>>

(***************************************************************************)
(* trans_seg: a segment of an SDU that is complete is answered with the    *)
(* full block.  (One of an SDU that was given up is ignored.)              *)
(***************************************************************************)
RecvForComplete(p) ==
  /\ Found(p)
  /\ ~rx[First(Stops(p))].in_use
  /\ rx[First(Stops(p))].block = Segs
  /\ SendAck(SourceOf[p.sdu], p.seq_zero, Segs)
  /\ UNCHANGED <<senderVars, receiverVars>>

(***************************************************************************)
(* trans_seg: a segment without a context.  A context in use for another   *)
(* SDU of the source is reset first; seg_rx_alloc then takes the first one *)
(* not in use.                                                             *)
(***************************************************************************)
NewRx(p) ==
  [in_use |-> TRUE, src |-> SourceOf[p.sdu], seq_auth |-> SeqAuth(p),
   block |-> {}, sdus |-> {}]

\* How SDU s fares when p gets context f of c, after those in D were reset.
Loses(s, p, D, f) ==
  (IF \E i \in D : s \in rx[i].sdus THEN {"displaced"} ELSE {})
    \cup (IF s \in rx[f].sdus /\ rx[f].block = Segs THEN {"reallocated"} ELSE {})
    \cup (IF s = p.sdu /\ \E i \in RxCtxs \ {f} : s \in rx[i].sdus /\ rx[i].block = Segs
            THEN {"shadowed"} ELSE {})

RecvForNone(p) ==
  LET D == IF Stops(p) = {} THEN {} ELSE {First(Stops(p))}
      c == [i \in RxCtxs |-> IF i \in D THEN [rx[i] EXCEPT !.in_use = FALSE] ELSE rx[i]]
      free == {i \in RxCtxs : ~c[i].in_use}
  IN  /\ ~Found(p)
      /\ free # {}
      /\ Store([c EXCEPT ![First(free)] = NewRx(p)], First(free), p)
      /\ lost' = [s \in Sdus |-> lost[s] \cup Loses(s, p, D, First(free))]
      /\ UNCHANGED senderVars

\* seg_ack before the incomplete timer has run out.
AckTimer(i) ==
  /\ rx[i].in_use
  /\ SendAck(rx[i].src, rx[i].seq_auth % SeqZeros, rx[i].block)
  /\ UNCHANGED <<senderVars, receiverVars>>

\* Plausible slip: the SDU is cancelled, the context stays taken.
IncompleteKeeps(i) ==
  /\ rx[i].in_use
  /\ \A s \in rx[i].sdus : ~Active(s)
  /\ SendAck(rx[i].src, rx[i].seq_auth % SeqZeros, {})
  /\ UNCHANGED <<senderVars, receiverVars>>

(***************************************************************************)
(* seg_ack more than 60 s after the last segment was stored.  By then the  *)
(* senders of the stored segments have long given up: they retransmit once,*)
(* 400 ms after the first transmission.                                    *)
(***************************************************************************)
Incomplete(i) ==
  /\ rx[i].in_use
  /\ \A s \in rx[i].sdus : ~Active(s)
  /\ SendAck(rx[i].src, rx[i].seq_auth % SeqZeros, {})
  /\ rx' = [rx EXCEPT ![i].in_use = FALSE]
  /\ UNCHANGED <<senderVars, rpl, delivered, lost>>

-----------------------------------------------------------------------------
Init ==
  /\ seq = FirstSeq
  /\ tx = [s \in Sdus |-> NewTx]
  /\ air = {}
  /\ acks = [a \in Sources |-> <<>>]
  /\ rx = [i \in RxCtxs |-> UnusedRx]
  /\ rpl = [a \in Sources |-> -1]
  /\ delivered = [s \in Sdus |-> 0]
  /\ lost = [s \in Sdus |-> {}]

Next ==
  \/ \E s \in Sdus, j \in 1..SegN + 1 : SendSeg(s, j)
  \/ \E s \in Sdus, K \in SUBSET Segs, out \in BOOLEAN : Retransmit(s, K, out)
  \/ \E a \in Sources, K \in SUBSET Segs, out \in BOOLEAN : RecvAck(a, K, out)
  \/ \E p \in air : RecvForOpen(p)
  \/ \E p \in air : RecvForComplete(p)
  \/ \E p \in air : RecvForNone(p)
  \/ \E i \in RxCtxs : AckTimer(i)
  \/ \E i \in RxCtxs : Incomplete(i)

Spec == Init /\ [][Next]_vars

(***************************************************************************)
(* A segment on the air that context i lacks and would refuse as a replay. *)
(* Every time one arrives trans_seg restarts the incomplete timer of the   *)
(* context, although nothing is stored.                                    *)
(***************************************************************************)
KeptByReplay(i) ==
  \E p \in air :
    /\ Found(p) /\ First(Stops(p)) = i
    /\ p.seg_o \notin rx[i].block /\ rx[i].block \cup {p.seg_o} = Segs
    /\ p.seq <= rpl[SourceOf[p.sdu]]

(***************************************************************************)
(* The work queue runs the retransmit work of an active transfer and the   *)
(* ack work of a context in use; that the incomplete timer of a context    *)
(* runs out is not assumed while a refused segment may restart it.         *)
(* Nothing is assumed of the network.                                      *)
(***************************************************************************)
Fairness ==
  /\ \A s \in Sdus :
       WF_vars(\E K \in SUBSET Segs, out \in BOOLEAN : Retransmit(s, K, out))
  /\ \A i \in RxCtxs : WF_vars(~KeptByReplay(i) /\ Incomplete(i))

FairSpec == Spec /\ Fairness

-----------------------------------------------------------------------------
TypeOK ==
  /\ seq \in [Sources -> Nat]
  /\ tx \in [Sdus -> SegTx]
  /\ air \subseteq Pdu
  /\ acks \in [Sources -> Seq(Ack)]
  /\ rx \in [RxCtxs -> SegRx]
  /\ rpl \in [Sources -> Int]
  /\ delivered \in [Sdus -> 0..2]
  /\ lost \in [Sdus -> SUBSET Causes]

\* Some segment of s was sent after its device's seq passed a multiple of SeqZeros.
Straddles(s) == \E p \in air : p.sdu = s /\ SeqAuth(p) # tx[s].seq_auth

(***************************************************************************)
(* An SDU whose transfer ended with success reached the upper transport    *)
(* layer, whatever segments and acknowledgements were lost, late or        *)
(* repeated (seg_tx_complete against trans_seg).  Excused are an SDU whose *)
(* context was given to another SDU of its source, and one whose segments  *)
(* lie on both sides of a multiple of 2^13.                                *)
(***************************************************************************)
SuccessIsDelivery ==
  \A s \in Sdus :
    tx[s].state = "ok" /\ "displaced" \notin lost[s] /\ ~Straddles(s)
      => delivered[s] > 0

(***************************************************************************)
(* An SDU reaches the upper transport layer once, although its sender      *)
(* repeats the segments under new sequence numbers when acknowledgements   *)
(* get lost, as long as its completed context has not been reallocated and *)
(* was not hidden behind that of another SDU (seg_rx_find, trans_seg).     *)
(***************************************************************************)
DeliveredOnce ==
  \A s \in Sdus :
    lost[s] \cap {"reallocated", "shadowed"} = {} => delivered[s] < 2

(***************************************************************************)
(* Every transfer ends and frees its seg_tx context, even when no          *)
(* acknowledgement ever arrives (seg_retransmit, SEG_RETRANSMIT_ATTEMPTS). *)
(***************************************************************************)
TransferEnds == \A s \in Sdus : Active(s) ~> ~Active(s)

(***************************************************************************)
(* "the existing slots willl eventually be freed up" (trans_seg): every    *)
(* reassembly context in use is released, unless a segment that it lacks   *)
(* and refuses as a replay can keep its timer from running out.  This is   *)
(* about segments of the right size at a receiver without a Friend: a      *)
(* first segment of the wrong size takes a context whose ack work is never *)
(* armed, and an established Low Power node does not arm it either.        *)
(***************************************************************************)
SlotsFreed ==
  \A i \in RxCtxs : rx[i].in_use ~> ~rx[i].in_use \/ KeptByReplay(i)
=============================================================================
