------------------------------ MODULE IvUpdate ------------------------------
(***************************************************************************)
(* The IV Update procedure of the mesh stack.                              *)
(*                                                                         *)
(* Every network PDU is encrypted under a nonce built from the source      *)
(* address, the transmit IV index and a 24-bit sequence number.  Nodes     *)
(* move together to a fresh IV index before the sequence numbers run out:  *)
(* they tell each other by secure network beacons, stay at least 96 hours  *)
(* in every state, and postpone the return to Normal Operation while a     *)
(* segmented transfer is waiting for acknowledgements.                     *)
(*                                                                         *)
(* Modelled: the IV fields of struct bt_mesh_net (inc/net.h),              *)
(* bt_mesh_net_iv_update, bt_mesh_net_encode, bt_mesh_net_resend,          *)
(* ivu_complete and bt_mesh_net_create (src/net.c), secure_beacon_recv,    *)
(* the beacon cache and bt_mesh_beacon_ivu_initiator (src/beacon.c), and   *)
(* what the segmented transmitter does to the procedure (send_seg,         *)
(* trans_ack, seg_tx_reset, src/transport.c).  Key refresh, payloads and   *)
(* the beacon interval are abstracted away.                                *)
(***************************************************************************)
EXTENDS Integers

CONSTANTS
  Nodes,           \* devices whose stack is modelled
  Beaconing,       \* the nodes whose Secure Network Beacon state is enabled
  MaxIv,           \* bound: highest IV index any node may reach
  StartIvs,        \* the IV indices a network may start with
  ForeignBeacons,  \* beacons that devices outside Nodes may send at any time
  Ctxs,            \* indices of seg_tx[] (CONFIG_BT_MESH_TX_SEG_MSG_COUNT)
  MaxSegs,         \* bound: most segments of one transfer
  SeqSpace,        \* 2^24 in the code: seq is a 24-bit field
  SeqLimit,        \* IV_UPDATE_SEQ_LIMIT
  RecoveryRange,   \* 42 in the code
  MinStay,         \* ticks of the clock that make up 96 hours
  Timeout,         \* ticks that make up IV_UPDATE_TIMEOUT (120 hours)
  Horizon          \* bound: ticks the history variable net.since counts

(***************************************************************************)
(* A secure network beacon, reduced to what the IV procedure reads of it.  *)
(***************************************************************************)
Beacon == [iv_index : 0..MaxIv, iv_update : BOOLEAN]

NoBeacon == [iv_index |-> -1, iv_update |-> FALSE]

ASSUME ConstantsAssumption ==
  /\ MaxIv \in Nat /\ StartIvs \subseteq 0..MaxIv
  /\ Ctxs \subseteq Nat
  /\ MaxSegs \in Nat
  /\ SeqSpace \in Nat \ {0}
  /\ SeqLimit \in Nat
  /\ RecoveryRange \in Nat
  /\ MinStay \in Nat /\ Timeout \in Nat /\ MinStay <= Timeout
  /\ Horizon \in 0..2 * MinStay
  /\ Beaconing \subseteq Nodes
  /\ ForeignBeacons \subseteq Beacon

IdleTx == [nack |-> 0, left |-> 0, iv |-> 0]

Unprovisioned ==
  [provisioned |-> FALSE, iv_index |-> 0, iv_update |-> FALSE, seq |-> 0,
   pending_update |-> FALSE, ivu_initiator |-> FALSE, age |-> 0,
   ivu_timer |-> FALSE, tx |-> [c \in Ctxs |-> IdleTx],
   joined |-> FALSE, wrapped |-> FALSE]

VARIABLES
  node,    \* node[n]: the IV part of bt_mesh of node n (see NodeState)
  cache,   \* cache[n]: the beacon in beacon_cache of the primary subnet
  nonce,   \* nonce[n]: history, the last nonce node n encrypted a PDU with
  net      \* history: the highest IV index in the network, and its age

vars == <<node, cache, nonce, net>>

(***************************************************************************)
(* iv_update, ivu_initiator, pending_update: the flags of the same name.   *)
(* age: clock ticks since last_update, counted up to Timeout.              *)
(* ivu_timer: the delayed work ivu_complete is submitted.  tx[c]: seg_tx[c]*)
(* with its count of unacknowledged segments, how many of them have their  *)
(* retransmission attempt left (SEG_RETRANSMIT_ATTEMPTS is 1), and the IV  *)
(* index the segments are encrypted under.  History only: joined, the node *)
(* was provisioned into an IV Update and has not changed state since;      *)
(* wrapped, seq ran past 2^24 - 1 since it was last set to 0.              *)
(***************************************************************************)
SegTx == [nack : 0..MaxSegs, left : 0..MaxSegs, iv : 0..MaxIv]

NodeState ==
  [provisioned : BOOLEAN, iv_index : 0..MaxIv, iv_update : BOOLEAN,
   seq : 0..SeqSpace - 1, pending_update : BOOLEAN, ivu_initiator : BOOLEAN,
   age : 0..Timeout, ivu_timer : BOOLEAN,
   tx : [Ctxs -> SegTx],
   joined : BOOLEAN, wrapped : BOOLEAN]

NoNonce == [iv |-> -1, seq |-> 0]

-----------------------------------------------------------------------------
\* BT_MESH_NET_IVI_TX: the IV index that outgoing PDUs are encrypted under.
IviTx(r) == r.iv_index - (IF r.iv_update THEN 1 ELSE 0)

\* bt_mesh_tx_in_progress
TxInProgress(r) == \E c \in Ctxs : r.tx[c].nack # 0

\* Plausible slip: seq restarts when the update is entered, not when it ends.
DoUpdateSeqOnEntry(r, iv_index, iv_update) ==
  [r EXCEPT !.iv_update = iv_update,
            !.iv_index  = IF iv_update THEN iv_index ELSE @,
            !.seq       = IF iv_update THEN 0 ELSE @,
            !.ivu_timer = iv_update,
            !.age       = 0,
            !.joined    = FALSE]

(***************************************************************************)
(* The code from label do_update of bt_mesh_net_iv_update on.              *)
(***************************************************************************)
DoUpdate(r, iv_index, iv_update) ==
  [r EXCEPT !.iv_update = iv_update,
            !.iv_index  = IF iv_update THEN iv_index ELSE @,
            !.seq       = IF iv_update THEN @ ELSE 0,
            !.wrapped   = iv_update /\ @,
            !.ivu_timer = iv_update,
            !.age       = 0,
            !.joined    = FALSE]

(***************************************************************************)
(* The IV Index Recovery cases: a node in Normal Operation hears of an     *)
(* index it cannot reach by the ordinary procedure.                        *)
(***************************************************************************)
Recovers(r, iv_index, iv_update) ==
  /\ ~r.iv_update
  /\ iv_index > r.iv_index
  /\ iv_index <= r.iv_index + RecoveryRange
  /\ iv_index > r.iv_index + 1 \/ ~iv_update

\* The ordinary transitions: into the update from Normal Operation, and back.
Regular(r, iv_index, iv_update) ==
  IF r.iv_update THEN iv_index = r.iv_index /\ ~iv_update
                 ELSE iv_index = r.iv_index + 1 /\ iv_update

\* Plausible slip: the return to Normal Operation is not deferred.
NetIvUpdateNotDeferred(r, iv_index, iv_update) ==
  IF Recovers(r, iv_index, iv_update)
    THEN DoUpdate([r EXCEPT !.iv_index = iv_index, !.seq = 0], iv_index, iv_update)
  ELSE IF ~Regular(r, iv_index, iv_update) \/ r.age < MinStay
    THEN r
  ELSE DoUpdate(r, iv_index, iv_update)

\* Plausible slip: no minimum stay in Normal Operation.
NetIvUpdateNoMinimum(r, iv_index, iv_update) ==
  IF Recovers(r, iv_index, iv_update)
    THEN DoUpdate([r EXCEPT !.iv_index = iv_index, !.seq = 0], iv_index, iv_update)
  ELSE IF ~Regular(r, iv_index, iv_update) \/ (~iv_update /\ r.age < MinStay)
    THEN r
  ELSE IF ~iv_update /\ TxInProgress(r)
    THEN [r EXCEPT !.pending_update = TRUE]
  ELSE DoUpdate(r, iv_index, iv_update)

(***************************************************************************)
(* bt_mesh_net_iv_update.  Recovery jumps over both the 96 hour check and  *)
(* the check for transfers in progress.                                    *)
(***************************************************************************)
NetIvUpdate(r, iv_index, iv_update) ==
  IF Recovers(r, iv_index, iv_update)
    THEN DoUpdate([r EXCEPT !.iv_index = iv_index, !.seq = 0, !.wrapped = FALSE],
                  iv_index, iv_update)
  ELSE IF ~Regular(r, iv_index, iv_update) \/ r.age < MinStay
    THEN r
  ELSE IF ~iv_update /\ TxInProgress(r)
    THEN [r EXCEPT !.pending_update = TRUE]
  ELSE DoUpdate(r, iv_index, iv_update)

\* Plausible slip: seq kept in a wider integer.
EncryptWide(r, k) == [r EXCEPT !.seq = @ + k]

(***************************************************************************)
(* k PDUs encrypted one after the other, each taking seq and incrementing  *)
(* the 24-bit field (bt_mesh_net_encode, bt_mesh_net_resend).              *)
(***************************************************************************)
Encrypt(r, k) ==
  [r EXCEPT !.seq     = (@ + k) % SeqSpace,
            !.wrapped = @ \/ r.seq + k >= SeqSpace]

LastNonce(r, k) == [iv |-> IviTx(r), seq |-> (r.seq + k - 1) % SeqSpace]

\* Plausible slip: the flag is cleared after the call that may set it again.
SegTxResetClearsLate(r, c) ==
  LET q == [r EXCEPT !.tx[c] = IdleTx]
  IN  IF r.tx[c].nack # 0 /\ r.pending_update
        THEN [NetIvUpdate(q, q.iv_index, FALSE) EXCEPT !.pending_update = FALSE]
        ELSE q

(***************************************************************************)
(* seg_tx_reset.  With no unacknowledged segment left it returns before    *)
(* it looks at pending_update.                                             *)
(***************************************************************************)
SegTxReset(r, c) ==
  LET q == [r EXCEPT !.tx[c] = IdleTx]
  IN  IF r.tx[c].nack # 0 /\ r.pending_update
        THEN NetIvUpdate([q EXCEPT !.pending_update = FALSE], q.iv_index, FALSE)
        ELSE q

(***************************************************************************)
(* bt_mesh_net_resend for k segments, one after the other.  The check at   *)
(* its end is the only place that starts an IV Update on account of seq;   *)
(* entering the update changes neither seq nor the transmit IV index.      *)
(***************************************************************************)
PastSeqLimit(r, k) ==
  ~r.iv_update /\ \E i \in 1..k : (r.seq + i) % SeqSpace > SeqLimit

Resend(r, k) ==
  LET s == Encrypt(r, k)
  IN  IF PastSeqLimit(r, k)
        THEN NetIvUpdate([s EXCEPT !.ivu_initiator = TRUE], s.iv_index + 1, TRUE)
        ELSE s

-----------------------------------------------------------------------------
Init ==
  /\ node = [n \in Nodes |-> Unprovisioned]
  /\ cache = [n \in Nodes |-> NoBeacon]
  /\ nonce = [n \in Nodes |-> NoNonce]
  /\ net = [top |-> 0, since |-> Horizon]

\* Node n moves to state r.
Set(n, r) ==
  /\ node' = [node EXCEPT ![n] = r]
  /\ net' = IF r.iv_index > net.top THEN [top |-> r.iv_index, since |-> 0] ELSE net

\* secure_beacon_send, bt_mesh_beacon_create
BeaconOf(n) == [iv_index |-> node[n].iv_index, iv_update |-> node[n].iv_update]

(***************************************************************************)
(* bt_mesh_provision: bt_mesh_net_create with the IV index and flags of    *)
(* the network the device joins; the first device starts a network.  The   *)
(* ivu_complete work is not submitted here.                                *)
(***************************************************************************)
NetCreate(n, b) ==
  [node EXCEPT ![n] =
     [@ EXCEPT !.provisioned = TRUE, !.iv_index = b.iv_index,
               !.iv_update = b.iv_update, !.joined = b.iv_update, !.age = 0]]

StartNetwork(n, b) ==
  /\ \A m \in Nodes : ~node[m].provisioned
  /\ b.iv_index \in StartIvs /\ (b.iv_update => b.iv_index > 0)
  /\ node' = NetCreate(n, b)
  /\ net' = [top |-> b.iv_index, since |-> Horizon]
  /\ UNCHANGED <<cache, nonce>>

JoinNetwork(n, m) ==
  /\ ~node[n].provisioned
  /\ node[m].provisioned
  /\ node' = NetCreate(n, BeaconOf(m))
  /\ UNCHANGED <<cache, nonce, net>>

(***************************************************************************)
(* bt_mesh_reset: the device leaves the network and the subnet entry is    *)
(* cleared.  The keys of the next network are new, so nonces start over.   *)
(***************************************************************************)
Reset(n) ==
  /\ node[n].provisioned
  /\ node' = [node EXCEPT ![n] = Unprovisioned]
  /\ nonce' = [nonce EXCEPT ![n] = NoNonce]
  /\ cache' = [cache EXCEPT ![n] = NoBeacon]
  /\ UNCHANGED net

Older(age, limit) == IF age < limit THEN age + 1 ELSE age

\* The clock ticks, for all devices alike.
Tick ==
  /\ node' = [n \in Nodes |->
                IF node[n].provisioned
                  THEN [node[n] EXCEPT !.age = Older(@, Timeout)]
                  ELSE node[n]]
  /\ net' = [net EXCEPT !.since = Older(@, Horizon)]
  /\ UNCHANGED <<cache, nonce>>

\* Plausible slip: the work asks for the next index, as the initiator does.
IvuCompleteNextIndex(n) ==
  LET r == node[n]
  IN  /\ r.ivu_timer
      /\ r.age = Timeout
      /\ Set(n, NetIvUpdate([r EXCEPT !.ivu_timer = FALSE, !.ivu_initiator = TRUE],
                            r.iv_index + 1, FALSE))
      /\ UNCHANGED <<cache, nonce>>

(***************************************************************************)
(* ivu_complete, 120 hours after the work was submitted.                   *)
(***************************************************************************)
IvuComplete(n) ==
  LET r == node[n]
  IN  /\ r.ivu_timer
      /\ r.age = Timeout
      /\ Set(n, NetIvUpdate([r EXCEPT !.ivu_timer = FALSE, !.ivu_initiator = TRUE],
                            r.iv_index, FALSE))
      /\ UNCHANGED <<cache, nonce>>

(***************************************************************************)
(* The beacons in the air: what beacon_send sends periodically while       *)
(* beaconing is enabled or the node is the initiator of an IV Update, and  *)
(* what other devices send.  A beacon may be missed at any time.           *)
(***************************************************************************)
OnAir(n) ==
  ForeignBeacons \cup
  {BeaconOf(m) : m \in {m \in Nodes \ {n} :
                          /\ node[m].provisioned
                          /\ m \in Beaconing \/ node[m].ivu_initiator}}

(***************************************************************************)
(* secure_beacon_recv.  A beacon equal to the cached one counts in the     *)
(* statistics only; any other is cached before it is acted upon, whether   *)
(* or not the IV procedure takes it up.                                    *)
(***************************************************************************)
RecvBeacon(n, b) ==
  LET r == node[n]
      q == [r EXCEPT !.ivu_initiator = @ /\ r.iv_update # b.iv_update]
  IN  /\ r.provisioned
      /\ b \in OnAir(n)
      /\ b # cache[n]
      /\ cache' = [cache EXCEPT ![n] = b]
      /\ Set(n, NetIvUpdate(q, b.iv_index, b.iv_update))
      /\ UNCHANGED nonce

(***************************************************************************)
(* send_unseg: one PDU through bt_mesh_net_encode.                         *)
(***************************************************************************)
SendUnseg(n) ==
  /\ node[n].provisioned
  /\ Set(n, Encrypt(node[n], 1))
  /\ nonce' = [nonce EXCEPT ![n] = LastNonce(node[n], 1)]
  /\ UNCHANGED cache

FreeCtx(r, c) == r.tx[c].nack = 0 /\ \A d \in Ctxs : d < c => r.tx[d].nack # 0

(***************************************************************************)
(* send_seg for an SDU of k segments, of which the advertising buffers     *)
(* allow j to be sent: with j < k the transfer is given up (-ENOBUFS).     *)
(***************************************************************************)
SendSeg(n, c, k, j) ==
  LET r == node[n]
      q == Encrypt([r EXCEPT !.tx[c] = [nack |-> k, left |-> k, iv |-> IviTx(r)]], j)
  IN  /\ r.provisioned
      /\ FreeCtx(r, c)
      /\ j <= k
      /\ Set(n, IF j < k THEN SegTxReset(q, c) ELSE q)
      /\ nonce' = [nonce EXCEPT ![n] = IF j = 0 THEN @ ELSE LastNonce(r, j)]
      /\ UNCHANGED cache

(***************************************************************************)
(* seg_tx_send_unacked on context c in state q.  Of the unacknowledged     *)
(* segments, k that have an attempt left and are not busy advertising go   *)
(* out again; with out, the loop then meets one without an attempt and     *)
(* gives up (-ETIMEDOUT).  bt_mesh_net_resend first decrypts a segment     *)
(* under the current transmit IV index, which fails (-EIO) when the index  *)
(* changed since it was encrypted.                                         *)
(***************************************************************************)
SendUnacked(n, q, c, k, out) ==
  LET s == Resend([q EXCEPT !.tx[c].left = @ - k], k)
  IN  /\ k <= q.tx[c].left
      /\ out => q.tx[c].left < q.tx[c].nack
      /\ IF k > 0 /\ q.tx[c].iv # IviTx(q)
           THEN /\ Set(n, SegTxReset(q, c))
                /\ UNCHANGED nonce
           ELSE /\ PastSeqLimit(q, k) => q.iv_index < MaxIv
                /\ Set(n, IF out THEN SegTxReset(s, c) ELSE s)
                /\ nonce' = [nonce EXCEPT ![n] = IF k = 0 THEN @ ELSE LastNonce(q, k)]

\* seg_retransmit
Retransmit(n, c, k, out) ==
  /\ node[n].tx[c].nack # 0
  /\ k > 0 \/ out
  /\ SendUnacked(n, node[n], c, k, out)
  /\ UNCHANGED cache

(***************************************************************************)
(* trans_ack with a block that acknowledges j more segments, of which      *)
(* some had their attempt left: the rest is sent again, or the transfer is *)
(* complete.                                                               *)
(***************************************************************************)
Ack(n, c, j, left, k, out) ==
  LET r == node[n]
      q == [r EXCEPT !.tx[c].nack = @ - j, !.tx[c].left = left]
  IN  /\ r.tx[c].nack # 0
      /\ j <= r.tx[c].nack
      /\ left <= r.tx[c].left /\ r.tx[c].left - left <= j
      /\ left <= r.tx[c].nack - j
      /\ IF q.tx[c].nack = 0
           THEN /\ Set(n, SegTxReset(q, c))
                /\ UNCHANGED nonce
           ELSE SendUnacked(n, q, c, k, out)
      /\ UNCHANGED cache

\* trans_ack with block 0: the receiver cancels the SDU (-ECANCELED).
Cancel(n, c) ==
  /\ node[n].tx[c].nack # 0
  /\ Set(n, SegTxReset(node[n], c))
  /\ UNCHANGED <<cache, nonce>>

Next ==
  \/ Tick
  \/ \E n \in Nodes :
     \/ \E b \in Beacon : StartNetwork(n, b)
     \/ \E m \in Nodes : JoinNetwork(n, m)
     \/ Reset(n)
     \/ IvuComplete(n)
     \/ \E b \in Beacon : RecvBeacon(n, b)
     \/ SendUnseg(n)
     \/ \E c \in Ctxs :
          \/ \E k \in 1..MaxSegs, j \in 0..MaxSegs : SendSeg(n, c, k, j)
          \/ \E k \in 0..MaxSegs, out \in BOOLEAN : Retransmit(n, c, k, out)
          \/ \E j, left, k \in 0..MaxSegs, out \in BOOLEAN : Ack(n, c, j, left, k, out)
          \/ Cancel(n, c)

Spec == Init /\ [][Next]_vars

(***************************************************************************)
(* Time passes, and the work queue runs ivu_complete and the retransmit    *)
(* work of a segmented transfer when they are due.  Nothing is assumed of  *)
(* beacons, acknowledgements or the application.                           *)
(***************************************************************************)
Fairness ==
  /\ WF_vars(Tick)
  /\ \A n \in Nodes : WF_vars(IvuComplete(n))
  /\ \A n \in Nodes, c \in Ctxs :
       WF_vars(\E k \in 0..MaxSegs, out \in BOOLEAN : Retransmit(n, c, k, out))

FairSpec == Spec /\ Fairness

-----------------------------------------------------------------------------
TypeOK ==
  /\ node \in [Nodes -> NodeState]
  /\ cache \in [Nodes -> Beacon \cup {NoBeacon}]
  /\ nonce \in [Nodes -> [iv : -1..MaxIv, seq : 0..SeqSpace - 1]]
  /\ net \in [top : 0..MaxIv, since : 0..Horizon]

(***************************************************************************)
(* The next PDU a node encrypts gets a nonce above every nonce it used     *)
(* before in this network, whatever beacons, recoveries and transfers came *)
(* in between, as long as the sequence numbers of the current transmit IV  *)
(* index have not run out.  (bt_mesh_net_encode and bt_mesh_net_resend     *)
(* against the resets of seq in bt_mesh_net_iv_update.)                    *)
(***************************************************************************)
Above(r, h) == h.iv < IviTx(r) \/ (h.iv = IviTx(r) /\ h.seq < r.seq)

NonceFresh ==
  \A n \in Nodes : ~node[n].wrapped => Above(node[n], nonce[n])

(***************************************************************************)
(* A node that entered the IV Update itself can always leave it: the       *)
(* ivu_complete work is still submitted, or the update is pending on a     *)
(* transfer.  (bt_mesh_net_iv_update, ivu_complete, seg_tx_reset.)         *)
(***************************************************************************)
UpdateHasExit ==
  \A n \in Nodes :
    node[n].iv_update /\ ~node[n].joined =>
      node[n].ivu_timer \/ node[n].pending_update

(***************************************************************************)
(* The step back to Normal Operation never changes the transmit IV index   *)
(* under a segmented transfer that still waits for acknowledgements: "Defer*)
(* change to Normal Operation if there are pending acks".                  *)
(***************************************************************************)
ReturnDeferred(n) ==
  /\ node[n].provisioned /\ node'[n].provisioned
  /\ node[n].iv_update /\ ~node'[n].iv_update
  => ~TxInProgress(node'[n])

DeferredUnderTransfer == [][\A n \in Nodes : ReturnDeferred(n)]_vars

(***************************************************************************)
(* The network cannot burn IV indices: between two steps to a new highest  *)
(* index in the network lie at least twice 96 hours, however nodes join,   *)
(* leave, miss beacons, recover and initiate on their own.                 *)
(***************************************************************************)
IvIndexPaced ==
  [][/\ \E n \in Nodes : node[n].provisioned
     /\ net'.top > net.top
     => net.since >= Horizon]_vars

(***************************************************************************)
(* Whatever happens, a node whose ivu_complete work is submitted either    *)
(* returns to Normal Operation or has the return pending on a transfer.    *)
(***************************************************************************)
TimerDecides ==
  \A n \in Nodes :
    node[n].ivu_timer ~> (~node[n].iv_update \/ node[n].pending_update)

(***************************************************************************)
(* "Maximum time to stay in IV Update mode (96 < time < 144)" (net.c): a   *)
(* node that enters the IV Update leaves it.                               *)
(***************************************************************************)
IvuEnds ==
  \A n \in Nodes : node[n].ivu_timer ~> ~node[n].iv_update
=============================================================================
