--------------------------- MODULE IvUpdateProofs ---------------------------
(***************************************************************************)
(* Proofs about IvUpdate, for every number of nodes, contexts, segments,   *)
(* IV indices and sequence numbers.                                        *)
(*                                                                         *)
(* The state of a node only changes through a handful of functions on its  *)
(* record, so the proofs go by what these functions preserve: first what   *)
(* bt_mesh_net_iv_update does to the record, then seg_tx_reset and the     *)
(* encryption of PDUs on top of it, then one step per action.              *)
(***************************************************************************)
EXTENDS IvUpdate, TLAPS

Nonce == [iv : -1..MaxIv, seq : 0..SeqSpace - 1]

(***************************************************************************)
(* What holds of the record r and the last nonce h of a node.  Fresh is    *)
(* the inductive form of NonceFresh: it also says what is true of h after  *)
(* a wrap, without which the reset of seq could not be justified.          *)
(***************************************************************************)
Fresh(r, h) ==
  /\ r.iv_update => r.iv_index > 0
  /\ h.iv <= IviTx(r)
  /\ ~r.wrapped => Above(r, h)

(***************************************************************************)
(* The inductive form of UpdateHasExit: a pending return to Normal         *)
(* Operation has already passed the 96 hour check, so that taking it up    *)
(* again can only end the update or set it pending once more.              *)
(***************************************************************************)
Exit(r) ==
  r.iv_update /\ ~r.joined =>
    r.ivu_timer \/ (r.pending_update /\ r.age >= MinStay)

Good(r, h) == r \in NodeState /\ h \in Nonce /\ Fresh(r, h) /\ Exit(r)

\* From r to q, a return to Normal Operation finds no transfer in progress.
Deferred(r, q) == r.iv_update /\ ~q.iv_update => ~TxInProgress(q)

\* An unprovisioned device holds nothing of a network.
Blank(r, h) == ~r.provisioned => r = Unprovisioned /\ h = NoNonce

IInv ==
  /\ TypeOK
  /\ \A n \in Nodes : /\ Fresh(node[n], nonce[n])
                      /\ Exit(node[n])
                      /\ Blank(node[n], nonce[n])

-----------------------------------------------------------------------------
\* The 24-bit field holds what is put into it, and all of it below the wrap.
LEMMA ModField ==
  ASSUME NEW a \in Nat, NEW s \in Nat \ {0}
  PROVE  a % s \in 0..s - 1 /\ (a < s => a % s = a)
  OBVIOUS

\* The common tail of bt_mesh_net_iv_update leaves a well-formed record.
LEMMA DoUpdateType ==
  ASSUME NEW r \in NodeState, NEW i \in 0..MaxIv, NEW u \in BOOLEAN
  PROVE  /\ DoUpdate(r, i, u) \in NodeState
         /\ DoUpdate(r, i, u).provisioned = r.provisioned
         /\ DoUpdate(r, i, u).tx = r.tx
<1>0. 0 \in 0..SeqSpace - 1 /\ 0 \in 0..Timeout
  BY ConstantsAssumption
<1>1. DoUpdate(r, i, u) \in NodeState
  BY <1>0 DEF DoUpdate, NodeState
<1>2. /\ DoUpdate(r, i, u).provisioned = r.provisioned
      /\ DoUpdate(r, i, u).tx = r.tx
  BY DEF DoUpdate, NodeState
<1> QED BY <1>1, <1>2

\* So does bt_mesh_net_iv_update as a whole.
LEMMA NetIvUpdateType ==
  ASSUME NEW r \in NodeState, NEW i \in 0..MaxIv, NEW u \in BOOLEAN
  PROVE  /\ NetIvUpdate(r, i, u) \in NodeState
         /\ NetIvUpdate(r, i, u).provisioned = r.provisioned
         /\ NetIvUpdate(r, i, u).tx = r.tx
<1> DEFINE s == [r EXCEPT !.iv_index = i, !.seq = 0, !.wrapped = FALSE]
           p == [r EXCEPT !.pending_update = TRUE]
<1>0. 0 \in 0..SeqSpace - 1
  BY ConstantsAssumption
<1>1. s \in NodeState /\ s.provisioned = r.provisioned /\ s.tx = r.tx
  BY <1>0 DEF NodeState
<1>2. p \in NodeState /\ p.provisioned = r.provisioned /\ p.tx = r.tx
  BY DEF NodeState
<1>3. \/ NetIvUpdate(r, i, u) = DoUpdate(s, i, u)
      \/ NetIvUpdate(r, i, u) = r
      \/ NetIvUpdate(r, i, u) = p
      \/ NetIvUpdate(r, i, u) = DoUpdate(r, i, u)
  BY DEF NetIvUpdate
<1> HIDE DEF s, p
<1> QED BY <1>1, <1>2, <1>3, DoUpdateType

(***************************************************************************)
(* bt_mesh_net_iv_update never takes the node back to a used nonce: where  *)
(* it sets seq to 0 it has also raised the transmit IV index.              *)
(***************************************************************************)
LEMMA NetIvUpdateFresh ==
  ASSUME NEW r \in NodeState, NEW h \in Nonce, Fresh(r, h),
         NEW i \in 0..MaxIv, NEW u \in BOOLEAN
  PROVE  Fresh(NetIvUpdate(r, i, u), h)
  BY ConstantsAssumption
  DEF NetIvUpdate, DoUpdate, Recovers, Regular, NodeState, Nonce, Fresh, Above, IviTx

\* bt_mesh_net_iv_update never closes the way out of the IV Update.
LEMMA NetIvUpdateExit ==
  ASSUME NEW r \in NodeState, Exit(r), NEW i \in 0..MaxIv, NEW u \in BOOLEAN
  PROVE  Exit(NetIvUpdate(r, i, u))
  BY ConstantsAssumption
  DEF NetIvUpdate, DoUpdate, Recovers, Regular, NodeState, Exit

\* Asked to return after 96 hours, it returns or leaves the return pending.
LEMMA ReturnExit ==
  ASSUME NEW r \in NodeState, r.age >= MinStay
  PROVE  Exit(NetIvUpdate(r, r.iv_index, FALSE))
  BY ConstantsAssumption
  DEF NetIvUpdate, DoUpdate, Recovers, Regular, NodeState, Exit

-----------------------------------------------------------------------------
\* Encrypting k PDUs moves past the nonces they take.
LEMMA EncryptKeeps ==
  ASSUME NEW r \in NodeState, NEW h \in Nonce, Fresh(r, h), Exit(r),
         NEW k \in Nat
  PROVE  /\ Encrypt(r, k) \in NodeState
         /\ Encrypt(r, k).provisioned = r.provisioned
         /\ Encrypt(r, k).tx = r.tx
         /\ Encrypt(r, k).iv_index = r.iv_index
         /\ Encrypt(r, k).iv_update = r.iv_update
         /\ Exit(Encrypt(r, k))
         /\ Fresh(Encrypt(r, k), h)
         /\ k > 0 => /\ LastNonce(r, k) \in Nonce
                     /\ Fresh(Encrypt(r, k), LastNonce(r, k))
<1>a. SeqSpace \in Nat \ {0}
  BY ConstantsAssumption
<1>0. r.seq \in Nat
  BY <1>a DEF NodeState
<1>1. r.seq + k \in Nat /\ (r.seq + k) % SeqSpace \in 0..SeqSpace - 1
  BY <1>a, <1>0
<1>2. Encrypt(r, k) \in NodeState
  BY <1>1 DEF Encrypt, NodeState
<1>3. /\ Encrypt(r, k).provisioned = r.provisioned
      /\ Encrypt(r, k).tx = r.tx
      /\ Encrypt(r, k).iv_index = r.iv_index
      /\ Encrypt(r, k).iv_update = r.iv_update
      /\ Encrypt(r, k).seq = (r.seq + k) % SeqSpace
      /\ Exit(Encrypt(r, k))
  BY DEF Encrypt, NodeState, Exit
<1>4. ~Encrypt(r, k).wrapped => ~r.wrapped /\ r.seq + k < SeqSpace
  <2>1. Encrypt(r, k).wrapped <=> r.wrapped \/ r.seq + k >= SeqSpace
    BY DEF Encrypt, NodeState
  <2>2. ~(r.seq + k >= SeqSpace) => r.seq + k < SeqSpace
    BY <1>a, <1>0
  <2> QED BY <2>1, <2>2, Zenon
<1>5. r.seq + k < SeqSpace => (r.seq + k) % SeqSpace = r.seq + k
  BY <1>a, <1>0
<1>6. Fresh(Encrypt(r, k), h)
  BY <1>3, <1>4, <1>5 DEF Fresh, Above, IviTx, NodeState, Nonce
<1>7. ASSUME k > 0
      PROVE  LastNonce(r, k) \in Nonce /\ Fresh(Encrypt(r, k), LastNonce(r, k))
  <2>1. (r.seq + k - 1) % SeqSpace \in 0..SeqSpace - 1
    BY <1>a, <1>0, <1>7
  <2>2. IviTx(r) \in 0..MaxIv
    BY ConstantsAssumption DEF IviTx, Fresh, NodeState
  <2>3. LastNonce(r, k) \in Nonce
    BY <2>1, <2>2 DEF LastNonce, Nonce
  <2>4. r.seq + k < SeqSpace => (r.seq + k - 1) % SeqSpace = r.seq + k - 1
    BY <1>a, <1>0, <1>7
  <2> QED BY <1>0, <1>3, <1>4, <1>5, <2>2, <2>3, <2>4
          DEF Fresh, Above, IviTx, LastNonce
<1> QED BY <1>2, <1>3, <1>6, <1>7

\* Setting one transmit context leaves a well-formed record.
LEMMA SetTx ==
  ASSUME NEW r \in NodeState, NEW c \in Ctxs, NEW t \in SegTx,
         NEW h \in Nonce, Fresh(r, h), Exit(r)
  PROVE  LET q == [r EXCEPT !.tx[c] = t]
         IN  /\ q \in NodeState
             /\ q.provisioned = r.provisioned
             /\ q.iv_index = r.iv_index /\ q.iv_update = r.iv_update
             /\ q.age = r.age /\ q.joined = r.joined /\ q.ivu_timer = r.ivu_timer
             /\ q.pending_update = r.pending_update
             /\ q.tx = [r.tx EXCEPT ![c] = t]
             /\ Fresh(q, h) /\ Exit(q)
  BY DEF NodeState, Fresh, Exit, Above, IviTx

\* bt_mesh_net_iv_update defers the return while transfers are in progress.
LEMMA NetIvUpdateDeferred ==
  ASSUME NEW r \in NodeState, NEW i \in 0..MaxIv, NEW u \in BOOLEAN
  PROVE  Deferred(r, NetIvUpdate(r, i, u))
<1>1. NetIvUpdate(r, i, u).tx = r.tx
  BY NetIvUpdateType
<1>2. r.iv_update /\ ~NetIvUpdate(r, i, u).iv_update => ~TxInProgress(r)
  BY DEF NetIvUpdate, DoUpdate, Recovers, Regular, NodeState
<1> QED BY <1>1, <1>2 DEF Deferred, TxInProgress

\* All of this for one call of bt_mesh_net_iv_update.
LEMMA NetIvUpdateKeeps ==
  ASSUME NEW r, NEW h, Good(r, h), NEW i \in 0..MaxIv, NEW u \in BOOLEAN
  PROVE  /\ Good(NetIvUpdate(r, i, u), h)
         /\ NetIvUpdate(r, i, u).provisioned = r.provisioned
         /\ Deferred(r, NetIvUpdate(r, i, u))
  BY NetIvUpdateType, NetIvUpdateFresh, NetIvUpdateExit, NetIvUpdateDeferred DEF Good

(***************************************************************************)
(* seg_tx_reset: the pending flag is cleared before the return is tried,   *)
(* and what is tried is past its 96 hours or still has its timer.          *)
(***************************************************************************)
LEMMA SegTxResetKeeps ==
  ASSUME NEW r, NEW h, Good(r, h), NEW c \in Ctxs
  PROVE  /\ Good(SegTxReset(r, c), h)
         /\ SegTxReset(r, c).provisioned = r.provisioned
         /\ Deferred(r, SegTxReset(r, c))
<1> DEFINE q == [r EXCEPT !.tx[c] = IdleTx]
           p == [q EXCEPT !.pending_update = FALSE]
<1>1. IdleTx \in SegTx
  BY ConstantsAssumption DEF IdleTx, SegTx
<1>2. /\ q \in NodeState /\ Fresh(q, h) /\ Exit(q)
      /\ q.provisioned = r.provisioned /\ q.iv_update = r.iv_update
      /\ q.iv_index = r.iv_index
  BY <1>1, SetTx DEF Good
<1>3. SegTxReset(r, c) = IF r.tx[c].nack # 0 /\ r.pending_update
                           THEN NetIvUpdate(p, q.iv_index, FALSE) ELSE q
  BY DEF SegTxReset
<1> HIDE DEF q
<1>4. /\ p \in NodeState /\ Fresh(p, h)
      /\ p.provisioned = r.provisioned /\ p.iv_update = r.iv_update
      /\ p.iv_index = q.iv_index /\ p.age = q.age /\ p.ivu_timer = q.ivu_timer
      /\ p.joined = q.joined
  BY <1>2 DEF NodeState, Fresh, Above, IviTx
<1>5. q.iv_index \in 0..MaxIv /\ q.age \in Nat /\ MinStay \in Nat
  BY <1>2, ConstantsAssumption DEF NodeState
<1> HIDE DEF p
<1>6. /\ NetIvUpdate(p, q.iv_index, FALSE) \in NodeState
      /\ NetIvUpdate(p, q.iv_index, FALSE).provisioned = r.provisioned
      /\ Fresh(NetIvUpdate(p, q.iv_index, FALSE), h)
      /\ Deferred(r, NetIvUpdate(p, q.iv_index, FALSE))
  BY <1>4, <1>5, NetIvUpdateType, NetIvUpdateFresh, NetIvUpdateDeferred DEF Deferred, Good
<1>7. Exit(NetIvUpdate(p, q.iv_index, FALSE))
  <2>1. CASE q.age >= MinStay
    BY <2>1, <1>4, <1>5, ReturnExit
  <2>2. CASE ~(q.age >= MinStay)
    BY <2>2, <1>2, <1>4, <1>5, NetIvUpdateExit DEF Exit
  <2> QED BY <2>1, <2>2
<1> QED BY <1>2, <1>3, <1>6, <1>7 DEF Good, Deferred

(***************************************************************************)
(* bt_mesh_net_resend, with its sequence number check: it may enter the IV *)
(* Update, never leave it.                                                 *)
(***************************************************************************)
LEMMA ResendKeeps ==
  ASSUME NEW r, NEW h, Good(r, h), NEW k \in Nat, PastSeqLimit(r, k) => r.iv_index < MaxIv
  PROVE  LET g == IF k = 0 THEN h ELSE LastNonce(r, k)
         IN  /\ Good(Resend(r, k), g)
             /\ Resend(r, k).provisioned = r.provisioned
             /\ r.iv_update => Resend(r, k).iv_update
<1> DEFINE g == IF k = 0 THEN h ELSE LastNonce(r, k)
           s == Encrypt(r, k)
           q == [s EXCEPT !.ivu_initiator = TRUE]
<1>1. /\ Good(s, g) /\ s.provisioned = r.provisioned
      /\ s.iv_index = r.iv_index /\ s.iv_update = r.iv_update
  BY EncryptKeeps DEF Good
<1>2. Resend(r, k) = IF PastSeqLimit(r, k) THEN NetIvUpdate(q, s.iv_index + 1, TRUE) ELSE s
  BY DEF Resend
<1>3. r.iv_update => ~PastSeqLimit(r, k)
  BY DEF PastSeqLimit
<1> HIDE DEF s, g
<1>4. Good(q, g) /\ q.provisioned = r.provisioned
  BY <1>1 DEF Good, NodeState, Fresh, Exit, Above, IviTx
<1>5. s.iv_index \in 0..MaxIv
  BY <1>1 DEF Good, NodeState
<1> HIDE DEF q
<1>6. CASE PastSeqLimit(r, k)
  <2>1. s.iv_index + 1 \in 0..MaxIv
    BY <1>1, <1>5, <1>6, ConstantsAssumption
  <2>2. /\ Good(NetIvUpdate(q, s.iv_index + 1, TRUE), g)
        /\ NetIvUpdate(q, s.iv_index + 1, TRUE).provisioned = q.provisioned
    BY <1>4, <2>1, NetIvUpdateKeeps
  <2> QED BY <1>2, <1>3, <1>4, <1>6, <2>2 DEF g
<1>7. CASE ~PastSeqLimit(r, k)
  BY <1>1, <1>2, <1>7 DEF g
<1> QED BY <1>6, <1>7

-----------------------------------------------------------------------------
\* A node moves to a good state: the rest of the system is untouched.
LEMMA SetKeeps ==
  ASSUME IInv, NEW n \in Nodes, NEW r, NEW h, Good(r, h), r.provisioned,
         Deferred(node[n], r), Set(n, r), nonce' = [nonce EXCEPT ![n] = h],
         cache' \in [Nodes -> Beacon \cup {NoBeacon}]
  PROVE  IInv' /\ \A m \in Nodes : ReturnDeferred(m)
<1>1. node' = [node EXCEPT ![n] = r] /\ r \in NodeState /\ h \in Nonce
  BY DEF Set, Good
<1>2. node' \in [Nodes -> NodeState] /\ nonce' \in [Nodes -> Nonce]
  BY <1>1 DEF IInv, TypeOK, Nonce
<1>3. net' \in [top : 0..MaxIv, since : 0..Horizon]
  BY <1>1, ConstantsAssumption DEF Set, IInv, TypeOK, NodeState
<1>4. \A m \in Nodes : /\ node'[m] = IF m = n THEN r ELSE node[m]
                       /\ nonce'[m] = IF m = n THEN h ELSE nonce[m]
  BY <1>1 DEF IInv, TypeOK
<1>5. TypeOK'
  BY <1>2, <1>3 DEF TypeOK, Nonce
<1>6. ASSUME NEW m \in Nodes
      PROVE  Fresh(node'[m], nonce'[m]) /\ Exit(node'[m]) /\ Blank(node'[m], nonce'[m])
  <2>1. CASE m = n
    BY <1>4, <2>1 DEF Good, Blank
  <2>2. CASE m # n
    BY <1>4, <2>2 DEF IInv
  <2> QED BY <2>1, <2>2
<1>7. ASSUME NEW m \in Nodes
      PROVE  ReturnDeferred(m)
  <2>1. CASE m = n
    BY <1>4, <2>1 DEF Deferred, ReturnDeferred
  <2>2. CASE m # n
    BY <1>4, <2>2 DEF ReturnDeferred
  <2> QED BY <2>1, <2>2
<1> QED BY <1>5, <1>6, <1>7 DEF IInv

\* What IInv says of one node.
LEMMA NodeGood ==
  ASSUME IInv, NEW n \in Nodes
  PROVE  /\ Good(node[n], nonce[n])
         /\ nonce = [nonce EXCEPT ![n] = nonce[n]]
         /\ ~node[n].provisioned => node[n] = Unprovisioned /\ nonce[n] = NoNonce
  BY DEF IInv, TypeOK, Good, Blank, Nonce

(***************************************************************************)
(* seg_tx_send_unacked, from a state q that differs from the node's in its *)
(* transmit contexts only.                                                 *)
(***************************************************************************)
LEMMA SendUnackedKeeps ==
  ASSUME IInv, NEW n \in Nodes, NEW q, Good(q, nonce[n]), q.provisioned,
         q.iv_update = node[n].iv_update, NEW c \in Ctxs, NEW k \in 0..MaxSegs,
         NEW out \in BOOLEAN, SendUnacked(n, q, c, k, out), UNCHANGED cache
  PROVE  IInv' /\ \A m \in Nodes : ReturnDeferred(m)
<1> DEFINE h == nonce[n]
           g == IF k = 0 THEN h ELSE LastNonce(q, k)
           a == [q EXCEPT !.tx[c].left = @ - k]
           s == Resend(a, k)
<1>0. cache' \in [Nodes -> Beacon \cup {NoBeacon}] /\ nonce = [nonce EXCEPT ![n] = h]
  BY NodeGood DEF IInv, TypeOK
<1>1. CASE k > 0 /\ q.tx[c].iv # IviTx(q)
  <2>1. Set(n, SegTxReset(q, c)) /\ UNCHANGED nonce
    BY <1>1 DEF SendUnacked
  <2>2. /\ Good(SegTxReset(q, c), h) /\ SegTxReset(q, c).provisioned
        /\ Deferred(node[n], SegTxReset(q, c))
    BY SegTxResetKeeps DEF Deferred
  <2> QED BY <1>0, <2>1, <2>2, SetKeeps
<1>2. CASE ~(k > 0 /\ q.tx[c].iv # IviTx(q))
  <2>1. /\ Set(n, IF out THEN SegTxReset(s, c) ELSE s)
        /\ nonce' = [nonce EXCEPT ![n] = g]
        /\ k <= q.tx[c].left
        /\ PastSeqLimit(q, k) => q.iv_index < MaxIv
    BY <1>0, <1>2 DEF SendUnacked
  <2>2. k \in Nat /\ q \in NodeState
    BY ConstantsAssumption DEF Good
  <2>3. q.tx[c].left - k \in 0..MaxSegs /\ q.tx[c] \in SegTx
    BY <2>1, <2>2, ConstantsAssumption DEF NodeState, SegTx
  <2>4. [q.tx[c] EXCEPT !.left = @ - k] \in SegTx
    BY <2>3 DEF SegTx
  <2>5. a = [q EXCEPT !.tx[c] = [q.tx[c] EXCEPT !.left = @ - k]] /\ a.seq = q.seq
    BY <2>2 DEF NodeState
  <2>6. /\ Good(a, h) /\ a.provisioned
        /\ a.iv_index = q.iv_index /\ a.iv_update = q.iv_update
    BY <2>2, <2>4, <2>5, SetTx DEF Good
  <2> HIDE DEF a
  <2>7. LastNonce(a, k) = LastNonce(q, k) /\ PastSeqLimit(a, k) = PastSeqLimit(q, k)
    BY <2>5, <2>6 DEF LastNonce, IviTx, PastSeqLimit
  <2>8. Good(s, g) /\ s.provisioned /\ (q.iv_update => s.iv_update)
    BY <2>1, <2>2, <2>6, <2>7, ResendKeeps
  <2> HIDE DEF s, g
  <2>9. CASE out
    <3>1. /\ Good(SegTxReset(s, c), g) /\ SegTxReset(s, c).provisioned
          /\ Deferred(node[n], SegTxReset(s, c))
      BY <2>8, SegTxResetKeeps DEF Deferred
    <3> QED BY <1>0, <2>1, <2>9, <3>1, SetKeeps
  <2>10. CASE ~out
    <3>1. Deferred(node[n], s)
      BY <2>8 DEF Deferred
    <3> QED BY <1>0, <2>1, <2>8, <2>10, <3>1, SetKeeps
  <2> QED BY <2>9, <2>10
<1> QED BY <1>1, <1>2

\* A device without a network has no transfer.
LEMMA Busy ==
  ASSUME IInv, NEW n \in Nodes, NEW c \in Ctxs, node[n].tx[c].nack # 0
  PROVE  node[n].provisioned
<1>1. Unprovisioned.tx[c].nack = 0
  BY DEF Unprovisioned, IdleTx
<1> QED BY <1>1, NodeGood

-----------------------------------------------------------------------------
\* Provisioning, by whatever beacon state the network is in.
LEMMA NetCreateKeeps ==
  ASSUME IInv, NEW n \in Nodes, NEW b \in Beacon, ~node[n].provisioned,
         b.iv_update => b.iv_index > 0, node' = NetCreate(n, b),
         UNCHANGED <<cache, nonce>>, net' \in [top : 0..MaxIv, since : 0..Horizon]
  PROVE  IInv' /\ \A m \in Nodes : ReturnDeferred(m)
<1> DEFINE q == [node[n] EXCEPT !.provisioned = TRUE, !.iv_index = b.iv_index,
                   !.iv_update = b.iv_update, !.joined = b.iv_update, !.age = 0]
<1>0. node[n] \in NodeState /\ node[n] = Unprovisioned /\ nonce[n] = NoNonce
  BY NodeGood DEF Good
<1>1. 0 \in 0..Timeout /\ b.iv_index \in 0..MaxIv /\ b.iv_update \in BOOLEAN
  BY ConstantsAssumption DEF Beacon
<1>2. /\ q \in NodeState /\ q.provisioned /\ q.iv_index = b.iv_index
      /\ q.iv_update = b.iv_update /\ q.joined = b.iv_update
  BY <1>0, <1>1 DEF NodeState
<1>3. Exit(q)
  BY <1>2 DEF Exit
<1>4. NoNonce.iv = -1
  BY DEF NoNonce
<1>5. Fresh(q, NoNonce)
  <2>1. IviTx(q) \in Nat
    BY <1>1, <1>2 DEF IviTx
  <2> QED BY <1>2, <1>4, <2>1 DEF Fresh, Above
<1>6. node' = [node EXCEPT ![n] = q]
  BY DEF NetCreate
<1> HIDE DEF q
<1>7. \A m \in Nodes : node'[m] = IF m = n THEN q ELSE node[m]
  BY <1>6 DEF IInv, TypeOK
<1>8. TypeOK'
  BY <1>2, <1>6 DEF IInv, TypeOK
<1>9. \A m \in Nodes : /\ Fresh(node'[m], nonce'[m]) /\ Exit(node'[m])
                       /\ Blank(node'[m], nonce'[m])
  <2> TAKE m \in Nodes
  <2>1. CASE m = n
    BY <1>0, <1>2, <1>3, <1>5, <1>7, <2>1 DEF Blank
  <2>2. CASE m # n
    BY <1>7, <2>2 DEF IInv
  <2> QED BY <2>1, <2>2
<1>10. \A m \in Nodes : ReturnDeferred(m)
  BY <1>7 DEF ReturnDeferred
<1> QED BY <1>8, <1>9, <1>10 DEF IInv

\* A device that holds nothing of a network satisfies every part of IInv.
LEMMA BlankGood ==
  /\ Unprovisioned \in NodeState /\ NoNonce \in Nonce
  /\ Fresh(Unprovisioned, NoNonce) /\ Exit(Unprovisioned)
  /\ Blank(Unprovisioned, NoNonce) /\ ~Unprovisioned.provisioned
<1>1. 0 \in 0..SeqSpace - 1 /\ 0 \in 0..Timeout /\ 0 \in 0..MaxIv /\ -1 \in -1..MaxIv
  BY ConstantsAssumption
<1>2. IdleTx \in SegTx
  BY ConstantsAssumption DEF IdleTx, SegTx
<1>3. Unprovisioned \in NodeState
  BY <1>1, <1>2 DEF Unprovisioned, NodeState
<1>4. NoNonce \in Nonce
  BY <1>1 DEF NoNonce, Nonce
<1>5. Fresh(Unprovisioned, NoNonce) /\ Exit(Unprovisioned)
  BY DEF Fresh, Exit, Above, IviTx, Unprovisioned, NoNonce
<1> QED BY <1>3, <1>4, <1>5 DEF Blank, Unprovisioned

LEMMA InitHolds == Init => IInv
<1> SUFFICES ASSUME Init PROVE IInv
  OBVIOUS
<1>1. net \in [top : 0..MaxIv, since : 0..Horizon]
  BY ConstantsAssumption DEF Init
<1>2. TypeOK
  BY <1>1, BlankGood DEF Init, TypeOK, Nonce
<1> QED BY <1>2, BlankGood DEF Init, IInv

\* Every step of the system keeps IInv and defers the return under a transfer.
LEMMA NextKeeps == IInv /\ Next => IInv' /\ \A m \in Nodes : ReturnDeferred(m)
<1> SUFFICES ASSUME IInv, Next PROVE IInv' /\ \A m \in Nodes : ReturnDeferred(m)
  OBVIOUS
<1>0. TypeOK
  BY DEF IInv
<1>1. CASE Tick
  <2> DEFINE o(r) == [r EXCEPT !.age = Older(@, Timeout)]
  <2>1. \A m \in Nodes : node'[m] = IF node[m].provisioned THEN o(node[m]) ELSE node[m]
    BY <1>1 DEF Tick
  <2>2. ASSUME NEW r \in NodeState, NEW h, Fresh(r, h), Exit(r)
        PROVE  /\ o(r) \in NodeState /\ Fresh(o(r), h) /\ Exit(o(r))
               /\ o(r).provisioned = r.provisioned /\ o(r).iv_update = r.iv_update
    <3>1. Older(r.age, Timeout) \in 0..Timeout /\ Older(r.age, Timeout) >= r.age
      BY ConstantsAssumption DEF Older, NodeState
    <3>2. o(r) \in NodeState
      BY <3>1 DEF NodeState
    <3>3. /\ o(r).provisioned = r.provisioned /\ o(r).iv_update = r.iv_update
          /\ o(r).iv_index = r.iv_index /\ o(r).wrapped = r.wrapped /\ o(r).seq = r.seq
          /\ o(r).joined = r.joined /\ o(r).ivu_timer = r.ivu_timer
          /\ o(r).pending_update = r.pending_update /\ o(r).age >= r.age
      BY <3>1 DEF NodeState
    <3>4. r.age \in Int /\ o(r).age \in Int /\ MinStay \in Int
      BY <3>2, ConstantsAssumption DEF NodeState
    <3> HIDE DEF o
    <3>5. Exit(o(r))
      BY <2>2, <3>3, <3>4 DEF Exit
    <3>6. Fresh(o(r), h)
      BY <2>2, <3>3 DEF Fresh, Above, IviTx
    <3> QED BY <3>2, <3>3, <3>5, <3>6
  <2> HIDE DEF o
  <2>3. node' \in [Nodes -> NodeState]
    <3>1. node' = [m \in Nodes |-> IF node[m].provisioned THEN o(node[m]) ELSE node[m]]
      BY <1>1 DEF Tick, o
    <3>2. ASSUME NEW m \in Nodes, node[m].provisioned PROVE o(node[m]) \in NodeState
      BY <2>2, <3>2, NodeGood DEF Good
    <3> QED BY <3>1, <3>2, <1>0 DEF TypeOK
  <2>4. net' \in [top : 0..MaxIv, since : 0..Horizon]
    <3>1. net.since \in 0..Horizon /\ Horizon \in Nat
      BY <1>0, ConstantsAssumption DEF TypeOK
    <3>2. Older(net.since, Horizon) \in 0..Horizon
      BY <3>1 DEF Older
    <3> QED BY <1>0, <1>1, <3>2 DEF TypeOK, Tick
  <2>5. TypeOK'
    BY <1>0, <1>1, <2>3, <2>4 DEF TypeOK, Tick
  <2>6. ASSUME NEW m \in Nodes
        PROVE  /\ Fresh(node'[m], nonce'[m]) /\ Exit(node'[m])
               /\ Blank(node'[m], nonce'[m]) /\ ReturnDeferred(m)
    <3>1. nonce'[m] = nonce[m]
      BY <1>1 DEF Tick
    <3>2. CASE node[m].provisioned
      BY <2>1, <2>2, <3>1, <3>2, NodeGood DEF Good, Blank, ReturnDeferred
    <3>3. CASE ~node[m].provisioned
      BY <2>1, <3>1, <3>3 DEF IInv, ReturnDeferred
    <3> QED BY <3>2, <3>3
  <2> QED BY <2>5, <2>6 DEF IInv
<1>2. ASSUME NEW n \in Nodes, NEW b \in Beacon, StartNetwork(n, b)
      PROVE  IInv' /\ \A m \in Nodes : ReturnDeferred(m)
  <2>1. net' \in [top : 0..MaxIv, since : 0..Horizon]
    BY <1>2, ConstantsAssumption DEF StartNetwork, Beacon
  <2> QED BY <1>2, <2>1, NetCreateKeeps DEF StartNetwork
<1>3. ASSUME NEW n \in Nodes, NEW m \in Nodes, JoinNetwork(n, m)
      PROVE  IInv' /\ \A l \in Nodes : ReturnDeferred(l)
  <2>1. BeaconOf(m) \in Beacon /\ (BeaconOf(m).iv_update => BeaconOf(m).iv_index > 0)
    BY <1>0, NodeGood DEF BeaconOf, Beacon, Good, Fresh, NodeState
  <2>2. net' \in [top : 0..MaxIv, since : 0..Horizon]
    BY <1>0, <1>3 DEF JoinNetwork, TypeOK
  <2> QED BY <1>3, <2>1, <2>2, NetCreateKeeps DEF JoinNetwork
<1>4. ASSUME NEW n \in Nodes, Reset(n)
      PROVE  IInv' /\ \A m \in Nodes : ReturnDeferred(m)
  <2>1. \A m \in Nodes :
          /\ node'[m] = IF m = n THEN Unprovisioned ELSE node[m]
          /\ nonce'[m] = IF m = n THEN NoNonce ELSE nonce[m]
    BY <1>0, <1>4 DEF Reset, TypeOK
  <2>2. TypeOK'
    BY <1>0, <1>4, BlankGood DEF Reset, TypeOK, Nonce
  <2>3. \A m \in Nodes : ReturnDeferred(m)
    BY <2>1, BlankGood DEF ReturnDeferred
  <2> QED BY <2>1, <2>2, <2>3, BlankGood DEF IInv
<1>5. ASSUME NEW n \in Nodes, IvuComplete(n)
      PROVE  IInv' /\ \A m \in Nodes : ReturnDeferred(m)
  <2> DEFINE r == node[n]
             q == [r EXCEPT !.ivu_timer = FALSE, !.ivu_initiator = TRUE]
             s == NetIvUpdate(q, r.iv_index, FALSE)
  <2>1. /\ Good(r, nonce[n]) /\ r \in NodeState /\ nonce[n] \in Nonce
        /\ nonce = [nonce EXCEPT ![n] = nonce[n]]
    BY NodeGood DEF Good
  <2>2. r.provisioned
    <3>1. ~Unprovisioned.ivu_timer
      BY DEF Unprovisioned
    <3> QED BY <1>5, <3>1, NodeGood DEF IvuComplete
  <2>3. r.age = Timeout /\ Set(n, s) /\ UNCHANGED <<cache, nonce>>
    BY <1>5 DEF IvuComplete
  <2>4. /\ q \in NodeState /\ q.provisioned /\ q.iv_index = r.iv_index
        /\ q.age = Timeout /\ q.iv_update = r.iv_update
        /\ Fresh(q, nonce[n])
    BY <2>1, <2>2, <2>3 DEF NodeState, Good, Fresh, Above, IviTx
  <2>5. q.iv_index \in 0..MaxIv /\ q.age >= MinStay
    BY <2>4, ConstantsAssumption DEF NodeState
  <2> HIDE DEF q
  <2>6. s \in NodeState /\ s.provisioned /\ Deferred(q, s) /\ Exit(s) /\ Fresh(s, nonce[n])
    BY <2>1, <2>4, <2>5, NetIvUpdateType, NetIvUpdateDeferred, ReturnExit, NetIvUpdateFresh
  <2> HIDE DEF s
  <2>7. Deferred(node[n], s) /\ Good(s, nonce[n])
    BY <2>1, <2>4, <2>6 DEF Deferred, Good
  <2> QED BY <1>0, <2>1, <2>3, <2>6, <2>7, SetKeeps DEF TypeOK
<1>6. ASSUME NEW n \in Nodes, NEW b \in Beacon, RecvBeacon(n, b)
      PROVE  IInv' /\ \A m \in Nodes : ReturnDeferred(m)
  <2> DEFINE r == node[n]
             q == [r EXCEPT !.ivu_initiator = @ /\ r.iv_update # b.iv_update]
             s == NetIvUpdate(q, b.iv_index, b.iv_update)
  <2>1. /\ Good(r, nonce[n]) /\ r \in NodeState
        /\ nonce = [nonce EXCEPT ![n] = nonce[n]]
    BY NodeGood DEF Good
  <2>2. b.iv_index \in 0..MaxIv /\ b.iv_update \in BOOLEAN
    BY DEF Beacon
  <2>3. /\ r.provisioned /\ Set(n, s) /\ UNCHANGED nonce
        /\ cache' = [cache EXCEPT ![n] = b]
    BY <1>6 DEF RecvBeacon
  <2>4. q \in NodeState /\ q.provisioned = r.provisioned /\ q.iv_update = r.iv_update
    BY <2>1 DEF NodeState
  <2>5. Fresh(q, nonce[n]) /\ Exit(q)
    BY <2>1 DEF NodeState, Good, Fresh, Exit, Above, IviTx
  <2>6. Good(q, nonce[n])
    BY <2>1, <2>4, <2>5 DEF Good
  <2> HIDE DEF q
  <2>7. Good(s, nonce[n]) /\ s.provisioned /\ Deferred(q, s)
    BY <2>2, <2>3, <2>4, <2>6, NetIvUpdateKeeps
  <2> HIDE DEF s
  <2>8. Deferred(node[n], s)
    BY <2>4, <2>7 DEF Deferred
  <2>9. cache' \in [Nodes -> Beacon \cup {NoBeacon}]
    BY <1>0, <2>3 DEF TypeOK
  <2> QED BY <2>1, <2>3, <2>7, <2>8, <2>9, SetKeeps
<1>7. ASSUME NEW n \in Nodes, SendUnseg(n)
      PROVE  IInv' /\ \A m \in Nodes : ReturnDeferred(m)
  <2> DEFINE r == node[n]
  <2>1. Good(r, nonce[n])
    BY NodeGood
  <2>2. /\ Good(Encrypt(r, 1), LastNonce(r, 1)) /\ Encrypt(r, 1).provisioned = r.provisioned
        /\ Encrypt(r, 1).iv_update = r.iv_update
    BY <2>1, EncryptKeeps DEF Good
  <2>3. Deferred(node[n], Encrypt(r, 1))
    BY <2>2 DEF Deferred
  <2> QED BY <1>0, <1>7, <2>2, <2>3, SetKeeps DEF SendUnseg, TypeOK
<1>8. ASSUME NEW n \in Nodes, NEW c \in Ctxs, NEW k \in 1..MaxSegs, NEW j \in 0..MaxSegs,
             SendSeg(n, c, k, j)
      PROVE  IInv' /\ \A m \in Nodes : ReturnDeferred(m)
  <2> DEFINE r == node[n]
             x == [nack |-> k, left |-> k, iv |-> IviTx(r)]
             a == [r EXCEPT !.tx[c] = x]
             q == Encrypt(a, j)
             g == IF j = 0 THEN nonce[n] ELSE LastNonce(r, j)
  <2>1. Good(r, nonce[n]) /\ r \in NodeState /\ nonce[n] \in Nonce
    BY NodeGood DEF Good
  <2>2. IviTx(r) \in 0..MaxIv /\ k \in 0..MaxSegs /\ j \in Nat
    BY <2>1, ConstantsAssumption DEF IviTx, Good, Fresh, NodeState
  <2>3. x \in SegTx
    BY <2>2 DEF SegTx
  <2> HIDE DEF x
  <2>4. /\ a \in NodeState /\ a.provisioned = r.provisioned
        /\ a.iv_index = r.iv_index /\ a.iv_update = r.iv_update
        /\ Fresh(a, nonce[n]) /\ Exit(a)
    BY <2>1, <2>3, SetTx DEF Good
  <2>5. a.seq = r.seq
    BY <2>1 DEF NodeState
  <2>6. /\ r.provisioned /\ Set(n, IF j < k THEN SegTxReset(q, c) ELSE q)
        /\ nonce' = [nonce EXCEPT ![n] = g] /\ UNCHANGED cache
    BY <1>8 DEF SendSeg, x
  <2> HIDE DEF a
  <2>7. LastNonce(a, j) = LastNonce(r, j)
    BY <2>4, <2>5 DEF LastNonce, IviTx
  <2>8. q \in NodeState /\ q.provisioned /\ q.iv_update = r.iv_update /\ Exit(q)
        /\ Fresh(q, nonce[n])
    BY <2>1, <2>2, <2>4, <2>6, EncryptKeeps
  <2>9. j > 0 => LastNonce(r, j) \in Nonce /\ Fresh(q, LastNonce(r, j))
    BY <2>1, <2>2, <2>4, <2>7, EncryptKeeps
  <2> HIDE DEF q
  <2>10. Good(q, g)
    BY <2>1, <2>2, <2>8, <2>9 DEF Good
  <2> HIDE DEF g
  <2>11. /\ Good(SegTxReset(q, c), g) /\ SegTxReset(q, c).provisioned
         /\ Deferred(node[n], SegTxReset(q, c)) /\ Deferred(node[n], q)
    BY <2>8, <2>10, SegTxResetKeeps DEF Deferred
  <2>12. CASE j < k
    BY <1>0, <2>6, <2>11, <2>12, SetKeeps DEF TypeOK
  <2>13. CASE ~(j < k)
    BY <1>0, <2>6, <2>8, <2>10, <2>11, <2>13, SetKeeps DEF TypeOK
  <2> QED BY <2>12, <2>13
<1>9. ASSUME NEW n \in Nodes, NEW c \in Ctxs, NEW k \in 0..MaxSegs, NEW out \in BOOLEAN,
             Retransmit(n, c, k, out)
      PROVE  IInv' /\ \A m \in Nodes : ReturnDeferred(m)
  <2>1. node[n].provisioned
    BY <1>9, Busy DEF Retransmit
  <2> QED BY <1>9, <2>1, NodeGood, SendUnackedKeeps DEF Retransmit
<1>10. ASSUME NEW n \in Nodes, NEW c \in Ctxs, NEW j \in 0..MaxSegs, NEW left \in 0..MaxSegs,
              NEW k \in 0..MaxSegs, NEW out \in BOOLEAN, Ack(n, c, j, left, k, out)
      PROVE  IInv' /\ \A m \in Nodes : ReturnDeferred(m)
  <2> DEFINE r == node[n]
             q == [r EXCEPT !.tx[c].nack = @ - j, !.tx[c].left = left]
             x == [r.tx[c] EXCEPT !.nack = @ - j, !.left = left]
  <2>1. /\ Good(r, nonce[n]) /\ r \in NodeState /\ r.provisioned
        /\ nonce = [nonce EXCEPT ![n] = nonce[n]]
    BY <1>10, NodeGood, Busy DEF Good, Ack
  <2>2. r.tx[c] \in SegTx /\ j <= r.tx[c].nack
    BY <1>10, <2>1 DEF NodeState, Ack
  <2>3. x \in SegTx
    <3>1. r.tx[c].nack - j \in 0..MaxSegs
      BY <2>2, ConstantsAssumption DEF SegTx
    <3> QED BY <2>2, <3>1 DEF SegTx
  <2>4. q = [r EXCEPT !.tx[c] = x]
    BY <2>1 DEF NodeState
  <2> HIDE DEF x
  <2>5. Good(q, nonce[n]) /\ q.provisioned /\ q.iv_update = r.iv_update
    BY <2>1, <2>3, <2>4, SetTx DEF Good
  <2>6. CASE q.tx[c].nack = 0
    <3>1. Set(n, SegTxReset(q, c)) /\ UNCHANGED <<nonce, cache>>
      BY <1>10, <2>6 DEF Ack
    <3> HIDE DEF q
    <3>2. /\ Good(SegTxReset(q, c), nonce[n]) /\ SegTxReset(q, c).provisioned
          /\ Deferred(node[n], SegTxReset(q, c))
      BY <2>5, SegTxResetKeeps DEF Deferred
    <3> QED BY <1>0, <2>1, <3>1, <3>2, SetKeeps DEF TypeOK
  <2>7. CASE q.tx[c].nack # 0
    <3>1. SendUnacked(n, q, c, k, out) /\ UNCHANGED cache
      BY <1>10, <2>7 DEF Ack
    <3> HIDE DEF q
    <3> QED BY <2>5, <3>1, SendUnackedKeeps
  <2> QED BY <2>6, <2>7
<1>11. ASSUME NEW n \in Nodes, NEW c \in Ctxs, Cancel(n, c)
      PROVE  IInv' /\ \A m \in Nodes : ReturnDeferred(m)
  <2>1. node[n].provisioned /\ Good(node[n], nonce[n]) /\ nonce = [nonce EXCEPT ![n] = nonce[n]]
    BY <1>11, NodeGood, Busy DEF Cancel
  <2>2. /\ Good(SegTxReset(node[n], c), nonce[n]) /\ SegTxReset(node[n], c).provisioned
        /\ Deferred(node[n], SegTxReset(node[n], c))
    BY <2>1, SegTxResetKeeps
  <2> QED BY <1>0, <1>11, <2>1, <2>2, SetKeeps DEF Cancel, TypeOK
<1> QED BY <1>1, <1>2, <1>3, <1>4, <1>5, <1>6, <1>7, <1>8, <1>9, <1>10, <1>11 DEF Next

LEMMA StepKeeps == IInv /\ [Next]_vars => IInv'
<1> SUFFICES ASSUME IInv, [Next]_vars PROVE IInv'
  OBVIOUS
<1>1. CASE UNCHANGED vars
  BY <1>1 DEF vars, IInv, TypeOK
<1> QED BY <1>1, NextKeeps

LEMMA Invariance == Spec => []IInv
  BY InitHolds, StepKeeps, PTL DEF Spec

-----------------------------------------------------------------------------
\* Every variable keeps its type: seq stays a 24-bit field in every reachable state.
THEOREM TypeCorrect == Spec => []TypeOK
<1>1. IInv => TypeOK
  BY DEF IInv
<1> QED BY <1>1, Invariance, PTL

(***************************************************************************)
(* No nonce is used twice under one transmit IV index unless the sequence  *)
(* numbers wrapped: bt_mesh_net_iv_update never resets seq without moving  *)
(* to a transmit IV index the node has not used.                           *)
(***************************************************************************)
THEOREM NonceFreshness == Spec => []NonceFresh
<1>1. IInv => NonceFresh
  BY DEF IInv, NonceFresh, Fresh
<1> QED BY <1>1, Invariance, PTL

(***************************************************************************)
(* A node that entered an IV Update itself has its ivu_complete work       *)
(* submitted or its return pending, in every reachable state.              *)
(***************************************************************************)
THEOREM UpdateExit == Spec => []UpdateHasExit
<1>1. IInv => UpdateHasExit
  BY DEF IInv, UpdateHasExit, Exit
<1> QED BY <1>1, Invariance, PTL

\* No return to Normal Operation happens under a segmented transfer.
THEOREM ReturnsDeferred == Spec => DeferredUnderTransfer
<1>1. IInv /\ [Next]_vars => [\A n \in Nodes : ReturnDeferred(n)]_vars
  BY NextKeeps
<1> QED BY <1>1, Invariance, PTL DEF Spec, DeferredUnderTransfer

-----------------------------------------------------------------------------
(***************************************************************************)
(* The pace of the network.  A node at the highest index entered its       *)
(* update since that index appeared, and one that is back in Normal        *)
(* Operation, or learnt of it from such a node, did so 96 hours later; the *)
(* history N counts no further than Horizon.                               *)
(***************************************************************************)
Pace(r, N) ==
  /\ r.iv_index <= N.top
  /\ r.provisioned /\ r.iv_index = N.top /\ N.since # Horizon =>
       /\ r.age <= N.since
       /\ ~r.iv_update => r.age + MinStay <= N.since

Paced == \A n \in Nodes : Pace(node[n], net)

\* How one call changes the state of the procedure, from r to q.
Stays(r, q) ==
  q.iv_index = r.iv_index /\ q.iv_update = r.iv_update /\ q.age = r.age

Returns(r, q) ==
  /\ q.iv_index = r.iv_index /\ r.iv_update /\ ~q.iv_update
  /\ r.age >= MinStay /\ q.age = 0

Enters(r, q) ==
  /\ q.iv_index = r.iv_index + 1 /\ ~r.iv_update /\ q.iv_update
  /\ r.age >= MinStay /\ q.age = 0

\* Without a minimum stay a node may enter and return at once.
Moves(r, q) ==
  \/ Stays(r, q) \/ Returns(r, q) \/ Enters(r, q)
  \/ MinStay = 0 /\ q.iv_index \in {r.iv_index, r.iv_index + 1}

LEMMA Bounds ==
  /\ MinStay \in Nat /\ Timeout \in Nat /\ Horizon \in Nat /\ Horizon <= 2 * MinStay
  /\ MinStay <= Timeout
BY ConstantsAssumption

\* bt_mesh_net_iv_update, apart from recovery, takes 96 hours to change state.
LEMMA NetIvUpdateMoves ==
  ASSUME NEW r \in NodeState, NEW i \in 0..MaxIv, NEW u \in BOOLEAN
  PROVE  LET q == NetIvUpdate(r, i, u)
         IN  /\ q.provisioned = r.provisioned
             /\ \/ Stays(r, q)
                \/ ~u /\ Returns(r, q)
                \/ u /\ Enters(r, q)
                \/ ~r.iv_update /\ i # r.iv_index /\ (u => i # r.iv_index + 1)
                   /\ q.iv_index = i /\ q.iv_update = u /\ q.age = 0
<1> DEFINE q == NetIvUpdate(r, i, u)
<1>0. r.age \in Int /\ MinStay \in Int /\ r.iv_index \in Int /\ i \in Int
  BY Bounds DEF NodeState
<1>1. CASE Recovers(r, i, u)
  <2>1. q = DoUpdate([r EXCEPT !.iv_index = i, !.seq = 0, !.wrapped = FALSE], i, u)
    BY <1>1 DEF NetIvUpdate
  <2>2. /\ q.provisioned = r.provisioned /\ q.iv_index = i /\ q.iv_update = u
        /\ q.age = 0
    BY <2>1 DEF DoUpdate, NodeState
  <2>3. ~r.iv_update /\ i # r.iv_index /\ (u => i # r.iv_index + 1)
    BY <1>0, <1>1 DEF Recovers
  <2> QED BY <2>2, <2>3
<1>2. CASE ~Recovers(r, i, u) /\ q \in {r, [r EXCEPT !.pending_update = TRUE]}
  <2>1. q.provisioned = r.provisioned /\ Stays(r, q)
    BY <1>2 DEF Stays, NodeState
  <2> QED BY <2>1
<1>3. CASE /\ q = DoUpdate(r, i, u) /\ Regular(r, i, u) /\ ~(r.age < MinStay)
  <2>1. /\ q.provisioned = r.provisioned /\ q.iv_update = u /\ q.age = 0
        /\ q.iv_index = IF u THEN i ELSE r.iv_index
    BY <1>3 DEF DoUpdate, NodeState
  <2>2. r.age >= MinStay
    BY <1>0, <1>3
  <2>3. CASE r.iv_update
    BY <1>3, <2>1, <2>2, <2>3 DEF Regular, Returns
  <2>4. CASE ~r.iv_update
    BY <1>3, <2>1, <2>2, <2>4 DEF Regular, Enters
  <2> QED BY <2>3, <2>4
<1> QED BY <1>1, <1>2, <1>3 DEF NetIvUpdate

LEMMA SegTxResetMoves ==
  ASSUME NEW r \in NodeState, NEW c \in Ctxs
  PROVE  LET q == SegTxReset(r, c)
         IN  q.provisioned = r.provisioned /\ (Stays(r, q) \/ Returns(r, q))
<1> DEFINE q == [r EXCEPT !.tx[c] = IdleTx]
           p == [q EXCEPT !.pending_update = FALSE]
           s == NetIvUpdate(p, q.iv_index, FALSE)
<1>1. IdleTx \in SegTx
  BY ConstantsAssumption DEF IdleTx, SegTx
<1>2. q \in NodeState /\ Stays(r, q) /\ q.provisioned = r.provisioned
  BY <1>1 DEF NodeState, Stays
<1>3. SegTxReset(r, c) = IF r.tx[c].nack # 0 /\ r.pending_update THEN s ELSE q
  BY DEF SegTxReset
<1> HIDE DEF q
<1>4. /\ p \in NodeState /\ Stays(q, p) /\ p.provisioned = q.provisioned
      /\ q.iv_index \in 0..MaxIv /\ p.iv_index = q.iv_index
  BY <1>2 DEF NodeState, Stays
<1> HIDE DEF p
<1>5. s.provisioned = p.provisioned /\ (Stays(p, s) \/ Returns(p, s))
  BY <1>4, NetIvUpdateMoves
<1> HIDE DEF s
<1>6. CASE r.tx[c].nack # 0 /\ r.pending_update
  BY <1>2, <1>3, <1>4, <1>5, <1>6 DEF Stays, Returns
<1>7. CASE ~(r.tx[c].nack # 0 /\ r.pending_update)
  BY <1>2, <1>3, <1>7
<1> QED BY <1>6, <1>7

LEMMA EncryptMoves ==
  ASSUME NEW r \in NodeState, NEW k \in Nat
  PROVE  /\ Encrypt(r, k) \in NodeState /\ Stays(r, Encrypt(r, k))
         /\ Encrypt(r, k).provisioned = r.provisioned
<1>1. (r.seq + k) % SeqSpace \in 0..SeqSpace - 1
  BY ConstantsAssumption DEF NodeState
<1> QED BY <1>1 DEF Encrypt, NodeState, Stays

LEMMA ResendMoves ==
  ASSUME NEW r \in NodeState, NEW k \in Nat, PastSeqLimit(r, k) => r.iv_index < MaxIv
  PROVE  LET q == Resend(r, k)
         IN  /\ q \in NodeState /\ q.provisioned = r.provisioned
             /\ Stays(r, q) \/ Enters(r, q)
<1> DEFINE s == Encrypt(r, k)
           p == [s EXCEPT !.ivu_initiator = TRUE]
           q == NetIvUpdate(p, s.iv_index + 1, TRUE)
<1>1. s \in NodeState /\ Stays(r, s) /\ s.provisioned = r.provisioned
  BY EncryptMoves
<1>2. Resend(r, k) = IF PastSeqLimit(r, k) THEN q ELSE s
  BY DEF Resend
<1> HIDE DEF s
<1>3. p \in NodeState /\ Stays(s, p) /\ p.provisioned = s.provisioned
  BY <1>1 DEF NodeState, Stays
<1> HIDE DEF p
<1>4. CASE PastSeqLimit(r, k)
  <2>1. s.iv_index + 1 \in 0..MaxIv /\ s.iv_index = p.iv_index
    BY <1>1, <1>3, <1>4, ConstantsAssumption DEF Stays, NodeState
  <2>2. q \in NodeState
    BY <1>3, <2>1, NetIvUpdateType
  <2>3. q.provisioned = p.provisioned /\ (Stays(p, q) \/ Enters(p, q))
    BY <1>3, <2>1, NetIvUpdateMoves
  <2> HIDE DEF q
  <2> QED BY <1>1, <1>2, <1>3, <1>4, <2>2, <2>3 DEF Stays, Enters
<1>5. CASE ~PastSeqLimit(r, k)
  BY <1>1, <1>2, <1>5
<1> QED BY <1>4, <1>5

LEMMA MovesCompose ==
  ASSUME NEW r, NEW q, NEW s, Stays(r, q) \/ Enters(r, q), Stays(q, s) \/ Returns(q, s)
  PROVE  Moves(r, s)
<1>1. CASE Stays(r, q)
  BY <1>1 DEF Moves, Stays, Returns
<1>2. CASE Enters(r, q) /\ Stays(q, s)
  BY <1>2 DEF Moves, Stays, Enters
<1>3. CASE Enters(r, q) /\ Returns(q, s)
  BY <1>3, Bounds DEF Moves, Enters, Returns
<1> QED BY <1>1, <1>2, <1>3

-----------------------------------------------------------------------------
\* A step to a new highest index comes at the right time.
Timely == net'.top > net.top => net.since >= Horizon

\* The parts of IInv that the pace is about.
LEMMA PaceTypes ==
  ASSUME IInv
  PROVE  /\ node \in [Nodes -> NodeState]
         /\ net \in [top : 0..MaxIv, since : 0..Horizon]
         /\ net.top \in Nat /\ net.since \in Nat /\ net.since <= Horizon
         /\ \A n \in Nodes : /\ node[n] \in NodeState /\ node[n].iv_index \in Nat
                             /\ node[n].age \in Nat /\ node[n].iv_update \in BOOLEAN
<1>1. node \in [Nodes -> NodeState] /\ net \in [top : 0..MaxIv, since : 0..Horizon]
  BY DEF IInv, TypeOK
<1> QED BY <1>1, Bounds, ConstantsAssumption DEF NodeState

LEMMA SetPaces ==
  ASSUME IInv, Paced, NEW n \in Nodes, node[n].provisioned, NEW q \in NodeState,
         Set(n, q), Moves(node[n], q)
  PROVE  Paced' /\ Timely
<1> DEFINE r == node[n]
<1>0. /\ r.iv_index \in Nat /\ r.age \in Nat /\ q.iv_index \in Nat /\ q.age \in Nat
      /\ net.top \in Nat /\ net.since \in Nat /\ net.since <= Horizon
      /\ Pace(r, net)
  BY PaceTypes, ConstantsAssumption DEF NodeState, Paced
<1>1. /\ \A m \in Nodes : node'[m] = IF m = n THEN q ELSE node[m]
      /\ net' = IF q.iv_index > net.top THEN [top |-> q.iv_index, since |-> 0] ELSE net
  BY PaceTypes DEF Set
<1> HIDE DEF r
<1>2. q.iv_index <= net.top + 1
  BY <1>0 DEF Moves, Stays, Returns, Enters, Pace, r
<1>3. CASE q.iv_index > net.top
  <2>1. net'.top = q.iv_index /\ net'.since = 0
    BY <1>1, <1>3
  <2>2. q.iv_index = r.iv_index + 1 /\ r.iv_index = net.top
    BY <1>0, <1>3 DEF Moves, Stays, Returns, Enters, Pace, r
  <2>3. CASE MinStay = 0
    <3>1. Horizon = 0
      BY <2>3, Bounds
    <3>2. ASSUME NEW m \in Nodes PROVE Pace(node'[m], net')
      <4>1. CASE m = n
        BY <1>0, <1>1, <2>1, <3>1, <4>1 DEF Pace
      <4>2. CASE m # n
        BY <1>1, <1>3, <2>1, <3>1, <4>2, <1>0, PaceTypes DEF Pace, Paced
      <4> QED BY <4>1, <4>2
    <3> QED BY <1>0, <3>1, <3>2 DEF Paced, Timely
  <2>4. CASE MinStay # 0
    <3>1. Enters(r, q)
      BY <1>0, <2>2, <2>4 DEF Moves, Stays, Returns, r
    <3>2. net.since = Horizon
      BY <1>0, <2>2, <3>1, Bounds DEF Pace, Enters, r
    <3>3. ASSUME NEW m \in Nodes PROVE Pace(node'[m], net')
      <4>1. CASE m = n
        BY <1>0, <1>1, <2>1, <3>1, <4>1 DEF Pace, Enters
      <4>2. CASE m # n
        <5>1. node'[m] = node[m] /\ node[m].iv_index <= net.top /\ node[m].iv_index \in Nat
          BY <1>1, <4>2, PaceTypes DEF Pace, Paced
        <5> QED BY <1>0, <1>3, <2>1, <5>1 DEF Pace
      <4> QED BY <4>1, <4>2
    <3> QED BY <1>0, <3>2, <3>3 DEF Paced, Timely
  <2> QED BY <2>3, <2>4
<1>4. CASE ~(q.iv_index > net.top)
  <2>1. net' = net
    BY <1>1, <1>4
  <2>2. Pace(q, net)
    <3>1. CASE net.since # Horizon
      <4>1. MinStay # 0
        BY <1>0, <3>1, Bounds
      <4>2. CASE Stays(r, q)
        BY <1>0, <1>4, <4>2 DEF Pace, Stays, r
      <4>3. CASE Returns(r, q)
        BY <1>0, <1>4, <4>3, Bounds DEF Pace, Returns, r
      <4>4. CASE Enters(r, q)
        BY <1>0, <1>4, <4>4 DEF Pace, Enters
      <4> QED BY <4>1, <4>2, <4>3, <4>4 DEF Moves, r
    <3>2. CASE net.since = Horizon
      BY <1>0, <1>4, <3>2 DEF Pace
    <3> QED BY <3>1, <3>2
  <2>3. Paced'
    BY <1>1, <2>1, <2>2 DEF Paced
  <2> QED BY <1>0, <2>1, <2>3 DEF Timely
<1> QED BY <1>3, <1>4

\* A node learns the highest index from another node, and starts to count anew.
LEMMA CopyPaces ==
  ASSUME IInv, Paced, NEW n \in Nodes, NEW m \in Nodes, node[m].provisioned,
         NEW q \in NodeState, q.iv_index = node[m].iv_index,
         q.iv_update = node[m].iv_update, q.age = 0,
         node' = [node EXCEPT ![n] = q], net' = net
  PROVE  Paced' /\ Timely
<1>0. /\ node[m].iv_index \in Nat /\ node[m].age \in Nat /\ net.top \in Nat
      /\ net.since \in Nat /\ Pace(node[m], net)
  BY PaceTypes DEF Paced
<1>1. \A k \in Nodes : node'[k] = IF k = n THEN q ELSE node[k]
  BY PaceTypes
<1>2. Pace(q, net)
  BY <1>0, Bounds DEF Pace
<1> QED BY <1>0, <1>1, <1>2 DEF Paced, Timely

LEMMA SendUnackedPaces ==
  ASSUME IInv, Paced, NEW n \in Nodes, node[n].provisioned, NEW q \in NodeState,
         Stays(node[n], q), NEW c \in Ctxs, NEW k \in 0..MaxSegs,
         NEW out \in BOOLEAN, SendUnacked(n, q, c, k, out)
  PROVE  \E s : Set(n, s) /\ Moves(node[n], s)
<1> DEFINE a == [q EXCEPT !.tx[c].left = @ - k]
           s == Resend(a, k)
<1>1. CASE k > 0 /\ q.tx[c].iv # IviTx(q)
  <2>1. Set(n, SegTxReset(q, c))
    BY <1>1 DEF SendUnacked
  <2>2. Stays(q, SegTxReset(q, c)) \/ Returns(q, SegTxReset(q, c))
    BY SegTxResetMoves
  <2> QED BY <2>1, <2>2, MovesCompose
<1>2. CASE ~(k > 0 /\ q.tx[c].iv # IviTx(q))
  <2>1. /\ Set(n, IF out THEN SegTxReset(s, c) ELSE s)
        /\ k <= q.tx[c].left
        /\ PastSeqLimit(q, k) => q.iv_index < MaxIv
    BY <1>2 DEF SendUnacked
  <2>2. k \in Nat /\ q.tx[c] \in SegTx
    BY ConstantsAssumption DEF NodeState
  <2>3. q.tx[c].left - k \in 0..MaxSegs
    BY <2>1, <2>2, ConstantsAssumption DEF SegTx
  <2>4. [q.tx[c] EXCEPT !.left = @ - k] \in SegTx
    BY <2>2, <2>3 DEF SegTx
  <2>5. a = [q EXCEPT !.tx[c] = [q.tx[c] EXCEPT !.left = @ - k]]
    BY DEF NodeState
  <2>6. a \in NodeState /\ Stays(q, a) /\ a.seq = q.seq
    BY <2>4, <2>5 DEF NodeState, Stays
  <2> HIDE DEF a
  <2>7. PastSeqLimit(a, k) = PastSeqLimit(q, k)
    BY <2>6 DEF PastSeqLimit, Stays
  <2>8. s \in NodeState /\ (Stays(a, s) \/ Enters(a, s))
    BY <2>1, <2>2, <2>6, <2>7, ResendMoves DEF Stays
  <2>9. Stays(node[n], s) \/ Enters(node[n], s)
    BY <2>6, <2>8 DEF Stays, Enters
  <2> HIDE DEF s
  <2>10. CASE out
    BY <2>1, <2>8, <2>9, <2>10, SegTxResetMoves, MovesCompose
  <2>11. CASE ~out
    BY <2>1, <2>9, <2>11 DEF Moves
  <2> QED BY <2>10, <2>11
<1> QED BY <1>1, <1>2

\* The nodes of the network after a step are of the right type.
LEMMA SetType ==
  ASSUME IInv, IInv', NEW n \in Nodes, NEW q, Set(n, q)
  PROVE  q \in NodeState
<1>1. node \in [Nodes -> NodeState] /\ node' \in [Nodes -> NodeState]
  BY DEF IInv, TypeOK
<1>2. node'[n] = q
  BY <1>1 DEF Set
<1> QED BY <1>1, <1>2

LEMMA NextPaces ==
  ASSUME ForeignBeacons = {}, IInv, IInv', Paced, Next
  PROVE  Paced' /\ ((\E n \in Nodes : node[n].provisioned) => Timely)
<1>0. /\ \A n \in Nodes : node[n] \in NodeState /\ node[n].iv_index \in Nat
      /\ net.top \in Nat /\ net.since \in Nat /\ net.since <= Horizon
  BY PaceTypes
<1>a. ASSUME NEW n \in Nodes, node[n].provisioned, NEW q, Set(n, q), Moves(node[n], q)
      PROVE  Paced' /\ Timely
  BY <1>a, SetType, SetPaces
<1>1. CASE Tick
  <2>1. net'.top = net.top /\ net'.since = Older(net.since, Horizon)
    BY <1>1, PaceTypes DEF Tick
  <2>2. ASSUME NEW m \in Nodes PROVE Pace(node'[m], net')
    <3>1. node'[m] = IF node[m].provisioned
                       THEN [node[m] EXCEPT !.age = Older(@, Timeout)] ELSE node[m]
      BY <1>1 DEF Tick
    <3>2. /\ node'[m].iv_index = node[m].iv_index
          /\ node'[m].iv_update = node[m].iv_update
          /\ node'[m].provisioned = node[m].provisioned
          /\ node[m].provisioned => node'[m].age = Older(node[m].age, Timeout)
      BY <1>0, <3>1 DEF NodeState
    <3>3. Pace(node[m], net) /\ node[m].age \in Nat
      BY PaceTypes DEF Paced
    <3>4. Older(node[m].age, Timeout) \in Nat /\ Older(node[m].age, Timeout) <= node[m].age + 1
      BY <3>3, Bounds DEF Older
    <3>5. CASE net.since = Horizon
      <4>1. net'.since = Horizon
        BY <2>1, <3>5, Bounds DEF Older
      <4> QED BY <2>1, <3>2, <3>3, <4>1 DEF Pace
    <3>6. CASE net.since # Horizon
      <4>1. net'.since = net.since + 1
        BY <1>0, <2>1, <3>6, Bounds DEF Older
      <4> QED BY <1>0, <2>1, <3>2, <3>3, <3>4, <3>6, <4>1, Bounds DEF Pace
    <3> QED BY <3>5, <3>6
  <2> QED BY <1>0, <2>1, <2>2 DEF Paced, Timely
<1>2. ASSUME NEW n \in Nodes, NEW b \in Beacon, StartNetwork(n, b)
      PROVE  Paced' /\ ~\E m \in Nodes : node[m].provisioned
  <2>1. net'.top = b.iv_index /\ net'.since = Horizon
    BY <1>2 DEF StartNetwork
  <2>2. b.iv_index \in Nat
    BY ConstantsAssumption DEF Beacon
  <2>3. ASSUME NEW m \in Nodes PROVE node'[m].iv_index <= b.iv_index
    <3>1. node[m] = Unprovisioned
      BY <1>2, NodeGood DEF StartNetwork
    <3>2. Unprovisioned.iv_index = 0
      BY DEF Unprovisioned
    <3>3. node'[m].iv_index \in {b.iv_index, node[m].iv_index}
      BY <1>0, <1>2, PaceTypes DEF StartNetwork, NetCreate, NodeState
    <3> QED BY <2>2, <3>1, <3>2, <3>3
  <2>4. Paced'
    BY <2>1, <2>3 DEF Paced, Pace
  <2> QED BY <1>2, <2>4 DEF StartNetwork
<1>3. ASSUME NEW n \in Nodes, NEW m \in Nodes, JoinNetwork(n, m)
      PROVE  Paced' /\ Timely
  <2> DEFINE b == BeaconOf(m)
             q == [node[n] EXCEPT !.provisioned = TRUE, !.iv_index = b.iv_index,
                     !.iv_update = b.iv_update, !.joined = b.iv_update, !.age = 0]
  <2>1. /\ node[m].provisioned /\ net' = net /\ node' = [node EXCEPT ![n] = q]
    BY <1>3 DEF JoinNetwork, NetCreate
  <2>2. b.iv_index = node[m].iv_index /\ b.iv_update = node[m].iv_update
    BY DEF BeaconOf
  <2>3. /\ q.iv_index = node[m].iv_index /\ q.iv_update = node[m].iv_update
        /\ q.age = 0
    BY <1>0, <2>2 DEF NodeState
  <2> HIDE DEF q
  <2>4. q \in NodeState
    <3>1. node \in [Nodes -> NodeState] /\ node' \in [Nodes -> NodeState]
      BY DEF IInv, TypeOK
    <3>2. node'[n] = q
      BY <2>1, <3>1
    <3> QED BY <3>1, <3>2
  <2> QED BY <2>1, <2>3, <2>4, CopyPaces
<1>4. ASSUME NEW n \in Nodes, Reset(n)
      PROVE  Paced' /\ Timely
  <2>1. net' = net /\ \A m \in Nodes : node'[m] = IF m = n THEN Unprovisioned ELSE node[m]
    BY <1>4, PaceTypes DEF Reset
  <2>2. Unprovisioned.iv_index = 0 /\ ~Unprovisioned.provisioned
    BY DEF Unprovisioned
  <2>3. ASSUME NEW m \in Nodes PROVE Pace(node'[m], net')
    BY <1>0, <2>1, <2>2 DEF Paced, Pace
  <2> QED BY <1>0, <2>1, <2>3 DEF Paced, Timely
<1>5. ASSUME NEW n \in Nodes, IvuComplete(n)
      PROVE  Paced' /\ Timely
  <2> DEFINE r == node[n]
             q == [r EXCEPT !.ivu_timer = FALSE, !.ivu_initiator = TRUE]
             s == NetIvUpdate(q, r.iv_index, FALSE)
  <2>1. r.provisioned
    <3>1. ~Unprovisioned.ivu_timer
      BY DEF Unprovisioned
    <3> QED BY <1>5, <3>1, NodeGood DEF IvuComplete
  <2>2. Set(n, s)
    BY <1>5 DEF IvuComplete
  <2>3. q \in NodeState /\ Stays(r, q) /\ q.iv_index = r.iv_index /\ r.iv_index \in 0..MaxIv
    BY <1>0 DEF NodeState, Stays
  <2> HIDE DEF q
  <2>4. Stays(q, s) \/ Returns(q, s)
    BY <2>3, NetIvUpdateMoves
  <2> HIDE DEF s
  <2>5. Moves(r, s)
    BY <2>3, <2>4, MovesCompose
  <2> QED BY <1>a, <2>1, <2>2, <2>5
<1>6. ASSUME NEW n \in Nodes, NEW b \in Beacon, RecvBeacon(n, b)
      PROVE  Paced' /\ Timely
  <2> DEFINE r == node[n]
             q == [r EXCEPT !.ivu_initiator = @ /\ r.iv_update # b.iv_update]
             s == NetIvUpdate(q, b.iv_index, b.iv_update)
  <2>1. r.provisioned /\ Set(n, s) /\ b \in OnAir(n)
    BY <1>6 DEF RecvBeacon
  <2>2. PICK m \in Nodes : node[m].provisioned /\ b = BeaconOf(m)
    BY <2>1 DEF OnAir
  <2>3. b.iv_index = node[m].iv_index /\ b.iv_update = node[m].iv_update
    BY <2>2 DEF BeaconOf
  <2>4. q \in NodeState /\ Stays(r, q) /\ b.iv_index \in 0..MaxIv /\ b.iv_update \in BOOLEAN
    BY <1>0 DEF NodeState, Stays, Beacon
  <2> HIDE DEF q
  <2>5. \/ Stays(q, s) \/ Returns(q, s) \/ Enters(q, s)
        \/ s.iv_index = b.iv_index /\ s.iv_update = b.iv_update /\ s.age = 0
    BY <2>4, NetIvUpdateMoves
  <2> HIDE DEF s
  <2>6. CASE Stays(q, s) \/ Returns(q, s) \/ Enters(q, s)
    <3>1. Moves(r, s)
      BY <2>4, <2>6 DEF Moves, Stays, Returns, Enters
    <3> QED BY <1>a, <2>1, <3>1
  <2>7. CASE s.iv_index = b.iv_index /\ s.iv_update = b.iv_update /\ s.age = 0
    <3>1. ~(s.iv_index > net.top)
      BY <1>0, <2>3, <2>7 DEF Paced, Pace
    <3>2. net' = net /\ node' = [node EXCEPT ![n] = s]
      BY <2>1, <3>1 DEF Set
    <3>3. s \in NodeState
      BY <2>1, SetType
    <3> QED BY <2>2, <2>3, <2>7, <3>2, <3>3, CopyPaces
  <2> QED BY <2>5, <2>6, <2>7
<1>7. ASSUME NEW n \in Nodes, SendUnseg(n)
      PROVE  Paced' /\ Timely
  <2>1. Moves(node[n], Encrypt(node[n], 1))
    BY <1>0, EncryptMoves DEF Moves
  <2> QED BY <1>7, <1>a, <2>1 DEF SendUnseg
<1>8. ASSUME NEW n \in Nodes, NEW c \in Ctxs, NEW k \in 1..MaxSegs, NEW j \in 0..MaxSegs,
             SendSeg(n, c, k, j)
      PROVE  Paced' /\ Timely
  <2> DEFINE r == node[n]
             x == [nack |-> k, left |-> k, iv |-> IviTx(r)]
             a == [r EXCEPT !.tx[c] = x]
             q == Encrypt(a, j)
  <2>1. r.provisioned /\ Set(n, IF j < k THEN SegTxReset(q, c) ELSE q)
    BY <1>8 DEF SendSeg
  <2>2. IviTx(r) \in 0..MaxIv /\ k \in 0..MaxSegs /\ j \in Nat
    BY <1>0, NodeGood, ConstantsAssumption DEF IviTx, Good, Fresh, NodeState
  <2>3. x \in SegTx
    BY <2>2 DEF SegTx
  <2> HIDE DEF x
  <2>4. a \in NodeState /\ Stays(r, a)
    BY <1>0, <2>3 DEF NodeState, Stays
  <2> HIDE DEF a
  <2>5. q \in NodeState /\ Stays(r, q)
    BY <2>2, <2>4, EncryptMoves DEF Stays
  <2> HIDE DEF q
  <2>6. Moves(r, SegTxReset(q, c)) /\ Moves(r, q)
    BY <2>5, SegTxResetMoves, MovesCompose DEF Moves
  <2> QED BY <1>a, <2>1, <2>6
<1>9. ASSUME NEW n \in Nodes, NEW c \in Ctxs, NEW k \in 0..MaxSegs, NEW out \in BOOLEAN,
             Retransmit(n, c, k, out)
      PROVE  Paced' /\ Timely
  <2>1. node[n].provisioned /\ SendUnacked(n, node[n], c, k, out)
    BY <1>9, Busy DEF Retransmit
  <2>2. Stays(node[n], node[n])
    BY DEF Stays
  <2>3. PICK s : Set(n, s) /\ Moves(node[n], s)
    BY <1>0, <2>1, <2>2, SendUnackedPaces
  <2> QED BY <1>a, <2>1, <2>3
<1>10. ASSUME NEW n \in Nodes, NEW c \in Ctxs, NEW j \in 0..MaxSegs, NEW left \in 0..MaxSegs,
              NEW k \in 0..MaxSegs, NEW out \in BOOLEAN, Ack(n, c, j, left, k, out)
      PROVE  Paced' /\ Timely
  <2> DEFINE r == node[n]
             q == [r EXCEPT !.tx[c].nack = @ - j, !.tx[c].left = left]
             x == [r.tx[c] EXCEPT !.nack = @ - j, !.left = left]
  <2>1. r.provisioned /\ r \in NodeState /\ r.tx[c] \in SegTx /\ j <= r.tx[c].nack
    BY <1>0, <1>10, Busy DEF Ack, NodeState
  <2>2. x \in SegTx
    <3>1. r.tx[c].nack - j \in 0..MaxSegs
      BY <2>1, ConstantsAssumption DEF SegTx
    <3> QED BY <2>1, <3>1 DEF SegTx
  <2>3. q = [r EXCEPT !.tx[c] = x]
    BY <2>1 DEF NodeState
  <2>4. Set(n, SegTxReset(q, c)) \/ SendUnacked(n, q, c, k, out)
    BY <1>10 DEF Ack
  <2> HIDE DEF x
  <2>5. q \in NodeState /\ Stays(r, q)
    BY <2>1, <2>2, <2>3 DEF NodeState, Stays
  <2> HIDE DEF q
  <2>6. \E s : Set(n, s) /\ Moves(r, s)
    <3>1. CASE Set(n, SegTxReset(q, c))
      BY <2>5, <3>1, SegTxResetMoves, MovesCompose
    <3>2. CASE SendUnacked(n, q, c, k, out)
      BY <2>1, <2>5, <3>2, SendUnackedPaces
    <3> QED BY <2>4, <3>1, <3>2
  <2> QED BY <1>a, <2>1, <2>6
<1>11. ASSUME NEW n \in Nodes, NEW c \in Ctxs, Cancel(n, c)
      PROVE  Paced' /\ Timely
  <2>1. node[n].provisioned /\ Set(n, SegTxReset(node[n], c))
    BY <1>11, Busy DEF Cancel
  <2>2. Stays(node[n], SegTxReset(node[n], c)) \/ Returns(node[n], SegTxReset(node[n], c))
    BY <1>0, SegTxResetMoves
  <2> QED BY <1>a, <2>1, <2>2 DEF Moves
<1> QED BY <1>1, <1>2, <1>3, <1>4, <1>5, <1>6, <1>7, <1>8, <1>9, <1>10, <1>11 DEF Next

(***************************************************************************)
(* A network whose nodes hear only one another takes at least twice 96     *)
(* hours from one new highest IV index to the next, for any number of      *)
(* nodes that join, leave, recover and initiate: the 96 hour check of      *)
(* bt_mesh_net_iv_update paces the network, although recovery skips it.    *)
(***************************************************************************)
THEOREM IndexPaced == ForeignBeacons = {} /\ Spec => IvIndexPaced
<1> SUFFICES ASSUME ForeignBeacons = {} PROVE Spec => IvIndexPaced
  OBVIOUS
<1> DEFINE Slow == /\ \E n \in Nodes : node[n].provisioned
                   /\ net'.top > net.top
                   => net.since >= Horizon
<1>1. Init => Paced
  <2> SUFFICES ASSUME Init, NEW n \in Nodes PROVE Pace(node[n], net)
    BY DEF Paced
  <2>1. node[n].iv_index = 0 /\ net.top = 0 /\ net.since = Horizon
    BY DEF Init, Unprovisioned
  <2> QED BY <2>1 DEF Pace
<1>2. IInv /\ IInv' /\ Paced /\ [Next]_vars => Paced' /\ [Slow]_vars
  <2> SUFFICES ASSUME IInv, IInv', Paced, [Next]_vars PROVE Paced' /\ [Slow]_vars
    OBVIOUS
  <2>1. CASE Next
    <3>1. Paced' /\ Slow
      BY <2>1, NextPaces DEF Timely
    <3> QED BY <3>1
  <2>2. CASE UNCHANGED vars
    BY <2>2 DEF vars, Paced, Pace
  <2> QED BY <2>1, <2>2
<1>3. Spec => [][Slow]_vars
  <2> HIDE DEF Slow
  <2> QED BY <1>1, <1>2, Invariance, PTL DEF Spec
<1> QED BY <1>3 DEF IvIndexPaced
=============================================================================
