------------------------- MODULE ProvisioningProofs -------------------------
(***************************************************************************)
(* Proofs about Provisioning, for every number of links, losses, failures  *)
(* and tries.                                                              *)
(*                                                                         *)
(* The invariant has three layers.  Side says of each side by itself that  *)
(* its adverts are segments of what it sends, so that what the other side  *)
(* hears is the sender's tx even after losses and cancellations, and that  *)
(* only an allocated address is given away.  Taken and Answers relate the  *)
(* two sides: a node in a link has taken the data and does not begin       *)
(* again, and while it sends the answer the provisioner that still waits   *)
(* for it has the same key and has given that address.  Offers says of the *)
(* random value, with which the device is verified, that whoever sends it  *)
(* keeps the key it has confirmed.  Seen relates the last transaction of a *)
(* side to those it has handled.                                           *)
(*                                                                         *)
(* A lemma says of each operation what it leaves alone and what it may     *)
(* send (Kept, Shut, Goes); of each handler, its effect (MsgEff, RecvEff); *)
(* and of each action that it keeps the invariant.                         *)
(*                                                                         *)
(* The last part, for Completes, is about the first link while buffers are *)
(* there.  Stage says how far the two sides can be apart in the protocol,  *)
(* and that what was not yet heard is still being sent.  Flow, Opening and *)
(* Acking count: every try after the first was paid for by a loss, and if  *)
(* all losses are spent the PDU, or its answer, is under way.  Thus no     *)
(* side gives up, and at each stage one has something to send or compute.  *)
(***************************************************************************)
EXTENDS Provisioning, TLAPS, FiniteSetTheorems, SequenceTheorems

\* What conf_inputs is made of.
Parts == {"caps", "start", "prv key", "dev key"}

\* PDUs, what is being sent, and adverts.
PduT == [type : Types \cup Ctl \cup {"none"}, key : SUBSET Parts, addr : Nat]

TxT == [xact : 0..255, pdu : PduT, tries : 0..Tries]

AdvT == [kind : Ctl \cup {"seg", "ack", "cancelled"}, link : 0..MaxLinks,
         xact : 0..255, seg : 0..2, pdu : PduT]

\* The sets of the fields of a link, by name.
Byte == 0..255
Id == 0..MaxLinks
Key == SUBSET Parts
Segs == SUBSET (1..2)
Count == 0..3
Queue == Seq(AdvT)
Alloc == Nat \ {0}

\* The links.
LinkT ==
  [active : BOOLEAN, id : Id, expect : Types,
   rxid : Byte, prev : Byte, missing : Segs,
   tx : TxT, txid : Byte, dhkey : BOOLEAN,
   inputs : Key, confkey : Key, conf : Key,
   send : BOOLEAN, await : BOOLEAN, closing : Count, given : Nat,
   closed : BOOLEAN, queue : Queue, held : BOOLEAN, busy : BOOLEAN,
   alloc : Alloc]

\* What an advert says is what is being sent.
Current(q, tx) ==
  \A n \in DOMAIN q :
    /\ q[n].kind = "seg" => q[n].pdu = tx.pdu /\ q[n].seg <= LastSeg(tx.pdu.type)
    /\ q[n].kind \in Ctl => q[n].kind = tx.pdu.type

\* The acknowledgement with the callback.
Pending(a) == a.kind = "ack" /\ a.seg = 1

Single(q) == \A m, n \in DOMAIN q : Pending(q[m]) /\ Pending(q[n]) => m = n

\* Its adverts are what it sends, and one acknowledgement is the pending one.
Sound(l) == l \in LinkT /\ Current(l.queue, l.tx) /\ Single(l.queue)

\* A device that computes its confirmation waits for the DHKey, and the
\* provisioner has allocated the address that it gave.
Steady(s, l) ==
  /\ s = "dev" => /\ l.closing = 0
                  /\ l.send => ~l.dhkey
                  /\ l.expect \in {"random", "data"} => ~l.send
  /\ s = "prv" => (l.expect = "complete" => l.given < l.alloc)

\* What each side may be sending.
Sending(s, l) ==
  /\ s = "dev" => /\ l.tx.pdu.type # "data"
                  /\ ~l.active => l.tx.pdu.type \notin {"complete", "link ack", "random"}
                  /\ l.tx.pdu.type = "confirm" =>
                       l.tx.pdu.key = l.confkey /\ l.expect = "random"
                  /\ l.tx.pdu.type = "random" => l.expect = "data"
  /\ s = "prv" => /\ l.tx.pdu.type = "data" =>
                       /\ l.tx.pdu.key = l.confkey /\ l.tx.pdu.addr = l.given
                       /\ l.given < l.alloc
                  /\ l.expect = "random" => l.tx.pdu.type \notin {"open", "data"}

\* Whoever has no link and did not close one has seen no transaction.
Blank(l) == ~l.active /\ ~l.closed => l.prev = XACT_NVAL

\* One side by itself.
Side(s, l) == Sound(l) /\ Steady(s, l) /\ Sending(s, l) /\ Blank(l)

\* Both sides, and the addresses in use.
Typed ==
  /\ link \in [Sides -> LinkT] /\ Side("dev", link["dev"]) /\ Side("prv", link["prv"])
  /\ addr \in Nat /\ addr < link["prv"].alloc
  /\ success \in Nat /\ success < link["prv"].alloc
  /\ inprov \in BOOLEAN /\ links \in 0..MaxLinks

\* A node in a link has taken the data and will not begin again.
Taken(d, p, x) ==
  x # 0 /\ d.active =>
    /\ d.tx.pdu.type # "link ack" /\ p.tx.pdu.type # "invite"
    /\ d.expect \in {"invite", "failed"} /\ ~d.send

\* The device answers the data that the provisioner has sent.
Answers(d, p, x) ==
  d.tx.pdu.type = "complete" /\ p.active /\ p.expect = "complete" =>
    d.confkey = p.confkey /\ x = p.given

\* A device has confirmed itself, if it has not failed.
Confirmed == {"random", "data", "failed"}

\* While the provisioner waits for its random value, the device has confirmed
\* the key that it still has.
Offers(d, p) ==
  p.active /\ p.expect = "random" /\ d.active =>
    /\ d.expect \in Confirmed /\ ~d.send
    /\ d.expect # "failed" => d.confkey = p.conf

\* The last transaction seen was handled, until close_link leaves it behind.
Seen(s, l, h) ==
  ~l.closed /\ l.prev # XACT_NVAL => [by |-> s, link |-> l.id, xact |-> l.prev] \in h

\* The inductive invariant.
Inv ==
  /\ Typed
  /\ Taken(link["dev"], link["prv"], addr)
  /\ Answers(link["dev"], link["prv"], addr)
  /\ Offers(link["dev"], link["prv"])
  /\ Seen("dev", link["dev"], handled) /\ Seen("prv", link["prv"], handled)

-----------------------------------------------------------------------------
\* The acknowledgements in q.
AckSet(q) == {a \in {q[n] : n \in DOMAIN q} : IsAck(a)}

\* Cancelling leaves the acknowledgements, and nothing that would have to agree
\* with what is being sent.
LEMMA CancelQueue ==
  ASSUME NEW q \in Seq(AdvT), Single(q), NEW tx
  PROVE  /\ Cancel(q) \in Seq(AdvT) /\ Single(Cancel(q))
         /\ Current(Cancel(q), tx) /\ AckSet(Cancel(q)) = AckSet(q)
<1> DEFINE c == Cancel(q)
<1>1. Len(q) \in Nat /\ DOMAIN q = 1..Len(q) /\ \A n \in 1..Len(q) : q[n] \in AdvT
  BY LenProperties, ElementOfSeq
<1>2. Cancelled \in AdvT
  BY ProvAssumption DEF Cancelled, AdvT, PduT, NoPdu, Pdu
<1>3. c = [n \in 1..Len(q) |-> IF IsAck(q[n]) THEN q[n] ELSE Cancelled]
  BY <1>1 DEF Cancel
<1>4. \A n \in 1..Len(q) : (IF IsAck(q[n]) THEN q[n] ELSE Cancelled) \in AdvT
  BY <1>1, <1>2
<1>5. c \in Seq(AdvT) /\ DOMAIN c = 1..Len(q)
  BY <1>1, <1>3, <1>4
<1>6. \A n \in 1..Len(q) : c[n] = IF IsAck(q[n]) THEN q[n] ELSE Cancelled
  BY <1>3
<1>7. ~IsAck(Cancelled) /\ Cancelled.kind \notin Ctl \cup {"seg"}
  BY DEF Cancelled, IsAck, Ctl
<1>8. \A n \in 1..Len(q) : IsAck(q[n]) => q[n].kind \notin Ctl \cup {"seg"}
  BY DEF IsAck, Ctl
<1>9. Single(c)
  BY <1>1, <1>5, <1>6, <1>7 DEF Single, Pending, IsAck
<1>10. Current(c, tx)
  BY <1>5, <1>6, <1>7, <1>8 DEF Current
<1>11. AckSet(c) = AckSet(q)
  BY <1>1, <1>5, <1>6, <1>7, Zenon DEF AckSet
<1> QED
  BY <1>5, <1>9, <1>10, <1>11

\* Adverts that are not acknowledgements are queued behind the others.
LEMMA ConcatQueue ==
  ASSUME NEW q \in Seq(AdvT), Single(q), NEW r \in Seq(AdvT), NEW tx,
         Current(q, tx), Current(r, tx), \A n \in DOMAIN r : ~IsAck(r[n])
  PROVE  /\ q \o r \in Seq(AdvT) /\ Single(q \o r)
         /\ Current(q \o r, tx) /\ AckSet(q \o r) = AckSet(q)
<1> DEFINE c == q \o r
<1>1. /\ Len(q) \in Nat /\ DOMAIN q = 1..Len(q)
      /\ Len(r) \in Nat /\ DOMAIN r = 1..Len(r)
  BY LenProperties
<1>2. /\ c \in Seq(AdvT) /\ Len(c) = Len(q) + Len(r)
      /\ \A i \in 1..Len(q) + Len(r) : c[i] = IF i <= Len(q) THEN q[i] ELSE r[i - Len(q)]
  BY ConcatProperties
<1>3. DOMAIN c = 1..Len(q) + Len(r)
  BY <1>2, LenProperties
<1> HIDE DEF c
<1>4. \A i \in DOMAIN q : i \in DOMAIN c /\ c[i] = q[i]
  BY <1>1, <1>2, <1>3
<1>5. \A i \in DOMAIN c : (i \in DOMAIN q /\ c[i] = q[i])
                          \/ (i - Len(q) \in DOMAIN r /\ c[i] = r[i - Len(q)])
  <2> TAKE i \in DOMAIN c
  <2>1. i \in Nat /\ i <= Len(q) + Len(r) /\ 1 <= i
    BY <1>1, <1>3
  <2>2. CASE i <= Len(q)
    BY <1>1, <1>2, <1>3, <2>1, <2>2
  <2>3. CASE ~(i <= Len(q))
    <3>1. i - Len(q) \in 1..Len(r)
      BY <1>1, <2>1, <2>3
    <3> QED
      BY <1>1, <1>2, <1>3, <2>1, <2>3, <3>1
  <2> QED
    BY <2>2, <2>3
<1>6. Current(c, tx)
  <2> SUFFICES ASSUME NEW i \in DOMAIN c
               PROVE  /\ c[i].kind = "seg" => c[i].pdu = tx.pdu /\ c[i].seg <= LastSeg(tx.pdu.type)
                      /\ c[i].kind \in Ctl => c[i].kind = tx.pdu.type
    BY DEF Current
  <2> QED
    BY <1>5 DEF Current
<1>7. Single(c)
  BY <1>5 DEF Single, Pending, IsAck
<1>8. AckSet(c) = AckSet(q)
  BY <1>4, <1>5, Zenon DEF AckSet
<1> QED
  BY <1>2, <1>6, <1>7, <1>8 DEF c

\* The first advert leaves the queue.
LEMMA TailQueue ==
  ASSUME NEW q \in Seq(AdvT), Single(q), NEW tx, Current(q, tx), q # <<>>
  PROVE  /\ Tail(q) \in Seq(AdvT) /\ Single(Tail(q)) /\ Current(Tail(q), tx)
         /\ AckSet(Tail(q)) \subseteq AckSet(q)
         /\ Head(q) \in AdvT /\ 1 \in DOMAIN q /\ Head(q) = q[1]
<1> DEFINE c == Tail(q)
<1>1. /\ Len(q) \in Nat /\ DOMAIN q = 1..Len(q) /\ Len(q) # 0
  BY LenProperties, EmptySeq
<1>2. /\ c \in Seq(AdvT) /\ Len(c) = Len(q) - 1 /\ Head(q) \in AdvT
      /\ \A i \in 1..Len(c) : c[i] = q[i + 1]
  BY HeadTailProperties
<1>3. DOMAIN c = 1..Len(q) - 1
  BY <1>2, LenProperties
<1>4. Head(q) = q[1]
  OBVIOUS
<1> HIDE DEF c
<1>5. \A i \in DOMAIN c : i \in Int /\ i + 1 \in DOMAIN q /\ c[i] = q[i + 1]
  BY <1>1, <1>2, <1>3
<1>6. Current(c, tx)
  <2> SUFFICES ASSUME NEW i \in DOMAIN c
               PROVE  /\ c[i].kind = "seg" => c[i].pdu = tx.pdu /\ c[i].seg <= LastSeg(tx.pdu.type)
                      /\ c[i].kind \in Ctl => c[i].kind = tx.pdu.type
    BY DEF Current
  <2> QED
    BY <1>5 DEF Current
<1>7. Single(c)
  <2> SUFFICES ASSUME NEW m \in DOMAIN c, NEW n \in DOMAIN c, Pending(c[m]), Pending(c[n])
               PROVE  m = n
    BY DEF Single
  <2>1. m + 1 = n + 1
    BY <1>5 DEF Single
  <2> QED
    BY <1>5, <2>1
<1>8. AckSet(c) \subseteq AckSet(q)
  BY <1>5, Zenon DEF AckSet
<1>9. 1 \in DOMAIN q
  BY <1>1
<1> QED
  BY <1>2, <1>4, <1>6, <1>7, <1>8, <1>9 DEF c

-----------------------------------------------------------------------------
\* What sending leaves alone, apart from expect.
Kept(l, m) ==
  /\ m.active = l.active /\ m.id = l.id /\ m.prev = l.prev /\ m.rxid = l.rxid
  /\ m.dhkey = l.dhkey /\ m.send = l.send /\ m.confkey = l.confkey
  /\ m.given = l.given /\ m.closed = l.closed /\ m.alloc = l.alloc
  /\ m.conf = l.conf

\* What taking a PDU leaves alone: the remote confirmation may be new.
Kin(l, m) ==
  /\ m.active = l.active /\ m.id = l.id /\ m.prev = l.prev
  /\ m.dhkey = l.dhkey /\ m.send = l.send /\ m.confkey = l.confkey
  /\ m.given = l.given /\ m.closed = l.closed /\ m.alloc = l.alloc

\* A step of the advertiser.
Same(l, m) == Kept(l, m) /\ m.expect = l.expect /\ AckSet(m.queue) = AckSet(l.queue)

\* What a PDU is made of.
LEMMA Constants ==
  /\ NoPdu \in PduT /\ NoTx \in TxT /\ NoTx.pdu = NoPdu /\ NoPdu.type = "none"
  /\ NoTx.xact = 0 /\ NoTx.tries = 0
  /\ \A p \in Types \cup Ctl, k \in SUBSET Parts, x \in Nat :
       Pdu(p, k, x) \in PduT /\ Pdu(p, k, x).type = p
         /\ Pdu(p, k, x).key = k /\ Pdu(p, k, x).addr = x
BY ProvAssumption DEF NoPdu, Pdu, PduT, NoTx, TxT

\* A PDU that carries no key and no address.
LEMMA PlainPdus ==
  \A p \in Types : Pdu(p, {}, 0) \in PduT /\ Pdu(p, {}, 0).type = p
BY Constants

\* prov_clear_tx.
LEMMA Clears ==
  ASSUME NEW l \in LinkT, Single(l.queue)
  PROVE  LET m == ClearTx(l)
         IN Sound(m) /\ Same(l, m) /\ m.tx = NoTx /\ m.txid = l.txid
              /\ m.closing = l.closing
<1> DEFINE m == ClearTx(l)
<1>1. l.queue \in Seq(AdvT)
  BY DEF LinkT, Queue
<1>2. /\ Cancel(l.queue) \in Seq(AdvT) /\ Single(Cancel(l.queue))
      /\ Current(Cancel(l.queue), NoTx) /\ AckSet(Cancel(l.queue)) = AckSet(l.queue)
  BY <1>1, CancelQueue
<1>3. m = [l EXCEPT !.tx = NoTx, !.queue = Cancel(l.queue)]
  BY DEF ClearTx
<1>4. m.tx = NoTx /\ m.queue = Cancel(l.queue)
  BY <1>3 DEF LinkT
<1>5. m \in LinkT
  <2>1. Cancel(l.queue) \in Queue /\ NoTx \in TxT
    BY <1>2, Constants DEF Queue
  <2> QED
    BY <1>3, <2>1 DEF LinkT
<1>6. Kept(l, m) /\ m.expect = l.expect /\ m.txid = l.txid /\ m.closing = l.closing
  BY <1>3 DEF LinkT, Kept
<1> QED
  BY <1>2, <1>4, <1>5, <1>6 DEF Sound, Same

\* The adverts of a PDU carry that PDU.
LEMMA Carries ==
  ASSUME NEW l \in LinkT, NEW tx \in TxT
  PROVE  LET r == Adverts(l, tx.xact, tx.pdu)
         IN r \in Seq(AdvT) /\ Current(r, tx) /\ \A n \in DOMAIN r : ~IsAck(r[n])
<1> DEFINE p == tx.pdu
           r == Adverts(l, tx.xact, p)
<1>1. l.id \in 0..MaxLinks /\ tx.xact \in 0..255 /\ p \in PduT
  BY DEF LinkT, TxT, PduT, Id
<1>2. LastSeg(p.type) \in 0..2
  BY DEF LastSeg
<1>3. CASE p.type \in Ctl
  <2> DEFINE a == [kind |-> p.type, link |-> l.id, xact |-> 0, seg |-> 0, pdu |-> p]
  <2>1. r = <<a>>
    BY <1>3 DEF Adverts
  <2>2. a \in AdvT /\ a.kind = p.type
    BY <1>1, <1>3 DEF AdvT
  <2>3. a.kind # "seg" /\ ~IsAck(a)
    BY <1>3, <2>2 DEF Ctl, IsAck
  <2> HIDE DEF a
  <2>4. r \in Seq(AdvT) /\ DOMAIN r = {1} /\ r[1] = a
    BY <2>1, <2>2
  <2> QED
    BY <2>2, <2>3, <2>4 DEF Current
<1>4. CASE p.type \notin Ctl
  <2> DEFINE k == LastSeg(p.type) + 1
             e(n) == [kind |-> "seg", link |-> l.id, xact |-> tx.xact, seg |-> n - 1, pdu |-> p]
  <2>1. r = [n \in 1..k |-> e(n)] /\ k \in Nat
    BY <1>2, <1>4 DEF Adverts
  <2>2. \A n \in 1..k : e(n) \in AdvT
    BY <1>1, <1>2 DEF AdvT
  <2>3. \A n \in 1..k : e(n).kind = "seg" /\ e(n).pdu = p /\ e(n).seg <= LastSeg(p.type)
    BY <1>2
  <2>4. "seg" \notin Ctl /\ \A n \in 1..k : ~IsAck(e(n))
    BY DEF Ctl, IsAck
  <2> HIDE DEF k, e
  <2>5. r \in Seq(AdvT) /\ DOMAIN r = 1..k /\ \A n \in 1..k : r[n] = e(n)
    BY <2>1, <2>2
  <2> QED
    BY <2>3, <2>4, <2>5 DEF Current
<1> QED
  BY <1>3, <1>4

\* send_reliable.
LEMMA SendsReliably ==
  ASSUME NEW l \in LinkT, Single(l.queue), NEW tx \in TxT,
         Current(l.queue, tx)
  PROVE  LET m == Reliably(l, tx)
         IN Sound(m) /\ Same(l, m) /\ m.tx = tx /\ m.txid = l.txid
              /\ m.closing = l.closing
<1> DEFINE m == Reliably(l, tx)
           r == Adverts(l, tx.xact, tx.pdu)
           q == l.queue \o r
<1>1. l.queue \in Seq(AdvT)
  BY DEF LinkT, Queue
<1>2. r \in Seq(AdvT) /\ Current(r, tx) /\ \A n \in DOMAIN r : ~IsAck(r[n])
  BY Carries
<1>3. q \in Seq(AdvT) /\ Single(q) /\ Current(q, tx) /\ AckSet(q) = AckSet(l.queue)
  BY <1>1, <1>2, ConcatQueue
<1>4. m = [l EXCEPT !.tx = tx, !.queue = q]
  BY DEF Reliably
<1> HIDE DEF q, r
<1>5. m.tx = tx /\ m.queue = q
  BY <1>4 DEF LinkT
<1>6. m \in LinkT
  <2>1. q \in Queue
    BY <1>3 DEF Queue
  <2> QED
    BY <1>4, <2>1 DEF LinkT
<1>7. Kept(l, m) /\ m.expect = l.expect /\ m.txid = l.txid /\ m.closing = l.closing
  BY <1>4 DEF LinkT, Kept
<1> QED
  BY <1>3, <1>5, <1>6, <1>7 DEF Sound, Same

\* next_transaction_id stays a byte.
LEMMA Counts ==
  ASSUME NEW s \in Sides, NEW l \in LinkT
  PROVE  NextId(s, l).use \in Byte /\ NextId(s, l).keep \in Byte
<1>1. l.txid \in 0..255
  BY DEF LinkT, Byte
<1> QED
  BY <1>1 DEF NextId, Byte

\* prov_send_adv.
LEMMA Sends ==
  ASSUME NEW s \in Sides, NEW l \in LinkT, Single(l.queue),
         NEW pdu \in PduT, pdu.type # "none", NEW ok \in BOOLEAN
  PROVE  LET m == Send(s, l, pdu, ok)
         IN /\ Sound(m) /\ Same(l, m) /\ m.closing = l.closing
            /\ m.tx.pdu = IF ok THEN pdu ELSE NoPdu
<1> DEFINE c == ClearTx(l)
           d == [c EXCEPT !.txid = NextId(s, l).keep]
           tx == [xact |-> NextId(s, l).use, pdu |-> pdu, tries |-> 0]
           m == Send(s, l, pdu, ok)
<1>1. Sound(c) /\ Same(l, c) /\ c.tx = NoTx /\ c.closing = l.closing
  BY Clears
<1>2. CASE ~ok
  <2>1. m = c
    BY <1>2 DEF Send
  <2> QED
    BY <1>1, <1>2, <2>1, Constants
<1>3. CASE ok
  <2> HIDE DEF c
  <2>1. c \in LinkT /\ Single(c.queue) /\ NextId(s, l).keep \in Byte
    BY <1>1, Counts DEF Sound
  <2>2. d \in LinkT
    BY <2>1 DEF LinkT
  <2>3. /\ Kept(c, d) /\ d.expect = c.expect /\ d.queue = c.queue
        /\ d.tx = c.tx /\ d.closing = c.closing
    BY <2>1 DEF LinkT, Kept
  <2>4. tx \in TxT /\ tx.pdu = pdu
    BY ProvAssumption, Counts DEF TxT, Byte
  <2>5. m = Reliably(d, tx)
    BY <1>3 DEF Send, c
  <2> HIDE DEF d, tx, m
  <2>6. Single(d.queue) /\ Current(d.queue, tx)
    <3>1. c.queue = Cancel(l.queue)
      BY DEF c, ClearTx, LinkT
    <3>2. l.queue \in Seq(AdvT)
      BY DEF LinkT, Queue
    <3> QED
      BY <3>1, <3>2, <2>1, <2>3, CancelQueue
  <2>7. Sound(m) /\ Same(d, m) /\ m.tx = tx /\ m.closing = d.closing
    BY <2>2, <2>4, <2>5, <2>6, SendsReliably
  <2> QED
    BY <1>1, <1>3, <2>3, <2>4, <2>7 DEF Same, Kept, m
<1> QED
  BY <1>2, <1>3

\* bearer_ctl_send.
LEMMA CtlSends ==
  ASSUME NEW s \in Sides, NEW l \in LinkT, Single(l.queue),
         NEW op \in Ctl, NEW ok \in BOOLEAN
  PROVE  LET m == CtlSend(s, l, op, ok)
         IN /\ Sound(m) /\ Same(l, m) /\ (s = "dev" => m.closing = l.closing)
            /\ m.tx.pdu.type \in {"none", op}
<1> DEFINE c == ClearTx(l)
           tx == [NoTx EXCEPT !.pdu = Pdu(op, {}, 0)]
           d == Reliably(c, tx)
           m == CtlSend(s, l, op, ok)
<1>1. Sound(c) /\ Same(l, c) /\ c.tx = NoTx /\ c.closing = l.closing
  BY Clears
<1>2. CASE ~ok
  <2>1. m = c
    BY <1>2 DEF CtlSend
  <2> QED
    BY <1>1, <1>2, <2>1, Constants
<1>3. CASE ok
  <2>1. tx \in TxT /\ tx.pdu.type = op /\ op # "none"
    <3>1. Pdu(op, {}, 0) \in PduT /\ Pdu(op, {}, 0).type = op /\ NoTx \in TxT
      BY Constants
    <3>2. tx \in TxT /\ tx.pdu = Pdu(op, {}, 0)
      BY <3>1 DEF TxT
    <3> QED
      BY <3>1, <3>2 DEF Ctl
  <2>2. Single(c.queue) /\ Current(c.queue, tx) /\ c \in LinkT
    <3>1. c.queue = Cancel(l.queue)
      BY DEF ClearTx, LinkT
    <3>2. l.queue \in Seq(AdvT)
      BY DEF LinkT, Queue
    <3> QED
      BY <1>1, <3>1, <3>2, CancelQueue DEF Sound
  <2>3. m = IF s = "prv" /\ op = "close" THEN [d EXCEPT !.closing = 1, !.txid = 0] ELSE d
    BY <1>3 DEF CtlSend
  <2> HIDE DEF c, tx
  <2>4. Sound(d) /\ Same(c, d) /\ d.tx = tx /\ d.closing = c.closing
    BY <2>1, <2>2, SendsReliably
  <2> HIDE DEF d, m
  <2>5. CASE s = "prv" /\ op = "close"
    <3>1. m = [d EXCEPT !.closing = 1, !.txid = 0]
      BY <2>3, <2>5
    <3>2. 1 \in Count /\ 0 \in Byte
      BY DEF Count, Byte
    <3>3. d \in LinkT
      BY <2>4 DEF Sound
    <3>4. m \in LinkT
      BY <3>1, <3>2, <3>3 DEF LinkT
    <3>5. Kept(d, m) /\ m.expect = d.expect /\ m.queue = d.queue /\ m.tx = d.tx
      BY <3>1, <3>3 DEF LinkT, Kept
    <3> QED
      BY <1>1, <2>1, <2>4, <2>5, <3>4, <3>5 DEF Sound, Same, Kept, m
  <2>6. CASE ~(s = "prv" /\ op = "close")
    <3>1. m = d
      BY <2>3, <2>6
    <3> QED
      BY <1>1, <2>1, <2>4, <3>1 DEF Same, Kept, m
  <2> QED
    BY <2>5, <2>6
<1> QED
  BY <1>2, <1>3

\* What close_link leaves.
Shut(s, l, m) ==
  /\ Sound(m) /\ AckSet(m.queue) = AckSet(l.queue)
  /\ m.tx.pdu.type \in {"none", "close"} /\ ~m.active /\ m.closed
  /\ s = "dev" => m.closing = l.closing
  /\ m.id = l.id /\ m.prev = l.prev /\ m.expect = l.expect
  /\ m.dhkey = l.dhkey /\ m.send = l.send /\ m.confkey = l.confkey
  /\ m.given = l.given /\ m.alloc = l.alloc

\* close_link.
LEMMA Closes ==
  ASSUME NEW s \in Sides, NEW l \in LinkT, Single(l.queue), NEW err \in BOOLEAN, NEW o
  PROVE  Shut(s, l, CloseLink(s, l, err, o))
<1> DEFINE told == IF err THEN Send(s, l, Pdu("failed", {}, 0), CtlOk(o)) ELSE l
           b == [told EXCEPT !.missing = {}]
           c == CtlSend(s, b, "close", CtlOk(o))
           m == [c EXCEPT !.active = FALSE, !.closed = TRUE]
<1>1. CtlOk(o) \in BOOLEAN
  BY DEF CtlOk
<1>2. /\ told \in LinkT /\ Single(told.queue) /\ Kept(l, told)
      /\ told.expect = l.expect /\ told.closing = l.closing
      /\ AckSet(told.queue) = AckSet(l.queue)
  <2>1. CASE err
    <3>1. Pdu("failed", {}, 0) \in PduT /\ Pdu("failed", {}, 0).type # "none"
      BY Constants DEF Types
    <3> QED
      BY <2>1, <3>1, <1>1, Sends DEF Sound, Same
  <2>2. CASE ~err
    BY <2>2 DEF Kept
  <2> QED
    BY <2>1, <2>2
<1> HIDE DEF told
<1>3. {} \in Segs
  BY DEF Segs
<1>4. b \in LinkT
  BY <1>2, <1>3 DEF LinkT
<1>5. Kept(told, b) /\ b.queue = told.queue /\ b.expect = told.expect /\ b.closing = told.closing
  BY <1>2 DEF LinkT, Kept
<1> HIDE DEF b
<1>6. /\ Sound(c) /\ Same(b, c) /\ (s = "dev" => c.closing = b.closing)
      /\ c.tx.pdu.type \in {"none", "close"}
  <2>1. Single(b.queue) /\ "close" \in Ctl
    BY <1>2, <1>5 DEF Ctl
  <2> QED
    BY <1>1, <1>4, <2>1, CtlSends
<1> HIDE DEF c
<1>7. c \in LinkT /\ m \in LinkT
  BY <1>6 DEF LinkT, Sound
<1>8. /\ m.queue = c.queue /\ m.tx = c.tx /\ ~m.active /\ m.closed
      /\ m.id = c.id /\ m.prev = c.prev /\ m.expect = c.expect
      /\ m.dhkey = c.dhkey /\ m.send = c.send /\ m.confkey = c.confkey
      /\ m.given = c.given /\ m.alloc = c.alloc /\ m.closing = c.closing
  BY <1>7 DEF LinkT
<1>9. m = CloseLink(s, l, err, o)
  BY DEF CloseLink, told, b, c
<1> HIDE DEF m
<1>10. Shut(s, l, m)
  BY <1>2, <1>5, <1>6, <1>7, <1>8 DEF Shut, Sound, Same, Kept
<1> QED
  BY <1>9, <1>10

\* Only what is expected next changes.
LEMMA Expects ==
  ASSUME NEW l, Sound(l), NEW e \in Types
  PROVE  LET m == [l EXCEPT !.expect = e]
         IN Sound(m) /\ Kept(l, m) /\ m.expect = e /\ m.queue = l.queue
              /\ m.tx = l.tx /\ m.closing = l.closing
<1> DEFINE m == [l EXCEPT !.expect = e]
<1>1. l \in LinkT
  BY DEF Sound
<1>2. m \in LinkT
  BY <1>1 DEF LinkT
<1>3. Kept(l, m) /\ m.expect = e /\ m.queue = l.queue /\ m.tx = l.tx /\ m.closing = l.closing
  BY <1>1 DEF LinkT, Kept
<1> QED
  BY <1>2, <1>3 DEF Sound

\* What sending pdu leaves, when next is expected then.
Goes(l, pdu, next, m) ==
  /\ Sound(m) /\ AckSet(m.queue) = AckSet(l.queue) /\ m.closing = l.closing
  /\ m.tx.pdu = pdu /\ m.expect = next /\ Kept(l, m)

\* A handler that sends pdu and expects next, or closes the link.
LEMMA SendsThen ==
  ASSUME NEW s \in Sides, NEW l \in LinkT, Single(l.queue),
         NEW pdu \in PduT, pdu.type # "none", NEW next \in Types, NEW o
  PROVE  LET m == SendThen(s, l, pdu, next, o)
         IN IF PduOk(o) THEN Goes(l, pdu, next, m) ELSE Shut(s, l, m)
<1> DEFINE m == SendThen(s, l, pdu, next, o)
<1>1. CASE PduOk(o)
  <2> DEFINE c == Send(s, l, pdu, TRUE)
  <2>1. m = [c EXCEPT !.expect = next]
    BY <1>1 DEF SendThen
  <2>2. Sound(c) /\ Same(l, c) /\ c.closing = l.closing /\ c.tx.pdu = pdu
    BY Sends
  <2> HIDE DEF c
  <2>3. Goes(l, pdu, next, m)
    BY <2>1, <2>2, Expects DEF Goes, Same, Kept
  <2> QED
    BY <1>1, <2>3
<1>2. CASE ~PduOk(o)
  <2> DEFINE c == Send(s, l, pdu, FALSE)
  <2>1. m = CloseLink(s, c, TRUE, o)
    BY <1>2 DEF SendThen
  <2>2. Sound(c) /\ Same(l, c) /\ c.closing = l.closing
    BY Sends
  <2> HIDE DEF c, m
  <2>3. Shut(s, c, m)
    BY <2>1, <2>2, Closes DEF Sound
  <2>4. Shut(s, l, m)
    BY <2>2, <2>3 DEF Shut, Same, Kept
  <2> QED
    BY <1>2, <2>4 DEF m
<1> QED
  BY <1>1, <1>2

\* prov_send_fail_msg.
LEMMA Fails ==
  ASSUME NEW s \in Sides, NEW l \in LinkT, Single(l.queue), NEW o
  PROVE  LET m == Fail(s, l, o)
         IN Goes(l, m.tx.pdu, "failed", m) /\ m.tx.pdu.type \in {"none", "failed"}
<1> DEFINE p == Pdu("failed", {}, 0)
           c == Send(s, l, p, PduOk(o))
           m == Fail(s, l, o)
<1>1. p \in PduT /\ p.type = "failed" /\ PduOk(o) \in BOOLEAN
  BY Constants DEF Types, PduOk
<1>2. m = [c EXCEPT !.expect = "failed"]
  BY DEF Fail
<1>3. /\ Sound(c) /\ Same(l, c) /\ c.closing = l.closing
      /\ c.tx.pdu = IF PduOk(o) THEN p ELSE NoPdu
  BY <1>1, Sends
<1> HIDE DEF c, m, p
<1>4. /\ Sound(m) /\ Kept(c, m) /\ m.expect = "failed" /\ m.queue = c.queue
      /\ m.tx = c.tx /\ m.closing = c.closing
  BY <1>2, <1>3, Expects DEF Types
<1> QED
  BY <1>1, <1>3, <1>4, Constants DEF Goes, Same, Kept, m

-----------------------------------------------------------------------------
\* A side that has closed its link satisfies its part of the invariant.
LEMMA ShutSide ==
  ASSUME NEW s \in Sides, NEW l, NEW m, Steady(s, l), Shut(s, l, m)
  PROVE  Side(s, m)
BY DEF Side, Steady, Sending, Blank, Shut, Sides

\* conf_inputs grows.
LEMMA HasInputs ==
  ASSUME NEW l \in LinkT, NEW parts \in SUBSET Parts
  PROVE  LET k == Has(l, parts)
         IN /\ k \in LinkT /\ Kept(l, k) /\ k.queue = l.queue /\ k.tx = l.tx
            /\ k.expect = l.expect /\ k.closing = l.closing /\ k.busy = l.busy
<1> DEFINE k == Has(l, parts)
<1>1. l.inputs \cup parts \in Key
  BY DEF LinkT, Key
<1>2. k = [l EXCEPT !.inputs = l.inputs \cup parts]
  BY DEF Has
<1>3. k \in LinkT
  BY <1>1, <1>2 DEF LinkT
<1> QED
  BY <1>2, <1>3 DEF LinkT, Kept

\* send_confirm.
LEMMA Confirms ==
  ASSUME NEW s \in Sides, NEW l \in LinkT, Single(l.queue), Steady(s, l), Blank(l),
         s = "dev" => ~l.send, NEW o
  PROVE  LET m == SendConfirm(s, l, o)
         IN /\ Side(s, m) /\ m.id = l.id /\ m.prev = l.prev /\ m.alloc = l.alloc
            /\ m.send = l.send /\ AckSet(m.queue) = AckSet(l.queue)
            /\ m.tx.pdu.type \in {"none", "close", "confirm"}
            /\ (l.closed => m.closed) /\ (m.active => l.active)
            /\ m.active => m.expect = IF s = "dev" THEN "random" ELSE "confirm"
<1> DEFINE next == IF s = "dev" THEN "random" ELSE "confirm"
           k == [l EXCEPT !.confkey = l.inputs]
           p == Pdu("confirm", l.inputs, 0)
           m == SendConfirm(s, l, o)
<1>1. l.inputs \in Key
  BY DEF LinkT
<1>2. k \in LinkT
  BY <1>1 DEF LinkT
<1>3. /\ k.active = l.active /\ k.id = l.id /\ k.prev = l.prev /\ k.dhkey = l.dhkey
      /\ k.send = l.send /\ k.given = l.given /\ k.closed = l.closed /\ k.alloc = l.alloc
      /\ k.expect = l.expect /\ k.queue = l.queue /\ k.closing = l.closing
      /\ k.confkey = l.inputs
  BY DEF LinkT
<1>4. p \in PduT /\ p.type = "confirm" /\ p.key = l.inputs
  BY <1>1, Constants DEF Types, Key
<1>5. next \in Types
  BY DEF Types
<1>6. m = SendThen(s, k, p, next, o)
  BY DEF SendConfirm
<1>7. IF PduOk(o) THEN Goes(k, p, next, m) ELSE Shut(s, k, m)
  <2>1. Single(k.queue) /\ p.type # "none"
    BY <1>3, <1>4
  <2> HIDE DEF k, p, next, m
  <2> QED
    BY <1>2, <1>4, <1>5, <1>6, <2>1, SendsThen
<1>8. Steady(s, k)
  BY <1>3 DEF Steady
<1> HIDE DEF k, p, m
<1>9. CASE PduOk(o)
  BY <1>3, <1>4, <1>7, <1>8, <1>9 DEF Goes, Kept, Side, Steady, Sending, Blank, Sides, m
<1>10. CASE ~PduOk(o)
  <2>1. Shut(s, k, m) /\ Side(s, m)
    BY <1>7, <1>8, <1>10, ShutSide
  <2> QED
    BY <1>3, <2>1 DEF Shut, m
<1> QED
  BY <1>9, <1>10

\* What handling pdu does to a side.
MsgEff(s, l, pdu, m) ==
  /\ Side(s, m) /\ m.id = l.id /\ m.prev = l.prev /\ AckSet(m.queue) = AckSet(l.queue)
  /\ (l.closed => m.closed) /\ (m.active => l.active)
  /\ s = "dev" =>
       /\ m.tx.pdu.type = "complete" =>
            /\ m.confkey = l.confkey
            /\ \/ l.tx.pdu.type = "complete"
               \/ pdu.type = "data" /\ l.expect = "data" /\ Decrypts(l, pdu)
       /\ pdu.type = "data" /\ l.expect = "data" /\ Decrypts(l, pdu) =>
            m.expect = "invite" /\ m.send = l.send /\ m.tx.pdu.type # "link ack"
       /\ l.expect \in {"invite", "failed"} /\ pdu.type # "invite" =>
            m.expect \in {"invite", "failed"} /\ m.send = l.send
       /\ m.tx.pdu.type = "link ack" => l.tx.pdu.type = "link ack"
       /\ l.expect \in Confirmed /\ ~l.send /\ pdu.type # "data" /\ m.active =>
            /\ m.expect \in Confirmed /\ ~m.send /\ m.confkey = l.confkey
            /\ l.expect = "failed" => m.expect = "failed"
  /\ s = "prv" =>
       /\ m.alloc >= l.alloc
       /\ m.tx.pdu.type = "invite" => l.tx.pdu.type = "invite"
       /\ m.active /\ m.expect = "complete" =>
            \/ pdu.type = "random"
            \/ l.expect = "complete" /\ m.confkey = l.confkey /\ m.given = l.given
       /\ m.active /\ m.expect = "random" =>
            \/ pdu.type = "confirm" /\ m.conf = pdu.key
            \/ l.expect = "random" /\ m.conf = l.conf
       /\ pdu.type \in {"complete", "random"} => m.confkey = l.confkey

\* A handler that closed the link.
LEMMA ShutEff ==
  ASSUME NEW s \in Sides, NEW l, NEW k, NEW m, NEW pdu, l.alloc \in Nat,
         Steady(s, k), Shut(s, k, m), k.id = l.id, k.prev = l.prev,
         k.expect = l.expect, k.send = l.send, k.alloc = l.alloc,
         AckSet(k.queue) = AckSet(l.queue), s = "dev" => pdu.type # "data",
         k.confkey = l.confkey
  PROVE  MsgEff(s, l, pdu, m)
<1>1. Side(s, m)
  BY ShutSide
<1>2. m.alloc >= l.alloc
  BY DEF Shut
<1> QED
  BY <1>1, <1>2, Zenon DEF MsgEff, Shut

\* A handler that told the other side of a failure.
LEMMA FailEff ==
  ASSUME NEW s \in Sides, NEW l, Side(s, l), NEW o, NEW pdu,
         s = "dev" /\ pdu.type = "data" => l.expect # "data" \/ ~Decrypts(l, pdu)
  PROVE  MsgEff(s, l, pdu, Fail(s, l, o))
<1> DEFINE m == Fail(s, l, o)
<1>1. l \in LinkT /\ Single(l.queue) /\ l.alloc \in Nat
  BY DEF Side, Sound, LinkT, Alloc
<1>2. Goes(l, m.tx.pdu, "failed", m) /\ m.tx.pdu.type \in {"none", "failed"}
  BY <1>1, Fails
<1> HIDE DEF m
<1>3. Side(s, m)
  BY <1>2 DEF Goes, Kept, Side, Steady, Sending, Blank
<1>4. m.alloc >= l.alloc
  BY <1>1, <1>2 DEF Goes, Kept
<1>5. MsgEff(s, l, pdu, m)
  BY <1>2, <1>3, <1>4, Zenon DEF Goes, Kept, MsgEff, Confirmed
<1> QED
  BY <1>5 DEF m

\* An address counter that did not move did not go back.
LEMMA Reflexive == \A n \in Nat : n >= n
OBVIOUS

\* A handler that sent an answer.
LEMMA GoesEff ==
  ASSUME NEW s \in Sides, NEW l, Side(s, l), NEW k, NEW m, NEW p, NEW next, NEW pdu,
         Kin(l, k), k.closing = l.closing, AckSet(k.queue) = AckSet(l.queue),
         Goes(k, p, next, m),
         p.type \notin {"complete", "link ack", "data", "invite", "open", "confirm"},
         pdu.type \notin {"data", "complete"},
         s = "dev" => /\ next \in {"random", "data"} => ~l.send
                      /\ l.expect \notin {"invite", "failed"} \/ pdu.type = "invite"
                      /\ p.type = "random" => next = "data" /\ l.active
                      /\ l.expect \in Confirmed => next = "data" /\ l.expect # "failed",
         s = "prv" => /\ next # "complete"
                      /\ next = "random" => pdu.type = "confirm" /\ k.conf = pdu.key
  PROVE  MsgEff(s, l, pdu, m)
<1>1. /\ m.active = l.active /\ m.id = l.id /\ m.prev = l.prev /\ m.dhkey = l.dhkey
      /\ m.send = l.send /\ m.given = l.given /\ m.closed = l.closed
      /\ m.alloc = l.alloc /\ m.closing = l.closing /\ m.expect = next /\ m.tx.pdu = p
      /\ AckSet(m.queue) = AckSet(l.queue) /\ m.confkey = l.confkey /\ Sound(m)
      /\ m.conf = k.conf
  BY DEF Kept, Kin, Goes
<1>2. Side(s, m)
  BY <1>1 DEF Side, Steady, Sending, Blank
<1>3. m.alloc >= l.alloc
  <2>1. l.alloc \in Nat
    BY DEF Side, Sound, LinkT, Alloc
  <2>2. m.alloc = l.alloc
    BY DEF Kept, Kin, Goes
  <2> QED
    BY <2>1, <2>2, Reflexive, Zenon
<1>4. s = "dev" /\ l.expect \in Confirmed => m.expect \in Confirmed /\ l.expect # "failed"
  BY <1>1 DEF Confirmed
<1> QED
  BY <1>1, <1>2, <1>3, <1>4, Zenon DEF MsgEff

\* Side s answers pdu with p, or closes the link.
LEMMA ThenEff ==
  ASSUME NEW s \in Sides, NEW l, Side(s, l), NEW k \in LinkT, Kin(l, k),
         k.closing = l.closing, k.queue = l.queue, k.expect = l.expect,
         NEW p \in PduT, NEW next \in Types, NEW o, NEW pdu,
         p.type \notin {"none", "complete", "link ack", "data", "invite", "open", "confirm"},
         pdu.type \notin {"data", "complete"},
         s = "dev" => /\ next \in {"random", "data"} => ~l.send
                      /\ l.expect \notin {"invite", "failed"} \/ pdu.type = "invite"
                      /\ p.type = "random" => next = "data" /\ l.active
                      /\ l.expect \in Confirmed => next = "data" /\ l.expect # "failed",
         s = "prv" => /\ next # "complete"
                      /\ next = "random" => pdu.type = "confirm" /\ k.conf = pdu.key
  PROVE  LET m == SendThen(s, k, p, next, o)
         IN MsgEff(s, l, pdu, m) /\ (PduOk(o) => Goes(k, p, next, m))
<1> DEFINE m == SendThen(s, k, p, next, o)
<1>1. l \in LinkT /\ Single(l.queue) /\ l.alloc \in Nat /\ Steady(s, l)
  BY DEF Side, Sound, LinkT, Alloc
<1>2. Single(k.queue)
  BY <1>1
<1>3. IF PduOk(o) THEN Goes(k, p, next, m) ELSE Shut(s, k, m)
  BY <1>2, SendsThen
<1> HIDE DEF m
<1>4. ASSUME PduOk(o) PROVE MsgEff(s, l, pdu, m)
  BY <1>3, <1>4, GoesEff
<1>5. ASSUME ~PduOk(o) PROVE MsgEff(s, l, pdu, m)
  <2>1. Steady(s, k) /\ k.id = l.id /\ k.prev = l.prev /\ k.send = l.send /\ k.alloc = l.alloc
        /\ k.confkey = l.confkey
    BY <1>1 DEF Kin, Steady
  <2> QED
    BY <1>1, <1>3, <1>5, <2>1, ShutEff
<1> QED
  BY <1>3, <1>4, <1>5 DEF m

\* A handler that starts to compute the DHKey.
LEMMA KeyGenEff ==
  ASSUME NEW s \in Sides, NEW l, Side(s, l), NEW k, Sound(k), Kept(l, k),
         k.closing = l.closing, AckSet(k.queue) = AckSet(l.queue), k.expect = l.expect,
         k.tx = l.tx \/ k.tx.pdu.type \in {"none", "pubkey"},
         NEW next \in {"confirm", "pubkey"}, NEW o, NEW pdu, pdu.type = "pubkey",
         l.expect = "pubkey"
  PROVE  MsgEff(s, l, pdu, GenDhKey(s, k, next, o))
<1> DEFINE m == GenDhKey(s, k, next, o)
<1>1. l \in LinkT /\ Single(l.queue) /\ l.alloc \in Nat /\ Steady(s, l)
  BY DEF Side, Sound, LinkT, Alloc
<1>2. CASE k.busy
  <2>1. m = CloseLink(s, k, TRUE, o)
    BY <1>2 DEF GenDhKey
  <2>2. Shut(s, k, m)
    BY <2>1, Closes DEF Sound
  <2> HIDE DEF m
  <2>3. Steady(s, k) /\ k.id = l.id /\ k.prev = l.prev /\ k.send = l.send /\ k.alloc = l.alloc
        /\ k.confkey = l.confkey
    BY <1>1 DEF Kept, Steady
  <2>4. MsgEff(s, l, pdu, m)
    BY <1>1, <2>2, <2>3, ShutEff
  <2> QED
    BY <2>4 DEF m
<1>3. CASE ~k.busy
  <2>1. m = [k EXCEPT !.busy = TRUE, !.expect = next]
    BY <1>3 DEF GenDhKey
  <2>2. k \in LinkT /\ next \in Types
    BY DEF Sound, Types
  <2>3. m \in LinkT
    BY <2>1, <2>2 DEF LinkT
  <2>4. Kept(k, m) /\ m.expect = next /\ m.queue = k.queue /\ m.tx = k.tx /\ m.closing = k.closing
    BY <2>1, <2>2 DEF LinkT, Kept
  <2> HIDE DEF m
  <2>5. /\ m.active = l.active /\ m.id = l.id /\ m.prev = l.prev /\ m.dhkey = l.dhkey
        /\ m.send = l.send /\ m.given = l.given /\ m.closed = l.closed
        /\ m.alloc = l.alloc /\ m.closing = l.closing /\ m.confkey = l.confkey
        /\ AckSet(m.queue) = AckSet(l.queue)
    BY <2>4 DEF Kept
  <2>6. Sound(m)
    BY <2>3, <2>4 DEF Sound
  <2>7. Side(s, m)
    BY <2>4, <2>5, <2>6 DEF Side, Steady, Sending, Blank
  <2>8. m.alloc >= l.alloc
    BY <1>1, <2>5
  <2>9. MsgEff(s, l, pdu, m)
    <3>1. m.tx.pdu.type \in {"complete", "link ack", "invite"} => m.tx = l.tx
      BY <2>4
    <3>2. /\ m.expect \in {"confirm", "pubkey"} /\ m.expect \notin {"complete", "random"}
          /\ l.expect \notin Confirmed
      BY <2>4 DEF Confirmed
    <3> QED
      BY <2>5, <2>7, <2>8, <3>1, <3>2 DEF MsgEff
  <2> QED
    BY <2>9 DEF m
<1> QED
  BY <1>2, <1>3

\* The handlers of the device.
LEMMA DevHandles ==
  ASSUME NEW l, Side("dev", l), l.active, NEW pdu \in PduT, Expected(l, pdu), NEW o
  PROVE  MsgEff("dev", l, pdu, DevHandler(l, pdu, o))
<1> DEFINE m == DevHandler(l, pdu, o)
<1>1. /\ l \in LinkT /\ Single(l.queue) /\ Steady("dev", l) /\ Blank(l)
      /\ l.expect \in Types /\ "dev" \in Sides
  BY DEF Side, Sound, LinkT, Sides
<1>2. pdu.type \in {"failed", l.expect}
  BY DEF Expected
<1>3. CASE pdu.type = "invite"
  <2> DEFINE k == Has(l, {"caps"})
             p == Pdu("caps", {}, 0)
  <2>1. m = SendThen("dev", k, p, "start", o)
    BY <1>3 DEF DevHandler, ProvInvite
  <2>2. k \in LinkT /\ Kept(l, k) /\ k.queue = l.queue /\ k.expect = l.expect /\ k.closing = l.closing
    BY <1>1, HasInputs DEF Parts
  <2>3. p \in PduT /\ p.type = "caps" /\ "start" \in Types
    BY Constants DEF Types
  <2> HIDE DEF k, p, m
  <2>4. MsgEff("dev", l, pdu, m)
    <3>1. Kin(l, k) /\ l.expect \notin Confirmed
      BY <1>2, <1>3, <2>2 DEF Kept, Kin, Confirmed
    <3> QED
      BY <1>1, <1>3, <2>1, <2>2, <2>3, <3>1, ThenEff
  <2> QED
    BY <2>4 DEF m
<1>4. CASE pdu.type = "start"
  <2> DEFINE k == Has(l, {"start"})
  <2>1. m = [k EXCEPT !.expect = "pubkey"]
    BY <1>4 DEF DevHandler, ProvStart
  <2>2. /\ k \in LinkT /\ Kept(l, k) /\ k.queue = l.queue /\ k.expect = l.expect
        /\ k.closing = l.closing /\ k.tx = l.tx
    BY <1>1, HasInputs DEF Parts
  <2> HIDE DEF k, m
  <2>3. Sound(k)
    BY <2>2 DEF Sound, Side
  <2>4. Sound(m) /\ Kept(k, m) /\ m.expect = "pubkey" /\ m.queue = k.queue
              /\ m.tx = k.tx /\ m.closing = k.closing
    BY <2>1, <2>3, Expects DEF Types
  <2>5. l.expect = "start"
    BY <1>2, <1>4
  <2>6. Side("dev", m)
    BY <2>2, <2>4, <2>5 DEF Kept, Side, Steady, Sending, Blank
  <2>7. MsgEff("dev", l, pdu, m)
    BY <1>4, <2>2, <2>4, <2>5, <2>6 DEF Kept, MsgEff, Confirmed
  <2> QED
    BY <2>7 DEF m
<1>5. CASE pdu.type = "pubkey"
  <2> DEFINE h == Has(l, {"prv key", "dev key"})
             p == Pdu("pubkey", {}, 0)
             k == Send("dev", h, p, PduOk(o))
  <2>1. m = GenDhKey("dev", k, "confirm", o)
    BY <1>5 DEF DevHandler, DevPubKey
  <2>2. /\ h \in LinkT /\ Kept(l, h) /\ h.queue = l.queue /\ h.expect = l.expect
        /\ h.closing = l.closing
    BY <1>1, HasInputs DEF Parts
  <2>3. p \in PduT /\ p.type = "pubkey" /\ PduOk(o) \in BOOLEAN
    BY Constants DEF Types, PduOk
  <2> HIDE DEF h, p, m
  <2>4. /\ Sound(k) /\ Same(h, k) /\ k.closing = h.closing
        /\ k.tx.pdu = IF PduOk(o) THEN p ELSE NoPdu
    BY <1>1, <2>2, <2>3, Sends
  <2>5. k.tx.pdu.type \in {"none", "pubkey"}
    BY <2>3, <2>4, Constants
  <2> HIDE DEF k
  <2>6. Kept(l, k) /\ k.closing = l.closing /\ AckSet(k.queue) = AckSet(l.queue) /\ k.expect = l.expect
    BY <2>2, <2>4 DEF Same, Kept
  <2>7. MsgEff("dev", l, pdu, m)
    BY <1>1, <1>2, <1>5, <2>1, <2>4, <2>5, <2>6, KeyGenEff
  <2> QED
    BY <2>7 DEF m
<1>6. CASE pdu.type = "confirm"
  <2> DEFINE k == [l EXCEPT !.conf = pdu.key]
  <2>1. m = IF ~l.dhkey THEN [ClearTx(k) EXCEPT !.send = TRUE] ELSE SendConfirm("dev", k, o)
    BY <1>6 DEF DevHandler, DevConfirm
  <2>2. pdu.key \in Key
    BY DEF PduT, Key
  <2>3. k \in LinkT
    BY <1>1, <2>2 DEF LinkT
  <2>4. Kin(l, k) /\ k.queue = l.queue /\ k.expect = l.expect /\ k.closing = l.closing
    BY <1>1 DEF LinkT, Kin
  <2>5. l.expect = "confirm"
    BY <1>2, <1>6
  <2>6. Steady("dev", k) /\ Blank(k) /\ Single(k.queue)
    BY <1>1, <2>4, <2>5 DEF Kin, Steady, Blank
  <2> HIDE DEF k
  <2>7. CASE ~l.dhkey
    <3> DEFINE c == ClearTx(k)
    <3>1. m = [c EXCEPT !.send = TRUE]
      BY <2>1, <2>7
    <3>2. Sound(c) /\ Same(k, c) /\ c.tx = NoTx /\ c.closing = k.closing
      BY <2>3, <2>6, Clears
    <3> HIDE DEF c, m
    <3>3. c \in LinkT
      BY <3>2 DEF Sound
    <3>4. m \in LinkT
      BY <3>1, <3>3 DEF LinkT
    <3>5. /\ m.active = c.active /\ m.id = c.id /\ m.prev = c.prev /\ m.dhkey = c.dhkey
          /\ m.closed = c.closed /\ m.closing = c.closing /\ m.expect = c.expect
          /\ m.queue = c.queue /\ m.tx = c.tx
      BY <3>1, <3>3 DEF LinkT
    <3>6. m.tx.pdu.type = "none"
      BY <3>2, <3>5, Constants
    <3>7. Side("dev", m)
      BY <2>4, <2>5, <2>6, <2>7, <3>2, <3>4, <3>5, <3>6
        DEF Same, Kept, Kin, Side, Sound, Steady, Sending, Blank
    <3>8. MsgEff("dev", l, pdu, m)
      BY <1>6, <2>4, <2>5, <3>2, <3>5, <3>6, <3>7 DEF Same, Kept, Kin, MsgEff, Confirmed
    <3> QED
      BY <3>8 DEF m
  <2>8. CASE l.dhkey
    <3>1. m = SendConfirm("dev", k, o)
      BY <2>1, <2>8
    <3>2. ~k.send
      BY <1>1, <2>4, <2>8 DEF Steady, Kin
    <3> HIDE DEF m
    <3>3. /\ Side("dev", m) /\ m.id = k.id /\ m.prev = k.prev /\ m.alloc = k.alloc
          /\ m.send = k.send /\ AckSet(m.queue) = AckSet(k.queue)
          /\ m.tx.pdu.type \in {"none", "close", "confirm"}
          /\ (k.closed => m.closed) /\ (m.active => k.active)
      BY <1>1, <2>3, <2>6, <3>1, <3>2, Confirms
    <3>4. MsgEff("dev", l, pdu, m)
      BY <1>6, <2>4, <2>5, <3>3 DEF Kin, MsgEff, Confirmed
    <3> QED
      BY <3>4 DEF m
  <2> QED
    BY <2>7, <2>8
<1>7. CASE pdu.type = "random"
  <2>0. l.expect = "random" /\ ~l.send
    BY <1>1, <1>2, <1>7 DEF Steady
  <2>1. CASE l.confkey # l.conf
    <3>1. m = Fail("dev", l, o)
      BY <1>7, <2>1 DEF DevHandler, DevRandom
    <3> QED
      BY <1>1, <1>7, <3>1, FailEff
  <2>2. CASE l.confkey = l.conf
    <3> DEFINE p == Pdu("random", {}, 0)
    <3>1. m = SendThen("dev", l, p, "data", o)
      BY <1>7, <2>2 DEF DevHandler, DevRandom
    <3>2. p \in PduT /\ p.type = "random" /\ "data" \in Types
      BY Constants DEF Types
    <3>3. Kin(l, l)
      BY DEF Kin
    <3> HIDE DEF p, m
    <3>4. MsgEff("dev", l, pdu, m)
      BY <1>1, <1>7, <2>0, <3>1, <3>2, <3>3, ThenEff
    <3> QED
      BY <3>4 DEF m
  <2> QED
    BY <2>1, <2>2
<1>8. CASE pdu.type = "data"
  <2>0. l.expect = "data"
    BY <1>2, <1>8
  <2>1. CASE ~Decrypts(l, pdu)
    <3>1. m = Fail("dev", l, o)
      BY <1>8, <2>1 DEF DevHandler, DevData
    <3> QED
      BY <1>1, <1>8, <2>1, <3>1, FailEff
  <2>2. CASE Decrypts(l, pdu)
    <3> DEFINE p == Pdu("complete", {}, 0)
               c == Send("dev", l, p, PduOk(o))
    <3>1. m = [c EXCEPT !.expect = "invite"]
      BY <1>8, <2>2 DEF DevHandler, DevData
    <3>2. p \in PduT /\ p.type = "complete" /\ PduOk(o) \in BOOLEAN /\ "invite" \in Types
      BY Constants DEF Types, PduOk
    <3> HIDE DEF p, m
    <3>3. /\ Sound(c) /\ Same(l, c) /\ c.closing = l.closing
          /\ c.tx.pdu = IF PduOk(o) THEN p ELSE NoPdu
      BY <1>1, <3>2, Sends
    <3> HIDE DEF c
    <3>4. /\ Sound(m) /\ Kept(c, m) /\ m.expect = "invite" /\ m.queue = c.queue
          /\ m.tx = c.tx /\ m.closing = c.closing
      BY <3>1, <3>2, <3>3, Expects
    <3>5. m.tx.pdu.type \in {"none", "complete"}
      BY <3>2, <3>3, <3>4, Constants
    <3>6. Side("dev", m)
      BY <1>1, <3>3, <3>4, <3>5 DEF Same, Kept, Side, Steady, Sending, Blank
    <3>7. MsgEff("dev", l, pdu, m)
      BY <1>8, <2>0, <2>2, <3>3, <3>4, <3>5, <3>6 DEF Same, Kept, MsgEff
    <3> QED
      BY <3>7 DEF m
  <2> QED
    BY <2>1, <2>2
<1>9. CASE pdu.type \notin {"invite", "start", "pubkey", "confirm", "random", "data"}
  <2>1. m = l
    BY <1>9 DEF DevHandler
  <2> QED
    BY <1>9, <2>1 DEF MsgEff
<1> QED
  BY <1>3, <1>4, <1>5, <1>6, <1>7, <1>8, <1>9

\* The handlers of the provisioner.
LEMMA PrvHandles ==
  ASSUME NEW l, Side("prv", l), NEW pdu \in PduT, Expected(l, pdu), NEW o
  PROVE  MsgEff("prv", l, pdu, PrvHandler(l, pdu, o))
<1> DEFINE m == PrvHandler(l, pdu, o)
<1>1. /\ l \in LinkT /\ Single(l.queue) /\ Steady("prv", l) /\ Blank(l)
      /\ l.expect \in Types /\ "prv" \in Sides
  BY DEF Side, Sound, LinkT, Sides
<1>2. pdu.type \in {"failed", l.expect}
  BY DEF Expected
<1>3. CASE pdu.type = "caps"
  <2> DEFINE k == Has(l, {"caps", "start"})
             p == Pdu("start", {}, 0)
             c == SendThen("prv", k, p, l.expect, o)
  <2>1. m = IF PduOk(o) THEN [c EXCEPT !.await = TRUE] ELSE c
    BY <1>3 DEF PrvHandler, ProvCapabilities
  <2>2. k \in LinkT /\ Kept(l, k) /\ k.queue = l.queue /\ k.expect = l.expect /\ k.closing = l.closing
    BY <1>1, HasInputs DEF Parts
  <2>3. p \in PduT /\ p.type = "start" /\ l.expect = "caps"
    BY <1>2, <1>3, Constants DEF Types
  <2> HIDE DEF k, p, m
  <2>4. MsgEff("prv", l, pdu, c) /\ (PduOk(o) => Goes(k, p, l.expect, c))
    <3>1. Kin(l, k)
      BY <2>2 DEF Kept, Kin
    <3> QED
      BY <1>1, <1>3, <2>2, <2>3, <3>1, ThenEff
  <2> HIDE DEF c
  <2>5. CASE PduOk(o)
    <3>1. m = [c EXCEPT !.await = TRUE] /\ Goes(k, p, l.expect, c)
      BY <2>1, <2>4, <2>5
    <3>2. c \in LinkT
      BY <3>1 DEF Goes, Sound
    <3>3. m \in LinkT
      BY <3>1, <3>2 DEF LinkT
    <3>4. Kept(c, m) /\ m.expect = c.expect /\ m.queue = c.queue /\ m.tx = c.tx /\ m.closing = c.closing
      BY <3>1, <3>2 DEF LinkT, Kept
    <3>5. Goes(k, p, l.expect, m)
      BY <3>1, <3>3, <3>4 DEF Goes, Kept, Sound
    <3>6. Kin(l, k)
      BY <2>2 DEF Kept, Kin
    <3>7. MsgEff("prv", l, pdu, m)
      BY <1>1, <1>3, <2>2, <2>3, <3>5, <3>6, GoesEff
    <3> QED
      BY <3>7 DEF m
  <2>6. CASE ~PduOk(o)
    BY <2>1, <2>4, <2>6 DEF m
  <2> QED
    BY <2>5, <2>6
<1>4. CASE pdu.type = "pubkey"
  <2> DEFINE k == Has(l, {"dev key"})
  <2>1. m = GenDhKey("prv", k, l.expect, o)
    BY <1>4 DEF PrvHandler
  <2>2. /\ k \in LinkT /\ Kept(l, k) /\ k.queue = l.queue /\ k.expect = l.expect
        /\ k.closing = l.closing /\ k.tx = l.tx
    BY <1>1, HasInputs DEF Parts
  <2>3. l.expect = "pubkey"
    BY <1>2, <1>4
  <2> HIDE DEF k, m
  <2>4. Sound(k)
    BY <2>2 DEF Sound, Side
  <2>5. MsgEff("prv", l, pdu, m)
    BY <1>1, <1>4, <2>1, <2>2, <2>3, <2>4, KeyGenEff
  <2> QED
    BY <2>5 DEF m
<1>5. CASE pdu.type = "confirm"
  <2> DEFINE k == [l EXCEPT !.conf = pdu.key]
             p == Pdu("random", {}, 0)
  <2>1. m = SendThen("prv", k, p, "random", o)
    BY <1>5 DEF PrvHandler, PrvConfirm
  <2>2. pdu.key \in Key
    BY DEF PduT, Key
  <2>3. k \in LinkT
    BY <1>1, <2>2 DEF LinkT
  <2>4. Kin(l, k) /\ k.queue = l.queue /\ k.expect = l.expect /\ k.closing = l.closing
    BY <1>1 DEF LinkT, Kin
  <2>5. p \in PduT /\ p.type = "random" /\ "random" \in Types
    BY Constants DEF Types
  <2>6. k.conf = pdu.key
    BY <1>1 DEF LinkT
  <2> HIDE DEF k, p, m
  <2>7. MsgEff("prv", l, pdu, m)
    BY <1>1, <1>5, <2>1, <2>3, <2>4, <2>5, <2>6, ThenEff
  <2> QED
    BY <2>7 DEF m
<1>6. CASE pdu.type = "random"
  <2>0. l.expect = "random" /\ l.alloc \in Nat \ {0}
    BY <1>1, <1>2, <1>6 DEF LinkT, Alloc
  <2>1. CASE ~Verifies(l) \/ ~netkey
    <3>1. m = CloseLink("prv", l, TRUE, o)
      BY <1>6, <2>1 DEF PrvHandler, PrvRandom, SendProvData
    <3>2. Shut("prv", l, m)
      BY <1>1, <3>1, Closes
    <3> HIDE DEF m
    <3>3. MsgEff("prv", l, pdu, m)
      BY <1>1, <2>0, <3>2, ShutEff
    <3> QED
      BY <3>3 DEF m
  <2>2. CASE Verifies(l) /\ netkey
    <3> DEFINE k == [l EXCEPT !.given = l.alloc]
               p == Pdu("data", l.confkey, l.alloc)
               c == SendThen("prv", k, p, "complete", o)
    <3>1. m = IF PduOk(o) THEN [c EXCEPT !.alloc = @ + 1] ELSE c
      BY <1>6, <2>2 DEF PrvHandler, PrvRandom, SendProvData
    <3>2. k \in LinkT
      <4>1. l.alloc \in Nat
        BY <2>0
      <4> QED
        BY <1>1, <4>1 DEF LinkT
    <3>3. /\ k.active = l.active /\ k.id = l.id /\ k.prev = l.prev /\ k.dhkey = l.dhkey
          /\ k.send = l.send /\ k.confkey = l.confkey /\ k.given = l.alloc
          /\ k.closed = l.closed /\ k.alloc = l.alloc /\ k.queue = l.queue
          /\ k.expect = l.expect /\ k.closing = l.closing
      BY <1>1 DEF LinkT
    <3>4. p \in PduT /\ p.type = "data" /\ p.key = l.confkey /\ p.addr = l.alloc
      <4>1. l.confkey \in SUBSET Parts /\ "data" \in Types \cup Ctl /\ l.alloc \in Nat
        BY <1>1, <2>0 DEF LinkT, Key, Types
      <4> QED
        BY <4>1, Constants
    <3> HIDE DEF k, p, m
    <3>5. IF PduOk(o) THEN Goes(k, p, "complete", c) ELSE Shut("prv", k, c)
      <4>1. Single(k.queue) /\ p.type # "none" /\ "complete" \in Types
        BY <1>1, <3>3, <3>4 DEF Types
      <4> QED
        BY <1>1, <3>2, <3>4, <4>1, SendsThen
    <3> HIDE DEF c
    <3>6. CASE PduOk(o)
      <4>1. m = [c EXCEPT !.alloc = c.alloc + 1] /\ Goes(k, p, "complete", c)
        BY <3>1, <3>5, <3>6
      <4>2. c \in LinkT /\ c.alloc = l.alloc /\ c.alloc + 1 \in Alloc
        BY <2>0, <3>3, <4>1 DEF Goes, Sound, Kept, Alloc
      <4>3. m \in LinkT
        BY <4>1, <4>2 DEF LinkT
      <4>4. /\ m.active = c.active /\ m.id = c.id /\ m.prev = c.prev /\ m.dhkey = c.dhkey
            /\ m.send = c.send /\ m.confkey = c.confkey /\ m.given = c.given
            /\ m.closed = c.closed /\ m.alloc = c.alloc + 1 /\ m.queue = c.queue
            /\ m.expect = c.expect /\ m.closing = c.closing /\ m.tx = c.tx
        BY <4>1, <4>2 DEF LinkT
      <4>5. m.given = l.alloc /\ m.alloc = l.alloc + 1
        BY <3>3, <4>1, <4>2, <4>4 DEF Goes, Kept
      <4>6. m.given < m.alloc /\ m.alloc >= l.alloc
        BY <2>0, <4>5
      <4>7. Sound(m)
        BY <4>1, <4>3, <4>4 DEF Goes, Sound
      <4>8. m.tx.pdu.key = m.confkey /\ m.tx.pdu.addr = m.given
        BY <3>3, <3>4, <4>1, <4>4, <4>5 DEF Goes, Kept
      <4>9. Side("prv", m)
        BY <1>1, <3>3, <4>1, <4>4, <4>6, <4>7, <4>8 DEF Goes, Kept, Side, Steady, Sending, Blank
      <4>10. MsgEff("prv", l, pdu, m)
        BY <1>6, <3>3, <3>4, <4>1, <4>4, <4>6, <4>9 DEF Goes, Kept, MsgEff
      <4> QED
        BY <4>10 DEF m
    <3>7. CASE ~PduOk(o)
      <4>1. Shut("prv", k, m)
        BY <3>1, <3>5, <3>7
      <4>2. Steady("prv", k)
        BY <2>0, <3>3 DEF Steady
      <4>3. MsgEff("prv", l, pdu, m)
        BY <1>1, <2>0, <3>3, <4>1, <4>2, ShutEff
      <4> QED
        BY <4>3 DEF m
    <3> QED
      BY <3>6, <3>7
  <2> QED
    BY <2>1, <2>2
<1>7. CASE pdu.type \in {"complete", "failed"}
  <2>1. m = CloseLink("prv", l, FALSE, o)
    BY <1>7 DEF PrvHandler
  <2>2. Shut("prv", l, m) /\ l.alloc \in Nat
    BY <1>1, <2>1, Closes DEF LinkT, Alloc
  <2> HIDE DEF m
  <2>3. MsgEff("prv", l, pdu, m)
    BY <1>1, <2>2, ShutEff
  <2> QED
    BY <2>3 DEF m
<1>8. CASE pdu.type \notin {"caps", "pubkey", "confirm", "random", "complete", "failed"}
  <2>1. m = l
    BY <1>8 DEF PrvHandler
  <2>2. l.alloc >= l.alloc
    BY <1>1 DEF LinkT, Alloc
  <2> QED
    BY <1>8, <2>1, <2>2 DEF MsgEff
<1> QED
  BY <1>3, <1>4, <1>5, <1>6, <1>7, <1>8

-----------------------------------------------------------------------------
\* An acknowledgement is queued.
LEMMA AppendQueue ==
  ASSUME NEW q \in Seq(AdvT), Single(q), NEW tx, Current(q, tx), NEW a \in AdvT,
         a.kind = "ack", a.seg = 1 => \A n \in DOMAIN q : ~Pending(q[n])
  PROVE  /\ Append(q, a) \in Seq(AdvT) /\ Single(Append(q, a)) /\ Current(Append(q, a), tx)
         /\ AckSet(Append(q, a)) \subseteq AckSet(q) \cup {a}
         /\ AckSet(q) \subseteq AckSet(Append(q, a))
<1> DEFINE c == Append(q, a)
<1>1. /\ Len(q) \in Nat /\ DOMAIN q = 1..Len(q)
  BY LenProperties
<1>2. /\ c \in Seq(AdvT) /\ Len(c) = Len(q) + 1
      /\ \A i \in 1..Len(q) : c[i] = q[i]
      /\ c[Len(q) + 1] = a
  BY AppendProperties
<1>3. DOMAIN c = 1..Len(q) + 1
  BY <1>2, LenProperties
<1> HIDE DEF c
<1>4. \A i \in DOMAIN c : (i \in DOMAIN q /\ c[i] = q[i]) \/ (i = Len(q) + 1 /\ c[i] = a)
  BY <1>1, <1>2, <1>3
<1>5. \A i \in DOMAIN q : i \in DOMAIN c /\ c[i] = q[i]
  BY <1>1, <1>2, <1>3
<1>6. Current(c, tx)
  <2> SUFFICES ASSUME NEW i \in DOMAIN c
               PROVE  /\ c[i].kind = "seg" => c[i].pdu = tx.pdu /\ c[i].seg <= LastSeg(tx.pdu.type)
                      /\ c[i].kind \in Ctl => c[i].kind = tx.pdu.type
    BY DEF Current
  <2>1. CASE i \in DOMAIN q /\ c[i] = q[i]
    BY <2>1 DEF Current
  <2>2. CASE c[i] = a
    BY <2>2 DEF Ctl
  <2> QED
    BY <1>4, <2>1, <2>2
<1>7. Single(c)
  BY <1>4 DEF Single, Pending
<1>8. AckSet(c) \subseteq AckSet(q) \cup {a}
  BY <1>4, Zenon DEF AckSet
<1>9. AckSet(q) \subseteq AckSet(c)
  BY <1>5, Zenon DEF AckSet
<1> QED
  BY <1>2, <1>6, <1>7, <1>8, <1>9 DEF c

\* The acknowledgements that m has and l has not are of x.
NewAcks(l, m, x) ==
  \A y \in AckSet(m.queue) \ AckSet(l.queue) : y.link = l.id /\ y.xact = x

\* gen_prov_ack_send: the acknowledgement of x is the only one that is new.
LEMMA Acknowledges ==
  ASSUME NEW l, Sound(l), NEW x \in Byte
  PROVE  LET m == AckSend(l, x)
         IN /\ Sound(m) /\ Kept(l, m) /\ m.expect = l.expect /\ m.tx = l.tx
            /\ m.closing = l.closing /\ NewAcks(l, m, x)
<1> DEFINE m == AckSend(l, x)
           a == [kind |-> "ack", link |-> l.id, xact |-> x,
                 seg |-> IF PendingAck(l) = {} THEN 1 ELSE 0, pdu |-> NoPdu]
           q == Append(l.queue, a)
<1>1. CASE x \in PendingAck(l)
  <2>1. m = l
    BY <1>1 DEF AckSend
  <2> QED
    BY <2>1 DEF Kept, NewAcks
<1>2. CASE x \notin PendingAck(l)
  <2>1. m = [l EXCEPT !.queue = q]
    BY <1>2 DEF AckSend
  <2>2. l \in LinkT /\ l.queue \in Seq(AdvT) /\ l.id \in 0..MaxLinks /\ Single(l.queue)
    BY DEF Sound, LinkT, Queue, Id
  <2>3. a \in AdvT /\ a.kind = "ack"
    BY <2>2, Constants DEF AdvT, Byte
  <2>4. a.link = l.id /\ a.xact = x
    OBVIOUS
  <2>5. a.seg = 1 => \A n \in DOMAIN l.queue : ~Pending(l.queue[n])
    <3> SUFFICES ASSUME PendingAck(l) = {}, NEW n \in DOMAIN l.queue, Pending(l.queue[n])
                 PROVE  FALSE
      OBVIOUS
    <3>1. l.queue[n].xact \in PendingAck(l)
      BY DEF PendingAck, Pending
    <3> QED
      BY <3>1
  <2> HIDE DEF a
  <2>6. /\ q \in Seq(AdvT) /\ Single(q) /\ Current(q, l.tx)
        /\ AckSet(q) \subseteq AckSet(l.queue) \cup {a}
    BY <2>2, <2>3, <2>5, AppendQueue DEF Sound
  <2> HIDE DEF q, m
  <2>7. m \in LinkT
    <3>1. q \in Queue
      BY <2>6 DEF Queue
    <3> QED
      BY <2>1, <2>2, <3>1 DEF LinkT
  <2>8. Kept(l, m) /\ m.expect = l.expect /\ m.tx = l.tx /\ m.closing = l.closing /\ m.queue = q
    BY <2>1, <2>2 DEF LinkT, Kept
  <2>9. Sound(m)
    BY <2>6, <2>7, <2>8 DEF Sound
  <2>10. NewAcks(l, m, x)
    BY <2>4, <2>6, <2>8 DEF NewAcks
  <2> QED
    BY <2>8, <2>9, <2>10 DEF m
<1> QED
  BY <1>1, <1>2

\* What a side looks like when it has acknowledged the PDU.
Ackd(l, k) ==
  /\ k.active = l.active /\ k.id = l.id /\ k.prev = l.rxid /\ k.expect = l.expect
  /\ k.tx = l.tx /\ k.confkey = l.confkey /\ k.given = l.given /\ k.alloc = l.alloc
  /\ k.closed = l.closed /\ k.send = l.send /\ k.conf = l.conf /\ NewAcks(l, k, l.rxid)

\* A transaction is acknowledged and remembered as the last one.
LEMMA Ackds ==
  ASSUME NEW s \in Sides, NEW l, Side(s, l), l.active
  PROVE  Side(s, Acked(l)) /\ Ackd(l, Acked(l))
<1> DEFINE c == AckSend(l, l.rxid)
           k == Acked(l)
<1>1. Sound(l) /\ l.rxid \in Byte /\ 0 \in Byte
  BY DEF Side, Sound, LinkT, Byte
<1>2. /\ Sound(c) /\ Kept(l, c) /\ c.expect = l.expect /\ c.tx = l.tx
      /\ c.closing = l.closing /\ NewAcks(l, c, l.rxid)
  BY <1>1, Acknowledges
<1>3. k = [c EXCEPT !.prev = l.rxid, !.rxid = 0]
  BY DEF Acked
<1> HIDE DEF c, k
<1>4. c \in LinkT
  BY <1>2 DEF Sound
<1>5. k \in LinkT
  BY <1>1, <1>3, <1>4 DEF LinkT
<1>6. /\ k.active = c.active /\ k.id = c.id /\ k.prev = l.rxid /\ k.dhkey = c.dhkey
      /\ k.send = c.send /\ k.confkey = c.confkey /\ k.given = c.given
      /\ k.closed = c.closed /\ k.alloc = c.alloc /\ k.queue = c.queue
      /\ k.expect = c.expect /\ k.closing = c.closing /\ k.tx = c.tx /\ k.conf = c.conf
  BY <1>3, <1>4 DEF LinkT
<1>7. Ackd(l, k)
  BY <1>2, <1>6 DEF Ackd, Kept, NewAcks
<1>8. Side(s, k)
  BY <1>2, <1>5, <1>6 DEF Kept, Side, Sound, Steady, Sending, Blank
<1> QED
  BY <1>7, <1>8 DEF k

\* prov_msg_recv.
LEMMA MsgReceives ==
  ASSUME NEW s \in Sides, NEW l, Side(s, l), l.active, NEW pdu \in PduT, NEW o
  PROVE  \E k : /\ MsgEff(s, k, pdu, MsgRecv(s, l, pdu, o))
                /\ \/ Ackd(l, k) /\ (s = "dev" \/ Expected(l, pdu))
                   \/ k = l /\ s = "prv" /\ ~Expected(l, pdu)
<1> DEFINE k == Acked(l)
           m == MsgRecv(s, l, pdu, o)
<1>1. Side(s, k) /\ Ackd(l, k)
  BY Ackds
<1> HIDE DEF k
<1>2. k.active /\ (Expected(k, pdu) <=> Expected(l, pdu))
  BY <1>1 DEF Ackd, Expected
<1>3. CASE s = "dev" /\ Expected(l, pdu)
  <2>1. m = DevHandler(k, pdu, o)
    BY <1>3 DEF MsgRecv, k
  <2>2. MsgEff("dev", k, pdu, DevHandler(k, pdu, o))
    BY <1>1, <1>2, <1>3, DevHandles
  <2> QED
    BY <1>1, <1>3, <2>1, <2>2
<1>4. CASE s = "dev" /\ ~Expected(l, pdu)
  <2>1. m = Fail(s, k, o)
    BY <1>4 DEF MsgRecv, k
  <2>2. pdu.type = "data" => k.expect # "data"
    BY <1>2, <1>4 DEF Expected
  <2>3. MsgEff(s, k, pdu, Fail(s, k, o))
    BY <1>1, <2>2, FailEff
  <2> QED
    BY <1>1, <1>4, <2>1, <2>3
<1>5. CASE s = "prv" /\ Expected(l, pdu)
  <2>1. m = PrvHandler(k, pdu, o)
    BY <1>5 DEF MsgRecv, k
  <2>2. MsgEff("prv", k, pdu, PrvHandler(k, pdu, o))
    BY <1>1, <1>2, <1>5, PrvHandles
  <2> QED
    BY <1>1, <1>5, <2>1, <2>2
<1>6. CASE s = "prv" /\ ~Expected(l, pdu)
  <2>1. m = Fail(s, l, o)
    BY <1>6 DEF MsgRecv
  <2>2. MsgEff(s, l, pdu, Fail(s, l, o))
    BY <1>6, FailEff
  <2> QED
    BY <1>6, <2>1, <2>2
<1> QED
  BY <1>3, <1>4, <1>5, <1>6 DEF Sides

-----------------------------------------------------------------------------
\* The device takes data that it can decrypt.
TakesData(l, a) ==
  Takes("dev", l, a) /\ a.pdu.type = "data" /\ Expected(l, a.pdu) /\ Decrypts(l, a.pdu)

\* The transactions handled, h, when side s has heard a.
After(s, l, a, h) ==
  IF Takes(s, l, a) THEN h \cup {[by |-> s, link |-> l.id, xact |-> a.xact]} ELSE h

\* What hearing a does to the device and to the provisioner.
DevEff(l, a, m) ==
  /\ m.tx.pdu.type = "complete" =>
       m.confkey = l.confkey /\ (TakesData(l, a) \/ l.tx.pdu.type = "complete")
  /\ TakesData(l, a) =>
       m.expect = "invite" /\ m.send = l.send /\ m.tx.pdu.type # "link ack"
  /\ addr # 0 /\ m.active => l.active
  /\ addr # 0 /\ l.expect \in {"invite", "failed"} /\ ~(a.kind = "seg" /\ a.pdu.type = "invite") =>
       m.expect \in {"invite", "failed"} /\ (m.send => l.send)
  /\ addr # 0 /\ m.tx.pdu.type = "link ack" => l.tx.pdu.type = "link ack"
  /\ m.active => l.active \/ a.kind = "open"
  /\ /\ l.active /\ m.active /\ l.expect \in Confirmed /\ ~l.send
     /\ ~(a.kind = "seg" /\ a.pdu.type = "data")
     => /\ m.expect \in Confirmed /\ ~m.send /\ m.confkey = l.confkey
        /\ l.expect = "failed" => m.expect = "failed"

PrvEff(l, a, m) ==
  /\ m.alloc >= l.alloc
  /\ m.tx.pdu.type = "invite" => l.tx.pdu.type = "invite" \/ a.kind = "link ack"
  /\ m.active /\ m.expect = "complete" =>
       \/ a.kind = "seg" /\ a.pdu.type = "random"
       \/ /\ l.active /\ l.expect = "complete"
          /\ m.confkey = l.confkey /\ m.given = l.given
  /\ m.active /\ m.expect = "random" =>
       \/ a.kind = "seg" /\ a.pdu.type = "confirm" /\ m.conf = a.pdu.key
       \/ l.active /\ l.expect = "random" /\ m.conf = l.conf
  /\ Takes("prv", l, a) /\ a.pdu.type \in {"complete", "random"} => m.confkey = l.confkey

\* What it adds to the acknowledgements.
AckEff(s, l, a, m) ==
  \A h : Seen(s, l, h) =>
    /\ Seen(s, m, After(s, l, a, h))
    /\ ~l.closed => \A y \in AckSet(m.queue) \ AckSet(l.queue) : y.xact # XACT_NVAL =>
         [by |-> s, link |-> y.link, xact |-> y.xact] \in After(s, l, a, h)

RecvEff(s, l, a, m) ==
  /\ Side(s, m) /\ AckEff(s, l, a, m)
  /\ s = "dev" => DevEff(l, a, m)
  /\ s = "prv" => PrvEff(l, a, m)

\* A side that handles nothing and acknowledges nothing.
LEMMA IdleEff ==
  ASSUME NEW s \in Sides, NEW l, NEW a, NEW m, Side(s, m), ~Takes(s, l, a),
         AckSet(m.queue) = AckSet(l.queue),
         \/ m.prev = XACT_NVAL \/ m.closed
         \/ m.prev = l.prev /\ m.id = l.id /\ (l.closed => m.closed),
         s = "dev" => DevEff(l, a, m), s = "prv" => PrvEff(l, a, m)
  PROVE  RecvEff(s, l, a, m)
BY DEF RecvEff, AckEff, After, Seen

\* A side that does not change.
LEMMA StaysEff ==
  ASSUME NEW s \in Sides, NEW l, NEW a, Side(s, l), ~Takes(s, l, a)
  PROVE  RecvEff(s, l, a, l)
<1>1. l.alloc >= l.alloc
  BY DEF Side, Sound, LinkT, Alloc
<1>2. s = "dev" => DevEff(l, a, l)
  BY DEF DevEff, TakesData
<1>3. s = "prv" => PrvEff(l, a, l)
  BY <1>1 DEF PrvEff
<1> QED
  BY <1>2, <1>3, IdleEff

\* Whether side s listens to a.
Listens(s, l, a) == IF s = "dev" THEN DevHears(l, a) ELSE l.active

\* A PDU that is complete.
LEMMA WholeEff ==
  ASSUME NEW s \in Sides, NEW l, Side(s, l), l.active, NEW a \in AdvT, Whole(l, a),
         Listens(s, l, a), NEW b, Side(s, b), b.rxid = a.xact, b.tx = l.tx,
         b.queue = l.queue, b.active = l.active, b.id = l.id, b.prev = l.prev,
         b.expect = l.expect, b.send = l.send, b.confkey = l.confkey, b.given = l.given,
         b.closed = l.closed, b.alloc = l.alloc, b.conf = l.conf, NEW o
  PROVE  RecvEff(s, l, a, MsgRecv(s, b, a.pdu, o))
<1> DEFINE m == MsgRecv(s, b, a.pdu, o)
<1>0. a.pdu \in PduT /\ b.active /\ a.kind = "seg"
  BY DEF AdvT, Whole
<1>1. PICK k : /\ MsgEff(s, k, a.pdu, m)
               /\ \/ Ackd(b, k) /\ (s = "dev" \/ Expected(b, a.pdu))
                  \/ k = b /\ s = "prv" /\ ~Expected(b, a.pdu)
  BY <1>0, MsgReceives
<1> HIDE DEF m
<1>2. Expected(b, a.pdu) <=> Expected(l, a.pdu)
  BY DEF Expected
<1>3. /\ k.active = l.active /\ k.id = l.id /\ k.expect = l.expect /\ k.tx = l.tx
      /\ k.confkey = l.confkey /\ k.given = l.given /\ k.alloc = l.alloc
      /\ k.send = l.send /\ k.closed = l.closed /\ k.conf = l.conf
  BY <1>1 DEF Ackd
<1>4. Side(s, m)
  BY <1>1 DEF MsgEff
<1>5. Decrypts(k, a.pdu) <=> Decrypts(l, a.pdu)
  BY <1>3 DEF Decrypts
<1>6. s = "dev" => DevEff(l, a, m)
  <2> SUFFICES ASSUME s = "dev" PROVE DevEff(l, a, m)
    OBVIOUS
  <2>1. TakesData(l, a) <=> a.pdu.type = "data" /\ l.expect = "data" /\ Decrypts(l, a.pdu)
    BY DEF TakesData, Takes, Listens, Expected
  <2> QED
    BY <1>0, <1>1, <1>3, <1>5, <2>1, Zenon DEF MsgEff, DevEff
<1>7. s = "prv" => PrvEff(l, a, m)
  <2> SUFFICES ASSUME s = "prv" PROVE PrvEff(l, a, m)
    OBVIOUS
  <2> QED
    BY <1>0, <1>1, <1>3, Zenon DEF MsgEff, PrvEff
<1>8. AckEff(s, l, a, m)
  <2> SUFFICES ASSUME NEW h, Seen(s, l, h)
               PROVE  /\ Seen(s, m, After(s, l, a, h))
                      /\ ~l.closed => \A y \in AckSet(m.queue) \ AckSet(l.queue) : y.xact # XACT_NVAL =>
                           [by |-> s, link |-> y.link, xact |-> y.xact] \in After(s, l, a, h)
    BY DEF AckEff
  <2>1. m.id = l.id /\ m.prev = k.prev /\ AckSet(m.queue) = AckSet(k.queue) /\ (l.closed => m.closed)
    BY <1>1, <1>3 DEF MsgEff
  <2>2. CASE Ackd(b, k) /\ (s = "dev" \/ Expected(b, a.pdu))
    <3>1. Takes(s, l, a)
      BY <1>2, <2>2 DEF Takes, Listens
    <3>2. [by |-> s, link |-> l.id, xact |-> a.xact] \in After(s, l, a, h)
      BY <3>1 DEF After
    <3>3. k.prev = a.xact
      BY <2>2 DEF Ackd
    <3>4. \A y \in AckSet(k.queue) \ AckSet(l.queue) : y.link = l.id /\ y.xact = a.xact
      BY <2>2 DEF Ackd, NewAcks
    <3> QED
      BY <2>1, <3>2, <3>3, <3>4 DEF Seen
  <2>3. CASE k = b /\ s = "prv" /\ ~Expected(b, a.pdu)
    <3>1. ~Takes(s, l, a)
      BY <1>2, <2>3 DEF Takes
    <3>2. After(s, l, a, h) = h /\ m.prev = l.prev /\ AckSet(m.queue) = AckSet(l.queue)
      BY <2>1, <2>3, <3>1 DEF After
    <3> QED
      BY <2>1, <3>2 DEF Seen
  <2> QED
    BY <1>1, <2>2, <2>3
<1>9. RecvEff(s, l, a, m)
  BY <1>4, <1>6, <1>7, <1>8 DEF RecvEff
<1> QED
  BY <1>9 DEF m

\* gen_prov_start and gen_prov_cont.
LEMMA SegReceives ==
  ASSUME NEW s \in Sides, NEW l, Side(s, l), l.active, NEW a \in AdvT, a.kind = "seg",
         Listens(s, l, a), NEW o
  PROVE  RecvEff(s, l, a, SegRecv(s, l, a, o))
<1> DEFINE started == [l EXCEPT !.rxid = a.xact, !.missing = 1..LastSeg(a.pdu.type)]
           stored == [l EXCEPT !.missing = @ \ {a.seg}]
           m == SegRecv(s, l, a, o)
           Like(b) == /\ Side(s, b) /\ b.rxid = a.xact /\ b.tx = l.tx /\ b.queue = l.queue
                      /\ b.active = l.active /\ b.id = l.id /\ b.prev = l.prev
                      /\ b.expect = l.expect /\ b.send = l.send /\ b.confkey = l.confkey
                      /\ b.given = l.given /\ b.closed = l.closed /\ b.alloc = l.alloc
                      /\ b.conf = l.conf
<1>1. l \in LinkT /\ a.xact \in Byte /\ a.seg \in 0..2 /\ Sound(l) /\ l.alloc \in Nat
  BY DEF Side, Sound, AdvT, Byte, LinkT, Alloc
<1>2. 1..LastSeg(a.pdu.type) \in Segs
  <2>1. LastSeg(a.pdu.type) \in 0..2
    BY DEF LastSeg
  <2> QED
    BY <2>1 DEF Segs
<1>3. Like(started)
  <2>1. started \in LinkT
    BY <1>1, <1>2 DEF LinkT
  <2>2. /\ started.rxid = a.xact /\ started.tx = l.tx /\ started.queue = l.queue
        /\ started.dhkey = l.dhkey /\ started.closing = l.closing
        /\ started.active = l.active /\ started.id = l.id /\ started.prev = l.prev
        /\ started.expect = l.expect /\ started.send = l.send /\ started.confkey = l.confkey
        /\ started.given = l.given /\ started.closed = l.closed /\ started.alloc = l.alloc
        /\ started.conf = l.conf
    BY <1>1 DEF LinkT
  <2> HIDE DEF started
  <2>3. Side(s, started)
    BY <2>1, <2>2 DEF Side, Sound, Steady, Sending, Blank
  <2> QED
    BY <2>2, <2>3
<1>4. l.rxid = a.xact => Like(stored)
  <2> SUFFICES ASSUME l.rxid = a.xact PROVE Like(stored)
    OBVIOUS
  <2>1. l.missing \ {a.seg} \in Segs
    BY <1>1 DEF LinkT, Segs
  <2>2. stored \in LinkT
    BY <1>1, <2>1 DEF LinkT
  <2>3. /\ stored.rxid = a.xact /\ stored.tx = l.tx /\ stored.queue = l.queue
        /\ stored.dhkey = l.dhkey /\ stored.closing = l.closing
        /\ stored.active = l.active /\ stored.id = l.id /\ stored.prev = l.prev
        /\ stored.expect = l.expect /\ stored.send = l.send /\ stored.confkey = l.confkey
        /\ stored.given = l.given /\ stored.closed = l.closed /\ stored.alloc = l.alloc
        /\ stored.conf = l.conf
    BY <1>1 DEF LinkT
  <2> HIDE DEF stored
  <2>4. Side(s, stored)
    BY <2>2, <2>3 DEF Side, Sound, Steady, Sending, Blank
  <2> QED
    BY <2>3, <2>4
<1>5. ASSUME NEW b, Like(b), ~Takes(s, l, a) PROVE RecvEff(s, l, a, b)
  <2>1. s = "dev" => DevEff(l, a, b)
    BY <1>5 DEF DevEff, TakesData
  <2>2. b.alloc >= l.alloc
    BY <1>1, <1>5
  <2>3. s = "prv" => PrvEff(l, a, b)
    BY <1>5, <2>2 DEF PrvEff
  <2> QED
    BY <1>5, <2>1, <2>3, IdleEff
<1>6. ASSUME NEW b, Like(b), Whole(l, a) PROVE RecvEff(s, l, a, MsgRecv(s, b, a.pdu, o))
  BY <1>6, WholeEff
<1>7. ~Whole(l, a) => ~Takes(s, l, a)
  BY DEF Takes
<1>8. m = IF l.missing = {} /\ l.prev = a.xact THEN AckSend(l, a.xact)
          ELSE IF a.seg = 0
            THEN IF l.missing # {} THEN l
                 ELSE IF Whole(l, a) THEN MsgRecv(s, started, a.pdu, o) ELSE started
            ELSE IF l.rxid # a.xact \/ a.seg \notin l.missing THEN l
                 ELSE IF Whole(l, a) THEN MsgRecv(s, stored, a.pdu, o) ELSE stored
  BY DEF SegRecv
<1> HIDE DEF started, stored, Like, m
<1>9. CASE l.missing = {} /\ l.prev = a.xact
  <2>1. m = AckSend(l, a.xact)
    BY <1>8, <1>9
  <2>2. /\ Sound(m) /\ Kept(l, m) /\ m.expect = l.expect /\ m.tx = l.tx
        /\ m.closing = l.closing /\ NewAcks(l, m, a.xact)
    BY <1>1, <2>1, Acknowledges
  <2>3. ~Takes(s, l, a)
    <3>1. ~Whole(l, a)
      BY <1>9 DEF Whole
    <3> QED
      BY <1>7, <3>1
  <2>4. Side(s, m)
    BY <2>2 DEF Side, Kept, Steady, Sending, Blank
  <2>5. s = "dev" => DevEff(l, a, m)
    BY <2>2, <2>3 DEF DevEff, TakesData, Kept
  <2>6. m.alloc >= l.alloc
    BY <1>1, <2>2 DEF Kept
  <2>7. s = "prv" => PrvEff(l, a, m)
    BY <2>2, <2>6 DEF PrvEff, Kept
  <2>8. AckEff(s, l, a, m)
    BY <1>9, <2>2, <2>3 DEF AckEff, After, Seen, Kept, NewAcks
  <2>9. RecvEff(s, l, a, m)
    BY <2>4, <2>5, <2>7, <2>8 DEF RecvEff
  <2> QED
    BY <2>9 DEF m
<1>10. CASE ~(l.missing = {} /\ l.prev = a.xact)
  <2>1. CASE a.seg = 0
    <3>1. CASE l.missing # {}
      <4>1. m = l
        BY <1>8, <1>10, <2>1, <3>1
      <4>2. ~Whole(l, a)
        BY <1>1, <2>1, <3>1 DEF Whole
      <4> QED
        BY <1>7, <4>1, <4>2, StaysEff DEF m
    <3>2. CASE l.missing = {} /\ Whole(l, a)
      <4>1. m = MsgRecv(s, started, a.pdu, o)
        BY <1>8, <1>10, <2>1, <3>2
      <4> QED
        BY <1>3, <1>6, <3>2, <4>1 DEF m
    <3>3. CASE l.missing = {} /\ ~Whole(l, a)
      <4>1. m = started
        BY <1>8, <1>10, <2>1, <3>3
      <4> QED
        BY <1>3, <1>5, <1>7, <3>3, <4>1 DEF m
    <3> QED
      BY <3>1, <3>2, <3>3
  <2>2. CASE a.seg # 0
    <3>1. CASE l.rxid # a.xact \/ a.seg \notin l.missing
      <4>1. m = l
        BY <1>8, <1>10, <2>2, <3>1
      <4>2. ~Whole(l, a)
        BY <1>1, <2>2, <3>1 DEF Whole
      <4> QED
        BY <1>7, <4>1, <4>2, StaysEff DEF m
    <3>2. CASE ~(l.rxid # a.xact \/ a.seg \notin l.missing) /\ Whole(l, a)
      <4>1. m = MsgRecv(s, stored, a.pdu, o)
        BY <1>8, <1>10, <2>2, <3>2
      <4> QED
        BY <1>4, <1>6, <3>2, <4>1 DEF m
    <3>3. CASE ~(l.rxid # a.xact \/ a.seg \notin l.missing) /\ ~Whole(l, a)
      <4>1. m = stored
        BY <1>8, <1>10, <2>2, <3>3
      <4> QED
        BY <1>4, <1>5, <1>7, <3>3, <4>1 DEF m
    <3> QED
      BY <3>1, <3>2, <3>3
  <2> QED
    BY <2>1, <2>2
<1> QED
  BY <1>9, <1>10

\* A link that has been reset, or never used, has its type.
LEMMA FreshType == Fresh \in LinkT
<1>1. /\ 0 \in Byte /\ 0 \in Id /\ 0 \in Count /\ {} \in Segs /\ {} \in Key /\ 1 \in Alloc
      /\ <<>> \in Queue /\ NoTx \in TxT /\ "invite" \in Types /\ XACT_NVAL \in Byte /\ 0 \in Nat
  BY ProvAssumption, Constants, EmptySeq
    DEF Byte, Id, Count, Segs, Key, Alloc, Queue, Types, XACT_NVAL
<1> QED
  BY <1>1 DEF Fresh, LinkT

\* reset_link, and what it means to those who heard a.
LEMMA Resets ==
  ASSUME NEW s \in Sides, NEW l, Side(s, l)
  PROVE  LET m == ResetLink(l)
         IN /\ Side(s, m) /\ ~m.active /\ m.prev = XACT_NVAL /\ m.tx = NoTx
            /\ m.alloc = l.alloc /\ ~m.send /\ m.expect = "invite"
            /\ AckSet(m.queue) = AckSet(l.queue)
<1> DEFINE m == ResetLink(l)
<1>1. l \in LinkT /\ l.queue \in Seq(AdvT) /\ Single(l.queue)
  BY DEF Side, Sound, LinkT, Queue
<1>2. /\ Cancel(l.queue) \in Seq(AdvT) /\ Single(Cancel(l.queue))
      /\ Current(Cancel(l.queue), NoTx) /\ AckSet(Cancel(l.queue)) = AckSet(l.queue)
  BY <1>1, CancelQueue
<1>3. m = [Fresh EXCEPT !.queue = Cancel(l.queue), !.busy = l.busy, !.alloc = l.alloc]
  BY DEF ResetLink
<1>4. /\ m.active = FALSE /\ m.prev = XACT_NVAL /\ m.tx = NoTx /\ m.alloc = l.alloc
      /\ m.send = FALSE /\ m.expect = "invite" /\ m.queue = Cancel(l.queue) /\ m.closing = 0
  BY <1>3 DEF Fresh
<1>6. m \in LinkT
  <2>1. Cancel(l.queue) \in Queue /\ l.busy \in BOOLEAN /\ l.alloc \in Alloc
    BY <1>1, <1>2 DEF Queue, LinkT
  <2> HIDE DEF m
  <2> QED
    BY <1>3, <2>1, FreshType DEF LinkT
<1> HIDE DEF m
<1>7. m.tx.pdu.type = "none"
  BY <1>4, Constants
<1>8. Side(s, m)
  BY <1>2, <1>4, <1>6, <1>7 DEF Side, Sound, Steady, Sending, Blank
<1> QED
  BY <1>2, <1>4, <1>8 DEF m

\* gen_prov_ack.
LEMMA AckReceives ==
  ASSUME NEW s \in Sides, NEW l, Side(s, l), NEW a \in AdvT, a.kind = "ack", NEW o
  PROVE  RecvEff(s, l, a, AckRecv(s, l, a.xact, o))
<1> DEFINE m == AckRecv(s, l, a.xact, o)
           c == ClearTx(l)
           h == Has(c, {"prv key"})
           p == Pdu("pubkey", {}, 0)
           d == Send(s, h, p, PduOk(o))
           e == [d EXCEPT !.expect = "pubkey", !.await = FALSE]
<1>1. l \in LinkT /\ Single(l.queue) /\ l.alloc \in Nat
  BY DEF Side, Sound, LinkT, Alloc
<1>2. ~Takes(s, l, a)
  BY DEF Takes, Whole
<1>3. m = l \/ m = c \/ (s = "prv" /\ m = e)
  BY DEF AckRecv, Sides
<1>4. Sound(c) /\ Same(l, c) /\ c.tx = NoTx /\ c.closing = l.closing
  BY <1>1, Clears
<1> HIDE DEF c, m
<1>5. CASE m = l
  BY <1>2, <1>5, StaysEff DEF m
<1>6. CASE m = c
  <2>1. m.tx.pdu.type = "none"
    BY <1>4, <1>6, Constants
  <2>2. Side(s, m)
    BY <1>4, <1>6, <2>1 DEF Same, Kept, Side, Steady, Sending, Blank
  <2>3. m.alloc >= l.alloc
    BY <1>1, <1>4, <1>6 DEF Same, Kept
  <2>4. s = "dev" => DevEff(l, a, m)
    BY <1>2, <1>4, <1>6, <2>1 DEF DevEff, TakesData, Same, Kept
  <2>5. PrvEff(l, a, m)
    BY <1>4, <1>6, <2>1, <2>3 DEF PrvEff, Same, Kept
  <2>6. RecvEff(s, l, a, m)
    BY <1>2, <1>4, <1>6, <2>2, <2>4, <2>5, IdleEff DEF Same, Kept
  <2> QED
    BY <2>6 DEF m
<1>7. CASE s = "prv" /\ m = e
  <2>1. c \in LinkT /\ {"prv key"} \in SUBSET Parts
    BY <1>4 DEF Sound, Parts
  <2>2. h \in LinkT /\ Kept(c, h) /\ h.queue = c.queue /\ h.closing = c.closing
    BY <2>1, HasInputs
  <2>3. p \in PduT /\ p.type = "pubkey" /\ PduOk(o) \in BOOLEAN /\ Single(h.queue)
    <3>1. p \in PduT /\ p.type = "pubkey"
      BY PlainPdus, Zenon DEF Types
    <3>2. PduOk(o) \in BOOLEAN
      BY DEF PduOk
    <3>3. Single(h.queue)
      BY <1>4, <2>2 DEF Sound
    <3> QED
      BY <3>1, <3>2, <3>3
  <2> HIDE DEF h, p
  <2>4. /\ Sound(d) /\ Same(h, d) /\ d.closing = h.closing
        /\ d.tx.pdu = IF PduOk(o) THEN p ELSE NoPdu
    BY <2>2, <2>3, Sends
  <2>5. d.tx.pdu.type \in {"none", "pubkey"}
    BY <2>3, <2>4, Constants
  <2> HIDE DEF d
  <2>6. d \in LinkT /\ "pubkey" \in Types
    BY <2>4 DEF Sound, Types
  <2>7. e \in LinkT
    BY <2>6 DEF LinkT
  <2>8. Kept(d, e) /\ e.expect = "pubkey" /\ e.queue = d.queue /\ e.tx = d.tx /\ e.closing = d.closing
    BY <2>6 DEF LinkT, Kept
  <2> HIDE DEF e
  <2>9. /\ m.active = l.active /\ m.id = l.id /\ m.prev = l.prev /\ m.closed = l.closed
        /\ m.alloc = l.alloc /\ m.expect = "pubkey" /\ AckSet(m.queue) = AckSet(l.queue)
        /\ m.tx.pdu.type \in {"none", "pubkey"}
    BY <1>4, <1>7, <2>2, <2>4, <2>5, <2>8 DEF Same, Kept
  <2>10. Sound(m)
    BY <1>7, <2>4, <2>7, <2>8 DEF Sound
  <2>11. Side(s, m)
    BY <1>7, <2>9, <2>10 DEF Side, Steady, Sending, Blank
  <2>12. m.alloc >= l.alloc
    BY <1>1, <2>9
  <2>13. PrvEff(l, a, m)
    BY <1>2, <1>7, <2>9, <2>12 DEF PrvEff
  <2>14. RecvEff(s, l, a, m)
    BY <1>2, <1>7, <2>9, <2>11, <2>13, IdleEff
  <2> QED
    BY <2>14 DEF m
<1> QED
  BY <1>3, <1>5, <1>6, <1>7

\* link_open.
LEMMA OpenReceives ==
  ASSUME NEW l, Side("dev", l), NEW a \in AdvT, a.kind = "open", DevHears(l, a), NEW o
  PROVE  RecvEff("dev", l, a, LinkOpen(l, a, o))
<1> DEFINE m == LinkOpen(l, a, o)
           k == [l EXCEPT !.id = a.link, !.active = TRUE]
           c == CtlSend("dev", k, "link ack", CtlOk(o))
<1>1. l \in LinkT /\ Single(l.queue) /\ a.link \in Id /\ "dev" \in Sides
  BY DEF Side, Sound, AdvT, Id, Sides
<1>2. ~Takes("dev", l, a)
  BY DEF Takes, Whole
<1>3. CASE l.active
  <2>1. m = l
    BY <1>3 DEF LinkOpen
  <2> QED
    BY <1>1, <1>2, <2>1, StaysEff
<1>4. CASE ~l.active
  <2>1. m = [c EXCEPT !.expect = "invite"]
    BY <1>4 DEF LinkOpen
  <2>2. k \in LinkT
    BY <1>1 DEF LinkT
  <2>3. /\ k.active = TRUE /\ k.prev = l.prev /\ k.closed = l.closed /\ k.dhkey = l.dhkey
        /\ k.send = l.send /\ k.confkey = l.confkey /\ k.queue = l.queue /\ k.closing = l.closing
    BY <1>1 DEF LinkT
  <2> HIDE DEF k
  <2>4. Single(k.queue) /\ "link ack" \in Ctl /\ CtlOk(o) \in BOOLEAN /\ "invite" \in Types
    BY <1>1, <2>3 DEF Ctl, CtlOk, Types
  <2>5. Sound(c) /\ Same(k, c) /\ c.closing = k.closing /\ c.tx.pdu.type \in {"none", "link ack"}
    BY <1>1, <2>2, <2>4, CtlSends, ZenonT(30)
  <2> HIDE DEF c, m
  <2>6. /\ Sound(m) /\ Kept(c, m) /\ m.expect = "invite" /\ m.queue = c.queue
        /\ m.tx = c.tx /\ m.closing = c.closing
    BY <2>1, <2>4, <2>5, Expects
  <2>7. /\ m.active = TRUE /\ m.prev = l.prev /\ m.closed = l.closed /\ m.dhkey = l.dhkey
        /\ m.send = l.send /\ m.confkey = l.confkey /\ m.closing = l.closing
        /\ AckSet(m.queue) = AckSet(l.queue) /\ m.tx.pdu.type \in {"none", "link ack"}
    BY <2>3, <2>5, <2>6 DEF Same, Kept
  <2>8. Side("dev", m)
    BY <2>6, <2>7 DEF Side, Steady, Sending, Blank
  <2>9. addr = 0
    BY <1>4 DEF DevHears
  <2>10. DevEff(l, a, m)
    BY <1>2, <1>4, <2>7, <2>9 DEF DevEff, TakesData
  <2>11. m.prev = XACT_NVAL \/ m.closed
    BY <1>4, <2>7 DEF Side, Blank
  <2>12. RecvEff("dev", l, a, m)
    BY <1>1, <1>2, <2>7, <2>8, <2>10, <2>11, IdleEff
  <2> QED
    BY <2>12 DEF m
<1> QED
  BY <1>3, <1>4

\* link_ack.
LEMMA LinkAckReceives ==
  ASSUME NEW l, Side("prv", l), NEW a \in AdvT, a.kind = "link ack", NEW o
  PROVE  RecvEff("prv", l, a, LinkAck(l, o))
<1> DEFINE m == LinkAck(l, o)
           p == Pdu("invite", {}, 0)
<1>1. l \in LinkT /\ Single(l.queue) /\ l.alloc \in Nat /\ "prv" \in Sides /\ Steady("prv", l)
  BY DEF Side, Sound, LinkT, Alloc, Sides
<1>2. ~Takes("prv", l, a)
  BY DEF Takes, Whole
<1>3. CASE l.expect = "caps"
  <2>1. m = l
    BY <1>3 DEF LinkAck
  <2> QED
    BY <1>1, <1>2, <2>1, StaysEff
<1>4. CASE l.expect # "caps"
  <2>1. m = SendThen("prv", l, p, "caps", o)
    BY <1>4 DEF LinkAck, SendInvite
  <2>2. p \in PduT /\ p.type = "invite" /\ "caps" \in Types
    BY PlainPdus, Zenon DEF Types
  <2> HIDE DEF m, p
  <2>3. IF PduOk(o) THEN Goes(l, p, "caps", m) ELSE Shut("prv", l, m)
    BY <1>1, <2>1, <2>2, SendsThen
  <2>4. CASE PduOk(o)
    <3>1. Goes(l, p, "caps", m)
      BY <2>3, <2>4
    <3>2. Side("prv", m)
      BY <2>2, <3>1 DEF Goes, Kept, Side, Steady, Sending, Blank
    <3>3. m.alloc >= l.alloc
      BY <1>1, <3>1, Reflexive, Zenon DEF Goes, Kept
    <3>4. PrvEff(l, a, m)
      BY <1>2, <3>1, <3>3 DEF Goes, Kept, PrvEff
    <3>5. RecvEff("prv", l, a, m)
      BY <1>1, <1>2, <3>1, <3>2, <3>4, IdleEff DEF Goes, Kept
    <3> QED
      BY <3>5 DEF m
  <2>5. CASE ~PduOk(o)
    <3>1. Shut("prv", l, m)
      BY <2>3, <2>5
    <3>2. Side("prv", m)
      BY <1>1, <3>1, ShutSide
    <3>3. m.alloc >= l.alloc
      BY <1>1, <3>1, Reflexive, Zenon DEF Shut
    <3>4. PrvEff(l, a, m)
      BY <1>2, <3>1, <3>3 DEF Shut, PrvEff
    <3>5. RecvEff("prv", l, a, m)
      BY <1>1, <1>2, <3>1, <3>2, <3>4, IdleEff DEF Shut
    <3> QED
      BY <3>5 DEF m
  <2> QED
    BY <2>4, <2>5
<1> QED
  BY <1>3, <1>4

\* gen_prov_recv and gen_prov_ctl: whatever side s hears.
LEMMA Hears ==
  ASSUME NEW s \in Sides, NEW l, Side(s, l), NEW a \in AdvT, NEW o
  PROVE  RecvEff(s, l, a, Recv(s, l, a, o))
<1> DEFINE m == Recv(s, l, a, o)
<1>1. a.kind \in {"open", "link ack", "close", "seg", "ack", "cancelled"}
  BY DEF AdvT, Ctl
<1>2. CASE a.kind = "cancelled" \/ ~Listens(s, l, a)
  <2>1. m = l
    BY <1>2 DEF Recv, Listens
  <2>2. ~Takes(s, l, a)
    BY <1>2 DEF Takes, Whole, Listens
  <2> QED
    BY <2>1, <2>2, StaysEff
<1>3. CASE a.kind # "cancelled" /\ Listens(s, l, a)
  <2>1. CASE a.kind = "seg"
    <3>1. l.active
      BY <1>3, <2>1 DEF Listens, DevHears
    <3>2. m = SegRecv(s, l, a, o)
      BY <1>3, <2>1 DEF Recv, Listens
    <3> QED
      BY <1>3, <2>1, <3>1, <3>2, SegReceives
  <2>2. CASE a.kind = "ack"
    <3>1. m = AckRecv(s, l, a.xact, o)
      BY <1>3, <2>2 DEF Recv, Listens
    <3> QED
      BY <2>2, <3>1, AckReceives
  <2>3. CASE a.kind = "open"
    <3>1. m = IF s = "dev" THEN LinkOpen(l, a, o) ELSE l
      BY <1>3, <2>3 DEF Recv, Listens
    <3>2. CASE s = "dev"
      <4>1. DevHears(l, a)
        BY <1>3, <3>2 DEF Listens
      <4> QED
        BY <2>3, <3>1, <3>2, <4>1, OpenReceives
    <3>3. CASE s # "dev"
      <4>1. ~Takes(s, l, a)
        BY <2>3 DEF Takes, Whole
      <4> QED
        BY <3>1, <3>3, <4>1, StaysEff
    <3> QED
      BY <3>2, <3>3
  <2>4. CASE a.kind = "link ack"
    <3>1. m = IF s = "prv" THEN LinkAck(l, o) ELSE l
      BY <1>3, <2>4 DEF Recv, Listens
    <3>2. CASE s = "prv"
      BY <2>4, <3>1, <3>2, LinkAckReceives
    <3>3. CASE s # "prv"
      <4>1. ~Takes(s, l, a)
        BY <2>4 DEF Takes, Whole
      <4> QED
        BY <3>1, <3>3, <4>1, StaysEff
    <3> QED
      BY <3>2, <3>3
  <2>5. CASE a.kind = "close"
    <3>1. m = ResetLink(l)
      BY <1>3, <2>5 DEF Recv, Listens
    <3>2. ~Takes(s, l, a)
      BY <2>5 DEF Takes, Whole
    <3>3. /\ Side(s, m) /\ ~m.active /\ m.prev = XACT_NVAL /\ m.tx = NoTx
          /\ m.alloc = l.alloc /\ ~m.send /\ m.expect = "invite"
          /\ AckSet(m.queue) = AckSet(l.queue)
      BY <3>1, Resets
    <3>4. m.tx.pdu.type = "none" /\ l.alloc \in Nat
      BY <3>3, Constants DEF Side, Sound, LinkT, Alloc
    <3> HIDE DEF m
    <3>5. m.alloc >= l.alloc
      BY <3>3, <3>4
    <3>6. s = "dev" => DevEff(l, a, m)
      BY <3>2, <3>3, <3>4 DEF DevEff, TakesData
    <3>7. s = "prv" => PrvEff(l, a, m)
      BY <3>2, <3>3, <3>4, <3>5 DEF PrvEff
    <3>8. RecvEff(s, l, a, m)
      BY <3>2, <3>3, <3>6, <3>7, IdleEff
    <3> QED
      BY <3>8 DEF m
  <2> QED
    BY <1>1, <1>3, <2>1, <2>2, <2>3, <2>4, <2>5
<1> QED
  BY <1>2, <1>3

-----------------------------------------------------------------------------
\* What neither the other side nor the invariant notices.
Idles(s, l, m) ==
  /\ Side(s, m) /\ m.tx.pdu = l.tx.pdu /\ m.active = l.active /\ m.expect = l.expect
  /\ m.send = l.send /\ m.confkey = l.confkey /\ m.given = l.given /\ m.alloc = l.alloc
  /\ m.id = l.id /\ m.prev = l.prev /\ m.closed = l.closed /\ m.conf = l.conf
  /\ AckSet(m.queue) \subseteq AckSet(l.queue)

\* The advertiser takes adverts away.
LEMMA HoldIdles ==
  ASSUME NEW s \in Sides, NEW l, Side(s, l), NEW b \in BOOLEAN, NEW q \in Seq(AdvT),
         Single(q), Current(q, l.tx), AckSet(q) \subseteq AckSet(l.queue)
  PROVE  /\ Idles(s, l, [l EXCEPT !.queue = q, !.held = b])
         /\ [l EXCEPT !.queue = q, !.held = b] \in LinkT
<1> DEFINE m == [l EXCEPT !.queue = q, !.held = b]
<1>1. l \in LinkT /\ q \in Queue
  BY DEF Side, Sound, Queue
<1>2. m \in LinkT
  BY <1>1 DEF LinkT
<1>3. /\ m.tx = l.tx /\ m.active = l.active /\ m.expect = l.expect /\ m.dhkey = l.dhkey
      /\ m.send = l.send /\ m.confkey = l.confkey /\ m.given = l.given /\ m.alloc = l.alloc
      /\ m.id = l.id /\ m.prev = l.prev /\ m.closed = l.closed /\ m.closing = l.closing
      /\ m.queue = q /\ m.conf = l.conf
  BY <1>1 DEF LinkT
<1> HIDE DEF m
<1>4. Side(s, m)
  BY <1>2, <1>3 DEF Side, Sound, Steady, Sending, Blank
<1>5. Idles(s, l, m)
  BY <1>3, <1>4 DEF Idles
<1> QED
  BY <1>2, <1>5 DEF m

\* The first advert is sent, and says what is being sent.
LEMMA PopIdles ==
  ASSUME NEW s \in Sides, NEW l, Side(s, l), l.queue # <<>>, NEW b \in BOOLEAN
  PROVE  /\ Idles(s, l, [l EXCEPT !.queue = Tail(l.queue), !.held = b])
         /\ [l EXCEPT !.queue = Tail(l.queue), !.held = b] \in LinkT
         /\ Head(l.queue) \in AdvT
         /\ Head(l.queue).kind = "seg" => Head(l.queue).pdu = l.tx.pdu
         /\ Head(l.queue).kind \in Ctl => Head(l.queue).kind = l.tx.pdu.type
<1>1. l.queue \in Seq(AdvT) /\ Single(l.queue) /\ Current(l.queue, l.tx)
  BY DEF Side, Sound, LinkT, Queue
<1>2. /\ Tail(l.queue) \in Seq(AdvT) /\ Single(Tail(l.queue)) /\ Current(Tail(l.queue), l.tx)
      /\ AckSet(Tail(l.queue)) \subseteq AckSet(l.queue)
      /\ Head(l.queue) \in AdvT /\ 1 \in DOMAIN l.queue /\ Head(l.queue) = l.queue[1]
  BY <1>1, TailQueue
<1>3. /\ Head(l.queue).kind = "seg" => Head(l.queue).pdu = l.tx.pdu
      /\ Head(l.queue).kind \in Ctl => Head(l.queue).kind = l.tx.pdu.type
  BY <1>1, <1>2 DEF Current
<1> QED
  BY <1>2, <1>3, HoldIdles

\* A side waits for its turn.
LEMMA WaitIdles ==
  ASSUME NEW s \in Sides, NEW l, Side(s, l)
  PROVE  Idles(s, l, [l EXCEPT !.held = FALSE]) /\ [l EXCEPT !.held = FALSE] \in LinkT
<1> DEFINE m == [l EXCEPT !.held = FALSE]
<1>1. l \in LinkT
  BY DEF Side, Sound
<1>2. m \in LinkT
  BY <1>1 DEF LinkT
<1>3. /\ m.tx = l.tx /\ m.active = l.active /\ m.expect = l.expect /\ m.dhkey = l.dhkey
      /\ m.send = l.send /\ m.confkey = l.confkey /\ m.given = l.given /\ m.alloc = l.alloc
      /\ m.id = l.id /\ m.prev = l.prev /\ m.closed = l.closed /\ m.closing = l.closing
      /\ m.queue = l.queue /\ m.conf = l.conf
  BY <1>1 DEF LinkT
<1> HIDE DEF m
<1>4. Side(s, m)
  BY <1>2, <1>3 DEF Side, Sound, Steady, Sending, Blank
<1>5. Idles(s, l, m)
  BY <1>3, <1>4 DEF Idles
<1> QED
  BY <1>2, <1>5 DEF m

\* prov_retransmit, when it sends the same again.
LEMMA RepeatIdles ==
  ASSUME NEW s \in Sides, NEW l, Side(s, l), l.tx.tries < Tries,
         ~(s = "prv" /\ l.closing >= 3)
  PROVE  Idles(s, l, Repeat(s, l)) /\ Repeat(s, l) \in LinkT
<1> DEFINE n == IF l.closing > 0 THEN l.closing + 1 ELSE 0
           k == [l EXCEPT !.closing = n, !.held = TRUE]
           tx == [l.tx EXCEPT !.tries = @ + 1]
           m == Repeat(s, l)
<1>1. /\ l \in LinkT /\ l.closing \in 0..3 /\ l.tx \in TxT /\ Single(l.queue)
      /\ Current(l.queue, l.tx) /\ (s = "dev" => l.closing = 0)
  BY DEF Side, Sound, LinkT, Count, Steady
<1>2. n \in Count /\ (s = "dev" => n = 0)
  BY <1>1 DEF Count, Sides
<1>3. tx \in TxT /\ tx.pdu = l.tx.pdu
  <2>1. l.tx.tries + 1 \in 0..Tries
    BY <1>1, ProvAssumption DEF TxT
  <2> QED
    BY <1>1, <2>1 DEF TxT
<1>4. m = Reliably(k, tx)
  BY DEF Repeat
<1> HIDE DEF n, tx, m
<1>5. k \in LinkT
  BY <1>1, <1>2 DEF LinkT
<1>6. Kept(l, k) /\ k.expect = l.expect /\ k.queue = l.queue /\ k.closing = n
  BY <1>1 DEF LinkT, Kept
<1> HIDE DEF k
<1>7. Current(k.queue, tx) /\ Single(k.queue)
  BY <1>1, <1>3, <1>6 DEF Current
<1>8. Sound(m) /\ Same(k, m) /\ m.tx = tx /\ m.closing = k.closing
  BY <1>3, <1>4, <1>5, <1>7, SendsReliably
<1>9. /\ m.active = l.active /\ m.expect = l.expect /\ m.dhkey = l.dhkey
      /\ m.send = l.send /\ m.confkey = l.confkey /\ m.given = l.given /\ m.alloc = l.alloc
      /\ m.id = l.id /\ m.prev = l.prev /\ m.closed = l.closed /\ m.closing = n
      /\ AckSet(m.queue) = AckSet(l.queue) /\ m.tx.pdu = l.tx.pdu /\ m.conf = l.conf
  BY <1>3, <1>6, <1>8 DEF Same, Kept
<1>10. Side(s, m)
  BY <1>2, <1>8, <1>9 DEF Side, Steady, Sending, Blank
<1> QED
  BY <1>8, <1>9, <1>10 DEF Idles, Sound, m

-----------------------------------------------------------------------------
\* The two sides.
LEMMA Pair ==
  /\ "dev" \in Sides /\ "prv" \in Sides /\ Other("dev") = "prv" /\ Other("prv") = "dev"
  /\ \A s \in Sides : s = "dev" \/ s = "prv"
BY DEF Sides, Other

\* The acknowledgements of a step are of transactions that were handled.
AckStep ==
  \A s \in Sides : ~link[s].closed =>
    \A a \in AckSet(link'[s].queue) \ AckSet(link[s].queue) : a.xact # XACT_NVAL =>
      [by |-> s, link |-> a.link, xact |-> a.xact] \in handled'

\* A step that verifies the device, or ends a link with success, finds the two
\* sides in agreement.
AgreeStep ==
  /\ (met' # met \/ success' # success) => link'["dev"].confkey = link'["prv"].confkey
  /\ success' # success => addr' = success'

\* Nothing but the links of the two changes, and those not for the other.
LEMMA IdleStep ==
  ASSUME Inv, link' \in [Sides -> LinkT],
         Idles("dev", link["dev"], link'["dev"]), Idles("prv", link["prv"], link'["prv"]),
         UNCHANGED <<addr, links, success, met, handled>>, inprov' \in BOOLEAN
  PROVE  Inv' /\ AckStep /\ AgreeStep
<1>1. Typed'
  BY DEF Inv, Typed, Idles
<1>2. Taken(link["dev"], link["prv"], addr)'
  BY DEF Inv, Taken, Idles
<1>3. Answers(link["dev"], link["prv"], addr)'
  BY DEF Inv, Answers, Idles
<1>4. Seen("dev", link["dev"], handled)' /\ Seen("prv", link["prv"], handled)'
  BY DEF Inv, Seen, Idles
<1>5. Offers(link["dev"], link["prv"])'
  BY DEF Inv, Offers, Idles
<1>6. AckStep
  BY DEF AckStep, Idles, Sides
<1>7. AgreeStep
  BY DEF AgreeStep
<1> QED
  BY <1>1, <1>2, <1>3, <1>4, <1>5, <1>6, <1>7 DEF Inv

\* The device hears an advert of the provisioner.
LEMMA DeliverToDev ==
  ASSUME Inv, Deliver("prv")
  PROVE  Inv' /\ AckStep /\ AgreeStep
<1> DEFINE d == link["dev"]
           p == link["prv"]
           a == Head(p.queue)
           x == IF TakesData(d, a) /\ addr = 0 THEN a.pdu.addr ELSE addr
<1>1. /\ link \in [Sides -> LinkT] /\ Side("dev", d) /\ Side("prv", p)
      /\ addr \in Nat /\ addr < p.alloc /\ Taken(d, p, addr) /\ Answers(d, p, addr)
      /\ Offers(d, p) /\ Seen("dev", d, handled) /\ Seen("prv", p, handled)
  BY DEF Inv, Typed
<1>2. p.queue # <<>>
  BY DEF Deliver
<1>3. PICK o \in Outcomes :
        link' = [link EXCEPT !["prv"].queue = Tail(@),
                             !["prv"].held = @ /\ Recv("dev", d, a, o).tx = d.tx,
                             !["dev"] = Recv("dev", d, a, o)]
  BY Pair DEF Deliver
<1> DEFINE m == Recv("dev", d, a, o)
           b == p.held /\ m.tx = d.tx
           n == [p EXCEPT !.queue = Tail(p.queue), !.held = b]
<1>4. b \in BOOLEAN
  BY <1>1 DEF Side, Sound, LinkT
<1> HIDE DEF b
<1>5. /\ Idles("prv", p, n) /\ n \in LinkT /\ a \in AdvT
      /\ a.kind = "seg" => a.pdu = p.tx.pdu
      /\ a.kind \in Ctl => a.kind = p.tx.pdu.type
  BY <1>1, <1>2, <1>4, Pair, PopIdles
<1> HIDE DEF a
<1>6. RecvEff("dev", d, a, m)
  BY <1>1, <1>5, Pair, Hears
<1> HIDE DEF m, n
<1>7. m \in LinkT
  BY <1>6 DEF RecvEff, Side, Sound
<1>8. link' \in [Sides -> LinkT] /\ link'["dev"] = m /\ link'["prv"] = n
  BY <1>1, <1>3, <1>5, <1>7 DEF Sides, m, n, b
<1>9. addr' = x
  BY Pair DEF Deliver, TakesData, a
<1>10. success' = success /\ met' = met /\ links' = links
  BY Pair DEF Deliver
<1>11. inprov' \in BOOLEAN
  BY DEF Deliver
<1>12. handled' = After("dev", d, a, handled)
  BY Pair DEF Deliver, After, a
<1> HIDE DEF d, p, x
<1>13. TakesData(d, a) => /\ p.tx.pdu = a.pdu /\ p.tx.pdu.type = "data"
                          /\ a.pdu.key = d.confkey /\ d.expect = "data" /\ d.active
  <2> SUFFICES ASSUME TakesData(d, a)
               PROVE  /\ p.tx.pdu = a.pdu /\ p.tx.pdu.type = "data"
                      /\ a.pdu.key = d.confkey /\ d.expect = "data" /\ d.active
    OBVIOUS
  <2>1. a.kind = "seg"
    BY DEF TakesData, Takes, Whole
  <2> QED
    BY <1>5, <2>1 DEF TakesData, Takes, Expected, Decrypts, DevHears
<1>14. TakesData(d, a) =>
         /\ p.confkey = d.confkey /\ a.pdu.addr = p.given /\ p.given < p.alloc /\ addr = 0
         /\ ~d.send
  BY <1>1, <1>13 DEF Side, Sending, Steady, Taken
<1>15. a.pdu.addr \in Nat
  BY <1>5 DEF AdvT, PduT
<1>16. x \in Nat /\ x < p.alloc
  BY <1>1, <1>13, <1>14, <1>15 DEF x
<1>17. /\ n.tx.pdu = p.tx.pdu /\ n.active = p.active /\ n.expect = p.expect
       /\ n.confkey = p.confkey /\ n.given = p.given /\ n.alloc = p.alloc /\ Side("prv", n)
       /\ n.conf = p.conf
  BY <1>5 DEF Idles
<1>18. Side("dev", m) /\ DevEff(d, a, m) /\ AckEff("dev", d, a, m)
  BY <1>6 DEF RecvEff
<1>19. Typed'
  BY <1>1, <1>8, <1>9, <1>10, <1>11, <1>16, <1>17, <1>18 DEF Inv, Typed, p
<1>20. Taken(m, n, x)
  <2>1. CASE TakesData(d, a)
    BY <1>13, <1>14, <1>17, <1>18, <2>1 DEF Taken, DevEff
  <2>2. CASE ~TakesData(d, a)
    <3> SUFFICES ASSUME addr # 0, m.active
                 PROVE  /\ m.tx.pdu.type # "link ack" /\ n.tx.pdu.type # "invite"
                        /\ m.expect \in {"invite", "failed"} /\ ~m.send
      BY <2>2 DEF Taken, x
    <3>1. d.active
      BY <1>18 DEF DevEff
    <3>2. /\ d.tx.pdu.type # "link ack" /\ p.tx.pdu.type # "invite"
          /\ d.expect \in {"invite", "failed"} /\ ~d.send
      BY <1>1, <3>1 DEF Taken
    <3>3. ~(a.kind = "seg" /\ a.pdu.type = "invite")
      BY <1>5, <3>2
    <3> QED
      BY <1>17, <1>18, <3>2, <3>3 DEF DevEff
  <2> QED
    BY <2>1, <2>2
<1>21. Answers(m, n, x)
  <2> SUFFICES ASSUME m.tx.pdu.type = "complete", n.active, n.expect = "complete"
               PROVE  m.confkey = n.confkey /\ x = n.given
    BY DEF Answers
  <2>1. CASE TakesData(d, a)
    BY <1>14, <1>17, <1>18, <2>1 DEF DevEff, x
  <2>2. CASE ~TakesData(d, a)
    BY <1>1, <1>17, <1>18, <2>2 DEF DevEff, Answers, x
  <2> QED
    BY <2>1, <2>2
<1>22. Seen("dev", m, handled') /\ Seen("prv", n, handled')
  <2>1. Seen("dev", m, handled')
    BY <1>1, <1>12, <1>18 DEF AckEff
  <2>2. handled \subseteq handled'
    BY <1>12 DEF After
  <2> QED
    BY <1>1, <1>5, <2>1, <2>2 DEF Seen, Idles
<1>23. AckStep
  <2>1. \A y \in AckSet(n.queue) \ AckSet(p.queue) : FALSE
    BY <1>5 DEF Idles
  <2>2. ~d.closed => \A y \in AckSet(m.queue) \ AckSet(d.queue) : y.xact # XACT_NVAL =>
          [by |-> "dev", link |-> y.link, xact |-> y.xact] \in handled'
    BY <1>1, <1>12, <1>18 DEF AckEff
  <2> QED
    BY <1>8, <2>1, <2>2, Pair DEF AckStep, d, p
<1>24. AgreeStep
  BY <1>10 DEF AgreeStep
<1>25. Offers(m, n)
  <2> SUFFICES ASSUME n.active, n.expect = "random", m.active
               PROVE  /\ m.expect \in Confirmed /\ ~m.send
                      /\ m.expect # "failed" => m.confkey = n.conf
    BY DEF Offers
  <2>1. p.active /\ p.expect = "random" /\ p.tx.pdu.type \notin {"open", "data"}
    BY <1>1, <1>17 DEF Side, Sending
  <2>2. a.kind # "open" /\ ~(a.kind = "seg" /\ a.pdu.type = "data")
    BY <1>5, <2>1 DEF Ctl
  <2>3. d.active
    BY <1>18, <2>2 DEF DevEff
  <2>4. d.expect \in Confirmed /\ ~d.send /\ (d.expect # "failed" => d.confkey = p.conf)
    BY <1>1, <2>1, <2>3 DEF Offers
  <2>5. /\ m.expect \in Confirmed /\ ~m.send /\ m.confkey = d.confkey
        /\ d.expect = "failed" => m.expect = "failed"
    BY <1>18, <2>2, <2>3, <2>4 DEF DevEff
  <2> QED
    BY <1>17, <2>4, <2>5
<1> QED
  BY <1>8, <1>9, <1>19, <1>20, <1>21, <1>22, <1>23, <1>24, <1>25 DEF Inv

\* The provisioner hears an advert of the device.
LEMMA DeliverToPrv ==
  ASSUME Inv, Deliver("dev")
  PROVE  Inv' /\ AckStep /\ AgreeStep
<1> DEFINE d == link["dev"]
           p == link["prv"]
           a == Head(d.queue)
<1>1. /\ link \in [Sides -> LinkT] /\ Side("dev", d) /\ Side("prv", p)
      /\ addr \in Nat /\ addr < p.alloc /\ success \in Nat /\ success < p.alloc
      /\ Taken(d, p, addr) /\ Answers(d, p, addr) /\ Offers(d, p)
      /\ Seen("dev", d, handled) /\ Seen("prv", p, handled)
  BY DEF Inv, Typed
<1>2. d.queue # <<>>
  BY DEF Deliver
<1>3. PICK o \in Outcomes :
        link' = [link EXCEPT !["dev"].queue = Tail(@),
                             !["dev"].held = @ /\ Recv("prv", p, a, o).tx = p.tx,
                             !["prv"] = Recv("prv", p, a, o)]
  BY Pair DEF Deliver
<1> DEFINE m == Recv("prv", p, a, o)
           b == d.held /\ m.tx = p.tx
           n == [d EXCEPT !.queue = Tail(d.queue), !.held = b]
<1>4. b \in BOOLEAN
  BY <1>1 DEF Side, Sound, LinkT
<1> HIDE DEF b
<1>5. /\ Idles("dev", d, n) /\ n \in LinkT /\ a \in AdvT
      /\ a.kind = "seg" => a.pdu = d.tx.pdu
      /\ a.kind \in Ctl => a.kind = d.tx.pdu.type
  BY <1>1, <1>2, <1>4, Pair, PopIdles
<1> HIDE DEF a
<1>6. RecvEff("prv", p, a, m)
  BY <1>1, <1>5, Pair, Hears
<1> HIDE DEF m, n
<1>7. m \in LinkT
  BY <1>6 DEF RecvEff, Side, Sound
<1>8. link' \in [Sides -> LinkT] /\ link'["prv"] = m /\ link'["dev"] = n
  BY <1>1, <1>3, <1>5, <1>7 DEF Sides, m, n, b
<1> DEFINE done == Takes("prv", p, a) /\ a.pdu.type = "complete"
           seen == Takes("prv", p, a) /\ a.pdu.type = "random" /\ Verifies(p)
<1>9. /\ addr' = addr /\ links' = links /\ success' = IF done THEN p.given ELSE success
      /\ met' = IF seen THEN p.id ELSE met
  BY Pair DEF Deliver, a
<1>10. inprov' \in BOOLEAN
  BY DEF Inv, Typed, Deliver
<1>11. handled' = After("prv", p, a, handled)
  BY Pair DEF Deliver, After, a
<1>12. /\ n.tx.pdu = d.tx.pdu /\ n.active = d.active /\ n.expect = d.expect
       /\ n.send = d.send /\ n.confkey = d.confkey /\ Side("dev", n)
  BY <1>5 DEF Idles
<1>13. Side("prv", m) /\ PrvEff(p, a, m) /\ AckEff("prv", p, a, m)
  BY <1>6 DEF RecvEff
<1>14. p.alloc \in Nat /\ m.alloc \in Nat /\ m.alloc >= p.alloc /\ p.given \in Nat
  BY <1>1, <1>7, <1>13 DEF Side, Sound, LinkT, Alloc, PrvEff
<1> HIDE DEF d, p
<1>15. done => /\ d.tx.pdu.type = "complete" /\ p.active /\ p.expect = "complete"
               /\ p.given < p.alloc /\ m.confkey = p.confkey
  <2> SUFFICES ASSUME done
               PROVE  /\ d.tx.pdu.type = "complete" /\ p.active /\ p.expect = "complete"
                      /\ p.given < p.alloc /\ m.confkey = p.confkey
    OBVIOUS
  <2>1. a.kind = "seg" /\ p.active /\ Expected(p, a.pdu)
    BY DEF Takes, Whole
  <2>2. p.expect = "complete"
    BY <2>1 DEF Expected
  <2> QED
    BY <1>1, <1>5, <1>13, <2>1, <2>2 DEF Side, Steady, PrvEff
<1>16. success' \in Nat /\ success' < m.alloc /\ addr' < m.alloc
  BY <1>1, <1>9, <1>14, <1>15
<1>17. Typed'
  <2>1. addr' \in Nat /\ links' \in 0..MaxLinks
    BY <1>9 DEF Inv, Typed
  <2> QED
    BY <1>8, <1>10, <1>12, <1>13, <1>16, <2>1 DEF Typed
<1>18. Taken(n, m, addr)
  <2> SUFFICES ASSUME addr # 0, n.active
               PROVE  /\ n.tx.pdu.type # "link ack" /\ m.tx.pdu.type # "invite"
                      /\ n.expect \in {"invite", "failed"} /\ ~n.send
    BY DEF Taken
  <2>1. /\ d.tx.pdu.type # "link ack" /\ p.tx.pdu.type # "invite"
        /\ d.expect \in {"invite", "failed"} /\ ~d.send
    BY <1>1, <1>12 DEF Taken
  <2>2. a.kind # "link ack"
    BY <1>5, <2>1 DEF Ctl
  <2> QED
    BY <1>12, <1>13, <2>1, <2>2 DEF PrvEff
<1>19. Answers(n, m, addr)
  <2> SUFFICES ASSUME n.tx.pdu.type = "complete", m.active, m.expect = "complete"
               PROVE  n.confkey = m.confkey /\ addr = m.given
    BY DEF Answers
  <2>1. ~(a.kind = "seg" /\ a.pdu.type = "random")
    BY <1>5, <1>12
  <2>2. p.active /\ p.expect = "complete" /\ m.confkey = p.confkey /\ m.given = p.given
    BY <1>13, <2>1 DEF PrvEff
  <2> QED
    BY <1>1, <1>12, <2>2 DEF Answers
<1>20. Seen("prv", m, handled') /\ Seen("dev", n, handled')
  <2>1. Seen("prv", m, handled')
    BY <1>1, <1>11, <1>13 DEF AckEff
  <2>2. handled \subseteq handled'
    BY <1>11 DEF After
  <2> QED
    BY <1>1, <1>5, <2>1, <2>2 DEF Seen, Idles
<1>21. AckStep
  <2>1. \A y \in AckSet(n.queue) \ AckSet(d.queue) : FALSE
    BY <1>5 DEF Idles
  <2>2. ~p.closed => \A y \in AckSet(m.queue) \ AckSet(p.queue) : y.xact # XACT_NVAL =>
          [by |-> "prv", link |-> y.link, xact |-> y.xact] \in handled'
    BY <1>1, <1>11, <1>13 DEF AckEff
  <2> QED
    BY <1>8, <2>1, <2>2, Pair DEF AckStep, d, p
<1>22. Offers(n, m)
  <2> SUFFICES ASSUME m.active, m.expect = "random", n.active
               PROVE  /\ n.expect \in Confirmed /\ ~n.send
                      /\ n.expect # "failed" => n.confkey = m.conf
    BY DEF Offers
  <2>1. CASE a.kind = "seg" /\ a.pdu.type = "confirm" /\ m.conf = a.pdu.key
    <3>1. d.tx.pdu.key = m.conf /\ d.tx.pdu.type = "confirm"
      BY <1>5, <2>1
    <3>2. d.confkey = m.conf /\ d.expect = "random" /\ ~d.send
      BY <1>1, <3>1 DEF Side, Sending, Steady
    <3> QED
      BY <1>12, <3>2 DEF Confirmed
  <2>2. CASE p.active /\ p.expect = "random" /\ m.conf = p.conf
    BY <1>1, <1>12, <2>2 DEF Offers
  <2> QED
    BY <1>13, <2>1, <2>2 DEF PrvEff
<1>23. AgreeStep
  <2>1. CASE done
    <3>1. d.confkey = p.confkey /\ addr = p.given
      BY <1>1, <1>15, <2>1 DEF Answers
    <3>2. m.confkey = p.confkey
      BY <1>15, <2>1
    <3> QED
      BY <1>8, <1>9, <1>12, <2>1, <3>1, <3>2 DEF AgreeStep
  <2>2. CASE seen
    <3>1. a.kind = "seg" /\ p.active /\ Expected(p, a.pdu)
      BY <2>2 DEF Takes, Whole
    <3>2. p.expect = "random" /\ d.tx.pdu.type = "random"
      BY <1>5, <2>2, <3>1 DEF Expected
    <3>3. d.expect = "data" /\ d.active
      BY <1>1, <3>2 DEF Side, Sending
    <3>4. d.confkey = p.conf
      BY <1>1, <3>1, <3>2, <3>3 DEF Offers
    <3>5. m.confkey = p.confkey /\ p.confkey = p.conf
      BY <1>13, <2>2 DEF PrvEff, Verifies
    <3>6. success' = success
      BY <1>9, <2>2
    <3> QED
      BY <1>8, <1>12, <3>4, <3>5, <3>6 DEF AgreeStep
  <2>3. CASE ~done /\ ~seen
    <3> HIDE DEF done, seen
    <3> QED
      BY <1>9, <2>3 DEF AgreeStep
  <2> QED
    BY <2>1, <2>2, <2>3
<1> QED
  BY <1>8, <1>9, <1>17, <1>18, <1>19, <1>20, <1>21, <1>22, <1>23 DEF Inv

\* An advert is lost.
LEMMA LoseStep ==
  ASSUME Inv, NEW s \in Sides, Lose(s)
  PROVE  Inv' /\ AckStep /\ AgreeStep
<1> DEFINE l == link[s]
           m == [l EXCEPT !.queue = Tail(l.queue), !.held = l.held]
<1>1. /\ link \in [Sides -> LinkT] /\ Side("dev", link["dev"]) /\ Side("prv", link["prv"])
      /\ inprov \in BOOLEAN
  BY DEF Inv, Typed
<1>2. Side(s, l) /\ l \in LinkT /\ l.held \in BOOLEAN
  BY <1>1, Pair DEF LinkT
<1>3. l.queue # <<>>
  BY DEF Lose
<1>4. Idles(s, l, m) /\ m \in LinkT
  BY <1>2, <1>3, PopIdles
<1>5. m = [l EXCEPT !.queue = Tail(l.queue)]
  BY <1>2 DEF LinkT
<1>6. link' = [link EXCEPT ![s] = [l EXCEPT !.queue = Tail(l.queue)]]
  BY DEF Lose
<1> HIDE DEF m, l
<1>7. link' \in [Sides -> LinkT] /\ link'[s] = m /\ \A r \in Sides : r # s => link'[r] = link[r]
  BY <1>1, <1>4, <1>5, <1>6
<1>8. \A r \in Sides : Idles(r, link[r], link'[r])
  <2> TAKE r \in Sides
  <2>1. CASE r = s
    BY <1>4, <1>7, <2>1 DEF l
  <2>2. CASE r # s
    BY <1>1, <1>7, <2>2, Pair DEF Idles
  <2> QED
    BY <2>1, <2>2
<1>9. UNCHANGED <<addr, links, success, met, handled>> /\ inprov' \in BOOLEAN
  BY <1>1 DEF Lose
<1> QED
  BY <1>7, <1>8, <1>9, Pair, IdleStep

\* A side that has lost its link, has started one, or sends its confirmation,
\* while the other idles.
LEMMA AloneStep ==
  ASSUME Inv, NEW s \in Sides, link' \in [Sides -> LinkT],
         Side(s, link'[s]), Idles(Other(s), link[Other(s)], link'[Other(s)]),
         AckSet(link'[s].queue) = AckSet(link[s].queue),
         Seen(s, link'[s], handled), link'[s].alloc = link[s].alloc,
         link'[s].tx.pdu.type \in {"none", "open", "close", "confirm"},
         s = "dev" => /\ link'[s].active => link[s].active
                      /\ link'[s].active /\ addr # 0 =>
                           link'[s].expect \in {"invite", "failed"} /\ ~link'[s].send
                      /\ link'[s].active =>
                           ~(link["prv"].active /\ link["prv"].expect = "random"),
         s = "prv" => (link'[s].active => link'[s].expect \notin {"complete", "random"}),
         addr' = addr \/ (s = "dev" /\ addr' = 0 /\ ~link'[s].active),
         UNCHANGED <<success, met, handled>>, inprov' \in BOOLEAN, links' \in 0..MaxLinks
  PROVE  Inv' /\ AckStep /\ AgreeStep
<1> DEFINE d == link["dev"]
           p == link["prv"]
           e == link'["dev"]
           q == link'["prv"]
<1>1. /\ addr \in Nat /\ addr < p.alloc /\ success \in Nat /\ success < p.alloc
      /\ Taken(d, p, addr) /\ Answers(d, p, addr)
      /\ Seen("dev", d, handled) /\ Seen("prv", p, handled) /\ p.alloc \in Nat \ {0}
  BY DEF Inv, Typed, Side, Sound, LinkT, Alloc
<1>2. AckStep
  <2> SUFFICES ASSUME NEW r \in Sides, NEW y \in AckSet(link'[r].queue) \ AckSet(link[r].queue)
               PROVE  FALSE
    BY DEF AckStep
  <2>1. r = s \/ r = Other(s)
    BY DEF Sides, Other
  <2> QED
    BY <2>1 DEF Idles
<1>3. AgreeStep
  BY DEF AgreeStep
<1>4. Inv'
  <2>1. CASE s = "dev"
    <3>1. /\ Idles("prv", p, q) /\ Side("dev", e) /\ Seen("dev", e, handled)
          /\ e.tx.pdu.type \notin {"complete", "link ack"}
          /\ e.active => d.active
          /\ e.active /\ addr # 0 => e.expect \in {"invite", "failed"} /\ ~e.send
          /\ addr' = addr \/ (addr' = 0 /\ ~e.active)
          /\ e.active => ~(p.active /\ p.expect = "random")
      BY <2>1, Pair
    <3>2. Side("prv", q) /\ q.alloc = p.alloc /\ q.tx.pdu = p.tx.pdu /\ Seen("prv", q, handled)
      BY <1>1, <3>1 DEF Idles, Seen
    <3>3. addr' \in Nat /\ addr' < q.alloc
      <4>1. \A x \in Nat \ {0} : 0 \in Nat /\ 0 < x
        OBVIOUS
      <4>2. 0 \in Nat /\ 0 < p.alloc /\ addr \in Nat /\ addr < p.alloc
        BY <1>1, <4>1, Zenon
      <4>3. addr' = addr \/ addr' = 0
        BY <3>1, Zenon
      <4>4. q.alloc = p.alloc
        BY <3>2, Zenon
      <4> QED
        BY <4>2, <4>3, <4>4, Zenon
    <3>4. Typed'
      BY <1>1, <3>1, <3>2, <3>3 DEF Typed
    <3>5. Taken(e, q, addr')
      BY <1>1, <3>1, <3>2 DEF Taken
    <3>6. Answers(e, q, addr')
      BY <3>1 DEF Answers
    <3>7. Offers(e, q)
      BY <3>1 DEF Offers, Idles
    <3> QED
      BY <3>1, <3>2, <3>4, <3>5, <3>6, <3>7 DEF Inv
  <2>2. CASE s = "prv"
    <3>1. /\ Idles("dev", d, e) /\ Side("prv", q) /\ Seen("prv", q, handled)
          /\ q.tx.pdu.type # "invite" /\ q.alloc = p.alloc
          /\ q.active => q.expect \notin {"complete", "random"}
          /\ addr' = addr
      BY <2>2, Pair
    <3>2. /\ Side("dev", e) /\ e.tx.pdu = d.tx.pdu /\ Seen("dev", e, handled)
          /\ e.active = d.active /\ e.expect = d.expect /\ e.send = d.send
      BY <1>1, <3>1 DEF Idles, Seen
    <3>3. Typed'
      BY <1>1, <3>1, <3>2 DEF Typed
    <3>4. Taken(e, q, addr')
      BY <1>1, <3>1, <3>2 DEF Taken
    <3>5. Answers(e, q, addr')
      BY <3>1 DEF Answers
    <3>6. Offers(e, q)
      BY <3>1 DEF Offers
    <3> QED
      BY <3>1, <3>2, <3>3, <3>4, <3>5, <3>6 DEF Inv
  <2> QED
    BY <2>1, <2>2, Pair
<1> QED
  BY <1>2, <1>3, <1>4

\* One side becomes m while the other waits for its turn.
LEMMA Turn ==
  ASSUME Inv, NEW s \in Sides, NEW m \in LinkT,
         link' = [link EXCEPT ![Other(s)].held = FALSE, ![s] = m]
  PROVE  /\ link' \in [Sides -> LinkT] /\ link'[s] = m
         /\ Idles(Other(s), link[Other(s)], link'[Other(s)])
<1> DEFINE r == Other(s)
           n == [link[r] EXCEPT !.held = FALSE]
<1>1. link \in [Sides -> LinkT] /\ r \in Sides /\ r # s /\ Side(r, link[r])
  BY Pair DEF Inv, Typed
<1>2. Idles(r, link[r], n) /\ n \in LinkT
  BY <1>1, WaitIdles
<1>3. link' = [link EXCEPT ![r] = n, ![s] = m]
  OBVIOUS
<1> HIDE DEF r, n
<1>4. link' \in [Sides -> LinkT] /\ link'[s] = m /\ link'[r] = n
  BY <1>1, <1>2, <1>3
<1> QED
  BY <1>2, <1>4 DEF r

\* A side retransmits, or gives up its link.
LEMMA RetransmitStep ==
  ASSUME Inv, NEW s \in Sides, Retransmit(s)
  PROVE  Inv' /\ AckStep /\ AgreeStep
<1> DEFINE l == link[s]
           m == IF l.tx.tries >= Tries THEN ResetLink(l) ELSE Repeat(s, l)
<1>1. Side(s, l) /\ l.tx.tries \in Nat
  BY Pair DEF Inv, Typed, Side, Sound, LinkT, TxT
<1>2. link' = [link EXCEPT ![Other(s)].held = FALSE, ![s] = m]
  BY DEF Retransmit
<1>3. UNCHANGED <<addr, links, success, met, handled>> /\ inprov' \in BOOLEAN /\ links' \in 0..MaxLinks
  BY DEF Retransmit, Inv, Typed
<1>4. CASE m = ResetLink(l)
  <2> HIDE DEF m
  <2>1. /\ Side(s, m) /\ ~m.active /\ m.prev = XACT_NVAL /\ m.tx = NoTx
        /\ m.alloc = l.alloc /\ AckSet(m.queue) = AckSet(l.queue)
    BY <1>1, <1>4, Resets
  <2>2. m \in LinkT /\ m.tx.pdu.type = "none" /\ Seen(s, m, handled)
    BY <2>1, Constants DEF Side, Sound, Seen
  <2>3. /\ link' \in [Sides -> LinkT] /\ link'[s] = m
        /\ Idles(Other(s), link[Other(s)], link'[Other(s)])
    BY <1>2, <2>2, Turn
  <2> QED
    BY <1>3, <2>1, <2>2, <2>3, AloneStep
<1>5. CASE m # ResetLink(l)
  <2>1. m = Repeat(s, l) /\ ~(s = "prv" /\ l.closing >= 3) /\ ~(l.tx.tries >= Tries)
    BY <1>5 DEF Repeat
  <2>2. l.tx.tries < Tries
    BY <1>1, <2>1, ProvAssumption
  <2> HIDE DEF m
  <2>3. Idles(s, l, m) /\ m \in LinkT
    BY <1>1, <2>1, <2>2, RepeatIdles
  <2>4. /\ link' \in [Sides -> LinkT] /\ link'[s] = m
        /\ Idles(Other(s), link[Other(s)], link'[Other(s)])
    BY <1>2, <2>3, Turn
  <2>5. \A r \in Sides : Idles(r, link[r], link'[r])
    BY <2>3, <2>4 DEF Sides, Other
  <2> QED
    BY <1>3, <2>4, <2>5, Pair, IdleStep
<1> QED
  BY <1>4, <1>5

\* The DHKey is there.
LEMMA DhKeyReadyStep ==
  ASSUME Inv, NEW s \in Sides, DhKeyReady(s)
  PROVE  Inv' /\ AckStep /\ AgreeStep
<1> DEFINE g == link[s]
           l == [g EXCEPT !.dhkey = TRUE, !.busy = FALSE]
           k == [l EXCEPT !.send = FALSE]
<1>1. g \in LinkT /\ Side(s, g) /\ Seen(s, g, handled) /\ g.send \in BOOLEAN
  BY Pair DEF Inv, Typed, Side, Sound, LinkT
<1>2. PICK o \in Outcomes : link' = [link EXCEPT ![Other(s)].held = FALSE, ![s] =
               IF s = "prv" THEN SendConfirm(s, l, o)
               ELSE IF l.send THEN SendConfirm(s, k, o)
               ELSE l]
  BY DEF DhKeyReady
<1>3. UNCHANGED <<addr, links, success, met, handled>> /\ inprov' \in BOOLEAN /\ links' \in 0..MaxLinks
  BY DEF DhKeyReady, Inv, Typed
<1>4. l \in LinkT /\ k \in LinkT
  BY <1>1 DEF LinkT
<1>5. /\ l.tx = g.tx /\ l.active = g.active /\ l.expect = g.expect
      /\ l.send = g.send /\ l.confkey = g.confkey /\ l.given = g.given /\ l.alloc = g.alloc
      /\ l.id = g.id /\ l.prev = g.prev /\ l.closed = g.closed /\ l.closing = g.closing
      /\ l.queue = g.queue /\ l.conf = g.conf
  BY <1>1 DEF LinkT
<1>6. /\ k.active = g.active /\ k.expect = g.expect /\ k.send = FALSE
      /\ k.given = g.given /\ k.alloc = g.alloc
      /\ k.id = g.id /\ k.prev = g.prev /\ k.closed = g.closed /\ k.closing = g.closing
      /\ k.queue = g.queue
  BY <1>1 DEF LinkT
<1> HIDE DEF l, k, g
<1>7. ASSUME NEW j \in LinkT, NEW m, m = SendConfirm(s, j, o),
             link' = [link EXCEPT ![Other(s)].held = FALSE, ![s] = m],
             Steady(s, j), Blank(j), Single(j.queue), s = "dev" => ~j.send /\ g.send,
             j.active = g.active, j.alloc = g.alloc, j.id = g.id, j.prev = g.prev,
             j.closed = g.closed, j.queue = g.queue
      PROVE  Inv' /\ AckStep /\ AgreeStep
  <2>1. /\ Side(s, m) /\ m.id = j.id /\ m.prev = j.prev /\ m.alloc = j.alloc
        /\ AckSet(m.queue) = AckSet(j.queue)
        /\ m.tx.pdu.type \in {"none", "close", "confirm"}
        /\ (j.closed => m.closed) /\ (m.active => j.active)
        /\ m.active => m.expect = IF s = "dev" THEN "random" ELSE "confirm"
    BY <1>7, Confirms
  <2>2. m \in LinkT /\ Seen(s, m, handled)
    BY <1>1, <1>7, <2>1 DEF Side, Sound, Seen
  <2>3. /\ link' \in [Sides -> LinkT] /\ link'[s] = m
        /\ Idles(Other(s), link[Other(s)], link'[Other(s)])
    BY <1>7, <2>2, Turn
  <2>4. s = "dev" /\ m.active =>
          addr = 0 /\ ~(link["prv"].active /\ link["prv"].expect = "random")
    <3> SUFFICES ASSUME s = "dev", m.active
                 PROVE  addr = 0 /\ ~(link["prv"].active /\ link["prv"].expect = "random")
      OBVIOUS
    <3>1. g.active /\ g.send
      BY <1>7, <2>1
    <3> QED
      BY <3>1 DEF Inv, Taken, Offers, g
  <2>5. s = "prv" /\ m.active => m.expect \notin {"complete", "random"}
    BY <1>7, <2>1
  <2> QED
    BY <1>3, <1>7, <2>1, <2>2, <2>3, <2>4, <2>5, AloneStep DEF g
<1>8. Single(g.queue) /\ Steady(s, g) /\ Blank(g)
  BY <1>1 DEF Side, Sound
<1>9. CASE s = "prv"
  <2>1. Steady(s, l) /\ Blank(l) /\ Single(l.queue)
    BY <1>5, <1>8, <1>9 DEF Steady, Blank
  <2> QED
    BY <1>2, <1>4, <1>5, <1>7, <1>9, <2>1
<1>10. CASE s = "dev" /\ l.send
  <2>1. Steady(s, k) /\ Blank(k) /\ Single(k.queue)
    BY <1>6, <1>8, <1>10 DEF Steady, Blank
  <2> QED
    BY <1>2, <1>4, <1>5, <1>6, <1>7, <1>10, <2>1
<1>11. CASE s = "dev" /\ ~l.send
  <2>1. link' = [link EXCEPT ![Other(s)].held = FALSE, ![s] = l]
    BY <1>2, <1>11
  <2>2. Side(s, l)
    BY <1>1, <1>4, <1>5, <1>11 DEF Side, Sound, Steady, Sending, Blank
  <2>3. Idles(s, g, l)
    BY <1>5, <2>2 DEF Idles
  <2>4. /\ link' \in [Sides -> LinkT] /\ link'[s] = l
        /\ Idles(Other(s), link[Other(s)], link'[Other(s)])
    BY <1>4, <2>1, Turn
  <2>5. \A r \in Sides : Idles(r, link[r], link'[r])
    BY <2>3, <2>4 DEF Sides, Other, g
  <2> QED
    BY <1>3, <2>4, <2>5, Pair, IdleStep
<1> QED
  BY <1>9, <1>10, <1>11, Pair

\* The DHKey could not be computed.
LEMMA DhKeyFailsStep ==
  ASSUME Inv, NEW s \in Sides, DhKeyFails(s)
  PROVE  Inv' /\ AckStep /\ AgreeStep
<1> DEFINE g == link[s]
           l == [g EXCEPT !.busy = FALSE]
<1>1. link \in [Sides -> LinkT] /\ g \in LinkT /\ Side(s, g) /\ Seen(s, g, handled)
  BY Pair DEF Inv, Typed, Side, Sound
<1>2. PICK o : link' = [link EXCEPT ![Other(s)].held = FALSE, ![s] = CloseLink(s, l, TRUE, o)]
  BY <1>1, Pair DEF DhKeyFails
<1>3. UNCHANGED <<addr, links, success, met, handled>> /\ inprov' \in BOOLEAN /\ links' \in 0..MaxLinks
  BY DEF DhKeyFails, Inv, Typed
<1>4. l \in LinkT
  BY <1>1 DEF LinkT
<1>5. /\ l.dhkey = g.dhkey /\ l.expect = g.expect /\ l.send = g.send /\ l.given = g.given
      /\ l.alloc = g.alloc /\ l.id = g.id /\ l.prev = g.prev /\ l.closing = g.closing
      /\ l.queue = g.queue
  BY <1>1 DEF LinkT
<1> DEFINE m == CloseLink(s, l, TRUE, o)
<1> HIDE DEF l, g
<1>6. Shut(s, l, m)
  BY <1>1, <1>4, <1>5, Closes DEF Side, Sound
<1> HIDE DEF m
<1>7. Steady(s, l)
  BY <1>1, <1>5 DEF Side, Steady
<1>8. Side(s, m)
  BY <1>6, <1>7, ShutSide
<1>9. m \in LinkT /\ ~m.active /\ m.alloc = g.alloc /\ Seen(s, m, handled)
      /\ AckSet(m.queue) = AckSet(g.queue) /\ m.tx.pdu.type \in {"none", "close"}
  BY <1>5, <1>6 DEF Shut, Sound, Seen
<1>10. /\ link' \in [Sides -> LinkT] /\ link'[s] = m
       /\ Idles(Other(s), link[Other(s)], link'[Other(s)])
  BY <1>2, <1>9, Turn DEF m
<1> QED
  BY <1>3, <1>8, <1>9, <1>10, AloneStep DEF g

\* The provisioner opens a link.
LEMMA OpenStep ==
  ASSUME Inv, Open
  PROVE  Inv' /\ AckStep /\ AgreeStep
<1> DEFINE d == link["dev"]
           p == link["prv"]
           k == [p EXCEPT !.id = links']
<1>1. /\ link \in [Sides -> LinkT] /\ p \in LinkT /\ Side("prv", p) /\ Side("dev", d)
      /\ Seen("prv", p, handled)
  BY DEF Inv, Typed, Side, Sound
<1>2. ~p.active /\ links' \in 0..MaxLinks
  BY ProvAssumption DEF Open, Inv, Typed
<1>3. PICK o \in Outcomes : link' = [link EXCEPT !["prv"] =
            [CtlSend("prv", k, "open", CtlOk(o)) EXCEPT !.active = TRUE, !.expect = "invite"]]
  BY <1>1, Pair DEF Open
<1>4. UNCHANGED <<addr, success, met, handled>> /\ inprov' \in BOOLEAN
  BY DEF Open, Inv, Typed
<1>5. k \in LinkT
  <2>1. links' \in Id
    BY <1>2 DEF Id
  <2> QED
    BY <1>1, <2>1 DEF LinkT
<1>6. /\ k.active = p.active /\ k.send = p.send /\ k.confkey = p.confkey /\ k.given = p.given
      /\ k.alloc = p.alloc /\ k.prev = p.prev /\ k.closed = p.closed /\ k.queue = p.queue
  BY <1>1 DEF LinkT
<1> HIDE DEF k, p, d
<1> DEFINE c == CtlSend("prv", k, "open", CtlOk(o))
           m == [c EXCEPT !.active = TRUE, !.expect = "invite"]
<1>7. Sound(c) /\ Same(k, c) /\ c.tx.pdu.type \in {"none", "open"}
  <2>1. Single(k.queue) /\ CtlOk(o) \in BOOLEAN /\ "open" \in Ctl
    BY <1>1, <1>6 DEF Side, Sound, CtlOk, Ctl
  <2> QED
    BY <1>5, <2>1, Pair, CtlSends
<1> HIDE DEF c
<1>8. c \in LinkT
  BY <1>7 DEF Sound
<1>9. m \in LinkT
  BY <1>8 DEF LinkT, Types
<1>10. /\ m.active = TRUE /\ m.expect = "invite" /\ m.tx = c.tx /\ m.queue = c.queue
       /\ m.confkey = c.confkey /\ m.given = c.given /\ m.alloc = c.alloc
       /\ m.prev = c.prev /\ m.closed = c.closed
  BY <1>8 DEF LinkT
<1>11. link' = [link EXCEPT !["prv"] = m]
  BY <1>3 DEF c
<1> HIDE DEF m
<1>12. Side("prv", m)
  BY <1>7, <1>9, <1>10 DEF Side, Sound, Steady, Sending, Blank
<1>13. m.alloc = p.alloc /\ AckSet(m.queue) = AckSet(p.queue)
  BY <1>6, <1>7, <1>10 DEF Same, Kept
<1>14. Seen("prv", m, handled)
  BY <1>1, <1>2, <1>6, <1>7, <1>10 DEF Seen, Same, Kept, Side, Blank
<1>15. link' \in [Sides -> LinkT] /\ link'["prv"] = m /\ link'["dev"] = d
  BY <1>1, <1>9, <1>11 DEF Sides, d
<1>16. Idles("dev", d, link'["dev"])
  BY <1>1, <1>15 DEF Idles
<1>17. m.tx.pdu.type \in {"none", "open"}
  BY <1>7, <1>10
<1> QED
  BY <1>2, <1>4, <1>10, <1>12, <1>13, <1>14, <1>15, <1>16, <1>17, Pair, AloneStep DEF d, p

\* The provisioning timer of the device fires.
LEMMA ProvTimeoutStep ==
  ASSUME Inv, ProvTimeout
  PROVE  Inv' /\ AckStep /\ AgreeStep
<1> DEFINE d == link["dev"]
           p == link["prv"]
<1>1. /\ link \in [Sides -> LinkT] /\ Side("dev", d) /\ Side("prv", p)
      /\ Seen("dev", d, handled) /\ d \in LinkT
  BY DEF Inv, Typed, Side, Sound
<1>2. /\ addr' = 0 /\ inprov' \in BOOLEAN /\ UNCHANGED <<links, success, met, handled>>
      /\ links' \in 0..MaxLinks
  BY DEF ProvTimeout, Inv, Typed
<1>3. CASE d.active
  <2> DEFINE m == ResetLink(d)
  <2>1. link' = [link EXCEPT !["dev"] = m]
    BY <1>3 DEF ProvTimeout
  <2>2. /\ Side("dev", m) /\ ~m.active /\ m.prev = XACT_NVAL /\ m.tx = NoTx
        /\ m.alloc = d.alloc /\ AckSet(m.queue) = AckSet(d.queue)
    BY <1>1, Pair, Resets
  <2> HIDE DEF m
  <2>3. m \in LinkT /\ m.tx.pdu.type = "none" /\ Seen("dev", m, handled)
    BY <2>2, Constants DEF Side, Sound, Seen
  <2>4. link' \in [Sides -> LinkT] /\ link'["dev"] = m /\ link'["prv"] = p
    BY <1>1, <2>1, <2>3 DEF Sides
  <2>5. Idles("prv", p, link'["prv"])
    BY <1>1, <2>4 DEF Idles
  <2> HIDE DEF d, p
  <2> QED
    BY <1>2, <2>2, <2>3, <2>4, <2>5, Pair, AloneStep DEF d, p
<1>4. CASE ~d.active
  <2>1. link' = link
    BY <1>1, <1>4 DEF ProvTimeout
  <2>2. d.tx.pdu.type # "complete"
    BY <1>1, <1>4 DEF Side, Sending
  <2>3. Typed'
    <3>1. p.alloc \in Nat \ {0}
      BY <1>1 DEF Side, Sound, LinkT, Alloc
    <3>2. 0 < p.alloc
      BY <3>1
    <3> QED
      BY <1>2, <2>1, <3>2 DEF Inv, Typed
  <2>4. Taken(link["dev"], link["prv"], addr)'
    BY <1>2 DEF Taken
  <2>5. Answers(link["dev"], link["prv"], addr)'
    BY <2>1, <2>2 DEF Answers
  <2>6. Seen("dev", link["dev"], handled)' /\ Seen("prv", link["prv"], handled)'
    BY <1>2, <2>1 DEF Inv
  <2>7. Offers(link["dev"], link["prv"])'
    BY <2>1 DEF Inv
  <2> QED
    BY <1>2, <2>1, <2>3, <2>4, <2>5, <2>6, <2>7 DEF Inv, AckStep, AgreeStep
<1> QED
  BY <1>3, <1>4

\* The timer stops, or nothing happens.
LEMMA StutterStep ==
  ASSUME Inv, UNCHANGED <<link, addr, links, success, met, handled>>, inprov' \in BOOLEAN
  PROVE  Inv' /\ AckStep /\ AgreeStep
<1>1. /\ link' \in [Sides -> LinkT]
      /\ Idles("dev", link["dev"], link'["dev"]) /\ Idles("prv", link["prv"], link'["prv"])
  BY DEF Inv, Typed, Idles
<1> QED
  BY <1>1, IdleStep

\* Every step keeps the invariant and does what the two action properties say.
LEMMA EveryStep ==
  ASSUME Inv, [Next]_vars
  PROVE  Inv' /\ AckStep /\ AgreeStep
<1>1. ASSUME NEW s \in Sides, Deliver(s)
      PROVE  Inv' /\ AckStep /\ AgreeStep
  BY <1>1, Pair, DeliverToDev, DeliverToPrv
<1>2. ASSUME NEW s \in Sides, Lose(s)
      PROVE  Inv' /\ AckStep /\ AgreeStep
  BY <1>2, LoseStep
<1>3. ASSUME NEW s \in Sides, Retransmit(s)
      PROVE  Inv' /\ AckStep /\ AgreeStep
  BY <1>3, RetransmitStep
<1>4. ASSUME NEW s \in Sides, DhKeyReady(s)
      PROVE  Inv' /\ AckStep /\ AgreeStep
  BY <1>4, DhKeyReadyStep
<1>5. CASE Open
  BY <1>5, OpenStep
<1>6. CASE ProvTimeout
  BY <1>6, ProvTimeoutStep
<1>7. CASE AppKeyAdd
  BY <1>7, StutterStep DEF AppKeyAdd
<1>8. ASSUME NEW s \in Sides, DhKeyFails(s)
      PROVE  Inv' /\ AckStep /\ AgreeStep
  BY <1>8, DhKeyFailsStep
<1>9. CASE UNCHANGED vars
  <2>1. UNCHANGED <<link, addr, links, success, met, handled>> /\ inprov' \in BOOLEAN
    BY <1>9 DEF vars, Inv, Typed
  <2> QED
    BY <2>1, StutterStep
<1> QED
  BY <1>1, <1>2, <1>3, <1>4, <1>5, <1>6, <1>7, <1>8, <1>9 DEF Next

\* A side as it starts.
LEMMA FreshSide ==
  ASSUME NEW s \in Sides
  PROVE  Side(s, Fresh) /\ Fresh.alloc = 1 /\ Fresh.active = FALSE /\ Fresh.prev = XACT_NVAL
           /\ Fresh.tx = NoTx
<1>1. /\ Fresh.active = FALSE /\ Fresh.prev = XACT_NVAL /\ Fresh.tx = NoTx /\ Fresh.alloc = 1
      /\ Fresh.send = FALSE /\ Fresh.expect = "invite" /\ Fresh.queue = <<>> /\ Fresh.closing = 0
  BY DEF Fresh
<1>2. Fresh \in LinkT
  BY FreshType
<1>3. DOMAIN Fresh.queue = {}
  BY <1>1
<1>4. Fresh.tx.pdu.type = "none"
  BY <1>1, Constants
<1>5. Sound(Fresh)
  BY <1>2, <1>3 DEF Sound, Current, Single
<1> QED
  BY <1>1, <1>4, <1>5 DEF Side, Steady, Sending, Blank

\* The invariant holds at the start.
LEMMA InitInv == Init => Inv
<1> SUFFICES ASSUME Init
             PROVE  Inv
  OBVIOUS
<1>1. /\ Side("dev", Fresh) /\ Side("prv", Fresh) /\ Fresh.alloc = 1
      /\ Fresh.active = FALSE /\ Fresh.prev = XACT_NVAL /\ Fresh \in LinkT
  BY Pair, FreshSide DEF Side, Sound
<1>2. link["dev"] = Fresh /\ link["prv"] = Fresh /\ link \in [Sides -> LinkT]
  BY <1>1 DEF Init, Sides
<1>3. addr = 0 /\ success = 0 /\ inprov = FALSE /\ links = 0
  BY DEF Init
<1>4. links \in 0..MaxLinks
  BY <1>3, ProvAssumption
<1>5. addr \in Nat /\ addr < Fresh.alloc /\ success \in Nat /\ success < Fresh.alloc
  BY <1>1, <1>3
<1> HIDE DEF Init
<1> QED
  BY <1>1, <1>2, <1>3, <1>4, <1>5 DEF Inv, Typed, Taken, Answers, Offers, Seen

\* The invariant holds.
LEMMA Invariance == Spec => []Inv
<1>1. Inv /\ [Next]_vars => Inv'
  BY EveryStep
<1> QED
  BY <1>1, InitInv, PTL DEF Spec

-----------------------------------------------------------------------------
\* Only one acknowledgement has the callback of the pending one.
LEMMA OnePending ==
  ASSUME NEW l, l.queue \in Seq(AdvT), Single(l.queue)
  PROVE  Cardinality(PendingAck(l)) <= 1
<1> DEFINE q == l.queue
           P == {k \in DOMAIN q : q[k].kind = "ack" /\ q[k].seg = 1}
<1>1. PendingAck(l) = {q[n].xact : n \in P}
  BY DEF PendingAck
<1>2. \A m, n \in P : m = n
  BY DEF Single, Pending
<1> HIDE DEF P
<1>3. CASE P = {}
  <2>1. PendingAck(l) = {}
    BY <1>1, <1>3
  <2>2. Cardinality(PendingAck(l)) = 0
    BY <2>1, FS_EmptySet
  <2> QED
    BY <2>2
<1>4. CASE P # {}
  <2>1. PICK n \in P : TRUE
    BY <1>4
  <2>2. PendingAck(l) = {q[n].xact}
    BY <1>1, <1>2, <2>1
  <2>3. Cardinality(PendingAck(l)) = 1
    BY <2>2, FS_Singleton
  <2> QED
    BY <2>3
<1> QED
  BY <1>3, <1>4

\* What the invariant says of the types.
LEMMA InvTypes == Inv => TypeOK
<1> SUFFICES ASSUME Inv
             PROVE  TypeOK
  OBVIOUS
<1>1. ASSUME NEW s \in Sides, NEW l, l = link[s]
      PROVE  /\ l.active \in BOOLEAN /\ l.id \in 0..MaxLinks
             /\ l.expect \in Types
             /\ l.missing \subseteq 1..2 /\ l.tx.tries \in 0..Tries
             /\ {l.dhkey, l.busy, l.send, l.await} \subseteq BOOLEAN
             /\ l.inputs \cup l.confkey \cup l.conf
                  \subseteq {"caps", "start", "prv key", "dev key"}
             /\ l.closing \in 0..3 /\ l.txid \in 0..255
             /\ Cardinality(PendingAck(l)) <= 1
             /\ \A n \in DOMAIN l.queue :
                  /\ l.queue[n].kind \in Ctl \cup {"seg", "ack", "cancelled"}
                  /\ l.queue[n].kind = "seg" => l.queue[n].seg <= LastSeg(l.queue[n].pdu.type)
  <2>1. Sound(l) /\ l \in LinkT
    BY <1>1, Pair DEF Inv, Typed, Side, Sound
  <2>2. /\ l.active \in BOOLEAN /\ l.id \in Id /\ l.expect \in Types /\ l.missing \in Segs
        /\ l.tx \in TxT /\ l.dhkey \in BOOLEAN /\ l.busy \in BOOLEAN /\ l.send \in BOOLEAN
        /\ l.await \in BOOLEAN /\ l.inputs \in Key /\ l.confkey \in Key /\ l.conf \in Key
        /\ l.closing \in Count /\ l.txid \in Byte /\ l.queue \in Queue
    BY <2>1 DEF LinkT
  <2>3. l.queue \in Seq(AdvT) /\ Single(l.queue) /\ Current(l.queue, l.tx)
    BY <2>1, <2>2 DEF Sound, Queue
  <2>4. Cardinality(PendingAck(l)) <= 1
    BY <2>3, OnePending
  <2>5. l.tx.tries \in 0..Tries
    BY <2>2 DEF TxT
  <2>6. l.inputs \cup l.confkey \cup l.conf \subseteq {"caps", "start", "prv key", "dev key"}
    BY <2>2 DEF Key, Parts
  <2>7. \A n \in DOMAIN l.queue :
          /\ l.queue[n].kind \in Ctl \cup {"seg", "ack", "cancelled"}
          /\ l.queue[n].kind = "seg" => l.queue[n].seg <= LastSeg(l.queue[n].pdu.type)
    <3> TAKE n \in DOMAIN l.queue
    <3>1. l.queue[n] \in AdvT
      BY <2>3
    <3>2. l.queue[n].kind \in Ctl \cup {"seg", "ack", "cancelled"}
      BY <3>1 DEF AdvT
    <3>3. l.queue[n].kind = "seg" => l.queue[n].seg <= LastSeg(l.queue[n].pdu.type)
      BY <2>3 DEF Current
    <3> QED
      BY <3>2, <3>3
  <2>8. /\ l.id \in 0..MaxLinks /\ l.missing \subseteq 1..2
        /\ l.closing \in 0..3 /\ l.txid \in 0..255
    BY <2>2 DEF Id, Segs, Count, Byte
  <2>9. {l.dhkey, l.busy, l.send, l.await} \subseteq BOOLEAN
    BY <2>2
  <2> QED
    BY <2>2, <2>4, <2>5, <2>6, <2>7, <2>8, <2>9
<1>2. {addr, success} \subseteq 0..link["prv"].alloc - 1
  <2> DEFINE n == link["prv"].alloc
  <2>1. addr \in Nat /\ addr < n /\ success \in Nat /\ success < n /\ n \in Nat
    BY DEF Inv, Typed, Side, Sound, LinkT, Alloc
  <2> HIDE DEF n
  <2>2. addr \in 0..n - 1 /\ success \in 0..n - 1
    BY <2>1
  <2> QED
    BY <2>2 DEF n
<1>3. inprov \in BOOLEAN /\ links \in 0..MaxLinks
  BY DEF Inv, Typed
<1> QED
  BY <1>1, <1>2, <1>3 DEF TypeOK

(***************************************************************************)
(* Whatever is lost, fails or times out, the state of both links keeps its *)
(* type, pending_ack is one acknowledgement, a segment is one of its PDU,  *)
(* and the addresses in use were allocated (prov_link, gen_prov_ack_send). *)
(***************************************************************************)
THEOREM ProvisioningTypes == Spec => []TypeOK
BY Invariance, InvTypes, PTL

(***************************************************************************)
(* gen_prov_start and prov_msg_recv acknowledge only transactions that the *)
(* side has handled, for any number of links, losses and missing buffers.  *)
(***************************************************************************)
THEOREM AcksHandled == Spec => AckMeansHandled
<1>1. Inv /\ [Next]_vars =>
        [\A s \in Sides :
           ~link[s].closed =>
             \A a \in Acks(link'[s]) \ Acks(link[s]) : a.xact # XACT_NVAL =>
               [by |-> s, link |-> a.link, xact |-> a.xact] \in handled']_vars
  <2> SUFFICES ASSUME Inv, [Next]_vars
               PROVE  \A s \in Sides :
                        ~link[s].closed =>
                          \A a \in Acks(link'[s]) \ Acks(link[s]) : a.xact # XACT_NVAL =>
                            [by |-> s, link |-> a.link, xact |-> a.xact] \in handled'
    OBVIOUS
  <2>1. AckStep
    BY EveryStep
  <2> QED
    BY <2>1 DEF AckStep, Acks, AckSet
<1> QED
  BY <1>1, Invariance, PTL DEF Spec, AckMeansHandled

(***************************************************************************)
(* When prov_random of the provisioner finds the device verified, and when *)
(* prov_complete closes the link, both have the same key; then the device  *)
(* is a node with the address it was given.  With a network key or not.    *)
(***************************************************************************)
THEOREM Agrees == Spec => Agreement
<1>1. Inv /\ [Next]_vars =>
        [/\ (met' # met \/ success' # success) =>
              link'["dev"].confkey = link'["prv"].confkey
         /\ success' # success => addr' = success']_vars
  <2> SUFFICES ASSUME Inv, [Next]_vars
               PROVE  /\ (met' # met \/ success' # success) =>
                           link'["dev"].confkey = link'["prv"].confkey
                      /\ success' # success => addr' = success'
    OBVIOUS
  <2>1. AgreeStep
    BY EveryStep
  <2> QED
    BY <2>1 DEF AgreeStep
<1> QED
  BY <1>1, Invariance, PTL DEF Spec, Agreement

-----------------------------------------------------------------------------
(***************************************************************************)
(* The first link, while no buffer was missing and no timer fired: how far *)
(* both sides are in the protocol, and what is under way between them.     *)
(***************************************************************************)
\* Nothing is being sent.
Mute(l) == l.tx.pdu.type = "none"

\* The last PDU of l is transaction x; it is sent until it is acknowledged.
Told(l, type, x) == Mute(l) \/ (l.tx.pdu.type = type /\ l.tx.xact = x)

At(l, type, x, expect, prev, inputs) ==
  Told(l, type, x) /\ l.expect = expect /\ l.prev = prev /\ l.inputs = inputs

\* The provisioner, by its last message.
PrvAt(p, type, x, expect, prev, inputs) ==
  At(p, type, x, expect, prev, inputs) /\ p.txid = x + 1

POpen(p) ==
  /\ p.tx.pdu.type = "open" /\ p.expect = "invite" /\ p.prev = XACT_NVAL
  /\ p.inputs = {} /\ p.txid = 0 /\ ~p.busy /\ ~p.await

PInvite(p) == PrvAt(p, "invite", 0, "caps", XACT_NVAL, {}) /\ ~p.busy /\ ~p.await

PStart(p) ==
  PrvAt(p, "start", 1, "caps", 128, {"caps", "start"}) /\ ~p.busy /\ p.await /\ ~Mute(p)

PPubKey(p) ==
  PrvAt(p, "pubkey", 2, "pubkey", 128, {"caps", "start", "prv key"}) /\ ~p.busy /\ ~p.await

PComputes(p) == PrvAt(p, "pubkey", 2, "pubkey", 129, Parts) /\ p.busy /\ ~p.await

PConfirm(p) ==
  /\ PrvAt(p, "confirm", 3, "confirm", 129, Parts) /\ ~p.busy /\ ~p.await
  /\ p.confkey = Parts /\ (~Mute(p) => p.tx.pdu.key = Parts)

PRandom(p) ==
  /\ PrvAt(p, "random", 4, "random", 130, Parts) /\ ~p.busy /\ ~p.await
  /\ p.confkey = Parts /\ p.conf = Parts

PData(p) ==
  /\ PrvAt(p, "data", 5, "complete", 131, Parts) /\ ~p.busy /\ ~p.await
  /\ p.given # 0 /\ (~Mute(p) => p.tx.pdu.key = Parts)

\* The device, likewise.
DevAt(d, type, x, expect, prev, inputs) ==
  At(d, type, x, expect, prev, inputs) /\ d.txid = x /\ d.active

NoKey(d) == ~d.busy /\ ~d.send /\ ~d.dhkey

DIdle(d) ==
  /\ ~d.active /\ Mute(d) /\ d.queue = <<>> /\ d.expect = "invite"
  /\ d.prev = XACT_NVAL /\ d.inputs = {} /\ d.txid = 0 /\ NoKey(d)

DAck(d) ==
  /\ d.active /\ d.tx.pdu.type = "link ack" /\ d.expect = "invite"
  /\ d.prev = XACT_NVAL /\ d.inputs = {} /\ d.txid = 0 /\ NoKey(d)

DCaps(d) == DevAt(d, "caps", 128, "start", 0, {"caps"}) /\ NoKey(d)

DStart(d) == DevAt(d, "caps", 128, "pubkey", 1, {"caps", "start"}) /\ NoKey(d)

DPubKey(d) ==
  DevAt(d, "pubkey", 129, "confirm", 2, Parts) /\ ~d.send /\ d.busy = ~d.dhkey

DHolds(d) ==
  /\ DevAt(d, "none", 129, "confirm", 3, Parts) /\ Mute(d)
  /\ d.send /\ d.busy /\ ~d.dhkey /\ d.conf = Parts

DConfirm(d) ==
  /\ DevAt(d, "confirm", 130, "random", 3, Parts) /\ ~d.send /\ ~d.busy
  /\ d.conf = Parts /\ d.confkey = Parts /\ (~Mute(d) => d.tx.pdu.key = Parts)

DRandom(d) ==
  /\ DevAt(d, "random", 131, "data", 4, Parts) /\ ~d.send /\ ~d.busy
  /\ d.conf = Parts /\ d.confkey = Parts

DComplete(d) == DevAt(d, "complete", 132, "invite", 5, Parts) /\ ~d.send /\ ~d.busy

\* How far both are: what was not yet heard is still being sent.
Stage(p, d) ==
  \/ POpen(p) /\ (DIdle(d) \/ DAck(d))
  \/ PInvite(p) /\ ((DAck(d) /\ ~Mute(p)) \/ (DCaps(d) /\ ~Mute(d)))
  \/ PStart(p) /\ (DCaps(d) \/ DStart(d))
  \/ PPubKey(p) /\ ((DStart(d) /\ ~Mute(p)) \/ (DPubKey(d) /\ ~Mute(d)))
  \/ PComputes(p) /\ DPubKey(d)
  \/ PConfirm(p) /\ ((DPubKey(d) /\ ~Mute(p)) \/ DHolds(d) \/ (DConfirm(d) /\ ~Mute(d)))
  \/ PRandom(p) /\ ((DConfirm(d) /\ ~Mute(p)) \/ (DRandom(d) /\ ~Mute(d)))
  \/ PData(p) /\ ((DRandom(d) /\ ~Mute(p)) \/ (DComplete(d) /\ ~Mute(d)))

\* What is in queue q: a segment, an acknowledgement, a control message.
HasSeg(q, n) == \E i \in DOMAIN q : q[i].kind = "seg" /\ q[i].seg = n

HasAck(q, x) == \E a \in AckSet(q) : a.xact = x

HasCtl(q, op) == \E i \in DOMAIN q : q[i].kind = op

\* Adverts are of this link and this transaction; a segment is followed by the
\* next, as only the first advert is ever taken.
Lined(q, x) ==
  \A i \in DOMAIN q :
    /\ q[i].kind # "cancelled" => q[i].link = 1
    /\ q[i].kind = "seg" => q[i].pdu.type \in Types /\ q[i].xact = x
    /\ q[i].kind = "seg" /\ q[i].seg < LastSeg(q[i].pdu.type) =>
         i + 1 \in DOMAIN q /\ q[i + 1].kind = "seg" /\ q[i + 1].seg = q[i].seg + 1

\* No transaction is acknowledged that was not the last one, or before it.
Settled(l) == \A a \in AckSet(l.queue) : l.prev # XACT_NVAL /\ a.xact <= l.prev

Fit(l) ==
  /\ Lined(l.queue, l.tx.xact) /\ Settled(l) /\ (Mute(l) => l.tx = NoTx)
  /\ l.closing = 0 /\ (l.active => l.id = 1)

(***************************************************************************)
(* Each try of a PDU but the first was paid for by a loss; z is the number *)
(* of losses.  If there is none left, nothing was lost since the last try  *)
(* and the PDU or its answer is under way (ok).                            *)
(***************************************************************************)
Paid(l, z, ok) == l.tx.tries < z \/ (l.tx.tries = z /\ ok)

\* The PDU that l sends is not yet, or already, taken by m.
Unheard(l, m, z) ==
  /\ m.prev = XACT_NVAL \/ m.prev < l.tx.xact
  /\ m.missing = {} \/ (m.rxid = l.tx.xact /\ m.missing \subseteq 1..LastSeg(l.tx.pdu.type))
  /\ Paid(l, z, HasSeg(l.queue, 0)
                  \/ (m.missing # {} /\ \A n \in m.missing : HasSeg(l.queue, n)))

Heard(l, m, z) ==
  /\ m.missing = {}
  /\ Paid(l, z, (\E n \in 0..2 : HasSeg(l.queue, n)) \/ HasAck(m.queue, l.tx.xact))

Flow(l, m, z) ==
  /\ Mute(l) => m.missing = {}
  /\ l.tx.pdu.type \in Types =>
       IF m.prev = l.tx.xact THEN Heard(l, m, z) ELSE Unheard(l, m, z)

\* The messages that nothing acknowledges are repeated in turns.
Opening(p, d, z) ==
  p.tx.pdu.type = "open" =>
    /\ d.missing = {}
    /\ Paid(p, z, IF d.active THEN HasCtl(d.queue, "link ack") \/ p.held
                              ELSE HasCtl(p.queue, "open"))

Acking(d, p, z) ==
  d.tx.pdu.type = "link ack" =>
    /\ p.missing = {}
    /\ Paid(d, z, IF p.tx.pdu.type = "open" THEN HasCtl(d.queue, "link ack")
                                            ELSE HasSeg(p.queue, 0) \/ d.held)

Flows(p, d, z) == Flow(p, d, z) /\ Flow(d, p, z) /\ Opening(p, d, z) /\ Acking(d, p, z)

Track(p, d, z) == p.active /\ Fit(p) /\ Fit(d) /\ Stage(p, d) /\ Flows(p, d, z)

\* Nothing but losses has happened.
Calm == lost <= Tries /\ fails = 0 /\ ~fired

\* Before the first link, and on it.
Before ==
  links = 0 => link["dev"] = Fresh /\ link["prv"] = Fresh /\ addr = 0
                 /\ success = 0 /\ met = 0

During ==
  links = 1 /\ Calm =>
    IF ~Over
      THEN Track(link["prv"], link["dev"], lost) /\ (~link["dev"].active => addr = 0)
      ELSE ~link["prv"].active

Tracked == lost \in Nat /\ fails \in Nat /\ Before /\ During

-----------------------------------------------------------------------------
\* The number of segments is small.
LEMMA Short == \A t : LastSeg(t) \in 0..2
BY DEF LastSeg

\* What is cancelled needs no order.
LEMMA LinedCancel ==
  ASSUME NEW q \in Seq(AdvT), NEW x, Lined(q, x), NEW y
  PROVE  Lined(Cancel(q), y)
<1> DEFINE c == Cancel(q)
<1>1. DOMAIN q = 1..Len(q) /\ Len(q) \in Nat
  BY LenProperties
<1>2. DOMAIN c = DOMAIN q /\ \A i \in DOMAIN q : c[i] = IF IsAck(q[i]) THEN q[i] ELSE Cancelled
  BY DEF Cancel
<1>3. Cancelled.kind = "cancelled"
  BY DEF Cancelled
<1> HIDE DEF c
<1>4. \A i \in DOMAIN c : (c[i].kind = "ack" /\ c[i] = q[i]) \/ c[i].kind = "cancelled"
  BY <1>2, <1>3 DEF IsAck
<1>5. \A i \in DOMAIN c : c[i].kind # "seg" /\ (c[i].kind # "cancelled" => c[i].link = 1)
  BY <1>2, <1>4 DEF Lined
<1>6. QED
  BY <1>5 DEF Lined, c

\* The adverts of a PDU are in order.
LEMMA LinedAdverts ==
  ASSUME NEW l \in LinkT, l.id = 1, NEW tx \in TxT, tx.pdu.type \in Types \cup Ctl
  PROVE  LET r == Adverts(l, tx.xact, tx.pdu)
         IN /\ r \in Seq(AdvT) /\ Lined(r, tx.xact)
            /\ tx.pdu.type \in Types => HasSeg(r, 0)
            /\ tx.pdu.type \in Ctl => HasCtl(r, tx.pdu.type)
<1> DEFINE p == tx.pdu
           x == tx.xact
           r == Adverts(l, x, p)
<1>0. r \in Seq(AdvT)
  BY Carries
<1>1. CASE p.type \in Ctl
  <2> DEFINE a == [kind |-> p.type, link |-> l.id, xact |-> 0, seg |-> 0, pdu |-> p]
  <2>1. r = <<a>>
    BY <1>1 DEF Adverts
  <2>2. a.kind = p.type /\ a.link = 1 /\ a.kind # "seg" /\ p.type \notin Types
    BY <1>1 DEF Ctl, Types
  <2> HIDE DEF a
  <2>3. DOMAIN r = {1} /\ r[1] = a
    BY <2>1
  <2>4. Lined(r, x)
    BY <2>2, <2>3 DEF Lined
  <2>5. HasCtl(r, p.type)
    BY <2>2, <2>3 DEF HasCtl
  <2>6. QED
    BY <1>0, <2>2, <2>4, <2>5
<1>2. CASE p.type \in Types
  <2> DEFINE k == LastSeg(p.type)
             e(n) == [kind |-> "seg", link |-> l.id, xact |-> x, seg |-> n - 1, pdu |-> p]
  <2>0. p.type \notin Ctl
    BY <1>2 DEF Ctl, Types
  <2>1. k \in 0..2
    BY Short
  <2>2. r = [n \in 1..k + 1 |-> e(n)]
    BY <2>0 DEF Adverts
  <2>3. \A n \in 1..k + 1 : /\ e(n).kind = "seg" /\ e(n).link = 1 /\ e(n).xact = x
                            /\ e(n).seg = n - 1 /\ e(n).pdu = p
    OBVIOUS
  <2> HIDE DEF e
  <2>4. DOMAIN r = 1..k + 1 /\ \A n \in 1..k + 1 : r[n] = e(n)
    BY <2>2
  <2>5. Lined(r, x)
    <3> SUFFICES ASSUME NEW i \in 1..k + 1
                 PROVE  /\ r[i].link = 1 /\ r[i].pdu.type \in Types /\ r[i].xact = x
                        /\ r[i].seg < LastSeg(r[i].pdu.type) =>
                             i + 1 \in DOMAIN r /\ r[i + 1].kind = "seg" /\ r[i + 1].seg = r[i].seg + 1
      BY <2>4 DEF Lined
    <3>1. r[i].link = 1 /\ r[i].pdu = p /\ r[i].xact = x /\ r[i].seg = i - 1
      BY <2>3, <2>4
    <3>2. ASSUME i - 1 < k
          PROVE  i + 1 \in 1..k + 1 /\ i + 1 - 1 = (i - 1) + 1
      BY <2>1, <3>2
    <3>3. ASSUME i - 1 < k
          PROVE  i + 1 \in DOMAIN r /\ r[i + 1].kind = "seg" /\ r[i + 1].seg = (i - 1) + 1
      BY <2>3, <2>4, <3>2, <3>3
    <3>4. LastSeg(r[i].pdu.type) = k
      BY <3>1
    <3> HIDE DEF k
    <3>5. QED
      BY <1>2, <3>1, <3>3, <3>4
  <2>6. 1 \in 1..k + 1 /\ 1 - 1 = 0
    BY <2>1
  <2>7. HasSeg(r, 0)
    BY <2>3, <2>4, <2>6 DEF HasSeg
  <2>8. QED
    BY <1>0, <2>0, <2>5, <2>7
<1>3. QED
  BY <1>1, <1>2

\* They stay in order behind others.
LEMMA LinedConcat ==
  ASSUME NEW q \in Seq(AdvT), NEW r \in Seq(AdvT), NEW x, Lined(q, x), Lined(r, x)
  PROVE  /\ Lined(q \o r, x)
         /\ \A n : HasSeg(r, n) => HasSeg(q \o r, n)
         /\ \A op : HasCtl(r, op) => HasCtl(q \o r, op)
<1> DEFINE c == q \o r
           k == Len(q)
           j == Len(r)
<1>1. k \in Nat /\ DOMAIN q = 1..k /\ j \in Nat /\ DOMAIN r = 1..j
  BY LenProperties
<1>2. /\ Len(c) = k + j /\ c \in Seq(AdvT)
      /\ \A i \in 1..k + j : c[i] = IF i <= k THEN q[i] ELSE r[i - k]
  BY ConcatProperties
<1>3. DOMAIN c = 1..k + j
  BY <1>2, LenProperties
<1> HIDE DEF c, k, j
<1>4. \A i \in DOMAIN q : i \in DOMAIN c /\ c[i] = q[i]
  BY <1>1, <1>2, <1>3
<1>5. \A i \in DOMAIN r : i + k \in DOMAIN c /\ c[i + k] = r[i]
  <2>1. TAKE i \in DOMAIN r
  <2> DEFINE u == i + k
  <2>2. u \in 1..k + j /\ ~(u <= k) /\ u - k = i
    BY <1>1
  <2> HIDE DEF u
  <2>3. c[u] = r[i] /\ u \in DOMAIN c
    BY <1>2, <1>3, <2>2
  <2>4. QED
    BY <2>3 DEF u
<1>6. Lined(c, x)
  <2> SUFFICES ASSUME NEW i \in DOMAIN c
               PROVE  /\ c[i].kind # "cancelled" => c[i].link = 1
                      /\ c[i].kind = "seg" => c[i].pdu.type \in Types /\ c[i].xact = x
                      /\ c[i].kind = "seg" /\ c[i].seg < LastSeg(c[i].pdu.type) =>
                           i + 1 \in DOMAIN c /\ c[i + 1].kind = "seg" /\ c[i + 1].seg = c[i].seg + 1
    BY DEF Lined
  <2>1. CASE i \in DOMAIN q
    <3>1. c[i] = q[i]
      BY <1>4, <2>1
    <3>2. i + 1 \in DOMAIN q => i + 1 \in DOMAIN c /\ c[i + 1] = q[i + 1]
      BY <1>4
    <3>3. QED
      BY <2>1, <3>1, <3>2 DEF Lined
  <2>2. CASE i \notin DOMAIN q
    <3> DEFINE g == i - k
    <3>1. g \in DOMAIN r /\ g + k = i /\ (g + 1) + k = i + 1
      BY <1>1, <1>3, <2>2
    <3> HIDE DEF g
    <3>2. c[i] = r[g]
      BY <1>5, <3>1
    <3>3. g + 1 \in DOMAIN r => i + 1 \in DOMAIN c /\ c[i + 1] = r[g + 1]
      BY <1>5, <3>1
    <3>4. QED
      BY <3>1, <3>2, <3>3 DEF Lined
  <2>3. QED
    BY <2>1, <2>2
<1>7. \A n : HasSeg(r, n) => HasSeg(c, n)
  BY <1>5, Zenon DEF HasSeg
<1>8. \A op : HasCtl(r, op) => HasCtl(c, op)
  BY <1>5, Zenon DEF HasCtl
<1>9. QED
  BY <1>6, <1>7, <1>8 DEF c

\* An acknowledgement may follow them.
LEMMA LinedAppend ==
  ASSUME NEW q \in Seq(AdvT), NEW a \in AdvT, NEW x, Lined(q, x),
         a.kind = "ack", a.link = 1
  PROVE  /\ Lined(Append(q, a), x)
         /\ \A n : HasSeg(q, n) => HasSeg(Append(q, a), n)
         /\ \A op : HasCtl(q, op) => HasCtl(Append(q, a), op)
         /\ a \in AckSet(Append(q, a))
<1> DEFINE c == Append(q, a)
           k == Len(q)
<1>1. k \in Nat /\ DOMAIN q = 1..k
  BY LenProperties
<1>2. /\ c \in Seq(AdvT) /\ Len(c) = k + 1
      /\ \A i \in 1..k : c[i] = q[i]
      /\ c[k + 1] = a
  BY AppendProperties
<1>3. DOMAIN c = 1..k + 1
  BY <1>2, LenProperties
<1> HIDE DEF c, k
<1>4. \A i \in DOMAIN q : i \in DOMAIN c /\ c[i] = q[i]
  BY <1>1, <1>2, <1>3
<1>5. k + 1 \in DOMAIN c /\ \A i \in DOMAIN c : i \in DOMAIN q \/ i = k + 1
  BY <1>1, <1>3
<1>6. Lined(c, x)
  <2> SUFFICES ASSUME NEW i \in DOMAIN c
               PROVE  /\ c[i].kind # "cancelled" => c[i].link = 1
                      /\ c[i].kind = "seg" => c[i].pdu.type \in Types /\ c[i].xact = x
                      /\ c[i].kind = "seg" /\ c[i].seg < LastSeg(c[i].pdu.type) =>
                           i + 1 \in DOMAIN c /\ c[i + 1].kind = "seg" /\ c[i + 1].seg = c[i].seg + 1
    BY DEF Lined
  <2>1. CASE i \in DOMAIN q
    <3>1. c[i] = q[i]
      BY <1>4, <2>1
    <3>2. i + 1 \in DOMAIN q => i + 1 \in DOMAIN c /\ c[i + 1] = q[i + 1]
      BY <1>4
    <3>3. QED
      BY <2>1, <3>1, <3>2 DEF Lined
  <2>2. CASE i = k + 1
    BY <1>2, <2>2
  <2>3. QED
    BY <1>5, <2>1, <2>2
<1>7. \A n : HasSeg(q, n) => HasSeg(c, n)
  BY <1>4, Zenon DEF HasSeg
<1>8. \A op : HasCtl(q, op) => HasCtl(c, op)
  BY <1>4, Zenon DEF HasCtl
<1>9. a \in AckSet(c)
  <2>1. a = c[k + 1] /\ IsAck(a)
    BY <1>2 DEF IsAck
  <2>2. QED
    BY <1>5, <2>1, Zenon DEF AckSet
<1>10. QED
  BY <1>6, <1>7, <1>8, <1>9 DEF c

\* The first advert leaves; what else there was is still there.
LEMMA LinedTail ==
  ASSUME NEW q \in Seq(AdvT), NEW x, Lined(q, x), q # <<>>, NEW tx, Current(q, tx)
  PROVE  LET h == Head(q)
             t == Tail(q)
         IN /\ Lined(t, x) /\ t \in Seq(AdvT) /\ h \in AdvT
            /\ \A n : HasSeg(q, n) => HasSeg(t, n) \/ (h.kind = "seg" /\ h.seg = n)
            /\ \A op : HasCtl(q, op) => HasCtl(t, op) \/ h.kind = op
            /\ \A y : HasAck(q, y) => HasAck(t, y) \/ (h.kind = "ack" /\ h.xact = y)
            /\ h.kind # "cancelled" => h.link = 1
            /\ h.kind = "seg" => h.pdu.type \in Types /\ h.xact = x
            /\ h.kind = "seg" /\ h.seg = 0 => \A n \in 1..LastSeg(h.pdu.type) : HasSeg(t, n)
<1> DEFINE h == Head(q)
           t == Tail(q)
           k == Len(q)
<1>1. k \in Nat /\ DOMAIN q = 1..k /\ k # 0
  BY LenProperties, EmptySeq
<1>2. /\ t \in Seq(AdvT) /\ Len(t) = k - 1 /\ h \in AdvT
      /\ \A i \in 1..Len(t) : t[i] = q[i + 1]
  BY HeadTailProperties
<1>3. DOMAIN t = 1..k - 1 /\ h = q[1]
  BY <1>2, LenProperties
<1> HIDE DEF h, t, k
<1>4. \A i \in DOMAIN t : i \in Int /\ i + 1 \in DOMAIN q /\ t[i] = q[i + 1]
  BY <1>1, <1>2, <1>3
<1>5. \A i \in DOMAIN q : i \in Int /\ (i = 1 \/ (i - 1 \in DOMAIN t /\ t[i - 1] = q[i]))
  BY <1>1, <1>2, <1>3
<1>6. \A i \in DOMAIN q : i # 1 => \E j \in DOMAIN t : t[j] = q[i]
  BY <1>5
<1>7. 1 \in DOMAIN q
  BY <1>1
<1>8. Lined(t, x)
  <2> SUFFICES ASSUME NEW i \in DOMAIN t
               PROVE  /\ t[i].kind # "cancelled" => t[i].link = 1
                      /\ t[i].kind = "seg" => t[i].pdu.type \in Types /\ t[i].xact = x
                      /\ t[i].kind = "seg" /\ t[i].seg < LastSeg(t[i].pdu.type) =>
                           i + 1 \in DOMAIN t /\ t[i + 1].kind = "seg" /\ t[i + 1].seg = t[i].seg + 1
    BY DEF Lined
  <2> DEFINE g == i + 1
  <2>1. g \in DOMAIN q /\ t[i] = q[g] /\ g \in Int /\ g # 1
    BY <1>1, <1>3, <1>4
  <2>2. g + 1 \in DOMAIN q => i + 1 \in DOMAIN t /\ t[i + 1] = q[g + 1]
    BY <1>1, <1>2, <1>3
  <2> HIDE DEF g
  <2>3. QED
    BY <2>1, <2>2 DEF Lined
<1>9. \A n : HasSeg(q, n) => HasSeg(t, n) \/ (h.kind = "seg" /\ h.seg = n)
  <2> SUFFICES ASSUME NEW n, NEW i \in DOMAIN q, q[i].kind = "seg", q[i].seg = n
               PROVE  HasSeg(t, n) \/ (h.kind = "seg" /\ h.seg = n)
    BY DEF HasSeg
  <2>1. QED
    BY <1>3, <1>6 DEF HasSeg
<1>10. \A op : HasCtl(q, op) => HasCtl(t, op) \/ h.kind = op
  <2> SUFFICES ASSUME NEW op, NEW i \in DOMAIN q, q[i].kind = op
               PROVE  HasCtl(t, op) \/ h.kind = op
    BY DEF HasCtl
  <2>1. QED
    BY <1>3, <1>6 DEF HasCtl
<1>11. \A y : HasAck(q, y) => HasAck(t, y) \/ (h.kind = "ack" /\ h.xact = y)
  <2> SUFFICES ASSUME NEW y, NEW i \in DOMAIN q, IsAck(q[i]), q[i].xact = y
               PROVE  HasAck(t, y) \/ (h.kind = "ack" /\ h.xact = y)
    BY Zenon DEF HasAck, AckSet
  <2>1. CASE i = 1
    BY <1>3, <2>1 DEF IsAck
  <2>2. CASE i # 1
    <3>1. PICK j \in DOMAIN t : t[j] = q[i]
      BY <1>6, <2>2
    <3>2. t[j] \in AckSet(t)
      BY <3>1, Zenon DEF AckSet
    <3>3. QED
      BY <3>1, <3>2, Zenon DEF HasAck
  <2>3. QED
    BY <2>1, <2>2
<1>12. /\ h.kind # "cancelled" => h.link = 1
       /\ h.kind = "seg" => h.pdu.type \in Types /\ h.xact = x
  BY <1>3, <1>7 DEF Lined
<1>13. ASSUME h.kind = "seg", h.seg = 0
       PROVE  \A n \in 1..LastSeg(h.pdu.type) : HasSeg(t, n)
  <2> DEFINE z == LastSeg(h.pdu.type)
  <2>1. z \in 0..2
    BY Short
  <2>2. ASSUME 0 < z
        PROVE  2 \in DOMAIN q /\ q[2].kind = "seg" /\ q[2].seg = 1
    <3>1. 1 + 1 = 2 /\ 0 + 1 = 1
      OBVIOUS
    <3>2. QED
      BY <1>3, <1>7, <1>13, <2>2, <3>1 DEF Lined
  <2>3. CASE z = 0
    BY <2>3
  <2>4. CASE z = 1
    <3>1. HasSeg(t, 1)
      BY <1>6, <2>2, <2>4 DEF HasSeg
    <3>2. QED
      BY <2>4, <3>1
  <2>5. CASE z = 2
    <3>1. HasSeg(t, 1)
      BY <1>6, <2>2, <2>5 DEF HasSeg
    <3>2. 2 \in DOMAIN q /\ q[2].kind = "seg" /\ q[2].seg = 1 /\ 2 + 1 = 3 /\ 1 + 1 = 2
      BY <2>2, <2>5
    <3>3. q[1].pdu = tx.pdu /\ q[2].pdu = tx.pdu
      BY <1>3, <1>7, <1>13, <3>2 DEF Current
    <3>4. LastSeg(q[2].pdu.type) = 2
      BY <1>3, <2>5, <3>3
    <3>5. 3 \in DOMAIN q /\ q[3].kind = "seg" /\ q[3].seg = 2
      <4>1. q[2].seg < LastSeg(q[2].pdu.type)
        BY <3>2, <3>4
      <4>2. 2 + 1 \in DOMAIN q /\ q[2 + 1].kind = "seg" /\ q[2 + 1].seg = q[2].seg + 1
        BY <3>2, <4>1 DEF Lined
      <4>3. QED
        BY <3>2, <4>2
    <3>6. HasSeg(t, 2)
      BY <1>6, <3>5 DEF HasSeg
    <3>7. QED
      BY <2>5, <3>1, <3>6
  <2>6. QED
    BY <2>1, <2>3, <2>4, <2>5
<1>14. QED
  BY <1>2, <1>8, <1>9, <1>10, <1>11, <1>12, <1>13 DEF h, t

-----------------------------------------------------------------------------
\* What an operation leaves alone: the state of the protocol, and of reception.
Keeps(l, m) ==
  /\ m.active = l.active /\ m.id = l.id /\ m.inputs = l.inputs
  /\ m.confkey = l.confkey /\ m.conf = l.conf /\ m.send = l.send
  /\ m.dhkey = l.dhkey /\ m.busy = l.busy /\ m.await = l.await
  /\ m.closing = l.closing /\ m.given = l.given

Ear(l, m) == m.prev = l.prev /\ m.rxid = l.rxid /\ m.missing = l.missing

\* What is sent stays what it is.
Voice(l, m) ==
  /\ m.tx = l.tx /\ m.txid = l.txid
  /\ \A n : HasSeg(l.queue, n) => HasSeg(m.queue, n)
  /\ \A op : HasCtl(l.queue, op) => HasCtl(m.queue, op)

\* No acknowledgement is lost, and none is new.
SameAcks(l, m) == AckSet(m.queue) = AckSet(l.queue)

\* Only what is acknowledged and handled matters.
LEMMA SettledSame ==
  ASSUME NEW l, NEW m, Settled(l), m.prev = l.prev, AckSet(m.queue) \subseteq AckSet(l.queue)
  PROVE  Settled(m)
BY DEF Settled

\* prov_clear_tx.
LEMMA ClearEff ==
  ASSUME NEW l, Sound(l), Fit(l)
  PROVE  LET m == ClearTx(l)
         IN /\ Sound(m) /\ Fit(m) /\ Keeps(l, m) /\ Ear(l, m) /\ SameAcks(l, m)
            /\ m.tx = NoTx /\ Mute(m) /\ m.txid = l.txid /\ m.expect = l.expect
            /\ m.queue = Cancel(l.queue)
<1> DEFINE m == ClearTx(l)
<1>1. l \in LinkT /\ l.queue \in Seq(AdvT) /\ Single(l.queue)
  BY DEF Sound, LinkT, Queue
<1>2. Sound(m) /\ SameAcks(l, m) /\ m.tx = NoTx /\ m.txid = l.txid /\ m.expect = l.expect
  BY <1>1, Clears DEF Same, SameAcks
<1>3. m = [l EXCEPT !.tx = NoTx, !.queue = Cancel(l.queue)]
  BY DEF ClearTx
<1>4. Keeps(l, m) /\ Ear(l, m) /\ m.queue = Cancel(l.queue)
  BY <1>1, <1>3 DEF LinkT, Keeps, Ear
<1> HIDE DEF m
<1>5. Mute(m)
  BY <1>2, Constants DEF Mute
<1>6. Lined(m.queue, m.tx.xact)
  BY <1>1, <1>4, LinedCancel DEF Fit
<1>7. Settled(m)
  BY <1>2, <1>4, SettledSame DEF Fit, Ear, SameAcks
<1>8. Fit(m)
  BY <1>2, <1>4, <1>6, <1>7 DEF Fit, Keeps
<1>9. QED
  BY <1>2, <1>4, <1>5, <1>8 DEF m

\* send_reliable.
LEMMA ReliablyEff ==
  ASSUME NEW l, l \in LinkT, Single(l.queue), l.id = 1, NEW tx \in TxT,
         tx.pdu.type \in Types \cup Ctl, Current(l.queue, tx),
         Lined(l.queue, tx.xact), Settled(l), l.closing = 0
  PROVE  LET m == Reliably(l, tx)
         IN /\ Sound(m) /\ Fit(m) /\ Keeps(l, m) /\ Ear(l, m) /\ SameAcks(l, m)
            /\ m.tx = tx /\ m.txid = l.txid /\ m.expect = l.expect /\ m.held = l.held
            /\ tx.pdu.type \in Types => HasSeg(m.queue, 0)
            /\ tx.pdu.type \in Ctl => HasCtl(m.queue, tx.pdu.type)
<1> DEFINE m == Reliably(l, tx)
           r == Adverts(l, tx.xact, tx.pdu)
           q == l.queue \o r
<1>1. l.queue \in Seq(AdvT)
  BY DEF LinkT, Queue
<1>2. Sound(m) /\ SameAcks(l, m) /\ m.tx = tx /\ m.txid = l.txid /\ m.expect = l.expect
  BY SendsReliably DEF Same, SameAcks
<1>3. m = [l EXCEPT !.tx = tx, !.queue = q]
  BY DEF Reliably
<1>4. /\ r \in Seq(AdvT) /\ Lined(r, tx.xact)
      /\ tx.pdu.type \in Types => HasSeg(r, 0)
      /\ tx.pdu.type \in Ctl => HasCtl(r, tx.pdu.type)
  BY LinedAdverts
<1>5. /\ Lined(q, tx.xact)
      /\ tx.pdu.type \in Types => HasSeg(q, 0)
      /\ tx.pdu.type \in Ctl => HasCtl(q, tx.pdu.type)
  <2> HIDE DEF r
  <2>1. QED
    BY <1>1, <1>4, LinedConcat
<1> HIDE DEF q
<1>6. Keeps(l, m) /\ Ear(l, m) /\ m.queue = q /\ m.held = l.held
  BY <1>3 DEF LinkT, Keeps, Ear
<1> HIDE DEF m
<1>7. ~Mute(m)
  BY <1>2 DEF Mute, Types, Ctl
<1>8. Settled(m)
  BY <1>2, <1>6, SettledSame DEF Ear, SameAcks
<1>9. Fit(m)
  BY <1>2, <1>5, <1>6, <1>7, <1>8 DEF Fit, Keeps
<1>10. QED
  BY <1>2, <1>5, <1>6, <1>9 DEF m

\* prov_send_adv.
LEMMA SendEff ==
  ASSUME NEW s \in Sides, NEW l, Sound(l), Fit(l), l.id = 1,
         NEW pdu \in PduT, pdu.type \in Types
  PROVE  LET m == Send(s, l, pdu, TRUE)
         IN /\ Sound(m) /\ Fit(m) /\ Keeps(l, m) /\ Ear(l, m) /\ SameAcks(l, m)
            /\ m.tx = [xact |-> NextId(s, l).use, pdu |-> pdu, tries |-> 0]
            /\ m.txid = NextId(s, l).keep /\ m.expect = l.expect /\ HasSeg(m.queue, 0)
<1> DEFINE c == ClearTx(l)
           d == [c EXCEPT !.txid = NextId(s, l).keep]
           tx == [xact |-> NextId(s, l).use, pdu |-> pdu, tries |-> 0]
           m == Send(s, l, pdu, TRUE)
<1>0. l \in LinkT /\ l.queue \in Seq(AdvT) /\ Single(l.queue)
  BY DEF Sound, LinkT, Queue
<1>1. /\ Sound(c) /\ Fit(c) /\ Keeps(l, c) /\ Ear(l, c) /\ SameAcks(l, c)
      /\ c.expect = l.expect /\ c.queue = Cancel(l.queue)
  BY ClearEff
<1>2. m = Reliably(d, tx)
  BY DEF Send
<1>3. tx \in TxT /\ tx.pdu = pdu
  BY <1>0, ProvAssumption, Counts DEF TxT, Byte
<1>4. Current(c.queue, tx) /\ Lined(c.queue, tx.xact)
  BY <1>0, <1>1, CancelQueue, LinedCancel DEF Fit
<1> HIDE DEF c, tx
<1>5. c \in LinkT /\ Single(c.queue) /\ Settled(c) /\ c.closing = 0 /\ c.id = 1
  BY <1>1 DEF Sound, Fit, Keeps
<1>6. NextId(s, l).keep \in Byte
  BY <1>0, Counts
<1>7. /\ d \in LinkT /\ Keeps(c, d) /\ Ear(c, d) /\ d.queue = c.queue
      /\ d.txid = NextId(s, l).keep /\ d.expect = c.expect
  BY <1>5, <1>6 DEF LinkT, Keeps, Ear
<1> HIDE DEF d, m
<1>8. Settled(d) /\ d.id = 1 /\ d.closing = 0
  BY <1>5, <1>7, SettledSame DEF Keeps, Ear
<1>9. /\ Sound(m) /\ Fit(m) /\ Keeps(d, m) /\ Ear(d, m) /\ SameAcks(d, m)
      /\ m.tx = tx /\ m.txid = d.txid /\ m.expect = d.expect
      /\ HasSeg(m.queue, 0)
  BY <1>2, <1>3, <1>4, <1>5, <1>7, <1>8, ReliablyEff
<1>10. Keeps(l, m) /\ Ear(l, m) /\ SameAcks(l, m) /\ m.expect = l.expect
  BY <1>1, <1>7, <1>9 DEF Keeps, Ear, SameAcks
<1>11. QED
  BY <1>7, <1>9, <1>10 DEF m, tx

\* bearer_ctl_send.
LEMMA CtlEff ==
  ASSUME NEW s \in Sides, NEW l, Sound(l), Fit(l), l.id = 1,
         NEW op \in {"open", "link ack"}
  PROVE  LET m == CtlSend(s, l, op, TRUE)
         IN /\ Sound(m) /\ Fit(m) /\ Keeps(l, m) /\ Ear(l, m) /\ SameAcks(l, m)
            /\ m.tx.pdu.type = op /\ m.tx.tries = 0 /\ m.txid = l.txid
            /\ m.expect = l.expect /\ HasCtl(m.queue, op)
<1> DEFINE c == ClearTx(l)
           tx == [NoTx EXCEPT !.pdu = Pdu(op, {}, 0)]
           m == CtlSend(s, l, op, TRUE)
<1>0. l \in LinkT /\ l.queue \in Seq(AdvT) /\ Single(l.queue) /\ op \in Ctl
  BY DEF Sound, LinkT, Queue, Ctl
<1>1. /\ Sound(c) /\ Fit(c) /\ Keeps(l, c) /\ Ear(l, c) /\ SameAcks(l, c)
      /\ c.expect = l.expect /\ c.queue = Cancel(l.queue) /\ c.txid = l.txid
  BY ClearEff
<1>2. m = Reliably(c, tx)
  BY DEF CtlSend
<1>3. tx \in TxT /\ tx.pdu.type = op /\ tx.tries = 0
  <2>1. /\ Pdu(op, {}, 0) \in PduT /\ Pdu(op, {}, 0).type = op
        /\ NoTx \in TxT /\ NoTx.tries = 0
    <3>1. op \in Types \cup Ctl /\ {} \in SUBSET Parts /\ 0 \in Nat
      BY <1>0
    <3>2. Pdu(op, {}, 0) \in PduT /\ Pdu(op, {}, 0).type = op
      BY <3>1 DEF Pdu, PduT
    <3>3. QED
      BY <3>2, Constants
  <2>2. QED
    BY <2>1, ZenonT(30) DEF TxT
<1>4. Current(c.queue, tx) /\ Lined(c.queue, tx.xact)
  BY <1>0, <1>1, CancelQueue, LinedCancel DEF Fit
<1> HIDE DEF c, tx, m
<1>5. c \in LinkT /\ Single(c.queue) /\ Settled(c) /\ c.closing = 0 /\ c.id = 1
  BY <1>1 DEF Sound, Fit, Keeps
<1>6. /\ Sound(m) /\ Fit(m) /\ Keeps(c, m) /\ Ear(c, m) /\ SameAcks(c, m)
      /\ m.tx = tx /\ m.txid = c.txid /\ m.expect = c.expect
      /\ HasCtl(m.queue, op)
  BY <1>0, <1>2, <1>3, <1>4, <1>5, ReliablyEff
<1>7. Keeps(l, m) /\ Ear(l, m) /\ SameAcks(l, m) /\ m.expect = l.expect
  BY <1>1, <1>6 DEF Keeps, Ear, SameAcks
<1>8. QED
  BY <1>1, <1>3, <1>6, <1>7 DEF m

\* gen_prov_ack_send.
LEMMA AckSendEff ==
  ASSUME NEW l, Sound(l), l.id = 1, Lined(l.queue, l.tx.xact), NEW x \in Byte
  PROVE  LET m == AckSend(l, x)
         IN /\ Sound(m) /\ Keeps(l, m) /\ Ear(l, m) /\ Voice(l, m) /\ m.expect = l.expect
            /\ Lined(m.queue, m.tx.xact) /\ HasAck(m.queue, x)
            /\ AckSet(l.queue) \subseteq AckSet(m.queue)
            /\ \A a \in AckSet(m.queue) : a \in AckSet(l.queue) \/ a.xact = x
<1> DEFINE m == AckSend(l, x)
           a == [kind |-> "ack", link |-> l.id, xact |-> x,
                 seg |-> IF PendingAck(l) = {} THEN 1 ELSE 0, pdu |-> NoPdu]
           q == Append(l.queue, a)
<1>0. Sound(m) /\ NewAcks(l, m, x)
  BY Acknowledges
<1>1. \A b \in AckSet(m.queue) : b \in AckSet(l.queue) \/ b.xact = x
  BY <1>0 DEF NewAcks
<1>2. l \in LinkT /\ l.queue \in Seq(AdvT)
  BY DEF Sound, LinkT, Queue
<1>3. CASE x \in PendingAck(l)
  <2>1. m = l
    BY <1>3 DEF AckSend
  <2>2. PICK n \in DOMAIN l.queue : l.queue[n].kind = "ack" /\ l.queue[n].xact = x
    BY <1>3 DEF PendingAck
  <2>3. l.queue[n] \in AckSet(l.queue)
    BY <2>2, Zenon DEF AckSet, IsAck
  <2>4. HasAck(l.queue, x)
    BY <2>2, <2>3, Zenon DEF HasAck
  <2> HIDE DEF m
  <2>5. QED
    BY <1>0, <1>1, <2>1, <2>4 DEF Keeps, Ear, Voice, m
<1>4. CASE x \notin PendingAck(l)
  <2>1. m = [l EXCEPT !.queue = q]
    BY <1>4 DEF AckSend
  <2>2. a \in AdvT /\ a.kind = "ack" /\ a.link = 1 /\ a.xact = x
    <3>1. l.id \in 0..MaxLinks
      BY <1>2 DEF LinkT, Id
    <3>2. QED
      BY <3>1, Constants DEF AdvT, Byte
  <2>3. a.seg = 1 => \A n \in DOMAIN l.queue : ~Pending(l.queue[n])
    <3> SUFFICES ASSUME PendingAck(l) = {}, NEW n \in DOMAIN l.queue, Pending(l.queue[n])
                 PROVE  FALSE
      OBVIOUS
    <3>1. l.queue[n].xact \in PendingAck(l)
      BY DEF PendingAck, Pending
    <3>2. QED
      BY <3>1
  <2> HIDE DEF a
  <2>4. AckSet(l.queue) \subseteq AckSet(q)
    BY <1>2, <2>2, <2>3, AppendQueue DEF Sound
  <2>5. /\ Lined(q, l.tx.xact) /\ a \in AckSet(q)
        /\ \A n : HasSeg(l.queue, n) => HasSeg(q, n)
        /\ \A op : HasCtl(l.queue, op) => HasCtl(q, op)
    BY <1>2, <2>2, LinedAppend
  <2>6. HasAck(q, x)
    BY <2>2, <2>5, Zenon DEF HasAck
  <2> HIDE DEF q
  <2>7. /\ Keeps(l, m) /\ Ear(l, m) /\ m.queue = q /\ m.expect = l.expect
        /\ m.tx = l.tx /\ m.txid = l.txid
    BY <1>2, <2>1 DEF LinkT, Keeps, Ear
  <2> HIDE DEF m
  <2>8. QED
    BY <1>0, <1>1, <2>4, <2>5, <2>6, <2>7 DEF Voice, m
<1>5. QED
  BY <1>3, <1>4

\* prov_msg_recv acknowledges the PDU.
LEMMA AckedEff ==
  ASSUME NEW l, Sound(l), Fit(l), l.id = 1, l.rxid # XACT_NVAL,
         l.prev = XACT_NVAL \/ l.prev <= l.rxid
  PROVE  LET m == Acked(l)
         IN /\ Sound(m) /\ Fit(m) /\ Keeps(l, m) /\ Voice(l, m) /\ m.expect = l.expect
            /\ m.prev = l.rxid /\ m.missing = l.missing
            /\ HasAck(m.queue, l.rxid)
<1> DEFINE c == AckSend(l, l.rxid)
           m == Acked(l)
           x == l.rxid
<1>1. l \in LinkT /\ x \in Byte /\ 0 \in Byte /\ l.prev \in Byte
  BY DEF Sound, LinkT, Byte
<1>2. /\ Sound(c) /\ Keeps(l, c) /\ Ear(l, c) /\ Voice(l, c) /\ c.expect = l.expect
      /\ Lined(c.queue, c.tx.xact) /\ HasAck(c.queue, x)
      /\ \A a \in AckSet(c.queue) : a \in AckSet(l.queue) \/ a.xact = x
  BY <1>1, AckSendEff DEF Fit
<1>3. m = [c EXCEPT !.prev = x, !.rxid = 0]
  BY DEF Acked
<1> HIDE DEF c
<1>4. c \in LinkT
  BY <1>2 DEF Sound
<1>5. m \in LinkT
  BY <1>1, <1>3, <1>4 DEF LinkT
<1>6. /\ Keeps(c, m) /\ m.prev = x /\ m.missing = c.missing /\ m.expect = c.expect
      /\ m.queue = c.queue /\ m.tx = c.tx /\ m.txid = c.txid
  BY <1>3, <1>4 DEF LinkT, Keeps
<1> HIDE DEF m
<1>7. Sound(m)
  BY <1>2, <1>5, <1>6 DEF Sound
<1>8. Settled(m)
  <2> SUFFICES ASSUME NEW a \in AckSet(m.queue)
               PROVE  x # XACT_NVAL /\ a.xact <= x
    BY <1>6 DEF Settled
  <2>1. x \in 0..255 /\ l.prev \in 0..255
    BY <1>1 DEF Byte
  <2>2. CASE a.xact = x
    BY <2>1, <2>2
  <2>3. CASE a \in AckSet(l.queue)
    <3>1. l.prev # XACT_NVAL /\ a.xact <= l.prev
      BY <2>3 DEF Fit, Settled
    <3>2. a.xact \in 0..255
      <4>1. PICK n \in DOMAIN l.queue : l.queue[n] = a
        BY <2>3, Zenon DEF AckSet
      <4>2. l.queue \in Seq(AdvT)
        BY <1>1 DEF LinkT, Queue
      <4>3. a \in AdvT
        BY <4>1, <4>2, ElementOfSeq, LenProperties
      <4>4. QED
        BY <4>3 DEF AdvT
    <3>3. l.prev <= x
      BY <3>1
    <3>4. \A i, j, k \in 0..255 : i <= j /\ j <= k => i <= k
      OBVIOUS
    <3>5. a.xact <= x
      BY <2>1, <3>1, <3>2, <3>3, <3>4, Zenon
    <3>6. QED
      BY <3>5
  <2>4. QED
    BY <1>2, <1>6, <2>2, <2>3
<1>9. Mute(m) => m.tx = NoTx
  BY <1>2, <1>6 DEF Fit, Mute, Voice
<1>10. Fit(m)
  BY <1>2, <1>6, <1>8, <1>9 DEF Fit, Keeps
<1>11. Keeps(l, m) /\ Voice(l, m) /\ m.expect = l.expect /\ m.missing = l.missing
  BY <1>2, <1>6 DEF Keeps, Voice, Ear
<1>12. QED
  BY <1>2, <1>6, <1>7, <1>10, <1>11 DEF m

-----------------------------------------------------------------------------
\* The first advert of k has left its queue.
Popped(k, m) ==
  /\ Keeps(k, m) /\ Ear(k, m) /\ m.tx = k.tx /\ m.txid = k.txid /\ m.expect = k.expect
  /\ m.queue = Tail(k.queue)

\* An advert leaves the queue.
LEMMA PopEff ==
  ASSUME NEW k, Sound(k), Fit(k), k.queue # <<>>, NEW b \in BOOLEAN
  PROVE  LET m == [k EXCEPT !.queue = Tail(k.queue), !.held = b]
         IN Popped(k, m) /\ Fit(m) /\ m.held = b
<1> DEFINE m == [k EXCEPT !.queue = Tail(k.queue), !.held = b]
<1>1. k \in LinkT /\ k.queue \in Seq(AdvT) /\ Current(k.queue, k.tx) /\ Single(k.queue)
  BY DEF Sound, LinkT, Queue
<1>2. Popped(k, m) /\ m.held = b
  BY <1>1 DEF LinkT, Popped, Keeps, Ear
<1> HIDE DEF m
<1>3. Lined(Tail(k.queue), k.tx.xact)
  BY <1>1, LinedTail DEF Fit
<1>4. AckSet(Tail(k.queue)) \subseteq AckSet(k.queue)
  BY <1>1, TailQueue
<1>5. Settled(m)
  BY <1>2, <1>4, SettledSame DEF Popped, Ear, Fit
<1>6. Mute(m) => m.tx = NoTx
  BY <1>2 DEF Popped, Mute, Fit
<1>7. QED
  BY <1>2, <1>3, <1>5, <1>6 DEF Fit, Popped, Keeps, m

\* A PDU of k that is under way.
LEMMA HeadSays ==
  ASSUME NEW k, Sound(k), Fit(k), k.queue # <<>>
  PROVE  LET h == Head(k.queue)
         IN /\ h \in AdvT
            /\ h.kind # "cancelled" => h.link = 1
            /\ h.kind = "seg" => /\ h.pdu = k.tx.pdu /\ h.xact = k.tx.xact
                                 /\ h.pdu.type \in Types /\ h.seg <= LastSeg(h.pdu.type)
            /\ h.kind \in Ctl => h.kind = k.tx.pdu.type
            /\ h.kind = "ack" => k.prev # XACT_NVAL /\ h.xact <= k.prev
<1> DEFINE h == Head(k.queue)
<1>1. k \in LinkT /\ k.queue \in Seq(AdvT) /\ Current(k.queue, k.tx) /\ Single(k.queue)
  BY DEF Sound, LinkT, Queue
<1>2. /\ h \in AdvT /\ (h.kind # "cancelled" => h.link = 1)
      /\ h.kind = "seg" => h.pdu.type \in Types /\ h.xact = k.tx.xact
  BY <1>1, LinedTail DEF Fit
<1>3. 1 \in DOMAIN k.queue /\ h = k.queue[1]
  BY <1>1, TailQueue
<1> HIDE DEF h
<1>4. /\ h.kind = "seg" => h.pdu = k.tx.pdu /\ h.seg <= LastSeg(k.tx.pdu.type)
      /\ h.kind \in Ctl => h.kind = k.tx.pdu.type
  BY <1>1, <1>3 DEF Current
<1>5. h.kind = "ack" => h \in AckSet(k.queue)
  BY <1>3, Zenon DEF AckSet, IsAck
<1>6. h.kind = "ack" => k.prev # XACT_NVAL /\ h.xact <= k.prev
  BY <1>5 DEF Fit, Settled
<1>7. QED
  BY <1>2, <1>4, <1>6 DEF h

\* What is in the queue stays there, but for the first.
LEMMA TailHas ==
  ASSUME NEW k, Sound(k), Fit(k), k.queue # <<>>
  PROVE  LET h == Head(k.queue)
             t == Tail(k.queue)
         IN /\ \A n : HasSeg(k.queue, n) => HasSeg(t, n) \/ (h.kind = "seg" /\ h.seg = n)
            /\ \A op : HasCtl(k.queue, op) => HasCtl(t, op) \/ h.kind = op
            /\ \A y : HasAck(k.queue, y) => HasAck(t, y) \/ (h.kind = "ack" /\ h.xact = y)
            /\ h.kind = "seg" /\ h.seg = 0 => \A n \in 1..LastSeg(h.pdu.type) : HasSeg(t, n)
<1>1. k \in LinkT /\ k.queue \in Seq(AdvT) /\ Current(k.queue, k.tx)
  BY DEF Sound, LinkT, Queue
<1>2. QED
  BY <1>1, LinedTail DEF Fit

\* Neither what is sent nor what was heard of it changes.
LEMMA FlowSame ==
  ASSUME NEW l, NEW k, NEW z, Flow(l, k, z), NEW l2, NEW k2,
         l2.tx = l.tx, \A n : HasSeg(l.queue, n) => HasSeg(l2.queue, n),
         Ear(k, k2), HasAck(k.queue, l.tx.xact) => HasAck(k2.queue, l.tx.xact)
  PROVE  Flow(l2, k2, z)
<1>1. k2.prev = k.prev /\ k2.rxid = k.rxid /\ k2.missing = k.missing
  BY DEF Ear
<1>2. Mute(l2) => k2.missing = {}
  BY <1>1 DEF Flow, Mute
<1>3. ASSUME l.tx.pdu.type \in Types, k.prev = l.tx.xact
      PROVE  Heard(l2, k2, z)
  BY <1>1, <1>3 DEF Flow, Heard, Paid
<1>4. ASSUME l.tx.pdu.type \in Types, k.prev # l.tx.xact
      PROVE  Unheard(l2, k2, z)
  BY <1>1, <1>4 DEF Flow, Unheard, Paid
<1>5. QED
  BY <1>1, <1>2, <1>3, <1>4 DEF Flow

\* Who sends nothing needs no answer.
LEMMA FlowMute ==
  ASSUME NEW l, NEW k, NEW z, Mute(l), k.missing = {}
  PROVE  Flow(l, k, z)
BY DEF Flow, Mute, Types

\* What is not a PDU is not acknowledged.
LEMMA FlowCtl ==
  ASSUME NEW l, NEW k, NEW z, l.tx.pdu.type \in Ctl
  PROVE  Flow(l, k, z)
BY DEF Flow, Mute, Types, Ctl

\* A new PDU.
LEMMA FlowNew ==
  ASSUME NEW l, NEW k, NEW z \in Nat, l.tx.pdu.type \in Types, l.tx.tries = 0,
         l.tx.xact \in Byte, k.missing = {}, HasSeg(l.queue, 0),
         k.prev = XACT_NVAL \/ k.prev < l.tx.xact, l.tx.xact # XACT_NVAL, k.prev \in Byte
  PROVE  Flow(l, k, z)
<1>1. k.prev # l.tx.xact
  <2>1. \A i, j \in 0..255 : i < j => i # j
    OBVIOUS
  <2>2. QED
    BY <2>1 DEF Byte
<1>2. Paid(l, z, TRUE)
  BY DEF Paid
<1>3. Unheard(l, k, z)
  BY <1>2 DEF Unheard, Paid
<1>4. ~Mute(l)
  BY DEF Mute, Types
<1>5. QED
  BY <1>1, <1>3, <1>4 DEF Flow

\* Whatever is under way, tries are paid for.
LEMMA FlowPaid ==
  ASSUME NEW l, NEW k, NEW z, Flow(l, k, z), l.tx.pdu.type \in Types
  PROVE  Paid(l, z, TRUE)
BY DEF Flow, Heard, Unheard, Paid

\* The PDU was taken.
LEMMA FlowTaken ==
  ASSUME NEW k, NEW l, NEW z, Flow(k, l, z), k.tx.pdu.type \in Types, NEW k2, NEW l2,
         k2.tx = k.tx, l2.prev = k.tx.xact, l2.missing = {}, HasAck(l2.queue, k.tx.xact)
  PROVE  Flow(k2, l2, z)
<1>1. Paid(k, z, TRUE)
  BY FlowPaid
<1>2. Heard(k2, l2, z)
  BY <1>1 DEF Heard, Paid
<1>3. ~Mute(k2)
  BY DEF Mute, Types
<1>4. QED
  BY <1>2, <1>3 DEF Flow

\* An advert that tells l nothing.
LEMMA FlowDeaf ==
  ASSUME NEW k, Sound(k), Fit(k), k.queue # <<>>, NEW l, NEW z, Flow(k, l, z),
         NEW k2, NEW l2, Popped(k, k2), Ear(l, l2), AckSet(l.queue) \subseteq AckSet(l2.queue),
         LET h == Head(k.queue)
         IN h.kind = "seg" => IF l.missing = {} THEN l.prev # h.xact /\ h.seg # 0
                                                ELSE h.seg \notin l.missing
  PROVE  Flow(k2, l2, z)
<1> DEFINE h == Head(k.queue)
           t == Tail(k.queue)
<1>1. /\ \A n : HasSeg(k.queue, n) => HasSeg(t, n) \/ (h.kind = "seg" /\ h.seg = n)
      /\ h.kind = "seg" /\ h.seg = 0 => \A n \in 1..LastSeg(h.pdu.type) : HasSeg(t, n)
  BY TailHas
<1>2. h.kind = "seg" => h.pdu = k.tx.pdu /\ h.xact = k.tx.xact
  BY HeadSays
<1>3. k2.tx = k.tx /\ k2.queue = t
  BY DEF Popped
<1>4. l2.prev = l.prev /\ l2.rxid = l.rxid /\ l2.missing = l.missing
  BY DEF Ear
<1>5. \A x : HasAck(l.queue, x) => HasAck(l2.queue, x)
  BY Zenon DEF HasAck
<1> HIDE DEF t, h
<1>6. Mute(k2) => l2.missing = {}
  BY <1>3, <1>4 DEF Flow, Mute
<1>7. ASSUME k.tx.pdu.type \in Types, l.prev = k.tx.xact
      PROVE  Heard(k2, l2, z)
  <2>1. Heard(k, l, z)
    BY <1>7 DEF Flow
  <2>2. h.kind # "seg"
    BY <1>2, <1>7, <2>1 DEF Heard, h
  <2>3. \A n : HasSeg(k.queue, n) => HasSeg(t, n)
    BY <1>1, <2>2
  <2>4. QED
    BY <1>3, <1>4, <1>5, <2>1, <2>3 DEF Heard, Paid
<1>8. ASSUME k.tx.pdu.type \in Types, l.prev # k.tx.xact
      PROVE  Unheard(k2, l2, z)
  <2>1. Unheard(k, l, z)
    BY <1>8 DEF Flow
  <2> DEFINE ok == HasSeg(k.queue, 0) \/ (l.missing # {} /\ \A n \in l.missing : HasSeg(k.queue, n))
             go == HasSeg(t, 0) \/ (l.missing # {} /\ \A n \in l.missing : HasSeg(t, n))
  <2>2. ok => go
    <3>1. CASE h.kind # "seg"
      BY <1>1, <3>1
    <3>2. CASE h.kind = "seg" /\ l.missing = {}
      <4>1. h.seg # 0
        BY <3>2 DEF h
      <4>2. QED
        BY <1>1, <3>2, <4>1
    <3>3. CASE h.kind = "seg" /\ l.missing # {}
      <4>1. h.seg \notin l.missing
        BY <3>3 DEF h
      <4>2. ASSUME h.seg = 0
            PROVE  \A n \in l.missing : HasSeg(t, n)
        <5>1. l.missing \subseteq 1..LastSeg(h.pdu.type)
          BY <1>2, <2>1, <3>3 DEF Unheard
        <5>2. QED
          BY <1>1, <3>3, <4>2, <5>1
      <4>3. QED
        BY <1>1, <3>3, <4>1, <4>2
    <3>4. QED
      BY <3>1, <3>2, <3>3
  <2>3. Paid(k, z, ok)
    BY <2>1 DEF Unheard
  <2>4. Paid(k2, z, go)
    BY <1>3, <2>2, <2>3 DEF Paid
  <2>5. QED
    BY <1>3, <1>4, <2>1, <2>4 DEF Unheard
<1>9. QED
  BY <1>3, <1>4, <1>6, <1>7, <1>8 DEF Flow

\* The first of several segments.
LEMMA FlowStart ==
  ASSUME NEW k, Sound(k), Fit(k), k.queue # <<>>, NEW l, NEW z, Flow(k, l, z),
         NEW k2, NEW l2, Popped(k, k2),
         LET h == Head(k.queue)
         IN /\ h.kind = "seg" /\ h.seg = 0 /\ LastSeg(h.pdu.type) # 0
            /\ l.prev # h.xact /\ l2.prev = l.prev /\ l2.rxid = h.xact
            /\ l2.missing = 1..LastSeg(h.pdu.type)
  PROVE  Flow(k2, l2, z)
<1> DEFINE h == Head(k.queue)
           t == Tail(k.queue)
           v == LastSeg(k.tx.pdu.type)
<1>1. h.pdu = k.tx.pdu /\ h.xact = k.tx.xact /\ k.tx.pdu.type \in Types
  BY HeadSays
<1>2. \A n \in 1..v : HasSeg(t, n)
  BY <1>1, TailHas
<1>3. k2.tx = k.tx /\ k2.queue = t
  BY DEF Popped
<1>4. v \in 0..2 /\ v # 0
  <2>1. v \in 0..2
    BY Short
  <2>2. LastSeg(h.pdu.type) = v
    BY <1>1
  <2>3. LastSeg(h.pdu.type) # 0
    OBVIOUS
  <2> HIDE DEF h, v
  <2>4. v # 0
    BY <2>2, <2>3
  <2>5. QED
    BY <2>1, <2>4
<1> HIDE DEF t, v
<1>5. 1..v # {}
  <2>1. 1 \in 1..v
    BY <1>4
  <2>2. QED
    BY <2>1
<1>6. Paid(k, z, TRUE)
  BY <1>1, FlowPaid
<1>7. Unheard(k, l, z)
  BY <1>1 DEF Flow
<1>8. /\ l2.prev = l.prev /\ l2.rxid = k.tx.xact /\ l2.missing = 1..v
      /\ l.prev # k.tx.xact
  BY <1>1 DEF v
<1>9. Paid(k2, z, HasSeg(t, 0) \/ (1..v # {} /\ \A n \in 1..v : HasSeg(t, n)))
  BY <1>2, <1>3, <1>5, <1>6 DEF Paid
<1>10. Unheard(k2, l2, z)
  BY <1>3, <1>7, <1>8, <1>9 DEF Unheard, v
<1>11. ~Mute(k2)
  BY <1>1, <1>3 DEF Mute, Types
<1>12. QED
  BY <1>1, <1>3, <1>8, <1>10, <1>11 DEF Flow

\* A segment, but not the last.
LEMMA FlowStore ==
  ASSUME NEW k, Sound(k), Fit(k), k.queue # <<>>, NEW l, l.missing \in Segs, NEW z,
         Flow(k, l, z), NEW k2, NEW l2, Popped(k, k2),
         LET h == Head(k.queue)
         IN /\ h.kind = "seg" /\ h.seg \in l.missing
            /\ l2.prev = l.prev /\ l2.rxid = l.rxid
            /\ l2.missing = l.missing \ {h.seg} /\ l2.missing # {}
  PROVE  Flow(k2, l2, z)
<1> DEFINE h == Head(k.queue)
           t == Tail(k.queue)
           v == l.missing \ {h.seg}
<1>1. h.pdu = k.tx.pdu /\ h.xact = k.tx.xact /\ k.tx.pdu.type \in Types
  BY HeadSays
<1>2. \A n : HasSeg(k.queue, n) => HasSeg(t, n) \/ h.seg = n
  BY TailHas
<1>3. k2.tx = k.tx /\ k2.queue = t
  BY DEF Popped
<1>4. h.seg # 0
  BY DEF Segs
<1>5. Unheard(k, l, z) /\ l.prev # k.tx.xact
  BY <1>1 DEF Flow, Heard
<1>6. l2.missing = v /\ v # {} /\ l.missing # {}
  OBVIOUS
<1>7. l2.prev = l.prev /\ l2.rxid = l.rxid
  OBVIOUS
<1> DEFINE ok == HasSeg(k.queue, 0) \/ (l.missing # {} /\ \A n \in l.missing : HasSeg(k.queue, n))
           go == HasSeg(t, 0) \/ (v # {} /\ \A n \in v : HasSeg(t, n))
<1>8. ok => go
  BY <1>2, <1>4, <1>6
<1>9. Paid(k, z, ok)
  BY <1>5 DEF Unheard
<1> HIDE DEF t
<1>10. Paid(k2, z, go)
  BY <1>3, <1>8, <1>9 DEF Paid
<1>11. v \subseteq l.missing
  OBVIOUS
<1> HIDE DEF v, h
<1>12. Unheard(k2, l2, z)
  BY <1>3, <1>5, <1>6, <1>7, <1>10, <1>11 DEF Unheard
<1>13. ~Mute(k2)
  BY <1>1, <1>3 DEF Mute, Types
<1>14. QED
  BY <1>1, <1>3, <1>5, <1>7, <1>12, <1>13 DEF Flow

-----------------------------------------------------------------------------
\* The numbers of the transactions of one link.
LEMMA Numbers ==
  ASSUME NEW l
  PROVE  /\ l.txid = 0 => NextId("dev", l).use = 128 /\ NextId("dev", l).keep = 128
         /\ \A n \in 128..131 : l.txid = n =>
              NextId("dev", l).use = n + 1 /\ NextId("dev", l).keep = n + 1
         /\ \A n \in 0..5 : l.txid = n =>
              NextId("prv", l).use = n /\ NextId("prv", l).keep = n + 1
BY DEF NextId

\* A change that has nothing to do with what is sent.
Apart(l, m) ==
  /\ m.queue = l.queue /\ m.tx = l.tx /\ m.txid = l.txid /\ Ear(l, m)
  /\ m.active = l.active /\ m.id = l.id /\ m.closing = l.closing

\* A change of the protocol state alone.
LEMMA ApartEff ==
  ASSUME NEW l, NEW m, Apart(l, m), Fit(l)
  PROVE  /\ Fit(m) /\ SameAcks(l, m)
         /\ Sound(l) /\ m \in LinkT => Sound(m)
<1>1. /\ m.queue = l.queue /\ m.tx = l.tx /\ m.prev = l.prev
      /\ m.active = l.active /\ m.id = l.id /\ m.closing = l.closing
  BY DEF Apart, Ear
<1>2. Settled(m)
  BY <1>1, SettledSame DEF Fit
<1>3. Mute(m) => m.tx = NoTx
  BY <1>1 DEF Fit, Mute
<1>4. Fit(m)
  BY <1>1, <1>2, <1>3 DEF Fit
<1>5. QED
  BY <1>1, <1>4 DEF SameAcks, Sound

\* l, with x acknowledged.
Noted(l, c, x) ==
  /\ Sound(c) /\ Fit(c) /\ Keeps(l, c) /\ c.tx = l.tx /\ c.txid = l.txid
  /\ c.expect = l.expect /\ c.prev = x /\ c.id = 1

\* What a handler leaves.
Handled(l, m) ==
  Fit(m) /\ Ear(l, m) /\ SameAcks(l, m) /\ m.active = l.active /\ m.id = l.id

\* A PDU is sent for the first time.
Says(m, x) ==
  /\ m.tx.pdu.type \in Types /\ m.tx.xact = x /\ m.tx.tries = 0 /\ HasSeg(m.queue, 0)

\* Sending a PDU starts its transaction.
LEMMA SendSays ==
  ASSUME NEW s \in Sides, NEW l, Sound(l), Fit(l), l.id = 1,
         NEW pdu \in PduT, pdu.type \in Types
  PROVE  LET m == Send(s, l, pdu, TRUE)
         IN /\ Handled(l, m) /\ Sound(m) /\ Keeps(l, m) /\ m.tx.pdu = pdu
            /\ Says(m, NextId(s, l).use) /\ m.txid = NextId(s, l).keep
<1> DEFINE m == Send(s, l, pdu, TRUE)
<1>1. /\ Sound(m) /\ Fit(m) /\ Keeps(l, m) /\ Ear(l, m) /\ SameAcks(l, m)
      /\ m.tx = [xact |-> NextId(s, l).use, pdu |-> pdu, tries |-> 0]
      /\ m.txid = NextId(s, l).keep /\ HasSeg(m.queue, 0)
  BY SendEff
<1> HIDE DEF m
<1>2. Says(m, NextId(s, l).use) /\ m.tx.pdu = pdu
  BY <1>1 DEF Says
<1>3. Handled(l, m)
  BY <1>1 DEF Handled, Keeps
<1>4. QED
  BY <1>1, <1>2, <1>3 DEF m

\* So does a handler that answers.
LEMMA SendThenEff ==
  ASSUME NEW s \in Sides, NEW l, Sound(l), Fit(l), l.id = 1,
         NEW pdu \in PduT, pdu.type \in Types, NEW next \in Types
  PROVE  LET m == SendThen(s, l, pdu, next, "sent")
         IN /\ Handled(l, m) /\ Sound(m) /\ Keeps(l, m) /\ m.tx.pdu = pdu
            /\ Says(m, NextId(s, l).use) /\ m.txid = NextId(s, l).keep /\ m.expect = next
<1> DEFINE c == Send(s, l, pdu, TRUE)
           m == SendThen(s, l, pdu, next, "sent")
<1>1. /\ Sound(c) /\ Fit(c) /\ Keeps(l, c) /\ Ear(l, c) /\ SameAcks(l, c)
      /\ c.tx = [xact |-> NextId(s, l).use, pdu |-> pdu, tries |-> 0]
      /\ c.txid = NextId(s, l).keep /\ c.expect = l.expect /\ HasSeg(c.queue, 0)
  BY SendEff
<1>2. m = [c EXCEPT !.expect = next]
  BY DEF SendThen, PduOk
<1> HIDE DEF c
<1>3. c \in LinkT
  BY <1>1 DEF Sound
<1>4. m \in LinkT
  BY <1>2, <1>3 DEF LinkT
<1>5. Apart(c, m) /\ Keeps(c, m) /\ m.expect = next
  BY <1>2, <1>3 DEF LinkT, Apart, Ear, Keeps
<1> HIDE DEF m
<1>6. Sound(m) /\ Fit(m) /\ SameAcks(c, m)
  BY <1>1, <1>4, <1>5, ApartEff
<1>7. Says(m, NextId(s, l).use) /\ m.tx.pdu = pdu /\ m.txid = NextId(s, l).keep
  BY <1>1, <1>5 DEF Says, Apart
<1>8. Keeps(l, m) /\ Ear(l, m) /\ SameAcks(l, m)
  BY <1>1, <1>5, <1>6 DEF Keeps, Ear, Apart, SameAcks
<1>9. QED
  BY <1>5, <1>6, <1>7, <1>8 DEF Handled, Keeps, m

\* prov_crypto input is collected.
LEMMA HasEff ==
  ASSUME NEW l, Sound(l), Fit(l), NEW parts \in SUBSET Parts
  PROVE  LET m == Has(l, parts)
         IN /\ Sound(m) /\ Fit(m) /\ Apart(l, m) /\ SameAcks(l, m) /\ m.expect = l.expect
            /\ m.inputs = l.inputs \cup parts /\ m.confkey = l.confkey /\ m.conf = l.conf
            /\ m.send = l.send /\ m.dhkey = l.dhkey /\ m.busy = l.busy /\ m.await = l.await
            /\ m.given = l.given
<1> DEFINE m == Has(l, parts)
<1>1. l \in LinkT
  BY DEF Sound
<1>2. m \in LinkT
  BY <1>1, HasInputs
<1>3. m = [l EXCEPT !.inputs = l.inputs \cup parts]
  BY DEF Has
<1>4. /\ Apart(l, m) /\ m.expect = l.expect
      /\ m.inputs = l.inputs \cup parts /\ m.confkey = l.confkey /\ m.conf = l.conf
      /\ m.send = l.send /\ m.dhkey = l.dhkey /\ m.busy = l.busy /\ m.await = l.await
      /\ m.given = l.given
  BY <1>1, <1>3 DEF LinkT, Apart, Ear
<1> HIDE DEF m
<1>5. QED
  BY <1>2, <1>4, ApartEff DEF m

\* A handler after a change of the protocol state.
LEMMA HandledTwice ==
  ASSUME NEW l, NEW k, NEW m, Apart(l, k), Handled(k, m)
  PROVE  Handled(l, m)
BY DEF Handled, Apart, Ear, SameAcks

\* prov_invite.
LEMMA OnInvite ==
  ASSUME NEW d, DAck(d), NEW c, Noted(d, c, 0)
  PROVE  LET m == ProvInvite(c, "sent")
         IN Handled(c, m) /\ DCaps(m) /\ Says(m, 128) /\ ~Mute(m)
<1> DEFINE k == Has(c, {"caps"})
           p == Pdu("caps", {}, 0)
           m == ProvInvite(c, "sent")
<1>1. p \in PduT /\ p.type = "caps" /\ p.type \in Types /\ "start" \in Types /\ "dev" \in Sides
  BY Constants DEF Types, Sides
<1>2. m = SendThen("dev", k, p, "start", "sent")
  BY DEF ProvInvite
<1>3. Sound(c) /\ Fit(c) /\ {"caps"} \in SUBSET Parts /\ c.id = 1
  BY DEF Noted, Parts
<1>4. /\ Sound(k) /\ Fit(k) /\ Apart(c, k) /\ k.inputs = c.inputs \cup {"caps"}
      /\ k.send = c.send /\ k.dhkey = c.dhkey /\ k.busy = c.busy
  BY <1>3, HasEff
<1> HIDE DEF k, p, m
<1>5. k.id = 1 /\ k.txid = 0
  BY <1>3, <1>4 DEF Apart, Noted, DAck
<1>6. /\ Handled(k, m) /\ Keeps(k, m) /\ m.tx.pdu = p
      /\ Says(m, NextId("dev", k).use) /\ m.txid = NextId("dev", k).keep /\ m.expect = "start"
  BY <1>1, <1>2, <1>4, <1>5, SendThenEff
<1>7. Says(m, 128) /\ m.txid = 128
  BY <1>5, <1>6, Numbers
<1>8. Handled(c, m) /\ m.prev = 0
  BY <1>4, <1>6, HandledTwice DEF Handled, Ear, Noted
<1>9. m.inputs = {"caps"} /\ m.active /\ NoKey(m)
  BY <1>4, <1>6 DEF Keeps, NoKey, Noted, DAck, Apart
<1>10. m.tx.pdu.type = "caps" /\ m.tx.xact = 128
  BY <1>1, <1>6, <1>7 DEF Says
<1>11. QED
  BY <1>6, <1>7, <1>8, <1>9, <1>10 DEF DCaps, DevAt, At, Told, Mute, m

\* prov_start.
LEMMA OnStart ==
  ASSUME NEW d, DCaps(d), NEW c, Noted(d, c, 1)
  PROVE  LET m == ProvStart(c)
         IN Handled(c, m) /\ DStart(m) /\ m.tx = c.tx /\ m.queue = c.queue
<1> DEFINE k == Has(c, {"start"})
           m == ProvStart(c)
<1>1. m = [k EXCEPT !.expect = "pubkey"]
  BY DEF ProvStart
<1>2. Sound(c) /\ Fit(c) /\ {"start"} \in SUBSET Parts /\ c.id = 1
  BY DEF Noted, Parts
<1>3. /\ Sound(k) /\ Fit(k) /\ Apart(c, k) /\ k.inputs = c.inputs \cup {"start"}
      /\ k.send = c.send /\ k.dhkey = c.dhkey /\ k.busy = c.busy
  BY <1>2, HasEff
<1> HIDE DEF k
<1>4. k \in LinkT
  BY <1>3 DEF Sound
<1>5. Apart(k, m) /\ Keeps(k, m) /\ m.expect = "pubkey"
  BY <1>1, <1>4 DEF LinkT, Apart, Ear, Keeps
<1> HIDE DEF m
<1>6. Handled(k, m)
  BY <1>3, <1>5, ApartEff DEF Handled, Apart
<1>7. Handled(c, m) /\ m.tx = c.tx /\ m.queue = c.queue /\ m.txid = c.txid /\ m.prev = 1
  BY <1>3, <1>5, <1>6, HandledTwice DEF Apart, Ear, Noted
<1>8. m.inputs = {"caps", "start"} /\ m.active /\ NoKey(m)
  BY <1>3, <1>5 DEF Keeps, NoKey, Noted, DCaps, DevAt, At, Apart
<1>9. QED
  BY <1>5, <1>7, <1>8 DEF DStart, DCaps, DevAt, At, Told, Mute, Noted, m

\* prov_pub_key of the device.
LEMMA OnDevPubKey ==
  ASSUME NEW d, DStart(d), NEW c, Noted(d, c, 2)
  PROVE  LET m == DevPubKey(c, "sent")
         IN Handled(c, m) /\ DPubKey(m) /\ Says(m, 129) /\ ~Mute(m)
<1> DEFINE k == Has(c, {"prv key", "dev key"})
           p == Pdu("pubkey", {}, 0)
           e == Send("dev", k, p, TRUE)
           m == DevPubKey(c, "sent")
<1>1. p \in PduT /\ p.type = "pubkey" /\ p.type \in Types /\ "dev" \in Sides
  BY Constants DEF Types, Sides
<1>2. m = GenDhKey("dev", e, "confirm", "sent")
  BY DEF DevPubKey, PduOk
<1>3. Sound(c) /\ Fit(c) /\ {"prv key", "dev key"} \in SUBSET Parts /\ c.id = 1
  BY DEF Noted, Parts
<1>4. /\ Sound(k) /\ Fit(k) /\ Apart(c, k) /\ k.inputs = c.inputs \cup {"prv key", "dev key"}
      /\ k.send = c.send /\ k.dhkey = c.dhkey /\ k.busy = c.busy
  BY <1>3, HasEff
<1> HIDE DEF k, p
<1>5. k.id = 1 /\ k.txid = 128
  BY <1>3, <1>4, ZenonT(30) DEF Apart, Noted, DStart, DevAt
<1>6. /\ Handled(k, e) /\ Sound(e) /\ Keeps(k, e) /\ e.tx.pdu = p
      /\ Says(e, NextId("dev", k).use) /\ e.txid = NextId("dev", k).keep
  <2>1. e = Send("dev", k, p, TRUE)
    OBVIOUS
  <2> HIDE DEF e, m
  <2>2. Sound(k) /\ Fit(k) /\ k.id = 1
    BY <1>4, <1>5
  <2>3. p \in PduT /\ p.type \in Types /\ "dev" \in Sides
    BY <1>1
  <2>4. QED
    BY <2>1, <2>2, <2>3, SendSays
<1>7. NextId("dev", k).use = 129 /\ NextId("dev", k).keep = 129
  BY <1>5, Numbers
<1> HIDE DEF e
<1>8. e \in LinkT /\ ~e.busy
  BY <1>4, <1>6 DEF Sound, Keeps, Noted, DStart, NoKey
<1>9. m = [e EXCEPT !.busy = TRUE, !.expect = "confirm"]
  BY <1>2, <1>8 DEF GenDhKey
<1>10. /\ Apart(e, m) /\ m.expect = "confirm" /\ m.busy = TRUE /\ m.inputs = e.inputs
       /\ m.send = e.send /\ m.dhkey = e.dhkey
  BY <1>8, <1>9 DEF LinkT, Apart, Ear
<1> HIDE DEF m
<1>11. Fit(m) /\ SameAcks(e, m)
  BY <1>6, <1>10, ApartEff DEF Handled
<1>12. Handled(k, m)
  BY <1>6, <1>10, <1>11 DEF Handled, Keeps, Apart, Ear, SameAcks
<1>13. Handled(c, m) /\ m.prev = 2
  <2>1. Handled(c, m)
    BY <1>4, <1>12, HandledTwice
  <2>2. QED
    BY <2>1 DEF Handled, Ear, Noted
<1>14. m.inputs = Parts /\ m.active /\ m.send = FALSE /\ m.dhkey = FALSE
  <2>1. k.inputs = Parts /\ ~k.send /\ ~k.dhkey /\ k.active
    BY <1>4 DEF Keeps, NoKey, Noted, DStart, DevAt, At, Apart, Parts
  <2>2. e.inputs = Parts /\ ~e.send /\ ~e.dhkey /\ e.active
    BY <1>6, <2>1 DEF Keeps
  <2>3. e.send \in BOOLEAN /\ e.dhkey \in BOOLEAN
    BY <1>8 DEF LinkT
  <2>4. QED
    BY <1>10, <2>2, <2>3 DEF Apart
<1>15. /\ m.tx.pdu.type = "pubkey" /\ m.tx.xact = 129 /\ m.tx.tries = 0 /\ m.txid = 129
       /\ HasSeg(m.queue, 0)
  BY <1>1, <1>6, <1>7, <1>10 DEF Apart, Says
<1>16. Says(m, 129)
  BY <1>15 DEF Says, Types
<1>17. QED
  BY <1>10, <1>13, <1>14, <1>15, <1>16 DEF DPubKey, DevAt, At, Told, Mute, m

-----------------------------------------------------------------------------
\* The device answers with its next transaction.
LEMMA DevReplies ==
  ASSUME NEW k, Sound(k), Fit(k), k.id = 1, NEW n \in 128..131, k.txid = n,
         NEW pdu \in PduT, pdu.type \in Types, NEW next \in Types
  PROVE  LET m == SendThen("dev", k, pdu, next, "sent")
         IN /\ Handled(k, m) /\ Sound(m) /\ Keeps(k, m) /\ m.tx.pdu = pdu /\ m.expect = next
            /\ Says(m, n + 1) /\ m.txid = n + 1 /\ Told(m, pdu.type, n + 1) /\ ~Mute(m)
<1> DEFINE m == SendThen("dev", k, pdu, next, "sent")
<1>1. "dev" \in Sides
  BY DEF Sides
<1>2. /\ Handled(k, m) /\ Sound(m) /\ Keeps(k, m) /\ m.tx.pdu = pdu /\ m.expect = next
      /\ Says(m, NextId("dev", k).use) /\ m.txid = NextId("dev", k).keep
  BY <1>1, SendThenEff
<1>3. NextId("dev", k).use = n + 1 /\ NextId("dev", k).keep = n + 1
  BY Numbers
<1> HIDE DEF m
<1>4. m.tx.xact = n + 1 /\ ~Mute(m)
  BY <1>2, <1>3 DEF Says, Types, Mute
<1>5. QED
  BY <1>2, <1>3, <1>4 DEF Told, m

\* The provisioner answers with its next transaction.
LEMMA PrvReplies ==
  ASSUME NEW k, Sound(k), Fit(k), k.id = 1, NEW n \in 0..5, k.txid = n,
         NEW pdu \in PduT, pdu.type \in Types, NEW next \in Types
  PROVE  LET m == SendThen("prv", k, pdu, next, "sent")
         IN /\ Handled(k, m) /\ Sound(m) /\ Keeps(k, m) /\ m.tx.pdu = pdu /\ m.expect = next
            /\ Says(m, n) /\ m.txid = n + 1 /\ Told(m, pdu.type, n) /\ ~Mute(m)
<1> DEFINE m == SendThen("prv", k, pdu, next, "sent")
<1>1. "prv" \in Sides
  BY DEF Sides
<1>2. /\ Handled(k, m) /\ Sound(m) /\ Keeps(k, m) /\ m.tx.pdu = pdu /\ m.expect = next
      /\ Says(m, NextId("prv", k).use) /\ m.txid = NextId("prv", k).keep
  BY <1>1, SendThenEff
<1>3. NextId("prv", k).use = n /\ NextId("prv", k).keep = n + 1
  BY Numbers
<1> HIDE DEF m
<1>4. m.tx.xact = n /\ ~Mute(m)
  BY <1>2, <1>3 DEF Says, Types, Mute
<1>5. QED
  BY <1>2, <1>3, <1>4 DEF Told, m

\* send_confirm of the device.
LEMMA DevConfirms ==
  ASSUME NEW k, Sound(k), Fit(k), k.id = 1, k.txid = 129, k.prev = 3, k.inputs = Parts,
         k.conf = Parts, ~k.busy, ~k.send, k.active
  PROVE  LET m == SendConfirm("dev", k, "sent")
         IN Handled(k, m) /\ DConfirm(m) /\ Says(m, 130) /\ ~Mute(m)
<1> DEFINE p == Pdu("confirm", Parts, 0)
           e == [k EXCEPT !.confkey = Parts]
           m == SendConfirm("dev", k, "sent")
<1>1. p \in PduT /\ p.type = "confirm" /\ p.type \in Types /\ p.key = Parts /\ "random" \in Types
  <2>1. "confirm" \in Types /\ "random" \in Types
    BY DEF Types
  <2>2. Parts \in SUBSET Parts /\ 0 \in Nat
    OBVIOUS
  <2>3. p \in PduT /\ p.type = "confirm" /\ p.key = Parts
    BY <2>1, <2>2, Constants
  <2>4. QED
    BY <2>1, <2>3
<1>2. m = SendThen("dev", e, p, "random", "sent")
  BY DEF SendConfirm
<1>3. k \in LinkT /\ Parts \in Key
  BY DEF Sound, Key
<1>4. e \in LinkT
  BY <1>3 DEF LinkT
<1>5. /\ Apart(k, e) /\ e.conf = k.conf /\ e.confkey = Parts /\ e.inputs = k.inputs
      /\ e.busy = k.busy /\ e.send = k.send
  BY <1>3 DEF LinkT, Apart, Ear
<1> HIDE DEF e, m, p
<1>6. Sound(e) /\ Fit(e) /\ e.id = 1 /\ e.txid = 129
  BY <1>4, <1>5, ApartEff DEF Apart
<1>7. 129 \in 128..131 /\ 129 + 1 = 130
  OBVIOUS
<1>8. /\ Handled(e, m) /\ Keeps(e, m) /\ m.tx.pdu = p /\ m.expect = "random"
      /\ Says(m, 130) /\ m.txid = 130 /\ Told(m, p.type, 130) /\ ~Mute(m)
  <2>1. p \in PduT /\ p.type \in Types /\ "random" \in Types
    BY <1>1
  <2>2. QED
    BY <1>2, <1>6, <1>7, <2>1, DevReplies
<1>9. Handled(k, m) /\ m.prev = 3
  <2>1. Handled(k, m)
    BY <1>5, <1>8, HandledTwice
  <2>2. QED
    BY <2>1 DEF Handled, Ear
<1>10. /\ m.inputs = Parts /\ m.conf = Parts /\ m.confkey = Parts /\ ~m.busy /\ ~m.send
       /\ m.active
  BY <1>5, <1>8 DEF Keeps, Apart
<1>11. m.tx.pdu.key = Parts /\ Told(m, "confirm", 130)
  BY <1>1, <1>8
<1>12. QED
  BY <1>8, <1>9, <1>10, <1>11 DEF DConfirm, DevAt, At, m

\* prov_confirm of the device.
LEMMA OnDevConfirm ==
  ASSUME NEW d, DPubKey(d), NEW c, Noted(d, c, 3), NEW pdu, pdu.key = Parts
  PROVE  LET m == DevConfirm(c, pdu, "sent")
         IN /\ Handled(c, m)
            /\ DHolds(m) \/ (DConfirm(m) /\ Says(m, 130) /\ ~Mute(m))
<1> DEFINE k == [c EXCEPT !.conf = Parts]
           m == DevConfirm(c, pdu, "sent")
<1>1. Sound(c) /\ Fit(c) /\ c.id = 1 /\ c \in LinkT /\ Parts \in Key
  BY DEF Noted, Sound, Key
<1>2. k \in LinkT
  BY <1>1 DEF LinkT
<1>3. /\ Apart(c, k) /\ k.conf = Parts /\ k.inputs = c.inputs /\ k.expect = c.expect
      /\ k.busy = c.busy /\ k.send = c.send /\ k.dhkey = c.dhkey
  BY <1>1 DEF LinkT, Apart, Ear
<1>4. m = IF ~c.dhkey THEN [ClearTx(k) EXCEPT !.send = TRUE] ELSE SendConfirm("dev", k, "sent")
  BY DEF DevConfirm
<1> HIDE DEF k, m
<1>5. Sound(k) /\ Fit(k)
  BY <1>1, <1>2, <1>3, ApartEff
<1>6. /\ c.inputs = Parts /\ ~c.send /\ c.busy = ~c.dhkey /\ c.txid = 129 /\ c.active
      /\ c.prev = 3 /\ c.expect = "confirm"
  BY DEF Noted, Keeps, DPubKey, DevAt, At
<1>7. CASE c.dhkey
  <2>1. /\ k.id = 1 /\ k.txid = 129 /\ k.prev = 3 /\ k.inputs = Parts /\ k.conf = Parts
        /\ ~k.busy /\ ~k.send /\ k.active
    BY <1>1, <1>3, <1>6, <1>7 DEF Apart, Ear
  <2>2. m = SendConfirm("dev", k, "sent")
    BY <1>4, <1>7
  <2>3. Handled(k, m) /\ DConfirm(m) /\ Says(m, 130) /\ ~Mute(m)
    BY <1>5, <2>1, <2>2, DevConfirms
  <2>4. Handled(c, m)
    BY <1>3, <2>3, HandledTwice
  <2>5. QED
    BY <2>3, <2>4 DEF m
<1>8. CASE ~c.dhkey
  <2> DEFINE e == ClearTx(k)
  <2>1. /\ Sound(e) /\ Fit(e) /\ Keeps(k, e) /\ Ear(k, e) /\ SameAcks(k, e)
        /\ e.tx = NoTx /\ Mute(e) /\ e.txid = k.txid /\ e.expect = k.expect
    BY <1>5, ClearEff
  <2>2. m = [e EXCEPT !.send = TRUE]
    BY <1>4, <1>8
  <2> HIDE DEF e
  <2>3. e \in LinkT
    BY <2>1 DEF Sound
  <2>4. /\ Apart(e, m) /\ m.conf = e.conf /\ m.inputs = e.inputs /\ m.expect = e.expect
        /\ m.busy = e.busy /\ m.send = TRUE /\ m.dhkey = e.dhkey
    BY <2>2, <2>3 DEF LinkT, Apart, Ear
  <2>5. Fit(m) /\ SameAcks(e, m)
    BY <2>1, <2>4, ApartEff
  <2>6. Handled(k, m)
    BY <2>1, <2>4, <2>5 DEF Handled, Keeps, Apart, Ear, SameAcks
  <2>7. Handled(c, m)
    BY <1>3, <2>6, HandledTwice
  <2>8. Mute(m) /\ m.txid = 129 /\ m.expect = "confirm"
    BY <1>3, <1>6, <2>1, <2>4 DEF Mute, Apart
  <2>9. m.prev = 3 /\ m.active
    BY <1>6, <2>7 DEF Handled, Ear
  <2>10. m.inputs = Parts /\ m.conf = Parts /\ m.busy /\ ~m.dhkey /\ m.send
    BY <1>3, <1>6, <1>8, <2>1, <2>4, ZenonT(30) DEF Keeps
  <2>11. DHolds(m)
    BY <2>8, <2>9, <2>10 DEF DHolds, DevAt, At, Told
  <2>12. QED
    BY <2>7, <2>11 DEF m
<1>9. QED
  BY <1>7, <1>8

\* prov_random of the device.
LEMMA OnDevRandom ==
  ASSUME NEW d, DConfirm(d), NEW c, Noted(d, c, 4)
  PROVE  LET m == DevRandom(c, "sent")
         IN Handled(c, m) /\ DRandom(m) /\ Says(m, 131) /\ ~Mute(m)
<1> DEFINE p == Pdu("random", {}, 0)
           m == DevRandom(c, "sent")
<1>1. p \in PduT /\ p.type = "random" /\ p.type \in Types /\ "data" \in Types
  BY Constants DEF Types
<1>2. /\ c.inputs = Parts /\ ~c.send /\ ~c.busy /\ c.txid = 130 /\ c.active
      /\ c.prev = 4 /\ c.conf = Parts /\ c.confkey = Parts
  BY DEF Noted, Keeps, DConfirm, DevAt, At
<1>3. m = SendThen("dev", c, p, "data", "sent")
  BY <1>2 DEF DevRandom
<1>4. Sound(c) /\ Fit(c) /\ c.id = 1 /\ c.txid = 130
  BY <1>2 DEF Noted
<1>5. 130 \in 128..131 /\ 130 + 1 = 131
  OBVIOUS
<1> HIDE DEF m, p
<1>6. /\ Handled(c, m) /\ Keeps(c, m) /\ m.expect = "data"
      /\ Says(m, 131) /\ m.txid = 131 /\ Told(m, p.type, 131) /\ ~Mute(m)
  <2>1. p \in PduT /\ p.type \in Types /\ "data" \in Types
    BY <1>1
  <2>2. QED
    BY <1>3, <1>4, <1>5, <2>1, DevReplies
<1>7. m.prev = 4
  BY <1>2, <1>6 DEF Handled, Ear
<1>8. /\ m.inputs = Parts /\ m.conf = Parts /\ m.confkey = Parts /\ ~m.busy /\ ~m.send
      /\ m.active
  BY <1>2, <1>6 DEF Keeps
<1>9. Told(m, "random", 131)
  BY <1>1, <1>6
<1>10. DRandom(m)
  BY <1>6, <1>7, <1>8, <1>9 DEF DRandom, DevAt, At
<1>11. QED
  BY <1>6, <1>10 DEF m

\* prov_data.
LEMMA OnDevData ==
  ASSUME NEW d, DRandom(d), NEW c, Noted(d, c, 5), NEW pdu, pdu.key = Parts
  PROVE  LET m == DevData(c, pdu, "sent")
         IN Handled(c, m) /\ DComplete(m) /\ Says(m, 132) /\ ~Mute(m)
<1> DEFINE p == Pdu("complete", {}, 0)
           m == DevData(c, pdu, "sent")
<1>1. p \in PduT /\ p.type = "complete" /\ p.type \in Types /\ "invite" \in Types
  BY Constants DEF Types
<1>2. /\ c.inputs = Parts /\ ~c.send /\ ~c.busy /\ c.txid = 131 /\ c.active
      /\ c.prev = 5 /\ c.conf = Parts /\ c.confkey = Parts
  BY DEF Noted, Keeps, DRandom, DevAt, At
<1>3. m = SendThen("dev", c, p, "invite", "sent")
  <2>1. PduOk("sent") = TRUE
    BY DEF PduOk
  <2>2. m = [Send("dev", c, p, PduOk("sent")) EXCEPT !.expect = "invite"]
    BY <1>2 DEF DevData, Decrypts
  <2>3. m = [Send("dev", c, p, TRUE) EXCEPT !.expect = "invite"]
    BY <2>1, <2>2, Zenon
  <2>4. QED
    BY <2>1, <2>3 DEF SendThen
<1>4. Sound(c) /\ Fit(c) /\ c.id = 1 /\ c.txid = 131
  BY <1>2 DEF Noted
<1>5. 131 \in 128..131 /\ 131 + 1 = 132
  OBVIOUS
<1> HIDE DEF m, p
<1>6. /\ Handled(c, m) /\ Keeps(c, m) /\ m.expect = "invite"
      /\ Says(m, 132) /\ m.txid = 132 /\ Told(m, p.type, 132) /\ ~Mute(m)
  <2>1. p \in PduT /\ p.type \in Types /\ "invite" \in Types
    BY <1>1
  <2>2. QED
    BY <1>3, <1>4, <1>5, <2>1, DevReplies
<1>7. m.prev = 5
  BY <1>2, <1>6 DEF Handled, Ear
<1>8. m.inputs = Parts /\ ~m.busy /\ ~m.send /\ m.active
  BY <1>2, <1>6 DEF Keeps
<1>9. Told(m, "complete", 132)
  BY <1>1, <1>6
<1>10. DComplete(m)
  BY <1>6, <1>7, <1>8, <1>9 DEF DComplete, DevAt, At
<1>11. QED
  BY <1>6, <1>10 DEF m

\* prov_dh_key_cb of the device.
LEMMA OnDevKey ==
  ASSUME NEW d, Sound(d), Fit(d), d.id = 1, DPubKey(d) \/ DHolds(d), d.busy
  PROVE  LET l == [d EXCEPT !.dhkey = TRUE, !.busy = FALSE]
         IN IF l.send
            THEN LET m == SendConfirm("dev", [l EXCEPT !.send = FALSE], "sent")
                 IN DHolds(d) /\ Handled(d, m) /\ DConfirm(m) /\ Says(m, 130) /\ ~Mute(m)
            ELSE DPubKey(d) /\ Handled(d, l) /\ DPubKey(l) /\ l.tx = d.tx /\ l.queue = d.queue
<1> DEFINE l == [d EXCEPT !.dhkey = TRUE, !.busy = FALSE]
           k == [l EXCEPT !.send = FALSE]
<1>1. d \in LinkT
  BY DEF Sound
<1>2. l \in LinkT /\ k \in LinkT
  BY <1>1 DEF LinkT
<1>3. /\ Apart(d, l) /\ l.conf = d.conf /\ l.inputs = d.inputs /\ l.expect = d.expect
      /\ l.busy = FALSE /\ l.send = d.send /\ l.dhkey = TRUE
  BY <1>1 DEF LinkT, Apart, Ear
<1>4. /\ Apart(d, k) /\ k.conf = d.conf /\ k.inputs = d.inputs
      /\ k.busy = FALSE /\ k.send = FALSE
  BY <1>1 DEF LinkT, Apart, Ear
<1> HIDE DEF l, k
<1>5. Fit(l) /\ SameAcks(d, l) /\ Sound(k) /\ Fit(k) /\ SameAcks(d, k)
  BY <1>2, <1>3, <1>4, ApartEff
<1>6. CASE ~l.send
  <2>1. DPubKey(d)
    BY <1>3, <1>6 DEF DHolds
  <2>2. DPubKey(l)
    BY <1>3, <2>1, ZenonT(30) DEF DPubKey, DevAt, At, Told, Mute, Apart, Ear
  <2>3. QED
    BY <1>3, <1>5, <1>6, <2>1, <2>2 DEF Handled, Apart, l
<1>7. CASE l.send
  <2> DEFINE m == SendConfirm("dev", k, "sent")
  <2>1. DHolds(d)
    BY <1>3, <1>7 DEF DPubKey
  <2>2. /\ k.id = 1 /\ k.txid = 129 /\ k.prev = 3 /\ k.inputs = Parts /\ k.conf = Parts
        /\ ~k.busy /\ ~k.send /\ k.active
    BY <1>4, <2>1 DEF DHolds, DevAt, At, Apart, Ear
  <2>3. Handled(k, m) /\ DConfirm(m) /\ Says(m, 130) /\ ~Mute(m)
    BY <1>5, <2>2, DevConfirms
  <2> HIDE DEF m
  <2>4. Handled(d, m)
    BY <1>4, <2>3, HandledTwice
  <2>5. QED
    BY <1>7, <2>1, <2>3, <2>4 DEF m, k, l
<1>8. QED
  BY <1>6, <1>7

-----------------------------------------------------------------------------
\* link_ack: the provisioner sends the invitation.
LEMMA OnLinkAck ==
  ASSUME NEW p, POpen(p), Sound(p), Fit(p), p.id = 1
  PROVE  LET m == SendInvite(p, "sent")
         IN Handled(p, m) /\ PInvite(m) /\ Says(m, 0) /\ ~Mute(m)
<1> DEFINE u == Pdu("invite", {}, 0)
           m == SendInvite(p, "sent")
<1>1. u \in PduT /\ u.type = "invite" /\ u.type \in Types /\ "caps" \in Types
  BY Constants DEF Types
<1>2. m = SendThen("prv", p, u, "caps", "sent")
  BY DEF SendInvite
<1>3. p.txid = 0 /\ p.prev = XACT_NVAL /\ p.inputs = {} /\ ~p.busy /\ ~p.await
  BY DEF POpen
<1>4. 0 \in 0..5 /\ 0 + 1 = 1
  OBVIOUS
<1> HIDE DEF m, u
<1>5. /\ Handled(p, m) /\ Keeps(p, m) /\ m.expect = "caps"
      /\ Says(m, 0) /\ m.txid = 1 /\ Told(m, u.type, 0) /\ ~Mute(m)
  <2>1. u \in PduT /\ u.type \in Types /\ "caps" \in Types
    BY <1>1
  <2>2. QED
    BY <1>2, <1>3, <1>4, <2>1, PrvReplies
<1>6. m.prev = XACT_NVAL /\ m.inputs = {} /\ ~m.busy /\ ~m.await
  BY <1>3, <1>5 DEF Handled, Ear, Keeps
<1>7. Told(m, "invite", 0)
  BY <1>1, <1>5
<1>8. PInvite(m)
  BY <1>4, <1>5, <1>6, <1>7 DEF PInvite, PrvAt, At
<1>9. QED
  BY <1>5, <1>8 DEF m

\* prov_capabilities.
LEMMA OnCaps ==
  ASSUME NEW p, PInvite(p), NEW c, Noted(p, c, 128)
  PROVE  LET m == ProvCapabilities(c, "sent")
         IN Handled(c, m) /\ PStart(m) /\ Says(m, 1)
<1> DEFINE k == Has(c, {"caps", "start"})
           u == Pdu("start", {}, 0)
           e == SendThen("prv", k, u, c.expect, "sent")
           m == ProvCapabilities(c, "sent")
<1>1. u \in PduT /\ u.type = "start" /\ u.type \in Types /\ "caps" \in Types
  BY Constants DEF Types
<1>2. m = [e EXCEPT !.await = TRUE]
  BY DEF ProvCapabilities, PduOk
<1>3. Sound(c) /\ Fit(c) /\ {"caps", "start"} \in SUBSET Parts /\ c.id = 1
  BY DEF Noted, Parts
<1>4. /\ Sound(k) /\ Fit(k) /\ Apart(c, k) /\ k.inputs = c.inputs \cup {"caps", "start"}
      /\ k.busy = c.busy
  BY <1>3, HasEff
<1>5. c.txid = 1 /\ c.prev = 128 /\ c.inputs = {} /\ ~c.busy /\ c.expect = "caps"
  BY DEF Noted, PInvite, PrvAt, At, Keeps
<1> HIDE DEF k, u, m
<1>6. k.id = 1 /\ k.txid = 1 /\ k.inputs = {"caps", "start"} /\ ~k.busy /\ k.prev = 128
  BY <1>3, <1>4, <1>5 DEF Apart, Ear
<1>7. 1 \in 0..5 /\ 1 + 1 = 2
  OBVIOUS
<1>8. /\ Handled(k, e) /\ Sound(e) /\ Keeps(k, e) /\ e.expect = "caps"
      /\ Says(e, 1) /\ e.txid = 2 /\ Told(e, u.type, 1) /\ ~Mute(e)
  <2>1. u \in PduT /\ u.type \in Types /\ "caps" \in Types
    BY <1>1
  <2>2. Sound(k) /\ Fit(k) /\ k.id = 1 /\ k.txid = 1
    BY <1>4, <1>6
  <2>3. e = SendThen("prv", k, u, "caps", "sent")
    BY <1>5
  <2> HIDE DEF e
  <2>4. QED
    BY <1>7, <2>1, <2>2, <2>3, PrvReplies
<1> HIDE DEF e
<1>9. e \in LinkT
  BY <1>8 DEF Sound
<1>10. /\ Apart(e, m) /\ m.expect = e.expect /\ m.await = TRUE /\ m.busy = e.busy
       /\ m.inputs = e.inputs
  BY <1>2, <1>9 DEF LinkT, Apart, Ear
<1>11. Fit(m) /\ SameAcks(e, m)
  BY <1>8, <1>10, ApartEff DEF Handled
<1>12. Handled(k, m)
  BY <1>8, <1>10, <1>11 DEF Handled, Apart, Ear, SameAcks
<1>13. Handled(c, m) /\ m.prev = 128
  <2>1. Handled(c, m)
    BY <1>4, <1>12, HandledTwice
  <2>2. QED
    BY <1>5, <2>1 DEF Handled, Ear
<1>14. Says(m, 1) /\ Told(m, "start", 1) /\ ~Mute(m) /\ m.txid = 2
  BY <1>1, <1>8, <1>10 DEF Says, Told, Mute, Apart
<1>15. m.inputs = {"caps", "start"} /\ ~m.busy /\ m.await /\ m.expect = "caps"
  BY <1>6, <1>8, <1>10 DEF Keeps
<1>16. PStart(m)
  BY <1>7, <1>13, <1>14, <1>15 DEF PStart, PrvAt, At
<1>17. QED
  BY <1>13, <1>14, <1>16 DEF m

\* The start is acknowledged: the provisioner sends its public key.
LEMMA OnStartAck ==
  ASSUME NEW p, PStart(p), Sound(p), Fit(p), p.id = 1
  PROVE  LET m == AckRecv("prv", p, 1, "sent")
         IN Handled(p, m) /\ PPubKey(m) /\ Says(m, 2) /\ ~Mute(m)
<1> DEFINE f == ClearTx(p)
           k == Has(f, {"prv key"})
           u == Pdu("pubkey", {}, 0)
           e == Send("prv", k, u, TRUE)
           m == AckRecv("prv", p, 1, "sent")
<1>1. u \in PduT /\ u.type = "pubkey" /\ u.type \in Types /\ "prv" \in Sides
  BY Constants DEF Types, Sides
<1>2. /\ p.txid = 2 /\ p.prev = 128 /\ p.inputs = {"caps", "start"} /\ ~p.busy /\ p.await
      /\ ~Mute(p)
  BY DEF PStart, PrvAt, At
<1>3. m = [e EXCEPT !.expect = "pubkey", !.await = FALSE]
  <2>1. p.tx # NoTx
    BY <1>2, Constants DEF Mute
  <2>2. ~(p.txid = 0 \/ 1 # p.txid - 1)
    BY <1>2
  <2>3. m = [Send("prv", k, u, PduOk("sent")) EXCEPT !.expect = "pubkey", !.await = FALSE]
    BY <1>2, <2>1, <2>2, Zenon DEF AckRecv
  <2>4. PduOk("sent") = TRUE
    BY DEF PduOk
  <2>5. QED
    BY <2>3, <2>4, Zenon
<1>4. /\ Sound(f) /\ Fit(f) /\ Keeps(p, f) /\ Ear(p, f) /\ SameAcks(p, f) /\ f.txid = p.txid
  BY ClearEff
<1> HIDE DEF f, m, u
<1>5. /\ Sound(k) /\ Fit(k) /\ Apart(f, k) /\ k.inputs = f.inputs \cup {"prv key"}
      /\ k.busy = f.busy
  <2>1. {"prv key"} \in SUBSET Parts
    BY DEF Parts
  <2>2. QED
    BY <1>4, <2>1, HasEff
<1> HIDE DEF k
<1>6. /\ k.id = 1 /\ k.txid = 2 /\ k.inputs = {"caps", "start", "prv key"} /\ ~k.busy
      /\ k.prev = 128
  <2>1. f.id = 1 /\ f.txid = 2 /\ f.inputs = {"caps", "start"} /\ ~f.busy /\ f.prev = 128
    BY <1>2, <1>4 DEF Ear, Keeps
  <2>2. k.id = 1 /\ k.txid = 2 /\ ~k.busy /\ k.prev = 128
    BY <1>5, <2>1 DEF Apart, Ear
  <2>3. k.inputs = {"caps", "start"} \cup {"prv key"}
    BY <1>5, <2>1
  <2>4. {"caps", "start"} \cup {"prv key"} = {"caps", "start", "prv key"}
    OBVIOUS
  <2>5. QED
    BY <2>2, <2>3, <2>4
<1>7. /\ Handled(k, e) /\ Sound(e) /\ Keeps(k, e) /\ e.tx.pdu = u
      /\ Says(e, NextId("prv", k).use) /\ e.txid = NextId("prv", k).keep
  <2>1. e = Send("prv", k, u, TRUE)
    OBVIOUS
  <2>2. Sound(k) /\ Fit(k) /\ k.id = 1
    BY <1>5, <1>6
  <2>3. u \in PduT /\ u.type \in Types /\ "prv" \in Sides
    BY <1>1
  <2> HIDE DEF e
  <2>4. QED
    BY <2>1, <2>2, <2>3, SendSays
<1> HIDE DEF e
<1>8. Says(e, 2) /\ e.txid = 3 /\ e \in LinkT
  <2>1. NextId("prv", k).use = 2 /\ NextId("prv", k).keep = 3
    <3>1. 2 \in 0..5 /\ 2 + 1 = 3
      OBVIOUS
    <3>2. k.txid = 2
      BY <1>6
    <3>3. QED
      BY <3>1, <3>2, Numbers
  <2>2. QED
    BY <1>7, <2>1 DEF Sound
<1>9. /\ Apart(e, m) /\ m.expect = "pubkey" /\ m.await = FALSE /\ m.busy = e.busy
      /\ m.inputs = e.inputs
  BY <1>3, <1>8 DEF LinkT, Apart, Ear
<1>10. Fit(m) /\ SameAcks(e, m)
  BY <1>7, <1>9, ApartEff DEF Handled
<1>11. Handled(k, m)
  BY <1>7, <1>9, <1>10 DEF Handled, Apart, Ear, SameAcks
<1>12. Handled(f, m)
  BY <1>5, <1>11, HandledTwice
<1>13. Handled(p, m) /\ m.prev = 128
  BY <1>2, <1>4, <1>12 DEF Handled, Ear, SameAcks, Keeps
<1>14. Says(m, 2) /\ Told(m, "pubkey", 2) /\ ~Mute(m) /\ m.txid = 3
  BY <1>1, <1>7, <1>8, <1>9 DEF Says, Told, Mute, Apart
<1>15. m.inputs = {"caps", "start", "prv key"} /\ ~m.busy /\ ~m.await
  BY <1>6, <1>7, <1>9 DEF Keeps
<1>16. PPubKey(m)
  <2>1. m.txid = 2 + 1
    BY <1>14
  <2>2. At(m, "pubkey", 2, "pubkey", 128, {"caps", "start", "prv key"})
    BY <1>9, <1>13, <1>14, <1>15 DEF At
  <2>3. QED
    BY <1>15, <2>1, <2>2 DEF PPubKey, PrvAt
<1>17. QED
  BY <1>13, <1>14, <1>16 DEF m

\* prov_pub_key of the provisioner.
LEMMA OnPrvPubKey ==
  ASSUME NEW p, PPubKey(p), NEW c, Noted(p, c, 129)
  PROVE  LET m == GenDhKey("prv", Has(c, {"dev key"}), c.expect, "sent")
         IN Handled(c, m) /\ PComputes(m) /\ m.tx = c.tx /\ m.queue = c.queue
<1> DEFINE k == Has(c, {"dev key"})
           m == GenDhKey("prv", k, c.expect, "sent")
<1>1. Sound(c) /\ Fit(c) /\ {"dev key"} \in SUBSET Parts /\ c.id = 1
  BY DEF Noted, Parts
<1>2. /\ Sound(k) /\ Fit(k) /\ Apart(c, k) /\ k.inputs = c.inputs \cup {"dev key"}
      /\ k.busy = c.busy /\ k.await = c.await
  BY <1>1, HasEff
<1>3. /\ c.txid = 3 /\ c.prev = 129 /\ c.inputs = {"caps", "start", "prv key"} /\ ~c.busy
      /\ ~c.await /\ c.expect = "pubkey" /\ Told(c, "pubkey", 2)
  <2>1. /\ p.txid = 2 + 1 /\ p.inputs = {"caps", "start", "prv key"} /\ ~p.busy
        /\ ~p.await /\ p.expect = "pubkey" /\ Told(p, "pubkey", 2)
    BY DEF PPubKey, PrvAt, At
  <2>2. 2 + 1 = 3
    OBVIOUS
  <2>3. /\ c.txid = p.txid /\ c.prev = 129 /\ c.inputs = p.inputs /\ c.busy = p.busy
        /\ c.await = p.await /\ c.expect = p.expect /\ c.tx = p.tx
    BY DEF Noted, Keeps
  <2>4. Told(c, "pubkey", 2)
    BY <2>1, <2>3 DEF Told, Mute
  <2>5. QED
    BY <2>1, <2>2, <2>3, <2>4
<1> HIDE DEF k
<1>4. k \in LinkT /\ ~k.busy /\ ~k.await /\ k.inputs = Parts
  BY <1>2, <1>3 DEF Sound, Parts
<1>5. m = [k EXCEPT !.busy = TRUE, !.expect = "pubkey"]
  BY <1>3, <1>4 DEF GenDhKey
<1>6. /\ Apart(k, m) /\ m.expect = "pubkey" /\ m.await = k.await /\ m.busy = TRUE
      /\ m.inputs = k.inputs
  BY <1>4, <1>5 DEF LinkT, Apart, Ear
<1> HIDE DEF m
<1>7. Fit(m) /\ SameAcks(k, m)
  BY <1>2, <1>6, ApartEff
<1>8. Handled(k, m)
  BY <1>6, <1>7 DEF Handled, Apart
<1>9. Handled(c, m) /\ m.prev = 129
  <2>1. Handled(c, m)
    BY <1>2, <1>8, HandledTwice
  <2>2. QED
    BY <1>3, <2>1 DEF Handled, Ear
<1>10. m.tx = c.tx /\ m.queue = c.queue /\ m.txid = 3 /\ Told(m, "pubkey", 2)
  <2>1. m.tx = c.tx /\ m.queue = c.queue /\ m.txid = c.txid
    BY <1>2, <1>6 DEF Apart
  <2>2. QED
    BY <1>3, <2>1 DEF Told, Mute
<1>11. PComputes(m)
  <2>1. m.txid = 2 + 1
    BY <1>10
  <2>2. At(m, "pubkey", 2, "pubkey", 129, Parts)
    BY <1>4, <1>6, <1>9, <1>10 DEF At
  <2>3. QED
    BY <1>4, <1>6, <2>1, <2>2 DEF PComputes, PrvAt
<1>12. QED
  BY <1>9, <1>10, <1>11 DEF m, k

-----------------------------------------------------------------------------
\* prov_confirmation of the provisioner.
LEMMA OnPrvConfirm ==
  ASSUME NEW p, PConfirm(p), NEW c, Noted(p, c, 130), NEW pdu, pdu.key = Parts
  PROVE  LET m == PrvConfirm(c, pdu, "sent")
         IN Handled(c, m) /\ PRandom(m) /\ Says(m, 4) /\ ~Mute(m)
<1> DEFINE k == [c EXCEPT !.conf = Parts]
           u == Pdu("random", {}, 0)
           m == PrvConfirm(c, pdu, "sent")
<1>1. u \in PduT /\ u.type = "random" /\ u.type \in Types /\ "random" \in Types
  BY Constants DEF Types
<1>2. m = SendThen("prv", k, u, "random", "sent")
  BY DEF PrvConfirm
<1>3. Sound(c) /\ Fit(c) /\ c.id = 1 /\ c \in LinkT /\ Parts \in Key
  BY DEF Noted, Sound, Key
<1>4. k \in LinkT
  BY <1>3 DEF LinkT
<1>5. /\ Apart(c, k) /\ k.conf = Parts /\ k.inputs = c.inputs /\ k.confkey = c.confkey
      /\ k.busy = c.busy /\ k.await = c.await
  BY <1>3 DEF LinkT, Apart, Ear
<1> HIDE DEF k, u, m
<1>6. Sound(k) /\ Fit(k)
  BY <1>3, <1>4, <1>5, ApartEff
<1>7. 4 \in 0..5 /\ 4 + 1 = 5 /\ 3 + 1 = 4
  OBVIOUS
<1>8. /\ c.txid = 4 /\ c.prev = 130 /\ c.inputs = Parts /\ ~c.busy /\ ~c.await
      /\ c.confkey = Parts
  <2>1. /\ p.txid = 3 + 1 /\ p.inputs = Parts /\ ~p.busy /\ ~p.await /\ p.confkey = Parts
    BY DEF PConfirm, PrvAt, At
  <2>2. /\ c.txid = p.txid /\ c.prev = 130 /\ c.inputs = p.inputs /\ c.busy = p.busy
        /\ c.await = p.await /\ c.confkey = p.confkey
    BY DEF Noted, Keeps
  <2>3. QED
    BY <1>7, <2>1, <2>2
<1>9. k.id = 1 /\ k.txid = 4
  BY <1>3, <1>5, <1>8 DEF Apart
<1>10. /\ Handled(k, m) /\ Keeps(k, m) /\ m.expect = "random"
       /\ Says(m, 4) /\ m.txid = 4 + 1 /\ Told(m, u.type, 4) /\ ~Mute(m)
  <2>1. u \in PduT /\ u.type \in Types /\ "random" \in Types
    BY <1>1
  <2>2. QED
    BY <1>2, <1>6, <1>7, <1>9, <2>1, PrvReplies
<1>11. Handled(c, m)
  BY <1>5, <1>10, HandledTwice
<1>12. m.prev = 130
  BY <1>8, <1>11 DEF Handled, Ear
<1>13. m.inputs = Parts /\ m.conf = Parts /\ m.confkey = Parts /\ ~m.busy /\ ~m.await
  BY <1>5, <1>8, <1>10 DEF Keeps
<1>14. At(m, "random", 4, "random", 130, Parts)
  BY <1>1, <1>10, <1>12, <1>13 DEF At
<1>15. PRandom(m)
  BY <1>10, <1>13, <1>14 DEF PRandom, PrvAt
<1>16. QED
  BY <1>10, <1>11, <1>15 DEF m

\* prov_random of the provisioner, and send_prov_data.
LEMMA OnPrvRandom ==
  ASSUME NEW p, PRandom(p), NEW c, Noted(p, c, 131), netkey
  PROVE  LET m == PrvRandom(c, "sent")
         IN Handled(c, m) /\ PData(m) /\ Says(m, 5) /\ ~Mute(m)
<1> DEFINE k == [c EXCEPT !.given = c.alloc]
           u == Pdu("data", c.confkey, c.alloc)
           e == SendThen("prv", k, u, "complete", "sent")
           m == PrvRandom(c, "sent")
<1>1. Sound(c) /\ Fit(c) /\ c.id = 1 /\ c \in LinkT
  BY DEF Noted, Sound
<1>2. c.alloc \in Nat /\ c.alloc # 0 /\ c.confkey \in SUBSET Parts
  BY <1>1 DEF LinkT, Alloc, Key
<1>3. 5 \in 0..5 /\ 5 + 1 = 6 /\ 4 + 1 = 5
  OBVIOUS
<1>4. /\ c.txid = 5 /\ c.prev = 131 /\ c.inputs = Parts /\ ~c.busy /\ ~c.await
      /\ c.confkey = Parts /\ c.conf = Parts
  <2>1. /\ p.txid = 4 + 1 /\ p.inputs = Parts /\ ~p.busy /\ ~p.await /\ p.confkey = Parts
        /\ p.conf = Parts
    BY DEF PRandom, PrvAt, At
  <2>2. /\ c.txid = p.txid /\ c.prev = 131 /\ c.inputs = p.inputs /\ c.busy = p.busy
        /\ c.await = p.await /\ c.confkey = p.confkey /\ c.conf = p.conf
    BY DEF Noted, Keeps
  <2>3. QED
    BY <1>3, <2>1, <2>2
<1>5. u \in PduT /\ u.type = "data" /\ u.type \in Types /\ u.key = Parts /\ "complete" \in Types
  BY <1>2, <1>4, Constants DEF Types
<1>6. m = [e EXCEPT !.alloc = @ + 1]
  BY <1>4 DEF PrvRandom, Verifies, SendProvData, PduOk
<1>7. k \in LinkT
  BY <1>1, <1>2 DEF LinkT
<1>8. /\ Apart(c, k) /\ k.inputs = c.inputs /\ k.confkey = c.confkey
      /\ k.busy = c.busy /\ k.await = c.await /\ k.given = c.alloc
  BY <1>1 DEF LinkT, Apart, Ear
<1> HIDE DEF k, u, m
<1>9. Sound(k) /\ Fit(k)
  BY <1>1, <1>7, <1>8, ApartEff
<1>10. k.id = 1 /\ k.txid = 5
  BY <1>1, <1>4, <1>8 DEF Apart
<1>11. /\ Handled(k, e) /\ Sound(e) /\ Keeps(k, e) /\ e.expect = "complete" /\ e.tx.pdu = u
       /\ Says(e, 5) /\ e.txid = 5 + 1 /\ Told(e, u.type, 5) /\ ~Mute(e)
  <2>1. u \in PduT /\ u.type \in Types /\ "complete" \in Types
    BY <1>5
  <2>2. QED
    BY <1>3, <1>9, <1>10, <2>1, PrvReplies
<1> HIDE DEF e
<1>12. e \in LinkT
  BY <1>11 DEF Sound
<1>13. /\ Apart(e, m) /\ m.expect = e.expect /\ m.await = e.await /\ m.busy = e.busy
       /\ m.inputs = e.inputs /\ m.given = e.given
  BY <1>6, <1>12 DEF LinkT, Apart, Ear
<1>14. Fit(m) /\ SameAcks(e, m)
  BY <1>11, <1>13, ApartEff DEF Handled
<1>15. Handled(k, m)
  BY <1>11, <1>13, <1>14 DEF Handled, Apart, Ear, SameAcks
<1>16. Handled(c, m)
  BY <1>8, <1>15, HandledTwice
<1>17. m.prev = 131
  BY <1>4, <1>16 DEF Handled, Ear
<1>18. /\ Says(m, 5) /\ Told(m, "data", 5) /\ ~Mute(m) /\ m.txid = 5 + 1 /\ m.expect = "complete"
       /\ m.tx.pdu.key = Parts
  <2>1. m.tx = e.tx /\ m.queue = e.queue /\ m.txid = e.txid
    BY <1>13 DEF Apart
  <2>2. QED
    BY <1>5, <1>11, <1>13, <2>1 DEF Says, Told, Mute
<1>19. m.inputs = Parts /\ m.given # 0 /\ ~m.busy /\ ~m.await
  BY <1>2, <1>4, <1>8, <1>11, <1>13 DEF Keeps
<1>20. At(m, "data", 5, "complete", 131, Parts)
  BY <1>17, <1>18, <1>19 DEF At
<1>21. PData(m)
  BY <1>18, <1>19, <1>20 DEF PData, PrvAt
<1>22. QED
  BY <1>16, <1>18, <1>21 DEF m

\* prov_dh_key_cb of the provisioner.
LEMMA OnPrvKey ==
  ASSUME NEW p, PComputes(p), Sound(p), Fit(p), p.id = 1
  PROVE  LET m == SendConfirm("prv", [p EXCEPT !.dhkey = TRUE, !.busy = FALSE], "sent")
         IN Handled(p, m) /\ PConfirm(m) /\ Says(m, 3) /\ ~Mute(m)
<1> DEFINE l == [p EXCEPT !.dhkey = TRUE, !.busy = FALSE]
           k == [l EXCEPT !.confkey = Parts]
           u == Pdu("confirm", Parts, 0)
           m == SendConfirm("prv", l, "sent")
<1>1. u \in PduT /\ u.type = "confirm" /\ u.type \in Types /\ u.key = Parts /\ "confirm" \in Types
  <2>1. "confirm" \in Types
    BY DEF Types
  <2>2. Parts \in SUBSET Parts /\ 0 \in Nat
    OBVIOUS
  <2>3. u \in PduT /\ u.type = "confirm" /\ u.key = Parts
    BY <2>1, <2>2, Constants
  <2>4. QED
    BY <2>1, <2>3
<1>2. p \in LinkT /\ Parts \in Key
  BY DEF Sound, Key
<1>3. 3 \in 0..5 /\ 3 + 1 = 4 /\ 2 + 1 = 3
  OBVIOUS
<1>4. p.txid = 3 /\ p.prev = 129 /\ p.inputs = Parts /\ ~p.await
  <2>1. p.txid = 2 + 1 /\ p.prev = 129 /\ p.inputs = Parts /\ ~p.await
    BY DEF PComputes, PrvAt, At
  <2>2. QED
    BY <1>3, <2>1
<1>5. l.inputs = Parts
  BY <1>2, <1>4 DEF LinkT
<1>6. m = SendThen("prv", k, u, "confirm", "sent")
  BY <1>5 DEF SendConfirm
<1>7. k \in LinkT
  BY <1>2 DEF LinkT
<1>8. /\ Apart(p, k) /\ k.inputs = p.inputs /\ k.confkey = Parts /\ k.busy = FALSE
      /\ k.await = p.await
  BY <1>2 DEF LinkT, Apart, Ear
<1> HIDE DEF k, l, u, m
<1>9. Sound(k) /\ Fit(k)
  BY <1>7, <1>8, ApartEff
<1>10. k.id = 1 /\ k.txid = 3
  BY <1>4, <1>8 DEF Apart
<1>11. /\ Handled(k, m) /\ Keeps(k, m) /\ m.expect = "confirm" /\ m.tx.pdu = u
       /\ Says(m, 3) /\ m.txid = 3 + 1 /\ Told(m, u.type, 3) /\ ~Mute(m)
  <2>1. u \in PduT /\ u.type \in Types /\ "confirm" \in Types
    BY <1>1
  <2>2. QED
    BY <1>3, <1>6, <1>9, <1>10, <2>1, PrvReplies
<1>12. Handled(p, m)
  BY <1>8, <1>11, HandledTwice
<1>13. m.prev = 129
  BY <1>4, <1>12 DEF Handled, Ear
<1>14. m.inputs = Parts /\ m.confkey = Parts /\ ~m.busy /\ ~m.await
  BY <1>4, <1>8, <1>11 DEF Keeps
<1>15. At(m, "confirm", 3, "confirm", 129, Parts)
  BY <1>1, <1>11, <1>13, <1>14 DEF At
<1>16. PConfirm(m)
  BY <1>1, <1>11, <1>14, <1>15 DEF PConfirm, PrvAt
<1>17. QED
  BY <1>11, <1>12, <1>16 DEF m, l

-----------------------------------------------------------------------------
\* m is where l is in the protocol.
Alike(l, m) ==
  /\ Keeps(l, m) /\ m.expect = l.expect /\ m.prev = l.prev /\ m.txid = l.txid
  /\ m.tx.pdu = l.tx.pdu /\ m.tx.xact = l.tx.xact

\* m is where l is, and has nothing to send.
Hushed(l, m) ==
  Keeps(l, m) /\ m.expect = l.expect /\ m.prev = l.prev /\ m.txid = l.txid /\ Mute(m)

\* What a side has reached depends on its protocol state only.
LEMMA AtAlike ==
  ASSUME NEW l, NEW m, Alike(l, m) \/ Hushed(l, m), NEW type, NEW x, NEW expect, NEW prev,
         NEW inputs
  PROVE  /\ PrvAt(l, type, x, expect, prev, inputs) => PrvAt(m, type, x, expect, prev, inputs)
         /\ DevAt(l, type, x, expect, prev, inputs) => DevAt(m, type, x, expect, prev, inputs)
<1>1. Told(l, type, x) => Told(m, type, x)
  BY DEF Told, Mute, Alike, Hushed
<1>2. /\ m.expect = l.expect /\ m.prev = l.prev /\ m.txid = l.txid /\ m.active = l.active
      /\ m.inputs = l.inputs
  BY DEF Alike, Hushed, Keeps
<1>3. QED
  BY <1>1, <1>2 DEF PrvAt, DevAt, At

\* The same for each point the provisioner can be at.
LEMMA PrvAlike ==
  ASSUME NEW p, NEW m, Alike(p, m) \/ Hushed(p, m)
  PROVE  /\ PInvite(p) => PInvite(m)
         /\ PStart(p) /\ ~Mute(m) => PStart(m)
         /\ PPubKey(p) => PPubKey(m)
         /\ PComputes(p) => PComputes(m)
         /\ PConfirm(p) => PConfirm(m)
         /\ PRandom(p) => PRandom(m)
         /\ PData(p) => PData(m)
<1>1. /\ m.busy = p.busy /\ m.await = p.await /\ m.confkey = p.confkey /\ m.conf = p.conf
      /\ m.given = p.given
  BY DEF Alike, Hushed, Keeps
<1>2. ~Mute(m) => ~Mute(p) /\ m.tx.pdu = p.tx.pdu
  BY DEF Alike, Hushed, Mute
<1>3. PInvite(p) => PInvite(m)
  BY <1>1, AtAlike DEF PInvite
<1>4. PStart(p) /\ ~Mute(m) => PStart(m)
  BY <1>1, AtAlike DEF PStart
<1>5. PPubKey(p) => PPubKey(m)
  BY <1>1, AtAlike, ZenonT(30) DEF PPubKey
<1>6. PComputes(p) => PComputes(m)
  BY <1>1, AtAlike DEF PComputes
<1>7. PConfirm(p) => PConfirm(m)
  BY <1>1, <1>2, AtAlike DEF PConfirm
<1>8. PRandom(p) => PRandom(m)
  BY <1>1, AtAlike DEF PRandom
<1>9. PData(p) => PData(m)
  BY <1>1, <1>2, AtAlike DEF PData
<1>10. QED
  BY <1>3, <1>4, <1>5, <1>6, <1>7, <1>8, <1>9

\* The same for each point the device can be at.
LEMMA DevAlike ==
  ASSUME NEW d, NEW m, Alike(d, m) \/ Hushed(d, m)
  PROVE  /\ DCaps(d) => DCaps(m)
         /\ DStart(d) => DStart(m)
         /\ DPubKey(d) => DPubKey(m)
         /\ DHolds(d) => DHolds(m)
         /\ DConfirm(d) => DConfirm(m)
         /\ DRandom(d) => DRandom(m)
         /\ DComplete(d) => DComplete(m)
<1>1. /\ m.busy = d.busy /\ m.send = d.send /\ m.dhkey = d.dhkey /\ m.confkey = d.confkey
      /\ m.conf = d.conf
  BY DEF Alike, Hushed, Keeps
<1>2. ~Mute(m) => ~Mute(d) /\ m.tx.pdu = d.tx.pdu
  BY DEF Alike, Hushed, Mute
<1>3. NoKey(d) => NoKey(m)
  BY <1>1 DEF NoKey
<1>4. DCaps(d) => DCaps(m)
  BY <1>3, AtAlike DEF DCaps
<1>5. DStart(d) => DStart(m)
  BY <1>3, AtAlike DEF DStart
<1>6. DPubKey(d) => DPubKey(m)
  BY <1>1, AtAlike DEF DPubKey
<1>7. DHolds(d) => DHolds(m)
  BY <1>1, <1>2, AtAlike DEF DHolds
<1>8. DConfirm(d) => DConfirm(m)
  BY <1>1, <1>2, AtAlike DEF DConfirm
<1>9. DRandom(d) => DRandom(m)
  BY <1>1, AtAlike DEF DRandom
<1>10. DComplete(d) => DComplete(m)
  BY <1>1, AtAlike DEF DComplete
<1>11. QED
  BY <1>4, <1>5, <1>6, <1>7, <1>8, <1>9, <1>10

\* The stage is the same when both are where they were.
LEMMA StageAlike ==
  ASSUME NEW p, NEW d, Stage(p, d), NEW p2, NEW d2, Alike(p, p2), Alike(d, d2),
         ~d.active => d2.queue = d.queue
  PROVE  Stage(p2, d2)
<1>1. POpen(p) => POpen(p2)
  BY DEF POpen, Alike, Keeps
<1>2. DIdle(d) => DIdle(d2)
  BY DEF DIdle, Alike, Keeps, NoKey, Mute
<1>3. DAck(d) => DAck(d2)
  BY DEF DAck, Alike, Keeps, NoKey
<1>4. (Mute(p) <=> Mute(p2)) /\ (Mute(d) <=> Mute(d2))
  BY DEF Alike, Mute
<1>5. /\ PInvite(p) => PInvite(p2)
      /\ PStart(p) => PStart(p2)
      /\ PPubKey(p) => PPubKey(p2)
      /\ PComputes(p) => PComputes(p2)
      /\ PConfirm(p) => PConfirm(p2)
      /\ PRandom(p) => PRandom(p2)
      /\ PData(p) => PData(p2)
  <2>1. PStart(p) => ~Mute(p2)
    BY <1>4 DEF PStart
  <2>2. QED
    BY <2>1, PrvAlike
<1>6. /\ DCaps(d) => DCaps(d2)
      /\ DStart(d) => DStart(d2)
      /\ DPubKey(d) => DPubKey(d2)
      /\ DHolds(d) => DHolds(d2)
      /\ DConfirm(d) => DConfirm(d2)
      /\ DRandom(d) => DRandom(d2)
      /\ DComplete(d) => DComplete(d2)
  BY DevAlike
<1>7. QED
  BY <1>1, <1>2, <1>3, <1>4, <1>5, <1>6 DEF Stage

\* The device asks for nothing the provisioner has not heard.
LEMMA StageHushDev ==
  ASSUME NEW p, NEW d, Stage(p, d), d.tx.pdu.type \in Types, p.prev = d.tx.xact,
         NEW d2, Hushed(d, d2)
  PROVE  Stage(p, d2)
<1>1. ~Mute(d) /\ ~DIdle(d) /\ ~DAck(d)
  BY DEF Types, DIdle, DAck, Mute
<1>2. ~(PInvite(p) /\ DCaps(d)) /\ ~(PPubKey(p) /\ DPubKey(d))
  <2>1. PInvite(p) => p.prev = 255
    BY DEF PInvite, PrvAt, At, XACT_NVAL
  <2>2. DCaps(d) => d.tx.xact = 128
    BY <1>1 DEF DCaps, DevAt, At, Told
  <2>3. PPubKey(p) => p.prev = 128
    BY DEF PPubKey, PrvAt, At
  <2>4. DPubKey(d) => d.tx.xact = 129
    BY <1>1 DEF DPubKey, DevAt, At, Told
  <2>5. QED
    BY <2>1, <2>2, <2>3, <2>4
<1>3. ~(PConfirm(p) /\ DConfirm(d)) /\ ~(PRandom(p) /\ DRandom(d)) /\ ~(PData(p) /\ DComplete(d))
  BY <1>1 DEF PConfirm, DConfirm, PRandom, DRandom, PData, DComplete, PrvAt, DevAt, At, Told
<1>4. /\ DCaps(d) => DCaps(d2)
      /\ DStart(d) => DStart(d2)
      /\ DPubKey(d) => DPubKey(d2)
      /\ DHolds(d) => DHolds(d2)
      /\ DConfirm(d) => DConfirm(d2)
      /\ DRandom(d) => DRandom(d2)
  BY DevAlike
<1>5. QED
  BY <1>1, <1>2, <1>3, <1>4 DEF Stage

\* What the device has heard the provisioner need not repeat.
LEMMA StageHushPrv ==
  ASSUME NEW p, NEW d, Stage(p, d), p.tx.pdu.type \in Types, d.prev = p.tx.xact, ~p.await,
         NEW p2, Hushed(p, p2)
  PROVE  Stage(p2, d)
<1>1. ~Mute(p) /\ ~POpen(p) /\ ~PStart(p)
  BY DEF Types, POpen, PStart, Mute
<1>2. ~(PInvite(p) /\ DAck(d)) /\ ~(PPubKey(p) /\ DStart(d))
  <2>1. PInvite(p) => p.tx.xact = 0
    BY <1>1 DEF PInvite, PrvAt, At, Told
  <2>2. DAck(d) => d.prev = 255
    BY DEF DAck, XACT_NVAL
  <2>3. PPubKey(p) => p.tx.xact = 2
    BY <1>1 DEF PPubKey, PrvAt, At, Told
  <2>4. DStart(d) => d.prev = 1
    BY DEF DStart, DevAt, At
  <2>5. QED
    BY <2>1, <2>2, <2>3, <2>4
<1>3. ~(PConfirm(p) /\ DPubKey(d)) /\ ~(PRandom(p) /\ DConfirm(d)) /\ ~(PData(p) /\ DRandom(d))
  BY <1>1 DEF PConfirm, DConfirm, PRandom, DRandom, PData, DPubKey, PrvAt, DevAt, At, Told
<1>4. /\ PInvite(p) => PInvite(p2)
      /\ PPubKey(p) => PPubKey(p2)
      /\ PComputes(p) => PComputes(p2)
      /\ PConfirm(p) => PConfirm(p2)
      /\ PRandom(p) => PRandom(p2)
      /\ PData(p) => PData(p2)
  BY PrvAlike
<1>5. QED
  BY <1>1, <1>2, <1>3, <1>4 DEF Stage

\* Who waits for an answer.
Asks(p, d) ==
  \/ PInvite(p) /\ DAck(d) /\ ~Mute(p)
  \/ PStart(p) /\ DCaps(d)
  \/ PPubKey(p) /\ DStart(d) /\ ~Mute(p)
  \/ PConfirm(p) /\ DPubKey(d) /\ ~Mute(p)
  \/ PRandom(p) /\ DConfirm(d) /\ ~Mute(p)
  \/ PData(p) /\ DRandom(d) /\ ~Mute(p)

Tells(p, d) ==
  \/ PInvite(p) /\ DCaps(d) /\ ~Mute(d)
  \/ PPubKey(p) /\ DPubKey(d) /\ ~Mute(d)
  \/ PConfirm(p) /\ DConfirm(d) /\ ~Mute(d)
  \/ PRandom(p) /\ DRandom(d) /\ ~Mute(d)
  \/ PData(p) /\ DComplete(d) /\ ~Mute(d)

\* A PDU that the device has not heard is the one it waits for.
LEMMA StageAsks ==
  ASSUME NEW p, NEW d, Stage(p, d), p.tx.pdu.type \in Types, d.prev # p.tx.xact
  PROVE  Asks(p, d)
<1>1. ~Mute(p) /\ ~POpen(p)
  BY DEF Types, POpen, Mute
<1>2. /\ ~(PInvite(p) /\ DCaps(d)) /\ ~(PStart(p) /\ DStart(d)) /\ ~(PPubKey(p) /\ DPubKey(d))
      /\ ~(PComputes(p) /\ DPubKey(d))
  BY <1>1 DEF PInvite, DCaps, PStart, DStart, PPubKey, PComputes, DPubKey, PrvAt, DevAt, At, Told
<1>3. /\ ~(PConfirm(p) /\ DHolds(d)) /\ ~(PConfirm(p) /\ DConfirm(d))
      /\ ~(PRandom(p) /\ DRandom(d)) /\ ~(PData(p) /\ DComplete(d))
  BY <1>1 DEF PConfirm, DHolds, DConfirm, PRandom, DRandom, PData, DComplete, PrvAt, DevAt, At, Told
<1>4. QED
  BY <1>1, <1>2, <1>3 DEF Stage, Asks

\* A PDU that the provisioner has not heard is the one it waits for.
LEMMA StageTells ==
  ASSUME NEW p, NEW d, Stage(p, d), d.tx.pdu.type \in Types, p.prev # d.tx.xact
  PROVE  Tells(p, d)
<1>1. ~Mute(d) /\ ~DIdle(d) /\ ~DAck(d) /\ ~DHolds(d)
  BY DEF Types, DIdle, DAck, DHolds, Mute
<1>2. /\ ~(PStart(p) /\ DCaps(d)) /\ ~(PStart(p) /\ DStart(d)) /\ ~(PPubKey(p) /\ DStart(d))
      /\ ~(PComputes(p) /\ DPubKey(d))
  BY <1>1 DEF DCaps, PStart, DStart, PPubKey, PComputes, DPubKey, PrvAt, DevAt, At, Told
<1>3. /\ ~(PConfirm(p) /\ DPubKey(d))
      /\ ~(PRandom(p) /\ DConfirm(d)) /\ ~(PData(p) /\ DRandom(d))
  BY <1>1 DEF PConfirm, DPubKey, DConfirm, PRandom, DRandom, PData, PrvAt, DevAt, At, Told
<1>4. QED
  BY <1>1, <1>2, <1>3 DEF Stage, Tells

\* Whoever waits for an answer has heard all that was said before.
LEMMA AsksHeard ==
  ASSUME NEW p, NEW d, Asks(p, d)
  PROVE  d.tx.pdu.type = "link ack" \/ Mute(d) \/ (d.tx.pdu.type \in Types /\ p.prev = d.tx.xact)
<1>1. CASE DAck(d)
  BY <1>1 DEF DAck
<1>2. CASE ~DAck(d)
  BY <1>2 DEF Asks, DCaps, PStart, DStart, PPubKey, PConfirm, DPubKey, DConfirm, PRandom, DRandom,
     PData, PrvAt, DevAt, At, Told, Types
<1>3. QED
  BY <1>1, <1>2

\* By then the device has heard the provisioner.
LEMMA TellsHeard ==
  ASSUME NEW p, NEW d, Tells(p, d)
  PROVE  Mute(p) \/ (p.tx.pdu.type \in Types /\ d.prev = p.tx.xact)
BY DEF Tells, PInvite, DCaps, PPubKey, DPubKey, PConfirm, DConfirm, PRandom, DRandom, PData,
   DComplete, PrvAt, DevAt, At, Told, Types

\* The numbers of what is sent.
LEMMA AtSays ==
  ASSUME NEW l, NEW type \in Types, NEW x, NEW expect, NEW prev, NEW inputs
  PROVE  /\ PrvAt(l, type, x, expect, prev, inputs) /\ x \in 0..5 =>
              /\ Mute(l) \/ l.tx.pdu.type \in Types
              /\ l.tx.pdu.type \in Types => l.txid = l.tx.xact + 1 /\ l.tx.xact \in 0..5
         /\ DevAt(l, type, x, expect, prev, inputs) /\ x \in 128..132 =>
              /\ Mute(l) \/ l.tx.pdu.type \in Types
              /\ l.tx.pdu.type \in Types => l.txid = l.tx.xact /\ l.tx.xact \in 128..132
              /\ l.active
<1>1. Told(l, type, x) => \/ Mute(l) /\ l.tx.pdu.type \notin Types
                          \/ l.tx.pdu.type \in Types /\ l.tx.xact = x
  BY DEF Told, Mute, Types
<1>2. QED
  BY <1>1 DEF PrvAt, DevAt, At

\* What both may be sending.
LEMMA StageSays ==
  ASSUME NEW p, NEW d, Stage(p, d)
  PROVE  /\ Mute(p) \/ p.tx.pdu.type \in Types \/ (p.tx.pdu.type = "open" /\ POpen(p))
         /\ Mute(d) \/ d.tx.pdu.type \in Types \/ (d.tx.pdu.type = "link ack" /\ DAck(d))
         /\ p.tx.pdu.type \in Types => p.txid = p.tx.xact + 1 /\ p.tx.xact \in 0..5
         /\ d.tx.pdu.type \in Types => d.txid = d.tx.xact /\ d.tx.xact \in 128..132
         /\ p.await => PStart(p)
         /\ DIdle(d) \/ d.active
<1>1. CASE POpen(p)
  BY <1>1 DEF Stage, POpen, DIdle, DAck, Mute, Types, PInvite, PStart, PPubKey, PComputes,
     PConfirm, PRandom, PData, PrvAt, At
<1>2. CASE ~POpen(p)
  <2>1. \/ PInvite(p) \/ PStart(p) \/ PPubKey(p) \/ PComputes(p) \/ PConfirm(p)
        \/ PRandom(p) \/ PData(p)
    BY <1>2 DEF Stage
  <2>2. \/ DAck(d) \/ DCaps(d) \/ DStart(d) \/ DPubKey(d) \/ DHolds(d) \/ DConfirm(d)
        \/ DRandom(d) \/ DComplete(d)
    BY <1>2 DEF Stage
  <2>3. /\ Mute(p) \/ p.tx.pdu.type \in Types
        /\ p.tx.pdu.type \in Types => p.txid = p.tx.xact + 1 /\ p.tx.xact \in 0..5
        /\ p.await => PStart(p)
    <3> DEFINE ok == /\ Mute(p) \/ p.tx.pdu.type \in Types
                     /\ p.tx.pdu.type \in Types => p.txid = p.tx.xact + 1 /\ p.tx.xact \in 0..5
    <3>1. /\ {0, 1, 2, 3, 4, 5} \subseteq 0..5
          /\ {"invite", "start", "pubkey", "confirm", "random", "data"} \subseteq Types
      BY DEF Types
    <3>2. PInvite(p) => ok /\ ~p.await
      BY <3>1, AtSays DEF PInvite
    <3>3. PStart(p) => ok
      BY <3>1, AtSays DEF PStart
    <3>4. PPubKey(p) => ok /\ ~p.await
      BY <3>1, AtSays DEF PPubKey
    <3>5. PComputes(p) => ok /\ ~p.await
      BY <3>1, AtSays DEF PComputes
    <3>6. PConfirm(p) => ok /\ ~p.await
      BY <3>1, AtSays DEF PConfirm
    <3>7. PRandom(p) => ok /\ ~p.await
      BY <3>1, AtSays DEF PRandom
    <3>8. PData(p) => ok /\ ~p.await
      BY <3>1, AtSays DEF PData
    <3> HIDE DEF ok
    <3>9. ok /\ (p.await => PStart(p))
      BY <2>1, <3>2, <3>3, <3>4, <3>5, <3>6, <3>7, <3>8
    <3>10. QED
      BY <3>9 DEF ok
  <2>4. /\ Mute(d) \/ d.tx.pdu.type \in Types \/ (d.tx.pdu.type = "link ack" /\ DAck(d))
        /\ d.tx.pdu.type \in Types => d.txid = d.tx.xact /\ d.tx.xact \in 128..132
        /\ d.active
    <3> DEFINE ok == /\ Mute(d) \/ d.tx.pdu.type \in Types
                     /\ d.tx.pdu.type \in Types => d.txid = d.tx.xact /\ d.tx.xact \in 128..132
                     /\ d.active
    <3>1. /\ {128, 129, 130, 131, 132} \subseteq 128..132
          /\ {"caps", "pubkey", "confirm", "random", "complete"} \subseteq Types
      BY DEF Types
    <3>2. DCaps(d) => ok
      BY <3>1, AtSays DEF DCaps
    <3>3. DStart(d) => ok
      BY <3>1, AtSays DEF DStart
    <3>4. DPubKey(d) => ok
      BY <3>1, AtSays DEF DPubKey
    <3>5. DHolds(d) => ok
      BY DEF DHolds, DevAt, Mute, Types
    <3>6. DConfirm(d) => ok
      BY <3>1, AtSays DEF DConfirm
    <3>7. DRandom(d) => ok
      BY <3>1, AtSays DEF DRandom
    <3>8. DComplete(d) => ok
      BY <3>1, AtSays DEF DComplete
    <3>9. DAck(d) => d.active /\ d.tx.pdu.type = "link ack" /\ d.tx.pdu.type \notin Types
      BY DEF DAck, Types
    <3> HIDE DEF ok
    <3>10. ok \/ DAck(d)
      BY <2>2, <3>2, <3>3, <3>4, <3>5, <3>6, <3>7, <3>8
    <3>11. QED
      BY <3>9, <3>10 DEF ok
  <2>5. QED
    BY <2>3, <2>4
<1>3. QED
  BY <1>1, <1>2

-----------------------------------------------------------------------------
\* What m says after l: the same, nothing, or a PDU with a number after y.
Spoken(l, m, y) ==
  \/ m.tx = l.tx /\ \A n : HasSeg(l.queue, n) => HasSeg(m.queue, n)
  \/ Mute(m)
  \/ \E x \in 0..132 : Says(m, x) /\ (y = XACT_NVAL \/ y < x)

\* The same PDU, none, or a new one may follow.
LEMMA SpokenFlow ==
  ASSUME NEW l, NEW k, NEW z \in Nat, Flow(l, k, z), k.missing = {}, k.prev \in Byte,
         NEW m, NEW k2, Spoken(l, m, k.prev), Ear(k, k2),
         HasAck(k.queue, l.tx.xact) => HasAck(k2.queue, l.tx.xact)
  PROVE  Flow(m, k2, z)
<1>1. k2.prev = k.prev /\ k2.missing = {}
  BY DEF Ear
<1>2. CASE m.tx = l.tx /\ \A n : HasSeg(l.queue, n) => HasSeg(m.queue, n)
  BY <1>2, FlowSame
<1>3. CASE Mute(m)
  BY <1>1, <1>3, FlowMute
<1>4. CASE \E x \in 0..132 : Says(m, x) /\ (k.prev = XACT_NVAL \/ k.prev < x)
  <2>1. PICK x \in 0..132 : Says(m, x) /\ (k.prev = XACT_NVAL \/ k.prev < x)
    BY <1>4
  <2>2. /\ m.tx.pdu.type \in Types /\ m.tx.xact = x /\ m.tx.tries = 0 /\ HasSeg(m.queue, 0)
    BY <2>1 DEF Says
  <2>3. x \in Byte /\ x # XACT_NVAL
    BY DEF Byte, XACT_NVAL
  <2>4. QED
    BY <1>1, <2>1, <2>2, <2>3, FlowNew
<1>5. QED
  BY <1>2, <1>3, <1>4 DEF Spoken

\* What hearing the PDU that p sends does to the device.
Answered(p, d, m) ==
  /\ Fit(m) /\ m.prev = p.tx.xact /\ m.missing = {} /\ HasAck(m.queue, p.tx.xact)
  /\ m.active /\ Stage(p, m) /\ Spoken(d, m, p.prev)

\* What makes an answer of the device.
LEMMA AnswerEff ==
  ASSUME NEW p, NEW d, d.active, NEW c, Noted(d, c, p.tx.xact), c.missing = {},
         HasAck(c.queue, p.tx.xact), NEW m, Handled(c, m), Stage(p, m), Spoken(d, m, p.prev)
  PROVE  Answered(p, d, m)
<1>1. c.prev = p.tx.xact /\ c.active = d.active
  BY DEF Noted, Keeps
<1>2. m.prev = p.tx.xact /\ m.missing = {} /\ m.active /\ Fit(m)
  BY <1>1 DEF Handled, Ear
<1>3. HasAck(m.queue, p.tx.xact)
  BY DEF HasAck, Handled, SameAcks
<1>4. QED
  BY <1>2, <1>3 DEF Answered

\* The handlers of the device.
LEMMA DevHandlesEff ==
  ASSUME NEW p, NEW d, Asks(p, d), NEW c, Noted(d, c, p.tx.xact), c.missing = {},
         HasAck(c.queue, p.tx.xact), \A n : HasSeg(d.queue, n) => HasSeg(c.queue, n)
  PROVE  LET pdu == p.tx.pdu
         IN pdu.type = c.expect /\ Answered(p, d, DevHandler(c, pdu, "sent"))
<1> DEFINE pdu == p.tx.pdu
           m == DevHandler(c, pdu, "sent")
<1>0. c.expect = d.expect /\ d.active
  BY DEF Noted, Asks, DAck, DCaps, DStart, DPubKey, DConfirm, DRandom, DevAt
<1>1. CASE PInvite(p) /\ DAck(d) /\ ~Mute(p)
  <2>1. pdu.type = "invite" /\ p.tx.xact = 0 /\ p.prev = XACT_NVAL /\ d.expect = "invite"
    BY <1>1 DEF PInvite, PrvAt, At, Told, DAck
  <2>2. m = ProvInvite(c, "sent")
    BY <2>1 DEF DevHandler
  <2> HIDE DEF m
  <2>3. Handled(c, m) /\ DCaps(m) /\ Says(m, 128) /\ ~Mute(m)
    BY <1>1, <2>1, <2>2, OnInvite
  <2>4. Stage(p, m)
    BY <1>1, <2>3 DEF Stage
  <2>5. Spoken(d, m, p.prev)
    BY <2>1, <2>3 DEF Spoken
  <2>6. Answered(p, d, m)
    BY <1>0, <2>3, <2>4, <2>5, AnswerEff
  <2>7. QED
    BY <1>0, <2>1, <2>6 DEF m
<1>2. CASE PStart(p) /\ DCaps(d)
  <2>1. pdu.type = "start" /\ p.tx.xact = 1 /\ d.expect = "start"
    BY <1>2 DEF PStart, PrvAt, DevAt, At, Told, DCaps
  <2>2. m = ProvStart(c)
    BY <2>1 DEF DevHandler
  <2> HIDE DEF m
  <2>3. Handled(c, m) /\ DStart(m) /\ m.tx = c.tx /\ m.queue = c.queue
    BY <1>2, <2>1, <2>2, OnStart
  <2>4. Stage(p, m)
    BY <1>2, <2>3 DEF Stage
  <2>5. Spoken(d, m, p.prev)
    BY <2>3 DEF Spoken, Noted
  <2>6. Answered(p, d, m)
    BY <1>0, <2>3, <2>4, <2>5, AnswerEff
  <2>7. QED
    BY <1>0, <2>1, <2>6 DEF m
<1>3. CASE PPubKey(p) /\ DStart(d) /\ ~Mute(p)
  <2>1. pdu.type = "pubkey" /\ p.tx.xact = 2 /\ p.prev = 128 /\ d.expect = "pubkey"
    BY <1>3 DEF PPubKey, PrvAt, DevAt, At, Told, DStart
  <2>2. m = DevPubKey(c, "sent")
    BY <2>1 DEF DevHandler
  <2> HIDE DEF m
  <2>3. Handled(c, m) /\ DPubKey(m) /\ Says(m, 129) /\ ~Mute(m)
    BY <1>3, <2>1, <2>2, OnDevPubKey
  <2>4. Stage(p, m)
    BY <1>3, <2>3 DEF Stage
  <2>5. Spoken(d, m, p.prev)
    BY <2>1, <2>3 DEF Spoken
  <2>6. Answered(p, d, m)
    BY <1>0, <2>3, <2>4, <2>5, AnswerEff
  <2>7. QED
    BY <1>0, <2>1, <2>6 DEF m
<1>4. CASE PConfirm(p) /\ DPubKey(d) /\ ~Mute(p)
  <2>1. /\ pdu.type = "confirm" /\ p.tx.xact = 3 /\ p.prev = 129 /\ d.expect = "confirm"
        /\ pdu.key = Parts
    BY <1>4 DEF PConfirm, PrvAt, DevAt, At, Told, DPubKey
  <2>2. m = DevConfirm(c, pdu, "sent")
    BY <2>1 DEF DevHandler
  <2> HIDE DEF m
  <2>3. Handled(c, m) /\ (DHolds(m) \/ (DConfirm(m) /\ Says(m, 130) /\ ~Mute(m)))
    BY <1>4, <2>1, <2>2, OnDevConfirm
  <2>4. Stage(p, m)
    BY <1>4, <2>3 DEF Stage
  <2>5. Spoken(d, m, p.prev)
    BY <2>1, <2>3 DEF Spoken, DHolds
  <2>6. Answered(p, d, m)
    BY <1>0, <2>3, <2>4, <2>5, AnswerEff
  <2>7. QED
    BY <1>0, <2>1, <2>6 DEF m
<1>5. CASE PRandom(p) /\ DConfirm(d) /\ ~Mute(p)
  <2>1. pdu.type = "random" /\ p.tx.xact = 4 /\ p.prev = 130 /\ d.expect = "random"
    BY <1>5 DEF PRandom, PrvAt, DevAt, At, Told, DConfirm
  <2>2. m = DevRandom(c, "sent")
    BY <2>1 DEF DevHandler
  <2> HIDE DEF m
  <2>3. Handled(c, m) /\ DRandom(m) /\ Says(m, 131) /\ ~Mute(m)
    BY <1>5, <2>1, <2>2, OnDevRandom
  <2>4. Stage(p, m)
    BY <1>5, <2>3 DEF Stage
  <2>5. Spoken(d, m, p.prev)
    BY <2>1, <2>3 DEF Spoken
  <2>6. Answered(p, d, m)
    BY <1>0, <2>3, <2>4, <2>5, AnswerEff
  <2>7. QED
    BY <1>0, <2>1, <2>6 DEF m
<1>6. CASE PData(p) /\ DRandom(d) /\ ~Mute(p)
  <2>1. /\ pdu.type = "data" /\ p.tx.xact = 5 /\ p.prev = 131 /\ d.expect = "data"
        /\ pdu.key = Parts
    BY <1>6 DEF PData, PrvAt, DevAt, At, Told, DRandom
  <2>2. m = DevData(c, pdu, "sent")
    BY <2>1 DEF DevHandler
  <2> HIDE DEF m
  <2>3. Handled(c, m) /\ DComplete(m) /\ Says(m, 132) /\ ~Mute(m)
    BY <1>6, <2>1, <2>2, OnDevData
  <2>4. Stage(p, m)
    BY <1>6, <2>3 DEF Stage
  <2>5. Spoken(d, m, p.prev)
    BY <2>1, <2>3 DEF Spoken
  <2>6. Answered(p, d, m)
    BY <1>0, <2>3, <2>4, <2>5, AnswerEff
  <2>7. QED
    BY <1>0, <2>1, <2>6 DEF m
<1>7. QED
  BY <1>1, <1>2, <1>3, <1>4, <1>5, <1>6 DEF Asks

-----------------------------------------------------------------------------
\* What hearing the PDU that d sends does to the provisioner.
Replied(d, p, m) ==
  /\ Fit(m) /\ m.prev = d.tx.xact /\ m.missing = {} /\ HasAck(m.queue, d.tx.xact)
  /\ m.active /\ Stage(m, d) /\ Spoken(p, m, d.prev)

\* What makes an answer of the provisioner.
LEMMA ReplyEff ==
  ASSUME NEW d, NEW p, p.active, NEW c, Noted(p, c, d.tx.xact), c.missing = {},
         HasAck(c.queue, d.tx.xact), NEW m, Handled(c, m), Stage(m, d), Spoken(p, m, d.prev)
  PROVE  Replied(d, p, m)
<1>1. c.prev = d.tx.xact /\ c.active = p.active
  BY DEF Noted, Keeps
<1>2. m.prev = d.tx.xact /\ m.missing = {} /\ m.active /\ Fit(m)
  BY <1>1 DEF Handled, Ear
<1>3. HasAck(m.queue, d.tx.xact)
  BY DEF HasAck, Handled, SameAcks
<1>4. QED
  BY <1>2, <1>3 DEF Replied

\* The last PDU that the provisioner takes on a link, and what it finds then.
Last(pdu) == pdu.type = "complete" \/ (pdu.type = "random" /\ ~netkey)

Ends(c, pdu) ==
  (pdu.type = "complete" => c.given # 0) /\ (pdu.type = "random" => Verifies(c))

\* The handlers of the provisioner.
LEMMA PrvHandlesEff ==
  ASSUME NEW p, p.active, NEW d, Tells(p, d), NEW c, Noted(p, c, d.tx.xact), c.missing = {},
         HasAck(c.queue, d.tx.xact), \A n : HasSeg(p.queue, n) => HasSeg(c.queue, n)
  PROVE  LET pdu == d.tx.pdu
         IN /\ pdu.type = c.expect
            /\ IF Last(pdu) THEN Ends(c, pdu)
               ELSE Replied(d, p, PrvHandler(c, pdu, "sent"))
<1> DEFINE pdu == d.tx.pdu
           m == PrvHandler(c, pdu, "sent")
<1>0. c.expect = p.expect /\ c.given = p.given /\ c.confkey = p.confkey /\ c.conf = p.conf
  BY DEF Noted, Keeps
<1>1. CASE PInvite(p) /\ DCaps(d) /\ ~Mute(d)
  <2>1. pdu.type = "caps" /\ d.tx.xact = 128 /\ d.prev = 0 /\ p.expect = "caps"
    BY <1>1 DEF PInvite, PrvAt, DevAt, At, Told, DCaps
  <2>2. m = ProvCapabilities(c, "sent")
    BY <2>1 DEF PrvHandler
  <2> HIDE DEF m
  <2>3. Handled(c, m) /\ PStart(m) /\ Says(m, 1)
    BY <1>1, <2>1, <2>2, OnCaps
  <2>4. Stage(m, d)
    BY <1>1, <2>3 DEF Stage
  <2>5. Spoken(p, m, d.prev)
    BY <2>1, <2>3 DEF Spoken
  <2>6. Replied(d, p, m)
    BY <2>3, <2>4, <2>5, ReplyEff
  <2>7. QED
    BY <1>0, <2>1, <2>6 DEF m, Last
<1>2. CASE PPubKey(p) /\ DPubKey(d) /\ ~Mute(d)
  <2>1. pdu.type = "pubkey" /\ d.tx.xact = 129 /\ p.expect = "pubkey"
    BY <1>2 DEF PPubKey, PrvAt, DevAt, At, Told, DPubKey
  <2>2. m = GenDhKey("prv", Has(c, {"dev key"}), c.expect, "sent")
    BY <2>1 DEF PrvHandler
  <2> HIDE DEF m
  <2>3. Handled(c, m) /\ PComputes(m) /\ m.tx = c.tx /\ m.queue = c.queue
    BY <1>2, <2>1, <2>2, OnPrvPubKey, ZenonT(30)
  <2>4. Stage(m, d)
    BY <1>2, <2>3 DEF Stage
  <2>5. Spoken(p, m, d.prev)
    BY <2>3 DEF Spoken, Noted
  <2>6. Replied(d, p, m)
    BY <2>3, <2>4, <2>5, ReplyEff
  <2>7. QED
    BY <1>0, <2>1, <2>6 DEF m, Last
<1>3. CASE PConfirm(p) /\ DConfirm(d) /\ ~Mute(d)
  <2>1. /\ pdu.type = "confirm" /\ d.tx.xact = 130 /\ d.prev = 3 /\ p.expect = "confirm"
        /\ pdu.key = Parts
    BY <1>3 DEF PConfirm, PrvAt, DevAt, At, Told, DConfirm
  <2>2. m = PrvConfirm(c, pdu, "sent")
    BY <2>1 DEF PrvHandler
  <2> HIDE DEF m
  <2>3. Handled(c, m) /\ PRandom(m) /\ Says(m, 4) /\ ~Mute(m)
    BY <1>3, <2>1, <2>2, OnPrvConfirm
  <2>4. Stage(m, d)
    BY <1>3, <2>3 DEF Stage
  <2>5. Spoken(p, m, d.prev)
    BY <2>1, <2>3 DEF Spoken
  <2>6. Replied(d, p, m)
    BY <2>3, <2>4, <2>5, ReplyEff
  <2>7. QED
    BY <1>0, <2>1, <2>6 DEF m, Last
<1>4. CASE PRandom(p) /\ DRandom(d) /\ ~Mute(d)
  <2>1. pdu.type = "random" /\ d.tx.xact = 131 /\ d.prev = 4 /\ p.expect = "random"
    BY <1>4 DEF PRandom, PrvAt, DevAt, At, Told, DRandom
  <2>2. m = PrvRandom(c, "sent")
    BY <2>1 DEF PrvHandler
  <2> HIDE DEF m
  <2>3. CASE netkey
    <3>1. Handled(c, m) /\ PData(m) /\ Says(m, 5) /\ ~Mute(m)
      BY <1>4, <2>1, <2>2, <2>3, OnPrvRandom
    <3>2. Stage(m, d)
      BY <1>4, <3>1 DEF Stage
    <3>3. Spoken(p, m, d.prev)
      BY <2>1, <3>1 DEF Spoken
    <3>4. Replied(d, p, m)
      BY <3>1, <3>2, <3>3, ReplyEff
    <3>5. QED
      BY <1>0, <2>1, <2>3, <3>4 DEF m, Last
  <2>4. CASE ~netkey
    <3>1. Verifies(c)
      BY <1>0, <1>4 DEF PRandom, Verifies
    <3>2. QED
      BY <1>0, <2>1, <2>4, <3>1 DEF Last, Ends
  <2>5. QED
    BY <2>3, <2>4
<1>5. CASE PData(p) /\ DComplete(d) /\ ~Mute(d)
  <2>1. pdu.type = "complete" /\ p.expect = "complete" /\ p.given # 0
    BY <1>5 DEF PData, PrvAt, DevAt, At, Told, DComplete
  <2>2. QED
    BY <1>0, <2>1 DEF Last, Ends
<1>6. QED
  BY <1>1, <1>2, <1>3, <1>4, <1>5 DEF Tells

-----------------------------------------------------------------------------
\* What a side hears of a PDU that is not yet complete, or that it has handled.
Listened(l, m) ==
  /\ Fit(m) /\ m.prev = l.prev /\ Keeps(l, m) /\ Voice(l, m) /\ m.expect = l.expect
  /\ AckSet(l.queue) \subseteq AckSet(m.queue)

\* Only reception has changed.
LEMMA ListenedSame ==
  ASSUME NEW l, Sound(l), Fit(l), NEW m \in LinkT, m.prev = l.prev, Keeps(l, m), m.tx = l.tx,
         m.txid = l.txid, m.queue = l.queue, m.expect = l.expect
  PROVE  Listened(l, m) /\ Sound(m)
<1>1. Settled(m)
  BY SettledSame DEF Fit
<1>2. Fit(m)
  BY <1>1 DEF Fit, Keeps, Mute
<1>3. QED
  BY <1>2 DEF Listened, Voice, Sound

\* Listening leaves a side where it is.
LEMMA ListenedAlike ==
  ASSUME NEW l, NEW m, Listened(l, m)
  PROVE  Alike(l, m) /\ m.active = l.active
BY DEF Listened, Alike, Voice, Keeps

\* A PDU that is complete: l is about to handle it.
LEMMA NotedEff ==
  ASSUME NEW l, Sound(l), Fit(l), l.id = 1, NEW e, Sound(e), Listened(l, e),
         e.rxid \in 0..132, l.prev = XACT_NVAL \/ l.prev < e.rxid, e.missing = {}
  PROVE  LET c == Acked(e)
         IN /\ Noted(l, c, e.rxid) /\ c.missing = {} /\ HasAck(c.queue, e.rxid)
            /\ \A n : HasSeg(l.queue, n) => HasSeg(c.queue, n)
<1> DEFINE c == Acked(e)
<1>1. e.id = 1 /\ Fit(e) /\ e.prev = l.prev /\ Voice(l, e) /\ Keeps(l, e) /\ e.expect = l.expect
  BY DEF Listened, Keeps
<1>2. e.rxid # XACT_NVAL
  BY DEF XACT_NVAL
<1>3. e.prev = XACT_NVAL \/ e.prev <= e.rxid
  <2>1. \A i \in 0..255, j \in 0..132 : i < j => i <= j
    BY SMTT(30)
  <2>2. l.prev \in 0..255
    BY DEF Sound, LinkT, Byte
  <2>3. QED
    BY <1>1, <2>1, <2>2
<1>4. /\ Sound(c) /\ Fit(c) /\ Keeps(e, c) /\ Voice(e, c) /\ c.expect = e.expect
      /\ c.prev = e.rxid /\ c.missing = e.missing
      /\ HasAck(c.queue, e.rxid)
  BY <1>1, <1>2, <1>3, AckedEff
<1> HIDE DEF c
<1>5. Keeps(l, c) /\ c.tx = l.tx /\ c.txid = l.txid /\ c.expect = l.expect /\ c.id = 1
  BY <1>1, <1>4 DEF Keeps, Voice
<1>6. \A n : HasSeg(l.queue, n) => HasSeg(c.queue, n)
  BY <1>1, <1>4 DEF Voice
<1>7. QED
  BY <1>4, <1>5, <1>6 DEF Noted, c

-----------------------------------------------------------------------------
\* So does no advert at all.
LEMMA ListenedSelf ==
  ASSUME NEW l, Fit(l)
  PROVE  Listened(l, l) /\ Ear(l, l)
BY DEF Listened, Keeps, Voice, Ear

\* gen_prov_start acknowledges what was handled.
LEMMA ListenedAgain ==
  ASSUME NEW l, Sound(l), Fit(l), l.id = 1, NEW x \in 0..132, l.prev = x
  PROVE  LET m == AckSend(l, x)
         IN Listened(l, m) /\ HasAck(m.queue, x) /\ m.missing = l.missing
<1> DEFINE m == AckSend(l, x)
<1>1. x \in Byte /\ x # XACT_NVAL
  BY DEF Byte, XACT_NVAL
<1>2. /\ Keeps(l, m) /\ Ear(l, m) /\ Voice(l, m) /\ m.expect = l.expect
      /\ Lined(m.queue, m.tx.xact) /\ HasAck(m.queue, x)
      /\ AckSet(l.queue) \subseteq AckSet(m.queue)
      /\ \A a \in AckSet(m.queue) : a \in AckSet(l.queue) \/ a.xact = x
  BY <1>1, AckSendEff DEF Fit
<1> HIDE DEF m
<1>3. m.prev = x /\ m.missing = l.missing
  BY <1>2 DEF Ear
<1>4. Settled(m)
  <2> SUFFICES ASSUME NEW a \in AckSet(m.queue)
               PROVE  a.xact <= x
    BY <1>1, <1>3 DEF Settled
  <2>1. CASE a \in AckSet(l.queue)
    BY <2>1 DEF Fit, Settled
  <2>2. CASE a.xact = x
    BY <2>2
  <2>3. QED
    BY <1>2, <2>1, <2>2
<1>5. Mute(m) => m.tx = NoTx
  BY <1>2 DEF Fit, Mute, Voice
<1>6. Fit(m)
  BY <1>2, <1>4, <1>5 DEF Fit, Keeps
<1>7. QED
  BY <1>2, <1>3, <1>6 DEF Listened, m

\* The end of a PDU.
Ended(s, l, x, h, m) ==
  \E e : /\ Sound(e) /\ Listened(l, e) /\ e.rxid = x /\ e.missing = {}
         /\ m = MsgRecv(s, e, h.pdu, "sent")

\* gen_prov_start and gen_prov_cont.
LEMMA SegEff ==
  ASSUME NEW s \in Sides, NEW k, Sound(k), Fit(k), k.queue # <<>>, k.tx.xact \in 0..132,
         NEW l, Sound(l), Fit(l), l.id = 1, NEW z, Flow(k, l, z), NEW k2, Popped(k, k2),
         Head(k.queue).kind = "seg"
  PROVE  LET h == Head(k.queue)
             x == k.tx.xact
             m == SegRecv(s, l, h, "sent")
         IN \/ ~Whole(l, h) /\ Listened(l, m) /\ Flow(k2, m, z)
            \/ /\ Whole(l, h) /\ l.prev # x /\ (l.prev = XACT_NVAL \/ l.prev < x)
               /\ Ended(s, l, x, h, m)
<1> DEFINE h == Head(k.queue)
           x == k.tx.xact
           v == LastSeg(h.pdu.type)
           m == SegRecv(s, l, h, "sent")
           started == [l EXCEPT !.rxid = h.xact, !.missing = 1..v]
           stored == [l EXCEPT !.missing = l.missing \ {h.seg}]
<1>1. /\ h \in AdvT /\ h.pdu = k.tx.pdu /\ h.xact = x /\ h.kind = "seg"
      /\ k.tx.pdu.type \in Types /\ h.seg <= v
  BY HeadSays
<1>2. /\ l \in LinkT /\ l.missing \subseteq 1..2 /\ l.missing \in Segs /\ l.rxid \in Byte
      /\ l.prev \in Byte
  BY DEF Sound, LinkT, Segs
<1>3. h.seg \in 0..2 /\ v \in 0..2
  BY <1>1, Short DEF AdvT
<1>4. IF l.prev = x THEN Heard(k, l, z) ELSE Unheard(k, l, z)
  BY <1>1 DEF Flow
<1>5. m = IF l.missing = {} /\ l.prev = h.xact THEN AckSend(l, h.xact)
          ELSE IF h.seg = 0
            THEN IF l.missing # {} THEN l
                 ELSE IF Whole(l, h) THEN MsgRecv(s, started, h.pdu, "sent") ELSE started
            ELSE IF l.rxid # h.xact \/ h.seg \notin l.missing THEN l
                 ELSE IF Whole(l, h) THEN MsgRecv(s, stored, h.pdu, "sent") ELSE stored
  BY DEF SegRecv
<1>6. Whole(l, h) <=>
        \/ h.seg = 0 /\ l.missing = {} /\ l.prev # x /\ v = 0
        \/ h.seg > 0 /\ l.missing = {h.seg} /\ l.rxid = x
  BY <1>1 DEF Whole
<1>7. l.missing # {} => l.prev # x /\ l.rxid = x
  BY <1>4 DEF Heard, Unheard
<1>8. l.prev # x => l.prev = XACT_NVAL \/ l.prev < x
  BY <1>4 DEF Unheard
<1>9. \A i \in l.missing : i # 0
  BY <1>2
<1> HIDE DEF h, v, m, started, stored
<1>10. ASSUME m = l, ~Whole(l, h),
              IF l.missing = {} THEN l.prev # x /\ h.seg # 0 ELSE h.seg \notin l.missing
       PROVE  Listened(l, m) /\ Flow(k2, m, z)
  <2>1. Listened(l, l) /\ Ear(l, l)
    BY ListenedSelf
  <2>2. Flow(k2, l, z)
    BY <1>1, <1>10, <2>1, FlowDeaf DEF h
  <2>3. QED
    BY <1>10, <2>1, <2>2
<1>11. CASE l.missing = {} /\ l.prev = x
  <2>1. m = AckSend(l, x)
    BY <1>1, <1>5, <1>11
  <2>2. Listened(l, m) /\ HasAck(m.queue, x) /\ m.missing = {}
    BY <1>11, <2>1, ListenedAgain
  <2>3. ~Whole(l, h)
    BY <1>6, <1>11
  <2>4. k2.tx = k.tx /\ m.prev = x
    BY <1>11, <2>2 DEF Popped, Listened
  <2>5. Flow(k2, m, z)
    BY <1>1, <2>2, <2>4, FlowTaken
  <2>6. QED
    BY <2>2, <2>3, <2>5 DEF h, m
<1>12. CASE l.missing # {} /\ (h.seg = 0 \/ h.seg \notin l.missing)
  <2>1. m = l
    BY <1>1, <1>5, <1>7, <1>12
  <2>2. ~Whole(l, h)
    BY <1>3, <1>6, <1>12
  <2>3. h.seg \notin l.missing
    BY <1>9, <1>12
  <2>4. QED
    BY <1>10, <1>12, <2>1, <2>2, <2>3 DEF h, m
<1>13. CASE l.missing = {} /\ l.prev # x /\ h.seg # 0
  <2>1. m = l
    BY <1>1, <1>5, <1>13
  <2>2. ~Whole(l, h)
    BY <1>6, <1>13
  <2>3. QED
    BY <1>10, <1>13, <2>1, <2>2 DEF h, m
<1>14. CASE l.missing = {} /\ l.prev # x /\ h.seg = 0
  <2>1. h.xact \in Byte /\ 1..v \in Segs
    BY <1>1, <1>2, <1>3 DEF Byte, Segs
  <2>2. started = [l EXCEPT !.rxid = h.xact, !.missing = 1..v]
    BY DEF started
  <2>3. Listened(l, started) /\ started.rxid = x /\ started.missing = 1..v /\ Sound(started)
    <3> DEFINE mi == 1..v
               rx == h.xact
    <3>1. mi \in Segs /\ rx \in Byte /\ started = [l EXCEPT !.rxid = rx, !.missing = mi]
      BY <2>1, <2>2
    <3> HIDE DEF mi, rx
    <3>2. /\ started.prev = l.prev /\ Keeps(l, started) /\ started.tx = l.tx
          /\ started.txid = l.txid /\ started.queue = l.queue /\ started.expect = l.expect
          /\ started.rxid = rx /\ started.missing = mi
      BY <1>2, <3>1 DEF LinkT, Keeps
    <3>3. started \in LinkT
      BY <1>2, <3>1 DEF LinkT
    <3>4. Listened(l, started) /\ Sound(started)
      BY <3>2, <3>3, ListenedSame
    <3>5. QED
      BY <1>1, <3>2, <3>4 DEF mi, rx
  <2>4. CASE v = 0
    <3>1. Whole(l, h) /\ started.missing = {}
      BY <1>6, <1>14, <2>3, <2>4
    <3>2. m = MsgRecv(s, started, h.pdu, "sent")
      BY <1>1, <1>5, <1>14, <3>1
    <3>3. Ended(s, l, x, h, m)
      BY <2>3, <3>1, <3>2 DEF Ended
    <3>4. QED
      BY <1>8, <1>14, <3>1, <3>3 DEF h, m
  <2>5. CASE v # 0
    <3>1. ~Whole(l, h)
      BY <1>3, <1>6, <1>14, <2>5
    <3>2. m = started
      BY <1>1, <1>5, <1>14, <3>1
    <3>3. m.prev = l.prev /\ m.rxid = h.xact /\ m.missing = 1..v /\ Listened(l, m)
      BY <1>1, <2>3, <3>2 DEF Listened
    <3>4. Flow(k2, m, z)
      BY <1>1, <1>14, <2>5, <3>3, FlowStart DEF h, v
    <3>5. QED
      BY <3>1, <3>3, <3>4 DEF h, m
  <2>6. QED
    BY <2>4, <2>5
<1>15. CASE h.seg \in l.missing
  <2>0. h.seg # 0 /\ l.prev # x /\ l.rxid = x /\ h.seg \in 1..2 /\ l.missing # {}
    BY <1>2, <1>7, <1>9, <1>15
  <2>1. l.missing \ {h.seg} \in Segs
    BY <1>2 DEF Segs
  <2>2. stored = [l EXCEPT !.rxid = l.rxid, !.missing = l.missing \ {h.seg}]
    BY <1>2 DEF stored, LinkT
  <2>3. /\ Listened(l, stored) /\ stored.rxid = x /\ stored.missing = l.missing \ {h.seg}
        /\ Sound(stored)
    <3> DEFINE mi == l.missing \ {h.seg}
               rx == l.rxid
    <3>1. mi \in Segs /\ rx \in Byte /\ stored = [l EXCEPT !.rxid = rx, !.missing = mi]
      BY <1>2, <2>1, <2>2
    <3> HIDE DEF mi, rx
    <3>2. /\ stored.prev = l.prev /\ Keeps(l, stored) /\ stored.tx = l.tx
          /\ stored.txid = l.txid /\ stored.queue = l.queue /\ stored.expect = l.expect
          /\ stored.rxid = rx /\ stored.missing = mi
      BY <1>2, <3>1 DEF LinkT, Keeps
    <3>3. stored \in LinkT
      BY <1>2, <3>1 DEF LinkT
    <3>4. Listened(l, stored) /\ Sound(stored)
      BY <3>2, <3>3, ListenedSame
    <3>5. QED
      BY <2>0, <3>2, <3>4 DEF mi, rx
  <2>4. m = IF Whole(l, h) THEN MsgRecv(s, stored, h.pdu, "sent") ELSE stored
    BY <1>1, <1>5, <1>15, <2>0
  <2>5. CASE l.missing = {h.seg}
    <3>1. Whole(l, h) /\ stored.missing = {}
      BY <1>6, <2>0, <2>3, <2>5
    <3>2. Ended(s, l, x, h, m)
      BY <2>3, <2>4, <3>1 DEF Ended
    <3>3. QED
      BY <1>8, <2>0, <3>1, <3>2 DEF h, m
  <2>6. CASE l.missing # {h.seg}
    <3>1. ~Whole(l, h)
      BY <1>6, <2>0, <2>6
    <3>2. l.missing \ {h.seg} # {}
      BY <1>15, <2>6
    <3>3. m.prev = l.prev /\ m.rxid = l.rxid /\ m.missing = l.missing \ {h.seg} /\ Listened(l, m)
      BY <2>0, <2>3, <2>4, <3>1 DEF Listened
    <3>4. Flow(k2, m, z)
      BY <1>1, <1>2, <1>15, <3>2, <3>3, FlowStore DEF h
    <3>5. QED
      BY <3>1, <3>3, <3>4 DEF h, m
  <2>7. QED
    BY <2>5, <2>6
<1>16. QED
  BY <1>11, <1>12, <1>13, <1>14, <1>15

-----------------------------------------------------------------------------
\* So does sending an advert.
LEMMA PoppedAlike ==
  ASSUME NEW k, NEW k2, Popped(k, k2)
  PROVE  Alike(k, k2) /\ Ear(k, k2)
BY DEF Popped, Alike, Ear

\* A side is where it is.
LEMMA AlikeSelf == ASSUME NEW l PROVE Alike(l, l) /\ Ear(l, l)
BY DEF Alike, Keeps, Ear

\* What the sender of an advert knows of the other.
LEMMA OtherFlow ==
  ASSUME NEW k, Sound(k), Fit(k), k.queue # <<>>, NEW l, NEW z, Flow(l, k, z),
         Head(k.queue).kind = "ack" => Head(k.queue).xact # l.tx.xact,
         NEW k2, Popped(k, k2), NEW m, m.tx = l.tx, \A n : HasSeg(l.queue, n) => HasSeg(m.queue, n)
  PROVE  Flow(m, k2, z)
<1>1. \A y : HasAck(k.queue, y) => HasAck(Tail(k.queue), y)
               \/ (Head(k.queue).kind = "ack" /\ Head(k.queue).xact = y)
  BY TailHas
<1>2. HasAck(k.queue, l.tx.xact) => HasAck(k2.queue, l.tx.xact)
  BY <1>1 DEF Popped
<1>3. Ear(k, k2)
  BY PoppedAlike
<1>4. QED
  BY <1>2, <1>3, FlowSame

\* The device takes no notice of an advert.
LEMMA DevUnmoved ==
  ASSUME NEW p, Sound(p), NEW d, Sound(d), NEW z \in Nat, Track(p, d, z), p.queue # <<>>,
         NEW p2, Popped(p, p2), Fit(p2), p2.held = p.held,
         LET a == Head(p.queue)
         IN /\ a.kind # "seg" /\ (a.kind = "open" => d.active)
            /\ a.kind = "ack" /\ d.tx.pdu.type \in Types => a.xact # d.tx.xact
  PROVE  Track(p2, d, z)
<1> DEFINE a == Head(p.queue)
           t == Tail(p.queue)
<1>1. /\ p.active /\ Fit(p) /\ Fit(d) /\ Stage(p, d) /\ Flow(p, d, z) /\ Flow(d, p, z)
      /\ Opening(p, d, z) /\ Acking(d, p, z)
  BY DEF Track, Flows
<1>2. Alike(p, p2) /\ Alike(d, d) /\ Ear(d, d) /\ Ear(p, p2)
  BY PoppedAlike, AlikeSelf
<1>3. p2.active /\ p2.tx = p.tx /\ p2.queue = t /\ p2.missing = p.missing
  BY <1>1 DEF Popped, Keeps, Ear
<1>4. Stage(p2, d)
  BY <1>1, <1>2, StageAlike
<1>5. Flow(p2, d, z)
  BY <1>1, <1>2, FlowDeaf
<1>6. Flow(d, p2, z)
  <2>1. CASE d.tx.pdu.type \in Types
    BY <1>1, <2>1, OtherFlow
  <2>2. CASE d.tx.pdu.type \notin Types
    <3>1. Mute(d) \/ d.tx.pdu.type \in Ctl
      BY <1>1, <2>2, StageSays DEF Ctl
    <3>2. Mute(d) => p2.missing = {}
      BY <1>1, <1>3 DEF Flow
    <3>3. QED
      BY <3>1, <3>2, FlowMute, FlowCtl
  <2>3. QED
    BY <2>1, <2>2
<1>7. /\ \A n : HasSeg(p.queue, n) => HasSeg(t, n)
      /\ ~d.active => \A op : HasCtl(p.queue, op) /\ op = "open" => HasCtl(t, op)
  BY <1>1, TailHas
<1> HIDE DEF t
<1>8. Opening(p2, d, z)
  BY <1>1, <1>3, <1>7 DEF Opening, Paid
<1>9. Acking(d, p2, z)
  BY <1>1, <1>3, <1>7 DEF Acking, Paid
<1>10. QED
  BY <1>1, <1>3, <1>4, <1>5, <1>6, <1>8, <1>9 DEF Track, Flows

\* link_open.
LEMMA DevOpens ==
  ASSUME NEW p, Sound(p), NEW d, Sound(d), NEW z \in Nat, Track(p, d, z), p.queue # <<>>,
         NEW p2, Popped(p, p2), Fit(p2), ~d.active, Head(p.queue).kind = "open"
  PROVE  LET m == LinkOpen(d, Head(p.queue), "sent")
         IN m.active /\ Track(p2, m, z)
<1> DEFINE a == Head(p.queue)
           k == [d EXCEPT !.id = a.link, !.active = TRUE]
           e == CtlSend("dev", k, "link ack", TRUE)
           m == LinkOpen(d, a, "sent")
<1>1. /\ p.active /\ Fit(p) /\ Fit(d) /\ Stage(p, d) /\ Flow(p, d, z) /\ Flow(d, p, z)
      /\ Opening(p, d, z)
  BY DEF Track, Flows
<1>2. a \in AdvT /\ a.link = 1 /\ p.tx.pdu.type = "open"
  BY <1>1, HeadSays DEF Ctl
<1>3. POpen(p) /\ DIdle(d)
  BY <1>1, <1>2, StageSays DEF Mute, Types
<1>4. m = [e EXCEPT !.expect = "invite"]
  <2>1. CtlOk("sent") = TRUE
    BY DEF CtlOk
  <2>2. m = [CtlSend("dev", k, "link ack", CtlOk("sent")) EXCEPT !.expect = "invite"]
    BY DEF LinkOpen
  <2>3. QED
    BY <2>1, <2>2, Zenon
<1>5. d \in LinkT /\ 1 \in Id
  BY <1>2 DEF Sound, AdvT, Id
<1>6. k \in LinkT
  BY <1>2, <1>5 DEF LinkT
<1>7. /\ k.queue = d.queue /\ k.tx = d.tx /\ k.txid = d.txid /\ Ear(d, k) /\ k.closing = d.closing
      /\ k.inputs = d.inputs /\ k.busy = d.busy /\ k.send = d.send /\ k.dhkey = d.dhkey
      /\ k.id = 1 /\ k.active = TRUE
  BY <1>2, <1>5 DEF LinkT, Ear
<1> HIDE DEF k, m, a
<1>8. Sound(k)
  BY <1>6, <1>7 DEF Sound
<1>9. Fit(k)
  <2>1. Settled(k)
    BY <1>1, <1>7, SettledSame DEF Fit, Ear
  <2>2. QED
    BY <1>1, <1>7, <2>1 DEF Fit, Mute
<1>10. /\ Sound(e) /\ Fit(e) /\ Keeps(k, e) /\ Ear(k, e)
       /\ e.tx.pdu.type = "link ack" /\ e.tx.tries = 0 /\ e.txid = k.txid
       /\ HasCtl(e.queue, "link ack")
  <2>1. "dev" \in Sides /\ "link ack" \in {"open", "link ack"} /\ k.id = 1
    BY <1>7 DEF Sides
  <2>2. QED
    BY <1>8, <1>9, <2>1, CtlEff
<1> HIDE DEF e
<1>11. e \in LinkT
  BY <1>10 DEF Sound
<1>12. Apart(e, m) /\ Keeps(e, m) /\ m.expect = "invite"
  BY <1>4, <1>11 DEF LinkT, Apart, Ear, Keeps
<1>13. Fit(m)
  BY <1>10, <1>12, ApartEff
<1>14. /\ m.active /\ m.inputs = d.inputs /\ m.busy = d.busy /\ m.send = d.send
       /\ m.dhkey = d.dhkey
  BY <1>7, <1>10, <1>12 DEF Keeps
<1>15. /\ m.tx.pdu.type = "link ack" /\ m.tx.tries = 0 /\ m.txid = d.txid
       /\ HasCtl(m.queue, "link ack") /\ m.prev = d.prev /\ m.missing = d.missing
  BY <1>7, <1>10, <1>12 DEF Apart, Ear
<1>16. DAck(m)
  BY <1>3, <1>12, <1>14, <1>15 DEF DAck, DIdle, NoKey
<1>17. Stage(p, m)
  BY <1>3, <1>16 DEF Stage
<1>18. Alike(p, p2) /\ Alike(m, m) /\ Ear(p, p2)
  BY PoppedAlike, AlikeSelf
<1>19. Stage(p2, m)
  BY <1>14, <1>17, <1>18, StageAlike
<1>20. p2.active /\ p2.tx = p.tx /\ p2.missing = {} /\ d.missing = {}
  BY <1>1, <1>2, <1>3 DEF Popped, Keeps, Ear, Flow, Opening, DIdle
<1>21. Flow(p2, m, z) /\ Flow(m, p2, z)
  <2>1. p2.tx.pdu.type \in Ctl /\ m.tx.pdu.type \in Ctl
    BY <1>2, <1>15, <1>20 DEF Ctl
  <2>2. QED
    BY <2>1, FlowCtl
<1>22. Opening(p2, m, z)
  BY <1>1, <1>2, <1>14, <1>15, <1>20 DEF Opening, Paid
<1>23. Acking(m, p2, z)
  <2>1. Paid(m, z, HasCtl(m.queue, "link ack"))
    <3>1. 0 < z \/ 0 = z
      OBVIOUS
    <3>2. m.tx.tries = 0 /\ HasCtl(m.queue, "link ack")
      BY <1>15
    <3>3. QED
      BY <3>1, <3>2, Zenon DEF Paid
  <2>2. p2.tx.pdu.type = "open"
    BY <1>2, <1>20
  <2>3. QED
    BY <1>20, <2>1, <2>2 DEF Acking
<1>24. QED
  BY <1>13, <1>14, <1>19, <1>20, <1>21, <1>22, <1>23 DEF Track, Flows, m, a

-----------------------------------------------------------------------------
\* About numbers of transactions and segments.
LEMMA Far ==
  /\ \A i : i \in 0..132 => i # XACT_NVAL
  /\ \A i : i \in 0..5 => i \in 0..132
  /\ \A i : i \in 128..132 => i \in 0..132
  /\ 1..0 = {}
  /\ \A n \in 0..2 : n <= 0 => n = 0
BY DEF XACT_NVAL

\* An acknowledgement that comes is of what was heard.
LEMMA AckTells ==
  ASSUME NEW k, Sound(k), Fit(k), k.queue # <<>>, NEW l, NEW z, Flow(l, k, z),
         l.tx.pdu.type \in Types, l.tx.xact \in 0..132,
         Head(k.queue).kind = "ack", Head(k.queue).xact = l.tx.xact
  PROVE  k.prev = l.tx.xact /\ k.missing = {}
<1>1. k.prev # XACT_NVAL /\ l.tx.xact <= k.prev
  BY HeadSays
<1>2. k.prev \in 0..255
  BY DEF Sound, LinkT, Byte
<1>3. \A i \in 0..255, j \in 0..132 : j <= i => ~(i < j)
  OBVIOUS
<1>4. ~Unheard(l, k, z)
  BY <1>1, <1>2, <1>3 DEF Unheard
<1>5. k.prev = l.tx.xact /\ Heard(l, k, z)
  BY <1>4 DEF Flow
<1>6. QED
  BY <1>5 DEF Heard

\* gen_prov_ack of the device.
LEMMA DevCleared ==
  ASSUME NEW p, Sound(p), NEW d, Sound(d), NEW z \in Nat, Track(p, d, z), p.queue # <<>>,
         NEW p2, Popped(p, p2), Fit(p2), d.tx.pdu.type \in Types,
         Head(p.queue).kind = "ack", Head(p.queue).xact = d.tx.xact
  PROVE  LET m == ClearTx(d)
         IN m.active = d.active /\ Track(p2, m, z)
<1> DEFINE m == ClearTx(d)
<1>1. /\ p.active /\ Fit(p) /\ Fit(d) /\ Stage(p, d) /\ Flow(p, d, z) /\ Flow(d, p, z)
      /\ Opening(p, d, z)
  BY DEF Track, Flows
<1>2. d.tx.xact \in 0..132 /\ d.active
  <2>1. d.tx.xact \in 128..132 /\ (DIdle(d) \/ d.active)
    BY <1>1, StageSays
  <2>2. ~DIdle(d)
    BY DEF DIdle, Mute, Types
  <2>3. QED
    BY <2>1, <2>2
<1>3. p.prev = d.tx.xact /\ p.missing = {}
  BY <1>1, <1>2, AckTells
<1>4. /\ Fit(m) /\ Keeps(d, m) /\ Ear(d, m) /\ SameAcks(d, m)
      /\ Mute(m) /\ m.txid = d.txid /\ m.expect = d.expect
  BY <1>1, ClearEff
<1> HIDE DEF m
<1>5. Hushed(d, m) /\ m.active = d.active
  BY <1>4 DEF Hushed, Keeps, Ear
<1>6. Stage(p, m)
  BY <1>1, <1>3, <1>5, StageHushDev
<1>7. Alike(p, p2) /\ Alike(m, m) /\ Ear(p, p2)
  BY PoppedAlike, AlikeSelf
<1>8. Stage(p2, m)
  BY <1>2, <1>5, <1>6, <1>7, StageAlike
<1>9. p2.active /\ p2.missing = {} /\ p2.tx = p.tx
  BY <1>1, <1>3 DEF Popped, Keeps, Ear
<1>10. Flow(m, p2, z)
  BY <1>4, <1>9, FlowMute
<1>11. Flow(p2, m, z)
  BY <1>1, <1>4, FlowDeaf DEF SameAcks
<1>12. Opening(p2, m, z)
  <2>1. p.tx.pdu.type # "open"
    <3>1. p.tx.pdu.type = "open" => POpen(p)
      BY <1>1, StageSays DEF Mute, Types
    <3>2. POpen(p) => p.prev = XACT_NVAL
      BY DEF POpen
    <3>3. QED
      BY <1>2, <1>3, <3>1, <3>2, Far
  <2>2. QED
    BY <1>9, <2>1 DEF Opening
<1>13. Acking(m, p2, z)
  BY <1>4 DEF Acking, Mute
<1>14. QED
  BY <1>4, <1>5, <1>8, <1>9, <1>10, <1>11, <1>12, <1>13 DEF Track, Flows, m

\* A segment that comes to the device.
LEMMA DevSeg ==
  ASSUME NEW p, Sound(p), NEW d, Sound(d), NEW z \in Nat, Track(p, d, z), p.queue # <<>>,
         NEW p2, Popped(p, p2), Fit(p2), d.active, Head(p.queue).kind = "seg"
  PROVE  LET m == SegRecv("dev", d, Head(p.queue), "sent")
         IN m.active /\ Track(p2, m, z)
<1> DEFINE h == Head(p.queue)
           m == SegRecv("dev", d, h, "sent")
           x == p.tx.xact
<1>1. /\ p.active /\ Fit(p) /\ Fit(d) /\ Stage(p, d) /\ Flow(p, d, z) /\ Flow(d, p, z)
      /\ Acking(d, p, z)
  BY DEF Track, Flows
<1>2. h.pdu = p.tx.pdu /\ h.xact = x /\ p.tx.pdu.type \in Types /\ h.seg <= LastSeg(p.tx.pdu.type)
      /\ h \in AdvT
  BY <1>1, HeadSays
<1>3. x \in 0..5 /\ x \in 0..132
  <2>1. x \in 0..5
    BY <1>1, <1>2, StageSays
  <2>2. QED
    BY <2>1, Far
<1>4. d.id = 1 /\ "dev" \in Sides
  BY <1>1 DEF Fit, Sides
<1>5. \/ ~Whole(d, h) /\ Listened(d, m) /\ Flow(p2, m, z)
      \/ /\ Whole(d, h) /\ d.prev # x /\ (d.prev = XACT_NVAL \/ d.prev < x)
         /\ Ended("dev", d, x, h, m)
  BY <1>1, <1>3, <1>4, SegEff
<1>6. Alike(p, p2) /\ Alike(m, m) /\ Ear(p, p2) /\ p2.active /\ p2.tx = p.tx /\ p2.missing = p.missing
  BY <1>1, PoppedAlike, AlikeSelf DEF Popped, Keeps, Ear
<1>7. \A y : HasAck(p.queue, y) => HasAck(p2.queue, y)
  BY <1>1, TailHas DEF Popped
<1> HIDE DEF h, m
<1>8. Opening(p2, m, z)
  BY <1>2, <1>6 DEF Opening, Types
<1>9. CASE ~Whole(d, h) /\ Listened(d, m) /\ Flow(p2, m, z)
  <2>1. Alike(d, m) /\ m.active /\ m.tx = d.tx /\ Fit(m)
        /\ \A n : HasSeg(d.queue, n) => HasSeg(m.queue, n)
    BY <1>9, ListenedAlike DEF Listened, Voice
  <2>2. Stage(p2, m)
    BY <1>1, <1>6, <2>1, StageAlike
  <2>3. Flow(m, p2, z)
    BY <1>1, <1>6, <1>7, <2>1, FlowSame
  <2>4. d.tx.pdu.type # "link ack"
    <3> SUFFICES ASSUME d.tx.pdu.type = "link ack"
                 PROVE  FALSE
      OBVIOUS
    <3>1. DAck(d)
      BY <1>1, StageSays DEF Mute, Types
    <3>2. d.prev = XACT_NVAL
      BY <3>1 DEF DAck
    <3>3. d.prev # x
      BY <1>3, <3>2, Far
    <3>4. Asks(p, d)
      BY <1>1, <1>2, <3>3, StageAsks
    <3>5. PInvite(p)
      BY <3>1, <3>4 DEF Asks, DAck, DCaps, DStart, DPubKey, DConfirm, DRandom, DevAt, At, Told, Mute
    <3>6. p.tx.pdu.type = "invite"
      BY <1>2, <3>5 DEF PInvite, PrvAt, At, Told, Mute, Types
    <3>7. LastSeg(p.tx.pdu.type) = 0
      BY <3>6 DEF LastSeg
    <3>8. h.seg = 0
      <4>1. h.seg \in 0..2
        BY <1>2 DEF AdvT
      <4>2. h.seg <= 0
        BY <1>2, <3>7
      <4>3. QED
        BY <4>1, <4>2, Far
    <3>9. d.missing = {}
      <4>1. Unheard(p, d, z)
        BY <1>1, <1>2, <3>3 DEF Flow
      <4>2. d.missing \subseteq 1..0
        BY <3>7, <4>1 DEF Unheard
      <4>3. QED
        BY <4>2, Far
    <3>10. Whole(d, h)
      BY <1>2, <3>3, <3>7, <3>8, <3>9 DEF Whole, h
    <3>11. QED
      BY <1>9, <3>10
  <2>5. Acking(m, p2, z)
    BY <2>1, <2>4 DEF Acking
  <2>6. QED
    BY <1>6, <1>8, <1>9, <2>1, <2>2, <2>3, <2>5 DEF Track, Flows, m, h
<1>10. CASE /\ Whole(d, h) /\ d.prev # x /\ (d.prev = XACT_NVAL \/ d.prev < x)
            /\ Ended("dev", d, x, h, m)
  <2>1. PICK e : /\ Sound(e) /\ Listened(d, e) /\ e.rxid = x /\ e.missing = {}
                 /\ m = MsgRecv("dev", e, h.pdu, "sent")
    BY <1>10 DEF Ended
  <2> DEFINE c == Acked(e)
  <2>2. /\ Noted(d, c, x) /\ c.missing = {} /\ HasAck(c.queue, x)
        /\ \A n : HasSeg(d.queue, n) => HasSeg(c.queue, n)
    BY <1>1, <1>3, <1>4, <1>10, <2>1, NotedEff
  <2>3. Asks(p, d)
    BY <1>1, <1>2, <1>10, StageAsks
  <2> HIDE DEF c
  <2>4. h.pdu.type = c.expect /\ Answered(p, d, DevHandler(c, h.pdu, "sent"))
    BY <1>2, <2>2, <2>3, DevHandlesEff
  <2>5. c.expect = e.expect
    BY <2>1, <2>2 DEF Noted, Listened
  <2>6. m = DevHandler(c, h.pdu, "sent")
    BY <2>1, <2>4, <2>5 DEF MsgRecv, Expected, c
  <2>7. /\ Fit(m) /\ m.prev = x /\ m.missing = {} /\ HasAck(m.queue, x)
        /\ m.active /\ Stage(p, m) /\ Spoken(d, m, p.prev)
    BY <2>4, <2>6 DEF Answered
  <2>8. Stage(p2, m)
    BY <1>6, <2>7, StageAlike
  <2>9. Flow(p2, m, z)
    BY <1>1, <1>2, <1>6, <2>7, FlowTaken
  <2>10. p.missing = {}
    <3>1. d.tx.pdu.type = "link ack" \/ Mute(d) \/ (d.tx.pdu.type \in Types /\ p.prev = d.tx.xact)
      BY <2>3, AsksHeard
    <3>2. QED
      BY <1>1, <3>1 DEF Acking, Flow, Heard
  <2>11. p.prev \in Byte
    BY DEF Sound, LinkT
  <2>12. Flow(m, p2, z)
    BY <1>1, <1>6, <1>7, <2>7, <2>10, <2>11, SpokenFlow
  <2>13. m.tx.pdu.type # "link ack"
    <3>1. m.tx.pdu.type = "link ack" => DAck(m)
      BY <2>7, StageSays DEF Mute, Types
    <3>2. DAck(m) => m.prev = XACT_NVAL
      BY DEF DAck
    <3>3. QED
      BY <1>3, <2>7, <3>1, <3>2, Far
  <2>14. Acking(m, p2, z)
    BY <2>13 DEF Acking
  <2>15. QED
    BY <1>6, <1>8, <2>7, <2>8, <2>9, <2>12, <2>14 DEF Track, Flows, m, h
<1>11. QED
  BY <1>5, <1>9, <1>10

-----------------------------------------------------------------------------
\* gen_prov_recv and gen_prov_ctl.
LEMMA RecvDev ==
  ASSUME NEW d, NEW a
  PROVE  LET m == Recv("dev", d, a, "sent")
         IN /\ a.kind = "cancelled" \/ ~DevHears(d, a) => m = d
            /\ DevHears(d, a) /\ a.kind = "seg" => m = SegRecv("dev", d, a, "sent")
            /\ DevHears(d, a) /\ a.kind = "ack" => m = AckRecv("dev", d, a.xact, "sent")
            /\ DevHears(d, a) /\ a.kind = "open" => m = LinkOpen(d, a, "sent")
<1> DEFINE m == Recv("dev", d, a, "sent")
<1>1. a.kind = "cancelled" \/ ~DevHears(d, a) => m = d
  BY DEF Recv
<1>2. DevHears(d, a) /\ a.kind = "seg" => m = SegRecv("dev", d, a, "sent")
  BY DEF Recv
<1>3. DevHears(d, a) /\ a.kind = "ack" => m = AckRecv("dev", d, a.xact, "sent")
  BY DEF Recv
<1>4. DevHears(d, a) /\ a.kind = "open" => m = LinkOpen(d, a, "sent")
  BY DEF Recv
<1>5. QED
  BY <1>1, <1>2, <1>3, <1>4

\* The device hears an advert.
LEMMA ToDev ==
  ASSUME NEW p, Sound(p), NEW d, Sound(d), NEW z \in Nat, Track(p, d, z), p.queue # <<>>,
         ~d.active => addr = 0, NEW p2, Popped(p, p2), Fit(p2),
         p2.held = (p.held /\ Recv("dev", d, Head(p.queue), "sent").tx = d.tx)
  PROVE  LET m == Recv("dev", d, Head(p.queue), "sent")
         IN Track(p2, m, z) /\ (d.active => m.active)
<1> DEFINE a == Head(p.queue)
           m == Recv("dev", d, a, "sent")
<1>1. p.active /\ Fit(p) /\ Fit(d) /\ Stage(p, d) /\ Flow(d, p, z)
  BY DEF Track, Flows
<1>2. /\ a \in AdvT /\ (a.kind # "cancelled" => a.link = 1)
      /\ a.kind = "seg" => p.tx.pdu.type \in Types
      /\ a.kind \in Ctl => a.kind = p.tx.pdu.type
      /\ a.kind = "ack" => p.prev # XACT_NVAL
  BY <1>1, HeadSays
<1>3. /\ a.kind = "cancelled" \/ ~DevHears(d, a) => m = d
      /\ DevHears(d, a) /\ a.kind = "seg" => m = SegRecv("dev", d, a, "sent")
      /\ DevHears(d, a) /\ a.kind = "ack" => m = AckRecv("dev", d, a.xact, "sent")
      /\ DevHears(d, a) /\ a.kind = "open" => m = LinkOpen(d, a, "sent")
  BY RecvDev
<1>4. p2.held = (p.held /\ m.tx = d.tx) /\ p.held \in BOOLEAN
  BY DEF Sound, LinkT
<1>5. Mute(p) \/ p.tx.pdu.type \in Types \/ (p.tx.pdu.type = "open" /\ POpen(p))
  BY <1>1, StageSays
<1>6. DIdle(d) \/ d.active
  BY <1>1, StageSays
<1>7. a.kind # "link ack" /\ a.kind # "close"
  BY <1>2, <1>5 DEF Ctl, Mute, Types
<1>8. a.kind \in {"cancelled", "seg", "ack", "open"}
  BY <1>2, <1>7 DEF AdvT, Ctl
<1> HIDE DEF m
<1>9. ASSUME m = d, a.kind # "seg", a.kind = "open" => d.active,
             a.kind = "ack" /\ d.tx.pdu.type \in Types => a.xact # d.tx.xact
      PROVE  Track(p2, m, z) /\ (d.active => m.active)
  <2>1. p2.held = p.held
    BY <1>4, <1>9
  <2>2. Track(p2, d, z)
    BY <1>9, <2>1, DevUnmoved
  <2>3. QED
    BY <1>9, <2>2
<1> HIDE DEF a
<1>10. CASE a.kind = "cancelled"
  <2>1. m = d
    BY <1>3, <1>10
  <2>2. QED
    BY <1>9, <1>10, <2>1 DEF m, a
<1>11. CASE a.kind # "cancelled" /\ ~d.active
  <2>1. DIdle(d) /\ addr = 0
    BY <1>6, <1>11
  <2>2. d.tx.pdu.type \notin Types
    BY <2>1 DEF DIdle, Mute, Types
  <2>3. CASE a.kind = "open"
    <3>1. DevHears(d, a)
      BY <1>11, <2>1, <2>3 DEF DevHears
    <3>2. m = LinkOpen(d, a, "sent")
      BY <1>3, <2>3, <3>1
    <3>3. Track(p2, m, z)
      BY <1>11, <2>3, <3>2, DevOpens DEF a
    <3>4. QED
      BY <1>11, <3>3 DEF m, a
  <2>4. CASE a.kind # "open"
    <3>1. m = d
      BY <1>3, <1>11, <2>4 DEF DevHears
    <3>2. POpen(p)
      BY <1>1, <2>1 DEF Stage, DIdle, DAck, DCaps, DStart, DPubKey, DHolds, DConfirm, DRandom,
         DComplete, DevAt
    <3>3. a.kind # "seg"
      BY <1>2, <3>2 DEF POpen, Types
    <3>4. QED
      BY <1>9, <2>2, <2>4, <3>1, <3>3 DEF m, a
  <2>5. QED
    BY <2>3, <2>4
<1>12. CASE a.kind # "cancelled" /\ d.active
  <2>1. DevHears(d, a)
    BY <1>1, <1>2, <1>12 DEF DevHears, Fit
  <2>2. CASE a.kind = "seg"
    <3>1. m = SegRecv("dev", d, a, "sent")
      BY <1>3, <2>1, <2>2
    <3>2. m.active /\ Track(p2, m, z)
      BY <1>12, <2>2, <3>1, DevSeg DEF a
    <3>3. QED
      BY <3>2 DEF m, a
  <2>3. CASE a.kind = "open"
    <3>1. m = LinkOpen(d, a, "sent")
      BY <1>3, <2>1, <2>3
    <3>2. m = d
      BY <1>12, <3>1 DEF LinkOpen
    <3>3. QED
      BY <1>9, <1>12, <2>3, <3>2 DEF m, a
  <2>4. CASE a.kind = "ack"
    <3>1. m = AckRecv("dev", d, a.xact, "sent")
      BY <1>3, <2>1, <2>4
    <3>2. m = IF d.tx = NoTx THEN d ELSE IF a.xact = d.txid THEN ClearTx(d) ELSE d
      BY <3>1 DEF AckRecv
    <3>3. d.tx # NoTx => d.tx.pdu.type \in Types
      <4>1. DAck(d) => p.prev = XACT_NVAL
        BY <1>1 DEF Stage, DAck, POpen, PInvite, PrvAt, At, DCaps, DStart, DPubKey, DHolds,
           DConfirm, DRandom, DComplete, DevAt, At, Told, Mute
      <4>2. d.tx # NoTx => ~Mute(d)
        BY <1>1 DEF Fit
      <4>3. Mute(d) \/ d.tx.pdu.type \in Types \/ DAck(d)
        BY <1>1, StageSays
      <4>4. QED
        BY <1>2, <2>4, <4>1, <4>2, <4>3
    <3>4. d.tx.pdu.type \in Types => d.txid = d.tx.xact /\ d.tx # NoTx
      <4>1. d.tx = NoTx => d.tx.pdu.type \notin Types
        BY Constants DEF Types
      <4>2. QED
        BY <1>1, <4>1, StageSays, ZenonT(30)
    <3>5. CASE d.tx # NoTx /\ a.xact = d.txid
      <4>1. m = ClearTx(d) /\ d.tx.pdu.type \in Types /\ a.xact = d.tx.xact
        BY <3>2, <3>3, <3>4, <3>5
      <4>2. m.active = d.active /\ Track(p2, m, z)
        BY <2>4, <4>1, DevCleared DEF a
      <4>3. QED
        BY <4>2 DEF m, a
    <3>6. CASE ~(d.tx # NoTx /\ a.xact = d.txid)
      <4>1. m = d
        BY <3>2, <3>6
      <4>2. d.tx.pdu.type \in Types => a.xact # d.tx.xact
        BY <3>4, <3>6
      <4>3. QED
        BY <1>9, <2>4, <4>1, <4>2 DEF m, a
    <3>7. QED
      BY <3>5, <3>6
  <2>5. QED
    BY <1>8, <1>12, <2>2, <2>3, <2>4
<1>13. QED
  BY <1>10, <1>11, <1>12

-----------------------------------------------------------------------------
\* Transactions of the provisioner.
LEMMA Near ==
  0 \in Byte /\ 0 # XACT_NVAL /\ 2 \in Byte /\ 2 # XACT_NVAL /\ 1 \in Byte /\ 1 < 2
BY DEF Byte, XACT_NVAL

\* The provisioner takes no notice of an advert.
LEMMA PrvUnmoved ==
  ASSUME NEW p, Sound(p), NEW d, Sound(d), NEW z \in Nat, Track(p, d, z), d.queue # <<>>,
         d.active, NEW d2, Popped(d, d2), Fit(d2), d2.held = d.held,
         LET a == Head(d.queue)
         IN /\ a.kind # "seg" /\ (a.kind = "link ack" => p.tx.pdu.type # "open")
            /\ a.kind = "ack" /\ p.tx.pdu.type \in Types => a.xact # p.tx.xact
  PROVE  Track(p, d2, z)
<1> DEFINE a == Head(d.queue)
           t == Tail(d.queue)
<1>1. /\ p.active /\ Fit(p) /\ Fit(d) /\ Stage(p, d) /\ Flow(p, d, z) /\ Flow(d, p, z)
      /\ Opening(p, d, z) /\ Acking(d, p, z)
  BY DEF Track, Flows
<1>2. Alike(d, d2) /\ Alike(p, p) /\ Ear(p, p) /\ Ear(d, d2)
  BY PoppedAlike, AlikeSelf
<1>3. d2.active /\ d2.tx = d.tx /\ d2.queue = t /\ d2.missing = d.missing
  BY DEF Popped, Keeps, Ear
<1>4. Stage(p, d2)
  BY <1>1, <1>2, StageAlike
<1>5. Flow(d2, p, z)
  BY <1>1, <1>2, FlowDeaf
<1>6. Flow(p, d2, z)
  <2>1. CASE p.tx.pdu.type \in Types
    BY <1>1, <2>1, OtherFlow
  <2>2. CASE p.tx.pdu.type \notin Types
    <3>1. Mute(p) \/ p.tx.pdu.type \in Ctl
      BY <1>1, <2>2, StageSays DEF Ctl
    <3>2. Mute(p) => d2.missing = {}
      BY <1>1, <1>3 DEF Flow
    <3>3. QED
      BY <3>1, <3>2, FlowMute, FlowCtl
  <2>3. QED
    BY <2>1, <2>2
<1>7. p.tx.pdu.type = "open" => (HasCtl(d.queue, "link ack") => HasCtl(t, "link ack"))
  BY <1>1, TailHas
<1> HIDE DEF t
<1>8. Opening(p, d2, z)
  BY <1>1, <1>3, <1>7 DEF Opening, Paid
<1>9. Acking(d2, p, z)
  BY <1>1, <1>3, <1>7 DEF Acking, Paid
<1>10. QED
  BY <1>1, <1>3, <1>4, <1>5, <1>6, <1>8, <1>9 DEF Track, Flows

\* link_ack.
LEMMA PrvInvites ==
  ASSUME NEW p, Sound(p), NEW d, Sound(d), NEW z \in Nat, Track(p, d, z), d.queue # <<>>,
         NEW d2, Popped(d, d2), Fit(d2), Head(d.queue).kind = "link ack",
         p.tx.pdu.type = "open"
  PROVE  LET m == LinkAck(p, "sent")
         IN m.active /\ Track(m, d2, z)
<1> DEFINE m == LinkAck(p, "sent")
<1>1. /\ p.active /\ Fit(p) /\ Fit(d) /\ Stage(p, d) /\ Opening(p, d, z) /\ Acking(d, p, z)
  BY DEF Track, Flows
<1>2. d.tx.pdu.type = "link ack"
  BY <1>1, HeadSays DEF Ctl
<1>3. POpen(p) /\ DAck(d)
  BY <1>1, <1>2, StageSays DEF Mute, Types
<1>4. p.id = 1 /\ p.expect = "invite"
  BY <1>1, <1>3 DEF Fit, POpen
<1>5. m = SendInvite(p, "sent")
  BY <1>4 DEF LinkAck
<1> HIDE DEF m
<1>6. Handled(p, m) /\ PInvite(m) /\ Says(m, 0) /\ ~Mute(m)
  BY <1>1, <1>3, <1>4, <1>5, OnLinkAck
<1>7. Alike(d, d2) /\ Ear(d, d2) /\ d2.tx = d.tx
  BY PoppedAlike DEF Popped
<1>8. DAck(d2)
  BY <1>3, <1>7 DEF DAck, Alike, Keeps, NoKey
<1>9. Stage(m, d2)
  BY <1>6, <1>8 DEF Stage
<1>10. d2.missing = {} /\ d2.prev = XACT_NVAL /\ d2.prev \in Byte
  <2>1. d.missing = {}
    BY <1>1 DEF Opening
  <2>2. d.prev = XACT_NVAL /\ d.prev \in Byte
    BY <1>3 DEF DAck, Sound, LinkT
  <2>3. QED
    BY <1>7, <2>1, <2>2 DEF Ear
<1>11. m.tx.pdu.type \in Types /\ m.tx.xact = 0 /\ m.tx.tries = 0 /\ HasSeg(m.queue, 0)
  BY <1>6 DEF Says
<1>12. 0 \in Byte /\ 0 # XACT_NVAL
  BY Near
<1>13. Flow(m, d2, z)
  BY <1>10, <1>11, <1>12, FlowNew
<1>14. Flow(d2, m, z)
  <2>1. d2.tx.pdu.type \in Ctl
    BY <1>2, <1>7 DEF Ctl
  <2>2. QED
    BY <2>1, FlowCtl
<1>15. m.tx.pdu.type # "open"
  BY <1>11 DEF Types
<1>16. Acking(d2, m, z)
  <2>1. p.missing = {} /\ Paid(d, z, HasCtl(d.queue, "link ack"))
    BY <1>1, <1>2 DEF Acking
  <2>2. m.missing = {}
    BY <1>6, <2>1 DEF Handled, Ear
  <2>3. Paid(d2, z, HasSeg(m.queue, 0) \/ d2.held)
    <3>1. d.tx.tries < z \/ d.tx.tries = z
      BY <2>1 DEF Paid
    <3>2. d2.tx = d.tx /\ HasSeg(m.queue, 0)
      BY <1>7, <1>11
    <3>3. QED
      BY <3>1, <3>2, Zenon DEF Paid
  <2>4. QED
    BY <1>15, <2>2, <2>3 DEF Acking
<1>17. QED
  <2>1. Opening(m, d2, z)
    BY <1>15 DEF Opening
  <2>2. m.active /\ Fit(m)
    BY <1>1, <1>6 DEF Handled
  <2>3. QED
    BY <1>9, <1>13, <1>14, <1>16, <2>1, <2>2 DEF Track, Flows, m

\* gen_prov_ack of the provisioner: nothing to go on with.
LEMMA PrvCleared ==
  ASSUME NEW p, Sound(p), NEW d, Sound(d), NEW z \in Nat, Track(p, d, z), d.queue # <<>>,
         d.active, NEW d2, Popped(d, d2), Fit(d2), p.tx.pdu.type \in Types, ~p.await,
         Head(d.queue).kind = "ack", Head(d.queue).xact = p.tx.xact
  PROVE  LET m == ClearTx(p)
         IN m.active /\ Track(m, d2, z)
<1> DEFINE m == ClearTx(p)
<1>1. /\ p.active /\ Fit(p) /\ Fit(d) /\ Stage(p, d) /\ Flow(p, d, z) /\ Flow(d, p, z)
  BY DEF Track, Flows
<1>2. p.tx.xact \in 0..132
  <2>1. p.tx.xact \in 0..5
    BY <1>1, StageSays
  <2>2. QED
    BY <2>1, Far
<1>3. d.prev = p.tx.xact /\ d.missing = {}
  BY <1>1, <1>2, AckTells
<1>4. /\ Fit(m) /\ Keeps(p, m) /\ Ear(p, m) /\ SameAcks(p, m)
      /\ Mute(m) /\ m.txid = p.txid /\ m.expect = p.expect
  BY <1>1, ClearEff
<1> HIDE DEF m
<1>5. Hushed(p, m) /\ m.active
  BY <1>1, <1>4 DEF Hushed, Keeps, Ear
<1>6. Stage(m, d)
  BY <1>1, <1>3, <1>5, StageHushPrv
<1>7. Alike(d, d2) /\ Alike(m, m) /\ Ear(d, d2)
  BY PoppedAlike, AlikeSelf
<1>8. Stage(m, d2)
  BY <1>6, <1>7, StageAlike
<1>9. d2.missing = {} /\ d2.tx = d.tx
  BY <1>3 DEF Popped, Ear
<1>10. Flow(m, d2, z)
  BY <1>4, <1>9, FlowMute
<1>11. Flow(d2, m, z)
  BY <1>1, <1>4, FlowDeaf DEF SameAcks
<1>12. Opening(m, d2, z)
  BY <1>4 DEF Opening, Mute
<1>13. Acking(d2, m, z)
  <2>1. d.tx.pdu.type # "link ack"
    <3>1. d.tx.pdu.type = "link ack" => DAck(d)
      BY <1>1, StageSays DEF Mute, Types
    <3>2. DAck(d) => d.prev = XACT_NVAL
      BY DEF DAck
    <3>3. QED
      BY <1>2, <1>3, <3>1, <3>2, Far
  <2>2. QED
    BY <1>9, <2>1 DEF Acking
<1>14. QED
  BY <1>4, <1>5, <1>8, <1>10, <1>11, <1>12, <1>13 DEF Track, Flows, m

\* The acknowledgement of its start.
LEMMA PrvGoesOn ==
  ASSUME NEW p, Sound(p), NEW d, Sound(d), NEW z \in Nat, Track(p, d, z), d.queue # <<>>,
         d.active, NEW d2, Popped(d, d2), Fit(d2), p.tx.pdu.type \in Types, p.await,
         Head(d.queue).kind = "ack", Head(d.queue).xact = p.tx.xact
  PROVE  LET m == AckRecv("prv", p, p.tx.xact, "sent")
         IN m.active /\ Track(m, d2, z)
<1> DEFINE m == AckRecv("prv", p, 1, "sent")
<1>1. /\ p.active /\ Fit(p) /\ Fit(d) /\ Stage(p, d) /\ Flow(p, d, z) /\ Flow(d, p, z)
  BY DEF Track, Flows
<1>2. PStart(p) /\ p.id = 1
  BY <1>1, StageSays DEF Fit
<1>3. p.tx.xact = 1
  BY <1>2 DEF PStart, PrvAt, At, Told
<1>4. d.prev = 1 /\ d.missing = {}
  <2>1. 1 \in 0..132
    OBVIOUS
  <2>2. QED
    BY <1>1, <1>3, <2>1, AckTells
<1>5. DStart(d)
  <2>1. ~POpen(p) /\ ~PInvite(p) /\ ~PPubKey(p) /\ ~PComputes(p) /\ ~PConfirm(p)
        /\ ~PRandom(p) /\ ~PData(p)
    BY DEF POpen, PInvite, PPubKey, PComputes, PConfirm, PRandom, PData
  <2>2. ~DCaps(d)
    BY <1>4 DEF DCaps, DevAt, At
  <2>3. QED
    BY <1>1, <2>1, <2>2 DEF Stage
<1>6. Handled(p, m) /\ PPubKey(m) /\ Says(m, 2) /\ ~Mute(m)
  BY <1>1, <1>2, OnStartAck
<1> HIDE DEF m
<1>7. Alike(d, d2) /\ Ear(d, d2) /\ d2.tx = d.tx
  BY PoppedAlike DEF Popped
<1>8. DStart(d2)
  BY <1>5, <1>7, DevAlike
<1>9. Stage(m, d2)
  BY <1>6, <1>8 DEF Stage
<1>10. m.tx.pdu.type \in Types /\ m.tx.xact = 2 /\ m.tx.tries = 0 /\ HasSeg(m.queue, 0)
  BY <1>6 DEF Says
<1>11. 2 \in Byte /\ 2 # XACT_NVAL /\ 1 \in Byte /\ 1 < 2
  BY Near
<1>12. d2.prev = 1 /\ d2.missing = {}
  BY <1>4, <1>7 DEF Ear
<1>13. Flow(m, d2, z)
  BY <1>10, <1>11, <1>12, FlowNew
<1>14. Ear(p, m) /\ SameAcks(p, m) /\ m.active /\ Fit(m)
  BY <1>1, <1>6 DEF Handled
<1>15. Flow(d2, m, z)
  BY <1>1, <1>14, FlowDeaf DEF SameAcks
<1>16. Opening(m, d2, z)
  BY <1>10 DEF Opening, Types
<1>17. Acking(d2, m, z)
  <2>1. d.tx.pdu.type # "link ack"
    BY <1>5 DEF DStart, DevAt, At, Told, Mute
  <2>2. QED
    BY <1>7, <2>1 DEF Acking
<1>18. m.active /\ Track(m, d2, z)
  BY <1>9, <1>13, <1>14, <1>15, <1>16, <1>17 DEF Track, Flows
<1>19. QED
  BY <1>3, <1>18 DEF m

-----------------------------------------------------------------------------
\* A segment that comes to the provisioner; the last PDU ends the link.
Finishes(p, a) == Takes("prv", p, a) /\ Last(a.pdu) /\ Ends(p, a.pdu)

\* gen_prov_start and gen_prov_cont of the provisioner.
LEMMA PrvSeg ==
  ASSUME NEW p, Sound(p), NEW d, Sound(d), NEW z \in Nat, Track(p, d, z), d.queue # <<>>,
         d.active, NEW d2, Popped(d, d2), Fit(d2), Head(d.queue).kind = "seg"
  PROVE  LET m == SegRecv("prv", p, Head(d.queue), "sent")
         IN IF Finishes(p, Head(d.queue)) THEN ~m.active ELSE Track(m, d2, z)
<1> DEFINE h == Head(d.queue)
           m == SegRecv("prv", p, h, "sent")
           x == d.tx.xact
<1>1. /\ p.active /\ Fit(p) /\ Fit(d) /\ Stage(p, d) /\ Flow(p, d, z) /\ Flow(d, p, z)
      /\ Opening(p, d, z)
  BY DEF Track, Flows
<1>2. h.pdu = d.tx.pdu /\ h.xact = x /\ d.tx.pdu.type \in Types
  BY <1>1, HeadSays
<1>3. x \in 0..132
  <2>1. x \in 128..132
    BY <1>1, <1>2, StageSays
  <2>2. QED
    BY <2>1, Far
<1>4. p.id = 1 /\ "prv" \in Sides
  BY <1>1 DEF Fit, Sides
<1>5. \/ ~Whole(p, h) /\ Listened(p, m) /\ Flow(d2, m, z)
      \/ /\ Whole(p, h) /\ p.prev # x /\ (p.prev = XACT_NVAL \/ p.prev < x)
         /\ Ended("prv", p, x, h, m)
  BY <1>1, <1>3, <1>4, SegEff
<1>6. Alike(d, d2) /\ Alike(m, m) /\ Ear(d, d2) /\ d2.active /\ d2.tx = d.tx
  BY PoppedAlike, AlikeSelf DEF Popped, Keeps
<1>7. \A y : HasAck(d.queue, y) => HasAck(d2.queue, y)
  BY <1>1, TailHas DEF Popped
<1> HIDE DEF h, m
<1>8. Acking(d2, m, z)
  BY <1>2, <1>6 DEF Acking, Types
<1>9. CASE ~Whole(p, h) /\ Listened(p, m) /\ Flow(d2, m, z)
  <2>1. Alike(p, m) /\ m.active /\ m.tx = p.tx /\ Fit(m)
        /\ \A n : HasSeg(p.queue, n) => HasSeg(m.queue, n)
    BY <1>1, <1>9, ListenedAlike DEF Listened, Voice
  <2>2. Stage(m, d2)
    BY <1>1, <1>6, <2>1, StageAlike
  <2>3. Flow(m, d2, z)
    BY <1>1, <1>6, <1>7, <2>1, FlowSame
  <2>4. p.tx.pdu.type # "open"
    <3> SUFFICES ASSUME p.tx.pdu.type = "open"
                 PROVE  FALSE
      OBVIOUS
    <3>1. POpen(p)
      BY <1>1, StageSays DEF Mute, Types
    <3>2. DIdle(d) \/ DAck(d)
      <4>1. /\ ~PInvite(p) /\ ~PStart(p) /\ ~PPubKey(p) /\ ~PComputes(p) /\ ~PConfirm(p)
            /\ ~PRandom(p) /\ ~PData(p)
        BY <3>1 DEF POpen, PInvite, PStart, PPubKey, PComputes, PConfirm, PRandom, PData,
           PrvAt, At
      <4>2. QED
        BY <1>1, <4>1 DEF Stage
    <3>3. QED
      BY <1>2, <3>2 DEF DIdle, DAck, Mute, Types
  <2>5. Opening(m, d2, z)
    BY <2>1, <2>4 DEF Opening
  <2>6. Track(m, d2, z)
    BY <1>8, <1>9, <2>1, <2>2, <2>3, <2>5 DEF Track, Flows
  <2>7. QED
    BY <1>9, <2>6 DEF m, h, Finishes, Takes
<1>10. CASE /\ Whole(p, h) /\ p.prev # x /\ (p.prev = XACT_NVAL \/ p.prev < x)
            /\ Ended("prv", p, x, h, m)
  <2>1. PICK e : /\ Sound(e) /\ Listened(p, e) /\ e.rxid = x /\ e.missing = {}
                 /\ m = MsgRecv("prv", e, h.pdu, "sent")
    BY <1>10 DEF Ended
  <2> DEFINE c == Acked(e)
  <2>2. /\ Noted(p, c, x) /\ c.missing = {} /\ HasAck(c.queue, x)
        /\ \A n : HasSeg(p.queue, n) => HasSeg(c.queue, n)
    BY <1>1, <1>3, <1>4, <1>10, <2>1, NotedEff
  <2>3. Tells(p, d)
    BY <1>1, <1>2, <1>10, StageTells
  <2> HIDE DEF c
  <2>4. /\ h.pdu.type = c.expect
        /\ IF Last(h.pdu) THEN Ends(c, h.pdu)
           ELSE Replied(d, p, PrvHandler(c, h.pdu, "sent"))
    BY <1>1, <1>2, <2>2, <2>3, PrvHandlesEff
  <2>5. /\ c.expect = e.expect /\ c.expect = p.expect /\ c.given = p.given
        /\ c.confkey = p.confkey /\ c.conf = p.conf
    BY <2>1, <2>2 DEF Noted, Listened, Keeps
  <2>6. m = PrvHandler(c, h.pdu, "sent")
    BY <2>1, <2>4, <2>5 DEF MsgRecv, Expected, c
  <2>7. CASE Last(h.pdu)
    <3>1. Takes("prv", p, h)
      BY <1>1, <1>10, <2>4, <2>5 DEF Takes, Expected
    <3>2. PICK err \in BOOLEAN : m = CloseLink("prv", c, err, "sent")
      <4>1. CASE h.pdu.type = "complete"
        BY <4>1, <2>6 DEF PrvHandler
      <4>2. CASE h.pdu.type = "random" /\ ~netkey
        BY <4>2, <2>6 DEF PrvHandler, PrvRandom, SendProvData
      <4>3. QED
        BY <2>7, <4>1, <4>2 DEF Last
    <3>3. c \in LinkT /\ Single(c.queue)
      BY <2>2 DEF Noted, Sound
    <3>4. Shut("prv", c, m)
      BY <1>4, <3>2, <3>3, Closes
    <3>5. QED
      BY <2>4, <2>5, <2>7, <3>1, <3>4 DEF Finishes, Ends, Verifies, Shut, h, m
  <2>8. CASE ~Last(h.pdu)
    <3>1. m = PrvHandler(c, h.pdu, "sent")
      BY <2>6
    <3>2. /\ Fit(m) /\ m.prev = x /\ m.missing = {} /\ HasAck(m.queue, x)
          /\ m.active /\ Stage(m, d) /\ Spoken(p, m, d.prev)
      BY <2>4, <2>8, <3>1 DEF Replied
    <3>3. Stage(m, d2)
      BY <1>6, <3>2, StageAlike
    <3>4. Flow(d2, m, z)
      BY <1>1, <1>2, <1>6, <3>2, FlowTaken
    <3>5. d.missing = {}
      <4>1. Mute(p) \/ (p.tx.pdu.type \in Types /\ d.prev = p.tx.xact)
        BY <2>3, TellsHeard
      <4>2. QED
        BY <1>1, <4>1 DEF Flow, Heard
    <3>6. d.prev \in Byte
      BY DEF Sound, LinkT
    <3>7. Flow(m, d2, z)
      BY <1>1, <1>6, <1>7, <3>2, <3>5, <3>6, SpokenFlow
    <3>8. m.tx.pdu.type # "open"
      <4>1. m.tx.pdu.type = "open" => POpen(m)
        BY <3>2, StageSays DEF Mute, Types
      <4>2. POpen(m) => m.prev = XACT_NVAL
        BY DEF POpen
      <4>3. QED
        BY <1>3, <3>2, <4>1, <4>2, Far
    <3>9. Opening(m, d2, z)
      BY <3>8 DEF Opening
    <3>10. Track(m, d2, z)
      BY <1>8, <3>2, <3>3, <3>4, <3>7, <3>9 DEF Track, Flows
    <3>11. QED
      BY <2>8, <3>10 DEF m, h, Finishes
  <2>9. QED
    BY <2>7, <2>8
<1>11. QED
  BY <1>5, <1>9, <1>10

\* gen_prov_recv and gen_prov_ctl.
LEMMA RecvPrv ==
  ASSUME NEW p, p.active, NEW a
  PROVE  LET m == Recv("prv", p, a, "sent")
         IN /\ a.kind \in {"cancelled", "open"} => m = p
            /\ a.kind = "seg" => m = SegRecv("prv", p, a, "sent")
            /\ a.kind = "ack" => m = AckRecv("prv", p, a.xact, "sent")
            /\ a.kind = "link ack" => m = LinkAck(p, "sent")
<1> DEFINE m == Recv("prv", p, a, "sent")
<1>1. a.kind \in {"cancelled", "open"} => m = p
  BY DEF Recv
<1>2. a.kind = "seg" => m = SegRecv("prv", p, a, "sent")
  BY DEF Recv
<1>3. a.kind = "ack" => m = AckRecv("prv", p, a.xact, "sent")
  BY DEF Recv
<1>4. a.kind = "link ack" => m = LinkAck(p, "sent")
  BY DEF Recv
<1>5. QED
  BY <1>1, <1>2, <1>3, <1>4

\* The provisioner hears an advert.
LEMMA ToPrv ==
  ASSUME NEW p, Sound(p), NEW d, Sound(d), NEW z \in Nat, Track(p, d, z), d.queue # <<>>,
         NEW d2, Popped(d, d2), Fit(d2),
         d2.held = (d.held /\ Recv("prv", p, Head(d.queue), "sent").tx = p.tx)
  PROVE  LET m == Recv("prv", p, Head(d.queue), "sent")
         IN IF Finishes(p, Head(d.queue)) THEN ~m.active ELSE Track(m, d2, z)
<1> DEFINE a == Head(d.queue)
           m == Recv("prv", p, a, "sent")
<1>1. p.active /\ Fit(p) /\ Fit(d) /\ Stage(p, d) /\ Flow(p, d, z)
  BY DEF Track, Flows
<1>2. /\ a \in AdvT
      /\ a.kind \in Ctl => a.kind = d.tx.pdu.type
      /\ a.kind = "ack" => d.prev # XACT_NVAL
  BY <1>1, HeadSays
<1>3. /\ a.kind \in {"cancelled", "open"} => m = p
      /\ a.kind = "seg" => m = SegRecv("prv", p, a, "sent")
      /\ a.kind = "ack" => m = AckRecv("prv", p, a.xact, "sent")
      /\ a.kind = "link ack" => m = LinkAck(p, "sent")
  BY <1>1, RecvPrv
<1>4. d2.held = (d.held /\ m.tx = p.tx) /\ d.held \in BOOLEAN
  BY DEF Sound, LinkT
<1>5. Mute(d) \/ d.tx.pdu.type \in Types \/ (d.tx.pdu.type = "link ack" /\ DAck(d))
  BY <1>1, StageSays
<1>6. d.active
  BY <1>1, StageSays DEF DIdle
<1>7. a.kind # "open" /\ a.kind # "close"
  BY <1>2, <1>5 DEF Ctl, Mute, Types
<1>8. a.kind \in {"cancelled", "seg", "ack", "link ack"}
  BY <1>2, <1>7 DEF AdvT, Ctl
<1> HIDE DEF m
<1>9. ASSUME m = p, a.kind # "seg", a.kind = "link ack" => p.tx.pdu.type # "open",
             a.kind = "ack" /\ p.tx.pdu.type \in Types => a.xact # p.tx.xact
      PROVE  Track(m, d2, z)
  <2>1. d2.held = d.held
    BY <1>4, <1>9
  <2>2. Track(p, d2, z)
    BY <1>6, <1>9, <2>1, PrvUnmoved
  <2>3. QED
    BY <1>9, <2>2
<1>10. a.kind # "seg" => ~Finishes(p, a)
  BY DEF Finishes, Takes, Whole
<1> HIDE DEF a
<1>11. CASE a.kind = "cancelled"
  BY <1>3, <1>9, <1>11, <1>10 DEF m, a
<1>12. CASE a.kind = "seg"
  BY <1>3, <1>6, <1>12, PrvSeg DEF m, a
<1>13. CASE a.kind = "link ack" /\ p.tx.pdu.type = "open"
  <2>1. Track(LinkAck(p, "sent"), d2, z)
    BY <1>13, PrvInvites DEF a
  <2>2. QED
    BY <1>3, <1>13, <1>10, <2>1 DEF m, a
<1>14. CASE a.kind = "link ack" /\ p.tx.pdu.type # "open"
  <2>1. DAck(d)
    BY <1>2, <1>5, <1>14 DEF Ctl, Mute, Types
  <2>2. POpen(p) \/ PInvite(p)
    BY <1>1, <2>1 DEF Stage, DAck, DCaps, DStart, DPubKey, DHolds, DConfirm, DRandom, DComplete,
       DevAt, At, Told, Mute
  <2>3. p.expect = "caps"
    BY <1>14, <2>2 DEF POpen, PInvite, PrvAt, At
  <2>4. m = p
    BY <1>3, <1>14, <2>3 DEF LinkAck
  <2>5. Track(m, d2, z)
    BY <1>9, <1>14, <2>4
  <2>6. QED
    BY <1>14, <1>10, <2>5 DEF m, a
<1>15. CASE a.kind = "ack"
  <2>1. m = AckRecv("prv", p, a.xact, "sent")
    BY <1>3, <1>15
  <2>2. ~(p.tx.pdu.type = "open")
    <3>1. p.tx.pdu.type = "open" => POpen(p)
      BY <1>1, StageSays DEF Mute, Types
    <3>2. POpen(p) => DIdle(d) \/ DAck(d)
      <4>1. POpen(p) => /\ ~PInvite(p) /\ ~PStart(p) /\ ~PPubKey(p) /\ ~PComputes(p)
                        /\ ~PConfirm(p) /\ ~PRandom(p) /\ ~PData(p)
        BY DEF POpen, PInvite, PStart, PPubKey, PComputes, PConfirm, PRandom, PData, PrvAt, At
      <4>2. QED
        BY <1>1, <4>1 DEF Stage
    <3>3. DIdle(d) \/ DAck(d) => d.prev = XACT_NVAL
      BY DEF DIdle, DAck
    <3>4. QED
      BY <1>2, <1>15, <3>1, <3>2, <3>3
  <2>3. CASE p.tx.pdu.type \notin Types
    <3>1. p.tx = NoTx
      BY <1>1, <2>2, <2>3, StageSays DEF Fit
    <3>2. m = p
      BY <2>1, <3>1 DEF AckRecv
    <3>3. QED
      BY <1>9, <1>15, <1>10, <2>3, <3>2 DEF m, a
  <2>4. CASE p.tx.pdu.type \in Types
    <3>1. p.tx # NoTx
      BY <2>4, Constants DEF Types
    <3>2. p.txid = p.tx.xact + 1 /\ p.tx.xact \in 0..5
      BY <1>1, <2>4, StageSays
    <3>3. p.txid # 0 /\ p.txid - 1 = p.tx.xact
      BY <3>2
    <3>4. CASE a.xact # p.tx.xact
      <4>1. m = p
        BY <2>1, <3>3, <3>4 DEF AckRecv
      <4>2. QED
        BY <1>9, <1>15, <1>10, <3>4, <4>1 DEF m, a
    <3>5. CASE a.xact = p.tx.xact /\ ~p.await
      <4>1. m = ClearTx(p)
        BY <2>1, <3>1, <3>3, <3>5 DEF AckRecv
      <4>2. Track(m, d2, z)
        BY <1>6, <1>15, <2>4, <3>5, <4>1, PrvCleared DEF a
      <4>3. QED
        BY <1>15, <1>10, <4>2 DEF m, a
    <3>6. CASE a.xact = p.tx.xact /\ p.await
      <4>1. m = AckRecv("prv", p, p.tx.xact, "sent")
        BY <2>1, <3>6
      <4>2. Track(m, d2, z)
        BY <1>6, <1>15, <2>4, <3>6, <4>1, PrvGoesOn DEF a
      <4>3. QED
        BY <1>15, <1>10, <4>2 DEF m, a
    <3>7. QED
      BY <3>4, <3>5, <3>6
  <2>5. QED
    BY <2>3, <2>4
<1>16. QED
  BY <1>8, <1>11, <1>12, <1>13, <1>14, <1>15

-----------------------------------------------------------------------------
\* If all is calm after a step it was before, and buffers were there.
LEMMA CalmStep ==
  ASSUME Tracked, NEW o, CountFail(o), fired' = fired, lost' = lost \/ lost' = lost + 1
  PROVE  /\ fails' \in Nat /\ lost' \in Nat
         /\ Calm' => Calm /\ o = "sent" /\ lost' <= Tries
<1>1. fails \in Nat /\ lost \in Nat /\ Tries \in Nat
  BY ProvAssumption DEF Tracked
<1>2. fails' \in Nat /\ (fails' = 0 => fails = 0 /\ o = "sent")
  BY <1>1 DEF CountFail
<1>3. lost' \in Nat /\ (lost' <= Tries => lost <= Tries)
  BY <1>1
<1>4. QED
  BY <1>2, <1>3 DEF Calm

\* What the delivery of an advert of s does to both.
LEMMA DeliverParts ==
  ASSUME Inv, NEW s \in Sides, Deliver(s)
  PROVE  LET r == Other(s)
             a == Head(link[s].queue)
         IN \E o \in Outcomes :
              LET m == Recv(r, link[r], a, o)
                  b == link[s].held /\ m.tx = link[r].tx
              IN /\ link'[r] = m /\ b \in BOOLEAN
                 /\ link'[s] = [link[s] EXCEPT !.queue = Tail(link[s].queue), !.held = b]
                 /\ CountFail(o)
<1> DEFINE r == Other(s)
           a == Head(link[s].queue)
<1>1. PICK o \in Outcomes :
        /\ link' = [link EXCEPT ![s].queue = Tail(@),
                             ![s].held = @ /\ Recv(r, link[r], a, o).tx = link[r].tx,
                             ![r] = Recv(r, link[r], a, o)]
        /\ CountFail(o)
  BY DEF Deliver
<1>2. link \in [Sides -> LinkT] /\ r \in Sides /\ r # s
  BY Pair DEF Inv, Typed
<1> DEFINE m == Recv(r, link[r], a, o)
           b == link[s].held /\ m.tx = link[r].tx
           n == [link[s] EXCEPT !.queue = Tail(link[s].queue), !.held = b]
<1>3. link[s] \in LinkT /\ b \in BOOLEAN
  BY <1>2 DEF LinkT
<1>4. link' = [link EXCEPT ![s] = n, ![r] = m]
  BY <1>1, <1>2, <1>3 DEF LinkT
<1> HIDE DEF m, b
<1>5. link'[r] = m /\ link'[s] = n
  BY <1>2, <1>4
<1>6. QED
  BY <1>1, <1>3, <1>5 DEF m, b

\* What the invariant says of the two sides.
LEMMA BothSound ==
  ASSUME Inv
  PROVE  /\ Sound(link["dev"]) /\ Sound(link["prv"])
         /\ \A s \in Sides : Sound(link[s]) /\ Side(s, link[s])
BY Pair DEF Inv, Typed, Side

\* The device hears an advert.
LEMMA TrackToDev ==
  ASSUME Inv, Tracked, Deliver("prv")
  PROVE  Tracked'
<1> DEFINE d == link["dev"]
           p == link["prv"]
           a == Head(p.queue)
<1>1. Sound(d) /\ Sound(p) /\ Before /\ During
  BY BothSound DEF Tracked
<1>2. p.queue # <<>>
  BY DEF Deliver
<1>3. PICK o \in Outcomes :
        LET m == Recv("dev", d, a, o)
            b == p.held /\ m.tx = d.tx
        IN /\ link'["dev"] = m /\ b \in BOOLEAN
           /\ link'["prv"] = [p EXCEPT !.queue = Tail(p.queue), !.held = b]
           /\ CountFail(o)
  BY Pair, DeliverParts
<1>4. UNCHANGED <<links, lost, fired, success, met, netkey>>
  BY Pair DEF Deliver
<1>5. fails' \in Nat /\ lost' \in Nat /\ (Calm' => Calm /\ o = "sent")
  BY <1>3, <1>4, CalmStep
<1>6. links # 0
  <2>1. p.queue = <<>> => FALSE
    BY <1>2
  <2>2. links = 0 => p.queue = <<>>
    BY <1>1 DEF Before, Fresh
  <2>3. QED
    BY <2>1, <2>2
<1>7. Before'
  BY <1>4, <1>6 DEF Before
<1> DEFINE m == Recv("dev", d, a, "sent")
           b == p.held /\ m.tx = d.tx
           n == [p EXCEPT !.queue = Tail(p.queue), !.held = b]
<1>8. During'
  <2> SUFFICES ASSUME links = 1, Calm'
               PROVE  IF ~Over
                        THEN /\ Track(link'["prv"], link'["dev"], lost)
                             /\ ~link'["dev"].active => addr' = 0
                        ELSE ~link'["prv"].active
    BY <1>4 DEF During, Over
  <2>1. link'["dev"] = m /\ link'["prv"] = n /\ b \in BOOLEAN
    BY <1>3, <1>5
  <2>2. lost \in Nat
    BY DEF Tracked
  <2> HIDE DEF b
  <2>3. CASE ~Over
    <3>1. Track(p, d, lost) /\ (~d.active => addr = 0)
      BY <1>1, <1>5, <2>3 DEF During
    <3>2. Fit(p)
      BY <3>1 DEF Track
    <3>3. Popped(p, n) /\ Fit(n) /\ n.held = b
      BY <1>1, <1>2, <2>1, <3>2, PopEff
    <3> HIDE DEF n
    <3>4. Track(n, m, lost) /\ (d.active => m.active)
      BY <1>1, <1>2, <2>2, <3>1, <3>3, ToDev DEF b
    <3>5. ~d.active => addr' = addr
      <4>1. ~d.active => ~Takes("dev", d, a)
        BY DEF Takes, DevHears, Whole
      <4>2. addr' # addr => Takes("dev", d, a)
        BY Pair DEF Deliver
      <4>3. QED
        BY <4>1, <4>2
    <3>6. QED
      BY <2>1, <2>3, <3>1, <3>4, <3>5
  <2>4. CASE Over
    <3>1. ~p.active
      BY <1>1, <1>5, <2>4 DEF During
    <3>2. n.active = p.active
      BY <1>1 DEF Sound, LinkT
    <3>3. QED
      BY <2>1, <2>4, <3>1, <3>2
  <2>5. QED
    BY <2>3, <2>4
<1>9. QED
  BY <1>5, <1>7, <1>8 DEF Tracked

\* The provisioner hears an advert.
LEMMA TrackToPrv ==
  ASSUME Inv, Tracked, Deliver("dev")
  PROVE  Tracked'
<1> DEFINE d == link["dev"]
           p == link["prv"]
           a == Head(d.queue)
<1>1. Sound(d) /\ Sound(p) /\ Before /\ During
  BY BothSound DEF Tracked
<1>2. d.queue # <<>>
  BY DEF Deliver
<1>3. PICK o \in Outcomes :
        LET m == Recv("prv", p, a, o)
            b == d.held /\ m.tx = p.tx
        IN /\ link'["prv"] = m /\ b \in BOOLEAN
           /\ link'["dev"] = [d EXCEPT !.queue = Tail(d.queue), !.held = b]
           /\ CountFail(o)
  BY Pair, DeliverParts
<1> DEFINE done == Takes("prv", p, a) /\ a.pdu.type = "complete"
           meets == Takes("prv", p, a) /\ a.pdu.type = "random" /\ Verifies(p)
<1>4. /\ UNCHANGED <<links, netkey, lost, fired, addr>>
      /\ success' = IF done THEN p.given ELSE success
      /\ met' = IF meets THEN p.id ELSE met
  BY Pair DEF Deliver
<1>5. fails' \in Nat /\ lost' \in Nat /\ (Calm' => Calm /\ o = "sent")
  BY <1>3, <1>4, CalmStep
<1>6. links # 0
  <2>1. d.queue = <<>> => FALSE
    BY <1>2
  <2>2. links = 0 => d.queue = <<>>
    BY <1>1 DEF Before, Fresh
  <2>3. QED
    BY <2>1, <2>2
<1>7. Before'
  BY <1>4, <1>6 DEF Before
<1> DEFINE m == Recv("prv", p, a, "sent")
           b == d.held /\ m.tx = p.tx
           n == [d EXCEPT !.queue = Tail(d.queue), !.held = b]
<1>8. During'
  <2> SUFFICES ASSUME links = 1, Calm'
               PROVE  IF ~Over'
                        THEN /\ Track(link'["prv"], link'["dev"], lost)
                             /\ ~link'["dev"].active => addr' = 0
                        ELSE ~link'["prv"].active
    BY <1>4 DEF During, Over
  <2>1. link'["prv"] = m /\ link'["dev"] = n /\ b \in BOOLEAN
    BY <1>3, <1>5
  <2>2. lost \in Nat
    BY DEF Tracked
  <2>3. n.active = d.active
    BY <1>1 DEF Sound, LinkT
  <2> HIDE DEF b
  <2>4. CASE ~Over
    <3>1. Track(p, d, lost) /\ (~d.active => addr = 0)
      BY <1>1, <1>5, <2>4 DEF During
    <3>2. Fit(d)
      BY <3>1 DEF Track
    <3>3. Popped(d, n) /\ Fit(n) /\ n.held = b
      BY <1>1, <1>2, <2>1, <3>2, PopEff
    <3> HIDE DEF n
    <3>4. IF Finishes(p, a) THEN ~m.active ELSE Track(m, n, lost)
      BY <1>1, <1>2, <2>2, <3>1, <3>3, ToPrv DEF b
    <3>5. Over' <=> Finishes(p, a)
      <4>1. p.id = 1
        BY <3>1 DEF Track, Fit
      <4> HIDE DEF p, a
      <4>2. QED
        BY <1>4, <2>4, <4>1 DEF Over, Finishes, Last, Ends
    <3>6. QED
      BY <1>4, <2>1, <2>3, <3>1, <3>4, <3>5
  <2>5. CASE Over
    <3>1. ~p.active
      BY <1>1, <1>5, <2>5 DEF During
    <3>2. m = p
      BY <3>1 DEF Recv
    <3>3. ~done /\ ~meets
      BY <3>1 DEF Takes
    <3>4. Over'
      BY <1>4, <2>5, <3>3 DEF Over
    <3>5. QED
      BY <2>1, <3>1, <3>2, <3>4
  <2>6. QED
    BY <2>4, <2>5
<1>9. QED
  BY <1>5, <1>7, <1>8 DEF Tracked

-----------------------------------------------------------------------------
\* A loss pays for any PDU's next try.
LEMMA PaidLoss ==
  ASSUME NEW l, Sound(l), NEW z \in Nat, NEW ok, Paid(l, z, ok), NEW l2, l2.tx = l.tx, NEW ok2
  PROVE  Paid(l2, z + 1, ok2)
<1>1. l.tx.tries \in Nat
  BY DEF Sound, LinkT, TxT
<1>2. l.tx.tries <= z
  BY <1>1 DEF Paid
<1>3. l.tx.tries < z + 1
  BY <1>1, <1>2
<1>4. QED
  BY <1>3 DEF Paid

\* A loss pays for one more try.
LEMMA FlowLoss ==
  ASSUME NEW l, Sound(l), NEW k, NEW z \in Nat, Flow(l, k, z), NEW l2, l2.tx = l.tx,
         NEW k2, Ear(k, k2)
  PROVE  Flow(l2, k2, z + 1)
<1>1. k2.prev = k.prev /\ k2.missing = k.missing /\ k2.rxid = k.rxid
  BY DEF Ear
<1>2. Mute(l2) => k2.missing = {}
  BY <1>1 DEF Flow, Mute
<1>3. ASSUME Heard(l, k, z)
      PROVE  Heard(l2, k2, z + 1)
  <2>1. Paid(l2, z + 1, (\E n \in 0..2 : HasSeg(l2.queue, n)) \/ HasAck(k2.queue, l2.tx.xact))
    BY <1>3, PaidLoss DEF Heard
  <2>2. QED
    BY <1>1, <1>3, <2>1 DEF Heard
<1>4. ASSUME Unheard(l, k, z)
      PROVE  Unheard(l2, k2, z + 1)
  <2>1. Paid(l2, z + 1, HasSeg(l2.queue, 0)
                          \/ (k2.missing # {} /\ \A n \in k2.missing : HasSeg(l2.queue, n)))
    BY <1>4, PaidLoss DEF Unheard
  <2>2. QED
    BY <1>1, <1>4, <2>1 DEF Unheard
<1>5. QED
  BY <1>1, <1>2, <1>3, <1>4 DEF Flow

\* A loss pays for one more try of what either side sends.
LEMMA LossEff ==
  ASSUME NEW p, Sound(p), NEW d, Sound(d), NEW z \in Nat, Track(p, d, z),
         NEW p2, Alike(p, p2), Ear(p, p2), p2.tx = p.tx, Fit(p2),
         NEW d2, Alike(d, d2), Ear(d, d2), d2.tx = d.tx, Fit(d2),
         ~d.active => d2.queue = d.queue
  PROVE  Track(p2, d2, z + 1)
<1>1. /\ p.active /\ Stage(p, d) /\ Flow(p, d, z) /\ Flow(d, p, z)
      /\ Opening(p, d, z) /\ Acking(d, p, z)
  BY DEF Track, Flows
<1>2. Stage(p2, d2)
  BY <1>1, StageAlike
<1>3. Flow(p2, d2, z + 1) /\ Flow(d2, p2, z + 1)
  BY <1>1, FlowLoss
<1>4. Opening(p2, d2, z + 1)
  <2>1. p.tx.pdu.type = "open" => Paid(p2, z + 1, IF d2.active THEN HasCtl(d2.queue, "link ack") \/ p2.held
                                                        ELSE HasCtl(p2.queue, "open"))
    BY <1>1, PaidLoss DEF Opening
  <2>2. QED
    BY <1>1, <2>1 DEF Opening, Ear
<1>5. Acking(d2, p2, z + 1)
  <2>1. d.tx.pdu.type = "link ack" =>
          Paid(d2, z + 1, IF p2.tx.pdu.type = "open" THEN HasCtl(d2.queue, "link ack")
                                                     ELSE HasSeg(p2.queue, 0) \/ d2.held)
    BY <1>1, PaidLoss DEF Acking
  <2>2. QED
    BY <1>1, <2>1 DEF Acking, Ear
<1>6. p2.active
  BY <1>1 DEF Alike, Keeps
<1>7. QED
  BY <1>2, <1>3, <1>4, <1>5, <1>6 DEF Track, Flows

\* What a loss does to s.
LEMMA LoseParts ==
  ASSUME Inv, NEW s \in Sides, Lose(s)
  PROVE  /\ link[s].queue # <<>> /\ link[s].held \in BOOLEAN
         /\ link'[s] = [link[s] EXCEPT !.queue = Tail(link[s].queue), !.held = link[s].held]
         /\ link'[Other(s)] = link[Other(s)] /\ lost' = lost + 1
         /\ UNCHANGED <<addr, links, success, met, netkey, fails, fired>>
<1> DEFINE l == link[s]
           m == [l EXCEPT !.queue = Tail(l.queue), !.held = l.held]
<1>1. link \in [Sides -> LinkT] /\ l \in LinkT /\ l.held \in BOOLEAN
  BY DEF Inv, Typed, LinkT
<1>2. m = [l EXCEPT !.queue = Tail(l.queue)]
  BY <1>1 DEF LinkT
<1>3. link' = [link EXCEPT ![s] = m]
  BY <1>2 DEF Lose
<1>4. Other(s) \in Sides /\ Other(s) # s
  BY Pair
<1> HIDE DEF m
<1>5. link'[s] = m /\ link'[Other(s)] = link[Other(s)]
  BY <1>1, <1>3, <1>4
<1>6. QED
  BY <1>1, <1>5 DEF Lose, m

\* An advert is lost.
LEMMA TrackLose ==
  ASSUME Inv, Tracked, NEW s \in Sides, Lose(s)
  PROVE  Tracked'
<1> DEFINE d == link["dev"]
           p == link["prv"]
           l == link[s]
           n == [l EXCEPT !.queue = Tail(l.queue), !.held = l.held]
<1>1. Sound(d) /\ Sound(p) /\ Sound(l) /\ Before /\ During
  BY BothSound DEF Tracked
<1>2. /\ l.queue # <<>> /\ l.held \in BOOLEAN /\ link'[s] = n
      /\ link'[Other(s)] = link[Other(s)] /\ lost' = lost + 1
      /\ UNCHANGED <<addr, links, success, met, netkey, fails, fired>>
  BY LoseParts
<1>3. CountFail("sent")
  BY <1>2 DEF CountFail
<1>4. fails' \in Nat /\ lost' \in Nat /\ (Calm' => Calm)
  BY <1>2, <1>3, CalmStep
<1>5. links # 0
  <2>1. links = 0 => l = Fresh
    BY <1>1, Pair DEF Before
  <2>2. Fresh.queue = <<>>
    BY DEF Fresh
  <2>3. QED
    BY <1>2, <2>1, <2>2
<1>6. Before'
  BY <1>2, <1>5 DEF Before
<1>7. n.active = l.active
  BY <1>1 DEF Sound, LinkT
<1>8. During'
  <2> SUFFICES ASSUME links = 1, Calm'
               PROVE  IF ~Over
                        THEN /\ Track(link'["prv"], link'["dev"], lost + 1)
                             /\ ~link'["dev"].active => addr = 0
                        ELSE ~link'["prv"].active
    BY <1>2 DEF During, Over
  <2>1. lost \in Nat
    BY DEF Tracked
  <2>2. CASE ~Over
    <3>1. Track(p, d, lost) /\ (~d.active => addr = 0)
      BY <1>1, <1>4, <2>2 DEF During
    <3>2. Fit(p) /\ Fit(d) /\ Stage(p, d)
      BY <3>1 DEF Track
    <3>3. Fit(l)
      BY <3>2, Pair
    <3>4. Popped(l, n) /\ Fit(n)
      BY <1>1, <1>2, <3>3, PopEff
    <3> HIDE DEF n
    <3>5. Alike(l, n) /\ Ear(l, n) /\ n.tx = l.tx
      BY <3>4, PoppedAlike DEF Popped
    <3>6. Alike(p, p) /\ Ear(p, p) /\ Alike(d, d) /\ Ear(d, d)
      BY AlikeSelf
    <3>7. CASE s = "prv"
      <4>1. l = p /\ link'["prv"] = n /\ link'["dev"] = d
        BY <1>2, <3>7, Pair
      <4> HIDE DEF l, p, d
      <4>2. Track(n, d, lost + 1)
        BY <1>1, <2>1, <3>1, <3>2, <3>4, <3>5, <3>6, <4>1, LossEff
      <4>3. QED
        BY <2>2, <3>1, <4>1, <4>2
    <3>8. CASE s = "dev"
      <4>1. l = d /\ link'["dev"] = n /\ link'["prv"] = p
        BY <1>2, <3>8, Pair
      <4> HIDE DEF l, p, d
      <4>2. d.active
        BY <1>2, <3>2, <4>1, StageSays DEF DIdle
      <4>3. Track(p, n, lost + 1)
        BY <1>1, <2>1, <3>1, <3>2, <3>4, <3>5, <3>6, <4>1, <4>2, LossEff
      <4>4. QED
        BY <1>7, <2>2, <4>1, <4>2, <4>3
    <3>9. QED
      BY <3>7, <3>8, Pair
  <2>3. CASE Over
    <3>1. ~p.active
      BY <1>1, <1>4, <2>3 DEF During
    <3>2. link'["prv"].active = p.active
      BY <1>2, <1>7, Pair
    <3>3. QED
      BY <2>3, <3>1, <3>2
  <2>4. QED
    BY <2>2, <2>3
<1>9. QED
  BY <1>4, <1>6, <1>8 DEF Tracked

-----------------------------------------------------------------------------
\* What prov_retransmit sends.
Again(l, m) ==
  /\ Fit(m) /\ Alike(l, m) /\ Ear(l, m) /\ SameAcks(l, m) /\ m.held
  /\ m.tx.tries = l.tx.tries + 1
  /\ l.tx.pdu.type \in Types => HasSeg(m.queue, 0)
  /\ l.tx.pdu.type \in Ctl => HasCtl(m.queue, l.tx.pdu.type)

\* prov_retransmit sends all of it again.
LEMMA RepeatEff ==
  ASSUME NEW s \in Sides, NEW l, Sound(l), Fit(l), l.active,
         l.tx.pdu.type \in Types \cup Ctl, l.tx.tries < Tries
  PROVE  Again(l, Repeat(s, l))
<1> DEFINE k == [l EXCEPT !.closing = IF l.closing > 0 THEN @ + 1 ELSE 0, !.held = TRUE]
           tx == [l.tx EXCEPT !.tries = @ + 1]
           m == Repeat(s, l)
<1>1. /\ l \in LinkT /\ l.tx \in TxT /\ Current(l.queue, l.tx) /\ Single(l.queue)
      /\ Lined(l.queue, l.tx.xact) /\ Settled(l) /\ l.closing = 0 /\ l.id = 1
  BY DEF Sound, LinkT, Fit
<1>2. m = Reliably(k, tx)
  BY <1>1 DEF Repeat
<1>3. tx \in TxT /\ tx.pdu = l.tx.pdu /\ tx.xact = l.tx.xact /\ tx.tries = l.tx.tries + 1
  <2>1. l.tx.tries + 1 \in 0..Tries
    BY <1>1, ProvAssumption DEF TxT
  <2>2. QED
    BY <1>1, <2>1 DEF TxT
<1>4. k = [l EXCEPT !.closing = 0, !.held = TRUE]
  BY <1>1
<1>5. k \in LinkT
  <2>1. 0 \in Count
    BY DEF Count
  <2>2. QED
    BY <1>1, <1>4, <2>1, ZenonT(30) DEF LinkT
<1>6. /\ k.queue = l.queue /\ k.id = 1 /\ k.closing = 0 /\ k.held = TRUE /\ k.prev = l.prev
      /\ Ear(l, k) /\ k.txid = l.txid /\ k.expect = l.expect /\ k.tx = l.tx
  BY <1>1, <1>4 DEF LinkT, Ear
<1>7. Keeps(l, k)
  BY <1>1, <1>4 DEF LinkT, Keeps
<1> HIDE DEF k, tx, m
<1>8. Current(k.queue, tx) /\ Lined(k.queue, tx.xact)
  BY <1>1, <1>3, <1>6 DEF Current
<1>9. Settled(k)
  BY <1>1, <1>6, SettledSame
<1>10. /\ Fit(m) /\ Keeps(k, m) /\ Ear(k, m) /\ SameAcks(k, m)
       /\ m.tx = tx /\ m.txid = k.txid /\ m.expect = k.expect /\ m.held = k.held
       /\ tx.pdu.type \in Types => HasSeg(m.queue, 0)
       /\ tx.pdu.type \in Ctl => HasCtl(m.queue, tx.pdu.type)
  <2>1. Single(k.queue) /\ tx.pdu.type \in Types \cup Ctl
    BY <1>1, <1>3, <1>6
  <2>2. QED
    BY <1>2, <1>3, <1>5, <1>6, <1>8, <1>9, <2>1, ReliablyEff
<1>11. Keeps(l, m) /\ Ear(l, m) /\ SameAcks(l, m)
  BY <1>6, <1>7, <1>10 DEF Keeps, Ear, SameAcks
<1>12. Alike(l, m)
  BY <1>3, <1>6, <1>10, <1>11 DEF Alike, Ear
<1>13. QED
  BY <1>3, <1>6, <1>10, <1>11, <1>12 DEF Again, m

\* The other side comes first.
LEMMA WaitEff ==
  ASSUME NEW k, Sound(k), Fit(k)
  PROVE  LET m == [k EXCEPT !.held = FALSE]
         IN Fit(m) /\ Alike(k, m) /\ Ear(k, m) /\ m.tx = k.tx /\ m.queue = k.queue
<1> DEFINE m == [k EXCEPT !.held = FALSE]
<1>1. k \in LinkT
  BY DEF Sound
<1>2. /\ m.queue = k.queue /\ m.tx = k.tx /\ m.txid = k.txid /\ Ear(k, m) /\ m.prev = k.prev
      /\ m.expect = k.expect /\ m.closing = k.closing
  BY <1>1 DEF LinkT, Ear
<1>3. Keeps(k, m)
  BY <1>1 DEF LinkT, Keeps
<1> HIDE DEF m
<1>4. Alike(k, m)
  BY <1>2, <1>3 DEF Alike
<1>5. Settled(m)
  BY <1>2, SettledSame DEF Fit
<1>6. Fit(m)
  BY <1>2, <1>3, <1>5 DEF Fit, Keeps, Mute
<1>7. QED
  BY <1>2, <1>4, <1>6 DEF m

\* A try that was paid for.
LEMMA FlowAgain ==
  ASSUME NEW l, Sound(l), NEW k, NEW z \in Nat, Flow(l, k, z), l.tx.tries < z,
         NEW m, Again(l, m), NEW k2, Ear(k, k2)
  PROVE  Flow(m, k2, z)
<1>1. k2.prev = k.prev /\ k2.missing = k.missing /\ k2.rxid = k.rxid
  BY DEF Ear
<1>2. m.tx.pdu = l.tx.pdu /\ m.tx.xact = l.tx.xact
  BY DEF Again, Alike
<1>3. l.tx.pdu.type \in Types => HasSeg(m.queue, 0)
  BY DEF Again
<1>4. m.tx.tries < z \/ m.tx.tries = z
  <2>1. l.tx.tries \in Nat /\ m.tx.tries = l.tx.tries + 1
    BY DEF Sound, LinkT, TxT, Again
  <2>2. QED
    BY <2>1
<1>5. Mute(m) => k2.missing = {}
  BY <1>1, <1>2 DEF Flow, Mute
<1>6. ASSUME Heard(l, k, z), l.tx.pdu.type \in Types
      PROVE  Heard(m, k2, z)
  <2>1. \E n \in 0..2 : HasSeg(m.queue, n)
    <3>1. 0 \in 0..2
      OBVIOUS
    <3>2. QED
      BY <1>3, <1>6, <3>1
  <2>2. QED
    BY <1>1, <1>4, <1>6, <2>1 DEF Heard, Paid
<1>7. ASSUME Unheard(l, k, z), l.tx.pdu.type \in Types
      PROVE  Unheard(m, k2, z)
  BY <1>1, <1>2, <1>3, <1>4, <1>7 DEF Unheard, Paid
<1>8. QED
  BY <1>1, <1>2, <1>5, <1>6, <1>7 DEF Flow

\* Nothing is under way.
LEMMA Silent ==
  ASSUME NEW q, q = <<>>
  PROVE  /\ \A n : ~HasSeg(q, n)
         /\ \A x : ~HasAck(q, x)
         /\ \A op : ~HasCtl(q, op)
<1>1. DOMAIN q = {}
  OBVIOUS
<1>2. AckSet(q) = {}
  BY <1>1 DEF AckSet
<1>3. QED
  BY <1>1, <1>2 DEF HasSeg, HasAck, HasCtl

\* With nothing under way there is a try left.
LEMMA FlowSilent ==
  ASSUME NEW l, NEW k, NEW z, Flow(l, k, z), l.tx.pdu.type \in Types, l.queue = <<>>,
         k.queue = <<>>
  PROVE  l.tx.tries < z
<1>1. Heard(l, k, z) => l.tx.tries < z
  BY Silent DEF Heard, Paid
<1>2. Unheard(l, k, z) => l.tx.tries < z
  BY Silent DEF Unheard, Paid
<1>3. QED
  BY <1>1, <1>2 DEF Flow

\* The provisioner retransmits.
LEMMA PrvAgain ==
  ASSUME NEW p, Sound(p), NEW d, Sound(d), NEW z \in Nat, Track(p, d, z), z <= Tries,
         p.queue = <<>>, d.queue = <<>>, Waits(p), p.held => ~Waits(d)
  PROVE  /\ p.tx.tries < Tries
         /\ Track(Repeat("prv", p), [d EXCEPT !.held = FALSE], z)
<1> DEFINE m == Repeat("prv", p)
           d2 == [d EXCEPT !.held = FALSE]
<1>1. /\ p.active /\ Fit(p) /\ Fit(d) /\ Stage(p, d) /\ Flow(p, d, z) /\ Flow(d, p, z)
      /\ Opening(p, d, z) /\ Acking(d, p, z)
  BY DEF Track, Flows
<1>2. ~Mute(p)
  BY <1>1 DEF Fit, Waits
<1>3. p.tx.pdu.type \in Types \/ (p.tx.pdu.type = "open" /\ POpen(p))
  BY <1>1, <1>2, StageSays
<1>4. p.tx.tries < z
  <2>1. CASE p.tx.pdu.type \in Types
    BY <1>1, <2>1, FlowSilent
  <2>2. CASE p.tx.pdu.type = "open" /\ POpen(p)
    <3>1. d.active => DAck(d)
      <4>1. /\ ~PInvite(p) /\ ~PStart(p) /\ ~PPubKey(p) /\ ~PComputes(p) /\ ~PConfirm(p)
            /\ ~PRandom(p) /\ ~PData(p)
        BY <2>2 DEF POpen, PInvite, PStart, PPubKey, PComputes, PConfirm, PRandom, PData,
           PrvAt, At
      <4>2. QED
        BY <1>1, <4>1 DEF Stage, DIdle
    <3>2. d.active => Waits(d)
      BY <3>1, Constants DEF DAck, Waits
    <3>3. d.active => ~p.held
      BY <3>2
    <3>4. ~HasCtl(d.queue, "link ack") /\ ~HasCtl(p.queue, "open")
      BY Silent
    <3>5. QED
      BY <1>1, <2>2, <3>3, <3>4 DEF Opening, Paid
  <2>3. QED
    BY <1>3, <2>1, <2>2
<1>5. p.tx.tries \in Nat /\ p.tx.tries < Tries
  <2>1. p.tx.tries \in Nat
    BY DEF Sound, LinkT, TxT
  <2>2. QED
    BY <1>4, <2>1, ProvAssumption
<1>6. Again(p, m)
  <2>1. p.tx.pdu.type \in Types \cup Ctl
    BY <1>3 DEF Ctl
  <2>2. QED
    BY <1>1, <1>5, <2>1, Pair, RepeatEff
<1>7. Fit(d2) /\ Alike(d, d2) /\ Ear(d, d2) /\ d2.tx = d.tx /\ d2.queue = d.queue
  BY <1>1, WaitEff
<1> HIDE DEF m, d2
<1>8. Alike(p, m) /\ Ear(p, m) /\ Fit(m) /\ m.held
  BY <1>6 DEF Again
<1>9. Stage(m, d2)
  BY <1>1, <1>7, <1>8, StageAlike
<1>10. Flow(m, d2, z)
  BY <1>1, <1>4, <1>6, <1>7, FlowAgain
<1>11. Flow(d2, m, z)
  <2>1. \A x : HasAck(p.queue, x) => HasAck(m.queue, x)
    BY <1>6 DEF Again, SameAcks, HasAck
  <2>2. QED
    BY <1>1, <1>7, <1>8, <2>1, FlowSame
<1>12. m.tx.pdu = p.tx.pdu /\ m.active /\ d2.active = d.active /\ m.missing = p.missing
  BY <1>1, <1>7, <1>8 DEF Alike, Keeps, Ear
<1>13. m.tx.tries < z \/ m.tx.tries = z
  <2>1. m.tx.tries = p.tx.tries + 1
    BY <1>6 DEF Again
  <2>2. QED
    BY <1>4, <1>5, <2>1
<1>14. Opening(m, d2, z)
  <2> SUFFICES ASSUME m.tx.pdu.type = "open"
               PROVE  /\ d2.missing = {}
                      /\ Paid(m, z, IF d2.active THEN HasCtl(d2.queue, "link ack") \/ m.held
                                                 ELSE HasCtl(m.queue, "open"))
    BY DEF Opening
  <2>1. d2.missing = {}
    BY <1>1, <1>7, <1>12 DEF Opening, Ear
  <2>2. HasCtl(m.queue, "open")
    BY <1>6, <1>12 DEF Again, Ctl
  <2>3. QED
    BY <1>8, <1>13, <2>1, <2>2 DEF Paid
<1>15. Acking(d2, m, z)
  <2> SUFFICES ASSUME d.tx.pdu.type = "link ack"
               PROVE  /\ m.missing = {}
                      /\ Paid(d2, z, IF m.tx.pdu.type = "open" THEN HasCtl(d2.queue, "link ack")
                                                               ELSE HasSeg(m.queue, 0) \/ d2.held)
    BY <1>7 DEF Acking
  <2>1. m.missing = {}
    BY <1>1, <1>12 DEF Acking
  <2>2. p.tx.pdu.type # "open" => HasSeg(m.queue, 0)
    BY <1>3, <1>6 DEF Again
  <2>3. QED
    BY <1>1, <1>7, <1>12, <2>1, <2>2 DEF Acking, Paid
<1>16. QED
  BY <1>5, <1>7, <1>8, <1>9, <1>10, <1>11, <1>12, <1>14, <1>15 DEF Track, Flows, m, d2

\* The device retransmits.
LEMMA DevAgain ==
  ASSUME NEW p, Sound(p), NEW d, Sound(d), NEW z \in Nat, Track(p, d, z), z <= Tries,
         p.queue = <<>>, d.queue = <<>>, Waits(d), d.held => ~Waits(p)
  PROVE  /\ d.tx.tries < Tries
         /\ Repeat("dev", d).active
         /\ Track([p EXCEPT !.held = FALSE], Repeat("dev", d), z)
<1> DEFINE m == Repeat("dev", d)
           p2 == [p EXCEPT !.held = FALSE]
<1>1. /\ p.active /\ Fit(p) /\ Fit(d) /\ Stage(p, d) /\ Flow(p, d, z) /\ Flow(d, p, z)
      /\ Opening(p, d, z) /\ Acking(d, p, z) /\ d.active
  BY DEF Track, Flows, Waits
<1>2. ~Mute(d)
  BY <1>1 DEF Fit, Waits
<1>3. d.tx.pdu.type \in Types \/ (d.tx.pdu.type = "link ack" /\ DAck(d))
  BY <1>1, <1>2, StageSays
<1>4. d.tx.tries < z
  <2>1. CASE d.tx.pdu.type \in Types
    BY <1>1, <2>1, FlowSilent
  <2>2. CASE d.tx.pdu.type = "link ack" /\ DAck(d)
    <3>1. POpen(p) \/ (PInvite(p) /\ ~Mute(p))
      BY <1>1, <2>2 DEF Stage, DAck, DCaps, DStart, DPubKey, DHolds, DConfirm, DRandom, DComplete,
         DevAt, At, Told, Mute
    <3>2. p.tx.pdu.type # "open" => ~Mute(p)
      BY <3>1 DEF POpen
    <3>3. p.tx.pdu.type # "open" => Waits(p)
      BY <1>1, <3>2, Constants DEF Mute, Waits
    <3>4. ~HasCtl(d.queue, "link ack") /\ ~HasSeg(p.queue, 0)
      BY Silent
    <3>5. p.tx.pdu.type # "open" => ~d.held
      BY <3>3
    <3>6. QED
      BY <1>1, <2>2, <3>4, <3>5 DEF Acking, Paid
  <2>3. QED
    BY <1>3, <2>1, <2>2
<1>5. d.tx.tries \in Nat /\ d.tx.tries < Tries
  <2>1. d.tx.tries \in Nat
    BY DEF Sound, LinkT, TxT
  <2>2. QED
    BY <1>4, <2>1, ProvAssumption
<1>6. Again(d, m)
  <2>1. d.tx.pdu.type \in Types \cup Ctl
    BY <1>3 DEF Ctl
  <2>2. QED
    BY <1>1, <1>5, <2>1, Pair, RepeatEff
<1>7. Fit(p2) /\ Alike(p, p2) /\ Ear(p, p2) /\ p2.tx = p.tx /\ p2.queue = p.queue
  BY <1>1, WaitEff
<1> HIDE DEF m, p2
<1>8. Alike(d, m) /\ Ear(d, m) /\ Fit(m) /\ m.held
  BY <1>6 DEF Again
<1>9. Stage(p2, m)
  BY <1>1, <1>7, <1>8, StageAlike
<1>10. Flow(m, p2, z)
  BY <1>1, <1>4, <1>6, <1>7, FlowAgain
<1>11. Flow(p2, m, z)
  <2>1. \A x : HasAck(d.queue, x) => HasAck(m.queue, x)
    BY <1>6 DEF Again, SameAcks, HasAck
  <2>2. QED
    BY <1>1, <1>7, <1>8, <2>1, FlowSame
<1>12. m.tx.pdu = d.tx.pdu /\ m.active /\ p2.active /\ m.missing = d.missing
       /\ p2.missing = p.missing
  BY <1>1, <1>7, <1>8 DEF Alike, Keeps, Ear
<1>13. m.tx.tries < z \/ m.tx.tries = z
  <2>1. m.tx.tries = d.tx.tries + 1
    BY <1>6 DEF Again
  <2>2. QED
    BY <1>4, <1>5, <2>1
<1>14. d.tx.pdu.type = "link ack" => HasCtl(m.queue, "link ack")
  BY <1>6 DEF Again, Ctl
<1>15. Opening(p2, m, z)
  <2> SUFFICES ASSUME p.tx.pdu.type = "open"
               PROVE  /\ m.missing = {}
                      /\ Paid(p2, z, IF m.active THEN HasCtl(m.queue, "link ack") \/ p2.held
                                                 ELSE HasCtl(p2.queue, "open"))
    BY <1>7 DEF Opening
  <2>1. m.missing = {}
    BY <1>1, <1>12 DEF Opening
  <2>2. POpen(p)
    BY <1>1, StageSays DEF Mute, Types
  <2>3. /\ ~PInvite(p) /\ ~PStart(p) /\ ~PPubKey(p) /\ ~PComputes(p) /\ ~PConfirm(p)
        /\ ~PRandom(p) /\ ~PData(p)
    BY <2>2 DEF POpen, PInvite, PStart, PPubKey, PComputes, PConfirm, PRandom, PData, PrvAt, At
  <2>4. HasCtl(m.queue, "link ack")
    BY <1>1, <1>14, <2>3 DEF Stage, DIdle, DAck
  <2>5. QED
    BY <1>1, <1>7, <1>12, <2>1, <2>4 DEF Opening, Paid
<1>16. Acking(m, p2, z)
  <2> SUFFICES ASSUME d.tx.pdu.type = "link ack"
               PROVE  /\ p2.missing = {}
                      /\ Paid(m, z, IF p2.tx.pdu.type = "open" THEN HasCtl(m.queue, "link ack")
                                                               ELSE HasSeg(p2.queue, 0) \/ m.held)
    BY <1>12 DEF Acking
  <2>1. p2.missing = {}
    BY <1>1, <1>12 DEF Acking
  <2>2. QED
    BY <1>8, <1>13, <1>14, <2>1 DEF Paid
<1>17. QED
  BY <1>5, <1>7, <1>8, <1>9, <1>10, <1>11, <1>12, <1>15, <1>16 DEF Track, Flows, m, p2

-----------------------------------------------------------------------------
\* s becomes m while the other side waits.
LEMMA TurnParts ==
  ASSUME Inv, NEW s \in Sides, NEW m,
         link' = [link EXCEPT ![Other(s)].held = FALSE, ![s] = m]
  PROVE  link'[s] = m /\ link'[Other(s)] = [link[Other(s)] EXCEPT !.held = FALSE]
<1> DEFINE r == Other(s)
           n == [link[r] EXCEPT !.held = FALSE]
<1>1. link \in [Sides -> LinkT] /\ r \in Sides /\ r # s
  BY Pair DEF Inv, Typed
<1>2. link' = [link EXCEPT ![r] = n, ![s] = m]
  OBVIOUS
<1> HIDE DEF r, n
<1>3. link'[s] = m /\ link'[r] = n
  BY <1>1, <1>2
<1>4. QED
  BY <1>3 DEF r, n

\* Waiting leaves the link as it is.
LEMMA HeldActive ==
  ASSUME NEW k, Sound(k)
  PROVE  [k EXCEPT !.held = FALSE].active = k.active
BY DEF Sound, LinkT

\* Nothing happens before the first link.
LEMMA NotBefore ==
  ASSUME Before, NEW s \in Sides, link[s].active \/ link[s].busy
  PROVE  links # 0
<1>1. ~Fresh.active /\ ~Fresh.busy
  BY DEF Fresh
<1>2. links = 0 => link[s] = Fresh
  BY Pair DEF Before
<1>3. QED
  BY <1>1, <1>2

\* A side retransmits.
LEMMA TrackRetransmit ==
  ASSUME Inv, Tracked, NEW s \in Sides, Retransmit(s)
  PROVE  Tracked'
<1> DEFINE d == link["dev"]
           p == link["prv"]
           l == link[s]
           m == IF l.tx.tries >= Tries THEN ResetLink(l) ELSE Repeat(s, l)
<1>1. Sound(d) /\ Sound(p) /\ Sound(l) /\ Side(s, l) /\ Before /\ During /\ lost \in Nat
  BY BothSound DEF Tracked
<1>2. link' = [link EXCEPT ![Other(s)].held = FALSE, ![s] = m]
  BY DEF Retransmit
<1>3. link'[s] = m /\ link'[Other(s)] = [link[Other(s)] EXCEPT !.held = FALSE]
  BY <1>2, TurnParts
<1>4. UNCHANGED <<addr, links, success, met, netkey, fails, lost, fired>>
  BY DEF Retransmit
<1>5. /\ p.queue = <<>> /\ d.queue = <<>> /\ Waits(l)
      /\ l.held => ~Waits(link[Other(s)])
  BY Pair DEF Retransmit, Quiet
<1>6. links # 0
  BY <1>1, <1>5, NotBefore DEF Waits
<1>7. Before'
  BY <1>4, <1>6 DEF Before
<1>8. l.tx.tries \in Nat /\ Tries \in Nat
  BY <1>1, ProvAssumption DEF Sound, LinkT, TxT
<1>9. l.tx.tries < Tries => m = Repeat(s, l)
  <2>1. l.tx.tries < Tries => ~(l.tx.tries >= Tries)
    BY <1>8
  <2>2. QED
    BY <2>1
<1>10. During'
  <2> SUFFICES ASSUME links = 1, Calm
               PROVE  IF ~Over
                        THEN /\ Track(link'["prv"], link'["dev"], lost)
                             /\ ~link'["dev"].active => addr = 0
                        ELSE ~link'["prv"].active
    BY <1>4 DEF During, Calm, Over
  <2>1. lost <= Tries
    BY DEF Calm
  <2> HIDE DEF m
  <2>2. CASE ~Over
    <3>1. Track(p, d, lost) /\ (~d.active => addr = 0)
      BY <1>1, <2>2 DEF During
    <3>2. CASE s = "prv"
      <4>1. l = p /\ link'["prv"] = m /\ link'["dev"] = [d EXCEPT !.held = FALSE]
        BY <1>3, <3>2, Pair
      <4>2. Waits(p) /\ (p.held => ~Waits(d))
        BY <1>5, <3>2, Pair
      <4> HIDE DEF l, p, d
      <4>3. /\ p.tx.tries < Tries
            /\ Track(Repeat("prv", p), [d EXCEPT !.held = FALSE], lost)
        BY <1>1, <1>5, <2>1, <3>1, <4>2, PrvAgain
      <4>4. [d EXCEPT !.held = FALSE].active = d.active
        BY <1>1, HeldActive
      <4>5. m = Repeat("prv", p)
        BY <1>9, <3>2, <4>1, <4>3
      <4>6. QED
        BY <2>2, <3>1, <4>1, <4>3, <4>4, <4>5
    <3>3. CASE s = "dev"
      <4>1. l = d /\ link'["dev"] = m /\ link'["prv"] = [p EXCEPT !.held = FALSE]
        BY <1>3, <3>3, Pair
      <4>2. Waits(d) /\ (d.held => ~Waits(p))
        BY <1>5, <3>3, Pair
      <4> HIDE DEF l, p, d
      <4>3. /\ d.tx.tries < Tries
            /\ Repeat("dev", d).active
            /\ Track([p EXCEPT !.held = FALSE], Repeat("dev", d), lost)
        BY <1>1, <1>5, <2>1, <3>1, <4>2, DevAgain
      <4>4. m = Repeat("dev", d)
        BY <1>9, <3>3, <4>1, <4>3
      <4>5. QED
        BY <2>2, <4>1, <4>3, <4>4
    <3>4. QED
      BY <3>2, <3>3, Pair
  <2>3. CASE Over
    <3>1. ~p.active
      BY <1>1, <2>3 DEF During
    <3>2. s = "dev"
      BY <1>5, <3>1, Pair DEF Waits
    <3>3. link'["prv"].active = p.active
      BY <1>1, <1>3, <3>2, Pair, HeldActive
    <3>4. QED
      BY <2>3, <3>1, <3>3
  <2>4. QED
    BY <2>2, <2>3
<1>11. QED
  BY <1>4, <1>7, <1>10 DEF Tracked

-----------------------------------------------------------------------------
\* Who computes a key.
LEMMA StageBusy ==
  ASSUME NEW p, NEW d, Stage(p, d)
  PROVE  /\ p.busy => PComputes(p) /\ DPubKey(d)
         /\ d.busy =>
              \/ /\ DPubKey(d)
                 /\ (PPubKey(p) /\ ~Mute(d)) \/ PComputes(p) \/ (PConfirm(p) /\ ~Mute(p))
              \/ DHolds(d) /\ PConfirm(p)
<1>1. p.busy => /\ ~POpen(p) /\ ~PInvite(p) /\ ~PStart(p) /\ ~PPubKey(p) /\ ~PConfirm(p)
                /\ ~PRandom(p) /\ ~PData(p)
  BY DEF POpen, PInvite, PStart, PPubKey, PConfirm, PRandom, PData
<1>2. d.busy => /\ ~DIdle(d) /\ ~DAck(d) /\ ~DCaps(d) /\ ~DStart(d) /\ ~DConfirm(d)
                /\ ~DRandom(d) /\ ~DComplete(d)
  BY DEF DIdle, DAck, DCaps, DStart, DConfirm, DRandom, DComplete, NoKey
<1>3. p.busy => PComputes(p) /\ DPubKey(d)
  BY <1>1 DEF Stage
<1>4. d.busy =>
        \/ /\ DPubKey(d)
           /\ (PPubKey(p) /\ ~Mute(d)) \/ PComputes(p) \/ (PConfirm(p) /\ ~Mute(p))
        \/ DHolds(d) /\ PConfirm(p)
  BY <1>2 DEF Stage
<1>5. QED
  BY <1>3, <1>4

\* Transactions on either side of the confirmation.
LEMMA Between ==
  /\ 3 \in Byte /\ 3 # XACT_NVAL /\ 2 \in Byte /\ 2 < 3
  /\ 130 \in Byte /\ 130 # XACT_NVAL /\ 129 \in Byte /\ 129 < 130
BY DEF Byte, XACT_NVAL

\* prov_dh_key_cb of the provisioner.
LEMMA PrvKeyed ==
  ASSUME NEW p, Sound(p), NEW d, Sound(d), NEW z \in Nat, Track(p, d, z), p.busy
  PROVE  LET m == SendConfirm("prv", [p EXCEPT !.dhkey = TRUE, !.busy = FALSE], "sent")
         IN Track(m, [d EXCEPT !.held = FALSE], z)
<1> DEFINE m == SendConfirm("prv", [p EXCEPT !.dhkey = TRUE, !.busy = FALSE], "sent")
           d2 == [d EXCEPT !.held = FALSE]
<1>1. p.active /\ Fit(p) /\ Fit(d) /\ Stage(p, d) /\ Flow(p, d, z) /\ Flow(d, p, z)
  BY DEF Track, Flows
<1>2. PComputes(p) /\ DPubKey(d) /\ p.id = 1
  BY <1>1, StageBusy DEF Fit
<1>3. Handled(p, m) /\ PConfirm(m) /\ Says(m, 3) /\ ~Mute(m)
  BY <1>1, <1>2, OnPrvKey
<1>4. Fit(d2) /\ Alike(d, d2) /\ Ear(d, d2) /\ d2.tx = d.tx /\ d2.queue = d.queue
  BY <1>1, WaitEff
<1> HIDE DEF m, d2
<1>5. DPubKey(d2)
  BY <1>2, <1>4, DevAlike
<1>6. Stage(m, d2)
  BY <1>3, <1>5 DEF Stage
<1>7. d.prev = 2 /\ d.missing = {}
  <2>1. d.prev = 2
    BY <1>2 DEF DPubKey, DevAt, At
  <2>2. Mute(p) \/ (p.tx.pdu.type \in Types /\ p.tx.xact = 2)
    BY <1>2 DEF PComputes, PrvAt, At, Told, Types
  <2>3. QED
    BY <1>1, <2>1, <2>2 DEF Flow, Heard
<1>8. m.tx.pdu.type \in Types /\ m.tx.xact = 3 /\ m.tx.tries = 0 /\ HasSeg(m.queue, 0)
  BY <1>3 DEF Says
<1>9. d2.prev = 2 /\ d2.missing = {}
  BY <1>4, <1>7 DEF Ear
<1>10. Flow(m, d2, z)
  BY <1>8, <1>9, Between, FlowNew
<1>11. Ear(p, m) /\ Fit(m) /\ m.active /\ \A x : HasAck(p.queue, x) => HasAck(m.queue, x)
  BY <1>1, <1>3 DEF Handled, SameAcks, HasAck
<1>12. Flow(d2, m, z)
  BY <1>1, <1>4, <1>11, FlowSame
<1>13. Opening(m, d2, z)
  BY <1>8 DEF Opening, Types
<1>14. Acking(d2, m, z)
  <2>1. d.tx.pdu.type # "link ack"
    BY <1>2 DEF DPubKey, DevAt, At, Told, Mute
  <2>2. QED
    BY <1>4, <2>1 DEF Acking
<1>15. QED
  BY <1>4, <1>6, <1>10, <1>11, <1>12, <1>13, <1>14 DEF Track, Flows, m, d2

\* prov_dh_key_cb of the device.
LEMMA DevKeyed ==
  ASSUME NEW p, Sound(p), NEW d, Sound(d), NEW z \in Nat, Track(p, d, z), d.busy
  PROVE  LET l == [d EXCEPT !.dhkey = TRUE, !.busy = FALSE]
             m == IF l.send THEN SendConfirm("dev", [l EXCEPT !.send = FALSE], "sent") ELSE l
         IN m.active /\ Track([p EXCEPT !.held = FALSE], m, z)
<1> DEFINE l == [d EXCEPT !.dhkey = TRUE, !.busy = FALSE]
           e == SendConfirm("dev", [l EXCEPT !.send = FALSE], "sent")
           m == IF l.send THEN e ELSE l
           p2 == [p EXCEPT !.held = FALSE]
<1>1. /\ p.active /\ Fit(p) /\ Fit(d) /\ Stage(p, d) /\ Flow(p, d, z) /\ Flow(d, p, z)
  BY DEF Track, Flows
<1>2. \/ /\ DPubKey(d)
         /\ (PPubKey(p) /\ ~Mute(d)) \/ PComputes(p) \/ (PConfirm(p) /\ ~Mute(p))
      \/ DHolds(d) /\ PConfirm(p)
  BY <1>1, StageBusy
<1>3. d.active /\ d.id = 1
  BY <1>1, <1>2 DEF DPubKey, DHolds, DevAt, Fit
<1>4. IF l.send
        THEN DHolds(d) /\ Handled(d, e) /\ DConfirm(e) /\ Says(e, 130) /\ ~Mute(e)
        ELSE DPubKey(d) /\ Handled(d, l) /\ DPubKey(l) /\ l.tx = d.tx /\ l.queue = d.queue
  BY <1>1, <1>2, <1>3, OnDevKey
<1>5. Fit(p2) /\ Alike(p, p2) /\ Ear(p, p2) /\ p2.tx = p.tx /\ p2.queue = p.queue
  BY <1>1, WaitEff
<1> HIDE DEF l, e, p2
<1>6. /\ PPubKey(p) => PPubKey(p2)
      /\ PComputes(p) => PComputes(p2)
      /\ PConfirm(p) => PConfirm(p2)
      /\ Mute(p2) => Mute(p)
  BY <1>5, PrvAlike DEF Mute
<1>7. p2.active /\ p.tx.pdu.type # "open"
  <2>1. p.tx.pdu.type # "open"
    BY <1>2 DEF PPubKey, PComputes, PConfirm, PrvAt, At, Told, Mute
  <2>2. QED
    BY <1>1, <1>5, <2>1 DEF Alike, Keeps
<1>8. d.tx.pdu.type # "link ack"
  BY <1>2 DEF DPubKey, DHolds, DevAt, At, Told, Mute
<1>9. CASE l.send
  <2>1. /\ DHolds(d) /\ Handled(d, e) /\ DConfirm(e) /\ Says(e, 130) /\ ~Mute(e)
        /\ m = e /\ PConfirm(p)
    <3>1. DHolds(d) => ~DPubKey(d)
      BY DEF DHolds, DPubKey
    <3>2. QED
      BY <1>2, <1>4, <1>9, <3>1
  <2> HIDE DEF m
  <2>2. Stage(p2, m)
    BY <1>6, <2>1 DEF Stage
  <2>3. p2.prev = 129 /\ p2.missing = {}
    <3>1. p.prev = 129
      BY <2>1 DEF PConfirm, PrvAt, At
    <3>2. p.missing = {}
      BY <1>1, <2>1 DEF DHolds, Flow
    <3>3. QED
      BY <1>5, <3>1, <3>2 DEF Ear
  <2>4. m.tx.pdu.type \in Types /\ m.tx.xact = 130 /\ m.tx.tries = 0 /\ HasSeg(m.queue, 0)
    BY <2>1 DEF Says
  <2>5. Flow(m, p2, z)
    BY <2>3, <2>4, Between, FlowNew
  <2>6. Ear(d, m) /\ Fit(m) /\ m.active /\ \A x : HasAck(d.queue, x) => HasAck(m.queue, x)
    BY <1>3, <2>1 DEF Handled, SameAcks, HasAck
  <2>7. Flow(p2, m, z)
    BY <1>1, <1>5, <2>6, FlowSame
  <2>8. Opening(p2, m, z)
    BY <1>5, <1>7 DEF Opening
  <2>9. Acking(m, p2, z)
    BY <2>4 DEF Acking, Types
  <2>10. m.active /\ Track(p2, m, z)
    BY <1>5, <1>7, <2>2, <2>5, <2>6, <2>7, <2>8, <2>9 DEF Track, Flows
  <2>11. QED
    BY <2>10 DEF m, l, e, p2
<1>10. CASE ~l.send
  <2>1. /\ DPubKey(d) /\ Handled(d, m) /\ DPubKey(m) /\ m.tx = d.tx /\ m.queue = d.queue
    BY <1>4, <1>10
  <2> HIDE DEF m
  <2>2. (PPubKey(p) /\ ~Mute(d)) \/ PComputes(p) \/ (PConfirm(p) /\ ~Mute(p))
    <3>1. DPubKey(d) => ~DHolds(d)
      BY DEF DHolds, DPubKey
    <3>2. QED
      BY <1>2, <2>1, <3>1
  <2>3. Mute(m) => Mute(d)
    BY <2>1 DEF Mute
  <2>4. Stage(p2, m)
    BY <1>6, <2>1, <2>2, <2>3 DEF Stage
  <2>5. Ear(d, m) /\ Fit(m) /\ m.active
    BY <1>3, <2>1 DEF Handled
  <2>6. Flow(p2, m, z)
    BY <1>1, <1>5, <2>1, <2>5, FlowSame
  <2>7. Flow(m, p2, z)
    BY <1>1, <1>5, <2>1, <2>5, FlowSame
  <2>8. Opening(p2, m, z)
    BY <1>5, <1>7 DEF Opening
  <2>9. Acking(m, p2, z)
    BY <1>8, <2>1 DEF Acking
  <2>10. m.active /\ Track(p2, m, z)
    BY <1>5, <1>7, <2>4, <2>5, <2>6, <2>7, <2>8, <2>9 DEF Track, Flows
  <2>11. QED
    BY <2>10 DEF m, l, e, p2
<1>11. QED
  BY <1>9, <1>10

\* A DHKey is there.
LEMMA TrackDhKey ==
  ASSUME Inv, Tracked, NEW s \in Sides, DhKeyReady(s)
  PROVE  Tracked'
<1> DEFINE d == link["dev"]
           p == link["prv"]
           l == [link[s] EXCEPT !.dhkey = TRUE, !.busy = FALSE]
           m(o) == IF s = "prv" THEN SendConfirm(s, l, o)
                   ELSE IF l.send THEN SendConfirm(s, [l EXCEPT !.send = FALSE], o)
                   ELSE l
<1>1. /\ Sound(d) /\ Sound(p) /\ Side("prv", p) /\ Before /\ During /\ lost \in Nat
  BY BothSound, Pair DEF Tracked
<1>2. PICK o \in Outcomes : /\ link' = [link EXCEPT ![Other(s)].held = FALSE, ![s] = m(o)]
                            /\ CountFail(o)
  BY DEF DhKeyReady
<1>3. link'[s] = m(o) /\ link'[Other(s)] = [link[Other(s)] EXCEPT !.held = FALSE]
  BY <1>2, TurnParts
<1>4. UNCHANGED <<addr, links, success, met, netkey, lost, fired>> /\ link[s].busy
  BY DEF DhKeyReady
<1>5. links # 0
  BY <1>1, <1>4, NotBefore
<1>6. Before'
  BY <1>4, <1>5 DEF Before
<1>7. fails' \in Nat /\ lost' \in Nat /\ (Calm' => Calm /\ o = "sent")
  BY <1>2, <1>4, CalmStep
<1>8. During'
  <2> SUFFICES ASSUME links = 1, Calm'
               PROVE  IF ~Over
                        THEN /\ Track(link'["prv"], link'["dev"], lost)
                             /\ ~link'["dev"].active => addr = 0
                        ELSE ~link'["prv"].active
    BY <1>4 DEF During, Over
  <2>1. Calm /\ o = "sent"
    BY <1>7
  <2>2. CASE ~Over
    <3>1. Track(p, d, lost) /\ (~d.active => addr = 0)
      BY <1>1, <2>1, <2>2 DEF During
    <3>2. CASE s = "prv"
      <4> DEFINE e == SendConfirm("prv", [p EXCEPT !.dhkey = TRUE, !.busy = FALSE], "sent")
      <4>1. link'["prv"] = e /\ link'["dev"] = [d EXCEPT !.held = FALSE] /\ p.busy
        BY <1>3, <1>4, <2>1, <3>2, Pair
      <4>2. Track(e, [d EXCEPT !.held = FALSE], lost)
        BY <1>1, <3>1, <4>1, PrvKeyed
      <4>3. [d EXCEPT !.held = FALSE].active = d.active
        BY <1>1, HeldActive
      <4> HIDE DEF e, p, d
      <4>4. QED
        BY <2>2, <3>1, <4>1, <4>2, <4>3
    <3>3. CASE s = "dev"
      <4> DEFINE g == [d EXCEPT !.dhkey = TRUE, !.busy = FALSE]
                 e == IF g.send THEN SendConfirm("dev", [g EXCEPT !.send = FALSE], "sent") ELSE g
      <4>1. link'["dev"] = e /\ link'["prv"] = [p EXCEPT !.held = FALSE] /\ d.busy
        BY <1>3, <1>4, <2>1, <3>3, Pair
      <4>2. e.active /\ Track([p EXCEPT !.held = FALSE], e, lost)
        BY <1>1, <3>1, <4>1, DevKeyed
      <4> HIDE DEF e, p, d
      <4>3. QED
        BY <2>2, <4>1, <4>2
    <3>4. QED
      BY <3>2, <3>3, Pair
  <2>3. CASE Over
    <3>1. ~p.active
      BY <1>1, <2>1, <2>3 DEF During
    <3>2. CASE s = "prv"
      <4> DEFINE k == [p EXCEPT !.dhkey = TRUE, !.busy = FALSE]
      <4>1. link'["prv"] = SendConfirm("prv", k, "sent")
        BY <1>3, <2>1, <3>2, Pair
      <4>2. p \in LinkT /\ Single(p.queue) /\ Steady("prv", p) /\ Blank(p)
        BY <1>1 DEF Side, Sound
      <4>3. k \in LinkT
        BY <4>2 DEF LinkT
      <4>4. /\ k.tx = p.tx /\ k.active = p.active /\ k.expect = p.expect
            /\ k.send = p.send /\ k.confkey = p.confkey /\ k.given = p.given /\ k.alloc = p.alloc
            /\ k.id = p.id /\ k.prev = p.prev /\ k.closed = p.closed /\ k.closing = p.closing
            /\ k.queue = p.queue
        BY <4>2 DEF LinkT
      <4> HIDE DEF k, p
      <4>5. Steady("prv", k) /\ Blank(k) /\ Single(k.queue)
        BY <4>2, <4>4 DEF Steady, Blank
      <4>6. SendConfirm("prv", k, "sent").active => k.active
        BY <4>3, <4>5, Pair, Confirms
      <4>7. QED
        BY <2>3, <3>1, <4>1, <4>4, <4>6
    <3>3. CASE s = "dev"
      <4>1. link'["prv"].active = p.active
        BY <1>1, <1>3, <3>3, Pair, HeldActive
      <4>2. QED
        BY <2>3, <3>1, <4>1
    <3>4. QED
      BY <3>2, <3>3, Pair
  <2>4. QED
    BY <2>2, <2>3
<1>9. QED
  BY <1>6, <1>7, <1>8 DEF Tracked

\* Without a key nothing is calm any more.
LEMMA TrackDhKeyFails ==
  ASSUME Inv, Tracked, NEW s \in Sides, DhKeyFails(s)
  PROVE  Tracked'
<1>1. PICK o \in Outcomes \ {"sent"} : CountFail(o)
  BY DEF DhKeyFails
<1>2. UNCHANGED <<links, lost, fired>> /\ link[s].busy /\ Before
  BY DEF DhKeyFails, Tracked
<1>3. fails' \in Nat /\ lost' \in Nat /\ ~Calm'
  BY <1>1, <1>2, CalmStep
<1>4. Before'
  BY <1>2, NotBefore DEF Before
<1>5. QED
  BY <1>3, <1>4 DEF Tracked, During

-----------------------------------------------------------------------------
\* A side that has had no link.
LEMMA FreshFit ==
  /\ Sound(Fresh) /\ Fit(Fresh) /\ DIdle(Fresh) /\ Fresh.queue = <<>> /\ Fresh.missing = {}
  /\ ~Fresh.await
<1>1. /\ Fresh.active = FALSE /\ Fresh.expect = "invite" /\ Fresh.prev = XACT_NVAL
      /\ Fresh.missing = {} /\ Fresh.tx = NoTx /\ Fresh.txid = 0 /\ Fresh.dhkey = FALSE
      /\ Fresh.inputs = {} /\ Fresh.send = FALSE /\ Fresh.await = FALSE /\ Fresh.closing = 0
      /\ Fresh.queue = <<>> /\ Fresh.busy = FALSE
  BY DEF Fresh
<1>2. DOMAIN Fresh.queue = {}
  BY <1>1
<1>3. AckSet(Fresh.queue) = {}
  BY <1>2 DEF AckSet
<1>4. Sound(Fresh)
  BY <1>2, FreshType DEF Sound, Current, Single
<1>5. Fit(Fresh)
  BY <1>1, <1>2, <1>3 DEF Fit, Lined, Settled
<1>6. DIdle(Fresh)
  BY <1>1, Constants DEF DIdle, NoKey, Mute
<1>7. QED
  BY <1>1, <1>4, <1>5, <1>6

\* provisioner_link_open, the first time.
LEMMA FirstOpen ==
  ASSUME NEW z \in Nat
  PROVE  LET m == [CtlSend("prv", [Fresh EXCEPT !.id = 1], "open", TRUE)
                     EXCEPT !.active = TRUE, !.expect = "invite"]
         IN Track(m, Fresh, z)
<1> DEFINE k == [Fresh EXCEPT !.id = 1]
           e == CtlSend("prv", k, "open", TRUE)
           m == [e EXCEPT !.active = TRUE, !.expect = "invite"]
<1>1. /\ Sound(Fresh) /\ Fit(Fresh) /\ DIdle(Fresh) /\ Fresh.missing = {} /\ ~Fresh.await
      /\ Fresh \in LinkT
  BY FreshFit, FreshType
<1>2. 1 \in Id
  BY ProvAssumption DEF Id
<1>3. k \in LinkT
  BY <1>1, <1>2 DEF LinkT
<1>4. /\ k.queue = Fresh.queue /\ k.tx = Fresh.tx /\ k.txid = Fresh.txid /\ Ear(Fresh, k)
      /\ k.closing = Fresh.closing /\ k.inputs = Fresh.inputs /\ k.busy = Fresh.busy
      /\ k.await = Fresh.await /\ k.id = 1
  BY <1>1 DEF LinkT, Ear
<1> HIDE DEF k
<1>5. Sound(k)
  BY <1>1, <1>3, <1>4 DEF Sound
<1>6. Fit(k)
  <2>1. Settled(k)
    BY <1>1, <1>4, SettledSame DEF Fit, Ear
  <2>2. QED
    BY <1>1, <1>4, <2>1 DEF Fit, Mute
<1>7. /\ Sound(e) /\ Fit(e) /\ Keeps(k, e) /\ Ear(k, e)
      /\ e.tx.pdu.type = "open" /\ e.tx.tries = 0 /\ e.txid = k.txid
      /\ HasCtl(e.queue, "open")
  <2>1. "prv" \in Sides /\ "open" \in {"open", "link ack"}
    BY DEF Sides
  <2>2. QED
    BY <1>4, <1>5, <1>6, <2>1, CtlEff
<1> HIDE DEF e
<1>8. e \in LinkT
  BY <1>7 DEF Sound
<1>9. /\ m.active = TRUE /\ m.expect = "invite" /\ m.queue = e.queue /\ m.tx = e.tx
      /\ m.txid = e.txid /\ Ear(e, m) /\ m.closing = e.closing /\ m.inputs = e.inputs
      /\ m.busy = e.busy /\ m.await = e.await /\ m.id = e.id
  BY <1>8 DEF LinkT, Ear
<1> HIDE DEF m
<1>10. e.id = 1 /\ e.closing = k.closing /\ e.inputs = k.inputs /\ e.busy = k.busy /\ e.await = k.await
  BY <1>4, <1>7 DEF Keeps
<1>11. Fit(m)
  <2>1. Settled(m)
    BY <1>7, <1>9, SettledSame DEF Fit, Ear
  <2>2. QED
    BY <1>7, <1>9, <1>10, <2>1 DEF Fit, Mute
<1>12. m.prev = Fresh.prev /\ m.missing = {}
  BY <1>1, <1>4, <1>7, <1>9 DEF Ear
<1>13. POpen(m)
  BY <1>1, <1>4, <1>7, <1>9, <1>10, <1>12 DEF POpen, DIdle, NoKey
<1>14. Stage(m, Fresh)
  BY <1>1, <1>13 DEF Stage
<1>15. Flow(m, Fresh, z)
  <2>1. m.tx.pdu.type \in Ctl
    BY <1>7, <1>9 DEF Ctl
  <2>2. QED
    BY <2>1, FlowCtl
<1>16. Flow(Fresh, m, z)
  BY <1>1, <1>12, FlowMute DEF DIdle
<1>17. Opening(m, Fresh, z)
  <2>1. Paid(m, z, HasCtl(m.queue, "open"))
    <3>1. m.tx.tries = 0 /\ HasCtl(m.queue, "open")
      BY <1>7, <1>9
    <3>2. 0 < z \/ 0 = z
      OBVIOUS
    <3>3. QED
      BY <3>1, <3>2 DEF Paid
  <2>2. ~Fresh.active
    BY <1>1 DEF DIdle
  <2>3. QED
    BY <1>1, <2>1, <2>2 DEF Opening
<1>18. Acking(Fresh, m, z)
  BY <1>1 DEF Acking, DIdle, Mute
<1>19. QED
  BY <1>1, <1>9, <1>11, <1>14, <1>15, <1>16, <1>17, <1>18 DEF Track, Flows, m, e, k

\* The provisioner opens a link.
LEMMA TrackOpen ==
  ASSUME Inv, Tracked, Open
  PROVE  Tracked'
<1> DEFINE d == link["dev"]
           p == link["prv"]
           m(o) == [CtlSend("prv", [p EXCEPT !.id = links'], "open", CtlOk(o))
                      EXCEPT !.active = TRUE, !.expect = "invite"]
<1>1. /\ link \in [Sides -> LinkT] /\ links \in Nat /\ Before /\ lost \in Nat
  <2>1. links \in 0..MaxLinks /\ link \in [Sides -> LinkT]
    BY DEF Inv, Typed
  <2>2. QED
    BY <2>1, ProvAssumption DEF Tracked
<1>2. PICK o \in Outcomes : link' = [link EXCEPT !["prv"] = m(o)] /\ CountFail(o)
  BY <1>1, Pair DEF Open
<1>3. link'["prv"] = m(o) /\ link'["dev"] = d
  BY <1>1, <1>2 DEF Sides
<1>4. UNCHANGED <<addr, success, met, netkey, lost, fired>> /\ links' = links + 1
  BY DEF Open
<1>5. links' # 0 /\ (links' = 1 => links = 0)
  BY <1>1, <1>4
<1>6. Before'
  BY <1>5 DEF Before
<1>7. fails' \in Nat /\ lost' \in Nat /\ (Calm' => Calm /\ o = "sent")
  BY <1>2, <1>4, CalmStep
<1>8. During'
  <2> SUFFICES ASSUME links' = 1, Calm'
               PROVE  IF ~Over
                        THEN /\ Track(link'["prv"], link'["dev"], lost)
                             /\ ~link'["dev"].active => addr = 0
                        ELSE ~link'["prv"].active
    BY <1>4 DEF During, Over
  <2> DEFINE n == [CtlSend("prv", [Fresh EXCEPT !.id = 1], "open", TRUE)
                     EXCEPT !.active = TRUE, !.expect = "invite"]
  <2>1. links = 0 /\ o = "sent"
    BY <1>5, <1>7
  <2>2. d = Fresh /\ p = Fresh /\ addr = 0 /\ ~Over
    BY <1>1, <2>1 DEF Before, Over
  <2>3. m(o) = n
    <3>1. CtlOk("sent") = TRUE
      BY DEF CtlOk
    <3> HIDE DEF p
    <3>2. m(o) = [CtlSend("prv", [Fresh EXCEPT !.id = 1], "open", CtlOk("sent"))
                    EXCEPT !.active = TRUE, !.expect = "invite"]
      BY <2>1, <2>2, Zenon
    <3>3. QED
      BY <3>1, <3>2, Zenon
  <2>4. Track(n, Fresh, lost)
    BY <1>1, FirstOpen
  <2> HIDE DEF m, n, d
  <2>5. QED
    BY <1>3, <2>2, <2>3, <2>4
<1>9. QED
  BY <1>6, <1>7, <1>8 DEF Tracked

\* The provisioning timer fires.
LEMMA TrackTimeout ==
  ASSUME Inv, Tracked, ProvTimeout
  PROVE  Tracked'
<1>1. link \in [Sides -> LinkT]
  BY DEF Inv, Typed
<1>2. /\ UNCHANGED <<links, success, met, netkey, fails, lost>> /\ addr' = 0 /\ fired'
      /\ link' = [link EXCEPT !["dev"] =
                    IF link["dev"].active THEN ResetLink(link["dev"]) ELSE link["dev"]]
  BY DEF ProvTimeout
<1>3. Before'
  <2> SUFFICES ASSUME links = 0
               PROVE  link' = link
    BY <1>2 DEF Before, Tracked
  <2>1. ~link["dev"].active
    BY FreshFit DEF Before, Tracked, DIdle
  <2>2. QED
    BY <1>1, <1>2, <2>1
<1>4. ~Calm'
  BY <1>2 DEF Calm
<1>5. QED
  BY <1>2, <1>3, <1>4 DEF Tracked, During

\* Nothing of it changes.
LEMMA TrackStutter ==
  ASSUME Tracked, UNCHANGED <<link, addr, links, success, met, netkey, fails, lost, fired>>
  PROVE  Tracked'
BY DEF Tracked, Before, During, Calm, Over

\* Each step of either side, of the medium and of the application.
LEMMA TrackStep == Inv /\ Tracked /\ [Next]_vars => Tracked'
<1> SUFFICES ASSUME Inv, Tracked, [Next]_vars
             PROVE  Tracked'
  OBVIOUS
<1>1. CASE \E s \in Sides : Deliver(s)
  BY <1>1, Pair, TrackToDev, TrackToPrv DEF Sides
<1>2. CASE \E s \in Sides : Lose(s)
  BY <1>2, TrackLose
<1>3. CASE \E s \in Sides : Retransmit(s)
  BY <1>3, TrackRetransmit
<1>4. CASE \E s \in Sides : DhKeyReady(s)
  BY <1>4, TrackDhKey
<1>5. CASE \E s \in Sides : DhKeyFails(s)
  BY <1>5, TrackDhKeyFails
<1>6. CASE Open
  BY <1>6, TrackOpen
<1>7. CASE ProvTimeout
  BY <1>7, TrackTimeout
<1>8. CASE AppKeyAdd
  BY <1>8, TrackStutter DEF AppKeyAdd
<1>9. CASE UNCHANGED vars
  BY <1>9, TrackStutter DEF vars
<1>10. QED
  BY <1>1, <1>2, <1>3, <1>4, <1>5, <1>6, <1>7, <1>8, <1>9 DEF Next

\* It holds at the start.
LEMMA InitTracked == Init => Tracked
<1> SUFFICES ASSUME Init
             PROVE  Tracked
  OBVIOUS
<1>1. link["dev"] = Fresh /\ link["prv"] = Fresh
  BY DEF Init, Sides
<1>2. addr = 0 /\ success = 0 /\ met = 0 /\ links = 0 /\ fails = 0 /\ lost = 0
  BY DEF Init
<1>3. links # 1
  BY <1>2
<1>4. lost \in Nat /\ fails \in Nat
  BY <1>2
<1>5. QED
  BY <1>1, <1>2, <1>3, <1>4 DEF Tracked, Before, During

\* On a link that has come any way there is something to repeat or to compute.
LEMMA StageGoesOn ==
  ASSUME NEW p, NEW d, Stage(p, d), p.active
  PROVE  (p.active /\ ~Mute(p)) \/ (d.active /\ ~Mute(d)) \/ p.busy \/ d.busy
<1>1. POpen(p) => ~Mute(p)
  BY DEF POpen, Mute
<1>2. PStart(p) => ~Mute(p)
  BY DEF PStart
<1>3. PComputes(p) => p.busy
  BY DEF PComputes
<1>4. DHolds(d) => d.busy
  BY DEF DHolds
<1>5. DCaps(d) \/ DPubKey(d) \/ DConfirm(d) \/ DRandom(d) \/ DComplete(d) => d.active
  BY DEF DCaps, DPubKey, DConfirm, DRandom, DComplete, DevAt
<1>6. QED
  BY <1>1, <1>2, <1>3, <1>4, <1>5 DEF Stage

\* The first link cannot come to rest before the provisioner has closed it.
LEMMA TrackedCompletes == Tracked => Completes
<1> DEFINE d == link["dev"]
           p == link["prv"]
<1> SUFFICES ASSUME Tracked, links = 1, Calm, Idle, ~Over
             PROVE  FALSE
  BY DEF Completes, Calm, Tracked, During
<1>1. p.active /\ Stage(p, d)
  BY DEF Tracked, During, Track
<1>2. ~Waits(p) /\ ~Waits(d) /\ ~p.busy /\ ~d.busy
  BY Pair DEF Idle
<1>3. Waits(p) \/ Waits(d)
  <2> HIDE DEF p, d
  <2>1. (p.active /\ ~Mute(p)) \/ (d.active /\ ~Mute(d))
    BY <1>1, <1>2, StageGoesOn
  <2>2. NoTx.pdu.type = "none"
    BY Constants
  <2>3. QED
    BY <2>1, <2>2 DEF Mute, Waits
<1>4. QED
  BY <1>2, <1>3

(***************************************************************************)
(* With no more adverts lost than a PDU has tries, with buffers and keys   *)
(* and before the device's timer fires, prov_retransmit and                *)
(* gen_prov_ack_send make up for the losses, whatever Tries is: the first  *)
(* link does not come to rest before the provisioner has closed it, with   *)
(* success if it has a network key to give (send_prov_data), and after the *)
(* verification of the device if it has none.                              *)
(***************************************************************************)
THEOREM LinkCompletes == Spec => []Completes
<1>1. Tracked /\ Inv /\ [Next]_vars => Tracked'
  BY TrackStep
<1>2. Init => Tracked
  BY InitTracked
<1>3. Tracked => Completes
  BY TrackedCompletes
<1>4. Spec => []Inv
  BY Invariance
<1>5. QED
  BY <1>1, <1>2, <1>3, <1>4, PTL DEF Spec
=============================================================================
