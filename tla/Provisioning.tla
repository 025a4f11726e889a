---------------------------- MODULE Provisioning ----------------------------
(***************************************************************************)
(* Provisioning over advertisements (PB-ADV): the device (prov.c), the     *)
(* provisioner (provisioner_prov.c), and the timer with which the device's *)
(* application limits an attempt (genie_event.c, genie_mesh.c).            *)
(*                                                                         *)
(* Adverts leave a side in the order in which they were queued; the other  *)
(* side hears each one, or it is lost.  500 ms, the time before a          *)
(* retransmission, are enough to send all that either side has queued.     *)
(* The capabilities fit the provisioner, both use the same OOB value, and  *)
(* each keeps its key pair, so that the Diffie-Hellman key is the same for *)
(* every link.  Keys derived from it differ by the confirmation inputs.    *)
(*                                                                         *)
(* The provisioner takes the network key that it gives away from           *)
(* bt_mesh.p_sub, which no code of this repository fills: without it the   *)
(* link is closed once the device is verified.  The rest of the protocol   *)
(* is that of a provisioner that fills it, or of another one.  What the    *)
(* application of the provisioner does with its own network meanwhile is   *)
(* left out.                                                               *)
(***************************************************************************)
EXTENDS Naturals, Sequences, FiniteSets

CONSTANTS
  MaxLinks,   \* bound: links the provisioner opens
  MaxFails,   \* bound: times that advertising buffers run out or a DHKey fails
  Tries,      \* retransmissions that fit TRANSACTION_TIMEOUT
  MaxLost,    \* bound: adverts lost
  NetKeys     \* whether p_sub may hold the network key: FALSE as it stands

ASSUME ProvAssumption ==
  /\ MaxLinks \in Nat \ {0} /\ MaxFails \in Nat
  /\ Tries \in Nat /\ MaxLost \in Nat
  /\ NetKeys \subseteq BOOLEAN /\ NetKeys # {}

Sides == {"dev", "prv"}

Other(s) == IF s = "dev" THEN "prv" ELSE "dev"

Types == {"invite", "caps", "start", "pubkey", "confirm", "random", "data",
          "complete", "failed"}

Ctl == {"open", "link ack", "close"}

\* last_seg for the length of each PDU.
LastSeg(type) == CASE type = "pubkey" -> 2 [] type = "data" -> 1 [] OTHER -> 0

XACT_NVAL == 255

\* A provisioning PDU.  key: the conf_inputs behind its contents.
Pdu(type, key, addr) == [type |-> type, key |-> key, addr |-> addr]

NoPdu == Pdu("none", {}, 0)

\* tx: what is sent until it is acknowledged.
NoTx == [xact |-> 0, pdu |-> NoPdu, tries |-> 0]

(***************************************************************************)
(* struct prov_link of either side, with its part of the advertiser.       *)
(***************************************************************************)
Fresh ==
  [active |-> FALSE,      \* LINK_ACTIVE
   id |-> 0,
   expect |-> "invite",
   rxid |-> 0, prev |-> XACT_NVAL, missing |-> {}, \* link.rx
   tx |-> NoTx, txid |-> 0,                        \* link.tx
   dhkey |-> FALSE,       \* HAVE_DHKEY
   inputs |-> {},         \* conf_inputs: the PDUs that are in it
   confkey |-> {},        \* conf_key, by its inputs
   conf |-> {},           \* the remote confirmation, by its inputs
   send |-> FALSE,        \* SEND_CONFIRM
   await |-> FALSE,       \* expect_ack_for is PROV_START
   closing |-> 0,         \* send_link_close: 0, or 1 and the count
   given |-> 0,           \* unicast_addr
   closed |-> FALSE,      \* history: close_link has left prev behind
   queue |-> <<>>,        \* adverts not yet sent
   held |-> FALSE,        \* has retransmitted, the other side comes first
   busy |-> FALSE,        \* a DHKey is being computed
   alloc |-> 1]           \* prov_ctx.curr_alloc_addr

VARIABLES
  link,       \* the link of each side
  addr,       \* the device's address, 0 if it is not provisioned
  inprov,     \* g_in_prov of the device: the provisioning timer runs
  links,      \* links opened so far
  netkey,     \* bt_mesh_provisioner_net_key_get finds the network key
  success,    \* the address of the last link closed with success
  met,        \* history: the last link on which the device was verified
  handled,    \* history: the transactions each side has handled
  fails,      \* sends that found no buffer, and keys that failed
  lost,       \* adverts that were lost
  fired       \* history: the provisioning timer has fired

vars == <<link, addr, inprov, links, netkey, success, met, handled, fails, lost, fired>>

-----------------------------------------------------------------------------
IsAck(a) == a.kind = "ack"

\* free_segments: adverts still queued are cancelled (busy is 0 and adv_thread
\* will pass over them), acknowledgements are not.
Cancelled == [kind |-> "cancelled", link |-> 0, xact |-> 0, seg |-> 0, pdu |-> NoPdu]

Cancel(queue) ==
  [n \in DOMAIN queue |-> IF IsAck(queue[n]) THEN queue[n] ELSE Cancelled]

\* prov_clear_tx.
ClearTx(l) == [l EXCEPT !.tx = NoTx, !.queue = Cancel(@)]

\* Plausible slip: the last transaction received is remembered.
ResetLinkKeepsPrev(l) ==
  [Fresh EXCEPT !.queue = Cancel(l.queue), !.busy = l.busy,
                !.alloc = l.alloc, !.prev = l.prev]

\* reset_link.
ResetLink(l) ==
  [Fresh EXCEPT !.queue = Cancel(l.queue), !.busy = l.busy,
                !.alloc = l.alloc]

\* The adverts that carry pdu.
Adverts(l, x, pdu) ==
  IF pdu.type \in Ctl
    THEN <<[kind |-> pdu.type, link |-> l.id, xact |-> 0, seg |-> 0, pdu |-> pdu]>>
    ELSE [n \in 1..LastSeg(pdu.type) + 1 |->
            [kind |-> "seg", link |-> l.id, xact |-> x, seg |-> n - 1, pdu |-> pdu]]

\* send_reliable, first and when it is repeated.
Reliably(l, tx) ==
  [l EXCEPT !.tx = tx, !.queue = @ \o Adverts(l, tx.xact, tx.pdu)]

(***************************************************************************)
(* bearer_ctl_send and prov_send_adv; without buffers (ok false) only what *)
(* was being sent is given up.                                             *)
(***************************************************************************)
CtlSend(s, l, op, ok) ==
  IF ~ok THEN ClearTx(l)
  ELSE LET sent == Reliably(ClearTx(l), [NoTx EXCEPT !.pdu = Pdu(op, {}, 0)])
       IN IF s = "prv" /\ op = "close"
            THEN [sent EXCEPT !.closing = 1, !.txid = 0] ELSE sent

\* next_transaction_id, which on the provisioner returns the id and then counts.
NextId(s, l) ==
  LET x == IF s = "prv" THEN IF l.txid > 127 THEN 0 ELSE l.txid
           ELSE IF l.txid \in {0, 255} THEN 128 ELSE l.txid + 1
  IN [use |-> x, keep |-> IF s = "prv" THEN x + 1 ELSE x]

Send(s, l, pdu, ok) ==
  IF ~ok THEN ClearTx(l)
  ELSE Reliably([ClearTx(l) EXCEPT !.txid = NextId(s, l).keep],
                [xact |-> NextId(s, l).use, pdu |-> pdu, tries |-> 0])

\* gen_prov_ack_send; pending_ack is the acknowledgement that has the callback.
PendingAck(l) == {l.queue[n].xact : n \in {k \in DOMAIN l.queue :
                                             l.queue[k].kind = "ack" /\ l.queue[k].seg = 1}}

\* Plausible slip: every acknowledgement takes the callback of the pending one.
AckSendTwice(l, x) ==
  [l EXCEPT !.queue = Append(@, [kind |-> "ack", link |-> l.id, xact |-> x,
                                 seg |-> 1, pdu |-> NoPdu])]

AckSend(l, x) ==
  IF x \in PendingAck(l) THEN l
  ELSE [l EXCEPT !.queue =
          Append(@, [kind |-> "ack", link |-> l.id, xact |-> x,
                     seg |-> IF PendingAck(l) = {} THEN 1 ELSE 0, pdu |-> NoPdu])]

(***************************************************************************)
(* How buffers fare in one handler: o is "sent", "close" when the PDU gets *)
(* none and the messages of close_link do, "full" when nothing does.       *)
(***************************************************************************)
PduOk(o) == o = "sent"
CtlOk(o) == o # "full"

Outcomes == IF fails < MaxFails THEN {"sent", "close", "full"} ELSE {"sent"}

CountFail(o) == fails' = IF o = "sent" THEN fails ELSE fails + 1

\* close_link.  The message of failure is cancelled by the one that follows.
CloseLink(s, l, err, o) ==
  LET told == IF err THEN Send(s, l, Pdu("failed", {}, 0), CtlOk(o)) ELSE l
  IN [CtlSend(s, [told EXCEPT !.missing = {}], "close", CtlOk(o))
        EXCEPT !.active = FALSE, !.closed = TRUE]

\* Send pdu and expect next, or close the link.
SendThen(s, l, pdu, next, o) ==
  IF PduOk(o) THEN [Send(s, l, pdu, TRUE) EXCEPT !.expect = next]
  ELSE CloseLink(s, Send(s, l, pdu, FALSE), TRUE, o)

\* Tell the other side that the attempt has failed, and wait.
Fail(s, l, o) ==
  [Send(s, l, Pdu("failed", {}, 0), PduOk(o)) EXCEPT !.expect = "failed"]

\* What parts adds to conf_inputs.
Has(l, parts) == [l EXCEPT !.inputs = @ \cup parts]

\* bt_mesh_dh_key_gen: one computation at a time.
GenDhKey(s, l, next, o) ==
  IF l.busy THEN CloseLink(s, l, TRUE, o)
  ELSE [l EXCEPT !.busy = TRUE, !.expect = next]

\* send_confirm.
SendConfirm(s, l, o) ==
  LET next == IF s = "dev" THEN "random" ELSE "confirm"
  IN SendThen(s, [l EXCEPT !.confkey = l.inputs], Pdu("confirm", l.inputs, 0), next, o)

-----------------------------------------------------------------------------
(***************************************************************************)
(* The handlers of the device.                                             *)
(***************************************************************************)
ProvInvite(l, o) ==
  SendThen("dev", Has(l, {"caps"}), Pdu("caps", {}, 0), "start", o)

ProvStart(l) == [Has(l, {"start"}) EXCEPT !.expect = "pubkey"]

DevPubKey(l, o) ==
  GenDhKey("dev", Send("dev", Has(l, {"prv key", "dev key"}), Pdu("pubkey", {}, 0), PduOk(o)),
           "confirm", o)

DevConfirm(l, pdu, o) ==
  LET got == [l EXCEPT !.conf = pdu.key]
  IN IF ~l.dhkey THEN [ClearTx(got) EXCEPT !.send = TRUE]
     ELSE SendConfirm("dev", got, o)

DevRandom(l, o) ==
  IF l.confkey # l.conf THEN Fail("dev", l, o)
  ELSE SendThen("dev", l, Pdu("random", {}, 0), "data", o)

Decrypts(l, pdu) == pdu.key = l.confkey

\* prov_data; bt_mesh_provision is in Deliver.  PROV_INVITE is 0.
DevData(l, pdu, o) ==
  IF ~Decrypts(l, pdu) THEN Fail("dev", l, o)
  ELSE [Send("dev", l, Pdu("complete", {}, 0), PduOk(o)) EXCEPT !.expect = "invite"]

DevHandler(l, pdu, o) ==
  CASE pdu.type = "invite" -> ProvInvite(l, o)
    [] pdu.type = "start" -> ProvStart(l)
    [] pdu.type = "pubkey" -> DevPubKey(l, o)
    [] pdu.type = "confirm" -> DevConfirm(l, pdu, o)
    [] pdu.type = "random" -> DevRandom(l, o)
    [] pdu.type = "data" -> DevData(l, pdu, o)
    [] OTHER -> l

(***************************************************************************)
(* The handlers of the provisioner.                                        *)
(***************************************************************************)
SendInvite(l, o) == SendThen("prv", l, Pdu("invite", {}, 0), "caps", o)

ProvCapabilities(l, o) ==
  LET sent == SendThen("prv", Has(l, {"caps", "start"}), Pdu("start", {}, 0), l.expect, o)
  IN IF PduOk(o) THEN [sent EXCEPT !.await = TRUE] ELSE sent

PrvConfirm(l, pdu, o) ==
  SendThen("prv", [l EXCEPT !.conf = pdu.key], Pdu("random", {}, 0),
           "random", o)

SendProvData(l, o) ==
  LET sent == SendThen("prv", [l EXCEPT !.given = l.alloc],
                       Pdu("data", l.confkey, l.alloc), "complete", o)
  IN IF ~netkey THEN CloseLink("prv", l, TRUE, o)
     ELSE IF PduOk(o) THEN [sent EXCEPT !.alloc = @ + 1] ELSE sent

\* The confirmation of the device is that of its random value.
Verifies(l) == l.confkey = l.conf

PrvRandom(l, o) ==
  IF Verifies(l) THEN SendProvData(l, o) ELSE CloseLink("prv", l, TRUE, o)

PrvHandler(l, pdu, o) ==
  CASE pdu.type = "caps" -> ProvCapabilities(l, o)
    [] pdu.type = "pubkey" -> GenDhKey("prv", Has(l, {"dev key"}), l.expect, o)
    [] pdu.type = "confirm" -> PrvConfirm(l, pdu, o)
    [] pdu.type = "random" -> PrvRandom(l, o)
    [] pdu.type \in {"complete", "failed"} -> CloseLink("prv", l, FALSE, o)
    [] OTHER -> l

-----------------------------------------------------------------------------
Expected(l, pdu) == pdu.type \in {"failed", l.expect}

(***************************************************************************)
(* prov_msg_recv.  The device acknowledges a PDU before it looks whether   *)
(* it expects it, the provisioner only one that it expects.                *)
(***************************************************************************)
Acked(l) == [AckSend(l, l.rxid) EXCEPT !.prev = l.rxid, !.rxid = 0]

MsgRecv(s, l, pdu, o) ==
  IF s = "dev"
    THEN IF Expected(l, pdu) THEN DevHandler(Acked(l), pdu, o)
                             ELSE Fail(s, Acked(l), o)
    ELSE IF Expected(l, pdu) THEN PrvHandler(Acked(l), pdu, o)
                             ELSE Fail(s, l, o)

\* Advert a completes a PDU in gen_prov_start or gen_prov_cont.
Whole(l, a) ==
  /\ a.kind = "seg"
  /\ \/ a.seg = 0 /\ l.missing = {} /\ l.prev # a.xact /\ LastSeg(a.pdu.type) = 0
     \/ a.seg > 0 /\ l.missing = {a.seg} /\ l.rxid = a.xact

\* gen_prov_start and gen_prov_cont.
SegRecv(s, l, a, o) ==
  LET started == [l EXCEPT !.rxid = a.xact, !.missing = 1..LastSeg(a.pdu.type)]
      stored == [l EXCEPT !.missing = @ \ {a.seg}]
  IN IF l.missing = {} /\ l.prev = a.xact THEN AckSend(l, a.xact)
     ELSE IF a.seg = 0
       THEN IF l.missing # {} THEN l
            ELSE IF Whole(l, a) THEN MsgRecv(s, started, a.pdu, o) ELSE started
       ELSE IF l.rxid # a.xact \/ a.seg \notin l.missing THEN l
            ELSE IF Whole(l, a) THEN MsgRecv(s, stored, a.pdu, o) ELSE stored

\* gen_prov_ack; the acknowledgement of its start lets the provisioner go on.
AckRecv(s, l, x, o) ==
  IF l.tx = NoTx THEN l
  ELSE IF s = "dev" THEN IF x = l.txid THEN ClearTx(l) ELSE l
  ELSE IF l.txid = 0 \/ x # l.txid - 1 THEN l
  ELSE IF l.await
    THEN [Send(s, Has(ClearTx(l), {"prv key"}), Pdu("pubkey", {}, 0), PduOk(o))
            EXCEPT !.expect = "pubkey", !.await = FALSE]
  ELSE ClearTx(l)

\* link_open on the device.
LinkOpen(l, a, o) ==
  IF l.active THEN l
  ELSE [CtlSend("dev", [l EXCEPT !.id = a.link, !.active = TRUE], "link ack", CtlOk(o))
          EXCEPT !.expect = "invite"]

\* link_ack on the provisioner.
LinkAck(l, o) == IF l.expect = "caps" THEN l ELSE SendInvite(l, o)

\* bt_mesh_pb_adv_recv: adverts the device looks at.
DevHears(l, a) ==
  /\ l.active \/ addr = 0
  /\ l.active => a.link = l.id
  /\ l.active \/ a.kind = "open"

\* gen_prov_recv and gen_prov_ctl.
Recv(s, l, a, o) ==
  IF a.kind = "cancelled" \/ ~(IF s = "dev" THEN DevHears(l, a) ELSE l.active) THEN l
  ELSE CASE a.kind = "seg" -> SegRecv(s, l, a, o)
         [] a.kind = "ack" -> AckRecv(s, l, a.xact, o)
         [] a.kind = "open" -> IF s = "dev" THEN LinkOpen(l, a, o) ELSE l
         [] a.kind = "link ack" -> IF s = "prv" THEN LinkAck(l, o) ELSE l
         [] a.kind = "close" -> ResetLink(l)

-----------------------------------------------------------------------------
\* Side s takes PDU a and acts on it.
Takes(s, l, a) ==
  /\ IF s = "dev" THEN DevHears(l, a) ELSE l.active
  /\ Whole(l, a)
  /\ s = "dev" \/ Expected(l, a.pdu)

(***************************************************************************)
(* An advert of side s is sent and heard by the other side, r.  When the   *)
(* device takes the provisioning data bt_mesh_provision sets it up, unless *)
(* it is provisioned; when it opens a link GENIE_EVT_SDK_MESH_PROV_START   *)
(* starts the timer, unless it runs.                                       *)
(***************************************************************************)
Deliver(s) ==
  LET r == Other(s)
      a == Head(link[s].queue)
      l == link[r]
  IN /\ link[s].queue # <<>>
     /\ \E o \in Outcomes :
          /\ LET new == Recv(r, l, a, o)
             IN link' = [link EXCEPT ![s].queue = Tail(@), ![s].held = @ /\ new.tx = l.tx,
                                     ![r] = new]
          /\ CountFail(o)
     /\ addr' = IF /\ r = "dev" /\ Takes(r, l, a) /\ addr = 0
                   /\ a.pdu.type = "data" /\ Expected(l, a.pdu) /\ Decrypts(l, a.pdu)
                  THEN a.pdu.addr ELSE addr
     /\ inprov' = (inprov \/ (r = "dev" /\ a.kind = "open" /\ DevHears(l, a) /\ ~l.active))
     /\ success' = IF r = "prv" /\ Takes(r, l, a) /\ a.pdu.type = "complete"
                     THEN l.given ELSE success
     /\ met' = IF r = "prv" /\ Takes(r, l, a) /\ a.pdu.type = "random" /\ Verifies(l)
                 THEN l.id ELSE met
     /\ handled' = IF Takes(r, l, a)
                     THEN handled \cup {[by |-> r, link |-> l.id, xact |-> a.xact]}
                     ELSE handled
     /\ UNCHANGED <<links, netkey, lost, fired>>

Lose(s) ==
  /\ link[s].queue # <<>> /\ Head(link[s].queue) # Cancelled
  /\ lost < MaxLost
  /\ link' = [link EXCEPT ![s].queue = Tail(@)]
  /\ lost' = lost + 1
  /\ UNCHANGED <<addr, inprov, links, netkey, success, met, handled, fails, fired>>

Quiet == \A s \in Sides : link[s].queue = <<>>

\* Plausible slip: only the first segment is sent again.
RepeatFirst(s, l) ==
  [l EXCEPT !.queue = <<Head(Adverts(l, l.tx.xact, l.tx.pdu))>>,
            !.tx.tries = @ + 1, !.held = TRUE]

(***************************************************************************)
(* prov_retransmit.  What send_link_close counts is not reset by the next  *)
(* link; the third time the provisioner resets the link.                   *)
(***************************************************************************)
Repeat(s, l) ==
  IF s = "prv" /\ l.closing >= 3 THEN ResetLink(l)
  ELSE Reliably([l EXCEPT !.closing = IF l.closing > 0 THEN @ + 1 ELSE 0, !.held = TRUE],
                [l.tx EXCEPT !.tries = @ + 1])

\* The retransmission timer of l runs.
Waits(l) == l.active /\ l.tx # NoTx

\* Both sides retransmit with the same period, so that they take turns.
Retransmit(s) ==
  LET l == link[s]
  IN /\ Quiet /\ Waits(l)
     /\ l.held => ~Waits(link[Other(s)])
     /\ link' = [link EXCEPT ![Other(s)].held = FALSE,
                   ![s] = IF l.tx.tries >= Tries THEN ResetLink(l) ELSE Repeat(s, l)]
     /\ UNCHANGED <<addr, inprov, links, netkey, success, met, handled, fails, lost, fired>>

\* prov_dh_key_cb, also when the link it was meant for is gone.
DhKeyReady(s) ==
  LET l == [link[s] EXCEPT !.dhkey = TRUE, !.busy = FALSE]
  IN /\ link[s].busy
     /\ \E o \in Outcomes :
          /\ link' = [link EXCEPT ![Other(s)].held = FALSE, ![s] =
               IF s = "prv" THEN SendConfirm(s, l, o)
               ELSE IF l.send THEN SendConfirm(s, [l EXCEPT !.send = FALSE], o)
               ELSE l]
          /\ CountFail(o)
     /\ UNCHANGED <<addr, inprov, links, netkey, success, met, handled, lost, fired>>

\* prov_dh_key_cb without a key.
DhKeyFails(s) ==
  /\ link[s].busy
  /\ \E o \in Outcomes \ {"sent"} :
       /\ link' = [link EXCEPT ![Other(s)].held = FALSE,
                              ![s] = CloseLink(s, [@ EXCEPT !.busy = FALSE], TRUE, o)]
       /\ CountFail(o)
  /\ UNCHANGED <<addr, inprov, links, netkey, success, met, handled, lost, fired>>

(***************************************************************************)
(* provisioner_link_open, for a beacon of the device: it sends them while  *)
(* it is unprovisioned and has no link.                                    *)
(***************************************************************************)
Open ==
  /\ ~link["prv"].active /\ links < MaxLinks
  /\ ~link["dev"].active /\ addr = 0 /\ link["dev"].queue = <<>>
  /\ links' = links + 1
  /\ \E o \in Outcomes :
       /\ link' = [link EXCEPT !["prv"] =
            [CtlSend("prv", [@ EXCEPT !.id = links'], "open", CtlOk(o))
               EXCEPT !.active = TRUE, !.expect = "invite"]]
       /\ CountFail(o)
  /\ UNCHANGED <<addr, inprov, netkey, success, met, handled, lost, fired>>

\* Plausible slip: the link is left as it is, as on other boards.
ProvTimeoutLeavesLink ==
  /\ inprov
  /\ inprov' = FALSE /\ addr' = 0 /\ fired' = TRUE
  /\ UNCHANGED <<link, links, netkey, success, met, handled, fails, lost>>

\* GENIE_EVT_SDK_MESH_PROV_TIMEOUT: _genie_reset_prov, as it is on the boards
\* TG7100B and CH6121EVB.
ProvTimeout ==
  /\ inprov
  /\ inprov' = FALSE /\ addr' = 0 /\ fired' = TRUE
  /\ link' = [link EXCEPT !["dev"] = IF @.active THEN ResetLink(@) ELSE @]
  /\ UNCHANGED <<links, netkey, success, met, handled, fails, lost>>

\* GENIE_EVT_SDK_APPKEY_ADD: whoever provisioned the device gives it its key.
AppKeyAdd ==
  /\ inprov /\ addr # 0 /\ success = addr
  /\ inprov' = FALSE
  /\ UNCHANGED <<link, addr, links, netkey, success, met, handled, fails, lost, fired>>

Init ==
  /\ link = [s \in Sides |-> Fresh]
  /\ addr = 0 /\ inprov = FALSE
  /\ links = 0 /\ netkey \in NetKeys /\ success = 0 /\ met = 0 /\ handled = {}
  /\ fails = 0 /\ lost = 0 /\ fired = FALSE

Next ==
  \/ \E s \in Sides :
       Deliver(s) \/ Lose(s) \/ Retransmit(s) \/ DhKeyReady(s) \/ DhKeyFails(s)
  \/ Open \/ ProvTimeout \/ AppKeyAdd

Spec == Init /\ [][Next]_vars

(***************************************************************************)
(* What is sent is heard or lost, timers fire, keys get computed, beacons  *)
(* are heard: the system does not stop while it has any of these to do.    *)
(* Nothing makes the application add a key in time.                        *)
(***************************************************************************)
Progress ==
  \/ \E s \in Sides :
       Deliver(s) \/ Lose(s) \/ Retransmit(s) \/ DhKeyReady(s) \/ DhKeyFails(s)
  \/ Open \/ ProvTimeout

FairSpec == Spec /\ WF_vars(Progress)

-----------------------------------------------------------------------------
(***************************************************************************)
(* Everything has its type, one acknowledgement at most is the pending     *)
(* one, an expected segment belongs to a PDU that has it and only an       *)
(* address that was allocated is in use.                                   *)
(***************************************************************************)
TypeOK ==
  /\ \A s \in Sides :
       LET l == link[s]
       IN /\ l.active \in BOOLEAN /\ l.id \in 0..MaxLinks
          /\ l.expect \in Types
          /\ l.missing \subseteq 1..2 /\ l.tx.tries \in 0..Tries
          /\ {l.dhkey, l.busy, l.send, l.await} \subseteq BOOLEAN
          /\ l.inputs \cup l.confkey \cup l.conf
               \subseteq {"caps", "start", "prv key", "dev key"}
          /\ l.closing \in 0..3 /\ l.txid \in 0..255
          /\ Cardinality(PendingAck(l)) <= 1
          /\ \A n \in DOMAIN l.queue :
               /\ l.queue[n].kind \in Ctl \cup {"seg", "ack", "cancelled"}
               /\ l.queue[n].kind = "seg" => l.queue[n].seg <= LastSeg(l.queue[n].pdu.type)
  /\ {addr, success} \subseteq 0..link["prv"].alloc - 1
  /\ inprov \in BOOLEAN /\ links \in 0..MaxLinks

(***************************************************************************)
(* The provisioner's prov_random and prov_complete: when it finds the      *)
(* device verified, the device has the same key, and has it still when the *)
(* link ends with success; then the device is a node with the address it   *)
(* was given.  This holds whatever was lost, timed out or failed on this   *)
(* and earlier links; without a network key only the first case arises.    *)
(***************************************************************************)
Agreement ==
  [][/\ (met' # met \/ success' # success) =>
          link'["dev"].confkey = link'["prv"].confkey
     /\ success' # success => addr' = success']_vars

\* The acknowledgements that l has to send.
Acks(l) == {a \in {l.queue[n] : n \in DOMAIN l.queue} : IsAck(a)}

(***************************************************************************)
(* gen_prov_start acknowledges a PDU it has seen before, gen_prov_recv one *)
(* it has handled: no side acknowledges a PDU that it did not act on.      *)
(* After close_link, which leaves prev_id as it is, it may, and so may a   *)
(* side that has seen none the one with the id 0xff: see README.           *)
(***************************************************************************)
AckMeansHandled ==
  [][\A s \in Sides :
       ~link[s].closed =>
         \A a \in Acks(link'[s]) \ Acks(link[s]) : a.xact # XACT_NVAL =>
           [by |-> s, link |-> a.link, xact |-> a.xact] \in handled']_vars

(***************************************************************************)
(* A link does not hold the device: it ends, or the device is configured.  *)
(* This is so on the boards on which _genie_reset_prov resets the link.    *)
(***************************************************************************)
LinkEnds ==
  link["dev"].active ~> ~link["dev"].active \/ (addr # 0 /\ ~inprov)

\* Neither side has anything to send, to repeat or to compute.
Idle == Quiet /\ \A s \in Sides : ~Waits(link[s]) /\ ~link[s].busy

\* The provisioner has come as far as it can: without a network key, to the
\* verification of the device.
Over == success # 0 \/ (~netkey /\ met # 0)

(***************************************************************************)
(* Retransmission and acknowledgement make up for losses: with no more of  *)
(* them than a PDU has tries, with buffers and keys, and no timeout, the   *)
(* two sides do not come to wait for each other.  The first link ends, and *)
(* not before the last step of which the provisioner is capable: success   *)
(* with a network key, otherwise the verification of the device.           *)
(***************************************************************************)
Completes ==
  links = 1 /\ lost <= Tries /\ fails = 0 /\ ~fired /\ Idle =>
    ~link["prv"].active /\ Over
=============================================================================
