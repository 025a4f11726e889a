---------------------------- MODULE Friendship ----------------------------
(***************************************************************************)
(* A Friend (friend.c) and its Low Power Node (lpn.c).  The Friend queues  *)
(* what is addressed to the node; the node sleeps, polls and receives one  *)
(* PDU per poll, and an alternating bit in the poll tells the Friend       *)
(* whether the last one arrived.                                           *)
(*                                                                         *)
(* A PDU can be heard while the Friend's advertiser has it on the air; a   *)
(* request of the node arrives when its advertiser starts it, or is lost.  *)
(* Timers run out in any order, except that one of a second or more        *)
(* outlasts what the advertiser of its device still has to send.  The      *)
(* Friend has one context and the node one group.  CONFIG_BT_MESH_LPN_AUTO *)
(* and CONFIG_BT_MESH_LPN_ESTABLISHMENT are set, as in mesh_config.h.      *)
(***************************************************************************)
EXTENDS Integers, Sequences

CONSTANTS
  MaxMsg,         \* bound: PDUs that others send to the node
  MaxRequests,    \* bound: values of lpn->counter for which the node asks
  MaxCalls,       \* bound: calls of the node's application
  Pool,           \* FRIEND_BUF_COUNT
  Attempts,       \* REQ_RETRY_TIMES_MAX
  ClearAttempts,  \* CLEAR_ATTEMPTS
  MayFail,        \* bt_mesh_ctl_send may find no buffer
  Misled          \* the Friend's address with its two bytes swapped is unicast
                  \* and not the node's: lpn.c sends prev_addr in the CPU's
                  \* byte order and friend.c reads it as big endian

ASSUME FriendshipAssumption ==
  /\ MaxMsg \in Nat /\ MaxRequests \in Nat /\ MaxCalls \in Nat
  /\ Pool \in Nat /\ Pool >= 3
  /\ Attempts \in Nat \ {0} /\ ClearAttempts \in 1..2 * Attempts
  /\ {MayFail, Misled} \subseteq BOOLEAN

Msg == 1..MaxMsg

\* Values of lpn->counter, which also stand for the credentials they give.
Counter == 0..MaxRequests
None == -1

\* Transactions and sequence numbers, reused when nobody holds them.  Each call
\* of the application can leave one more request that holds one.
Num == 0..5 + MaxCalls

Pdu == [kind : {"none", "offer", "update", "data", "confirm"},
        id : Counter \cup Num \cup Msg \cup {None}]
NoPdu == [kind |-> "none", id |-> None]

\* Requests of the node; key is the friendship whose credentials protect it.
Request == [op : {"req", "poll", "add", "rem", "clear", "clearing"},
            arg : Counter \cup Num, key : Counter \cup {None}]

VARIABLES
  f,         \* the Friend's context and advertiser
  l,         \* the node's bt_mesh.lpn, its group and its advertiser
  answer,    \* counter of a Friend Clear Confirm under way, or None
  sent,      \* messages for the node so far
  got,       \* history: the messages the node received
  calls,     \* calls of the application so far
  slips,     \* history: known ways to go wrong that happened
  twice      \* history: a PDU heard again has passed for an answer

vars == <<f, l, answer, sent, got, calls, slips, twice>>

\* A number that no PDU of this kind has which the node may still hear.
Fresh(kind, S) ==
  CHOOSE n \in Num : [kind |-> kind, id |-> n] \notin {f.last, f.air}
                       /\ n \notin S

-----------------------------------------------------------------------------
(***************************************************************************)
(* The Friend.                                                             *)
(***************************************************************************)
NoFriendship ==
  [valid |-> FALSE, est |-> FALSE, fsn |-> 0, last |-> NoPdu,
   sendLast |-> FALSE, pendBuf |-> FALSE, pendReq |-> FALSE,
   queue |-> <<>>, timer |-> "off", key |-> None, sub |-> FALSE,
   air |-> NoPdu, airKey |-> None]

\* friend_clear: send_last and a PDU that is on the air stay.
FriendClear(x) ==
  [NoFriendship EXCEPT !.sendLast = x.sendLast,
                       !.air = x.air, !.airKey = x.airKey]

\* No buffer of friend_buf_pool is free.
Exhausted(x) == Len(x.queue) + (IF x.last = NoPdu THEN 0 ELSE 1) = Pool

\* friend_buf_alloc, discard_buffer: without a buffer the oldest PDU goes.
Alloc(x) == IF Exhausted(x) THEN [x EXCEPT !.queue = Tail(@)] ELSE x

\* enqueue_buf.
Enqueue(x, p) == [Alloc(x) EXCEPT !.queue = Append(@, p)]

\* enqueue_offer, enqueue_sub_cfm: the PDU takes the place of last.
SetLast(x, p) == [Alloc(x) EXCEPT !.last = p, !.sendLast = TRUE]

\* enqueue_update.
EnqueueUpdate(x) ==
  Enqueue(x, [kind |-> "update", id |-> Fresh("update", {})])

(***************************************************************************)
(* bt_mesh_friend_req.  A request that names a previous friend is looked   *)
(* up by that address, as the Friend reads it; unless that is not unicast, *)
(* or the node's own by chance, the context of the node is not found.      *)
(***************************************************************************)
FriendReq(x, counter, again) ==
  IF x.valid /\ again /\ Misled THEN x
  ELSE SetLast([(IF x.valid THEN FriendClear(x) ELSE x)
                  EXCEPT !.valid = TRUE, !.key = counter, !.timer = "offer"],
               [kind |-> "offer", id |-> counter])

\* friend_recv_delay.
RecvDelay(x) == [x EXCEPT !.pendReq = TRUE, !.timer = "recv"]

\* Plausible slip: the bit of the poll is not compared.
FriendPollForgets(x, fsn) ==
  LET z == [RecvDelay(x) EXCEPT !.est = TRUE, !.last = NoPdu, !.fsn = fsn]
  IN  IF x.queue = <<>> THEN EnqueueUpdate(z) ELSE z

\* bt_mesh_friend_poll.
FriendPoll(x, fsn) ==
  LET y == [RecvDelay(x) EXCEPT !.est = TRUE]
      z == [y EXCEPT !.last = NoPdu, !.fsn = fsn]
  IN  IF fsn = x.fsn /\ x.last # NoPdu THEN [y EXCEPT !.sendLast = TRUE]
      ELSE IF x.queue = <<>> THEN EnqueueUpdate(z)
      ELSE z

\* bt_mesh_friend_sub_add, bt_mesh_friend_sub_rem and enqueue_sub_cfm.
FriendSub(x, op, xact) ==
  [SetLast(RecvDelay(x), [kind |-> "confirm", id |-> xact])
     EXCEPT !.sub = (op = "add")]

\* Plausible slip: a request is served although a buffer waits to be sent.
FriendRecvBusy(x, r) ==
  CASE r.op = "req" -> FriendReq(x, r.arg, l.again)
    [] r.op = "clear" -> FriendClear(x)
    [] OTHER ->
         IF ~x.valid \/ r.key # x.key THEN x
         ELSE IF r.op = "poll" THEN FriendPoll(x, r.arg)
         ELSE IF x.est THEN FriendSub(x, r.op, r.arg)
         ELSE x

\* What request r makes of the Friend's context.
FriendRecv(x, r) ==
  CASE r.op = "req" -> FriendReq(x, r.arg, l.again)
    [] r.op = "clear" -> FriendClear(x)
    [] OTHER ->
         IF ~x.valid \/ x.pendBuf \/ r.key # x.key THEN x
         ELSE IF r.op = "poll" THEN FriendPoll(x, r.arg)
         ELSE IF x.est THEN FriendSub(x, r.op, r.arg)
         ELSE x

\* friend_timeout, without the assertion.
SendBuf(x) == [x EXCEPT !.pendReq = FALSE, !.pendBuf = TRUE]

FriendExpire(x) ==
  LET y == [x EXCEPT !.timer = "off"]
  IN  IF x.sendLast /\ x.last # NoPdu
        THEN SendBuf([y EXCEPT !.sendLast = FALSE])
      ELSE IF (x.est /\ ~x.pendReq) \/ x.queue = <<>>
        THEN FriendClear(y)
      ELSE SendBuf([y EXCEPT !.last = Head(x.queue), !.queue = Tail(@)])

\* buf_send_start: an offer is sent once.
SendStart(x) ==
  [x EXCEPT !.pendBuf = FALSE, !.air = x.last, !.airKey = x.key,
            !.last = IF x.est THEN @ ELSE NoPdu]

\* Plausible slip: no wait for the next poll.
SendEndIdle(x) == [x EXCEPT !.air = NoPdu, !.airKey = None]

\* buf_send_end.
SendEnd(x) ==
  [x EXCEPT !.air = NoPdu, !.airKey = None,
            !.timer = IF x.pendReq THEN @
                      ELSE IF x.est THEN "poll" ELSE "first"]

-----------------------------------------------------------------------------
(***************************************************************************)
(* The node.  An operator with a parameter ok stands for a function that   *)
(* sends: ok says whether bt_mesh_ctl_send finds a buffer.                 *)
(***************************************************************************)
SendReq(x, op, arg, ok) ==
  IF ok THEN [x EXCEPT !.tx = Append(@, [op |-> op, arg |-> arg,
                                         key |-> x.key])]
  ELSE x

\* send_friend_poll.
SendFriendPoll(x, ok) ==
  IF x.sent = "poll" THEN x
  ELSE IF x.sent # "none" THEN [x EXCEPT !.pendPoll = TRUE]
  ELSE IF ~ok THEN x
  ELSE SendReq([x EXCEPT !.pendPoll = FALSE, !.sent = "poll"],
               "poll", x.fsn, TRUE)

\* sub_update for one group; a transaction number is not used twice.
SubUpdate(x, op, ok) ==
  LET wanted == x.group /\ IF op = "add" THEN ~x.added ELSE x.toRemove
      xact == Fresh("confirm", {x.tx[n].arg : n \in 1..Len(x.tx)})
  IN  IF x.sent # "none" THEN x
      ELSE IF ~wanted \/ ~ok THEN [x EXCEPT !.pending = FALSE]
      ELSE SendReq([x EXCEPT !.pending = TRUE, !.sent = op, !.xact = xact],
                   op, xact, TRUE)

\* The groups_changed block of the two handlers below.
SubSync(x, ok) ==
  LET y == SubUpdate(SubUpdate(x, "add", ok), "rem", ok)
  IN  IF ~x.changed THEN x
      ELSE [y EXCEPT !.changed = (y.sent # "none")]

\* Plausible slip: the poll timer is not started.
PollNever(x) == x

\* Their end: without a request under way the node waits for its poll time.
PollLater(x) == IF x.sent = "none" THEN [x EXCEPT !.timer = TRUE] ELSE x

\* Plausible slip: the groups of the old friendship count as added in the next.
CleanupKeepsAdded(x, success) ==
  [x EXCEPT !.again = ~success /\ x.key # None, !.key = None, !.fsn = 0,
            !.attempts = 0, !.sent = "none", !.est = FALSE,
            !.changed = TRUE, !.st = "enabled", !.timer = TRUE]

\* clear_friendship when the clearing is over; success is clear_success.
Cleanup(x, success) ==
  [x EXCEPT !.again = ~success /\ x.key # None, !.key = None, !.fsn = 0,
            !.attempts = 0, !.sent = "none", !.est = FALSE,
            !.added = FALSE, !.pending = FALSE, !.toRemove = FALSE,
            !.changed = TRUE, !.st = "enabled", !.timer = TRUE]

\* clear_friendship(false, false).
ClearFriendship(x, ok) ==
  IF x.est /\ x.attempts < ClearAttempts
    THEN SendReq(x, "clear", x.counter, ok)
    ELSE Cleanup(x, FALSE)

\* Plausible slip: the bit is counted up and not wrapped.
ResponseWide(x) ==
  [x EXCEPT !.fsn = IF x.sent = "poll" THEN @ + 1 ELSE @,
            !.timer = FALSE, !.st = "established", !.attempts = 0,
            !.sent = "none"]

\* friend_response_received.
Response(x) ==
  [x EXCEPT !.fsn = IF x.sent = "poll" THEN 1 - @ ELSE @,
            !.timer = FALSE, !.st = "established", !.attempts = 0,
            !.sent = "none"]

\* bt_mesh_lpn_msg_received, as the end of bt_mesh_trans_recv calls it.
MsgReceived(x, ok) ==
  IF x.est /\ x.st = "waitupdate" /\ x.sent = "poll"
    THEN SendFriendPoll(Response(x), ok)
    ELSE x

\* bt_mesh_lpn_friend_offer.
LpnOffer(x, id, ok) ==
  IF ~ok /\ x.sent = "none" THEN [x EXCEPT !.timer = FALSE]
  ELSE [SendFriendPoll([x EXCEPT !.timer = FALSE,
                                 !.key = IF id = x.counter THEN id ELSE None],
                       TRUE)
          EXCEPT !.st = "waitupdate", !.counter = x.counter + 1]

\* bt_mesh_lpn_friend_update.
LpnUpdate(x, ok) ==
  PollLater(SubSync(Response([x EXCEPT !.est = TRUE]), ok))

\* Plausible slip: a confirmed removal leaves the group among those added.
LpnSubCfmKeeps(x, ok) ==
  LET y == IF x.sent = "add"
             THEN [x EXCEPT !.added = @ \/ x.pending, !.pending = FALSE]
             ELSE [x EXCEPT !.pending = FALSE, !.toRemove = @ /\ ~x.pending]
      z == SubSync(Response(y), ok)
  IN  PollLater(IF z.pendPoll THEN SendFriendPoll(z, ok) ELSE z)

\* bt_mesh_lpn_friend_sub_cfm.
LpnSubCfm(x, ok) ==
  LET y == IF x.sent = "add"
             THEN [x EXCEPT !.added = @ \/ x.pending, !.pending = FALSE]
             ELSE [x EXCEPT !.added = @ /\ ~x.pending, !.pending = FALSE,
                            !.group = @ /\ ~(x.pending /\ x.toRemove),
                            !.toRemove = @ /\ ~x.pending]
      z == SubSync(Response(y), ok)
  IN  PollLater(IF z.pendPoll THEN SendFriendPoll(z, ok) ELSE z)

\* bt_mesh_trans_recv with a PDU of the Friend that the node can decrypt.
LpnRecv(x, p, ok) ==
  CASE p.kind = "offer" -> IF x.st = "waitoffer" THEN LpnOffer(x, p.id, ok) ELSE x
    [] p.kind = "update" -> IF x.sent = "poll" THEN LpnUpdate(x, ok)
                            ELSE MsgReceived(x, ok)
    [] p.kind = "confirm" -> IF x.sent \in {"add", "rem"} /\ p.id = x.xact
                             THEN LpnSubCfm(x, ok) ELSE MsgReceived(x, ok)
    [] p.kind = "data" -> MsgReceived(x, ok)

\* update_timeout.
UpdateTimeout(x, ok) ==
  IF x.est THEN [x EXCEPT !.st = "established", !.timer = TRUE]
  ELSE IF x.attempts < 2 * Attempts /\ ok
    THEN SendFriendPoll([x EXCEPT !.sent = "none"], TRUE)
    ELSE ClearFriendship(x, ok)

\* lpn_timeout.
LpnExpire(x, ok) ==
  CASE x.st = "clear" -> ClearFriendship(x, ok)
    [] x.st \in {"timer", "enabled"} ->
         SendReq([x EXCEPT !.st = "enabled"], "req", x.counter, ok)
    [] x.st = "reqwait" -> [x EXCEPT !.st = "waitoffer", !.timer = TRUE]
    [] x.st = "waitoffer" ->
         [x EXCEPT !.st = "enabled", !.timer = TRUE,
                   !.counter = x.counter + 1]
    [] x.st = "established" ->
         LET y == [x EXCEPT !.sent = "none"] IN
         IF x.attempts >= Attempts
           THEN ClearFriendship([x EXCEPT !.attempts = 0], ok)
         ELSE IF x.sent \in {"none", "poll"} THEN SendFriendPoll(y, ok)
         ELSE SubUpdate(y, x.sent, ok)
    [] x.st = "recvdelay" -> [x EXCEPT !.st = "waitupdate", !.timer = TRUE]
    [] x.st = "waitupdate" -> UpdateTimeout(x, ok)

\* friend_req_sent, req_sent and friend_clear_sent, the last one at the end.
ReqSent(x, op) ==
  LET y == [x EXCEPT !.timer = TRUE]
      count == IF x.attempts < 2 * Attempts THEN x.attempts + 1
               ELSE x.attempts
  IN  CASE op = "req" -> [y EXCEPT !.st = "reqwait"]
        [] op \in {"poll", "add", "rem"} ->
             [y EXCEPT !.st = "recvdelay", !.attempts = count]
        [] op = "clearing" -> [y EXCEPT !.st = "clear", !.attempts = count]

-----------------------------------------------------------------------------
\* Whether a send succeeds; bound: one fails.
Outcomes == IF MayFail /\ "send" \notin slips THEN BOOLEAN ELSE {TRUE}

\* A failed send, remembered.
Failed(ok) == IF ok THEN {} ELSE {"send"}

\* The PDUs the node's message cache must recognise if they come again.
Remember(x, S) == S \cap {x.last, x.air}

\* A Friend step changes f and drops what cannot come again from the cache.
FriendStep(x) ==
  /\ f' = x
  /\ l' = [l EXCEPT !.heard = Remember(x, @)]

\* friend_timeout.
FriendTimer ==
  /\ f.timer # "off"
  /\ f.timer \in {"poll", "first"} => ~f.pendBuf /\ f.air = NoPdu
  /\ FriendStep(FriendExpire(f))
  /\ UNCHANGED <<answer, sent, got, calls, slips, twice>>

\* The advertiser starts the PDU that waits.
FriendSendStart ==
  /\ f.pendBuf /\ f.air = NoPdu
  /\ FriendStep(SendStart(f))
  /\ UNCHANGED <<answer, sent, got, calls, slips, twice>>

FriendSendEnd ==
  /\ f.air # NoPdu
  /\ FriendStep(SendEnd(f))
  /\ UNCHANGED <<answer, sent, got, calls, slips, twice>>

\* bt_mesh_friend_enqueue_rx or _tx with an unsegmented PDU for the node.
FriendEnqueue ==
  /\ sent < MaxMsg /\ f.est
  /\ sent' = sent + 1
  /\ FriendStep(Enqueue(f, [kind |-> "data", id |-> sent + 1]))
  /\ UNCHANGED <<answer, got, calls, slips, twice>>

(***************************************************************************)
(* The node hears what is on the air, in the states in which it listens.   *)
(* A PDU that comes again is dropped if the message cache still has it (no *)
(* step); the cache is a ring of two entries, so other traffic may have    *)
(* displaced it, and then the PDU passes for an answer, though its payload *)
(* never gets past the replay list.                                        *)
(***************************************************************************)
LpnHears ==
  /\ f.air # NoPdu
  /\ l.st \in {"waitoffer", "waitupdate", "clear"}
  /\ f.air.kind # "offer" => f.airKey = l.key
  /\ \E ok \in Outcomes :
       /\ l' = [LpnRecv(l, f.air, ok)
                  EXCEPT !.heard = Remember(f, @ \cup {f.air})]
       /\ slips' = slips \cup Failed(ok)
       /\ twice' = (twice \/ (f.air \in l.heard /\ LpnRecv(l, f.air, ok) # l))
  /\ got' = IF f.air.kind = "data" /\ f.air \notin l.heard
              THEN Append(got, f.air.id) ELSE got
  /\ UNCHANGED <<f, answer, sent, calls>>

\* bt_mesh_lpn_friend_clear_cfm, or the confirmation is lost.
LpnClearCfm ==
  /\ answer # None
  /\ answer' = None
  /\ l' \in {l, IF l.st = "clear" /\ answer = l.counter
                  THEN Cleanup(l, TRUE) ELSE l}
  /\ UNCHANGED <<f, sent, got, calls, slips, twice>>

\* lpn_timeout.
LpnTimer ==
  /\ l.timer
  /\ l.st \in {"timer", "enabled", "waitoffer", "clear"} => l.tx = <<>>
  /\ l.st \in {"timer", "enabled"} => l.counter < MaxRequests
  /\ \E ok \in Outcomes :
       /\ l' = LpnExpire([l EXCEPT !.timer = FALSE], ok)
       /\ slips' = slips \cup Failed(ok)
  /\ UNCHANGED <<f, answer, sent, got, calls, twice>>

(***************************************************************************)
(* The node's advertiser starts a request, which reaches the Friend        *)
(* (bt_mesh_friend_req, _poll, _sub_add, _sub_rem, _clear) or not, and     *)
(* calls back.  The callback of a Friend Clear comes at its end.           *)
(***************************************************************************)
LpnSend ==
  /\ l.tx # <<>>
  /\ LET r == Head(l.tx)
         x == IF r.op = "clear"
                THEN [l EXCEPT !.tx = <<[r EXCEPT !.op = "clearing"]>> \o Tail(@)]
                ELSE ReqSent([l EXCEPT !.tx = Tail(@)], r.op)
     IN  \/ /\ r.op # "clearing"
            /\ f' = FriendRecv(f, r)
            /\ answer' = IF r.op = "clear" THEN r.arg ELSE answer
            /\ l' = [x EXCEPT !.heard = Remember(f', @)]
         \/ /\ l' = x
            /\ UNCHANGED <<f, answer>>
  /\ UNCHANGED <<sent, got, calls, slips, twice>>

\* bt_mesh_lpn_poll, which the application and the transport layer call.
LpnPoll ==
  /\ calls < MaxCalls /\ l.est
  /\ \E ok \in Outcomes :
       /\ l' = SendFriendPoll(l, ok)
       /\ slips' = slips \cup Failed(ok)
  /\ calls' = calls + 1
  /\ UNCHANGED <<f, answer, sent, got, twice>>

\* bt_mesh_lpn_group_add.
LpnGroupAdd ==
  /\ calls < MaxCalls
  /\ \E ok \in Outcomes :
       LET x == IF l.group THEN [l EXCEPT !.toRemove = FALSE]
                ELSE [l EXCEPT !.group = TRUE, !.changed = TRUE]
       IN  /\ l' = IF l.est /\ l.sent = "none"
                     THEN SubUpdate(x, "add", ok) ELSE x
           /\ slips' = slips \cup Failed(ok)
                         \cup IF l.toRemove /\ l.sent = "rem" THEN {"readd"}
                              ELSE {}
  /\ calls' = calls + 1
  /\ UNCHANGED <<f, answer, sent, got, twice>>

\* bt_mesh_lpn_group_del.
LpnGroupDel ==
  /\ calls < MaxCalls /\ l.group
  /\ \E ok \in Outcomes :
       LET x == IF l.added \/ l.pending
                  THEN [l EXCEPT !.toRemove = TRUE, !.changed = TRUE]
                  ELSE [l EXCEPT !.group = FALSE]
       IN  /\ l' = IF l.est /\ l.sent = "none"
                     THEN SubUpdate(x, "rem", ok) ELSE x
           /\ slips' = slips \cup Failed(ok)
  /\ calls' = calls + 1
  /\ UNCHANGED <<f, answer, sent, got, twice>>

\* bt_mesh_lpn_init and bt_mesh_friend_init; a model subscribed to the group.
Init ==
  /\ f = NoFriendship
  /\ l = [st |-> "timer", timer |-> TRUE, est |-> FALSE, sent |-> "none",
          pendPoll |-> FALSE, fsn |-> 0, attempts |-> 0, counter |-> 0,
          key |-> None, again |-> FALSE, xact |-> 0, group |-> TRUE,
          added |-> FALSE, pending |-> FALSE, toRemove |-> FALSE,
          changed |-> TRUE, heard |-> {}, tx |-> <<>>]
  /\ answer = None /\ sent = 0 /\ got = <<>> /\ calls = 0 /\ slips = {}
  /\ twice = FALSE

Next ==
  \/ FriendTimer \/ FriendSendStart \/ FriendSendEnd \/ FriendEnqueue
  \/ LpnHears \/ LpnClearCfm \/ LpnTimer \/ LpnSend \/ LpnPoll
  \/ LpnGroupAdd \/ LpnGroupDel

Fairness ==
  /\ WF_vars(FriendTimer) /\ WF_vars(FriendSendStart)
  /\ WF_vars(FriendSendEnd)
  /\ WF_vars(LpnTimer) /\ WF_vars(LpnSend)

Spec == Init /\ [][Next]_vars /\ Fairness

-----------------------------------------------------------------------------
\* The type invariant: every part of the state keeps its shape.
TypeOK ==
  /\ f \in [valid : BOOLEAN, est : BOOLEAN, fsn : {0, 1}, last : Pdu,
            sendLast : BOOLEAN, pendBuf : BOOLEAN, pendReq : BOOLEAN,
            queue : Seq(Pdu), timer : {"off", "offer", "recv", "poll", "first"},
            key : Counter \cup {None}, sub : BOOLEAN, air : Pdu,
            airKey : Counter \cup {None}]
  /\ Len(f.queue) <= Pool
  /\ l \in [st : {"timer", "enabled", "reqwait", "waitoffer", "established",
                  "recvdelay", "waitupdate", "clear"},
            timer : BOOLEAN, est : BOOLEAN,
            sent : {"none", "poll", "add", "rem"}, pendPoll : BOOLEAN,
            fsn : {0, 1}, attempts : 0..2 * Attempts, counter : Counter,
            key : Counter \cup {None}, again : BOOLEAN, xact : Num,
            group : BOOLEAN, added : BOOLEAN, pending : BOOLEAN,
            toRemove : BOOLEAN, changed : BOOLEAN, heard : SUBSET Pdu,
            tx : Seq(Request)]
  /\ answer \in Counter \cup {None} /\ sent \in 0..MaxMsg /\ got \in Seq(Msg)
  /\ calls \in 0..MaxCalls /\ slips \subseteq {"send", "readd"}
  /\ twice \in BOOLEAN

\* The message in p, if the node has still to receive it.
Letter(p) == IF p.kind = "data" /\ p \notin l.heard THEN <<p.id>> ELSE <<>>

\* The messages in queue q; only its first PDU can be a Friend Update.
Letters(q) ==
  LET data == IF q # <<>> /\ Head(q).kind = "update" THEN Tail(q) ELSE q
  IN  [n \in 1..Len(data) |-> data[n].id]

\* What the Friend holds, or has on the air, that the node has not received.
Box == (IF f.air = f.last THEN <<>> ELSE Letter(f.air))
         \o (Letter(f.last) \o Letters(f.queue))

Abstract == INSTANCE Mailbox WITH
              box <- Box, open <- f.est, full <- Exhausted(f),
              faulty <- slips # {} \/ twice, put <- sent, got <- got

(***************************************************************************)
(* The Friend queue acts as a mailbox: the node receives every message     *)
(* once and in the order of its arrival, and a message is lost only when   *)
(* the queue is full, then the oldest one that is not being sent, or when  *)
(* the friendship ends, or after a slip or after a PDU that the message    *)
(* cache had forgotten passed for an answer, when it came a second time    *)
(* (bt_mesh_friend_poll, friend_timeout, bt_mesh_lpn_msg_received).        *)
(***************************************************************************)
ActsAsMailbox == Abstract!Spec

(***************************************************************************)
(* friend_timeout never runs while a buffer waits for the advertiser: its  *)
(* assertion on pending_buf, for the timers that are short.                *)
(***************************************************************************)
TimerAssert == f.timer \in {"offer", "recv"} => ~f.pendBuf

(***************************************************************************)
(* The node always has something to wake it up, a timer or a request in    *)
(* its advertiser, unless a send failed or a group came back while its     *)
(* removal was under way (lpn_timeout, req_sent).                          *)
(***************************************************************************)
Awake == l.timer \/ l.tx # <<>> \/ slips # {}

(***************************************************************************)
(* A group the node counts as added is on the Friend's list, as long as    *)
(* both are in the same friendship, no removal is under way and there was  *)
(* no slip (sub_update, bt_mesh_lpn_friend_sub_cfm, friend_sub_add).       *)
(***************************************************************************)
Served ==
  l.est /\ l.added /\ f.est /\ f.key = l.key /\ l.sent # "rem"
    => f.sub \/ slips # {}

\* A PDU that the message cache had forgotten passes for an answer.
HeardAgain == LpnHears /\ f.air \in l.heard /\ l' # l

(***************************************************************************)
(* The Friend never keeps messages for ever: they are received, or the     *)
(* friendship ends (friend_timeout, buf_send_end), unless the node takes   *)
(* PDUs that come again for answers for ever, which reset its count of     *)
(* attempts (friend_response_received).                                    *)
(***************************************************************************)
BoxEmpties == []<>(Box = <<>>) \/ []<><<HeardAgain>>_vars
=============================================================================
