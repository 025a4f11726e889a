-------------------------- MODULE FriendshipProofs --------------------------
(***************************************************************************)
(* Proofs about Friendship, for any number of messages, requests, calls    *)
(* and retries, and a pool of any size.                                    *)
(*                                                                         *)
(* Inv bounds what the node has under way (Loaded), so that every request  *)
(* finds a number of its own, and says that an unused context is empty     *)
(* (Idle), so that the timer of an offer or an answer finds no buffer that *)
(* waits.  Unity, on top of it, relates the two devices as long as there   *)
(* was no slip: the node has something to wake it (Wakes), keys follow the *)
(* node's counter (Together), and a confirmation that may still be heard   *)
(* belongs to the last request for the group (Ordered, Agreed).            *)
(*                                                                         *)
(* Posted, on top of both, follows the messages: what the Friend holds is  *)
(* in order and numbered apart from what the node has heard, and without a *)
(* slip the alternating bit says whether the last PDU was heard.  From it  *)
(* each step has its effect on Box, a step of Mailbox.                     *)
(***************************************************************************)
EXTENDS Friendship, FiniteSetTheorems, SequenceTheorems, TLAPS

\* The PDUs of the Friend: an offer carries a counter, data a message.
Real ==
  {p \in Pdu : /\ p.kind = "none" => p = NoPdu
               /\ p.kind = "offer" => p.id \in Counter
               /\ p.kind = "data" => p.id \in Msg}

\* The requests of the node, each with an argument of its kind.
Subs == {"add", "rem"}

Asked ==
  {r \in Request : /\ r.op \in {"req", "clear", "clearing"} => r.arg \in Counter
                   /\ r.op = "poll" => r.arg \in {0, 1}
                   /\ r.op \in Subs => r.arg \in Num}

Context ==
  [valid : BOOLEAN, est : BOOLEAN, fsn : {0, 1}, last : Real,
   sendLast : BOOLEAN, pendBuf : BOOLEAN, pendReq : BOOLEAN,
   queue : Seq(Real), timer : {"off", "offer", "recv", "poll", "first"},
   key : Counter \cup {None}, sub : BOOLEAN, air : Real,
   airKey : Counter \cup {None}]

Node ==
  [st : {"timer", "enabled", "reqwait", "waitoffer", "established",
         "recvdelay", "waitupdate", "clear"},
   timer : BOOLEAN, est : BOOLEAN, sent : {"none", "poll"} \cup Subs,
   pendPoll : BOOLEAN, fsn : {0, 1}, attempts : 0..2 * Attempts,
   counter : Counter, key : Counter \cup {None}, again : BOOLEAN, xact : Num,
   group : BOOLEAN, added : BOOLEAN, pending : BOOLEAN, toRemove : BOOLEAN,
   changed : BOOLEAN, heard : SUBSET Pdu, tx : Seq(Asked)]

-----------------------------------------------------------------------------
(***************************************************************************)
(* The Friend's context x.                                                 *)
(***************************************************************************)
\* The queue and the last PDU fit into the pool.
Fits(x) ==
  /\ Len(x.queue) <= Pool
  /\ x.last # NoPdu => Len(x.queue) < Pool

\* A context that is not in use is empty.
Idle(x) ==
  ~x.valid => x.last = NoPdu /\ x.queue = <<>> /\ ~x.est /\ ~x.pendBuf

\* What is sent is sent with credentials.
Keyed(x) ==
  /\ x.valid => x.key # None
  /\ x.air # NoPdu => x.airKey # None

FriendOK(x) ==
  /\ x \in Context
  /\ Fits(x) /\ Idle(x) /\ Keyed(x)
  /\ x.timer \in {"offer", "recv"} => ~x.pendBuf

-----------------------------------------------------------------------------
(***************************************************************************)
(* The node's state x after n calls of the application.                    *)
(***************************************************************************)
(***************************************************************************)
(* What can wake the node up, the requests in its advertiser and its       *)
(* timer, are at most two and one for each call; they are one until the    *)
(* friendship of a new key is established.                                 *)
(***************************************************************************)
Loaded(x, n) ==
  /\ Len(x.tx) <= 2 + n
  /\ x.timer \/ x.st = "clear" => Len(x.tx) <= 1 + n
  /\ ~x.est /\ x.key # None => Len(x.tx) <= 1 /\ (x.timer => x.tx = <<>>)
  /\ x.st \in {"waitupdate", "recvdelay"} /\ x.est => x.timer

\* Before a friendship the node has no key, and a Friend Request is alone.
Alone(x) ==
  /\ x.st \in {"waitoffer", "reqwait"} => x.tx = <<>> /\ x.counter < MaxRequests
  /\ x.st \in {"waitoffer", "reqwait", "timer", "enabled"}
       => ~x.est /\ x.sent = "none" /\ x.key = None
  /\ \A i \in 1..Len(x.tx) : x.tx[i].op = "req" =>
       /\ x.st = "enabled" /\ ~x.timer /\ Len(x.tx) = 1
       /\ x.counter < MaxRequests /\ x.tx[i].arg = x.counter

\* An established friendship has a key, and only such a one has groups.
Bound(x) ==
  /\ x.est => x.key # None
  /\ x.st = "established" => x.est
  /\ ~x.est => ~x.added /\ x.sent \notin Subs

NodeOK(x, n) == x \in Node /\ Loaded(x, n) /\ Alone(x) /\ Bound(x)

Others ==
  /\ answer \in Counter \cup {None} /\ sent \in 0..MaxMsg /\ got \in Seq(Msg)
  /\ calls \in 0..MaxCalls /\ slips \subseteq {"send", "readd"}
  /\ twice \in BOOLEAN

\* The inductive invariant behind the types and the assertion.
Inv == FriendOK(f) /\ NodeOK(l, calls) /\ Others

-----------------------------------------------------------------------------
LEMMA Constants ==
  /\ MaxMsg \in Nat /\ MaxRequests \in Nat /\ MaxCalls \in Nat
  /\ Pool \in Nat /\ Pool >= 3
  /\ Attempts \in Nat /\ Attempts > 0 /\ 2 * Attempts \in Nat
  /\ ClearAttempts \in 1..2 * Attempts
BY FriendshipAssumption

LEMMA PoolSize == Pool \in Nat /\ Pool >= 3
BY FriendshipAssumption

LEMMA TwoMore ==
  ASSUME NEW S, IsFiniteSet(S), NEW a, NEW b
  PROVE  /\ IsFiniteSet(S \cup {a} \cup {b})
         /\ Cardinality(S \cup {a} \cup {b}) \in Nat
         /\ Cardinality(S \cup {a} \cup {b}) <= Cardinality(S) + 2
<1> DEFINE U == S \cup {a}
<1>1. Cardinality(S) \in Nat
  BY FS_CardinalityType
<1>2. IsFiniteSet(U) /\ Cardinality(U) \in Nat /\ Cardinality(U) <= Cardinality(S) + 1
  BY <1>1, FS_AddElement, SMTT(30)
<1>3. /\ IsFiniteSet(U \cup {b})
      /\ Cardinality(U \cup {b}) = IF b \in U THEN Cardinality(U)
                                  ELSE Cardinality(U) + 1
  <2> HIDE DEF U
  <2> QED
    BY <1>2, FS_AddElement
<1>4. QED
  BY <1>1, <1>2, <1>3

(***************************************************************************)
(* A fresh number exists: at most two PDUs can still be heard, and the     *)
(* node's advertiser holds at most two requests, and one for each call.    *)
(***************************************************************************)
LEMMA FreshExists ==
  ASSUME f \in Context, NEW kind, NEW S,
         IsFiniteSet(S), Cardinality(S) <= 2 + MaxCalls
  PROVE  /\ Fresh(kind, S) \in Num
         /\ Fresh(kind, S) \notin S
         /\ [kind |-> kind, id |-> Fresh(kind, S)] \notin {f.last, f.air}
<1> DEFINE a == f.last.id
           b == f.air.id
           T == S \cup {a} \cup {b}
<1>0. MaxCalls \in Nat
  BY Constants
<1>1. Cardinality(S) \in Nat
  BY FS_CardinalityType
<1>3. IsFiniteSet(T) /\ Cardinality(T) \in Nat /\ Cardinality(T) <= 4 + MaxCalls
  <2> HIDE DEF a, b
  <2>1. IsFiniteSet(T) /\ Cardinality(T) \in Nat
        /\ Cardinality(T) <= Cardinality(S) + 2
    BY TwoMore, Zenon
  <2> HIDE DEF T
  <2>2. QED
    BY <1>0, <1>1, <2>1
<1>4. Cardinality(Num) = 6 + MaxCalls
  BY <1>0, FS_Interval DEF Num
<1>5. ~ Num \subseteq T
  <2>1. SUFFICES ASSUME Num \in SUBSET T PROVE FALSE
    OBVIOUS
  <2>2. Cardinality(Num) <= Cardinality(T)
    BY <2>1, <1>3, FS_Subset
  <2>3. QED
    BY <2>2, <1>0, <1>3, <1>4
<1>6. PICK n \in Num : n \notin T
  BY <1>5
<1>7. [kind |-> kind, id |-> n] \notin {f.last, f.air} /\ n \notin S
  <2>1. n # a /\ n # b /\ n \notin S
    BY <1>6
  <2>2. [kind |-> kind, id |-> n].id = n
    OBVIOUS
  <2>3. QED
    BY <2>1, <2>2
<1>8. QED
  BY <1>6, <1>7 DEF Fresh

\* The arguments of a sequence of requests are no more than the requests.
LEMMA ArgsFinite ==
  ASSUME NEW q \in Seq(Asked)
  PROVE  LET S == {q[n].arg : n \in 1..Len(q)}
         IN  IsFiniteSet(S) /\ Cardinality(S) <= Len(q)
<1> DEFINE S == {q[n].arg : n \in 1..Len(q)}
           g == [n \in 1..Len(q) |-> q[n].arg]
<1>1. Len(q) \in Nat
  BY LenProperties
<1>2. g \in Surjection(1..Len(q), S)
  BY DEF Surjection
<1>3. IsFiniteSet(1..Len(q)) /\ Cardinality(1..Len(q)) = Len(q)
  BY <1>1, FS_Interval
<1>4. QED
  BY <1>2, <1>3, FS_Surjection

-----------------------------------------------------------------------------
(***************************************************************************)
(* The operators of the Friend keep its context well formed.               *)
(***************************************************************************)
LEMMA NothingIsReal ==
  /\ NoPdu \in Real
  /\ NoPdu.kind = "none"
BY DEF Real, Pdu, NoPdu

LEMMA ClearOK ==
  ASSUME NEW x, FriendOK(x)
  PROVE  FriendOK(FriendClear(x)) /\ ~FriendClear(x).pendBuf
<1> DEFINE y == FriendClear(x)
<1>0. None \in Counter \cup {None} /\ <<>> \in Seq(Real)
  OBVIOUS
<1>1. y \in Context
  BY <1>0, NothingIsReal DEF FriendOK, FriendClear, NoFriendship, Context
<1>a. ~y.valid /\ ~y.est /\ ~y.pendBuf /\ y.air = x.air /\ y.airKey = x.airKey
  BY DEF FriendClear, NoFriendship
<1>2. y.last = NoPdu /\ y.queue = <<>>
  BY DEF FriendClear, NoFriendship
<1>3. Fits(y)
  <2> HIDE DEF y
  <2> QED
    BY <1>2, PoolSize DEF Fits
<1>4. QED
  BY <1>1, <1>a, <1>2, <1>3 DEF FriendOK, Idle, Keyed

LEMMA AllocTail ==
  ASSUME NEW x \in Context, Exhausted(x), Len(x.queue) > 0
  PROVE  /\ Tail(x.queue) \in Seq(Real)
         /\ Len(Tail(x.queue)) = Len(x.queue) - 1
         /\ Alloc(x) = [x EXCEPT !.queue = Tail(x.queue)]
<1>1. x.queue \in Seq(Real) /\ x.queue # <<>>
  BY DEF Context
<1>2. Tail(x.queue) \in Seq(Real) /\ Len(Tail(x.queue)) = Len(x.queue) - 1
  BY <1>1, HeadTailProperties
<1>3. Alloc(x) = [x EXCEPT !.queue = Tail(x.queue)]
  BY DEF Alloc
<1>4. QED
  BY <1>2, <1>3

\* Allocation drops the head of the queue, or nothing, and frees a buffer.
LEMMA AllocOK ==
  ASSUME NEW x \in Context, Fits(x)
  PROVE  \E q \in Seq(Real) :
           /\ Alloc(x) = [x EXCEPT !.queue = q]
           /\ q = x.queue \/ (x.queue # <<>> /\ q = Tail(x.queue))
           /\ Len(q) <= Len(x.queue)
           /\ Len(q) < Pool
           /\ x.last # NoPdu => Len(q) < Pool - 1
<1> DEFINE P(q) == /\ q \in Seq(Real)
                   /\ Alloc(x) = [x EXCEPT !.queue = q]
                   /\ q = x.queue \/ (x.queue # <<>> /\ q = Tail(x.queue))
                   /\ Len(q) <= Len(x.queue)
                   /\ Len(q) < Pool
                   /\ x.last # NoPdu => Len(q) < Pool - 1
<1>0. x.queue \in Seq(Real) /\ Len(x.queue) \in Nat
  BY LenProperties DEF Context
<1>1. CASE Exhausted(x)
  <2>1. /\ Len(Tail(x.queue)) < Pool
        /\ x.last # NoPdu => Len(Tail(x.queue)) < Pool - 1
        /\ Len(x.queue) > 0
    <3>1. CASE x.last = NoPdu
      <4>1. Len(x.queue) = Pool
        BY <1>0, <1>1, <3>1, PoolSize DEF Exhausted
      <4>2. Len(x.queue) > 0
        BY <4>1, PoolSize
      <4>3. Len(Tail(x.queue)) = Len(x.queue) - 1
        BY <4>2, <1>1, AllocTail
      <4>4. QED
        BY <4>1, <4>2, <4>3, <3>1, PoolSize
    <3>2. CASE x.last # NoPdu
      <4>1. Len(x.queue) = Pool - 1
        BY <1>0, <1>1, <3>2, PoolSize DEF Exhausted
      <4>2. Len(x.queue) > 0
        BY <4>1, PoolSize
      <4>3. Len(Tail(x.queue)) = Len(x.queue) - 1
        BY <4>2, <1>1, AllocTail
      <4>4. QED
        BY <4>1, <4>2, <4>3, PoolSize
    <3>3. QED
      BY <3>1, <3>2
  <2>2. P(Tail(x.queue))
    BY <2>1, <1>0, <1>1, AllocTail
  <2>3. QED
    BY <2>2
<1>2. CASE ~Exhausted(x)
  <2>1. Alloc(x) = [x EXCEPT !.queue = x.queue]
    BY <1>2 DEF Alloc, Context
  <2>2. /\ Len(x.queue) < Pool
        /\ x.last # NoPdu => Len(x.queue) < Pool - 1
    <3>1. CASE x.last = NoPdu
      <4>1. Len(x.queue) # Pool
        BY <1>0, <1>2, <3>1, PoolSize DEF Exhausted
      <4>2. QED
        BY <4>1, <3>1, <1>0, PoolSize DEF Fits
    <3>2. CASE x.last # NoPdu
      <4>1. Len(x.queue) + 1 # Pool
        BY <1>0, <1>2, <3>2, PoolSize DEF Exhausted
      <4>2. QED
        BY <4>1, <3>2, <1>0, PoolSize DEF Fits
    <3>3. QED
      BY <3>1, <3>2
  <2>3. P(x.queue)
    BY <2>1, <2>2, <1>0
  <2>4. QED
    BY <2>3
<1>3. QED
  BY <1>1, <1>2

LEMMA EnqueueOK ==
  ASSUME NEW x, FriendOK(x), x.valid, NEW p \in Real
  PROVE  FriendOK(Enqueue(x, p))
<1>1. PICK q \in Seq(Real) :
        /\ Alloc(x) = [x EXCEPT !.queue = q]
        /\ Len(q) < Pool
        /\ x.last # NoPdu => Len(q) < Pool - 1
  BY AllocOK DEF FriendOK
<1>2. Append(q, p) \in Seq(Real) /\ Len(Append(q, p)) = Len(q) + 1
      /\ Len(q) \in Nat
  BY AppendProperties, LenProperties
<1> DEFINE y == Enqueue(x, p)
<1>3. y = [x EXCEPT !.queue = Append(q, p)]
  BY <1>1 DEF Enqueue, FriendOK, Context
<1> HIDE DEF y
<1>4. y.last = x.last /\ y.queue = Append(q, p)
  BY <1>3 DEF FriendOK, Context
<1>5. Fits(y)
  BY <1>1, <1>2, <1>4, PoolSize DEF Fits
<1>6. y \in Context /\ Idle(y) /\ Keyed(y)
      /\ (y.timer \in {"offer", "recv"} => ~y.pendBuf)
  BY <1>2, <1>3 DEF FriendOK, Context, Idle, Keyed
<1>7. QED
  BY <1>5, <1>6 DEF FriendOK, y

LEMMA SetLastOK ==
  ASSUME NEW x, FriendOK(x), x.valid, NEW p \in Real
  PROVE  FriendOK(SetLast(x, p))
<1>1. PICK q \in Seq(Real) :
        /\ Alloc(x) = [x EXCEPT !.queue = q]
        /\ Len(q) < Pool
        /\ x.last # NoPdu => Len(q) < Pool - 1
  BY AllocOK DEF FriendOK
<1>2. Len(q) \in Nat
  BY LenProperties
<1> DEFINE y == SetLast(x, p)
<1>3. y = [x EXCEPT !.queue = q, !.last = p, !.sendLast = TRUE]
  BY <1>1 DEF SetLast, FriendOK, Context
<1> HIDE DEF y
<1>4. y.queue = q
  BY <1>3 DEF FriendOK, Context
<1>5. Fits(y)
  BY <1>1, <1>2, <1>4, PoolSize DEF Fits
<1>6. y \in Context /\ Idle(y) /\ Keyed(y)
      /\ (y.timer \in {"offer", "recv"} => ~y.pendBuf)
  BY <1>2, <1>3 DEF FriendOK, Context, Idle, Keyed
<1>7. QED
  BY <1>5, <1>6 DEF FriendOK, y

LEMMA FriendReqOK ==
  ASSUME NEW x, FriendOK(x), NEW counter \in Counter,
         NEW again \in BOOLEAN
  PROVE  FriendOK(FriendReq(x, counter, again))
<1> DEFINE y == IF x.valid THEN FriendClear(x) ELSE x
           z == [y EXCEPT !.valid = TRUE, !.key = counter, !.timer = "offer"]
           p == [kind |-> "offer", id |-> counter]
<1>1. FriendOK(y) /\ ~y.pendBuf
  BY ClearOK DEF FriendOK, Idle
<1>2. counter # None
  BY DEF Counter, None
<1>3. FriendOK(z) /\ z.valid
  <2> HIDE DEF y
  <2> QED
    BY <1>1, <1>2 DEF FriendOK, Context, Fits, Idle, Keyed
<1>4. p \in Real
  BY DEF Real, Pdu
<1>5. FriendOK(SetLast(z, p))
  <2> HIDE DEF z, p
  <2> QED
    BY <1>3, <1>4, SetLastOK
<1>6. QED
  BY <1>5 DEF FriendReq

LEMMA EnqueueUpdateOK ==
  ASSUME f \in Context, NEW x, FriendOK(x), x.valid
  PROVE  FriendOK(EnqueueUpdate(x))
<1>1. Fresh("update", {}) \in Num
  <2>1. IsFiniteSet({}) /\ Cardinality({}) <= 2 + MaxCalls
    BY FS_EmptySet, Constants
  <2>2. QED
    BY <2>1, FreshExists, Zenon
<1>2. [kind |-> "update", id |-> Fresh("update", {})] \in Real
  BY <1>1 DEF Real, Pdu
<1>3. QED
  BY <1>2, EnqueueOK DEF EnqueueUpdate

LEMMA RecvDelayOK ==
  ASSUME NEW x, FriendOK(x), ~x.pendBuf, x.valid
  PROVE  FriendOK(RecvDelay(x)) /\ RecvDelay(x).valid
BY DEF RecvDelay, FriendOK, Context, Fits, Idle, Keyed

LEMMA FriendPollOK ==
  ASSUME f \in Context, NEW x, FriendOK(x),
         ~x.pendBuf, x.valid, NEW fsn \in {0, 1}
  PROVE  FriendOK(FriendPoll(x, fsn))
<1> DEFINE y == [RecvDelay(x) EXCEPT !.est = TRUE]
           z == [y EXCEPT !.last = NoPdu, !.fsn = fsn]
<1>1. FriendOK(y) /\ y.valid
  BY RecvDelayOK DEF FriendOK, Context, Fits, Idle, Keyed
<1>2. FriendOK(z) /\ z.valid
  <2> HIDE DEF y
  <2>1. Len(y.queue) \in Nat
    BY <1>1, LenProperties DEF FriendOK, Context
  <2> QED
    BY <1>1, <2>1, NothingIsReal, PoolSize, ZenonT(40) DEF FriendOK, Context, Fits, Idle, Keyed
<1>3. FriendOK([y EXCEPT !.sendLast = TRUE])
  <2> HIDE DEF y
  <2> QED
    BY <1>1 DEF FriendOK, Context, Fits, Idle, Keyed
<1>4. FriendOK(EnqueueUpdate(z))
  <2> HIDE DEF z
  <2> QED
    BY <1>2, EnqueueUpdateOK
<1>5. QED
  BY <1>2, <1>3, <1>4 DEF FriendPoll

LEMMA FriendSubOK ==
  ASSUME NEW x, FriendOK(x), ~x.pendBuf, x.valid,
         NEW op, NEW xact \in Num
  PROVE  FriendOK(FriendSub(x, op, xact))
<1> DEFINE p == [kind |-> "confirm", id |-> xact]
           y == SetLast(RecvDelay(x), p)
<1>1. p \in Real
  BY DEF Real, Pdu
<1>2. FriendOK(y)
  BY <1>1, RecvDelayOK, SetLastOK
<1>3. FriendOK([y EXCEPT !.sub = (op = "add")])
  <2> HIDE DEF y
  <2> QED
    BY <1>2 DEF FriendOK, Context, Fits, Idle, Keyed
<1>4. QED
  BY <1>3 DEF FriendSub

LEMMA FriendRecvOK ==
  ASSUME FriendOK(f), l.again \in BOOLEAN,
         NEW r \in Asked, r.op # "clearing"
  PROVE  FriendOK(FriendRecv(f, r))
<1>0. f \in Context
  BY DEF FriendOK
<1>1. CASE r.op = "req"
  BY <1>1, FriendReqOK DEF FriendRecv, Asked
<1>2. CASE r.op = "clear"
  BY <1>2, ClearOK DEF FriendRecv
<1>3. CASE r.op = "poll"
  BY <1>0, <1>3, FriendPollOK DEF FriendRecv, Asked
<1>4. CASE r.op \in Subs
  BY <1>0, <1>4, FriendSubOK DEF FriendRecv, Asked, Subs
<1>5. QED
  BY <1>1, <1>2, <1>3, <1>4 DEF Asked, Request, Subs

LEMMA FriendExpireOK ==
  ASSUME NEW x, FriendOK(x)
  PROVE  FriendOK(FriendExpire(x))
<1> DEFINE y == [x EXCEPT !.timer = "off"]
<1>0. FriendOK(y) /\ y.queue = x.queue /\ y \in Context
  BY DEF FriendOK, Context, Fits, Idle, Keyed
<1>1. CASE x.sendLast /\ x.last # NoPdu
  <2>1. FriendExpire(x) = SendBuf([y EXCEPT !.sendLast = FALSE])
    BY <1>1 DEF FriendExpire
  <2>2. x.valid
    BY <1>1 DEF FriendOK, Idle
  <2>3. QED
    BY <1>0, <2>1, <2>2, ZenonT(40) DEF SendBuf, FriendOK, Context, Fits, Idle, Keyed
<1>2. CASE ~(x.sendLast /\ x.last # NoPdu)
           /\ ((x.est /\ ~x.pendReq) \/ x.queue = <<>>)
  <2>1. FriendExpire(x) = FriendClear(y)
    BY <1>2 DEF FriendExpire
  <2>2. QED
    BY <1>0, <2>1, ClearOK
<1>3. CASE ~(x.sendLast /\ x.last # NoPdu)
           /\ ~((x.est /\ ~x.pendReq) \/ x.queue = <<>>)
  <2>1. FriendExpire(x) =
          SendBuf([y EXCEPT !.last = Head(x.queue), !.queue = Tail(x.queue)])
    BY <1>3, <1>0 DEF FriendExpire, Context
  <2>2. x.valid
    BY <1>3 DEF FriendOK, Idle
  <2>3. /\ Head(x.queue) \in Real /\ Tail(x.queue) \in Seq(Real)
        /\ Len(Tail(x.queue)) = Len(x.queue) - 1 /\ Len(x.queue) \in Nat
    <3>1. x.queue \in Seq(Real) /\ x.queue # <<>>
      BY <1>3 DEF FriendOK, Context
    <3>2. QED
      BY <3>1, HeadTailProperties, LenProperties
  <2> DEFINE z == FriendExpire(x)
  <2>4. z.queue = Tail(x.queue)
    BY <2>1, <1>0 DEF SendBuf, Context
  <2>5. z \in Context /\ Idle(z) /\ Keyed(z) /\ z.timer = "off"
    BY <1>0, <2>1, <2>2, <2>3, ZenonT(40) DEF SendBuf, FriendOK, Context, Idle, Keyed
  <2> HIDE DEF z
  <2>6. Fits(z)
    BY <2>3, <2>4, PoolSize DEF Fits, FriendOK
  <2>7. QED
    BY <2>5, <2>6 DEF FriendOK, z
<1>4. QED
  BY <1>1, <1>2, <1>3

LEMMA SendStartOK ==
  ASSUME NEW x, FriendOK(x), x.pendBuf
  PROVE  FriendOK(SendStart(x))
<1>1. Len(x.queue) \in Nat
  BY LenProperties DEF FriendOK, Context
<1>2. QED
  BY <1>1, NothingIsReal, PoolSize DEF SendStart, FriendOK, Context, Fits, Idle, Keyed

LEMMA SendEndOK ==
  ASSUME NEW x, FriendOK(x)
  PROVE  FriendOK(SendEnd(x))
BY NothingIsReal DEF SendEnd, FriendOK, Context, Fits, Idle, Keyed

-----------------------------------------------------------------------------
(***************************************************************************)
(* The operators of the node.                                              *)
(***************************************************************************)
NoReq(q) == \A i \in 1..Len(q) : q[i].op # "req"

LEMMA AppendRequest ==
  ASSUME NEW q \in Seq(Asked), NEW r \in Asked
  PROVE  /\ Append(q, r) \in Seq(Asked)
         /\ Len(q) \in Nat /\ Len(Append(q, r)) = Len(q) + 1
         /\ Append(q, r) # <<>>
         /\ NoReq(q) /\ r.op # "req" => NoReq(Append(q, r))
<1>1. /\ Append(q, r) \in Seq(Asked) /\ Append(q, r) # <<>>
      /\ Len(q) \in Nat /\ Len(Append(q, r)) = Len(q) + 1
      /\ \A i \in 1..Len(q) : Append(q, r)[i] = q[i]
      /\ Append(q, r)[Len(q) + 1] = r
  BY AppendProperties, LenProperties
<1> DEFINE s == Append(q, r)
<1> HIDE DEF s
<1>2. ASSUME NoReq(q), r.op # "req" PROVE NoReq(s)
  <2>1. SUFFICES ASSUME NEW i \in 1..Len(s) PROVE s[i].op # "req"
    BY DEF NoReq
  <2>2. CASE i = Len(q) + 1
    BY <1>1, <1>2, <2>2 DEF s
  <2>3. CASE i # Len(q) + 1
    <3>1. i \in 1..Len(q)
      BY <1>1, <2>1, <2>3 DEF s
    <3>2. s[i] = q[i]
      BY <3>1, <1>1 DEF s
    <3>3. QED
      BY <3>1, <3>2, <1>2 DEF NoReq
  <2>4. QED
    BY <2>2, <2>3
<1>3. QED
  BY <1>1, <1>2 DEF s

\* The requests the node makes up.
LEMMA RequestTypes ==
  ASSUME NEW k \in Counter \cup {None}
  PROVE  /\ \A a \in {0, 1} : [op |-> "poll", arg |-> a, key |-> k] \in Asked
         /\ \A op \in {"req", "clear", "clearing"}, a \in Counter :
              [op |-> op, arg |-> a, key |-> k] \in Asked
         /\ \A op \in Subs, a \in Num :
              [op |-> op, arg |-> a, key |-> k] \in Asked
<1>1. {0, 1} \subseteq Num
  BY Constants DEF Num
<1>2. QED
  BY <1>1 DEF Asked, Request, Subs

\* Node state z has had an answer, and may have sent the next request.
Answered(z, n) ==
  /\ z \in Node /\ z.st = "established" /\ z.est /\ z.key # None
  /\ ~z.timer /\ NoReq(z.tx)
  /\ Len(z.tx) <= 2 + n
  /\ z.sent = "none" => Len(z.tx) <= 1 + n

LEMMA AnsweredOK ==
  ASSUME NEW n \in Nat, NEW z, Answered(z, n)
  PROVE  NodeOK(z, n) /\ NodeOK(PollLater(z), n)
<1>1. Len(z.tx) \in Nat
  BY LenProperties DEF Answered, Node
<1>2. NodeOK(z, n)
  BY <1>1 DEF Answered, NodeOK, Loaded, Alone, Bound, NoReq
<1>3. CASE z.sent = "none"
  <2> DEFINE y == [z EXCEPT !.timer = TRUE]
  <2>1. PollLater(z) = y
    BY <1>3 DEF PollLater
  <2>2. y \in Node /\ y.st = "established" /\ y.est /\ y.tx = z.tx /\ y.key = z.key
    BY DEF Answered, Node
  <2> HIDE DEF y
  <2>3. Len(y.tx) <= 1 + n /\ Len(y.tx) <= 2 + n
    BY <1>1, <1>3, <2>2 DEF Answered
  <2>4. QED
    BY <1>2, <2>1, <2>2, <2>3 DEF Answered, NodeOK, Loaded, Alone, Bound, NoReq
<1>4. QED
  BY <1>2, <1>3 DEF PollLater

LEMMA PollAnswered ==
  ASSUME NEW n \in Nat, NEW z, Answered(z, n), NEW ok \in BOOLEAN
  PROVE  Answered(SendFriendPoll(z, ok), n)
<1> DEFINE r == [op |-> "poll", arg |-> z.fsn, key |-> z.key]
           y == SendFriendPoll(z, ok)
<1>0. z.tx \in Seq(Asked) /\ z.key \in Counter \cup {None} /\ z.fsn \in {0, 1}
  BY DEF Answered, Node
<1>1. r \in Asked /\ r.op = "poll"
  BY <1>0, RequestTypes
<1>2. CASE z.sent # "none" \/ ~ok
  BY <1>2, ZenonT(40) DEF SendFriendPoll, Answered, Node
<1>3. CASE z.sent = "none" /\ ok
  <2>1. y = [z EXCEPT !.pendPoll = FALSE, !.sent = "poll", !.tx = Append(z.tx, r)]
    BY <1>3 DEF SendFriendPoll, SendReq, Answered, Node
  <2> HIDE DEF y, r
  <2>2. /\ Append(z.tx, r) \in Seq(Asked) /\ NoReq(Append(z.tx, r))
        /\ Len(Append(z.tx, r)) = Len(z.tx) + 1 /\ Len(z.tx) \in Nat
    BY <1>0, <1>1, AppendRequest DEF Answered
  <2>3. /\ y \in Node /\ y.st = "established" /\ y.est /\ y.key # None
        /\ ~y.timer /\ y.tx = Append(z.tx, r) /\ y.sent = "poll"
    BY <2>1, <2>2 DEF Answered, Node
  <2>4. Len(y.tx) <= 2 + n
    BY <1>3, <2>2, <2>3 DEF Answered
  <2>5. QED
    BY <2>2, <2>3, <2>4 DEF Answered, y
<1>4. QED
  BY <1>2, <1>3

\* A request for a group has a number of its own.
LEMMA SubRequest ==
  ASSUME f \in Context, NEW x \in Node, Len(x.tx) <= 2 + MaxCalls
  PROVE  LET xact == Fresh("confirm", {x.tx[i].arg : i \in 1..Len(x.tx)})
         IN  /\ xact \in Num
             /\ \A i \in 1..Len(x.tx) : x.tx[i].arg # xact
             /\ [kind |-> "confirm", id |-> xact] \notin {f.last, f.air}
<1> DEFINE S == {x.tx[i].arg : i \in 1..Len(x.tx)}
<1>0. x.tx \in Seq(Asked) /\ Len(x.tx) \in Nat
  BY LenProperties DEF Node
<1>1. IsFiniteSet(S) /\ Cardinality(S) <= Len(x.tx)
  BY <1>0, ArgsFinite
<1>2. \A i \in 1..Len(x.tx) : x.tx[i].arg \in S
  OBVIOUS
<1> HIDE DEF S
<1>3. Cardinality(S) <= 2 + MaxCalls
  BY <1>0, <1>1, FS_CardinalityType, Constants
<1>4. /\ Fresh("confirm", S) \in Num /\ Fresh("confirm", S) \notin S
      /\ [kind |-> "confirm", id |-> Fresh("confirm", S)] \notin {f.last, f.air}
  BY <1>1, <1>3, FreshExists, Zenon
<1>5. QED
  BY <1>2, <1>4 DEF S

\* What sub_update does: nothing, or no request, or one.
LEMMA SubUpdateIs ==
  ASSUME f \in Context, NEW x \in Node, Len(x.tx) <= 2 + MaxCalls,
         NEW op \in Subs, NEW ok \in BOOLEAN
  PROVE  LET y == SubUpdate(x, op, ok)
             wanted == x.group /\ IF op = "add" THEN ~x.added ELSE x.toRemove
         IN  \/ x.sent # "none" /\ y = x
             \/ x.sent = "none" /\ (~wanted \/ ~ok) /\ y = [x EXCEPT !.pending = FALSE]
             \/ /\ x.sent = "none" /\ wanted /\ ok
                /\ \E a \in Num :
                     /\ \A i \in 1..Len(x.tx) : x.tx[i].arg # a
                     /\ [kind |-> "confirm", id |-> a] \notin {f.last, f.air}
                     /\ y = [x EXCEPT !.pending = TRUE, !.sent = op, !.xact = a,
                              !.tx = Append(x.tx, [op |-> op, arg |-> a,
                                                   key |-> x.key])]
<1> DEFINE y == SubUpdate(x, op, ok)
           a == Fresh("confirm", {x.tx[i].arg : i \in 1..Len(x.tx)})
           wanted == x.group /\ IF op = "add" THEN ~x.added ELSE x.toRemove
<1>1. CASE x.sent # "none"
  BY <1>1 DEF SubUpdate
<1>2. CASE x.sent = "none" /\ (~wanted \/ ~ok)
  BY <1>2 DEF SubUpdate
<1>3. CASE x.sent = "none" /\ wanted /\ ok
  <2>1. /\ a \in Num
        /\ \A i \in 1..Len(x.tx) : x.tx[i].arg # a
        /\ [kind |-> "confirm", id |-> a] \notin {f.last, f.air}
    BY SubRequest
  <2>2. y = [x EXCEPT !.pending = TRUE, !.sent = op, !.xact = a,
                      !.tx = Append(x.tx, [op |-> op, arg |-> a, key |-> x.key])]
    BY <1>3 DEF SubUpdate, SendReq, Node
  <2> HIDE DEF a, y, wanted
  <2>3. QED
    BY <1>3, <2>1, <2>2 DEF y, wanted
<1>4. QED
  BY <1>1, <1>2, <1>3

LEMMA SubAnswered ==
  ASSUME f \in Context, NEW n \in 0..MaxCalls, NEW z, Answered(z, n),
         NEW op \in Subs, NEW ok \in BOOLEAN
  PROVE  Answered(SubUpdate(z, op, ok), n)
<1> DEFINE y == SubUpdate(z, op, ok)
<1>0. /\ z \in Node /\ z.tx \in Seq(Asked) /\ Len(z.tx) \in Nat
      /\ z.key \in Counter \cup {None} /\ n \in Nat /\ Len(z.tx) <= 2 + MaxCalls
  BY LenProperties, Constants DEF Answered, Node
<1>1. \/ y = z \/ y = [z EXCEPT !.pending = FALSE]
      \/ /\ z.sent = "none"
         /\ \E a \in Num : y = [z EXCEPT !.pending = TRUE, !.sent = op, !.xact = a,
                               !.tx = Append(z.tx, [op |-> op, arg |-> a,
                                                    key |-> z.key])]
  BY <1>0, SubUpdateIs
<1> HIDE DEF y
<1>2. CASE y = z \/ y = [z EXCEPT !.pending = FALSE]
  BY <1>2 DEF Answered, Node, y
<1>3. ASSUME z.sent = "none", NEW a \in Num,
             y = [z EXCEPT !.pending = TRUE, !.sent = op, !.xact = a,
                           !.tx = Append(z.tx, [op |-> op, arg |-> a,
                                                key |-> z.key])]
      PROVE  Answered(y, n)
  <2> DEFINE r == [op |-> op, arg |-> a, key |-> z.key]
  <2>1. r \in Asked /\ r.op # "req"
    BY <1>0, RequestTypes DEF Subs
  <2>2. y = [z EXCEPT !.pending = TRUE, !.sent = op, !.xact = a,
                      !.tx = Append(z.tx, r)]
    BY <1>3
  <2> HIDE DEF r
  <2>3. /\ Append(z.tx, r) \in Seq(Asked) /\ NoReq(Append(z.tx, r))
        /\ Len(Append(z.tx, r)) = Len(z.tx) + 1
    BY <1>0, <2>1, AppendRequest DEF Answered
  <2>4. /\ y \in Node /\ y.st = "established" /\ y.est /\ y.key # None
        /\ ~y.timer /\ y.tx = Append(z.tx, r) /\ y.sent = op
    BY <2>2, <2>3 DEF Answered, Node
  <2>5. Len(y.tx) <= 2 + n
    BY <1>0, <1>3, <2>3, <2>4 DEF Answered
  <2>6. QED
    BY <2>3, <2>4, <2>5 DEF Answered, Subs
<1>4. QED
  BY <1>1, <1>2, <1>3 DEF y

LEMMA SyncAnswered ==
  ASSUME f \in Context, NEW n \in 0..MaxCalls, NEW z, Answered(z, n),
         NEW ok \in BOOLEAN
  PROVE  Answered(SubSync(z, ok), n)
<1> DEFINE y == SubUpdate(SubUpdate(z, "add", ok), "rem", ok)
<1>1. Answered(y, n)
  BY SubAnswered DEF Subs
<1>2. Answered([y EXCEPT !.changed = (y.sent # "none")], n)
  <2> HIDE DEF y
  <2> QED
    BY <1>1 DEF Answered, Node
<1>3. QED
  BY <1>2 DEF SubSync

LEMMA ResponseAnswered ==
  ASSUME NEW n \in Nat, NEW x \in Node, x.est, x.key # None, NoReq(x.tx),
         Len(x.tx) <= 1 + n
  PROVE  Answered(Response(x), n)
<1> DEFINE y == Response(x)
<1>1. /\ y.st = "established" /\ y.est /\ y.key = x.key /\ ~y.timer
      /\ y.tx = x.tx /\ y.sent = "none"
  BY DEF Response, Node
<1>2. /\ (IF x.sent = "poll" THEN 1 - x.fsn ELSE x.fsn) \in {0, 1}
      /\ 0 \in 0..2 * Attempts
  BY Constants DEF Node
<1>3. y \in Node
  BY <1>2, ZenonT(40) DEF Response, Node
<1> HIDE DEF y
<1>4. Len(y.tx) <= 2 + n /\ Len(y.tx) <= 1 + n
  BY <1>1, LenProperties DEF Node
<1>5. QED
  BY <1>1, <1>3, <1>4 DEF Answered, y

\* A state in which the node listens has room for one request.
LEMMA ListenRoom ==
  ASSUME NEW n \in Nat, NEW x, NodeOK(x, n), x.key # None,
         x.st \in {"waitoffer", "waitupdate", "clear"}
  PROVE  /\ x \in Node /\ x.tx \in Seq(Asked) /\ NoReq(x.tx)
         /\ Len(x.tx) \in Nat /\ Len(x.tx) <= 1 + n
         /\ x.st # "waitoffer"
<1>1. x \in Node /\ x.tx \in Seq(Asked) /\ Len(x.tx) \in Nat
  BY LenProperties DEF NodeOK, Node
<1>2. NoReq(x.tx) /\ x.st # "waitoffer"
  BY DEF NodeOK, Alone, NoReq
<1>3. Len(x.tx) <= 1 + n
  BY <1>1, <1>2 DEF NodeOK, Loaded
<1>4. QED
  BY <1>1, <1>2, <1>3

LEMMA MsgReceivedOK ==
  ASSUME NEW n \in Nat, NEW x, NodeOK(x, n), x.key # None,
         x.st \in {"waitoffer", "waitupdate", "clear"}, NEW ok \in BOOLEAN
  PROVE  NodeOK(MsgReceived(x, ok), n)
<1>1. CASE x.est /\ x.st = "waitupdate" /\ x.sent = "poll"
  <2>1. Answered(Response(x), n)
    BY <1>1, ListenRoom, ResponseAnswered
  <2>2. NodeOK(SendFriendPoll(Response(x), ok), n)
    BY <2>1, PollAnswered, AnsweredOK
  <2>3. QED
    BY <1>1, <2>2 DEF MsgReceived
<1>2. QED
  BY <1>1 DEF MsgReceived

LEMMA LpnUpdateOK ==
  ASSUME f \in Context, NEW n \in 0..MaxCalls, NEW x, NodeOK(x, n),
         x.key # None, x.st \in {"waitoffer", "waitupdate", "clear"},
         NEW ok \in BOOLEAN
  PROVE  NodeOK(LpnUpdate(x, ok), n)
<1>0. n \in Nat
  BY Constants
<1> DEFINE y == [x EXCEPT !.est = TRUE]
<1>1. /\ y \in Node /\ y.est /\ y.key # None /\ y.tx = x.tx
  BY DEF NodeOK, Node
<1> HIDE DEF y
<1>2. Answered(Response(y), n)
  BY <1>0, <1>1, ListenRoom, ResponseAnswered
<1>3. NodeOK(PollLater(SubSync(Response(y), ok)), n)
  BY <1>0, <1>2, SyncAnswered, AnsweredOK
<1>4. QED
  BY <1>3 DEF LpnUpdate, y

LEMMA LpnSubCfmOK ==
  ASSUME f \in Context, NEW n \in 0..MaxCalls, NEW x, NodeOK(x, n),
         x.key # None, x.st \in {"waitoffer", "waitupdate", "clear"},
         x.sent \in Subs, NEW ok \in BOOLEAN
  PROVE  NodeOK(LpnSubCfm(x, ok), n)
<1>0. n \in Nat
  BY Constants
<1> DEFINE y == IF x.sent = "add"
                  THEN [x EXCEPT !.added = @ \/ x.pending, !.pending = FALSE]
                  ELSE [x EXCEPT !.added = @ /\ ~x.pending, !.pending = FALSE,
                                 !.group = @ /\ ~(x.pending /\ x.toRemove),
                                 !.toRemove = @ /\ ~x.pending]
           z == SubSync(Response(y), ok)
           w == IF z.pendPoll THEN SendFriendPoll(z, ok) ELSE z
<1>1. y \in Node /\ y.key = x.key /\ y.tx = x.tx /\ y.est = x.est
  <2>1. CASE x.sent = "add"
    BY <2>1 DEF NodeOK, Node
  <2>2. CASE x.sent # "add"
    <3> DEFINE a == x.added /\ ~x.pending
               g == x.group /\ ~(x.pending /\ x.toRemove)
               t == x.toRemove /\ ~x.pending
    <3>1. a \in BOOLEAN /\ g \in BOOLEAN /\ t \in BOOLEAN
      OBVIOUS
    <3>2. y = [x EXCEPT !.added = a, !.pending = FALSE, !.group = g, !.toRemove = t]
      BY <2>2 DEF NodeOK, Node
    <3>3. x \in Node
      BY DEF NodeOK
    <3> HIDE DEF a, g, t, y
    <3> DEFINE u == [x EXCEPT !.added = a, !.pending = FALSE]
    <3>4. u \in Node /\ u.key = x.key /\ u.tx = x.tx /\ u.est = x.est
      BY <3>1, <3>3 DEF Node
    <3>5. y = [u EXCEPT !.group = g, !.toRemove = t]
      BY <3>2, <3>3 DEF Node
    <3> HIDE DEF u
    <3>6. QED
      BY <3>1, <3>4, <3>5 DEF Node
  <2>3. QED
    BY <2>1, <2>2
<1>2. x.est
  BY DEF NodeOK, Bound
<1>3. Answered(Response(y), n)
  <2> HIDE DEF y
  <2> QED
    BY <1>0, <1>1, <1>2, ListenRoom, ResponseAnswered
<1>4. Answered(z, n)
  <2> HIDE DEF y
  <2> QED
    BY <1>3, SyncAnswered
<1>5. Answered(w, n)
  <2> HIDE DEF z
  <2> QED
    BY <1>0, <1>4, PollAnswered
<1>6. NodeOK(PollLater(w), n)
  <2> HIDE DEF w
  <2> QED
    BY <1>0, <1>5, AnsweredOK
<1>7. QED
  <2>1. LpnSubCfm(x, ok) = PollLater(w)
    BY DEF LpnSubCfm
  <2>2. QED
    BY <1>6, <2>1

LEMMA LpnOfferOK ==
  ASSUME NEW n \in Nat, NEW x, NodeOK(x, n), x.st = "waitoffer", NEW id,
         NEW ok \in BOOLEAN
  PROVE  NodeOK(LpnOffer(x, id, ok), n)
<1> DEFINE k == IF id = x.counter THEN id ELSE None
           r == [op |-> "poll", arg |-> x.fsn, key |-> k]
           y == LpnOffer(x, id, ok)
<1>0. /\ x \in Node /\ x.tx = <<>> /\ x.sent = "none" /\ ~x.est /\ x.key = None
      /\ x.counter < MaxRequests /\ x.counter \in Counter /\ x.fsn \in {0, 1}
      /\ ~x.added
  BY DEF NodeOK, Alone, Bound, Node
<1>1. CASE ~ok
  <2>1. y = [x EXCEPT !.timer = FALSE]
    BY <1>0, <1>1 DEF LpnOffer
  <2>2. QED
    BY <1>0, <2>1 DEF NodeOK, Node, Loaded, Alone, Bound
<1>2. CASE ok
  <2>0. k \in Counter \cup {None} /\ x.counter + 1 \in Counter
    BY <1>0, Constants DEF Counter
  <2>1. r \in Asked /\ r.op = "poll"
    BY <1>0, <2>0, RequestTypes
  <2>2. y = [x EXCEPT !.timer = FALSE, !.key = k, !.pendPoll = FALSE,
                      !.sent = "poll", !.tx = Append(x.tx, r),
                      !.st = "waitupdate", !.counter = x.counter + 1]
    BY <1>0, <1>2 DEF LpnOffer, SendFriendPoll, SendReq, Node
  <2> HIDE DEF r, k, y
  <2>3. x.tx \in Seq(Asked) /\ Len(x.tx) = 0
    BY <1>0
  <2>4. /\ Append(x.tx, r) \in Seq(Asked) /\ NoReq(Append(x.tx, r))
        /\ Len(Append(x.tx, r)) = 1
    BY <1>0, <2>1, <2>3, AppendRequest DEF NoReq
  <2>5. y \in Node
    BY <1>0, <2>0, <2>2, <2>4 DEF Node
  <2>6. /\ y.st = "waitupdate" /\ ~y.est /\ ~y.timer /\ y.sent = "poll"
        /\ y.tx = Append(x.tx, r) /\ ~y.added
    BY <1>0, <2>2 DEF Node
  <2>7. Len(y.tx) = 1 /\ NoReq(y.tx)
    BY <2>4, <2>6
  <2>8. QED
    BY <2>5, <2>6, <2>7 DEF NodeOK, Loaded, Alone, Bound, NoReq, Subs, y
<1>3. QED
  BY <1>1, <1>2

LEMMA LpnRecvOK ==
  ASSUME f \in Context, NEW n \in 0..MaxCalls, NEW x, NodeOK(x, n),
         x.st \in {"waitoffer", "waitupdate", "clear"}, NEW p \in Real,
         p.kind # "none", p.kind # "offer" => x.key # None, NEW ok \in BOOLEAN
  PROVE  NodeOK(LpnRecv(x, p, ok), n)
<1>0. n \in Nat
  BY Constants
<1>1. CASE p.kind = "offer"
  BY <1>0, <1>1, LpnOfferOK DEF LpnRecv
<1>2. CASE p.kind = "update"
  BY <1>0, <1>2, LpnUpdateOK, MsgReceivedOK DEF LpnRecv
<1>3. CASE p.kind = "confirm"
  BY <1>0, <1>3, LpnSubCfmOK, MsgReceivedOK DEF LpnRecv, Subs
<1>4. CASE p.kind = "data"
  BY <1>0, <1>4, MsgReceivedOK DEF LpnRecv
<1>5. QED
  BY <1>1, <1>2, <1>3, <1>4 DEF Real, Pdu

-----------------------------------------------------------------------------
\* The end of a friendship leaves the advertiser alone and sets the timer.
LEMMA CleanupOK ==
  ASSUME NEW n \in Nat, NEW x \in Node, NoReq(x.tx), Len(x.tx) <= 1 + n,
         NEW success \in BOOLEAN
  PROVE  NodeOK(Cleanup(x, success), n)
<1> DEFINE y == Cleanup(x, success)
<1>1. /\ y.st = "enabled" /\ ~y.est /\ y.timer /\ y.key = None /\ y.sent = "none"
      /\ ~y.added /\ y.tx = x.tx
  BY DEF Cleanup, Node
<1>2. 0 \in 0..2 * Attempts
  BY Constants
<1>3. y \in Node
  <2> DEFINE a == ~success /\ x.key # None
  <2>1. a \in BOOLEAN
    OBVIOUS
  <2>2. y = [x EXCEPT !.again = a, !.key = None, !.fsn = 0,
                      !.attempts = 0, !.sent = "none", !.est = FALSE,
                      !.added = FALSE, !.pending = FALSE, !.toRemove = FALSE,
                      !.changed = TRUE, !.st = "enabled", !.timer = TRUE]
    BY DEF Cleanup
  <2> DEFINE z == [x EXCEPT !.again = a, !.key = None, !.fsn = 0,
                            !.attempts = 0, !.sent = "none", !.est = FALSE]
  <2> HIDE DEF a, y
  <2>3. z \in Node
    BY <1>2, <2>1 DEF Node
  <2>4. y = [z EXCEPT !.added = FALSE, !.pending = FALSE, !.toRemove = FALSE,
                      !.changed = TRUE, !.st = "enabled", !.timer = TRUE]
    BY <2>2
  <2> HIDE DEF z
  <2>5. QED
    BY <2>3, <2>4, ZenonT(40) DEF Node
<1> HIDE DEF y
<1>4. Len(y.tx) <= 1 + n /\ Len(y.tx) <= 2 + n /\ NoReq(y.tx)
  BY <1>1, LenProperties DEF Node
<1>5. QED
  BY <1>1, <1>3, <1>4 DEF NodeOK, Loaded, Alone, Bound, NoReq, Subs, y

LEMMA ClearFriendshipOK ==
  ASSUME NEW n \in Nat, NEW x \in Node, NoReq(x.tx), Len(x.tx) <= 1 + n,
         ~x.timer, x.est => x.key # None, x.st = "clear" => x.tx = <<>>,
         x.st \in {"established", "clear", "waitupdate"},
         x.st \in {"established", "clear"} \/ ~x.est,
         NEW ok \in BOOLEAN
  PROVE  NodeOK(ClearFriendship(x, ok), n)
<1> DEFINE r == [op |-> "clear", arg |-> x.counter, key |-> x.key]
           y == ClearFriendship(x, ok)
<1>0. x.tx \in Seq(Asked) /\ Len(x.tx) \in Nat
  BY LenProperties DEF Node
<1>1. CASE x.est /\ x.attempts < ClearAttempts /\ ok
  <2>1. r \in Asked /\ r.op = "clear"
    BY RequestTypes DEF Node
  <2>2. y = [x EXCEPT !.tx = Append(x.tx, r)]
    BY <1>1 DEF ClearFriendship, SendReq, Node
  <2> HIDE DEF r, y
  <2>3. /\ Append(x.tx, r) \in Seq(Asked) /\ NoReq(Append(x.tx, r))
        /\ Len(Append(x.tx, r)) = Len(x.tx) + 1
    BY <1>0, <2>1, AppendRequest
  <2>4. y \in Node
    BY <2>2, <2>3 DEF Node
  <2>5. /\ y.st = x.st /\ y.est /\ ~y.timer /\ y.key = x.key
        /\ y.tx = Append(x.tx, r)
    BY <1>1, <2>2 DEF Node
  <2>6. /\ Len(y.tx) <= 2 + n /\ NoReq(y.tx)
        /\ x.st = "clear" => Len(y.tx) <= 1 + n
    BY <1>0, <2>3, <2>5
  <2>7. QED
    BY <1>1, <2>4, <2>5, <2>6 DEF NodeOK, Loaded, Alone, Bound, NoReq, y
<1>2. CASE x.est /\ x.attempts < ClearAttempts /\ ~ok
  <2>1. y = x
    BY <1>2 DEF ClearFriendship, SendReq
  <2>2. Len(x.tx) <= 2 + n
    BY <1>0
  <2>3. QED
    BY <1>2, <2>1, <2>2 DEF NodeOK, Loaded, Alone, Bound, NoReq
<1>3. CASE ~(x.est /\ x.attempts < ClearAttempts)
  BY <1>3, CleanupOK DEF ClearFriendship
<1>4. QED
  BY <1>1, <1>2, <1>3

\* The node when its timer has run out.
LEMMA RanOut ==
  ASSUME NEW n \in Nat, NEW x, NodeOK(x, n), x.timer
  PROVE  LET y == [x EXCEPT !.timer = FALSE]
         IN  /\ y \in Node /\ y.tx \in Seq(Asked) /\ Len(y.tx) \in Nat
             /\ ~y.timer /\ Len(y.tx) <= 1 + n
             /\ NoReq(y.tx)
             /\ Alone(y) /\ Bound(y) /\ y.st = x.st /\ y.tx = x.tx
             /\ ~y.est /\ y.key # None => y.tx = <<>>
<1> DEFINE y == [x EXCEPT !.timer = FALSE]
<1>1. y \in Node /\ ~y.timer
  BY DEF NodeOK, Node
<1>2. /\ y.tx = x.tx /\ y.st = x.st /\ y.est = x.est /\ y.key = x.key
      /\ y.sent = x.sent /\ y.counter = x.counter /\ y.added = x.added
  BY DEF NodeOK, Node
<1> HIDE DEF y
<1>3. y.tx \in Seq(Asked) /\ Len(y.tx) \in Nat
  BY <1>1, LenProperties DEF Node
<1>4. NoReq(y.tx)
  BY <1>2 DEF NoReq, NodeOK, Alone
<1>5. Alone(y) /\ Bound(y)
  BY <1>1, <1>2, <1>4 DEF NoReq, NodeOK, Alone, Bound
<1>6. Len(y.tx) <= 1 + n /\ (~y.est /\ y.key # None => y.tx = <<>>)
  BY <1>2 DEF NodeOK, Loaded
<1>7. QED
  BY <1>1, <1>2, <1>3, <1>4, <1>5, <1>6 DEF y

LEMMA UpdateTimeoutOK ==
  ASSUME NEW n \in Nat, NEW x \in Node, NoReq(x.tx), Len(x.tx) <= 1 + n,
         ~x.timer, Bound(x), ~x.est /\ x.key # None => x.tx = <<>>,
         x.st = "waitupdate", NEW ok \in BOOLEAN
  PROVE  NodeOK(UpdateTimeout(x, ok), n)
<1> DEFINE y == UpdateTimeout(x, ok)
           r == [op |-> "poll", arg |-> x.fsn, key |-> x.key]
<1>0. x.tx \in Seq(Asked) /\ Len(x.tx) \in Nat
  BY LenProperties DEF Node
<1>1. CASE x.est
  <2>1. y = [x EXCEPT !.st = "established", !.timer = TRUE]
    BY <1>1 DEF UpdateTimeout
  <2>2. y \in Node
    BY <2>1 DEF Node
  <2>3. y.st = "established" /\ y.est /\ y.key = x.key /\ y.tx = x.tx
    BY <1>1, <2>1 DEF Node
  <2> HIDE DEF y
  <2>4. Len(y.tx) <= 1 + n /\ Len(y.tx) <= 2 + n /\ NoReq(y.tx)
    BY <1>0, <2>3
  <2>5. QED
    BY <1>1, <2>2, <2>3, <2>4 DEF NodeOK, Loaded, Alone, Bound, NoReq, y
<1>2. CASE ~x.est /\ x.attempts < 2 * Attempts /\ ok
  <2>1. r \in Asked /\ r.op = "poll"
    BY RequestTypes DEF Node
  <2>2. y = [x EXCEPT !.pendPoll = FALSE, !.sent = "poll", !.tx = Append(x.tx, r)]
    BY <1>2 DEF UpdateTimeout, SendFriendPoll, SendReq, Node
  <2> HIDE DEF r, y
  <2>3. /\ Append(x.tx, r) \in Seq(Asked) /\ NoReq(Append(x.tx, r))
        /\ Len(Append(x.tx, r)) = Len(x.tx) + 1
    BY <1>0, <2>1, AppendRequest
  <2>4. y \in Node
    BY <2>2, <2>3 DEF Node
  <2>5. /\ y.st = "waitupdate" /\ ~y.est /\ ~y.timer /\ y.key = x.key
        /\ y.tx = Append(x.tx, r) /\ y.sent = "poll" /\ y.added = x.added
    BY <1>2, <2>2 DEF Node
  <2>6. /\ Len(y.tx) <= 2 + n /\ NoReq(y.tx)
        /\ x.key # None => Len(y.tx) <= 1
    BY <1>0, <1>2, <2>3, <2>5
  <2>7. QED
    BY <1>2, <2>4, <2>5, <2>6 DEF NodeOK, Loaded, Alone, Bound, NoReq, Subs, y
<1>3. CASE ~x.est /\ ~(x.attempts < 2 * Attempts /\ ok)
  <2>1. y = ClearFriendship(x, ok)
    BY <1>3 DEF UpdateTimeout
  <2>2. QED
    BY <1>3, <2>1, ClearFriendshipOK DEF Bound
<1>4. QED
  BY <1>1, <1>2, <1>3

LEMMA EstablishedTimerOK ==
  ASSUME f \in Context, NEW n \in 0..MaxCalls, NEW x \in Node, NoReq(x.tx),
         Len(x.tx) <= 1 + n, ~x.timer, Bound(x), x.st = "established",
         NEW ok \in BOOLEAN
  PROVE  NodeOK(LpnExpire(x, ok), n)
<1>0. n \in Nat
  BY Constants
<1> DEFINE y == [x EXCEPT !.sent = "none"]
           c == [x EXCEPT !.attempts = 0]
<1>1. x.tx \in Seq(Asked) /\ Len(x.tx) \in Nat /\ x.est /\ x.key # None
  BY LenProperties DEF Node, Bound
<1>2. Answered(y, n)
  <2>1. /\ y \in Node /\ y.st = "established" /\ y.est /\ y.key = x.key
        /\ ~y.timer /\ y.tx = x.tx
    BY <1>1 DEF Node
  <2> HIDE DEF y
  <2>2. QED
    BY <1>0, <1>1, <2>1 DEF Answered
<1>3. CASE x.attempts >= Attempts
  <2>1. LpnExpire(x, ok) = ClearFriendship(c, ok)
    BY <1>3 DEF LpnExpire
  <2>2. 0 \in 0..2 * Attempts
    BY Constants
  <2>3. /\ c \in Node /\ c.st = "established" /\ c.est /\ c.key = x.key
        /\ ~c.timer /\ c.tx = x.tx
    BY <1>1, <2>2 DEF Node
  <2> HIDE DEF c
  <2>4. QED
    BY <1>0, <1>1, <2>1, <2>3, ClearFriendshipOK
<1>4. CASE ~(x.attempts >= Attempts) /\ x.sent \in {"none", "poll"}
  <2>1. LpnExpire(x, ok) = SendFriendPoll(y, ok)
    BY <1>4 DEF LpnExpire
  <2> HIDE DEF y
  <2>2. QED
    BY <1>0, <1>2, <2>1, PollAnswered, AnsweredOK
<1>5. CASE ~(x.attempts >= Attempts) /\ x.sent \notin {"none", "poll"}
  <2>1. LpnExpire(x, ok) = SubUpdate(y, x.sent, ok)
    BY <1>5 DEF LpnExpire
  <2>2. x.sent \in Subs
    BY <1>5 DEF Node, Subs
  <2> HIDE DEF y
  <2>3. QED
    BY <1>0, <1>2, <2>1, <2>2, SubAnswered, AnsweredOK
<1>6. QED
  BY <1>3, <1>4, <1>5

LEMMA LpnExpireOK ==
  ASSUME f \in Context, NEW n \in 0..MaxCalls, NEW x, NodeOK(x, n), x.timer,
         x.st \in {"timer", "enabled", "waitoffer", "clear"} => x.tx = <<>>,
         x.st \in {"timer", "enabled"} => x.counter < MaxRequests,
         NEW ok \in BOOLEAN
  PROVE  NodeOK(LpnExpire([x EXCEPT !.timer = FALSE], ok), n)
<1>0. n \in Nat
  BY Constants
<1> DEFINE y == [x EXCEPT !.timer = FALSE]
           z == LpnExpire(y, ok)
<1>1. /\ y \in Node /\ y.tx \in Seq(Asked) /\ Len(y.tx) \in Nat
      /\ ~y.timer /\ Len(y.tx) <= 1 + n
      /\ NoReq(y.tx)
      /\ Alone(y) /\ Bound(y) /\ y.st = x.st /\ y.tx = x.tx
      /\ ~y.est /\ y.key # None => y.tx = <<>>
  BY <1>0, RanOut
<1>2. y.counter = x.counter
  BY DEF NodeOK, Node
<1> HIDE DEF y
<1>3. CASE y.st = "clear"
  <2>1. z = ClearFriendship(y, ok)
    BY <1>3 DEF LpnExpire
  <2>2. QED
    BY <1>0, <1>1, <1>3, <2>1, ClearFriendshipOK DEF Bound, y
<1>4. CASE y.st \in {"timer", "enabled"}
  <2> DEFINE r == [op |-> "req", arg |-> y.counter, key |-> y.key]
  <2>0. y.tx = <<>> /\ Len(y.tx) = 0 /\ y.counter < MaxRequests
    BY <1>1, <1>2, <1>4
  <2>1. r \in Asked /\ r.arg = y.counter
    BY <1>1, RequestTypes DEF Node
  <2>2. CASE ok
    <3>1. z = [y EXCEPT !.st = "enabled", !.tx = Append(y.tx, r)]
      BY <1>1, <1>4, <2>2 DEF LpnExpire, SendReq, Node
    <3> HIDE DEF r, z
    <3>2. Append(y.tx, r) \in Seq(Asked) /\ Len(Append(y.tx, r)) = 1
          /\ Append(y.tx, r)[1] = r
      BY <1>1, <2>0, <2>1, AppendProperties
    <3>3. z \in Node
      BY <1>1, <3>1, <3>2 DEF Node
    <3>4. /\ z.st = "enabled" /\ ~z.timer /\ z.est = y.est /\ z.key = y.key
          /\ z.sent = y.sent /\ z.added = y.added /\ z.counter = y.counter
          /\ z.tx = Append(y.tx, r)
      BY <1>1, <3>1 DEF Node
    <3>5. /\ Len(z.tx) = 1 /\ z.tx[1] = r
      BY <3>2, <3>4
    <3>6. ~z.est /\ z.key = None /\ z.sent = "none"
      BY <1>1, <1>4, <3>4 DEF Alone
    <3>7. Loaded(z, n) /\ Alone(z) /\ Bound(z)
      BY <1>0, <1>1, <2>0, <2>1, <3>4, <3>5, <3>6 DEF Loaded, Alone, Bound, Subs
    <3>8. QED
      BY <3>3, <3>7 DEF NodeOK, z, y
  <2>3. CASE ~ok
    <3>1. z = [y EXCEPT !.st = "enabled"]
      BY <1>4, <2>3 DEF LpnExpire, SendReq
    <3>2. z \in Node
      BY <1>1, <3>1 DEF Node
    <3>3. /\ z.st = "enabled" /\ ~z.timer /\ z.est = y.est /\ z.key = y.key
          /\ z.sent = y.sent /\ z.added = y.added /\ z.tx = <<>>
      BY <1>1, <2>0, <3>1 DEF Node
    <3> HIDE DEF z
    <3>4. Loaded(z, n) /\ Alone(z) /\ Bound(z)
      BY <1>0, <1>1, <1>4, <3>3 DEF Loaded, Alone, Bound, Subs
    <3>5. QED
      BY <3>2, <3>4 DEF NodeOK, z, y
  <2>4. QED
    BY <2>2, <2>3
<1>5. CASE y.st = "reqwait"
  <2>1. z = [y EXCEPT !.st = "waitoffer", !.timer = TRUE]
    BY <1>5 DEF LpnExpire
  <2>2. z \in Node
    BY <1>1, <2>1, ZenonT(40) DEF Node
  <2>3. /\ z.st = "waitoffer" /\ z.est = y.est /\ z.key = y.key
        /\ z.sent = y.sent /\ z.added = y.added /\ z.tx = y.tx
        /\ z.counter = y.counter
    BY <1>1, <2>1 DEF Node
  <2> HIDE DEF z
  <2>4. Loaded(z, n) /\ Alone(z) /\ Bound(z)
    BY <1>0, <1>1, <1>5, <2>3 DEF Loaded, Alone, Bound, Subs
  <2>5. QED
    BY <2>2, <2>4 DEF NodeOK, z, y
<1>6. CASE y.st = "waitoffer"
  <2>1. z = [y EXCEPT !.st = "enabled", !.timer = TRUE, !.counter = y.counter + 1]
    BY <1>6 DEF LpnExpire
  <2>a. y.counter + 1 \in Counter
    BY <1>1, <1>6, Constants DEF Alone, Node, Counter
  <2>2. z \in Node
    BY <1>1, <2>1, <2>a, ZenonT(40) DEF Node
  <2>3. /\ z.st = "enabled" /\ z.est = y.est /\ z.key = y.key
        /\ z.sent = y.sent /\ z.added = y.added /\ z.tx = y.tx
    BY <1>1, <2>1 DEF Node
  <2> HIDE DEF z
  <2>4. Loaded(z, n) /\ Alone(z) /\ Bound(z)
    BY <1>0, <1>1, <1>6, <2>3 DEF Loaded, Alone, Bound, Subs
  <2>5. QED
    BY <2>2, <2>4 DEF NodeOK, z, y
<1>7. CASE y.st = "established"
  BY <1>1, <1>7, EstablishedTimerOK DEF y
<1>8. CASE y.st = "recvdelay"
  <2>1. z = [y EXCEPT !.st = "waitupdate", !.timer = TRUE]
    BY <1>8 DEF LpnExpire
  <2>2. z \in Node
    BY <1>1, <2>1, ZenonT(40) DEF Node
  <2>3. /\ z.st = "waitupdate" /\ z.est = y.est /\ z.key = y.key
        /\ z.sent = y.sent /\ z.added = y.added /\ z.tx = y.tx /\ z.timer
    BY <1>1, <2>1 DEF Node
  <2> HIDE DEF z
  <2>4. Loaded(z, n) /\ Alone(z) /\ Bound(z)
    BY <1>0, <1>1, <2>3 DEF Loaded, Alone, Bound, Subs, NoReq
  <2>5. QED
    BY <2>2, <2>4 DEF NodeOK, z, y
<1>9. CASE y.st = "waitupdate"
  <2>1. z = UpdateTimeout(y, ok)
    BY <1>9 DEF LpnExpire
  <2>2. QED
    BY <1>0, <1>1, <1>9, <2>1, UpdateTimeoutOK DEF y
<1>10. QED
  BY <1>1, <1>3, <1>4, <1>5, <1>6, <1>7, <1>8, <1>9 DEF Node, y

\* The message cache plays no part.
LEMMA HeardOK ==
  ASSUME NEW n \in Nat, NEW x, NodeOK(x, n), NEW S \in SUBSET Pdu
  PROVE  NodeOK([x EXCEPT !.heard = S], n)
<1> DEFINE y == [x EXCEPT !.heard = S]
<1>1. y \in Node
  BY DEF NodeOK, Node
<1>2. /\ y.st = x.st /\ y.est = x.est /\ y.key = x.key /\ y.timer = x.timer
      /\ y.sent = x.sent /\ y.added = x.added /\ y.tx = x.tx
      /\ y.counter = x.counter
  BY DEF NodeOK, Node
<1> HIDE DEF y
<1>3. Loaded(y, n) /\ Alone(y) /\ Bound(y)
  BY <1>2 DEF NodeOK, Loaded, Alone, Bound
<1>4. QED
  BY <1>1, <1>3 DEF NodeOK, y

-----------------------------------------------------------------------------
\* The node after its advertiser has started the first request.
Started(x) ==
  LET r == Head(x.tx)
  IN  IF r.op = "clear"
        THEN [x EXCEPT !.tx = <<[r EXCEPT !.op = "clearing"]>> \o Tail(@)]
        ELSE ReqSent([x EXCEPT !.tx = Tail(@)], r.op)

\* The first request and the others.
LEMMA FirstRequest ==
  ASSUME NEW n \in Nat, NEW x, NodeOK(x, n), x.tx # <<>>
  PROVE  /\ x \in Node /\ x.tx \in Seq(Asked) /\ Len(x.tx) \in Nat
         /\ Head(x.tx) \in Asked /\ Head(x.tx) = x.tx[1]
         /\ Tail(x.tx) \in Seq(Asked) /\ Len(Tail(x.tx)) = Len(x.tx) - 1
         /\ \A i \in 1..Len(Tail(x.tx)) : Tail(x.tx)[i] = x.tx[i + 1]
         /\ NoReq(Tail(x.tx))
         /\ Head(x.tx).op = "req" =>
              /\ Tail(x.tx) = <<>> /\ x.st = "enabled"
              /\ x.counter < MaxRequests /\ Head(x.tx).arg = x.counter
         /\ x.st \notin {"waitoffer", "reqwait"}
<1>1. x \in Node /\ x.tx \in Seq(Asked) /\ Len(x.tx) \in Nat
  BY LenProperties DEF NodeOK, Node
<1> DEFINE t == Tail(x.tx)
<1>2. /\ Head(x.tx) \in Asked /\ Head(x.tx) = x.tx[1]
      /\ t \in Seq(Asked) /\ Len(t) = Len(x.tx) - 1
      /\ \A i \in 1..Len(t) : t[i] = x.tx[i + 1]
  BY <1>1, HeadTailProperties
<1>3. Len(x.tx) >= 1
  BY <1>1
<1> HIDE DEF t
<1>4. NoReq(t)
  <2>1. SUFFICES ASSUME NEW i \in 1..Len(t), t[i].op = "req" PROVE FALSE
    BY DEF NoReq
  <2>2. i + 1 \in 1..Len(x.tx) /\ Len(x.tx) # 1
    BY <1>1, <1>2, <2>1
  <2>3. x.tx[i + 1].op = "req"
    BY <1>2, <2>1
  <2>4. QED
    BY <2>2, <2>3 DEF NodeOK, Alone
<1>5. ASSUME Head(x.tx).op = "req"
      PROVE  /\ t = <<>> /\ x.st = "enabled"
             /\ x.counter < MaxRequests /\ Head(x.tx).arg = x.counter
  <2>1. 1 \in 1..Len(x.tx) /\ x.tx[1].op = "req" /\ x.tx[1] = Head(x.tx)
    BY <1>1, <1>2, <1>3, <1>5
  <2>2. /\ x.st = "enabled" /\ Len(x.tx) = 1
        /\ x.counter < MaxRequests /\ Head(x.tx).arg = x.counter
    BY <2>1 DEF NodeOK, Alone
  <2>3. t = <<>>
    BY <1>2, <2>2
  <2>4. QED
    BY <2>2, <2>3
<1>6. x.st \notin {"waitoffer", "reqwait"}
  BY DEF NodeOK, Alone
<1>7. QED
  BY <1>1, <1>2, <1>4, <1>5, <1>6 DEF t

LEMMA StartedOK ==
  ASSUME NEW n \in Nat, NEW x, NodeOK(x, n), x.tx # <<>>
  PROVE  NodeOK(Started(x), n)
<1> DEFINE r == Head(x.tx)
           t == Tail(x.tx)
           y == Started(x)
<1>1. /\ x \in Node /\ x.tx \in Seq(Asked) /\ Len(x.tx) \in Nat
      /\ r \in Asked /\ t \in Seq(Asked) /\ Len(t) = Len(x.tx) - 1
      /\ NoReq(t)
      /\ r.op = "req" => /\ t = <<>> /\ x.st = "enabled"
                         /\ x.counter < MaxRequests
      /\ x.st \notin {"waitoffer", "reqwait"}
  BY FirstRequest
<1>2. CASE r.op = "clear"
  <2> DEFINE c == [r EXCEPT !.op = "clearing"]
             s == <<c>> \o t
  <2>1. c \in Asked /\ c.op = "clearing"
    BY <1>1, <1>2 DEF Asked, Request, Subs
  <2>2. y = [x EXCEPT !.tx = s]
    BY <1>2 DEF Started
  <2> HIDE DEF c, r, t
  <2>3. <<c>> \in Seq(Asked) /\ Len(<<c>>) = 1 /\ <<c>>[1] = c
    BY <2>1
  <2>4. /\ s \in Seq(Asked) /\ Len(s) = Len(x.tx)
        /\ \A i \in 1..1 + Len(t) : s[i] = IF i <= 1 THEN <<c>>[i] ELSE t[i - 1]
    BY <1>1, <2>3, ConcatProperties
  <2> HIDE DEF s
  <2>5. NoReq(s)
    <3>1. SUFFICES ASSUME NEW i \in 1..Len(s) PROVE s[i].op # "req"
      BY DEF NoReq
    <3>2. CASE i = 1
      BY <1>1, <2>1, <2>3, <2>4, <3>2
    <3>3. CASE i # 1
      <4>1. i \in 1..1 + Len(t) /\ ~(i <= 1) /\ i - 1 \in 1..Len(t)
        BY <1>1, <2>4, <3>1, <3>3
      <4>2. s[i] = t[i - 1]
        BY <2>4, <4>1
      <4>3. QED
        BY <1>1, <4>1, <4>2 DEF NoReq
    <3>4. QED
      BY <3>2, <3>3
  <2>6. y \in Node
    BY <1>1, <2>2, <2>4 DEF Node
  <2>7. /\ y.st = x.st /\ y.est = x.est /\ y.key = x.key /\ y.timer = x.timer
        /\ y.sent = x.sent /\ y.added = x.added /\ y.tx = s
    BY <1>1, <2>2 DEF Node
  <2> HIDE DEF y
  <2>8. /\ Len(y.tx) = Len(x.tx) /\ NoReq(y.tx)
    BY <2>4, <2>5, <2>7
  <2>9. Len(x.tx) # 0
    BY <1>1
  <2>10. Loaded(y, n) /\ Bound(y)
    BY <2>7, <2>8, <2>9 DEF NodeOK, Loaded, Bound
  <2>11. Alone(y)
    BY <1>1, <2>7, <2>8 DEF NodeOK, Alone, NoReq
  <2>12. QED
    BY <2>6, <2>10, <2>11 DEF NodeOK, y
<1>3. CASE r.op # "clear"
  <2> DEFINE z == [x EXCEPT !.tx = t]
             count == IF z.attempts < 2 * Attempts THEN z.attempts + 1 ELSE z.attempts
  <2>1. y = ReqSent(z, r.op)
    BY <1>3 DEF Started
  <2>2. /\ z \in Node /\ z.tx = t /\ z.est = x.est /\ z.key = x.key
        /\ z.sent = x.sent /\ z.added = x.added /\ z.counter = x.counter
        /\ z.attempts \in 0..2 * Attempts
    BY <1>1 DEF Node
  <2> HIDE DEF r, t, z
  <2>3. count \in 0..2 * Attempts
    BY <2>2, Constants
  <2> HIDE DEF count
  <2>4. r.op \in {"req", "poll", "add", "rem", "clearing"}
    BY <1>1, <1>3 DEF Asked, Request
  <2>5. y \in Node
    <3> DEFINE w == [z EXCEPT !.timer = TRUE]
    <3>1. w \in Node
      BY <2>2 DEF Node
    <3>2. /\ r.op = "req" => y = [w EXCEPT !.st = "reqwait"]
          /\ r.op \in {"poll", "add", "rem"} =>
               y = [w EXCEPT !.st = "recvdelay", !.attempts = count]
          /\ r.op = "clearing" =>
               y = [w EXCEPT !.st = "clear", !.attempts = count]
      BY <2>1, <2>4 DEF ReqSent, count
    <3> HIDE DEF w, y
    <3>3. /\ [w EXCEPT !.st = "reqwait"] \in Node
          /\ [w EXCEPT !.st = "recvdelay", !.attempts = count] \in Node
          /\ [w EXCEPT !.st = "clear", !.attempts = count] \in Node
      BY <3>1, <2>3 DEF Node
    <3>4. QED
      BY <2>4, <3>2, <3>3
  <2>6. /\ y.timer /\ y.est = x.est /\ y.key = x.key /\ y.sent = x.sent
        /\ y.added = x.added /\ y.tx = t /\ y.counter = x.counter
        /\ r.op = "req" => y.st = "reqwait"
        /\ r.op # "req" => y.st \in {"recvdelay", "clear"}
    BY <2>1, <2>2, <2>4 DEF ReqSent, Node
  <2> HIDE DEF y
  <2>7. Len(y.tx) <= 1 + n /\ Len(y.tx) <= 2 + n /\ NoReq(y.tx)
    BY <1>1, <2>6 DEF NodeOK, Loaded
  <2>8. ~x.est /\ x.key # None => y.tx = <<>>
    BY <1>1, <2>6 DEF NodeOK, Loaded
  <2>9. Loaded(y, n)
    BY <2>6, <2>7, <2>8 DEF Loaded
  <2>10. Alone(y) /\ Bound(y)
    BY <1>1, <2>6, <2>7 DEF NodeOK, Alone, Bound, NoReq
  <2>11. QED
    BY <2>5, <2>9, <2>10 DEF NodeOK, y
<1>4. QED
  BY <1>2, <1>3

-----------------------------------------------------------------------------
LEMMA OneCallMore ==
  ASSUME NEW n \in Nat, NEW x, NodeOK(x, n)
  PROVE  NodeOK(x, n + 1)
<1>1. Len(x.tx) \in Nat
  BY LenProperties DEF NodeOK, Node
<1>2. QED
  BY <1>1 DEF NodeOK, Loaded

\* A call of the application sends at most one request.
LEMMA CallOK ==
  ASSUME NEW n \in Nat, NEW x, NodeOK(x, n), x.est, NEW y \in Node,
         y.st = x.st, y.est = x.est, y.key = x.key, y.timer = x.timer,
         NEW r \in Asked, r.op # "req", y.tx = Append(x.tx, r)
  PROVE  NodeOK(y, n + 1)
<1>1. x.tx \in Seq(Asked)
  BY DEF NodeOK, Node
<1>2. NoReq(x.tx)
  BY DEF NodeOK, Alone, NoReq
<1>3. Len(x.tx) \in Nat /\ Len(y.tx) = Len(x.tx) + 1 /\ NoReq(y.tx)
  BY <1>1, <1>2, AppendRequest
<1>4. Loaded(y, n + 1)
  BY <1>3 DEF NodeOK, Loaded
<1>5. Alone(y) /\ Bound(y)
  BY <1>3 DEF NodeOK, Alone, Bound, NoReq
<1>6. QED
  BY <1>4, <1>5 DEF NodeOK

LEMMA LpnPollOK ==
  ASSUME NEW n \in Nat, NEW x, NodeOK(x, n), x.est, NEW ok \in BOOLEAN
  PROVE  NodeOK(SendFriendPoll(x, ok), n + 1)
<1> DEFINE y == SendFriendPoll(x, ok)
           r == [op |-> "poll", arg |-> x.fsn, key |-> x.key]
<1>1. CASE x.sent = "poll" \/ (x.sent = "none" /\ ~ok)
  <2>1. y = x
    BY <1>1 DEF SendFriendPoll
  <2>2. QED
    BY <2>1, OneCallMore
<1>2. CASE x.sent \notin {"poll", "none"}
  <2>1. y = [x EXCEPT !.pendPoll = TRUE]
    BY <1>2 DEF SendFriendPoll
  <2>2. y \in Node
    BY <2>1, ZenonT(40) DEF NodeOK, Node
  <2>3. /\ y.st = x.st /\ y.est = x.est /\ y.key = x.key /\ y.timer = x.timer
        /\ y.tx = x.tx
    BY <2>1 DEF NodeOK, Node
  <2> HIDE DEF y
  <2>4. NodeOK(y, n)
    BY <2>2, <2>3 DEF NodeOK, Loaded, Alone, Bound
  <2>5. QED
    BY <2>4, OneCallMore DEF y
<1>3. CASE x.sent = "none" /\ ok
  <2>1. r \in Asked /\ r.op = "poll"
    BY RequestTypes DEF NodeOK, Node
  <2>2. y = [x EXCEPT !.pendPoll = FALSE, !.sent = "poll", !.tx = Append(x.tx, r)]
    BY <1>3 DEF SendFriendPoll, SendReq, NodeOK, Node
  <2> HIDE DEF r, y
  <2>3. Append(x.tx, r) \in Seq(Asked)
    BY <2>1, AppendRequest DEF NodeOK, Node
  <2>4. y \in Node
    BY <2>2, <2>3 DEF NodeOK, Node
  <2>5. /\ y.st = x.st /\ y.est = x.est /\ y.key = x.key /\ y.timer = x.timer
        /\ y.tx = Append(x.tx, r)
    BY <2>2 DEF NodeOK, Node
  <2>6. QED
    BY <2>1, <2>4, <2>5, CallOK DEF y
<1>4. QED
  BY <1>1, <1>2, <1>3

LEMMA SubCallOK ==
  ASSUME f \in Context, NEW n \in 0..MaxCalls, NEW x, NodeOK(x, n), x.est,
         NEW op \in Subs, NEW ok \in BOOLEAN
  PROVE  NodeOK(SubUpdate(x, op, ok), n + 1)
<1> DEFINE y == SubUpdate(x, op, ok)
<1>0. /\ x \in Node /\ x.tx \in Seq(Asked) /\ Len(x.tx) \in Nat
      /\ x.key \in Counter \cup {None} /\ n \in Nat /\ Len(x.tx) <= 2 + MaxCalls
  BY LenProperties, Constants DEF NodeOK, Loaded, Node
<1>1. \/ y = x \/ y = [x EXCEPT !.pending = FALSE]
      \/ \E a \in Num : y = [x EXCEPT !.pending = TRUE, !.sent = op, !.xact = a,
                            !.tx = Append(x.tx, [op |-> op, arg |-> a,
                                                 key |-> x.key])]
  BY <1>0, SubUpdateIs
<1> HIDE DEF y
<1>2. CASE y = x
  BY <1>0, <1>2, OneCallMore DEF y
<1>3. CASE y = [x EXCEPT !.pending = FALSE]
  <2>1. y \in Node
    BY <1>0, <1>3 DEF Node
  <2>2. /\ y.st = x.st /\ y.est = x.est /\ y.key = x.key /\ y.timer = x.timer
        /\ y.tx = x.tx
    BY <1>0, <1>3 DEF Node
  <2>3. NodeOK(y, n)
    BY <2>1, <2>2 DEF NodeOK, Loaded, Alone, Bound
  <2>4. QED
    BY <1>0, <2>3, OneCallMore DEF y
<1>4. ASSUME NEW a \in Num,
             y = [x EXCEPT !.pending = TRUE, !.sent = op, !.xact = a,
                           !.tx = Append(x.tx, [op |-> op, arg |-> a,
                                                key |-> x.key])]
      PROVE  NodeOK(y, n + 1)
  <2> DEFINE r == [op |-> op, arg |-> a, key |-> x.key]
  <2>1. r \in Asked /\ r.op # "req"
    BY <1>0, RequestTypes DEF Subs
  <2>2. y = [x EXCEPT !.pending = TRUE, !.sent = op, !.xact = a,
                      !.tx = Append(x.tx, r)]
    BY <1>4
  <2> HIDE DEF r
  <2>3. Append(x.tx, r) \in Seq(Asked)
    BY <1>0, <2>1, AppendRequest
  <2>4. y \in Node
    BY <1>0, <2>2, <2>3 DEF Node
  <2>5. /\ y.st = x.st /\ y.est = x.est /\ y.key = x.key /\ y.timer = x.timer
        /\ y.tx = Append(x.tx, r)
    BY <1>0, <2>2 DEF Node
  <2>6. QED
    BY <1>0, <2>1, <2>4, <2>5, CallOK
<1>5. QED
  BY <1>1, <1>2, <1>3, <1>4 DEF y

-----------------------------------------------------------------------------
LEMMA InitInv == Init => Inv
<1> SUFFICES ASSUME Init PROVE Inv
  OBVIOUS
<1>0. <<>> \in Seq(Real) /\ <<>> \in Seq(Asked) /\ <<>> \in Seq(Msg)
      /\ Len(<<>>) = 0 /\ 0 \in Counter /\ 0 \in Num /\ 0 \in 0..2 * Attempts
      /\ 0 \in 0..MaxMsg /\ 0 \in 0..MaxCalls
  BY Constants DEF Counter, Num
<1>1. f \in Context
  BY <1>0, NothingIsReal DEF Init, NoFriendship, Context
<1>2. FriendOK(f)
  BY <1>0, <1>1, PoolSize DEF Init, NoFriendship, FriendOK, Fits, Idle, Keyed
<1>3. l \in Node
  BY <1>0 DEF Init, Node, Subs
<1>4. NodeOK(l, calls)
  BY <1>0, <1>3 DEF Init, NodeOK, Loaded, Alone, Bound, Subs
<1>5. Others
  BY <1>0 DEF Init, Others
<1>6. QED
  BY <1>2, <1>4, <1>5 DEF Inv

\* Each step of the Friend keeps the invariant if it keeps the context.
LEMMA FriendStepInv ==
  ASSUME Inv, NEW x, FriendStep(x), FriendOK(x), UNCHANGED calls, Others'
  PROVE  Inv'
<1>1. f' = x /\ l' = [l EXCEPT !.heard = Remember(x, l.heard)]
  BY DEF FriendStep, Inv, NodeOK, Node
<1>2. Remember(x, l.heard) \in SUBSET Pdu
  BY DEF Remember, Inv, NodeOK, Node
<1>3. calls \in Nat
  BY Constants DEF Inv, Others
<1>4. NodeOK(l', calls)
  BY <1>1, <1>2, <1>3, HeardOK DEF Inv
<1>5. QED
  BY <1>1, <1>4 DEF Inv, FriendOK, NodeOK

LEMMA OutcomesAreBoolean == \A ok \in Outcomes : ok \in BOOLEAN
BY DEF Outcomes

LEMMA HistoryStep == twice \in BOOLEAN /\ [Next]_vars => twice' \in BOOLEAN
<1> SUFFICES ASSUME twice \in BOOLEAN, [Next]_vars PROVE twice' \in BOOLEAN
  OBVIOUS
<1>1. CASE LpnHears
  <2>1. PICK ok \in Outcomes :
          twice' = (twice \/ (f.air \in l.heard /\ LpnRecv(l, f.air, ok) # l))
    BY <1>1 DEF LpnHears
  <2>2. QED
    BY <2>1, Zenon
<1>2. CASE ~LpnHears
  <2>1. twice' = twice
    BY <1>2 DEF Next, vars, FriendTimer, FriendSendStart, FriendSendEnd, FriendEnqueue,
                LpnClearCfm, LpnTimer, LpnSend, LpnPoll, LpnGroupAdd, LpnGroupDel
  <2>2. QED
    BY <2>1
<1>3. QED
  BY <1>1, <1>2

LEMMA NextInv == Inv /\ [Next]_vars => Inv'
<1> SUFFICES ASSUME Inv, [Next]_vars PROVE Inv'
  OBVIOUS
<1>0. /\ FriendOK(f) /\ f \in Context /\ NodeOK(l, calls) /\ l \in Node /\ Others
      /\ calls \in 0..MaxCalls /\ calls \in Nat /\ slips \subseteq {"send", "readd"}
  BY Constants DEF Inv, FriendOK, NodeOK, Others
<1>t. twice' \in BOOLEAN
  BY HistoryStep DEF Inv, Others
<1>1. CASE FriendTimer
  <2>1. FriendStep(FriendExpire(f)) /\ FriendOK(FriendExpire(f))
    BY <1>0, <1>1, FriendExpireOK DEF FriendTimer
  <2>2. Others' /\ UNCHANGED calls
    BY <1>0, <1>1 DEF FriendTimer, Others
  <2>3. QED
    BY <2>1, <2>2, FriendStepInv
<1>2. CASE FriendSendStart
  <2>1. FriendStep(SendStart(f)) /\ FriendOK(SendStart(f))
    BY <1>0, <1>2, SendStartOK DEF FriendSendStart
  <2>2. Others' /\ UNCHANGED calls
    BY <1>0, <1>2 DEF FriendSendStart, Others
  <2>3. QED
    BY <2>1, <2>2, FriendStepInv
<1>3. CASE FriendSendEnd
  <2>1. FriendStep(SendEnd(f)) /\ FriendOK(SendEnd(f))
    BY <1>0, <1>3, SendEndOK DEF FriendSendEnd
  <2>2. Others' /\ UNCHANGED calls
    BY <1>0, <1>3 DEF FriendSendEnd, Others
  <2>3. QED
    BY <2>1, <2>2, FriendStepInv
<1>4. CASE FriendEnqueue
  <2> DEFINE p == [kind |-> "data", id |-> sent + 1]
  <2>0. sent + 1 \in Msg /\ sent + 1 \in 0..MaxMsg
    BY <1>0, <1>4, Constants DEF FriendEnqueue, Others, Msg
  <2>1. p \in Real
    BY <2>0 DEF Real, Pdu
  <2>2. FriendStep(Enqueue(f, p)) /\ f.valid
    BY <1>0, <1>4 DEF FriendEnqueue, FriendOK, Idle
  <2>3. Others' /\ UNCHANGED calls
    BY <1>0, <1>4, <2>0 DEF FriendEnqueue, Others
  <2> HIDE DEF p
  <2>4. FriendOK(Enqueue(f, p))
    BY <1>0, <2>1, <2>2, EnqueueOK
  <2>5. QED
    BY <2>2, <2>3, <2>4, FriendStepInv
<1>5. CASE LpnHears
  <2>1. PICK ok \in Outcomes :
          /\ l' = [LpnRecv(l, f.air, ok) EXCEPT !.heard = Remember(f, @ \cup {f.air})]
          /\ slips' = slips \cup Failed(ok)
    BY <1>5 DEF LpnHears
  <2>2. ok \in BOOLEAN
    BY OutcomesAreBoolean
  <2>3. /\ f.air # NoPdu /\ f.air \in Real /\ f.airKey # None
        /\ l.st \in {"waitoffer", "waitupdate", "clear"}
        /\ f.air.kind # "offer" => l.key # None
    BY <1>0, <1>5 DEF LpnHears, FriendOK, Keyed, Context
  <2>4. CASE f.air.kind = "none"
    BY <2>3, <2>4 DEF Real
  <2>5. CASE f.air.kind # "none"
    <3> DEFINE y == LpnRecv(l, f.air, ok)
               S == Remember(f, y.heard \cup {f.air})
    <3>1. NodeOK(y, calls)
      BY <1>0, <2>2, <2>3, <2>5, LpnRecvOK
    <3>2. l' = [y EXCEPT !.heard = S]
      BY <2>1
    <3> HIDE DEF y
    <3>3. S \in SUBSET Pdu
      BY <3>1, <2>3 DEF Remember, NodeOK, Node, Real
    <3> HIDE DEF S
    <3>4. NodeOK(l', calls)
      BY <1>0, <3>1, <3>2, <3>3, HeardOK
    <3>5. got' \in Seq(Msg)
      BY <1>0, <1>5, <2>3 DEF LpnHears, Others, Real
    <3>6. UNCHANGED <<f, answer, sent, calls>> /\ slips' \subseteq {"send", "readd"}
      BY <1>0, <1>5, <2>1 DEF LpnHears, Failed
    <3>7. QED
      BY <1>0, <1>t, <3>4, <3>5, <3>6 DEF Inv, Others
  <2>6. QED
    BY <2>4, <2>5
<1>6. CASE LpnClearCfm
  <2>1. NodeOK(l', calls)
    <3>1. CASE l' = l
      BY <1>0, <3>1
    <3>2. CASE l.st = "clear" /\ l' = Cleanup(l, TRUE)
      <4>1. NoReq(l.tx) /\ Len(l.tx) <= 1 + calls
        BY <1>0, <3>2 DEF NodeOK, Alone, Loaded, NoReq
      <4>2. QED
        BY <1>0, <3>2, <4>1, CleanupOK
    <3>3. QED
      BY <1>6, <3>1, <3>2 DEF LpnClearCfm
  <2>2. UNCHANGED <<f, sent, got, calls, slips>> /\ answer' = None
    BY <1>6 DEF LpnClearCfm
  <2>3. QED
    BY <1>0, <1>t, <2>1, <2>2 DEF Inv, Others
<1>7. CASE LpnTimer
  <2>1. PICK ok \in Outcomes :
          /\ l' = LpnExpire([l EXCEPT !.timer = FALSE], ok)
          /\ slips' = slips \cup Failed(ok)
    BY <1>7 DEF LpnTimer
  <2>2. ok \in BOOLEAN
    BY OutcomesAreBoolean
  <2>3. NodeOK(l', calls)
    BY <1>0, <1>7, <2>1, <2>2, LpnExpireOK DEF LpnTimer
  <2>4. UNCHANGED <<f, answer, sent, got, calls>> /\ slips' \subseteq {"send", "readd"}
    BY <1>0, <1>7, <2>1 DEF LpnTimer, Failed
  <2>5. QED
    BY <1>0, <1>t, <2>3, <2>4 DEF Inv, Others
<1>8. CASE LpnSend
  <2> DEFINE r == Head(l.tx)
             x == Started(l)
  <2>1. /\ l.tx # <<>> /\ UNCHANGED <<sent, got, calls, slips>>
        /\ \/ /\ r.op # "clearing" /\ f' = FriendRecv(f, r)
              /\ answer' = IF r.op = "clear" THEN r.arg ELSE answer
              /\ l' = [x EXCEPT !.heard = Remember(f', @)]
           \/ l' = x /\ UNCHANGED <<f, answer>>
    BY <1>8 DEF LpnSend, Started
  <2>2. r \in Asked /\ NodeOK(x, calls)
    BY <1>0, <2>1, FirstRequest, StartedOK
  <2> HIDE DEF x
  <2>3. CASE l' = x /\ UNCHANGED <<f, answer>>
    BY <1>0, <1>t, <2>1, <2>2, <2>3 DEF Inv, Others
  <2>4. CASE /\ r.op # "clearing" /\ f' = FriendRecv(f, r)
             /\ answer' = IF r.op = "clear" THEN r.arg ELSE answer
             /\ l' = [x EXCEPT !.heard = Remember(f', @)]
    <3>1. FriendOK(f')
      <4>1. l.again \in BOOLEAN
        BY <1>0 DEF Node
      <4>2. QED
        BY <1>0, <2>2, <2>4, <4>1, FriendRecvOK
    <3>2. answer' \in Counter \cup {None}
      BY <1>0, <2>2, <2>4 DEF Others, Asked
    <3> DEFINE S == Remember(f', x.heard)
    <3>3. S \in SUBSET Pdu
      BY <2>2 DEF Remember, NodeOK, Node
    <3>4. l' = [x EXCEPT !.heard = S]
      BY <2>4, <2>2 DEF NodeOK, Node
    <3> HIDE DEF S
    <3>5. NodeOK(l', calls)
      BY <1>0, <2>2, <3>3, <3>4, HeardOK
    <3>6. QED
      BY <1>0, <1>t, <2>1, <3>1, <3>2, <3>5 DEF Inv, Others
  <2>5. QED
    BY <2>1, <2>3, <2>4
<1>9. CASE LpnPoll
  <2>1. PICK ok \in Outcomes :
          l' = SendFriendPoll(l, ok) /\ slips' = slips \cup Failed(ok)
    BY <1>9 DEF LpnPoll
  <2>2. ok \in BOOLEAN
    BY OutcomesAreBoolean
  <2>3. /\ l.est /\ calls' = calls + 1 /\ calls + 1 \in 0..MaxCalls
        /\ UNCHANGED <<f, answer, sent, got>>
    BY <1>0, <1>9, Constants DEF LpnPoll
  <2>4. NodeOK(l', calls + 1)
    BY <1>0, <2>1, <2>2, <2>3, LpnPollOK
  <2>5. slips' \subseteq {"send", "readd"}
    BY <1>0, <2>1 DEF Failed
  <2>6. QED
    BY <1>0, <1>t, <2>3, <2>4, <2>5 DEF Inv, Others
<1>10. CASE LpnGroupAdd
  <2> DEFINE x == IF l.group THEN [l EXCEPT !.toRemove = FALSE]
                  ELSE [l EXCEPT !.group = TRUE, !.changed = TRUE]
  <2>1. PICK ok \in Outcomes :
          /\ l' = IF l.est /\ l.sent = "none" THEN SubUpdate(x, "add", ok) ELSE x
          /\ slips' = slips \cup Failed(ok)
                        \cup IF l.toRemove /\ l.sent = "rem" THEN {"readd"} ELSE {}
    BY <1>10 DEF LpnGroupAdd
  <2>2. ok \in BOOLEAN
    BY OutcomesAreBoolean
  <2>3. /\ calls' = calls + 1 /\ calls + 1 \in 0..MaxCalls
        /\ UNCHANGED <<f, answer, sent, got>>
    BY <1>0, <1>10, Constants DEF LpnGroupAdd
  <2>4. x \in Node
    BY <1>0 DEF Node
  <2>5. /\ x.st = l.st /\ x.est = l.est /\ x.key = l.key /\ x.timer = l.timer
        /\ x.tx = l.tx /\ x.sent = l.sent /\ x.added = l.added
        /\ x.counter = l.counter
    BY <1>0 DEF Node
  <2> HIDE DEF x
  <2>6. NodeOK(x, calls)
    BY <1>0, <2>4, <2>5 DEF NodeOK, Loaded, Alone, Bound
  <2>7. NodeOK(l', calls + 1)
    BY <1>0, <2>1, <2>2, <2>5, <2>6, OneCallMore, SubCallOK DEF Subs
  <2>8. slips' \subseteq {"send", "readd"}
    BY <1>0, <2>1 DEF Failed
  <2>9. QED
    BY <1>0, <1>t, <2>3, <2>7, <2>8 DEF Inv, Others
<1>11. CASE LpnGroupDel
  <2> DEFINE x == IF l.added \/ l.pending
                    THEN [l EXCEPT !.toRemove = TRUE, !.changed = TRUE]
                    ELSE [l EXCEPT !.group = FALSE]
  <2>1. PICK ok \in Outcomes :
          /\ l' = IF l.est /\ l.sent = "none" THEN SubUpdate(x, "rem", ok) ELSE x
          /\ slips' = slips \cup Failed(ok)
    BY <1>11 DEF LpnGroupDel
  <2>2. ok \in BOOLEAN
    BY OutcomesAreBoolean
  <2>3. /\ calls' = calls + 1 /\ calls + 1 \in 0..MaxCalls
        /\ UNCHANGED <<f, answer, sent, got>>
    BY <1>0, <1>11, Constants DEF LpnGroupDel
  <2>4. x \in Node
    BY <1>0 DEF Node
  <2>5. /\ x.st = l.st /\ x.est = l.est /\ x.key = l.key /\ x.timer = l.timer
        /\ x.tx = l.tx /\ x.sent = l.sent /\ x.added = l.added
        /\ x.counter = l.counter
    BY <1>0 DEF Node
  <2> HIDE DEF x
  <2>6. NodeOK(x, calls)
    BY <1>0, <2>4, <2>5 DEF NodeOK, Loaded, Alone, Bound
  <2>7. NodeOK(l', calls + 1)
    BY <1>0, <2>1, <2>2, <2>5, <2>6, OneCallMore, SubCallOK DEF Subs
  <2>8. slips' \subseteq {"send", "readd"}
    BY <1>0, <2>1 DEF Failed
  <2>9. QED
    BY <1>0, <1>t, <2>3, <2>7, <2>8 DEF Inv, Others
<1>12. CASE UNCHANGED vars
  BY <1>0, <1>12 DEF Inv, Others, vars
<1>13. QED
  BY <1>1, <1>2, <1>3, <1>4, <1>5, <1>6, <1>7, <1>8, <1>9, <1>10, <1>11, <1>12
  DEF Next

LEMMA Invariance == Spec => []Inv
BY InitInv, NextInv, PTL DEF Spec

(***************************************************************************)
(* The type invariant holds for every size of the pool and every number of *)
(* retries: the queue never exceeds the pool, the numbers of requests and  *)
(* PDUs suffice, and the node asks no more often than it may.              *)
(***************************************************************************)
THEOREM FriendshipTypes == Spec => []TypeOK
<1>1. Inv => TypeOK
  <2> SUFFICES ASSUME Inv PROVE TypeOK
    OBVIOUS
  <2>1. Real \subseteq Pdu /\ Asked \subseteq Request
    BY DEF Real, Asked
  <2>2. Seq(Real) \subseteq Seq(Pdu) /\ Seq(Asked) \subseteq Seq(Request)
    BY <2>1
  <2>3. f \in Context /\ Len(f.queue) <= Pool
    BY DEF Inv, FriendOK, Fits
  <2>4. l \in Node
    BY DEF Inv, NodeOK
  <2>5. QED
    BY <2>1, <2>2, <2>3, <2>4 DEF Inv, Others, TypeOK, Context, Node, Subs
<1>2. QED
  BY <1>1, Invariance, PTL

(***************************************************************************)
(* The assertion of friend_timeout holds: while one of the short timers    *)
(* runs, no buffer waits for the advertiser.                               *)
(***************************************************************************)
THEOREM NoBufferAtTimeout == Spec => []TimerAssert
<1>1. Inv => TimerAssert
  BY DEF Inv, FriendOK, TimerAssert
<1>2. QED
  BY <1>1, Invariance, PTL

-----------------------------------------------------------------------------
(***************************************************************************)
(* Without a slip: a request is always repeated, and a confirmation is of  *)
(* the last request for the group.                                         *)
(***************************************************************************)
NoSubs(q) == \A i \in 1..Len(q) : q[i].op \notin Subs

\* The request for the group that has number a is for op, and the last one.
LastSub(q, a, op) ==
  \A i \in 1..Len(q) : q[i].op \in Subs /\ q[i].arg = a =>
    q[i].op = op /\ \A j \in i + 1..Len(q) : q[j].op \notin Subs

Groups(x) ==
  /\ x.sent \in Subs => x.pending /\ x.group
  /\ x.sent = "add" => ~x.added
  /\ x.sent = "rem" => x.toRemove

Ordered(x) ==
  /\ x.sent \in Subs => LastSub(x.tx, x.xact, x.sent)
  /\ x.key # None /\ x.sent \notin Subs => NoSubs(x.tx)

Wakes(x) == x.timer \/ x.tx # <<>>

Steady(x) == Wakes(x) /\ Groups(x) /\ Ordered(x)

\* The confirmation that node state x waits for.
Cfm(x) == [kind |-> "confirm", id |-> x.xact]

LEMMA AppendSubs ==
  ASSUME NEW q \in Seq(Asked), NEW r \in Asked
  PROVE  /\ r.op \notin Subs /\ NoSubs(q) => NoSubs(Append(q, r))
         /\ r.op \notin Subs => \A a, op : LastSub(q, a, op)
                                          => LastSub(Append(q, r), a, op)
         /\ (\A i \in 1..Len(q) : q[i].arg # r.arg)
              => LastSub(Append(q, r), r.arg, r.op)
<1> DEFINE s == Append(q, r)
<1>1. /\ s \in Seq(Asked) /\ Len(q) \in Nat /\ Len(s) = Len(q) + 1
      /\ \A i \in 1..Len(q) : s[i] = q[i]
      /\ s[Len(q) + 1] = r
  BY AppendProperties, LenProperties
<1> HIDE DEF s
<1>2. \A i \in 1..Len(s) : i \in 1..Len(q) \/ i = Len(q) + 1
  BY <1>1
<1>3. ASSUME r.op \notin Subs, NoSubs(q) PROVE NoSubs(s)
  BY <1>1, <1>2, <1>3 DEF NoSubs
<1>4. ASSUME r.op \notin Subs, NEW a, NEW op, LastSub(q, a, op)
      PROVE  LastSub(s, a, op)
  <2>1. SUFFICES ASSUME NEW i \in 1..Len(s), s[i].op \in Subs, s[i].arg = a
                 PROVE  s[i].op = op /\ \A j \in i + 1..Len(s) : s[j].op \notin Subs
    BY DEF LastSub
  <2>2. i \in 1..Len(q) /\ s[i] = q[i]
    BY <1>1, <1>2, <1>4, <2>1
  <2>3. q[i].op = op /\ \A j \in i + 1..Len(q) : q[j].op \notin Subs
    BY <1>4, <2>1, <2>2 DEF LastSub
  <2>4. ASSUME NEW j \in i + 1..Len(s) PROVE s[j].op \notin Subs
    <3>1. CASE j = Len(q) + 1
      BY <1>1, <1>4, <3>1
    <3>2. CASE j # Len(q) + 1
      <4>1. j \in i + 1..Len(q) /\ j \in 1..Len(q)
        BY <1>1, <2>2, <2>4, <3>2
      <4>2. QED
        BY <1>1, <2>3, <4>1
    <3>3. QED
      BY <3>1, <3>2
  <2>5. QED
    BY <2>2, <2>3, <2>4
<1>5. ASSUME \A i \in 1..Len(q) : q[i].arg # r.arg
      PROVE  LastSub(s, r.arg, r.op)
  <2>1. SUFFICES ASSUME NEW i \in 1..Len(s), s[i].arg = r.arg
                 PROVE  /\ s[i].op = r.op
                        /\ \A j \in i + 1..Len(s) : s[j].op \notin Subs
    BY DEF LastSub
  <2>2. i = Len(q) + 1
    BY <1>1, <1>2, <1>5, <2>1
  <2>3. QED
    BY <1>1, <2>2
<1>6. QED
  BY <1>3, <1>4, <1>5 DEF s

LEMMA TailSubs ==
  ASSUME NEW q \in Seq(Asked), q # <<>>
  PROVE  /\ NoSubs(q) => NoSubs(Tail(q)) /\ Head(q).op \notin Subs
         /\ \A a, op : LastSub(q, a, op) =>
              /\ LastSub(Tail(q), a, op)
              /\ Head(q).op \in Subs /\ Head(q).arg = a
                   => Head(q).op = op /\ NoSubs(Tail(q))
<1> DEFINE t == Tail(q)
<1>1. /\ t \in Seq(Asked) /\ Len(q) \in Nat /\ Len(t) = Len(q) - 1
      /\ \A i \in 1..Len(t) : t[i] = q[i + 1]
      /\ Head(q) = q[1] /\ 1 \in 1..Len(q)
  BY HeadTailProperties, LenProperties
<1> HIDE DEF t
<1>2. \A i \in 1..Len(t) : i + 1 \in 1..Len(q) /\ i + 1 \in 1 + 1..Len(q)
  BY <1>1
<1>3. ASSUME NoSubs(q) PROVE NoSubs(t) /\ Head(q).op \notin Subs
  BY <1>1, <1>2, <1>3 DEF NoSubs
<1>4. ASSUME NEW a, NEW op, LastSub(q, a, op)
      PROVE  LastSub(t, a, op)
  <2>1. SUFFICES ASSUME NEW i \in 1..Len(t), t[i].op \in Subs, t[i].arg = a
                 PROVE  t[i].op = op /\ \A j \in i + 1..Len(t) : t[j].op \notin Subs
    BY DEF LastSub
  <2>2. i + 1 \in 1..Len(q) /\ t[i] = q[i + 1]
    BY <1>1, <1>2, <2>1
  <2>3. q[i + 1].op = op /\ \A j \in (i + 1) + 1..Len(q) : q[j].op \notin Subs
    BY <1>4, <2>1, <2>2 DEF LastSub
  <2>4. ASSUME NEW j \in i + 1..Len(t) PROVE t[j].op \notin Subs
    <3>1. j + 1 \in (i + 1) + 1..Len(q) /\ j \in 1..Len(t)
      BY <1>1, <2>1, <2>4
    <3>2. QED
      BY <1>1, <2>3, <3>1
  <2>5. QED
    BY <2>2, <2>3, <2>4
<1>5. ASSUME NEW a, NEW op, LastSub(q, a, op), Head(q).op \in Subs, Head(q).arg = a
      PROVE  Head(q).op = op /\ NoSubs(t)
  <2>1. q[1].op = op /\ \A j \in 1 + 1..Len(q) : q[j].op \notin Subs
    BY <1>1, <1>5 DEF LastSub
  <2>2. QED
    BY <1>1, <1>2, <2>1 DEF NoSubs
<1>6. QED
  BY <1>3, <1>4, <1>5 DEF t

\* A first request that is not for the group may change into another such.
LEMMA HeadSubs ==
  ASSUME NEW q \in Seq(Asked), q # <<>>, Head(q).op \notin Subs,
         NEW c \in Asked, c.op \notin Subs
  PROVE  /\ NoSubs(q) => NoSubs(<<c>> \o Tail(q))
         /\ \A a, op : LastSub(q, a, op) => LastSub(<<c>> \o Tail(q), a, op)
<1> DEFINE t == Tail(q)
           s == <<c>> \o t
<1>1. /\ t \in Seq(Asked) /\ Len(q) \in Nat /\ Len(t) = Len(q) - 1
      /\ \A i \in 1..Len(t) : t[i] = q[i + 1]
  BY HeadTailProperties, LenProperties
<1> HIDE DEF t
<1>2. <<c>> \in Seq(Asked) /\ Len(<<c>>) = 1 /\ <<c>>[1] = c
  OBVIOUS
<1>3. /\ s \in Seq(Asked) /\ Len(s) = Len(q)
      /\ \A i \in 1..1 + Len(t) : s[i] = IF i <= 1 THEN <<c>>[i] ELSE t[i - 1]
  BY <1>1, <1>2, ConcatProperties
<1> HIDE DEF s
<1>4. ASSUME NEW i \in 1..Len(q)
      PROVE  s[i] = q[i] \/ (i = 1 /\ s[i] = c)
  <2>1. i \in 1..1 + Len(t)
    BY <1>1
  <2>2. CASE i = 1
    BY <1>2, <1>3, <2>1, <2>2
  <2>3. CASE i # 1
    <3>1. ~(i <= 1) /\ i - 1 \in 1..Len(t) /\ (i - 1) + 1 = i
      BY <1>1, <2>3
    <3>2. s[i] = t[i - 1]
      BY <1>3, <2>1, <3>1
    <3>3. QED
      BY <1>1, <3>1, <3>2
  <2>4. QED
    BY <2>2, <2>3
<1>5. ASSUME NoSubs(q) PROVE NoSubs(s)
  BY <1>3, <1>4, <1>5 DEF NoSubs
<1>6. ASSUME NEW a, NEW op, LastSub(q, a, op) PROVE LastSub(s, a, op)
  <2>1. SUFFICES ASSUME NEW i \in 1..Len(s), s[i].op \in Subs, s[i].arg = a
                 PROVE  s[i].op = op /\ \A j \in i + 1..Len(s) : s[j].op \notin Subs
    BY DEF LastSub
  <2>2. s[i] = q[i] /\ i \in 1..Len(q)
    BY <1>3, <1>4, <2>1
  <2>3. q[i].op = op /\ \A j \in i + 1..Len(q) : q[j].op \notin Subs
    BY <1>6, <2>1, <2>2 DEF LastSub
  <2>4. ASSUME NEW j \in i + 1..Len(s) PROVE s[j].op \notin Subs
    <3>1. j \in i + 1..Len(q) /\ j \in 1..Len(q)
      BY <1>1, <1>3, <2>2, <2>4
    <3>2. QED
      BY <1>4, <2>3, <3>1
  <2>5. QED
    BY <2>2, <2>3, <2>4
<1>7. QED
  BY <1>5, <1>6 DEF s, t

-----------------------------------------------------------------------------
(***************************************************************************)
(* Node state z has had an answer: what it may have asked for since has    *)
(* not been confirmed.                                                     *)
(***************************************************************************)
Unconfirmed(z) == z.sent \in Subs => Cfm(z) \notin {f.last, f.air}

Calm(z) ==
  /\ Groups(z) /\ Ordered(z) /\ Unconfirmed(z)
  /\ z.sent # "none" => z.tx # <<>>

\* The two states agree on the friendship and what the node has added to it.
Same(x, y) ==
  /\ y.est = x.est /\ y.key = x.key /\ y.counter = x.counter
  /\ y.added = x.added /\ y.st = x.st

LEMMA PollCalm ==
  ASSUME NEW n \in Nat, NEW z, Answered(z, n), Calm(z)
  PROVE  LET y == SendFriendPoll(z, TRUE)
         IN  Calm(y) /\ Same(z, y) /\ y.sent # "none"
<1> DEFINE r == [op |-> "poll", arg |-> z.fsn, key |-> z.key]
           y == SendFriendPoll(z, TRUE)
<1>0. /\ z \in Node /\ z.tx \in Seq(Asked) /\ z.key \in Counter \cup {None}
      /\ z.fsn \in {0, 1} /\ z.key # None
  BY DEF Answered, Node
<1>1. r \in Asked /\ r.op = "poll"
  BY <1>0, RequestTypes
<1>2. CASE z.sent = "poll"
  BY <1>0, <1>2 DEF SendFriendPoll, Same
<1>3. CASE z.sent \notin {"poll", "none"}
  <2>1. y = [z EXCEPT !.pendPoll = TRUE]
    BY <1>3 DEF SendFriendPoll
  <2>2. /\ Same(z, y) /\ y.sent = z.sent /\ y.tx = z.tx /\ y.xact = z.xact
        /\ y.pending = z.pending /\ y.group = z.group /\ y.toRemove = z.toRemove
    BY <1>0, <2>1 DEF Node, Same
  <2> HIDE DEF y
  <2>3. QED
    BY <1>3, <2>2 DEF Calm, Groups, Ordered, Unconfirmed, Cfm, Same, y
<1>4. CASE z.sent = "none"
  <2>1. y = [z EXCEPT !.pendPoll = FALSE, !.sent = "poll", !.tx = Append(z.tx, r)]
    BY <1>0, <1>4 DEF SendFriendPoll, SendReq, Node
  <2>2. Same(z, y) /\ y.sent = "poll" /\ y.tx = Append(z.tx, r)
    BY <1>0, <2>1 DEF Node, Same
  <2> HIDE DEF y, r
  <2>3. NoSubs(y.tx) /\ y.tx # <<>>
    BY <1>0, <1>1, <1>4, <2>2, AppendSubs, AppendRequest DEF Calm, Ordered, Subs
  <2>4. QED
    BY <2>2, <2>3 DEF Calm, Groups, Ordered, Unconfirmed, Subs, y
<1>5. QED
  BY <1>2, <1>3, <1>4

\* A request for the group, as any part of the node's code makes it.
LEMMA SubAsked ==
  ASSUME f \in Context, NEW x \in Node, Len(x.tx) <= 2 + MaxCalls,
         x.sent = "none", NEW op \in Subs,
         x.group, IF op = "add" THEN ~x.added ELSE x.toRemove
  PROVE  LET y == SubUpdate(x, op, TRUE)
         IN  /\ y.sent = op /\ y.tx # <<>> /\ Groups(y) /\ Ordered(y)
             /\ Unconfirmed(y) /\ Same(x, y)
<1> DEFINE y == SubUpdate(x, op, TRUE)
<1>0. x.tx \in Seq(Asked) /\ x.key \in Counter \cup {None}
  BY DEF Node
<1>1. PICK a \in Num :
        /\ \A i \in 1..Len(x.tx) : x.tx[i].arg # a
        /\ [kind |-> "confirm", id |-> a] \notin {f.last, f.air}
        /\ y = [x EXCEPT !.pending = TRUE, !.sent = op, !.xact = a,
                         !.tx = Append(x.tx, [op |-> op, arg |-> a, key |-> x.key])]
  BY SubUpdateIs
<1> DEFINE r == [op |-> op, arg |-> a, key |-> x.key]
<1>2. r \in Asked /\ r.op = op /\ r.arg = a
  BY <1>0, RequestTypes
<1>3. /\ y.sent = op /\ y.xact = a /\ y.pending /\ y.tx = Append(x.tx, r)
      /\ y.group = x.group /\ y.added = x.added /\ y.toRemove = x.toRemove
      /\ Same(x, y)
  BY <1>1 DEF Node, Same
<1> HIDE DEF y, r
<1>4. LastSub(y.tx, a, op) /\ y.tx # <<>>
  BY <1>0, <1>1, <1>2, <1>3, AppendSubs, AppendRequest
<1>5. Groups(y)
  <2>1. CASE op = "add"
    BY <1>3, <2>1 DEF Groups, Subs
  <2>2. CASE op = "rem"
    BY <1>3, <2>2 DEF Groups, Subs
  <2>3. QED
    BY <2>1, <2>2 DEF Subs
<1>6. Ordered(y) /\ Unconfirmed(y)
  BY <1>1, <1>3, <1>4 DEF Ordered, Unconfirmed, Cfm
<1>7. QED
  BY <1>3, <1>4, <1>5, <1>6 DEF y

LEMMA SubCalm ==
  ASSUME f \in Context, NEW n \in 0..MaxCalls, NEW z, Answered(z, n), Calm(z),
         NEW op \in Subs
  PROVE  LET y == SubUpdate(z, op, TRUE)
         IN  Calm(y) /\ Same(z, y)
<1> DEFINE y == SubUpdate(z, op, TRUE)
           wanted == z.group /\ IF op = "add" THEN ~z.added ELSE z.toRemove
<1>0. z \in Node /\ Len(z.tx) <= 2 + MaxCalls
  BY LenProperties, Constants DEF Answered, Node
<1>1. CASE z.sent # "none"
  BY <1>0, <1>1 DEF SubUpdate, Same
<1>2. CASE z.sent = "none" /\ ~wanted
  <2>1. y = [z EXCEPT !.pending = FALSE]
    BY <1>2 DEF SubUpdate
  <2>2. Same(z, y) /\ y.sent = "none" /\ y.tx = z.tx
    BY <1>0, <1>2, <2>1 DEF Node, Same
  <2> HIDE DEF y
  <2>3. QED
    BY <1>2, <2>2 DEF Calm, Groups, Ordered, Unconfirmed, Same, Subs, y
<1>3. CASE z.sent = "none" /\ wanted
  BY <1>0, <1>3, SubAsked DEF Calm
<1>4. QED
  BY <1>1, <1>2, <1>3

LEMMA SyncCalm ==
  ASSUME f \in Context, NEW n \in 0..MaxCalls, NEW z, Answered(z, n), Calm(z)
  PROVE  LET y == SubSync(z, TRUE)
         IN  Calm(y) /\ Same(z, y)
<1> DEFINE x == SubUpdate(z, "add", TRUE)
           y == SubUpdate(x, "rem", TRUE)
           w == [y EXCEPT !.changed = (y.sent # "none")]
<1>1. Answered(x, n) /\ Calm(x) /\ Same(z, x)
  BY SubAnswered, SubCalm DEF Subs
<1> HIDE DEF x
<1>2. Answered(y, n) /\ Calm(y) /\ Same(x, y)
  BY <1>1, SubAnswered, SubCalm DEF Subs
<1> HIDE DEF y
<1>3. /\ Same(y, w) /\ w.sent = y.sent /\ w.tx = y.tx /\ w.xact = y.xact
      /\ w.pending = y.pending /\ w.group = y.group /\ w.toRemove = y.toRemove
  BY <1>2 DEF Answered, Node, Same
<1> HIDE DEF w
<1>4. Calm(w) /\ Same(z, w)
  BY <1>1, <1>2, <1>3 DEF Calm, Groups, Ordered, Unconfirmed, Cfm, Same
<1>5. CASE ~z.changed
  BY <1>5 DEF SubSync, Same
<1>6. CASE z.changed
  <2>1. SubSync(z, TRUE) = w
    BY <1>6 DEF SubSync, w, y, x
  <2>2. QED
    BY <1>4, <2>1
<1>7. QED
  BY <1>5, <1>6

LEMMA PollLaterSteady ==
  ASSUME NEW n \in Nat, NEW z, Answered(z, n), Calm(z)
  PROVE  LET y == PollLater(z)
         IN  Steady(y) /\ Unconfirmed(y) /\ Same(z, y) /\ y.sent = z.sent
<1> DEFINE y == PollLater(z)
<1>1. CASE z.sent = "none"
  <2>1. y = [z EXCEPT !.timer = TRUE]
    BY <1>1 DEF PollLater
  <2>2. Same(z, y) /\ y.sent = "none" /\ y.timer /\ y.tx = z.tx
    BY <1>1, <2>1 DEF Answered, Node, Same
  <2> HIDE DEF y
  <2>3. QED
    BY <1>1, <2>2
    DEF Calm, Steady, Wakes, Groups, Ordered, Unconfirmed, Same, Subs, y
<1>2. CASE z.sent # "none"
  BY <1>2 DEF PollLater, Calm, Steady, Wakes, Same
<1>3. QED
  BY <1>1, <1>2

LEMMA ResponseCalm ==
  ASSUME NEW x \in Node, NoSubs(x.tx)
  PROVE  LET y == Response(x)
         IN  /\ Calm(y) /\ y.est = x.est /\ y.key = x.key
             /\ y.counter = x.counter /\ y.added = x.added
             /\ y.st = "established"
<1> DEFINE y == Response(x)
<1>1. /\ y.est = x.est /\ y.key = x.key /\ y.counter = x.counter
      /\ y.added = x.added /\ y.sent = "none" /\ y.tx = x.tx
      /\ y.st = "established"
  BY DEF Response, Node
<1> HIDE DEF y
<1>2. QED
  BY <1>1 DEF Calm, Groups, Ordered, Unconfirmed, Subs, y

-----------------------------------------------------------------------------
\* Node state y is x after a PDU of the friendship, which now is established.
Settled(x, y) ==
  /\ Steady(y) /\ Unconfirmed(y)
  /\ y.est /\ y.key = x.key /\ y.counter = x.counter /\ y.st = "established"

LEMMA HearUpdate ==
  ASSUME f \in Context, NEW n \in 0..MaxCalls, NEW x, NodeOK(x, n), x.key # None,
         x.st \in {"waitoffer", "waitupdate", "clear"}, x.sent = "poll", Ordered(x)
  PROVE  Settled(x, LpnUpdate(x, TRUE)) /\ LpnUpdate(x, TRUE).added = x.added
<1>0. n \in Nat
  BY Constants
<1> DEFINE w == [x EXCEPT !.est = TRUE]
           y == Response(w)
           z == SubSync(y, TRUE)
<1>1. /\ w \in Node /\ w.est /\ w.key = x.key /\ w.tx = x.tx
      /\ w.counter = x.counter /\ w.added = x.added
  BY DEF NodeOK, Node
<1>2. NoSubs(x.tx)
  BY DEF Ordered, Subs
<1> HIDE DEF w
<1>3. Answered(y, n)
  BY <1>0, <1>1, ListenRoom, ResponseAnswered
<1>4. /\ Calm(y) /\ y.est /\ y.key = x.key /\ y.counter = x.counter
      /\ y.added = x.added /\ y.st = "established"
  BY <1>1, <1>2, ResponseCalm
<1> HIDE DEF y
<1>5. Answered(z, n) /\ Calm(z) /\ Same(y, z)
  BY <1>3, <1>4, SyncAnswered, SyncCalm
<1> HIDE DEF z
<1>6. Steady(PollLater(z)) /\ Unconfirmed(PollLater(z)) /\ Same(z, PollLater(z))
  BY <1>0, <1>5, PollLaterSteady
<1>7. LpnUpdate(x, TRUE) = PollLater(z)
  BY DEF LpnUpdate, w, y, z
<1>8. QED
  BY <1>4, <1>5, <1>6, <1>7 DEF Settled, Same

LEMMA HearMsg ==
  ASSUME f \in Context, NEW n \in 0..MaxCalls, NEW x, NodeOK(x, n), x.key # None,
         x.st \in {"waitoffer", "waitupdate", "clear"}, Ordered(x)
  PROVE  LET y == MsgReceived(x, TRUE)
         IN  \/ y = x
             \/ /\ x.est /\ x.sent = "poll"
                /\ Settled(x, y) /\ y.added = x.added
<1>0. n \in Nat
  BY Constants
<1>1. CASE x.est /\ x.st = "waitupdate" /\ x.sent = "poll"
  <2> DEFINE y == Response(x)
             z == SendFriendPoll(y, TRUE)
  <2>1. x \in Node /\ NoSubs(x.tx)
    BY <1>1 DEF NodeOK, Ordered, Subs
  <2>2. Answered(y, n)
    BY <1>0, <1>1, ListenRoom, ResponseAnswered
  <2>3. /\ Calm(y) /\ y.est /\ y.key = x.key /\ y.counter = x.counter
        /\ y.added = x.added /\ y.st = "established"
    BY <1>1, <2>1, ResponseCalm
  <2> HIDE DEF y
  <2>4. Calm(z) /\ Same(y, z) /\ z.sent # "none"
    BY <1>0, <2>2, <2>3, PollCalm
  <2>5. MsgReceived(x, TRUE) = z
    BY <1>1 DEF MsgReceived, y
  <2> HIDE DEF z
  <2>6. QED
    BY <1>1, <2>3, <2>4, <2>5 DEF Settled, Same, Calm, Steady, Wakes
<1>2. CASE ~(x.est /\ x.st = "waitupdate" /\ x.sent = "poll")
  BY <1>2 DEF MsgReceived
<1>3. QED
  BY <1>1, <1>2

LEMMA HearConfirm ==
  ASSUME f \in Context, NEW n \in 0..MaxCalls, NEW x, NodeOK(x, n), x.key # None,
         x.st \in {"waitoffer", "waitupdate", "clear"}, x.sent \in Subs,
         NoSubs(x.tx), Groups(x)
  PROVE  /\ Settled(x, LpnSubCfm(x, TRUE))
         /\ LpnSubCfm(x, TRUE).added => x.sent = "add"
<1>0. n \in Nat
  BY Constants
<1> DEFINE w == IF x.sent = "add"
                  THEN [x EXCEPT !.added = @ \/ x.pending, !.pending = FALSE]
                  ELSE [x EXCEPT !.added = @ /\ ~x.pending, !.pending = FALSE,
                                 !.group = @ /\ ~(x.pending /\ x.toRemove),
                                 !.toRemove = @ /\ ~x.pending]
           y == Response(w)
           z == SubSync(y, TRUE)
           u == IF z.pendPoll THEN SendFriendPoll(z, TRUE) ELSE z
<1>1. /\ x \in Node /\ x.est /\ x.pending
  BY DEF NodeOK, Bound, Groups
<1>2. /\ w \in Node /\ w.est /\ w.key = x.key /\ w.tx = x.tx
      /\ w.counter = x.counter /\ (w.added => x.sent = "add")
  <2>1. CASE x.sent = "add"
    BY <1>1, <2>1 DEF Node
  <2>2. CASE x.sent # "add"
    <3> DEFINE a == x.added /\ ~x.pending
               g == x.group /\ ~(x.pending /\ x.toRemove)
               t == x.toRemove /\ ~x.pending
    <3>1. a \in BOOLEAN /\ g \in BOOLEAN /\ t \in BOOLEAN /\ ~a
      BY <1>1
    <3>2. w = [x EXCEPT !.added = a, !.pending = FALSE, !.group = g, !.toRemove = t]
      BY <1>1, <2>2 DEF Node
    <3> HIDE DEF a, g, t, w
    <3>3. QED
      BY <1>1, <3>1, <3>2, ZenonT(40) DEF Node
  <2>3. QED
    BY <2>1, <2>2
<1> HIDE DEF w
<1>3. Answered(y, n)
  BY <1>0, <1>2, ListenRoom, ResponseAnswered
<1>4. /\ Calm(y) /\ y.est /\ y.key = x.key /\ y.counter = x.counter
      /\ y.added = w.added /\ y.st = "established"
  BY <1>2, ResponseCalm
<1> HIDE DEF y
<1>5. Answered(z, n) /\ Calm(z) /\ Same(y, z)
  BY <1>3, <1>4, SyncAnswered, SyncCalm
<1> HIDE DEF z
<1>6. Answered(u, n) /\ Calm(u) /\ Same(z, u)
  <2>1. CASE z.pendPoll
    BY <1>0, <1>5, <2>1, PollAnswered, PollCalm
  <2>2. CASE ~z.pendPoll
    BY <1>5, <2>2 DEF Same
  <2>3. QED
    BY <2>1, <2>2
<1> HIDE DEF u
<1>7. Steady(PollLater(u)) /\ Unconfirmed(PollLater(u)) /\ Same(u, PollLater(u))
  BY <1>0, <1>6, PollLaterSteady
<1>8. LpnSubCfm(x, TRUE) = PollLater(u)
  BY DEF LpnSubCfm, u, z, y, w
<1>9. QED
  BY <1>2, <1>4, <1>5, <1>6, <1>7, <1>8 DEF Settled, Same

LEMMA HearOffer ==
  ASSUME NEW n \in Nat, NEW x, NodeOK(x, n), x.st = "waitoffer", NEW id
  PROVE  LET y == LpnOffer(x, id, TRUE)
         IN  /\ Steady(y) /\ ~y.est /\ y.sent = "poll"
             /\ y.counter = x.counter + 1 /\ y.st = "waitupdate"
<1> DEFINE k == IF id = x.counter THEN id ELSE None
           r == [op |-> "poll", arg |-> x.fsn, key |-> k]
           y == LpnOffer(x, id, TRUE)
<1>0. /\ x \in Node /\ x.tx = <<>> /\ x.sent = "none" /\ ~x.est
      /\ x.fsn \in {0, 1} /\ x.counter \in Counter
  BY DEF NodeOK, Alone, Node
<1>1. k \in Counter \cup {None}
  BY <1>0
<1>2. r \in Asked /\ r.op = "poll"
  BY <1>0, <1>1, RequestTypes
<1>3. y = [x EXCEPT !.timer = FALSE, !.key = k, !.pendPoll = FALSE,
                    !.sent = "poll", !.tx = Append(x.tx, r),
                    !.st = "waitupdate", !.counter = x.counter + 1]
  BY <1>0 DEF LpnOffer, SendFriendPoll, SendReq, Node
<1>4. /\ ~y.est /\ y.sent = "poll" /\ y.tx = Append(x.tx, r)
      /\ y.counter = x.counter + 1 /\ y.st = "waitupdate"
  BY <1>0, <1>3 DEF Node
<1> HIDE DEF k, r, y
<1>5. x.tx \in Seq(Asked) /\ NoSubs(x.tx)
  BY <1>0 DEF NoSubs
<1>6. NoSubs(y.tx) /\ y.tx # <<>>
  BY <1>2, <1>4, <1>5, AppendSubs, AppendRequest DEF Subs
<1>7. QED
  BY <1>4, <1>6 DEF Steady, Wakes, Groups, Ordered, Subs, y

-----------------------------------------------------------------------------
(***************************************************************************)
(* Node state y is x after a step in which nothing arrived: it is in no    *)
(* friendship that is new, has added nothing, and waits for the same       *)
(* confirmation or one that is not under way.                              *)
(***************************************************************************)
Asking == {"reqwait", "waitoffer"}

Follows(x, y) ==
  /\ y.est => x.est /\ y.key = x.key
  /\ y.est /\ y.added /\ y.sent # "rem" => x.added /\ x.sent # "rem"
  /\ y.sent \in Subs =>
       \/ Cfm(y) \notin {f.last, f.air}
       \/ /\ y.sent = x.sent /\ y.xact = x.xact /\ y.key = x.key
          /\ NoSubs(x.tx) => NoSubs(y.tx)
  /\ y.counter \in {x.counter, x.counter + 1}
  /\ y.st \notin Asking => x.st \notin Asking \/ y.counter = x.counter + 1

LEMMA CleanupSteady ==
  ASSUME NEW x \in Node, NEW success \in BOOLEAN, x.st \notin Asking
  PROVE  LET y == Cleanup(x, success) IN Steady(y) /\ Follows(x, y)
<1> DEFINE y == Cleanup(x, success)
<1>1. /\ y.st = "enabled" /\ ~y.est /\ y.timer /\ y.key = None /\ y.sent = "none"
      /\ ~y.added /\ y.tx = x.tx /\ y.counter = x.counter
  BY DEF Cleanup, Node
<1> HIDE DEF y
<1>2. QED
  BY <1>1 DEF Steady, Wakes, Groups, Ordered, Follows, Subs, y

LEMMA ClearSteady ==
  ASSUME NEW x \in Node, Groups(x), Ordered(x), x.st \notin Asking
  PROVE  LET y == ClearFriendship(x, TRUE) IN Steady(y) /\ Follows(x, y)
<1> DEFINE r == [op |-> "clear", arg |-> x.counter, key |-> x.key]
           y == ClearFriendship(x, TRUE)
<1>1. CASE x.est /\ x.attempts < ClearAttempts
  <2>1. r \in Asked /\ r.op = "clear" /\ x.tx \in Seq(Asked)
    BY RequestTypes DEF Node
  <2>2. y = [x EXCEPT !.tx = Append(x.tx, r)]
    BY <1>1 DEF ClearFriendship, SendReq, Node
  <2>3. /\ Same(x, y) /\ y.sent = x.sent /\ y.xact = x.xact
        /\ y.pending = x.pending /\ y.group = x.group /\ y.toRemove = x.toRemove
        /\ y.tx = Append(x.tx, r)
    BY <2>2 DEF Node, Same
  <2> HIDE DEF r, y
  <2>4. /\ NoSubs(x.tx) => NoSubs(y.tx)
        /\ LastSub(x.tx, x.xact, x.sent) => LastSub(y.tx, x.xact, x.sent)
        /\ y.tx # <<>>
    BY <2>1, <2>3, AppendSubs, AppendRequest DEF Subs
  <2>5. QED
    BY <2>3, <2>4 DEF Steady, Wakes, Groups, Ordered, Follows, Same, y
<1>2. CASE ~(x.est /\ x.attempts < ClearAttempts)
  BY <1>2, CleanupSteady DEF ClearFriendship
<1>3. QED
  BY <1>1, <1>2

LEMMA ExpireSteady ==
  ASSUME f \in Context, NEW n \in 0..MaxCalls, NEW x, NodeOK(x, n), x.timer,
         x.st \in {"timer", "enabled", "waitoffer", "clear"} => x.tx = <<>>,
         Groups(x), Ordered(x)
  PROVE  LET y == LpnExpire([x EXCEPT !.timer = FALSE], TRUE)
         IN  Steady(y) /\ Follows(x, y)
<1>0. n \in Nat
  BY Constants
<1> DEFINE w == [x EXCEPT !.timer = FALSE]
           y == LpnExpire(w, TRUE)
<1>1. /\ w \in Node /\ w.tx \in Seq(Asked) /\ Len(w.tx) \in Nat
      /\ ~w.timer /\ Len(w.tx) <= 1 + n /\ NoReq(w.tx)
      /\ Alone(w) /\ Bound(w)
      /\ ~w.est /\ w.key # None => w.tx = <<>>
  BY <1>0, RanOut
<1>2. /\ Same(x, w) /\ w.sent = x.sent /\ w.xact = x.xact /\ w.tx = x.tx
      /\ w.pending = x.pending /\ w.group = x.group /\ w.toRemove = x.toRemove
  BY DEF NodeOK, Node, Same
<1>3. x.counter \in Int
  BY DEF NodeOK, Node, Counter
<1> HIDE DEF w
<1>4. Groups(w) /\ Ordered(w)
  BY <1>2 DEF Groups, Ordered, Same
\* It is enough to compare with w.
<1>5. \A u : Follows(w, u) => Follows(x, u)
  BY <1>2 DEF Follows, Same
<1>6. SUFFICES Steady(y) /\ Follows(w, y)
  BY <1>5 DEF w
<1>7. CASE w.st = "clear"
  <2>1. y = ClearFriendship(w, TRUE)
    BY <1>7 DEF LpnExpire
  <2>2. QED
    BY <1>1, <1>4, <1>7, <2>1, ClearSteady DEF Asking
<1>8. CASE w.st \in {"timer", "enabled"}
  <2> DEFINE r == [op |-> "req", arg |-> w.counter, key |-> w.key]
  <2>1. r \in Asked
    BY <1>1, RequestTypes DEF Node
  <2>2. y = [w EXCEPT !.st = "enabled", !.tx = Append(w.tx, r)]
    BY <1>1, <1>8 DEF LpnExpire, SendReq, Node
  <2>3. /\ y.st = "enabled" /\ y.est = w.est /\ y.key = w.key /\ y.sent = w.sent
        /\ y.counter = w.counter /\ y.tx = Append(w.tx, r)
    BY <1>1, <2>2 DEF Node
  <2> HIDE DEF r, y
  <2>4. y.tx # <<>>
    BY <1>1, <2>1, <2>3, AppendRequest
  <2>5. ~w.est /\ w.sent = "none" /\ w.key = None
    BY <1>1, <1>8 DEF Alone
  <2>6. QED
    BY <1>8, <2>3, <2>4, <2>5
    DEF Steady, Wakes, Groups, Ordered, Follows, Subs, Asking
<1>9. CASE w.st \in Asking
  <2>1. /\ w.tx = <<>> /\ ~w.est /\ w.sent = "none" /\ w.key = None
    BY <1>1, <1>9 DEF Alone, Asking
  <2>2. /\ y.timer /\ y.est = w.est /\ y.key = w.key /\ y.sent = w.sent
        /\ \/ w.st = "reqwait" /\ y.st = "waitoffer" /\ y.counter = w.counter
           \/ w.st = "waitoffer" /\ y.st = "enabled" /\ y.counter = w.counter + 1
    BY <1>1, <1>9 DEF LpnExpire, Node, Asking
  <2> HIDE DEF y
  <2>3. QED
    BY <1>9, <2>1, <2>2 DEF Steady, Wakes, Groups, Ordered, Follows, Subs, Asking
<1>10. CASE w.st = "established"
  <2> DEFINE c == [w EXCEPT !.attempts = 0]
             z == [w EXCEPT !.sent = "none"]
  <2>0. w.est /\ w.key # None
    BY <1>1, <1>10 DEF Bound
  <2>1. CASE w.attempts >= Attempts
    <3>1. y = ClearFriendship(c, TRUE)
      BY <1>10, <2>1 DEF LpnExpire
    <3>2. 0 \in 0..2 * Attempts
      BY Constants
    <3>3. /\ c \in Node /\ Same(w, c) /\ c.sent = w.sent /\ c.xact = w.xact
          /\ c.pending = w.pending /\ c.group = w.group /\ c.toRemove = w.toRemove
          /\ c.tx = w.tx
      BY <1>1, <3>2 DEF Node, Same
    <3> HIDE DEF c
    <3>4. Groups(c) /\ Ordered(c) /\ c.st \notin Asking
      BY <1>4, <1>10, <3>3 DEF Groups, Ordered, Same, Asking
    <3>5. Steady(y) /\ Follows(c, y)
      BY <3>1, <3>3, <3>4, ClearSteady
    <3> HIDE DEF y
    <3>6. QED
      BY <3>3, <3>5 DEF Follows, Same
  <2>2. /\ z \in Node /\ Same(w, z) /\ z.sent = "none" /\ z.tx = w.tx
        /\ z.group = w.group /\ z.toRemove = w.toRemove /\ z.timer = w.timer
    BY <1>1 DEF Node, Same
  <2>3. CASE ~(w.attempts >= Attempts) /\ w.sent \in {"none", "poll"}
    <3>1. y = SendFriendPoll(z, TRUE)
      BY <1>10, <2>3 DEF LpnExpire
    <3> HIDE DEF z
    <3>2. Answered(z, n)
      BY <1>0, <1>1, <1>10, <2>0, <2>2 DEF Answered, Same
    <3>3. NoSubs(z.tx)
      BY <1>4, <2>0, <2>2, <2>3 DEF Ordered, Subs
    <3>4. Calm(z)
      BY <2>2, <3>3 DEF Calm, Groups, Ordered, Unconfirmed, Subs
    <3>5. Calm(y) /\ Same(z, y) /\ y.sent # "none"
      BY <1>0, <3>1, <3>2, <3>4, PollCalm
    <3> HIDE DEF y
    <3>6. QED
      BY <1>10, <2>2, <2>3, <3>5
      DEF Calm, Steady, Wakes, Follows, Same, Unconfirmed, Asking
  <2>4. CASE ~(w.attempts >= Attempts) /\ w.sent \notin {"none", "poll"}
    <3>1. y = SubUpdate(z, w.sent, TRUE)
      BY <1>10, <2>4 DEF LpnExpire
    <3>2. w.sent \in Subs
      BY <1>1, <2>4 DEF Node, Subs
    <3> HIDE DEF z
    <3>3. /\ z.group /\ (w.sent = "add" => ~z.added)
          /\ (w.sent = "rem" => z.toRemove)
      BY <1>4, <2>2, <3>2 DEF Groups, Same
    <3>4. IF w.sent = "add" THEN ~z.added ELSE z.toRemove
      BY <3>2, <3>3 DEF Subs
    <3>5. Len(z.tx) <= 2 + MaxCalls
      BY <1>0, <1>1, <2>2, Constants
    <3>6. /\ y.sent = w.sent /\ y.tx # <<>> /\ Groups(y) /\ Ordered(y)
          /\ Unconfirmed(y) /\ Same(z, y)
      BY <2>2, <3>1, <3>2, <3>3, <3>4, <3>5, SubAsked
    <3> HIDE DEF y
    <3>7. QED
      BY <1>10, <2>2, <3>2, <3>6 DEF Steady, Wakes, Follows, Same, Unconfirmed, Asking
  <2>5. QED
    BY <2>1, <2>3, <2>4
<1>11. CASE w.st = "recvdelay" \/ (w.st = "waitupdate" /\ w.est)
  <2>1. /\ y.timer /\ y.est = w.est /\ y.key = w.key /\ y.sent = w.sent
        /\ y.counter = w.counter /\ y.added = w.added /\ y.tx = w.tx
        /\ y.xact = w.xact /\ y.pending = w.pending /\ y.group = w.group
        /\ y.toRemove = w.toRemove
    BY <1>1, <1>11 DEF LpnExpire, UpdateTimeout, Node
  <2> HIDE DEF y
  <2>2. QED
    BY <1>4, <1>11, <2>1 DEF Steady, Wakes, Groups, Ordered, Follows, Asking
<1>12. CASE w.st = "waitupdate" /\ ~w.est
  <2>1. CASE w.attempts < 2 * Attempts
    <3> DEFINE r == [op |-> "poll", arg |-> w.fsn, key |-> w.key]
    <3>1. r \in Asked /\ r.op = "poll"
      BY <1>1, RequestTypes DEF Node
    <3>2. y = [w EXCEPT !.pendPoll = FALSE, !.sent = "poll", !.tx = Append(w.tx, r)]
      BY <1>1, <1>12, <2>1 DEF LpnExpire, UpdateTimeout, SendFriendPoll, SendReq, Node
    <3>3. /\ y.st = "waitupdate" /\ ~y.est /\ y.key = w.key /\ y.sent = "poll"
          /\ y.counter = w.counter /\ y.tx = Append(w.tx, r)
      BY <1>1, <1>12, <3>2 DEF Node
    <3> HIDE DEF r, y
    <3>4. y.tx # <<>> /\ (NoSubs(w.tx) => NoSubs(y.tx))
      BY <1>1, <3>1, <3>3, AppendSubs, AppendRequest DEF Subs
    <3>5. w.sent \notin Subs
      BY <1>1, <1>12 DEF Bound
    <3>6. QED
      BY <1>4, <1>12, <3>3, <3>4, <3>5
      DEF Steady, Wakes, Groups, Ordered, Follows, Subs, Asking
  <2>2. CASE ~(w.attempts < 2 * Attempts)
    <3>1. y = ClearFriendship(w, TRUE)
      BY <1>12, <2>2 DEF LpnExpire, UpdateTimeout
    <3>2. QED
      BY <1>1, <1>4, <1>12, <3>1, ClearSteady DEF Asking
  <2>3. QED
    BY <2>1, <2>2
<1>13. QED
  BY <1>1, <1>7, <1>8, <1>9, <1>10, <1>11, <1>12 DEF Node, Asking

LEMMA StartedSteady ==
  ASSUME NEW n \in Nat, NEW x, NodeOK(x, n), x.tx # <<>>, Groups(x), Ordered(x)
  PROVE  LET y == Started(x)
         IN  /\ Steady(y)
             /\ NoSubs(Tail(x.tx)) /\ Head(x.tx).op \in Subs => NoSubs(y.tx)
<1> DEFINE r == Head(x.tx)
           t == Tail(x.tx)
           y == Started(x)
<1>1. x \in Node /\ x.tx \in Seq(Asked) /\ r \in Asked
  BY FirstRequest
<1>2. CASE r.op = "clear"
  <2> DEFINE c == [r EXCEPT !.op = "clearing"]
             s == <<c>> \o t
  <2>1. c \in Asked /\ c.op = "clearing"
    BY <1>1, <1>2 DEF Asked, Request, Subs
  <2>2. /\ NoSubs(x.tx) => NoSubs(s)
        /\ \A a, op : LastSub(x.tx, a, op) => LastSub(s, a, op)
    <3> HIDE DEF c
    <3> QED
      BY <1>1, <1>2, <2>1, HeadSubs DEF Subs
  <2>3. s # <<>>
    BY <1>1, <2>1, ConcatProperties, HeadTailProperties
  <2>4. y = [x EXCEPT !.tx = s]
    BY <1>2 DEF Started
  <2> HIDE DEF s
  <2>5. /\ Same(x, y) /\ y.sent = x.sent /\ y.xact = x.xact /\ y.tx = s
        /\ y.pending = x.pending /\ y.group = x.group /\ y.toRemove = x.toRemove
    BY <1>1, <2>4 DEF Node, Same
  <2> HIDE DEF y
  <2>6. QED
    BY <1>2, <2>2, <2>3, <2>5 DEF Steady, Wakes, Groups, Ordered, Same, Subs, y
<1>3. CASE r.op # "clear"
  <2>1. r.op \in {"req", "poll", "add", "rem", "clearing"}
    BY <1>1, <1>3 DEF Asked, Request
  <2>2. /\ y.timer /\ y.est = x.est /\ y.key = x.key /\ y.sent = x.sent
        /\ y.added = x.added /\ y.tx = t /\ y.xact = x.xact
        /\ y.pending = x.pending /\ y.group = x.group /\ y.toRemove = x.toRemove
    BY <1>1, <1>3, <2>1 DEF Started, ReqSent, Node
  <2>3. /\ NoSubs(x.tx) => NoSubs(t)
        /\ \A a, op : LastSub(x.tx, a, op) => LastSub(t, a, op)
    BY <1>1, TailSubs
  <2> HIDE DEF y
  <2>4. QED
    BY <2>2, <2>3 DEF Steady, Wakes, Groups, Ordered, y
<1>4. QED
  BY <1>2, <1>3

LEMMA StartedFields ==
  ASSUME NEW n \in Nat, NEW x, NodeOK(x, n), x.tx # <<>>
  PROVE  LET y == Started(x)
         IN  /\ y.est = x.est /\ y.key = x.key /\ y.sent = x.sent
             /\ y.xact = x.xact /\ y.added = x.added /\ y.counter = x.counter
             /\ Head(x.tx).op = "req" => y.st = "reqwait"
             /\ Head(x.tx).op # "req" => y.st \notin Asking
             /\ x.st \notin Asking
             /\ NoSubs(x.tx) => NoSubs(y.tx)
<1> DEFINE r == Head(x.tx)
           t == Tail(x.tx)
           y == Started(x)
<1>1. /\ x \in Node /\ x.tx \in Seq(Asked) /\ r \in Asked
      /\ x.st \notin Asking
  BY FirstRequest DEF Asking
<1>2. CASE r.op = "clear"
  <2> DEFINE c == [r EXCEPT !.op = "clearing"]
             s == <<c>> \o t
  <2>1. c \in Asked /\ c.op = "clearing"
    BY <1>1, <1>2 DEF Asked, Request, Subs
  <2>2. NoSubs(x.tx) => NoSubs(s)
    <3> HIDE DEF c
    <3> QED
      BY <1>1, <1>2, <2>1, HeadSubs DEF Subs
  <2>3. y = [x EXCEPT !.tx = s]
    BY <1>2 DEF Started
  <2> HIDE DEF s
  <2>4. /\ Same(x, y) /\ y.sent = x.sent /\ y.xact = x.xact /\ y.tx = s
    BY <1>1, <2>3 DEF Node, Same
  <2> HIDE DEF y
  <2>5. QED
    BY <1>1, <1>2, <2>2, <2>4 DEF Same, y
<1>3. CASE r.op # "clear"
  <2>1. r.op \in {"req", "poll", "add", "rem", "clearing"}
    BY <1>1, <1>3 DEF Asked, Request
  <2>2. /\ y.est = x.est /\ y.key = x.key /\ y.sent = x.sent
        /\ y.added = x.added /\ y.tx = t /\ y.xact = x.xact
        /\ y.counter = x.counter
        /\ r.op = "req" => y.st = "reqwait"
        /\ r.op # "req" => y.st \in {"recvdelay", "clear"}
    BY <1>1, <1>3, <2>1 DEF Started, ReqSent, Node
  <2>3. NoSubs(x.tx) => NoSubs(t)
    BY <1>1, TailSubs
  <2> HIDE DEF y
  <2>4. QED
    BY <1>1, <2>2, <2>3 DEF y, Asking
<1>4. QED
  BY <1>2, <1>3

\* bt_mesh_lpn_poll.
LEMMA PollCall ==
  ASSUME NEW n \in Nat, NEW x, NodeOK(x, n), x.est, Steady(x)
  PROVE  LET y == SendFriendPoll(x, TRUE) IN Steady(y) /\ Follows(x, y)
<1> DEFINE r == [op |-> "poll", arg |-> x.fsn, key |-> x.key]
           y == SendFriendPoll(x, TRUE)
<1>0. /\ x \in Node /\ x.tx \in Seq(Asked) /\ x.key \in Counter \cup {None}
      /\ x.fsn \in {0, 1} /\ x.key # None /\ x.st \notin Asking
  BY DEF NodeOK, Node, Bound, Alone, Asking
<1>1. r \in Asked /\ r.op = "poll"
  BY <1>0, RequestTypes
<1>2. CASE x.sent = "poll"
  BY <1>0, <1>2 DEF SendFriendPoll, Follows, Subs
<1>3. CASE x.sent \notin {"poll", "none"}
  <2>1. y = [x EXCEPT !.pendPoll = TRUE]
    BY <1>3 DEF SendFriendPoll
  <2>2. /\ Same(x, y) /\ y.sent = x.sent /\ y.tx = x.tx /\ y.xact = x.xact
        /\ y.pending = x.pending /\ y.group = x.group /\ y.toRemove = x.toRemove
        /\ y.timer = x.timer
    BY <1>0, <2>1 DEF Node, Same
  <2> HIDE DEF y
  <2>3. QED
    BY <1>0, <2>2 DEF Steady, Wakes, Groups, Ordered, Follows, Same, y
<1>4. CASE x.sent = "none"
  <2>1. y = [x EXCEPT !.pendPoll = FALSE, !.sent = "poll", !.tx = Append(x.tx, r)]
    BY <1>0, <1>4 DEF SendFriendPoll, SendReq, Node
  <2>2. Same(x, y) /\ y.sent = "poll" /\ y.tx = Append(x.tx, r)
    BY <1>0, <2>1 DEF Node, Same
  <2> HIDE DEF y, r
  <2>3. NoSubs(y.tx) /\ y.tx # <<>>
    BY <1>0, <1>1, <1>4, <2>2, AppendSubs, AppendRequest DEF Steady, Ordered, Subs
  <2>4. QED
    BY <1>0, <1>4, <2>2, <2>3
    DEF Steady, Wakes, Groups, Ordered, Follows, Same, Subs, y
<1>5. QED
  BY <1>2, <1>3, <1>4

\* A call that changes the group and may ask the Friend for op.
LEMMA GroupCall ==
  ASSUME f \in Context, NEW n \in 0..MaxCalls, NEW x, NodeOK(x, n), Steady(x),
         NEW z \in Node, Same(x, z), z.sent = x.sent, z.tx = x.tx,
         z.xact = x.xact, z.timer = x.timer, Groups(z), NEW op \in Subs
  PROVE  LET y == IF x.est /\ x.sent = "none" THEN SubUpdate(z, op, TRUE) ELSE z
         IN  Steady(y) /\ Follows(x, y)
<1>0. /\ x \in Node /\ Len(x.tx) \in Nat /\ Len(x.tx) <= 2 + n /\ n \in Nat
      /\ x.est => x.key # None /\ x.st \notin Asking
  BY LenProperties, Constants DEF NodeOK, Node, Loaded, Bound, Alone, Asking
<1> DEFINE y == SubUpdate(z, op, TRUE)
           wanted == z.group /\ IF op = "add" THEN ~z.added ELSE z.toRemove
<1>1. Steady(z) /\ Follows(x, z)
  BY DEF Steady, Wakes, Ordered, Follows, Same
<1>2. CASE ~(x.est /\ x.sent = "none")
  BY <1>1, <1>2
<1>3. CASE x.est /\ x.sent = "none" /\ ~wanted
  <2>1. y = [z EXCEPT !.pending = FALSE]
    BY <1>3 DEF SubUpdate
  <2>2. /\ Same(z, y) /\ y.sent = z.sent /\ y.tx = z.tx /\ y.xact = z.xact
        /\ y.timer = z.timer
    BY <2>1 DEF Node, Same
  <2> HIDE DEF y
  <2>3. Steady(y) /\ Follows(x, y)
    BY <1>0, <1>1, <1>3, <2>2
    DEF Steady, Wakes, Groups, Ordered, Follows, Same, Subs
  <2>4. QED
    BY <1>3, <2>3 DEF y
<1>4. CASE x.est /\ x.sent = "none" /\ wanted
  <2>1. Len(z.tx) <= 2 + MaxCalls
    BY <1>0, Constants
  <2>2. /\ y.sent = op /\ y.tx # <<>> /\ Groups(y) /\ Ordered(y)
        /\ Unconfirmed(y) /\ Same(z, y)
    BY <1>4, <2>1, SubAsked
  <2> HIDE DEF y
  <2>3. Steady(y) /\ Follows(x, y)
    BY <1>0, <1>4, <2>2 DEF Steady, Wakes, Follows, Same, Unconfirmed
  <2>4. QED
    BY <1>4, <2>3 DEF y
<1>5. QED
  BY <1>2, <1>3, <1>4

-----------------------------------------------------------------------------
(***************************************************************************)
(* Only an established friendship has more than an offer to send, and a    *)
(* confirmation is never queued.                                           *)
(***************************************************************************)
Quiet(x) ==
  /\ ~x.est => x.queue = <<>> /\ x.last.kind \in {"none", "offer"}
  /\ x.air.kind \notin {"none", "offer"} /\ x.valid /\ x.airKey = x.key => x.est
  /\ \A i \in 1..Len(x.queue) : x.queue[i].kind \in {"update", "data"}

LEMMA ClearQuiet ==
  ASSUME NEW x
  PROVE  Quiet(FriendClear(x))
<1> DEFINE y == FriendClear(x)
<1>1. ~y.valid /\ ~y.est /\ y.last = NoPdu /\ y.queue = <<>>
  BY DEF FriendClear, NoFriendship
<1> HIDE DEF y
<1>2. QED
  BY <1>1, NothingIsReal DEF Quiet, y

LEMMA TailKinds ==
  ASSUME NEW q \in Seq(Real), q # <<>>,
         \A i \in 1..Len(q) : q[i].kind \in {"update", "data"}
  PROVE  /\ Head(q).kind \in {"update", "data"}
         /\ \A i \in 1..Len(Tail(q)) : Tail(q)[i].kind \in {"update", "data"}
<1>1. /\ Len(q) \in Nat /\ Len(Tail(q)) = Len(q) - 1
      /\ \A i \in 1..Len(Tail(q)) : Tail(q)[i] = q[i + 1]
      /\ Head(q) = q[1] /\ 1 \in 1..Len(q)
  BY HeadTailProperties, LenProperties
<1>2. \A i \in 1..Len(Tail(q)) : i + 1 \in 1..Len(q)
  BY <1>1
<1>3. QED
  BY <1>1, <1>2

LEMMA AppendKinds ==
  ASSUME NEW q \in Seq(Real), NEW p \in Real, p.kind \in {"update", "data"},
         \A i \in 1..Len(q) : q[i].kind \in {"update", "data"}
  PROVE  \A i \in 1..Len(Append(q, p)) : Append(q, p)[i].kind \in {"update", "data"}
<1> DEFINE s == Append(q, p)
<1>1. /\ Len(q) \in Nat /\ Len(s) = Len(q) + 1
      /\ \A i \in 1..Len(q) : s[i] = q[i]
      /\ s[Len(q) + 1] = p
  BY AppendProperties, LenProperties
<1> HIDE DEF s
<1>2. \A i \in 1..Len(s) : i \in 1..Len(q) \/ i = Len(q) + 1
  BY <1>1
<1>3. QED
  BY <1>1, <1>2 DEF s

\* All that Enqueue and SetLast change, and that they keep a context quiet.
LEMMA AllocQuiet ==
  ASSUME NEW x \in Context, Fits(x), Quiet(x)
  PROVE  \E q \in Seq(Real) :
           /\ Alloc(x) = [x EXCEPT !.queue = q]
           /\ \A i \in 1..Len(q) : q[i].kind \in {"update", "data"}
           /\ x.queue = <<>> => q = <<>>
<1>1. PICK q \in Seq(Real) :
           /\ Alloc(x) = [x EXCEPT !.queue = q]
           /\ q = x.queue \/ (x.queue # <<>> /\ q = Tail(x.queue))
  BY AllocOK
<1>2. x.queue \in Seq(Real)
  BY DEF Context
<1>3. \A i \in 1..Len(q) : q[i].kind \in {"update", "data"}
  <2>1. CASE q = x.queue
    BY <2>1 DEF Quiet
  <2>2. CASE x.queue # <<>> /\ q = Tail(x.queue)
    BY <1>2, <2>2, TailKinds DEF Quiet
  <2>3. QED
    BY <1>1, <2>1, <2>2
<1>4. QED
  BY <1>1, <1>3

\* The two contexts agree on all but what they hold to send.
Alike(x, y) ==
  /\ y.valid = x.valid /\ y.est = x.est /\ y.key = x.key /\ y.sub = x.sub
  /\ y.air = x.air /\ y.airKey = x.airKey

LEMMA EnqueueQuiet ==
  ASSUME NEW x \in Context, Fits(x), Quiet(x), x.est, NEW p \in Real,
         p.kind \in {"update", "data"}
  PROVE  LET y == Enqueue(x, p)
         IN  Quiet(y) /\ Alike(x, y) /\ y.last = x.last
<1>1. PICK q \in Seq(Real) :
           /\ Alloc(x) = [x EXCEPT !.queue = q]
           /\ \A i \in 1..Len(q) : q[i].kind \in {"update", "data"}
  BY AllocQuiet
<1> DEFINE y == Enqueue(x, p)
<1>2. y = [x EXCEPT !.queue = Append(q, p)]
  BY <1>1 DEF Enqueue, Context
<1>3. \A i \in 1..Len(Append(q, p)) : Append(q, p)[i].kind \in {"update", "data"}
  BY <1>1, AppendKinds
<1>4. Alike(x, y) /\ y.last = x.last /\ y.queue = Append(q, p)
  BY <1>2 DEF Context, Alike
<1> HIDE DEF y
<1>5. QED
  BY <1>3, <1>4 DEF Quiet, Alike, y

LEMMA SetLastQuiet ==
  ASSUME NEW x \in Context, Fits(x), Quiet(x), NEW p,
         ~x.est => p.kind = "offer"
  PROVE  LET y == SetLast(x, p)
         IN  Quiet(y) /\ Alike(x, y) /\ y.last = p
<1>1. PICK q \in Seq(Real) :
           /\ Alloc(x) = [x EXCEPT !.queue = q]
           /\ \A i \in 1..Len(q) : q[i].kind \in {"update", "data"}
           /\ x.queue = <<>> => q = <<>>
  BY AllocQuiet
<1> DEFINE y == SetLast(x, p)
<1>2. y = [x EXCEPT !.queue = q, !.last = p, !.sendLast = TRUE]
  BY <1>1 DEF SetLast, Context
<1>3. Alike(x, y) /\ y.last = p /\ y.queue = q
  BY <1>2 DEF Context, Alike
<1> HIDE DEF y
<1>4. QED
  BY <1>1, <1>3 DEF Quiet, Alike, y

(***************************************************************************)
(* What the Friend's context y and the node's state x have to do with each *)
(* other.  Keys grow with the node's counter; a node that is in the        *)
(* friendship of the Friend's key is so for the Friend too.                *)
(***************************************************************************)
Together(y, x) ==
  /\ y.key <= x.counter /\ y.airKey <= x.counter
  /\ x.st \notin Asking => y.key < x.counter /\ y.airKey < x.counter
  /\ x.est /\ y.valid /\ y.key = x.key => y.est

\* The confirmation the node waits for is under way.
Coming(y, x) ==
  /\ x.sent \in Subs
  /\ \/ y.last = Cfm(x) /\ y.key = x.key
     \/ y.air = Cfm(x) /\ y.airKey = x.key

Agreed(y, x) ==
  /\ Coming(y, x) => /\ NoSubs(x.tx)
                     /\ y.est /\ y.key = x.key => (y.sub <=> x.sent = "add")
  /\ x.est /\ x.added /\ y.est /\ y.key = x.key /\ x.sent # "rem" => y.sub

United(y, x) == Quiet(y) /\ Together(y, x) /\ Steady(x) /\ Agreed(y, x)

LEMMA FollowsUnited ==
  ASSUME NEW n \in Nat, FriendOK(f), NEW x, NodeOK(x, n), United(f, x),
         NEW y, Steady(y), Follows(x, y)
  PROVE  United(f, y)
<1>1. x.counter \in Int /\ f.key \in Int /\ f.airKey \in Int
  BY DEF FriendOK, Context, NodeOK, Node, Counter, None
<1>2. Together(f, y)
  BY <1>1 DEF United, Together, Follows
<1>3. Coming(f, y) => NoSubs(y.tx) /\ (f.est /\ f.key = y.key => (f.sub <=> y.sent = "add"))
  <2>1. SUFFICES ASSUME Coming(f, y)
                 PROVE  /\ NoSubs(y.tx)
                        /\ f.est /\ f.key = y.key => (f.sub <=> y.sent = "add")
    OBVIOUS
  <2>2. /\ y.sent = x.sent /\ y.xact = x.xact /\ y.key = x.key
        /\ NoSubs(x.tx) => NoSubs(y.tx)
    BY <2>1 DEF Coming, Follows
  <2>3. Coming(f, x)
    BY <2>1, <2>2 DEF Coming, Cfm
  <2>4. QED
    BY <2>2, <2>3 DEF United, Agreed
<1>4. y.est /\ y.added /\ f.est /\ f.key = y.key /\ y.sent # "rem" => f.sub
  BY DEF United, Agreed, Follows
<1>5. QED
  BY <1>2, <1>3, <1>4 DEF United, Agreed

LEMMA HeardUnited ==
  ASSUME NEW n, NEW x, NodeOK(x, n), NEW y, United(y, x), NEW S
  PROVE  United(y, [x EXCEPT !.heard = S])
<1> DEFINE z == [x EXCEPT !.heard = S]
<1>1. /\ Same(x, z) /\ z.sent = x.sent /\ z.tx = x.tx /\ z.xact = x.xact
      /\ z.pending = x.pending /\ z.group = x.group /\ z.toRemove = x.toRemove
      /\ z.timer = x.timer
  BY DEF NodeOK, Node, Same
<1> HIDE DEF z
<1>2. Cfm(z) = Cfm(x)
  BY <1>1 DEF Cfm
<1>3. QED
  BY <1>1, <1>2
  DEF United, Steady, Wakes, Groups, Ordered, Together, Agreed, Coming, Same, z

-----------------------------------------------------------------------------
\* Context y is x with the friendship over.
Cleared(x, y) ==
  /\ ~y.valid /\ ~y.est /\ y.key = None /\ y.last = NoPdu
  /\ y.air = x.air /\ y.airKey = x.airKey

\* Context y is x with the same friendship and no new confirmation.
Carries(x, y) ==
  /\ y.valid = x.valid /\ y.est = x.est /\ y.key = x.key /\ y.sub = x.sub
  /\ y.last = x.last \/ y.last.kind # "confirm"
  /\ \/ y.air = x.air /\ y.airKey = x.airKey
     \/ y.air = x.last /\ y.airKey = x.key
     \/ y.air = NoPdu /\ y.airKey = None

LEMMA CarriesUnited ==
  ASSUME NEW n, NEW x, NodeOK(x, n), NEW y, FriendOK(y), United(y, x),
         NEW z, Quiet(z), Carries(y, z) \/ Cleared(y, z)
  PROVE  United(z, x)
<1>1. /\ x.counter \in Nat /\ y.key \in Int /\ y.airKey \in Int /\ None \in Int
      /\ None < x.counter
  BY Constants DEF FriendOK, Context, NodeOK, Node, Counter, None
<1>2. Cfm(x).kind = "confirm" /\ Cfm(x) # NoPdu
  BY DEF Cfm, NoPdu
<1>3. Together(z, x)
  <2>1. CASE Carries(y, z)
    BY <1>1, <2>1 DEF United, Together, Carries
  <2>2. CASE Cleared(y, z)
    BY <1>1, <2>2 DEF United, Together, Cleared
  <2>3. QED
    BY <2>1, <2>2
<1>4. Agreed(z, x)
  <2>1. CASE Carries(y, z)
    <3>1. Coming(z, x) => Coming(y, x)
      BY <1>2, <2>1 DEF Coming, Carries
    <3>2. QED
      BY <2>1, <3>1 DEF United, Agreed, Carries
  <2>2. CASE Cleared(y, z)
    <3>1. Coming(z, x) => Coming(y, x)
      BY <1>2, <2>2 DEF Coming, Cleared
    <3>2. QED
      BY <2>2, <3>1 DEF United, Agreed, Cleared
  <2>3. QED
    BY <2>1, <2>2
<1>5. QED
  BY <1>3, <1>4 DEF United

LEMMA ClearCarries ==
  ASSUME NEW x
  PROVE  Quiet(FriendClear(x)) /\ Cleared(x, FriendClear(x))
<1>1. Cleared(x, FriendClear(x))
  BY DEF FriendClear, NoFriendship, Cleared
<1>2. QED
  BY <1>1, ClearQuiet

LEMMA ExpireCarries ==
  ASSUME NEW x, FriendOK(x), Quiet(x)
  PROVE  LET y == FriendExpire(x)
         IN  Quiet(y) /\ (Carries(x, y) \/ Cleared(x, y))
<1> DEFINE w == [x EXCEPT !.timer = "off"]
           y == FriendExpire(x)
<1>0. x \in Context /\ x.queue \in Seq(Real)
  BY DEF FriendOK, Context
<1>1. CASE x.sendLast /\ x.last # NoPdu
  <2>1. y = SendBuf([w EXCEPT !.sendLast = FALSE])
    BY <1>1 DEF FriendExpire
  <2>2. Alike(x, y) /\ y.last = x.last /\ y.queue = x.queue
    BY <1>0, <2>1 DEF SendBuf, Context, Alike
  <2> HIDE DEF y
  <2>3. Quiet(y) /\ Carries(x, y)
    BY <2>2 DEF Quiet, Carries, Alike
  <2>4. QED
    BY <2>3 DEF y
<1>2. CASE /\ ~(x.sendLast /\ x.last # NoPdu)
           /\ (x.est /\ ~x.pendReq) \/ x.queue = <<>>
  <2>1. y = FriendClear(w)
    BY <1>2 DEF FriendExpire
  <2>2. w.air = x.air /\ w.airKey = x.airKey
    BY <1>0 DEF Context
  <2> HIDE DEF w
  <2>3. Quiet(y) /\ Cleared(w, y)
    BY <2>1, ClearCarries
  <2>4. QED
    BY <2>2, <2>3 DEF Cleared
<1>3. CASE /\ ~(x.sendLast /\ x.last # NoPdu)
           /\ ~((x.est /\ ~x.pendReq) \/ x.queue = <<>>)
  <2>1. y = SendBuf([w EXCEPT !.last = Head(x.queue), !.queue = Tail(x.queue)])
    BY <1>0, <1>3 DEF FriendExpire, Context
  <2>2. Alike(x, y) /\ y.last = Head(x.queue) /\ y.queue = Tail(x.queue)
    BY <1>0, <2>1 DEF SendBuf, Context, Alike
  <2> HIDE DEF y
  <2>3. /\ Head(x.queue).kind \in {"update", "data"} /\ x.est
        /\ \A i \in 1..Len(Tail(x.queue)) : Tail(x.queue)[i].kind \in {"update", "data"}
    BY <1>0, <1>3, TailKinds DEF Quiet
  <2>4. Quiet(y) /\ Carries(x, y)
    BY <2>2, <2>3 DEF Quiet, Carries, Alike
  <2>5. QED
    BY <2>4 DEF y
<1>4. QED
  BY <1>1, <1>2, <1>3

LEMMA SendCarries ==
  ASSUME NEW x, FriendOK(x), Quiet(x)
  PROVE  /\ Quiet(SendStart(x)) /\ Carries(x, SendStart(x))
         /\ Quiet(SendEnd(x)) /\ Carries(x, SendEnd(x))
<1>0. x \in Context
  BY DEF FriendOK
<1>1. Quiet(SendStart(x)) /\ Carries(x, SendStart(x))
  <2> DEFINE y == SendStart(x)
  <2>1. /\ y.valid = x.valid /\ y.est = x.est /\ y.key = x.key /\ y.sub = x.sub
        /\ y.queue = x.queue /\ y.air = x.last /\ y.airKey = x.key
        /\ y.last = IF x.est THEN x.last ELSE NoPdu
    BY <1>0 DEF SendStart, Context
  <2> HIDE DEF y
  <2>2. Quiet(y) /\ Carries(x, y)
    BY <2>1, NothingIsReal DEF Quiet, Carries
  <2>3. QED
    BY <2>2 DEF y
<1>2. Quiet(SendEnd(x)) /\ Carries(x, SendEnd(x))
  <2> DEFINE y == SendEnd(x)
  <2>1. /\ y.valid = x.valid /\ y.est = x.est /\ y.key = x.key /\ y.sub = x.sub
        /\ y.queue = x.queue /\ y.air = NoPdu /\ y.airKey = None
        /\ y.last = x.last
    BY <1>0 DEF SendEnd, Context
  <2> HIDE DEF y
  <2>2. Quiet(y) /\ Carries(x, y)
    BY <2>1, NothingIsReal DEF Quiet, Carries
  <2>3. QED
    BY <2>2 DEF y
<1>3. QED
  BY <1>1, <1>2

-----------------------------------------------------------------------------
\* A request that is lost.
LEMMA StartedUnited ==
  ASSUME NEW n \in Nat, NEW x, NodeOK(x, n), x.tx # <<>>, NEW y, FriendOK(y),
         United(y, x)
  PROVE  United(y, Started(x))
<1> DEFINE z == Started(x)
<1>1. /\ z.est = x.est /\ z.key = x.key /\ z.sent = x.sent
      /\ z.xact = x.xact /\ z.added = x.added /\ z.counter = x.counter
      /\ x.st \notin Asking
      /\ NoSubs(x.tx) => NoSubs(z.tx)
  BY StartedFields
<1>2. Steady(z)
  BY StartedSteady DEF United, Steady
<1> HIDE DEF z
<1>3. x.counter \in Int /\ y.key \in Int /\ y.airKey \in Int
  BY DEF FriendOK, Context, NodeOK, Node, Counter, None
<1>4. Together(y, z)
  BY <1>1, <1>3 DEF United, Together
<1>5. Agreed(y, z)
  <2>1. Coming(y, z) => Coming(y, x)
    BY <1>1 DEF Coming, Cfm
  <2>2. QED
    BY <1>1, <2>1 DEF United, Agreed
<1>6. QED
  BY <1>2, <1>4, <1>5 DEF United, z

\* A Friend Request makes a new context for the node's counter.
LEMMA RequestUnited ==
  ASSUME NEW n \in Nat, NEW x, NodeOK(x, n), x.tx # <<>>, NEW y, FriendOK(y),
         United(y, x), Head(x.tx).op = "req", NEW again \in BOOLEAN
  PROVE  United(FriendReq(y, Head(x.tx).arg, again), Started(x))
<1>1. CASE y.valid /\ again /\ Misled
  BY <1>1, StartedUnited DEF FriendReq
<1>2. CASE ~(y.valid /\ again /\ Misled)
  <2> DEFINE c == Head(x.tx).arg
             w == IF y.valid THEN FriendClear(y) ELSE y
             z == [w EXCEPT !.valid = TRUE, !.key = c, !.timer = "offer"]
             p == [kind |-> "offer", id |-> c]
             g == FriendReq(y, c, again)
             s == Started(x)
  <2>1. /\ x.st = "enabled" /\ c = x.counter /\ c \in Counter /\ x.counter \in Int
        /\ y.airKey \in Int /\ ~x.est /\ x.sent = "none"
    BY FirstRequest DEF FriendOK, Context, NodeOK, Node, Alone, Counter, None
  <2>2. y.airKey < c
    BY <2>1 DEF United, Together, Asking
  <2>3. /\ w \in Context /\ ~w.est /\ w.queue = <<>> /\ w.last = NoPdu
        /\ w.air = y.air /\ w.airKey = y.airKey
    <3>1. CASE y.valid
      BY <3>1, ClearOK DEF FriendOK, FriendClear, NoFriendship
    <3>2. CASE ~y.valid
      BY <3>2 DEF FriendOK, Idle
    <3>3. QED
      BY <3>1, <3>2
  <2> HIDE DEF w
  <2>4. /\ z \in Context /\ ~z.est /\ z.queue = <<>> /\ z.last = NoPdu
        /\ z.air = y.air /\ z.airKey = y.airKey /\ z.key = c
    BY <2>1, <2>3 DEF Context
  <2>5. g = SetLast(z, p)
    BY <1>2 DEF FriendReq, w
  <2> HIDE DEF z
  <2>6. Fits(z) /\ Quiet(z)
    <3>1. Len(z.queue) = 0
      BY <2>4
    <3>2. QED
      BY <2>1, <2>2, <2>4, <3>1, PoolSize, NothingIsReal DEF Fits, Quiet
  <2>7. p.kind = "offer"
    OBVIOUS
  <2> HIDE DEF p
  <2>8. Quiet(g) /\ Alike(z, g)
    BY <2>4, <2>5, <2>6, <2>7, SetLastQuiet
  <2> HIDE DEF g
  <2>9. /\ ~s.est /\ s.sent = "none" /\ s.counter = c /\ s.st = "reqwait"
        /\ Steady(s)
    BY <2>1, StartedFields, StartedSteady DEF United, Steady
  <2> HIDE DEF s
  <2>10. Together(g, s) /\ Agreed(g, s)
    BY <2>1, <2>2, <2>4, <2>8, <2>9
    DEF Together, Agreed, Coming, Alike, Asking, Subs
  <2>11. QED
    BY <2>8, <2>9, <2>10 DEF United, g, s
<1>3. QED
  BY <1>1, <1>2

\* A poll establishes the friendship, and drops the last PDU or keeps it.
LEMMA PollQuiet ==
  ASSUME f \in Context, NEW x, FriendOK(x), Quiet(x), x.valid, ~x.pendBuf,
         NEW fsn \in {0, 1}
  PROVE  LET y == FriendPoll(x, fsn)
         IN  /\ Quiet(y) /\ y.valid /\ y.est /\ y.key = x.key /\ y.sub = x.sub
             /\ y.air = x.air /\ y.airKey = x.airKey /\ y.last \in {x.last, NoPdu}
<1> DEFINE y == [RecvDelay(x) EXCEPT !.est = TRUE]
           z == [y EXCEPT !.last = NoPdu, !.fsn = fsn]
           g == FriendPoll(x, fsn)
<1>0. x \in Context /\ Fits(x)
  BY DEF FriendOK
<1>1. /\ y.valid /\ y.est /\ y.key = x.key /\ y.sub = x.sub /\ y.air = x.air
      /\ y.airKey = x.airKey /\ y.queue = x.queue /\ y.last = x.last
      /\ y \in Context
  BY <1>0 DEF RecvDelay, Context
<1>2. CASE fsn = x.fsn /\ x.last # NoPdu
  <2>1. g = [y EXCEPT !.sendLast = TRUE]
    BY <1>2 DEF FriendPoll
  <2> HIDE DEF y
  <2>2. /\ g.valid /\ g.est /\ g.key = x.key /\ g.sub = x.sub /\ g.air = x.air
        /\ g.airKey = x.airKey /\ g.queue = x.queue /\ g.last = x.last
    BY <1>1, <2>1 DEF Context
  <2> HIDE DEF g
  <2>3. Quiet(g)
    BY <2>2 DEF Quiet
  <2>4. QED
    BY <2>2, <2>3 DEF g
<1>3. CASE ~(fsn = x.fsn /\ x.last # NoPdu)
  <2>1. g = IF x.queue = <<>> THEN EnqueueUpdate(z) ELSE z
    BY <1>3 DEF FriendPoll
  <2> HIDE DEF y
  <2>2. /\ z.valid /\ z.est /\ z.key = x.key /\ z.sub = x.sub /\ z.air = x.air
        /\ z.airKey = x.airKey /\ z.queue = x.queue /\ z.last = NoPdu
        /\ z \in Context
    BY <1>1, NothingIsReal DEF Context
  <2> HIDE DEF z
  <2>3. Quiet(z)
    BY <2>2 DEF Quiet
  <2>4. CASE x.queue # <<>>
    BY <2>1, <2>2, <2>3, <2>4
  <2>5. CASE x.queue = <<>>
    <3> DEFINE p == [kind |-> "update", id |-> Fresh("update", {})]
    <3>1. p \in Real /\ p.kind = "update"
      <4>1. Fresh("update", {}) \in Num
        <5>1. IsFiniteSet({}) /\ Cardinality({}) <= 2 + MaxCalls
          BY FS_EmptySet, Constants
        <5>2. QED
          BY <5>1, FreshExists
      <4>2. QED
        BY <4>1 DEF Real, Pdu
    <3>2. g = Enqueue(z, p)
      BY <2>1, <2>5 DEF EnqueueUpdate
    <3> HIDE DEF p
    <3>3. Fits(z)
      BY <1>0, <2>2 DEF Fits
    <3>4. Quiet(g) /\ Alike(z, g) /\ g.last = z.last
      BY <2>2, <2>3, <3>1, <3>2, <3>3, EnqueueQuiet
    <3>5. QED
      BY <2>2, <3>4 DEF Alike
  <2>6. QED
    BY <2>4, <2>5
<1>4. QED
  BY <1>2, <1>3

LEMMA PollUnited ==
  ASSUME f \in Context, NEW y, FriendOK(y), y.valid, ~y.pendBuf,
         NEW fsn \in {0, 1}, NEW x, United(y, x)
  PROVE  United(FriendPoll(y, fsn), x)
<1> DEFINE g == FriendPoll(y, fsn)
<1>1. /\ Quiet(g) /\ g.valid /\ g.est /\ g.key = y.key /\ g.sub = y.sub
      /\ g.air = y.air /\ g.airKey = y.airKey /\ g.last \in {y.last, NoPdu}
  BY PollQuiet DEF United
<1> HIDE DEF g
<1>2. Together(g, x)
  BY <1>1 DEF United, Together
<1>3. Cfm(x).kind = "confirm" /\ Cfm(x) # NoPdu
  BY DEF Cfm, NoPdu
<1>4. Coming(g, x) => Coming(y, x)
  BY <1>1, <1>3 DEF Coming
<1>5. Coming(y, x) /\ y.key = x.key => y.est
  BY <1>3 DEF United, Quiet, Coming
<1>6. x.est /\ y.key = x.key => y.est
  BY DEF United, Together
<1>7. Agreed(g, x)
  BY <1>1, <1>4, <1>5, <1>6 DEF United, Agreed
<1>8. QED
  BY <1>1, <1>2, <1>7 DEF United, g

\* A request for the group is confirmed, and it is the last one.
LEMMA SubUnited ==
  ASSUME NEW n \in Nat, NEW x, NodeOK(x, n), x.tx # <<>>, NEW y, FriendOK(y),
         United(y, x), y.est, Head(x.tx).op \in Subs
  PROVE  United(FriendSub(y, Head(x.tx).op, Head(x.tx).arg), Started(x))
<1> DEFINE r == Head(x.tx)
           p == [kind |-> "confirm", id |-> r.arg]
           w == RecvDelay(y)
           h == SetLast(w, p)
           g == FriendSub(y, r.op, r.arg)
           s == Started(x)
<1>0. y \in Context /\ Fits(y) /\ x.tx \in Seq(Asked)
  BY DEF FriendOK, NodeOK, Node
<1>1. /\ w \in Context /\ Alike(y, w) /\ w.queue = y.queue /\ w.last = y.last
  BY <1>0 DEF RecvDelay, Context, Alike
<1>g. g = [h EXCEPT !.sub = (r.op = "add")]
  BY DEF FriendSub
<1> HIDE DEF w
<1>2. Fits(w) /\ Quiet(w) /\ w.est
  BY <1>0, <1>1 DEF Fits, United, Quiet, Alike
<1>3. /\ Quiet(h) /\ Alike(w, h) /\ h.last = p
  BY <1>1, <1>2, SetLastQuiet
<1>4. PICK q \in Seq(Real) :
           h = [w EXCEPT !.queue = q, !.last = p, !.sendLast = TRUE]
  <2>1. PICK q \in Seq(Real) : Alloc(w) = [w EXCEPT !.queue = q]
    BY <1>1, <1>2, AllocQuiet
  <2>2. h = [w EXCEPT !.queue = q, !.last = p, !.sendLast = TRUE]
    BY <1>1, <2>1 DEF SetLast, Context
  <2>3. QED
    BY <2>2
<1>5. /\ g.valid = h.valid /\ g.est = h.est /\ g.key = h.key /\ g.air = h.air
      /\ g.airKey = h.airKey /\ g.queue = h.queue /\ g.last = h.last
      /\ g.sub = (r.op = "add")
  BY <1>1, <1>4, <1>g DEF Context
<1> HIDE DEF g, h
<1>6. Quiet(g)
  BY <1>3, <1>5 DEF Quiet
<1>7. /\ g.valid = y.valid /\ g.est /\ g.key = y.key /\ g.air = y.air
      /\ g.airKey = y.airKey /\ g.last = p /\ g.sub = (r.op = "add")
  BY <1>1, <1>2, <1>3, <1>5 DEF Alike
<1>8. /\ s.est = x.est /\ s.key = x.key /\ s.sent = x.sent
      /\ s.xact = x.xact /\ s.added = x.added /\ s.counter = x.counter
      /\ Steady(s)
      /\ NoSubs(Tail(x.tx)) => NoSubs(s.tx)
  BY StartedFields, StartedSteady DEF United, Steady
<1>9. United(y, s)
  BY StartedUnited
<1> HIDE DEF s
<1>10. Together(g, s)
  BY <1>7, <1>9 DEF United, Together
<1>11. ~NoSubs(x.tx)
  BY <1>0, TailSubs
<1>12. ASSUME Coming(g, s)
       PROVE  NoSubs(s.tx) /\ (g.sub <=> s.sent = "add")
  <2>1. CASE g.air = Cfm(s) /\ g.airKey = s.key
    <3>1. Coming(y, x)
      BY <1>7, <1>8, <1>12, <2>1 DEF Coming, Cfm
    <3>2. QED
      BY <1>11, <3>1 DEF United, Agreed
  <2>2. CASE g.last = Cfm(s)
    <3>1. r.arg = x.xact
      BY <1>7, <1>8, <2>2 DEF Cfm
    <3>2. LastSub(x.tx, x.xact, x.sent) /\ x.sent \in Subs
      BY <1>8, <1>12 DEF Coming, United, Steady, Ordered
    <3>3. r.op = x.sent /\ NoSubs(Tail(x.tx))
      BY <1>0, <3>1, <3>2, TailSubs
    <3>4. QED
      BY <1>7, <1>8, <3>3
  <2>3. QED
    BY <1>12, <2>1, <2>2 DEF Coming
<1>13. ~(s.est /\ s.added /\ s.sent # "rem")
  <2>1. x.est => x.key # None
    BY DEF NodeOK, Bound
  <2>2. x.est => x.sent \in Subs
    BY <1>11, <2>1 DEF United, Steady, Ordered
  <2>3. QED
    BY <1>8, <2>2 DEF United, Steady, Groups, Subs
<1>14. QED
  BY <1>6, <1>8, <1>10, <1>12, <1>13 DEF United, Agreed, g, s

\* Whatever request reaches the Friend.
LEMMA ReceiveUnited ==
  ASSUME NEW n \in Nat, NodeOK(l, n), l.tx # <<>>, FriendOK(f), United(f, l),
         Head(l.tx).op # "clearing"
  PROVE  United(FriendRecv(f, Head(l.tx)), Started(l))
<1> DEFINE r == Head(l.tx)
           s == Started(l)
<1>1. /\ r \in Asked /\ l.again \in BOOLEAN /\ f \in Context
      /\ NodeOK(s, n) /\ United(f, s)
  BY FirstRequest, StartedOK, StartedUnited DEF NodeOK, Node, FriendOK
<1>2. CASE r.op = "req"
  BY <1>1, <1>2, RequestUnited DEF FriendRecv
<1>3. CASE r.op = "clear"
  <2>1. FriendRecv(f, r) = FriendClear(f)
    BY <1>3 DEF FriendRecv
  <2> HIDE DEF s
  <2>2. QED
    BY <1>1, <2>1, ClearCarries, CarriesUnited DEF s
<1>4. CASE r.op \notin {"req", "clear"} /\ (~f.valid \/ f.pendBuf \/ r.key # f.key)
  <2>1. FriendRecv(f, r) = f
    BY <1>4 DEF FriendRecv
  <2>2. QED
    BY <1>1, <2>1
<1>5. CASE r.op = "poll" /\ ~(~f.valid \/ f.pendBuf \/ r.key # f.key)
  <2>1. FriendRecv(f, r) = FriendPoll(f, r.arg)
    BY <1>5 DEF FriendRecv
  <2>2. r.arg \in {0, 1}
    BY <1>1, <1>5 DEF Asked
  <2> HIDE DEF s
  <2>3. QED
    BY <1>1, <1>5, <2>1, <2>2, PollUnited DEF s
<1>6. CASE r.op \in Subs /\ ~(~f.valid \/ f.pendBuf \/ r.key # f.key)
  <2>1. FriendRecv(f, r) = IF f.est THEN FriendSub(f, r.op, r.arg) ELSE f
    BY <1>6 DEF FriendRecv, Subs
  <2>2. QED
    BY <1>1, <1>6, <2>1, SubUnited
<1>7. r.op \in {"req", "clear", "poll"} \cup Subs
  BY <1>1 DEF Asked, Request, Subs
<1>8. QED
  BY <1>2, <1>3, <1>4, <1>5, <1>6, <1>7 DEF Subs

-----------------------------------------------------------------------------
LEMMA SettledUnited ==
  ASSUME NEW x, United(f, x), NEW y, Settled(x, y), x.st \notin Asking,
         f.valid /\ f.key = x.key => f.est,
         y.added /\ f.est /\ f.key = x.key => f.sub
  PROVE  United(f, y)
<1>1. Together(f, y)
  BY DEF United, Together, Settled
<1>2. ~Coming(f, y)
  BY DEF Settled, Unconfirmed, Coming
<1>3. QED
  BY <1>1, <1>2 DEF United, Agreed, Settled

\* The node hears what the Friend has on the air.
LEMMA HearsUnited ==
  ASSUME FriendOK(f), NEW n \in 0..MaxCalls, NEW x, NodeOK(x, n), United(f, x),
         x.st \in {"waitoffer", "waitupdate", "clear"},
         f.air # NoPdu, f.air.kind # "offer" => f.airKey = x.key
  PROVE  United(f, LpnRecv(x, f.air, TRUE))
<1>0. /\ n \in Nat /\ f \in Context /\ f.air \in Real /\ f.airKey # None
      /\ f.key \in Int /\ f.airKey \in Int /\ x.counter \in Int
      /\ Steady(x) /\ Groups(x) /\ Ordered(x) /\ f.air.kind # "none"
  BY Constants
  DEF FriendOK, Keyed, Context, NodeOK, Node, Counter, None, United, Steady, Real
<1>1. CASE f.air.kind = "offer"
  <2>1. CASE x.st # "waitoffer"
    BY <1>1, <2>1 DEF LpnRecv
  <2>2. CASE x.st = "waitoffer"
    <3> DEFINE y == LpnOffer(x, f.air.id, TRUE)
    <3>1. LpnRecv(x, f.air, TRUE) = y
      BY <1>1, <2>2 DEF LpnRecv
    <3>2. /\ Steady(y) /\ ~y.est /\ y.sent = "poll"
          /\ y.counter = x.counter + 1 /\ y.st = "waitupdate"
      BY <1>0, <2>2, HearOffer
    <3> HIDE DEF y
    <3>3. f.key < x.counter + 1 /\ f.airKey < x.counter + 1
      BY <1>0 DEF United, Together
    <3>4. Together(f, y) /\ Agreed(f, y)
      BY <1>0, <3>2, <3>3 DEF Together, Agreed, Coming, Subs
    <3>5. QED
      BY <3>1, <3>2, <3>4 DEF United
  <2>3. QED
    BY <2>1, <2>2
<1>2. CASE f.air.kind # "offer"
  <2>1. /\ x.key # None /\ f.airKey = x.key /\ x.st \notin Asking
    BY <1>0, <1>2, ListenRoom DEF Asking
  <2>2. f.valid /\ f.key = x.key => f.est
    BY <1>0, <1>2, <2>1 DEF United, Quiet
  <2>3. CASE f.air.kind = "update" /\ x.sent = "poll"
    <3> DEFINE y == LpnUpdate(x, TRUE)
    <3>1. LpnRecv(x, f.air, TRUE) = y
      BY <2>3 DEF LpnRecv
    <3>2. Settled(x, y) /\ y.added = x.added
      BY <1>0, <2>1, <2>3, HearUpdate
    <3> HIDE DEF y
    <3>3. x.added => x.est
      BY DEF NodeOK, Bound
    <3>4. y.added /\ f.est /\ f.key = x.key => f.sub
      BY <2>3, <3>2, <3>3 DEF United, Agreed
    <3>5. QED
      BY <2>1, <2>2, <3>1, <3>2, <3>4, SettledUnited
  <2>4. CASE f.air.kind = "confirm" /\ x.sent \in Subs /\ f.air.id = x.xact
    <3> DEFINE y == LpnSubCfm(x, TRUE)
    <3>1. LpnRecv(x, f.air, TRUE) = y
      BY <2>4 DEF LpnRecv, Subs
    <3>2. Coming(f, x)
      BY <1>0, <2>1, <2>4 DEF Coming, Cfm, Real, Pdu
    <3>3. NoSubs(x.tx) /\ (f.est /\ f.key = x.key => (f.sub <=> x.sent = "add"))
      BY <3>2 DEF United, Agreed
    <3>4. Settled(x, y) /\ (y.added => x.sent = "add")
      BY <1>0, <2>1, <2>4, <3>3, HearConfirm
    <3> HIDE DEF y
    <3>5. y.added /\ f.est /\ f.key = x.key => f.sub
      BY <3>3, <3>4
    <3>6. QED
      BY <2>1, <2>2, <3>1, <3>4, <3>5, SettledUnited
  <2>5. CASE /\ ~(f.air.kind = "update" /\ x.sent = "poll")
             /\ ~(f.air.kind = "confirm" /\ x.sent \in Subs /\ f.air.id = x.xact)
    <3> DEFINE y == MsgReceived(x, TRUE)
    <3>1. LpnRecv(x, f.air, TRUE) = y
      BY <1>0, <1>2, <2>5 DEF LpnRecv, Subs, Real, Pdu
    <3>2. y = x \/ (x.est /\ x.sent = "poll" /\ Settled(x, y) /\ y.added = x.added)
      BY <1>0, <2>1, HearMsg
    <3> HIDE DEF y
    <3>3. CASE y = x
      BY <3>1, <3>3
    <3>4. CASE x.est /\ x.sent = "poll" /\ Settled(x, y) /\ y.added = x.added
      <4>1. y.added /\ f.est /\ f.key = x.key => f.sub
        BY <3>4 DEF United, Agreed
      <4>2. QED
        BY <2>1, <2>2, <3>1, <3>4, <4>1, SettledUnited
    <3>5. QED
      BY <3>2, <3>3, <3>4
  <2>6. QED
    BY <2>3, <2>4, <2>5
<1>3. QED
  BY <1>1, <1>2

-----------------------------------------------------------------------------
\* The inductive invariant behind Awake and Served, on top of Inv.
Unity == slips = {} => United(f, l)

LEMMA InitUnity == Init => Unity
<1> SUFFICES ASSUME Init PROVE United(f, l)
  BY DEF Unity
<1>1. /\ f.queue = <<>> /\ f.last = NoPdu /\ f.air = NoPdu /\ ~f.est /\ ~f.valid
      /\ f.key = None /\ f.airKey = None
  BY DEF Init, NoFriendship
<1>2. /\ l.st = "timer" /\ l.timer /\ ~l.est /\ l.sent = "none"
      /\ l.counter = 0 /\ l.key = None
  BY DEF Init
<1>3. None < 0
  BY DEF None
<1>4. Quiet(f)
  BY <1>1, NothingIsReal DEF Quiet
<1>5. Together(f, l) /\ Agreed(f, l)
  BY <1>1, <1>2, <1>3 DEF Together, Agreed, Coming, Asking, Subs, None
<1>6. Steady(l)
  BY <1>2 DEF Steady, Wakes, Groups, Ordered, Subs
<1>7. QED
  BY <1>4, <1>5, <1>6 DEF United

\* Without a slip every send succeeds.
LEMMA NoSlip ==
  ASSUME NEW ok \in Outcomes, slips \cup Failed(ok) = {}
  PROVE  slips = {} /\ ok = TRUE
<1>1. ok \in BOOLEAN
  BY OutcomesAreBoolean
<1>2. QED
  BY <1>1 DEF Failed

LEMMA FriendStepUnity ==
  ASSUME Inv, United(f, l), NEW x, FriendStep(x), Quiet(x),
         Carries(f, x) \/ Cleared(f, x)
  PROVE  United(f', l')
<1>1. f' = x /\ l' = [l EXCEPT !.heard = Remember(x, l.heard)]
  BY DEF FriendStep, Inv, NodeOK, Node
<1>2. United(x, l)
  BY CarriesUnited DEF Inv
<1>3. QED
  BY <1>1, <1>2, HeardUnited DEF Inv

LEMMA NextUnity == Inv /\ Unity /\ [Next]_vars => Unity'
<1> SUFFICES ASSUME Inv, Unity, [Next]_vars, slips' = {} PROVE United(f', l')
  BY DEF Unity
<1>0. /\ FriendOK(f) /\ f \in Context /\ NodeOK(l, calls) /\ l \in Node
      /\ calls \in 0..MaxCalls /\ calls \in Nat
  BY Constants DEF Inv, FriendOK, NodeOK, Others
<1>u. slips = {} => /\ United(f, l) /\ Quiet(f) /\ Steady(l) /\ Groups(l)
                    /\ Ordered(l)
  BY DEF Unity, United, Steady
<1>1. CASE FriendTimer
  <2>1. FriendStep(FriendExpire(f)) /\ slips = {}
    BY <1>1 DEF FriendTimer
  <2>2. QED
    BY <1>0, <1>u, <2>1, ExpireCarries, FriendStepUnity
<1>2. CASE FriendSendStart
  <2>1. FriendStep(SendStart(f)) /\ slips = {}
    BY <1>2 DEF FriendSendStart
  <2>2. QED
    BY <1>0, <1>u, <2>1, SendCarries, FriendStepUnity
<1>3. CASE FriendSendEnd
  <2>1. FriendStep(SendEnd(f)) /\ slips = {}
    BY <1>3 DEF FriendSendEnd
  <2>2. QED
    BY <1>0, <1>u, <2>1, SendCarries, FriendStepUnity
<1>4. CASE FriendEnqueue
  <2> DEFINE p == [kind |-> "data", id |-> sent + 1]
  <2>1. sent + 1 \in Msg
    BY <1>0, <1>4, Constants DEF FriendEnqueue, Inv, Others, Msg
  <2>2. p \in Real /\ p.kind = "data"
    BY <2>1 DEF Real, Pdu
  <2>3. FriendStep(Enqueue(f, p)) /\ f.est /\ slips = {}
    BY <1>4 DEF FriendEnqueue
  <2> HIDE DEF p
  <2>4. LET y == Enqueue(f, p) IN Quiet(y) /\ Alike(f, y) /\ y.last = f.last
    BY <1>0, <1>u, <2>2, <2>3, EnqueueQuiet DEF FriendOK
  <2>5. Carries(f, Enqueue(f, p))
    BY <2>4 DEF Carries, Alike
  <2>6. QED
    BY <1>u, <2>3, <2>4, <2>5, FriendStepUnity
<1>5. CASE LpnHears
  <2>1. PICK ok \in Outcomes :
          /\ l' = [LpnRecv(l, f.air, ok) EXCEPT !.heard = Remember(f, @ \cup {f.air})]
          /\ slips' = slips \cup Failed(ok)
    BY <1>5 DEF LpnHears
  <2>2. slips = {} /\ ok = TRUE
    BY <2>1, NoSlip
  <2>3. /\ f.air # NoPdu /\ f.air \in Real /\ f.airKey # None /\ f' = f
        /\ l.st \in {"waitoffer", "waitupdate", "clear"}
        /\ f.air.kind # "offer" => f.airKey = l.key
        /\ f.air.kind # "none"
    BY <1>0, <1>5 DEF LpnHears, FriendOK, Keyed, Context, Real
  <2> DEFINE y == LpnRecv(l, f.air, TRUE)
             S == Remember(f, y.heard \cup {f.air})
  <2>4. NodeOK(y, calls)
    BY <1>0, <2>3, LpnRecvOK
  <2>5. United(f, y)
    BY <1>0, <1>u, <2>2, <2>3, HearsUnited
  <2>6. l' = [y EXCEPT !.heard = S]
    BY <2>1, <2>2
  <2> HIDE DEF y, S
  <2>7. QED
    BY <2>3, <2>4, <2>5, <2>6, HeardUnited
<1>6. CASE LpnClearCfm
  <2>1. slips = {} /\ f' = f
    BY <1>6 DEF LpnClearCfm
  <2>2. CASE l' = l
    BY <1>u, <2>1, <2>2
  <2>3. CASE l.st = "clear" /\ l' = Cleanup(l, TRUE)
    <3>1. Steady(l') /\ Follows(l, l')
      BY <1>0, <2>3, CleanupSteady DEF Asking
    <3>2. QED
      BY <1>0, <1>u, <2>1, <3>1, FollowsUnited
  <2>4. QED
    BY <1>6, <2>2, <2>3 DEF LpnClearCfm
<1>7. CASE LpnTimer
  <2>1. PICK ok \in Outcomes :
          /\ l' = LpnExpire([l EXCEPT !.timer = FALSE], ok)
          /\ slips' = slips \cup Failed(ok)
    BY <1>7 DEF LpnTimer
  <2>2. slips = {} /\ ok = TRUE /\ f' = f
    BY <1>7, <2>1, NoSlip DEF LpnTimer
  <2>3. Steady(l') /\ Follows(l, l')
    BY <1>0, <1>u, <1>7, <2>1, <2>2, ExpireSteady DEF LpnTimer
  <2>4. QED
    BY <1>0, <1>u, <2>2, <2>3, FollowsUnited
<1>8. CASE LpnSend
  <2> DEFINE r == Head(l.tx)
             x == Started(l)
  <2>1. /\ l.tx # <<>> /\ slips = {}
        /\ \/ /\ r.op # "clearing" /\ f' = FriendRecv(f, r)
              /\ l' = [x EXCEPT !.heard = Remember(f', @)]
           \/ l' = x /\ f' = f
    BY <1>8 DEF LpnSend, Started
  <2>2. NodeOK(x, calls) /\ United(f, x)
    BY <1>0, <1>u, <2>1, StartedOK, StartedUnited
  <2>3. r.op # "clearing" => United(FriendRecv(f, r), x)
    BY <1>0, <1>u, <2>1, ReceiveUnited
  <2> HIDE DEF x, r
  <2>4. CASE l' = x /\ f' = f
    BY <2>2, <2>4
  <2>5. CASE /\ r.op # "clearing" /\ f' = FriendRecv(f, r)
             /\ l' = [x EXCEPT !.heard = Remember(f', @)]
    <3> DEFINE S == Remember(f', x.heard)
    <3>1. l' = [x EXCEPT !.heard = S]
      BY <2>2, <2>5 DEF NodeOK, Node
    <3> HIDE DEF S
    <3>2. QED
      BY <2>2, <2>3, <2>5, <3>1, HeardUnited
  <2>6. QED
    BY <2>1, <2>4, <2>5
<1>9. CASE LpnPoll
  <2>1. PICK ok \in Outcomes :
          l' = SendFriendPoll(l, ok) /\ slips' = slips \cup Failed(ok)
    BY <1>9 DEF LpnPoll
  <2>2. slips = {} /\ ok = TRUE /\ f' = f /\ l.est
    BY <1>9, <2>1, NoSlip DEF LpnPoll
  <2>3. Steady(l') /\ Follows(l, l')
    BY <1>0, <1>u, <2>1, <2>2, PollCall
  <2>4. QED
    BY <1>0, <1>u, <2>2, <2>3, FollowsUnited
<1>10. CASE LpnGroupAdd
  <2> DEFINE x == IF l.group THEN [l EXCEPT !.toRemove = FALSE]
                  ELSE [l EXCEPT !.group = TRUE, !.changed = TRUE]
             readd == IF l.toRemove /\ l.sent = "rem" THEN {"readd"} ELSE {}
  <2>1. PICK ok \in Outcomes :
          /\ l' = IF l.est /\ l.sent = "none" THEN SubUpdate(x, "add", ok) ELSE x
          /\ slips' = slips \cup Failed(ok) \cup readd
    BY <1>10 DEF LpnGroupAdd
  <2>2. slips \cup Failed(ok) = {} /\ readd = {}
    BY <2>1
  <2>3. slips = {} /\ ok = TRUE /\ f' = f /\ ~(l.toRemove /\ l.sent = "rem")
    BY <1>10, <2>2, NoSlip DEF LpnGroupAdd
  <2>4. /\ x \in Node /\ Same(l, x) /\ x.sent = l.sent /\ x.tx = l.tx
        /\ x.xact = l.xact /\ x.timer = l.timer /\ x.pending = l.pending
        /\ l.group => x.group
        /\ l.sent = "rem" /\ ~l.group => x.toRemove = l.toRemove
    BY <1>0 DEF Node, Same
  <2> HIDE DEF x
  <2>5. Groups(x)
    BY <1>u, <2>3, <2>4 DEF Groups, Subs, Same
  <2>6. Steady(l') /\ Follows(l, l')
    BY <1>0, <1>u, <2>1, <2>3, <2>4, <2>5, GroupCall DEF Subs
  <2>7. QED
    BY <1>0, <1>u, <2>3, <2>6, FollowsUnited
<1>11. CASE LpnGroupDel
  <2> DEFINE x == IF l.added \/ l.pending
                    THEN [l EXCEPT !.toRemove = TRUE, !.changed = TRUE]
                    ELSE [l EXCEPT !.group = FALSE]
  <2>1. PICK ok \in Outcomes :
          /\ l' = IF l.est /\ l.sent = "none" THEN SubUpdate(x, "rem", ok) ELSE x
          /\ slips' = slips \cup Failed(ok)
    BY <1>11 DEF LpnGroupDel
  <2>2. slips = {} /\ ok = TRUE /\ f' = f
    BY <1>11, <2>1, NoSlip DEF LpnGroupDel
  <2>3. /\ x \in Node /\ Same(l, x) /\ x.sent = l.sent /\ x.tx = l.tx
        /\ x.xact = l.xact /\ x.timer = l.timer /\ x.pending = l.pending
        /\ l.pending => x.toRemove /\ x.group = l.group
    BY <1>0, ZenonT(40) DEF Node, Same
  <2> HIDE DEF x
  <2>4. Groups(x)
    BY <1>u, <2>2, <2>3 DEF Groups, Subs, Same
  <2>5. Steady(l') /\ Follows(l, l')
    BY <1>0, <1>u, <2>1, <2>2, <2>3, <2>4, GroupCall DEF Subs
  <2>6. QED
    BY <1>0, <1>u, <2>2, <2>5, FollowsUnited
<1>12. CASE UNCHANGED vars
  BY <1>u, <1>12 DEF vars
<1>13. QED
  BY <1>1, <1>2, <1>3, <1>4, <1>5, <1>6, <1>7, <1>8, <1>9, <1>10, <1>11, <1>12
  DEF Next

LEMMA AlwaysUnited == Spec => []Unity
BY InitUnity, NextUnity, Invariance, PTL DEF Spec

(***************************************************************************)
(* The node always has a timer or a request in its advertiser, unless a    *)
(* send failed or a group came back during its removal: no sequence of     *)
(* polls, answers, timeouts and calls of the application leaves lpn.c      *)
(* waiting for nothing (lpn_timeout, req_sent, bt_mesh_lpn_poll).          *)
(***************************************************************************)
THEOREM AlwaysAwake == Spec => []Awake
<1>1. Unity => Awake
  BY DEF Unity, Awake, United, Steady, Wakes
<1>2. QED
  BY <1>1, AlwaysUnited, PTL

(***************************************************************************)
(* A group the node counts as added is on the Friend's list while both are *)
(* in the same friendship: a late, lost or repeated confirmation, and one  *)
(* of an earlier request or friendship, never leaves them apart            *)
(* (sub_update, bt_mesh_lpn_friend_sub_cfm, bt_mesh_friend_sub_add).       *)
(***************************************************************************)
THEOREM GroupServed == Spec => []Served
<1>1. Unity => Served
  BY DEF Unity, Served, United, Agreed
<1>2. QED
  BY <1>1, AlwaysUnited, PTL

-----------------------------------------------------------------------------
(***************************************************************************)
(* The requests of node state y are q, or q and one more, which y has just *)
(* made.                                                                   *)
(***************************************************************************)
Grows(q, y) ==
  \/ y.tx = q
  \/ \E r \in Asked :
       /\ y.tx = Append(q, r) /\ r.key = y.key
       /\ r.op = "poll" => r.arg = y.fsn /\ y.sent = "poll"
       /\ r.op \in Subs => y.sent \in Subs
       /\ r.op = "clear" => r.arg = y.counter

\* Node states x and y are in the same turn of the same friendship.
Level(x, y) ==
  /\ y.est = x.est /\ y.key = x.key /\ y.fsn = x.fsn
  /\ y.counter = x.counter /\ y.st = x.st /\ y.heard = x.heard

\* One request at a time: none since q while there is no request under way.
Single(q, y) == Grows(q, y) /\ (y.sent = "none" => y.tx = q)

LEMMA PollSingle ==
  ASSUME NEW x \in Node, NEW q, Single(q, x), NEW ok \in BOOLEAN
  PROVE  LET y == SendFriendPoll(x, ok)
         IN  /\ Single(q, y) /\ Level(x, y)
             /\ x.sent # "none" => y.sent = x.sent
             /\ ok => y.sent # "none"
<1> DEFINE r == [op |-> "poll", arg |-> x.fsn, key |-> x.key]
           y == SendFriendPoll(x, ok)
<1>0. /\ x.tx \in Seq(Asked) /\ x.key \in Counter \cup {None} /\ x.fsn \in {0, 1}
  BY DEF Node
<1>1. r \in Asked /\ r.op = "poll" /\ r.arg = x.fsn /\ r.key = x.key
  BY <1>0, RequestTypes
<1>2. CASE x.sent = "poll" \/ (x.sent = "none" /\ ~ok)
  BY <1>2 DEF SendFriendPoll, Level
<1>3. CASE x.sent \notin {"poll", "none"}
  <2>1. y = [x EXCEPT !.pendPoll = TRUE]
    BY <1>3 DEF SendFriendPoll
  <2>2. Level(x, y) /\ y.sent = x.sent /\ y.tx = x.tx
    BY <2>1 DEF Node, Level
  <2> HIDE DEF y
  <2>3. Single(q, y)
    BY <1>3, <2>2 DEF Single, Grows, Level
  <2>4. QED
    BY <1>3, <2>2, <2>3 DEF y
<1>4. CASE x.sent = "none" /\ ok
  <2>1. y = [x EXCEPT !.pendPoll = FALSE, !.sent = "poll", !.tx = Append(x.tx, r)]
    BY <1>4 DEF SendFriendPoll, SendReq, Node
  <2>2. Level(x, y) /\ y.sent = "poll" /\ y.tx = Append(x.tx, r)
    BY <2>1 DEF Node, Level
  <2>3. x.tx = q
    BY <1>4 DEF Single
  <2> HIDE DEF y, r
  <2>4. Single(q, y)
    BY <1>1, <2>2, <2>3 DEF Single, Grows, Level, Subs
  <2>5. QED
    BY <1>4, <2>2, <2>4 DEF y
<1>5. QED
  BY <1>2, <1>3, <1>4

LEMMA SubSingle ==
  ASSUME f \in Context, NEW x \in Node, Len(x.tx) <= 2 + MaxCalls,
         NEW q, Single(q, x), NEW op \in Subs, NEW ok \in BOOLEAN
  PROVE  LET y == SubUpdate(x, op, ok)
         IN  /\ Single(q, y) /\ Level(x, y)
             /\ x.sent # "none" => y.sent = x.sent
<1> DEFINE y == SubUpdate(x, op, ok)
<1>0. /\ x.tx \in Seq(Asked) /\ x.key \in Counter \cup {None}
  BY DEF Node
<1>1. \/ y = x
      \/ x.sent = "none" /\ y = [x EXCEPT !.pending = FALSE]
      \/ /\ x.sent = "none"
         /\ \E a \in Num : y = [x EXCEPT !.pending = TRUE, !.sent = op, !.xact = a,
                               !.tx = Append(x.tx, [op |-> op, arg |-> a,
                                                    key |-> x.key])]
  BY SubUpdateIs
<1> HIDE DEF y
<1>2. CASE y = x
  BY <1>2 DEF Level, y
<1>3. CASE x.sent = "none" /\ y = [x EXCEPT !.pending = FALSE]
  <2>1. Level(x, y) /\ y.sent = x.sent /\ y.tx = x.tx
    BY <1>3 DEF Node, Level
  <2>2. Single(q, y)
    BY <1>3, <2>1 DEF Single, Grows, Level
  <2>3. QED
    BY <2>1, <2>2 DEF y
<1>4. ASSUME x.sent = "none", NEW a \in Num,
             y = [x EXCEPT !.pending = TRUE, !.sent = op, !.xact = a,
                           !.tx = Append(x.tx, [op |-> op, arg |-> a,
                                                key |-> x.key])]
      PROVE  Single(q, y) /\ Level(x, y)
  <2> DEFINE r == [op |-> op, arg |-> a, key |-> x.key]
  <2>1. r \in Asked /\ r.op = op /\ r.key = x.key
    BY <1>0, RequestTypes
  <2>2. Level(x, y) /\ y.sent = op /\ y.tx = Append(x.tx, r)
    BY <1>4 DEF Node, Level
  <2>3. x.tx = q
    BY <1>4 DEF Single
  <2> HIDE DEF r
  <2>4. Single(q, y)
    BY <2>1, <2>2, <2>3 DEF Single, Grows, Level, Subs
  <2>5. QED
    BY <2>2, <2>4
<1>5. QED
  BY <1>1, <1>2, <1>3, <1>4 DEF y

LEMMA SyncSingle ==
  ASSUME f \in Context, NEW n \in 0..MaxCalls, NEW x, Answered(x, n),
         NEW q, Single(q, x), NEW ok \in BOOLEAN
  PROVE  LET y == SubSync(x, ok) IN Single(q, y) /\ Level(x, y)
<1> DEFINE z == SubUpdate(x, "add", ok)
           w == SubUpdate(z, "rem", ok)
           y == [w EXCEPT !.changed = (w.sent # "none")]
<1>0. \A u : Answered(u, n) => u \in Node /\ Len(u.tx) <= 2 + MaxCalls
  BY LenProperties, Constants DEF Answered, Node
<1>1. Answered(z, n) /\ Single(q, z) /\ Level(x, z)
  BY <1>0, SubAnswered, SubSingle DEF Subs
<1> HIDE DEF z
<1>2. Answered(w, n) /\ Single(q, w) /\ Level(z, w)
  BY <1>0, <1>1, SubAnswered, SubSingle DEF Subs
<1> HIDE DEF w
<1>3. Level(w, y) /\ y.sent = w.sent /\ y.tx = w.tx
  BY <1>0, <1>2 DEF Node, Level
<1> HIDE DEF y
<1>4. Single(q, y) /\ Level(x, y)
  BY <1>1, <1>2, <1>3 DEF Single, Grows, Level
<1>5. CASE ~x.changed
  BY <1>5 DEF SubSync, Level
<1>6. CASE x.changed
  <2>1. SubSync(x, ok) = y
    BY <1>6 DEF SubSync, z, w, y
  <2>2. QED
    BY <1>4, <2>1
<1>7. QED
  BY <1>5, <1>6

LEMMA LaterSingle ==
  ASSUME NEW x \in Node, NEW q, Single(q, x)
  PROVE  LET y == PollLater(x) IN Single(q, y) /\ Level(x, y) /\ y.sent = x.sent
<1> DEFINE y == PollLater(x)
<1>1. Level(x, y) /\ y.sent = x.sent /\ y.tx = x.tx
  BY DEF PollLater, Node, Level
<1> HIDE DEF y
<1>2. QED
  BY <1>1 DEF Single, Grows, Level, y

-----------------------------------------------------------------------------
(***************************************************************************)
(* Steps of the node in which nothing arrives.  Node state y is x with at  *)
(* most one request more, or with the friendship over.                     *)
(***************************************************************************)
Goes(x, y) ==
  /\ y.key = x.key /\ y.est = x.est /\ y.fsn = x.fsn /\ y.heard = x.heard
  /\ Grows(x.tx, y)
  /\ ~x.est => y.sent \in {x.sent, "poll"}

Ended(x, y) ==
  /\ y.key = None /\ ~y.est /\ y.fsn = 0 /\ y.heard = x.heard
  /\ y.tx = x.tx

\* The counter goes up when the node leaves its search for a Friend.
Counts(x, y) ==
  /\ y.counter \in {x.counter, x.counter + 1}
  /\ y.st \notin Asking => x.st \notin Asking \/ y.counter = x.counter + 1

\* What the node waits for does not change before it arrives.
Insists(x, y) ==
  /\ x.sent = "poll" => y.sent = "poll"
  /\ x.sent \in Subs => y.sent \in Subs

LEMMA CleanupEnds ==
  ASSUME NEW x \in Node, NEW success \in BOOLEAN, x.st \notin Asking
  PROVE  LET y == Cleanup(x, success) IN Ended(x, y) /\ Counts(x, y)
<1> DEFINE y == Cleanup(x, success)
<1>1. /\ y.key = None /\ ~y.est /\ y.fsn = 0 /\ y.heard = x.heard
      /\ y.tx = x.tx /\ y.counter = x.counter
  BY DEF Cleanup, Node
<1> HIDE DEF y
<1>2. QED
  BY <1>1 DEF Ended, Counts, y

LEMMA ClearGoes ==
  ASSUME NEW x \in Node, NEW ok \in BOOLEAN, x.st \notin Asking
  PROVE  LET y == ClearFriendship(x, ok)
         IN  /\ Counts(x, y)
             /\ \/ /\ x.est /\ x.attempts < ClearAttempts
                   /\ Goes(x, y) /\ y.sent = x.sent
                \/ /\ ~(x.est /\ x.attempts < ClearAttempts)
                   /\ Ended(x, y)
<1> DEFINE r == [op |-> "clear", arg |-> x.counter, key |-> x.key]
           y == ClearFriendship(x, ok)
<1>1. CASE x.est /\ x.attempts < ClearAttempts /\ ok
  <2>1. /\ r \in Asked /\ r.op = "clear" /\ r.key = x.key /\ r.arg = x.counter
    BY RequestTypes DEF Node
  <2>2. y = [x EXCEPT !.tx = Append(x.tx, r)]
    BY <1>1 DEF ClearFriendship, SendReq, Node
  <2>3. Level(x, y) /\ y.sent = x.sent /\ y.tx = Append(x.tx, r)
    BY <2>2 DEF Node, Level
  <2> HIDE DEF r, y
  <2>4. Goes(x, y) /\ Counts(x, y)
    BY <2>1, <2>3 DEF Goes, Grows, Level, Counts, Subs
  <2>5. QED
    BY <1>1, <2>3, <2>4 DEF y
<1>2. CASE x.est /\ x.attempts < ClearAttempts /\ ~ok
  <2>1. y = x
    BY <1>2 DEF ClearFriendship, SendReq
  <2>2. QED
    BY <1>2, <2>1 DEF Goes, Grows, Counts
<1>3. CASE ~(x.est /\ x.attempts < ClearAttempts)
  <2>1. y = Cleanup(x, FALSE)
    BY <1>3 DEF ClearFriendship
  <2>2. QED
    BY <1>3, <2>1, CleanupEnds
<1>4. QED
  BY <1>1, <1>2, <1>3

LEMMA ExpireGoes ==
  ASSUME f \in Context, NEW n \in 0..MaxCalls, NEW x, NodeOK(x, n), x.timer,
         x.st \in {"timer", "enabled", "waitoffer", "clear"} => x.tx = <<>>,
         NEW ok \in BOOLEAN
  PROVE  LET y == LpnExpire([x EXCEPT !.timer = FALSE], ok)
         IN  /\ Counts(x, y)
             /\ \/ Goes(x, y) /\ (ok /\ Groups(x) => Insists(x, y))
                \/ Ended(x, y) /\ (x.tx = <<>> \/ x.key = None)
<1>0. n \in Nat
  BY Constants
<1> DEFINE w == [x EXCEPT !.timer = FALSE]
           y == LpnExpire(w, ok)
<1>1. /\ w \in Node /\ w.tx \in Seq(Asked) /\ Len(w.tx) \in Nat
      /\ ~w.timer /\ Len(w.tx) <= 1 + n /\ NoReq(w.tx)
      /\ Alone(w) /\ Bound(w)
      /\ ~w.est /\ w.key # None => w.tx = <<>>
  BY <1>0, RanOut
<1>2. /\ Level(x, w) /\ w.sent = x.sent /\ w.tx = x.tx
      /\ w.added = x.added /\ w.pending = x.pending /\ w.group = x.group
      /\ w.toRemove = x.toRemove
  BY DEF NodeOK, Node, Level
<1>3. w.counter \in Int
  BY <1>1 DEF Node, Counter
<1>4. Single(w.tx, w)
  BY DEF Single, Grows
<1> HIDE DEF w
<1>5. Groups(x) => Groups(w)
  BY <1>2 DEF Groups
\* It is enough to compare with w.
<1>6. SUFFICES /\ Counts(w, y)
               /\ \/ Goes(w, y) /\ (ok /\ Groups(w) => Insists(w, y))
                  \/ Ended(w, y) /\ (w.tx = <<>> \/ w.key = None)
  BY <1>2, <1>5 DEF Counts, Goes, Insists, Ended, Level, w
<1>7. CASE w.st = "clear"
  <2>1. y = ClearFriendship(w, ok)
    BY <1>7 DEF LpnExpire
  <2>2. /\ Counts(w, y) /\ ((Goes(w, y) /\ y.sent = w.sent) \/ Ended(w, y))
    BY <1>1, <1>7, <2>1, ClearGoes DEF Asking
  <2>3. w.tx = <<>>
    BY <1>2, <1>7 DEF Level
  <2> HIDE DEF y
  <2>4. QED
    BY <2>2, <2>3 DEF Insists
<1>8. CASE w.st \in {"timer", "enabled"}
  <2> DEFINE r == [op |-> "req", arg |-> w.counter, key |-> w.key]
  <2>1. r \in Asked /\ r.op = "req" /\ r.key = w.key
    BY <1>1, RequestTypes DEF Node
  <2>2. /\ y.est = w.est /\ y.key = w.key /\ y.sent = w.sent /\ y.fsn = w.fsn
        /\ y.counter = w.counter /\ y.heard = w.heard
        /\ y.tx = IF ok THEN Append(w.tx, r) ELSE w.tx
    BY <1>1, <1>8 DEF LpnExpire, SendReq, Node
  <2> HIDE DEF r, y
  <2>3. Goes(w, y) /\ Insists(w, y)
    BY <2>1, <2>2 DEF Goes, Grows, Insists, Subs
  <2>4. Counts(w, y)
    BY <1>8, <2>2 DEF Counts, Asking
  <2>5. QED
    BY <2>3, <2>4
<1>9. CASE w.st \in Asking \/ w.st = "recvdelay" \/ (w.st = "waitupdate" /\ w.est)
  <2>1. /\ y.est = w.est /\ y.key = w.key /\ y.sent = w.sent /\ y.fsn = w.fsn
        /\ y.heard = w.heard /\ y.tx = w.tx
        /\ \/ w.st = "reqwait" /\ y.st = "waitoffer" /\ y.counter = w.counter
           \/ w.st = "waitoffer" /\ y.st = "enabled" /\ y.counter = w.counter + 1
           \/ w.st \notin Asking /\ y.counter = w.counter
    BY <1>1, <1>9 DEF LpnExpire, UpdateTimeout, Node, Asking
  <2> HIDE DEF y
  <2>2. Goes(w, y) /\ Insists(w, y)
    BY <2>1 DEF Goes, Grows, Insists
  <2>3. Counts(w, y)
    BY <1>9, <2>1 DEF Counts, Asking
  <2>4. QED
    BY <2>2, <2>3
<1>10. CASE w.st = "established"
  <2> DEFINE c == [w EXCEPT !.attempts = 0]
             z == [w EXCEPT !.sent = "none"]
  <2>0. w.est /\ w.st \notin Asking
    BY <1>1, <1>10 DEF Bound, Asking
  <2>1. CASE w.attempts >= Attempts
    <3>1. y = ClearFriendship(c, ok)
      BY <1>10, <2>1 DEF LpnExpire
    <3>2. 0 \in 0..2 * Attempts /\ 0 < ClearAttempts
      BY Constants
    <3>3. /\ c \in Node /\ Level(w, c) /\ c.sent = w.sent /\ c.tx = w.tx
          /\ c.attempts = 0
      BY <1>1, <3>2 DEF Node, Level
    <3> HIDE DEF c
    <3>4. Counts(c, y) /\ Goes(c, y) /\ y.sent = c.sent
      BY <2>0, <3>1, <3>2, <3>3, ClearGoes DEF Level
    <3> HIDE DEF y
    <3>5. QED
      BY <3>3, <3>4 DEF Counts, Goes, Insists, Level
  <2>2. /\ z \in Node /\ Level(w, z) /\ z.sent = "none" /\ z.tx = w.tx
        /\ z.added = w.added /\ z.group = w.group /\ z.toRemove = w.toRemove
    BY <1>1 DEF Node, Level
  <2>3. Single(w.tx, z)
    BY <2>2 DEF Single, Grows
  <2>4. CASE ~(w.attempts >= Attempts) /\ w.sent \in {"none", "poll"}
    <3>1. y = SendFriendPoll(z, ok)
      BY <1>10, <2>4 DEF LpnExpire
    <3> HIDE DEF z
    <3>2. Single(w.tx, y) /\ Level(z, y)
      BY <2>2, <2>3, <3>1, PollSingle
    <3>3. ok => y.sent = "poll"
      <4>1. ASSUME ok PROVE y.sent = "poll"
        <5>1. y = SendReq([z EXCEPT !.pendPoll = FALSE, !.sent = "poll"],
                          "poll", z.fsn, TRUE)
          BY <2>2, <3>1, <4>1 DEF SendFriendPoll
        <5>2. QED
          BY <2>2, <5>1 DEF SendReq, Node
      <4>2. QED
        BY <4>1
    <3> HIDE DEF y
    <3>4. Goes(w, y) /\ Counts(w, y)
      BY <2>0, <2>2, <3>2 DEF Goes, Single, Level, Counts
    <3>5. ok => Insists(w, y)
      BY <2>4, <3>3 DEF Insists, Subs
    <3>6. QED
      BY <3>4, <3>5
  <2>5. CASE ~(w.attempts >= Attempts) /\ w.sent \notin {"none", "poll"}
    <3>1. y = SubUpdate(z, w.sent, ok)
      BY <1>10, <2>5 DEF LpnExpire
    <3>2. w.sent \in Subs
      BY <1>1, <2>5 DEF Node, Subs
    <3> HIDE DEF z
    <3>3. Len(z.tx) <= 2 + MaxCalls
      BY <1>0, <1>1, <2>2, Constants
    <3>4. Single(w.tx, y) /\ Level(z, y)
      BY <2>2, <2>3, <3>1, <3>2, <3>3, SubSingle
    <3>5. ASSUME ok, Groups(w) PROVE y.sent = w.sent
      <4>1. /\ z.group /\ (w.sent = "add" => ~z.added)
            /\ (w.sent = "rem" => z.toRemove)
        BY <2>2, <3>2, <3>5 DEF Groups
      <4>2. IF w.sent = "add" THEN ~z.added ELSE z.toRemove
        BY <3>2, <4>1 DEF Subs
      <4>3. SubUpdate(z, w.sent, TRUE).sent = w.sent
        BY <2>2, <3>2, <3>3, <4>1, <4>2, SubAsked
      <4>4. QED
        BY <3>1, <3>5, <4>3
    <3> HIDE DEF y
    <3>6. Goes(w, y) /\ Counts(w, y)
      BY <2>0, <2>2, <3>4 DEF Goes, Single, Level, Counts
    <3>7. QED
      BY <3>5, <3>6 DEF Insists
  <2>6. QED
    BY <2>1, <2>4, <2>5
<1>11. CASE w.st = "waitupdate" /\ ~w.est
  <2>0. w.st \notin Asking
    BY <1>11 DEF Asking
  <2>1. CASE w.attempts < 2 * Attempts /\ ok
    <3> DEFINE r == [op |-> "poll", arg |-> w.fsn, key |-> w.key]
    <3>1. r \in Asked /\ r.op = "poll" /\ r.arg = w.fsn /\ r.key = w.key
      BY <1>1, RequestTypes DEF Node
    <3>2. y = [w EXCEPT !.pendPoll = FALSE, !.sent = "poll", !.tx = Append(w.tx, r)]
      BY <1>1, <1>11, <2>1 DEF LpnExpire, UpdateTimeout, SendFriendPoll, SendReq, Node
    <3>3. Level(w, y) /\ y.sent = "poll" /\ y.tx = Append(w.tx, r)
      BY <1>1, <3>2 DEF Node, Level
    <3> HIDE DEF r, y
    <3>4. w.sent \notin Subs
      BY <1>1, <1>11 DEF Bound
    <3>5. Goes(w, y) /\ Insists(w, y) /\ Counts(w, y)
      BY <2>0, <3>1, <3>3, <3>4 DEF Goes, Grows, Insists, Level, Counts, Subs
    <3>6. QED
      BY <3>5
  <2>2. CASE ~(w.attempts < 2 * Attempts /\ ok)
    <3>1. y = ClearFriendship(w, ok)
      BY <1>11, <2>2 DEF LpnExpire, UpdateTimeout
    <3>2. Counts(w, y) /\ Ended(w, y)
      BY <1>1, <1>11, <2>0, <3>1, ClearGoes
    <3>3. QED
      BY <1>1, <1>11, <3>2
  <2>3. QED
    BY <2>1, <2>2
<1>12. QED
  BY <1>1, <1>7, <1>8, <1>9, <1>10, <1>11 DEF Node, Asking

\* A call of the application.
LEMMA PollGoes ==
  ASSUME NEW x \in Node, x.st \notin Asking, NEW ok \in BOOLEAN
  PROVE  LET y == SendFriendPoll(x, ok)
         IN  Goes(x, y) /\ Counts(x, y) /\ Insists(x, y)
<1> DEFINE y == SendFriendPoll(x, ok)
<1>1. Single(x.tx, x)
  BY DEF Single, Grows
<1>2. Single(x.tx, y) /\ Level(x, y) /\ (x.sent # "none" => y.sent = x.sent)
  BY <1>1, PollSingle
<1>3. x.sent = "none" => y.sent \in {x.sent, "poll"}
  BY DEF SendFriendPoll, SendReq, Node
<1> HIDE DEF y
<1>4. QED
  BY <1>2, <1>3 DEF Goes, Single, Level, Counts, Insists, Subs, y

LEMMA GroupGoes ==
  ASSUME f \in Context, NEW n \in 0..MaxCalls, NEW x, NodeOK(x, n),
         NEW z \in Node, Level(x, z), z.sent = x.sent, z.tx = x.tx,
         NEW op \in Subs, NEW ok \in BOOLEAN
  PROVE  LET y == IF x.est /\ x.sent = "none" THEN SubUpdate(z, op, ok) ELSE z
         IN  Goes(x, y) /\ Counts(x, y) /\ Insists(x, y)
<1> DEFINE y == SubUpdate(z, op, ok)
<1>0. /\ Len(x.tx) \in Nat /\ Len(z.tx) <= 2 + MaxCalls
      /\ x.est => x.st \notin Asking
  <2>1. Len(x.tx) \in Nat /\ Len(x.tx) <= 2 + n /\ n \in Nat
    BY LenProperties, Constants DEF NodeOK, Node, Loaded
  <2>2. x.est => x.st \notin Asking
    BY DEF NodeOK, Alone, Asking
  <2>3. QED
    BY <2>1, <2>2, Constants
<1>1. CASE ~(x.est /\ x.sent = "none")
  BY <1>1 DEF Goes, Grows, Level, Counts, Insists
<1>2. CASE x.est /\ x.sent = "none"
  <2>1. Single(x.tx, z)
    BY DEF Single, Grows
  <2>2. Single(x.tx, y) /\ Level(z, y)
    BY <1>0, <2>1, SubSingle
  <2> HIDE DEF y
  <2>3. Goes(x, y) /\ Counts(x, y) /\ Insists(x, y)
    BY <1>0, <1>2, <2>2 DEF Goes, Single, Level, Counts, Insists, Subs
  <2>4. QED
    BY <1>2, <2>3 DEF y
<1>3. QED
  BY <1>1, <1>2

-----------------------------------------------------------------------------
(***************************************************************************)
(* Node state y is x after a PDU of the friendship that answers what it    *)
(* waited for: the bit turns after a poll, and one more request may go.    *)
(***************************************************************************)
Replies(x, y) ==
  /\ y.est /\ y.key = x.key /\ y.counter = x.counter /\ y.st = "established"
  /\ y.heard = x.heard /\ Single(x.tx, y)
  /\ y.fsn = IF x.sent = "poll" THEN 1 - x.fsn ELSE x.fsn

LEMMA ResponseNode ==
  ASSUME NEW x \in Node
  PROVE  Response(x) \in Node
<1> DEFINE b == IF x.sent = "poll" THEN 1 - x.fsn ELSE x.fsn
<1>1. b \in {0, 1} /\ 0 \in 0..2 * Attempts
  <2>1. x.fsn = 0 \/ x.fsn = 1
    BY DEF Node
  <2>2. QED
    BY <2>1, Constants
<1>2. Response(x) = [x EXCEPT !.fsn = b, !.timer = FALSE, !.st = "established",
                              !.attempts = 0, !.sent = "none"]
  BY DEF Response, Node
<1> HIDE DEF b
<1>3. QED
  BY <1>1, <1>2 DEF Node

LEMMA ResponseReplies ==
  ASSUME NEW x \in Node, x.est
  PROVE  LET y == Response(x) IN Replies(x, y) /\ y.sent = "none" /\ y.tx = x.tx
<1> DEFINE y == Response(x)
<1>1. /\ y.est /\ y.key = x.key /\ y.counter = x.counter /\ y.st = "established"
      /\ y.heard = x.heard /\ y.tx = x.tx /\ y.sent = "none"
      /\ y.fsn = IF x.sent = "poll" THEN 1 - x.fsn ELSE x.fsn
  BY DEF Response, Node
<1> HIDE DEF y
<1>2. QED
  BY <1>1 DEF Replies, Single, Grows, y

LEMMA LevelReplies ==
  ASSUME NEW x, NEW y, NEW z, Replies(x, y), Level(y, z), Single(x.tx, z)
  PROVE  Replies(x, z)
BY DEF Replies, Level

LEMMA UpdateReplies ==
  ASSUME f \in Context, NEW n \in 0..MaxCalls, NEW x, NodeOK(x, n), x.key # None,
         x.st \in {"waitoffer", "waitupdate", "clear"}, NEW ok \in BOOLEAN
  PROVE  Replies(x, LpnUpdate(x, ok))
<1>0. n \in Nat
  BY Constants
<1> DEFINE w == [x EXCEPT !.est = TRUE]
           y == Response(w)
           z == SubSync(y, ok)
<1>1. /\ w \in Node /\ w.est /\ w.key = x.key /\ w.tx = x.tx /\ w.sent = x.sent
      /\ w.counter = x.counter /\ w.heard = x.heard /\ w.fsn = x.fsn
  BY DEF NodeOK, Node
<1> HIDE DEF w
<1>2. Answered(y, n)
  BY <1>0, <1>1, ListenRoom, ResponseAnswered
<1>3. Replies(x, y)
  <2>1. Replies(w, y)
    BY <1>1, ResponseReplies
  <2> HIDE DEF y
  <2>2. QED
    BY <1>1, <2>1 DEF Replies
<1> HIDE DEF y
<1>4. Answered(z, n) /\ Single(x.tx, z) /\ Level(y, z)
  BY <1>2, <1>3, SyncAnswered, SyncSingle DEF Replies
<1>5. Replies(x, z) /\ z \in Node
  BY <1>3, <1>4, LevelReplies DEF Answered
<1> HIDE DEF z
<1>6. Replies(x, PollLater(z))
  BY <1>4, <1>5, LaterSingle, LevelReplies
<1>7. QED
  BY <1>6 DEF LpnUpdate, w, y, z

LEMMA MsgReplies ==
  ASSUME NEW x \in Node, NEW ok \in BOOLEAN
  PROVE  LET y == MsgReceived(x, ok)
         IN  \/ y = x
             \/ /\ x.est /\ x.sent = "poll" /\ Replies(x, y)
                /\ ok => y.sent = "poll"
<1>1. CASE x.est /\ x.st = "waitupdate" /\ x.sent = "poll"
  <2> DEFINE w == Response(x)
             y == SendFriendPoll(w, ok)
  <2>1. Replies(x, w) /\ w.sent = "none" /\ w.tx = x.tx
    BY <1>1, ResponseReplies
  <2>2. w \in Node
    BY ResponseNode
  <2> HIDE DEF w
  <2>3. Single(x.tx, y) /\ Level(w, y)
    BY <2>1, <2>2, PollSingle DEF Replies
  <2>4. ok => y.sent = "poll"
    BY <2>1, <2>2 DEF SendFriendPoll, SendReq, Node
  <2>5. MsgReceived(x, ok) = y
    BY <1>1 DEF MsgReceived, w
  <2> HIDE DEF y
  <2>6. Replies(x, y)
    BY <2>1, <2>3, LevelReplies
  <2>7. QED
    BY <1>1, <2>4, <2>5, <2>6
<1>2. CASE ~(x.est /\ x.st = "waitupdate" /\ x.sent = "poll")
  BY <1>2 DEF MsgReceived
<1>3. QED
  BY <1>1, <1>2

LEMMA ConfirmReplies ==
  ASSUME f \in Context, NEW n \in 0..MaxCalls, NEW x, NodeOK(x, n), x.key # None,
         x.st \in {"waitoffer", "waitupdate", "clear"}, x.sent \in Subs,
         NEW ok \in BOOLEAN
  PROVE  Replies(x, LpnSubCfm(x, ok))
<1>0. n \in Nat /\ x \in Node
  BY Constants DEF NodeOK
<1> DEFINE w == IF x.sent = "add"
                  THEN [x EXCEPT !.added = @ \/ x.pending, !.pending = FALSE]
                  ELSE [x EXCEPT !.added = @ /\ ~x.pending, !.pending = FALSE,
                                 !.group = @ /\ ~(x.pending /\ x.toRemove),
                                 !.toRemove = @ /\ ~x.pending]
           y == Response(w)
           z == SubSync(y, ok)
           u == IF z.pendPoll THEN SendFriendPoll(z, ok) ELSE z
<1>1. /\ w \in Node /\ w.est = x.est /\ w.key = x.key /\ w.tx = x.tx
      /\ w.sent = x.sent /\ w.counter = x.counter /\ w.heard = x.heard
      /\ w.fsn = x.fsn
  <2>1. CASE x.sent = "add"
    BY <1>0, <2>1 DEF Node
  <2>2. CASE x.sent # "add"
    <3> DEFINE a == x.added /\ ~x.pending
               g == x.group /\ ~(x.pending /\ x.toRemove)
               t == x.toRemove /\ ~x.pending
    <3>1. a \in BOOLEAN /\ g \in BOOLEAN /\ t \in BOOLEAN
      OBVIOUS
    <3>2. w = [x EXCEPT !.added = a, !.pending = FALSE, !.group = g, !.toRemove = t]
      BY <1>0, <2>2 DEF Node
    <3> DEFINE w1 == [x EXCEPT !.added = a, !.pending = FALSE]
               w2 == [w1 EXCEPT !.group = g]
               w3 == [w2 EXCEPT !.toRemove = t]
    <3> HIDE DEF a, g, t, w, y, z, u
    <3>3. w = w3
      BY <1>0, <3>2 DEF Node
    <3>4. w1 \in Node
      BY <1>0, <3>1 DEF Node
    <3>5. w2 \in Node
      <4> HIDE DEF w1
      <4> QED
        BY <3>1, <3>4 DEF Node
    <3>6. w3 \in Node
      <4> HIDE DEF w2
      <4> QED
        BY <3>1, <3>5 DEF Node
    <3>7. /\ w.est = x.est /\ w.key = x.key /\ w.tx = x.tx
          /\ w.sent = x.sent /\ w.counter = x.counter /\ w.heard = x.heard
          /\ w.fsn = x.fsn
      BY <1>0, <3>2 DEF Node
    <3>8. QED
      BY <3>3, <3>6, <3>7
  <2>3. QED
    BY <2>1, <2>2
<1>2. x.est
  BY DEF NodeOK, Bound
<1> HIDE DEF w
<1>3. Answered(y, n)
  BY <1>0, <1>1, <1>2, ListenRoom, ResponseAnswered
<1>4. Replies(x, y)
  <2>1. Replies(w, y)
    BY <1>1, <1>2, ResponseReplies
  <2> HIDE DEF y
  <2>2. QED
    BY <1>1, <2>1 DEF Replies
<1> HIDE DEF y
<1>5. Answered(z, n) /\ Single(x.tx, z) /\ Level(y, z)
  BY <1>3, <1>4, SyncAnswered, SyncSingle DEF Replies
<1>6. Replies(x, z) /\ z \in Node
  BY <1>4, <1>5, LevelReplies DEF Answered
<1> HIDE DEF z
<1>7. Replies(x, u) /\ u \in Node
  <2>1. CASE z.pendPoll
    <3>1. Answered(u, n) /\ Single(x.tx, u) /\ Level(z, u)
      BY <1>0, <1>5, <1>6, <2>1, PollAnswered, PollSingle
    <3> HIDE DEF u
    <3>2. QED
      BY <1>6, <3>1, LevelReplies DEF Answered
  <2>2. CASE ~z.pendPoll
    BY <1>6, <2>2
  <2>3. QED
    BY <2>1, <2>2
<1> HIDE DEF u
<1>8. Replies(x, PollLater(u))
  BY <1>7, LaterSingle, LevelReplies DEF Replies
<1>9. LpnSubCfm(x, ok) = PollLater(u)
  BY DEF LpnSubCfm, u, z, y, w
<1>10. QED
  BY <1>8, <1>9

LEMMA RecvReplies ==
  ASSUME f \in Context, NEW n \in 0..MaxCalls, NEW x, NodeOK(x, n), x.key # None,
         x.st \in {"waitoffer", "waitupdate", "clear"}, NEW ok \in BOOLEAN,
         NEW p \in Real, p.kind \notin {"none", "offer"}
  PROVE  LET y == LpnRecv(x, p, ok)
         IN  \/ y = x
             \/ /\ Replies(x, y)
                /\ x.sent = "poll" \/ (x.sent \in Subs /\ p = Cfm(x))
<1>0. x \in Node
  BY DEF NodeOK
<1>1. CASE p.kind = "update"
  BY <1>0, <1>1, UpdateReplies, MsgReplies DEF LpnRecv
<1>2. CASE p.kind = "confirm"
  <2>1. CASE x.sent \in Subs /\ p.id = x.xact
    <3>1. p = Cfm(x)
      BY <1>2, <2>1 DEF Cfm, Real, Pdu
    <3>2. LpnRecv(x, p, ok) = LpnSubCfm(x, ok)
      BY <1>2, <2>1 DEF LpnRecv, Subs
    <3>3. QED
      BY <2>1, <3>1, <3>2, ConfirmReplies
  <2>2. CASE ~(x.sent \in Subs /\ p.id = x.xact)
    BY <1>0, <1>2, <2>2, MsgReplies DEF LpnRecv, Subs
  <2>3. QED
    BY <2>1, <2>2
<1>3. CASE p.kind = "data"
  BY <1>0, <1>3, MsgReplies DEF LpnRecv
<1>4. QED
  BY <1>1, <1>2, <1>3 DEF Real, Pdu

-----------------------------------------------------------------------------
(***************************************************************************)
(* Node state y is x after an offer with counter id was taken.             *)
(***************************************************************************)
Accepts(x, y, id) ==
  /\ y.key = (IF id = x.counter THEN id ELSE None)
  /\ ~y.est /\ y.fsn = x.fsn /\ y.heard = x.heard
  /\ y.counter = x.counter + 1 /\ y.sent = "poll" /\ x.tx = <<>>
  /\ y.tx = <<[op |-> "poll", arg |-> x.fsn, key |-> y.key]>>

LEMMA OfferAccepts ==
  ASSUME NEW n \in Nat, NEW x, NodeOK(x, n), x.st = "waitoffer", NEW id,
         NEW ok \in BOOLEAN
  PROVE  LET y == LpnOffer(x, id, ok)
         IN  \/ Level(x, y) /\ y.tx = x.tx /\ y.sent = x.sent
             \/ Accepts(x, y, id)
<1> DEFINE k == IF id = x.counter THEN id ELSE None
           r == [op |-> "poll", arg |-> x.fsn, key |-> k]
           y == LpnOffer(x, id, ok)
<1>0. /\ x \in Node /\ x.tx = <<>> /\ x.sent = "none" /\ ~x.est
  BY DEF NodeOK, Alone, Node
<1>1. CASE ~ok
  <2>1. y = [x EXCEPT !.timer = FALSE]
    BY <1>0, <1>1 DEF LpnOffer
  <2>2. QED
    BY <1>0, <2>1 DEF Level, Node
<1>2. CASE ok
  <2>1. y = [x EXCEPT !.timer = FALSE, !.key = k, !.pendPoll = FALSE,
                      !.sent = "poll", !.tx = Append(x.tx, r),
                      !.st = "waitupdate", !.counter = x.counter + 1]
    BY <1>0, <1>2 DEF LpnOffer, SendFriendPoll, SendReq, Node
  <2>2. /\ ~y.est /\ y.sent = "poll" /\ y.tx = Append(x.tx, r) /\ y.key = k
        /\ y.counter = x.counter + 1 /\ y.fsn = x.fsn /\ y.heard = x.heard
    BY <1>0, <2>1 DEF Node
  <2>3. Append(<<>>, r) = <<r>>
    BY DEF r
  <2> HIDE DEF y
  <2>4. QED
    BY <1>0, <2>2, <2>3 DEF Accepts, y
<1>3. QED
  BY <1>1, <1>2

-----------------------------------------------------------------------------
(***************************************************************************)
(* The polls and the keys of requests q.                                   *)
(***************************************************************************)
Polls(q, a) == \A i \in 1..Len(q) : q[i].op = "poll" => q[i].arg = a

NoPolls(q) == \A i \in 1..Len(q) : q[i].op # "poll"

\* Polls with bit a come before requests for the group and other polls.
Sorted(q, a) ==
  \A i, j \in 1..Len(q) : i < j /\ q[j].op = "poll" /\ q[j].arg = a =>
    q[i].op \notin Subs /\ (q[i].op = "poll" => q[i].arg = a)

\* Keys of requests, and what a Friend Clear names.
Under(q, K) == \A i \in 1..Len(q) : q[i].key \in K

Names(q, c) == \A i \in 1..Len(q) : q[i].op = "clear" => q[i].arg <= c

\* One request more.
LEMMA AppendPolls ==
  ASSUME NEW q \in Seq(Asked), NEW r \in Asked
  PROVE  LET s == Append(q, r)
         IN  /\ \A a : Polls(q, a) /\ (r.op = "poll" => r.arg = a) => Polls(s, a)
             /\ NoPolls(q) /\ r.op # "poll" => NoPolls(s)
             /\ \A a : Sorted(q, a) /\ (r.op = "poll" => r.arg # a) => Sorted(s, a)
             /\ \A K : Under(q, K) /\ r.key \in K => Under(s, K)
             /\ \A c : Names(q, c) /\ (r.op = "clear" => r.arg <= c) => Names(s, c)
<1> DEFINE s == Append(q, r)
<1>1. /\ s \in Seq(Asked) /\ Len(q) \in Nat /\ Len(s) = Len(q) + 1
      /\ \A i \in 1..Len(q) : s[i] = q[i]
      /\ s[Len(q) + 1] = r
  BY AppendProperties, LenProperties
<1> HIDE DEF s
<1>2. \A i \in 1..Len(s) : i \in 1..Len(q) \/ i = Len(q) + 1
  BY <1>1
<1>3. \A a : Polls(q, a) /\ (r.op = "poll" => r.arg = a) => Polls(s, a)
  BY <1>1, <1>2 DEF Polls
<1>4. NoPolls(q) /\ r.op # "poll" => NoPolls(s)
  BY <1>1, <1>2 DEF NoPolls
<1>5. ASSUME NEW a, Sorted(q, a), r.op = "poll" => r.arg # a PROVE Sorted(s, a)
  <2>1. SUFFICES ASSUME NEW i \in 1..Len(s), NEW j \in 1..Len(s), i < j,
                        s[j].op = "poll", s[j].arg = a
                 PROVE  s[i].op \notin Subs /\ (s[i].op = "poll" => s[i].arg = a)
    BY DEF Sorted
  <2>2. j \in 1..Len(q)
    BY <1>1, <1>2, <1>5, <2>1
  <2>3. i \in 1..Len(q)
    BY <1>1, <2>1, <2>2
  <2>4. s[i] = q[i] /\ s[j] = q[j]
    BY <1>1, <2>2, <2>3
  <2>5. QED
    BY <1>5, <2>1, <2>2, <2>3, <2>4 DEF Sorted
<1>6. \A K : Under(q, K) /\ r.key \in K => Under(s, K)
  BY <1>1, <1>2 DEF Under
<1>7. \A c : Names(q, c) /\ (r.op = "clear" => r.arg <= c) => Names(s, c)
  BY <1>1, <1>2 DEF Names
<1>8. QED
  BY <1>3, <1>4, <1>5, <1>6, <1>7 DEF s

\* Requests s are q without the first d, but for one that is a Friend Clear.
Shifts(q, s, d) ==
  \A i \in 1..Len(s) :
    /\ i + d \in 1..Len(q)
    /\ s[i] = q[i + d] \/ (s[i].op = "clearing" /\ s[i].key = q[i + d].key)

LEMMA ShiftPolls ==
  ASSUME NEW q \in Seq(Asked), NEW s \in Seq(Asked), NEW d \in {0, 1},
         Shifts(q, s, d)
  PROVE  /\ \A a : Polls(q, a) => Polls(s, a)
         /\ NoPolls(q) => NoPolls(s)
         /\ \A a : Sorted(q, a) => Sorted(s, a)
         /\ \A K : Under(q, K) => Under(s, K)
         /\ \A c : Names(q, c) => Names(s, c)
<1>0. Len(q) \in Nat /\ Len(s) \in Nat
  BY LenProperties
<1>1. \A a : Polls(q, a) => Polls(s, a)
  BY <1>0 DEF Shifts, Polls
<1>2. NoPolls(q) => NoPolls(s)
  BY <1>0 DEF Shifts, NoPolls
<1>3. ASSUME NEW a, Sorted(q, a) PROVE Sorted(s, a)
  <2>1. SUFFICES ASSUME NEW i \in 1..Len(s), NEW j \in 1..Len(s), i < j,
                        s[j].op = "poll", s[j].arg = a
                 PROVE  s[i].op \notin Subs /\ (s[i].op = "poll" => s[i].arg = a)
    BY DEF Sorted
  <2>2. i + d \in 1..Len(q) /\ j + d \in 1..Len(q) /\ s[j] = q[j + d]
    BY <2>1 DEF Shifts
  <2>3. i + d < j + d
    BY <2>1
  <2>4. q[i + d].op \notin Subs /\ (q[i + d].op = "poll" => q[i + d].arg = a)
    BY <1>3, <2>1, <2>2, <2>3 DEF Sorted
  <2>5. s[i] = q[i + d] \/ s[i].op = "clearing"
    BY <2>1 DEF Shifts
  <2>6. QED
    BY <2>4, <2>5 DEF Subs
<1>4. \A K : Under(q, K) => Under(s, K)
  BY <1>0 DEF Shifts, Under
<1>5. \A c : Names(q, c) => Names(s, c)
  BY <1>0 DEF Shifts, Names
<1>6. QED
  BY <1>1, <1>2, <1>3, <1>4, <1>5

LEMMA StartedShifts ==
  ASSUME NEW n \in Nat, NEW x, NodeOK(x, n), x.tx # <<>>
  PROVE  LET y == Started(x)
             d == IF Head(x.tx).op = "clear" THEN 0 ELSE 1
         IN  /\ y.fsn = x.fsn /\ y.heard = x.heard /\ y \in Node
             /\ y.tx \in Seq(Asked) /\ Shifts(x.tx, y.tx, d)
<1> DEFINE r == Head(x.tx)
           t == Tail(x.tx)
           y == Started(x)
<1>1. /\ x \in Node /\ x.tx \in Seq(Asked) /\ r \in Asked
      /\ t \in Seq(Asked) /\ Len(x.tx) \in Nat /\ Len(t) = Len(x.tx) - 1
      /\ r = x.tx[1] /\ \A i \in 1..Len(t) : t[i] = x.tx[i + 1]
  BY FirstRequest
<1>0. y \in Node /\ y.tx \in Seq(Asked)
  BY StartedOK DEF NodeOK, Node
<1>2. CASE r.op = "clear"
  <2> DEFINE c == [r EXCEPT !.op = "clearing"]
             s == <<c>> \o t
  <2>1. c \in Asked /\ c.op = "clearing" /\ c.key = r.key
    BY <1>1, <1>2 DEF Asked, Request, Subs
  <2>2. y = [x EXCEPT !.tx = s]
    BY <1>2 DEF Started
  <2> HIDE DEF c, r, t
  <2>3. <<c>> \in Seq(Asked) /\ Len(<<c>>) = 1 /\ <<c>>[1] = c
    BY <2>1
  <2>4. /\ s \in Seq(Asked) /\ Len(s) = Len(x.tx)
        /\ \A i \in 1..1 + Len(t) : s[i] = IF i <= 1 THEN <<c>>[i] ELSE t[i - 1]
    BY <1>1, <2>3, ConcatProperties
  <2> HIDE DEF s
  <2>5. Shifts(x.tx, s, 0)
    <3>1. SUFFICES ASSUME NEW i \in 1..Len(s)
                   PROVE  /\ i + 0 \in 1..Len(x.tx)
                          /\ \/ s[i] = x.tx[i + 0]
                             \/ s[i].op = "clearing" /\ s[i].key = x.tx[i + 0].key
      BY DEF Shifts
    <3>2. i + 0 = i /\ i \in 1..Len(x.tx)
      BY <2>4
    <3>3. CASE i = 1
      BY <1>1, <2>1, <2>3, <2>4, <3>2, <3>3
    <3>4. CASE i # 1
      <4>1. i \in 1..1 + Len(t) /\ ~(i <= 1) /\ i - 1 \in 1..Len(t) /\ i - 1 + 1 = i
        BY <1>1, <2>4, <3>1, <3>4
      <4>2. s[i] = t[i - 1] /\ t[i - 1] = x.tx[i]
        BY <1>1, <2>4, <4>1
      <4>3. QED
        BY <3>2, <4>2
    <3>5. QED
      BY <3>3, <3>4
  <2>6. y.fsn = x.fsn /\ y.heard = x.heard /\ y.tx = s
    BY <1>1, <2>2 DEF Node
  <2>7. QED
    BY <1>0, <1>2, <2>5, <2>6 DEF r
<1>3. CASE r.op # "clear"
  <2>1. r.op \in {"req", "poll", "add", "rem", "clearing"}
    BY <1>1, <1>3 DEF Asked, Request
  <2>2. y.fsn = x.fsn /\ y.heard = x.heard /\ y.tx = t
    BY <1>1, <1>3, <2>1 DEF Started, ReqSent, Node
  <2>3. Shifts(x.tx, t, 1)
    BY <1>1 DEF Shifts
  <2>4. QED
    BY <1>0, <1>3, <2>2, <2>3
<1>4. QED
  BY <1>2, <1>3

-----------------------------------------------------------------------------
\* Node state z has made at most one request since q.
LEMMA GrowsPolls ==
  ASSUME NEW q \in Seq(Asked), NEW z, Grows(q, z)
  PROVE  /\ \A K : Under(q, K) /\ z.key \in K => Under(z.tx, K)
         /\ \A c : Names(q, c) /\ z.counter <= c => Names(z.tx, c)
         /\ Polls(q, z.fsn) => Polls(z.tx, z.fsn)
         /\ z.sent # "poll" =>
              /\ NoPolls(q) => NoPolls(z.tx)
              /\ \A a : Polls(q, a) => Polls(z.tx, a)
         /\ \A a : Sorted(q, a) /\ z.fsn # a => Sorted(z.tx, a)
<1>1. CASE z.tx = q
  BY <1>1 DEF Names
<1>2. ASSUME NEW r \in Asked, z.tx = Append(q, r), r.key = z.key,
             r.op = "poll" => r.arg = z.fsn /\ z.sent = "poll",
             r.op = "clear" => r.arg = z.counter
      PROVE  /\ \A K : Under(q, K) /\ z.key \in K => Under(z.tx, K)
             /\ \A c : Names(q, c) /\ z.counter <= c => Names(z.tx, c)
             /\ Polls(q, z.fsn) => Polls(z.tx, z.fsn)
             /\ z.sent # "poll" =>
                  /\ NoPolls(q) => NoPolls(z.tx)
                  /\ \A a : Polls(q, a) => Polls(z.tx, a)
             /\ \A a : Sorted(q, a) /\ z.fsn # a => Sorted(z.tx, a)
  BY <1>2, AppendPolls
<1>3. QED
  BY <1>1, <1>2 DEF Grows

-----------------------------------------------------------------------------
(***************************************************************************)
(* The keys that node state x and its requests use come from its counter,  *)
(* and a node that has a key sends with no other.                          *)
(***************************************************************************)
Before(c) == {k \in Int : k < c}

Early(x) ==
  /\ ~x.est => x.fsn = 0
  /\ ~x.est /\ x.key # None => x.sent = "poll" /\ Polls(x.tx, 0)
  /\ x.key # None => Under(x.tx, {x.key})

Older(x) ==
  /\ x.key < x.counter
  /\ Under(x.tx, Before(x.counter)) /\ Names(x.tx, x.counter)

(***************************************************************************)
(* The context y of the Friend was made by a request of the node, whose    *)
(* key the node takes only with the offer, after the request, and leaves   *)
(* only when no request with it is left.                                   *)
(***************************************************************************)
Keys(y, x) ==
  /\ y.key <= x.counter
  /\ x.st \notin Asking \/ y.est => y.key < x.counter
  /\ y.last.kind = "offer" => y.last.id = y.key
  /\ y.air.kind = "offer" => /\ y.air.id <= x.counter
                             /\ x.st \notin Asking => y.air.id < x.counter
  /\ y.valid => x.key = y.key \/ Under(x.tx, Int \ {y.key})
  /\ y.valid /\ ~y.est /\ y.last # NoPdu =>
       x.key # y.key /\ (y.air.kind = "offer" => y.air.id # y.key)

Linked(y, x) == Early(x) /\ Older(x) /\ Keys(y, x)

LEMMA KeyTypes ==
  /\ Counter \subseteq Nat /\ None \in Int /\ None \notin Counter
  /\ Counter \cup {None} \subseteq Int
BY Constants DEF Counter, None

\* Counter and state of the node go on as Counts says, with the same context.
LEMMA CountsKeys ==
  ASSUME NEW x, NEW z, x.counter \in Nat, z.counter \in Nat, Counts(x, z),
         NEW y, y.key \in Int, y.air.kind = "offer" => y.air.id \in Int, Keys(y, x)
  PROVE  /\ y.key <= z.counter /\ x.counter <= z.counter
         /\ z.st \notin Asking \/ y.est => y.key < z.counter
         /\ y.air.kind = "offer" => /\ y.air.id <= z.counter
                                    /\ z.st \notin Asking => y.air.id < z.counter
<1>1. x.counter <= z.counter /\ (z.st \notin Asking => x.st \notin Asking \/ z.counter = x.counter + 1)
  BY DEF Counts
<1>2. QED
  BY <1>1 DEF Keys

\* The types that comparisons of keys need.
LEMMA LinkTypes ==
  ASSUME NEW n, NEW x, NodeOK(x, n), NEW y, FriendOK(y)
  PROVE  /\ x \in Node /\ x.tx \in Seq(Asked) /\ x.counter \in Nat /\ x.key \in Int
         /\ x.fsn \in {0, 1} /\ y \in Context /\ y.key \in Int
         /\ y.air.kind = "offer" => y.air.id \in Int
         /\ y.last.kind = "offer" => y.last.id \in Int
         /\ y.valid => y.key # None
<1>1. /\ x \in Node /\ x.tx \in Seq(Asked) /\ x.counter \in Counter
      /\ x.key \in Counter \cup {None} /\ x.fsn \in {0, 1}
  BY DEF NodeOK, Node
<1>2. /\ y \in Context /\ y.key \in Counter \cup {None} /\ y.air \in Real /\ y.last \in Real
      /\ y.valid => y.key # None
  BY DEF FriendOK, Context, Keyed
<1>3. QED
  BY <1>1, <1>2, KeyTypes DEF Real

LEMMA UnderMore ==
  ASSUME NEW q, NEW K, NEW M, Under(q, K), K \subseteq M
  PROVE  Under(q, M)
BY DEF Under

LEMMA NamesMore ==
  ASSUME NEW q \in Seq(Asked), NEW c \in Int, NEW d \in Int, Names(q, c), c <= d
  PROVE  Names(q, d)
<1>1. ASSUME NEW i \in 1..Len(q), q[i].op = "clear" PROVE q[i].arg \in Int
  <2>1. q[i] \in Asked
    BY ElementOfSeq
  <2>2. QED
    BY <1>1, <2>1, KeyTypes DEF Asked
<1>2. QED
  BY <1>1 DEF Names

\* The requests and the key of a node that goes on.
LEMMA OlderMore ==
  ASSUME NEW q \in Seq(Asked), NEW c \in Nat, NEW d \in Nat, c <= d,
         Under(q, Before(c)), Names(q, c)
  PROVE  Under(q, Before(d)) /\ Names(q, d)
<1>1. Before(c) \subseteq Before(d)
  BY DEF Before
<1>2. QED
  BY <1>1, UnderMore, NamesMore

LEMMA GoesLinked ==
  ASSUME NEW n, NEW x, NodeOK(x, n), NEW m, NEW z, NodeOK(z, m), NEW y, FriendOK(y),
         Linked(y, x), Goes(x, z), Counts(x, z)
  PROVE  Linked(y, z)
<1>1. /\ x.tx \in Seq(Asked) /\ x.counter \in Nat /\ x.key \in Int /\ z.counter \in Nat
      /\ y.key \in Int /\ (y.air.kind = "offer" => y.air.id \in Int)
  BY LinkTypes
<1>2. /\ y.key <= z.counter /\ x.counter <= z.counter
      /\ z.st \notin Asking \/ y.est => y.key < z.counter
      /\ y.air.kind = "offer" => /\ y.air.id <= z.counter
                                 /\ z.st \notin Asking => y.air.id < z.counter
  BY <1>1, CountsKeys DEF Linked
<1>3. z.key = x.key /\ z.est = x.est /\ z.fsn = x.fsn /\ Grows(x.tx, z)
  BY DEF Goes
<1>4. z.key < z.counter
  BY <1>1, <1>2, <1>3 DEF Linked, Older
<1>5. Under(z.tx, Before(z.counter)) /\ Names(z.tx, z.counter)
  <2>1. Under(x.tx, Before(z.counter)) /\ Names(x.tx, z.counter)
    BY <1>1, <1>2, OlderMore DEF Linked, Older
  <2>2. z.key \in Before(z.counter) /\ z.counter <= z.counter
    BY <1>1, <1>3, <1>4 DEF Before
  <2>3. QED
    BY <1>1, <1>3, <2>1, <2>2, GrowsPolls
<1>6. Early(z)
  <2>1. ~z.est => z.fsn = 0
    BY <1>3 DEF Linked, Early
  <2>2. ASSUME ~z.est, z.key # None PROVE z.sent = "poll" /\ Polls(z.tx, 0)
    <3>1. x.sent = "poll" /\ Polls(x.tx, z.fsn) /\ z.fsn = 0
      BY <1>3, <2>1, <2>2 DEF Linked, Early
    <3>2. z.sent = "poll"
      BY <1>3, <2>2, <3>1 DEF Goes
    <3>3. Polls(z.tx, z.fsn)
      BY <1>1, <1>3, <3>1, GrowsPolls
    <3>4. QED
      BY <3>1, <3>2, <3>3
  <2>3. ASSUME z.key # None PROVE Under(z.tx, {z.key})
    <3>1. Under(x.tx, {z.key})
      BY <1>3, <2>3 DEF Linked, Early
    <3>2. QED
      BY <1>1, <1>3, <3>1, GrowsPolls
  <2>4. QED
    BY <2>1, <2>2, <2>3 DEF Early
<1>7. y.valid => z.key = y.key \/ Under(z.tx, Int \ {y.key})
  <2>1. ASSUME y.valid, z.key # y.key PROVE Under(z.tx, Int \ {y.key})
    <3>1. Under(x.tx, Int \ {y.key})
      BY <1>3, <2>1 DEF Linked, Keys
    <3>2. z.key \in Int \ {y.key}
      BY <1>1, <1>3, <2>1
    <3>3. QED
      BY <1>1, <1>3, <3>1, <3>2, GrowsPolls
  <2>2. QED
    BY <2>1
<1>8. Keys(y, z)
  BY <1>2, <1>3, <1>7 DEF Linked, Keys
<1>9. QED
  BY <1>4, <1>5, <1>6, <1>8 DEF Linked, Older

LEMMA EndedLinked ==
  ASSUME NEW n, NEW x, NodeOK(x, n), NEW m, NEW z, NodeOK(z, m), NEW y, FriendOK(y),
         Linked(y, x), Ended(x, z), Counts(x, z),
         y.valid => Under(x.tx, Int \ {y.key})
  PROVE  Linked(y, z)
<1>1. /\ x.tx \in Seq(Asked) /\ x.counter \in Nat /\ x.key \in Int /\ z.counter \in Nat
      /\ y.key \in Int /\ (y.air.kind = "offer" => y.air.id \in Int)
      /\ y.valid => y.key # None
  BY LinkTypes
<1>2. /\ y.key <= z.counter /\ x.counter <= z.counter
      /\ z.st \notin Asking \/ y.est => y.key < z.counter
      /\ y.air.kind = "offer" => /\ y.air.id <= z.counter
                                 /\ z.st \notin Asking => y.air.id < z.counter
  BY <1>1, CountsKeys DEF Linked
<1>3. z.key = None /\ ~z.est /\ z.fsn = 0 /\ z.tx = x.tx
  BY DEF Ended
<1>4. z.key < z.counter
  BY <1>1, <1>3 DEF None
<1>5. Under(z.tx, Before(z.counter)) /\ Names(z.tx, z.counter)
  BY <1>1, <1>2, <1>3, OlderMore DEF Linked, Older
<1>6. Early(z)
  BY <1>3 DEF Early
<1>7. Keys(y, z)
  BY <1>1, <1>2, <1>3 DEF Linked, Keys
<1>8. QED
  BY <1>4, <1>5, <1>6, <1>7 DEF Linked, Older

LEMMA RepliesLinked ==
  ASSUME NEW n, NEW x, NodeOK(x, n), NEW m, NEW z, NodeOK(z, m), NEW y, FriendOK(y),
         Linked(y, x), Replies(x, z), x.key # None, x.st \notin Asking
  PROVE  Linked(y, z)
<1>1. /\ x.tx \in Seq(Asked) /\ x.counter \in Nat /\ x.key \in Int /\ z.counter \in Nat
      /\ y.key \in Int
  BY LinkTypes
<1>2. z.key = x.key /\ z.est /\ z.counter = x.counter /\ Grows(x.tx, z)
  BY DEF Replies, Single
<1>3. z.key < z.counter
  BY <1>2 DEF Linked, Older
<1>4. Under(z.tx, Before(z.counter)) /\ Names(z.tx, z.counter)
  <2>1. z.key \in Before(z.counter) /\ z.counter <= z.counter
    BY <1>1, <1>2, <1>3 DEF Before
  <2>2. QED
    BY <1>1, <1>2, <2>1, GrowsPolls DEF Linked, Older
<1>5. Under(z.tx, {z.key})
  BY <1>1, <1>2, GrowsPolls DEF Linked, Early
<1>6. Early(z)
  BY <1>2, <1>5 DEF Early
<1>7. y.valid => z.key = y.key \/ Under(z.tx, Int \ {y.key})
  <2>1. ASSUME y.valid, z.key # y.key PROVE Under(z.tx, Int \ {y.key})
    <3>1. Under(x.tx, Int \ {y.key})
      BY <1>2, <2>1 DEF Linked, Keys
    <3>2. z.key \in Int \ {y.key}
      BY <1>1, <1>2, <2>1
    <3>3. QED
      BY <1>1, <1>2, <3>1, <3>2, GrowsPolls
  <2>2. QED
    BY <2>1
<1>8. Keys(y, z)
  BY <1>2, <1>7 DEF Linked, Keys
<1>9. QED
  BY <1>3, <1>4, <1>6, <1>8 DEF Linked, Older

LEMMA AcceptsLinked ==
  ASSUME NEW n, NEW x, NodeOK(x, n), NEW m, NEW z, NodeOK(z, m), NEW y, FriendOK(y),
         Linked(y, x), y.air.kind = "offer", Accepts(x, z, y.air.id),
         x.st = "waitoffer"
  PROVE  Linked(y, z)
<1> DEFINE r == [op |-> "poll", arg |-> x.fsn, key |-> z.key]
<1>1. /\ x.tx \in Seq(Asked) /\ x.counter \in Nat /\ x.key \in Int /\ z.counter \in Nat
      /\ y.key \in Int /\ y.air.id \in Int /\ z.key \in Int
      /\ y.valid => y.key # None
  BY LinkTypes
<1>2. /\ z.key \in {x.counter, None} /\ (z.key # None => z.key = y.air.id)
      /\ ~z.est /\ z.fsn = x.fsn /\ z.counter = x.counter + 1 /\ z.sent = "poll"
      /\ z.tx = <<r>>
  BY DEF Accepts
<1>3. x.fsn = 0
  BY DEF Linked, Early, NodeOK, Alone
<1>4. Len(z.tx) = 1 /\ z.tx[1] = r
  BY <1>2
<1>5. r.op = "poll" /\ r.arg = 0 /\ r.key = z.key
  BY <1>3
<1> HIDE DEF r
<1>6. z.key < z.counter
  BY <1>1, <1>2 DEF None
<1>7. /\ Polls(z.tx, 0) /\ Under(z.tx, {z.key}) /\ Under(z.tx, Before(z.counter))
      /\ Names(z.tx, z.counter)
  BY <1>1, <1>4, <1>5, <1>6 DEF Polls, Under, Names, Before
<1>8. Early(z)
  BY <1>2, <1>3, <1>7 DEF Early
<1>9. y.valid => z.key = y.key \/ Under(z.tx, Int \ {y.key})
  BY <1>1, <1>4, <1>5 DEF Under
<1>10. /\ y.key <= z.counter /\ y.key < z.counter
       /\ y.air.id <= z.counter /\ y.air.id < z.counter
  BY <1>1, <1>2 DEF Linked, Keys
<1>11. y.valid /\ ~y.est /\ y.last # NoPdu => z.key # y.key
  BY <1>1, <1>2 DEF Linked, Keys
<1>12. Keys(y, z)
  BY <1>9, <1>10, <1>11 DEF Linked, Keys
<1>13. QED
  BY <1>6, <1>7, <1>8, <1>12 DEF Linked, Older

\* The first request is started, and may be lost.
LEMMA StartedLinked ==
  ASSUME NEW n \in Nat, NEW x, NodeOK(x, n), x.tx # <<>>, NEW y, FriendOK(y),
         Linked(y, x)
  PROVE  Linked(y, Started(x))
<1> DEFINE z == Started(x)
           d == IF Head(x.tx).op = "clear" THEN 0 ELSE 1
<1>1. /\ x.tx \in Seq(Asked) /\ x.st \notin Asking
  BY LinkTypes, StartedFields
<1>2. /\ z.est = x.est /\ z.key = x.key /\ z.sent = x.sent /\ z.counter = x.counter
      /\ z.fsn = x.fsn /\ z.tx \in Seq(Asked) /\ Shifts(x.tx, z.tx, d)
  BY StartedFields, StartedShifts
<1>3. d \in {0, 1}
  OBVIOUS
<1> HIDE DEF z, d
<1>4. /\ \A a : Polls(x.tx, a) => Polls(z.tx, a)
      /\ \A K : Under(x.tx, K) => Under(z.tx, K)
      /\ \A c : Names(x.tx, c) => Names(z.tx, c)
  BY <1>1, <1>2, <1>3, ShiftPolls
<1>5. Early(z) /\ Older(z) /\ Keys(y, z)
  BY <1>1, <1>2, <1>4 DEF Linked, Early, Older, Keys
<1>6. QED
  BY <1>5 DEF Linked, z

-----------------------------------------------------------------------------
(***************************************************************************)
(* The alternating bit, without a slip and with a cache that holds.  In    *)
(* one friendship the node waits for the answer to a poll with the bit of  *)
(* the context y (Behind), or it has had that answer (Ahead): then what    *)
(* the Friend sent last was heard, or confirms a request for the group.    *)
(***************************************************************************)
Behind(y, x) == x.fsn = y.fsn /\ x.sent = "poll" /\ Polls(x.tx, y.fsn)

Ahead(y, x) ==
  /\ x.fsn # y.fsn /\ y.last # NoPdu
  /\ Sorted(x.tx, y.fsn)
  /\ x.sent = "poll" \/ Polls(x.tx, y.fsn)
  /\ \/ y.last \in x.heard
     \/ y.last.kind = "confirm" /\ x.sent \in Subs /\ NoPolls(x.tx)

Turn(y, x) == y.est /\ x.key = y.key => Behind(y, x) \/ Ahead(y, x)

(***************************************************************************)
(* A PDU on the air that is not the last one, and was not heard, is no     *)
(* message, and does not confirm what the node waits for.                  *)
(***************************************************************************)
Kept(y, x) ==
  y.est /\ y.air \notin {y.last} \cup x.heard =>
    /\ y.air.kind \in {"none", "offer", "confirm"}
    /\ x.key = y.key /\ y.air.kind = "confirm" => x.sent \in Subs /\ y.air # Cfm(x)

LEMMA GoesTurn ==
  ASSUME NEW n, NEW x, NodeOK(x, n), NEW y, Turn(y, x),
         NEW z, Goes(x, z), Insists(x, z)
  PROVE  Turn(y, z)
<1>1. x.tx \in Seq(Asked)
  BY DEF NodeOK, Node
<1>2. z.key = x.key /\ z.fsn = x.fsn /\ z.heard = x.heard /\ Grows(x.tx, z)
  BY DEF Goes
<1>3. ASSUME Behind(y, x) PROVE Behind(y, z)
  <2>1. z.sent = "poll" /\ z.fsn = y.fsn /\ Polls(x.tx, z.fsn)
    BY <1>2, <1>3 DEF Behind, Insists
  <2>2. Polls(z.tx, z.fsn)
    BY <1>1, <1>2, <2>1, GrowsPolls
  <2>3. QED
    BY <2>1, <2>2 DEF Behind
<1>4. ASSUME Ahead(y, x) PROVE Ahead(y, z)
  <2>1. z.fsn # y.fsn /\ y.last # NoPdu /\ Sorted(x.tx, y.fsn)
    BY <1>2, <1>4 DEF Ahead
  <2>2. Sorted(z.tx, y.fsn)
    BY <1>1, <1>2, <2>1, GrowsPolls
  <2>3. z.sent = "poll" \/ Polls(z.tx, y.fsn)
    BY <1>1, <1>2, <1>4, GrowsPolls DEF Ahead, Insists
  <2>4. \/ y.last \in z.heard
        \/ y.last.kind = "confirm" /\ z.sent \in Subs /\ NoPolls(z.tx)
    <3>1. CASE y.last \in x.heard
      BY <1>2, <3>1
    <3>2. CASE y.last.kind = "confirm" /\ x.sent \in Subs /\ NoPolls(x.tx)
      <4>1. z.sent \in Subs /\ z.sent # "poll"
        BY <3>2 DEF Insists, Subs
      <4>2. NoPolls(z.tx)
        BY <1>1, <1>2, <3>2, <4>1, GrowsPolls
      <4>3. QED
        BY <3>2, <4>1, <4>2
    <3>3. QED
      BY <1>4, <3>1, <3>2 DEF Ahead
  <2>5. QED
    BY <2>1, <2>2, <2>3, <2>4 DEF Ahead
<1>5. QED
  BY <1>2, <1>3, <1>4 DEF Turn

LEMMA GoesKept ==
  ASSUME NEW x, Kept(f, x), NEW z, Goes(x, z), Insists(x, z), Follows(x, z)
  PROVE  Kept(f, z)
<1>1. z.key = x.key /\ z.heard = x.heard
  BY DEF Goes
<1>2. SUFFICES ASSUME f.est, f.air \notin {f.last} \cup z.heard, z.key = f.key,
                      f.air.kind = "confirm"
               PROVE  z.sent \in Subs /\ f.air # Cfm(z)
  BY <1>1 DEF Kept
<1>3. x.sent \in Subs /\ f.air # Cfm(x)
  BY <1>1, <1>2 DEF Kept
<1>4. z.sent \in Subs
  BY <1>3 DEF Insists
<1>5. Cfm(z) \notin {f.last, f.air} \/ z.xact = x.xact
  BY <1>4 DEF Follows
<1>6. QED
  BY <1>3, <1>4, <1>5 DEF Cfm

LEMMA EndedTurn ==
  ASSUME NEW y, FriendOK(y), NEW x, NEW z, Kept(y, x), Ended(x, z)
  PROVE  Turn(y, z) /\ Kept(y, z)
<1>1. y.est => y.key # None
  BY DEF FriendOK, Idle, Keyed
<1>2. z.key = None /\ z.heard = x.heard
  BY DEF Ended
<1>3. QED
  BY <1>1, <1>2 DEF Turn, Kept

\* What is heard is not Kept.
LEMMA HeardKept ==
  ASSUME NEW y, NEW z, y.air \in z.heard
  PROVE  Kept(y, z)
BY DEF Kept

LEMMA AcceptsTurn ==
  ASSUME NEW n, NEW x, NodeOK(x, n), NEW y, FriendOK(y), Keys(y, x),
         NEW z, NEW id, Accepts(x, z, id)
  PROVE  Turn(y, z)
<1>1. y.est => y.key # None
  BY DEF FriendOK, Idle, Keyed
<1>2. y.key \in Int /\ x.counter \in Int
  BY LinkTypes
<1>3. y.est => y.key < x.counter
  BY DEF Keys
<1>4. z.key \in {x.counter, None}
  BY DEF Accepts
<1>5. QED
  BY <1>1, <1>2, <1>3, <1>4 DEF Turn

\* Turn looks only at these fields.
LEMMA LevelTurn ==
  ASSUME NEW y, NEW x, Turn(y, x), NEW z, z.key = x.key, z.fsn = x.fsn,
         z.sent = x.sent, z.tx = x.tx, y.last \in x.heard => y.last \in z.heard
  PROVE  Turn(y, z)
BY DEF Turn, Behind, Ahead

(***************************************************************************)
(* The node hears what is on the air.  If it takes it for an answer, it is *)
(* the last PDU of the Friend, and new.                                    *)
(***************************************************************************)
LEMMA RepliesTurn ==
  ASSUME NEW n, NEW x, NodeOK(x, n), x.key # None, Ordered(x),
         NEW y, y \in Context, Turn(y, x), Kept(y, x),
         y.air \notin x.heard, y.air.kind \notin {"none", "offer"},
         NEW w, Replies(x, w),
         x.sent = "poll" \/ (x.sent \in Subs /\ y.air = Cfm(x)),
         NEW z, z.key = w.key, z.fsn = w.fsn, z.sent = w.sent, z.tx = w.tx,
         z.counter = w.counter,
         y.air \in z.heard
  PROVE  Turn(y, z)
<1>1. SUFFICES ASSUME y.est, x.key = y.key
               PROVE  Behind(y, z) \/ Ahead(y, z)
  BY DEF Turn, Replies
<1>2. x.tx \in Seq(Asked) /\ x.fsn \in {0, 1} /\ y.fsn \in {0, 1}
  BY DEF NodeOK, Node, Context
<1>3. Grows(x.tx, z) /\ z.fsn = IF x.sent = "poll" THEN 1 - x.fsn ELSE x.fsn
  BY DEF Replies, Single, Grows
<1>4. y.air = y.last
  <2>1. SUFFICES ASSUME y.air # y.last PROVE FALSE
    OBVIOUS
  <2>2. /\ y.air.kind \in {"none", "offer", "confirm"}
        /\ y.air.kind = "confirm" => x.sent \in Subs /\ y.air # Cfm(x)
    BY <1>1, <2>1 DEF Kept
  <2>3. QED
    BY <2>2 DEF Subs
<1>5. y.last # NoPdu
  BY <1>4, NothingIsReal
<1>6. ~(y.last \in x.heard)
  BY <1>4
<1>7. CASE x.sent = "poll"
  <2>1. Behind(y, x)
    BY <1>1, <1>6, <1>7 DEF Turn, Ahead, Subs
  <2>2. z.fsn # y.fsn
    BY <1>2, <1>3, <1>7, <2>1 DEF Behind
  <2>3. NoSubs(x.tx)
    BY <1>7 DEF Ordered, Subs
  <2>4. Sorted(x.tx, y.fsn)
    <3>1. \A i \in 1..Len(x.tx) : x.tx[i].op \notin Subs
      BY <2>3 DEF NoSubs
    <3>2. \A i \in 1..Len(x.tx) : x.tx[i].op = "poll" => x.tx[i].arg = y.fsn
      BY <2>1 DEF Behind, Polls
    <3>3. QED
      BY <3>1, <3>2 DEF Sorted
  <2>5. Sorted(z.tx, y.fsn)
    BY <1>2, <1>3, <2>2, <2>4, GrowsPolls
  <2>6. z.sent = "poll" \/ Polls(z.tx, y.fsn)
    BY <1>2, <1>3, <2>1, GrowsPolls DEF Behind
  <2>7. QED
    BY <1>4, <1>5, <2>2, <2>5, <2>6 DEF Ahead
<1>8. CASE x.sent \in Subs /\ y.air = Cfm(x)
  <2>1. Ahead(y, x) /\ x.sent # "poll"
    BY <1>1, <1>8 DEF Turn, Behind, Subs
  <2>2. z.fsn = x.fsn /\ z.fsn # y.fsn
    BY <1>3, <2>1 DEF Ahead
  <2>3. Sorted(z.tx, y.fsn)
    BY <1>2, <1>3, <2>1, <2>2, GrowsPolls DEF Ahead
  <2>4. z.sent = "poll" \/ Polls(z.tx, y.fsn)
    BY <1>2, <1>3, <2>1, GrowsPolls DEF Ahead
  <2>5. QED
    BY <1>4, <1>5, <2>2, <2>3, <2>4 DEF Ahead
<1>9. QED
  BY <1>7, <1>8

LEMMA StartedTurn ==
  ASSUME NEW n \in Nat, NEW x, NodeOK(x, n), x.tx # <<>>, NEW y
  PROVE  /\ Turn(y, x) => Turn(y, Started(x))
         /\ Kept(y, x) => Kept(y, Started(x))
<1> DEFINE z == Started(x)
           d == IF Head(x.tx).op = "clear" THEN 0 ELSE 1
<1>1. /\ x.tx \in Seq(Asked)
  BY DEF NodeOK, Node
<1>2. /\ z.key = x.key /\ z.sent = x.sent /\ z.xact = x.xact
      /\ z.fsn = x.fsn /\ z.heard = x.heard /\ z.tx \in Seq(Asked)
      /\ Shifts(x.tx, z.tx, d)
  BY StartedFields, StartedShifts
<1>3. d \in {0, 1}
  OBVIOUS
<1> HIDE DEF z, d
<1>4. /\ \A a : Polls(x.tx, a) => Polls(z.tx, a)
      /\ NoPolls(x.tx) => NoPolls(z.tx)
      /\ \A a : Sorted(x.tx, a) => Sorted(z.tx, a)
  BY <1>1, <1>2, <1>3, ShiftPolls
<1>5. Turn(y, x) => Turn(y, z)
  BY <1>2, <1>4 DEF Turn, Behind, Ahead
<1>6. Kept(y, x) => Kept(y, z)
  BY <1>2 DEF Kept, Cfm
<1>7. QED
  BY <1>5, <1>6 DEF z

-----------------------------------------------------------------------------
(***************************************************************************)
(* What each operation makes of context y.                                 *)
(***************************************************************************)
Stays(y, z) ==
  /\ z.valid = y.valid /\ z.est = y.est /\ z.key = y.key /\ z.fsn = y.fsn
  /\ z.air = y.air

\* friend_timeout sends the last PDU, ends the friendship or takes a PDU.
Sends(y, z) ==
  /\ Stays(y, z) /\ z.last = y.last /\ z.queue = y.queue
  /\ ~z.pendReq /\ z.timer = "off"

Clears(y, z) ==
  /\ ~z.valid /\ ~z.est /\ z.key = None /\ z.last = NoPdu /\ z.queue = <<>>
  /\ z.air = y.air /\ ~z.pendReq /\ z.timer = "off"

Pops(y, z) ==
  /\ y.queue # <<>> /\ y.last = NoPdu /\ y.est
  /\ Stays(y, z) /\ z.last = Head(y.queue) /\ z.queue = Tail(y.queue)
  /\ ~z.pendReq /\ z.timer = "off"

\* The advertiser.
Starts(y, z) ==
  /\ z.valid = y.valid /\ z.est = y.est /\ z.key = y.key /\ z.fsn = y.fsn
  /\ z.air = y.last /\ z.last = (IF y.est THEN y.last ELSE NoPdu)
  /\ z.queue = y.queue /\ z.pendReq = y.pendReq /\ z.timer = y.timer
  /\ z.sendLast = y.sendLast

Stops(y, z) ==
  /\ z.valid = y.valid /\ z.est = y.est /\ z.key = y.key /\ z.fsn = y.fsn
  /\ z.air = NoPdu /\ z.last = y.last /\ z.queue = y.queue
  /\ z.pendReq = y.pendReq /\ z.sendLast = y.sendLast
  /\ z.timer = y.timer \/ (~y.pendReq /\ z.timer # "recv")

\* The queue q that is left when a buffer is needed.
Frees(y, q) ==
  \/ ~Exhausted(y) /\ q = y.queue
  \/ Exhausted(y) /\ y.queue # <<>> /\ q = Tail(y.queue)

Queues(y, z, p) ==
  /\ Stays(y, z) /\ z.last = y.last
  /\ \E q \in Seq(Real) : Frees(y, q) /\ z.queue = Append(q, p)
  /\ z.pendReq = y.pendReq /\ z.timer = y.timer /\ z.sendLast = y.sendLast

\* A poll with bit a, a request for the group with number a, a Friend Request.
Resends(y, z, a) ==
  /\ a = y.fsn /\ y.last # NoPdu
  /\ z.est /\ z.valid = y.valid /\ z.key = y.key /\ z.fsn = y.fsn /\ z.air = y.air
  /\ z.last = y.last /\ z.queue = y.queue
  /\ z.sendLast /\ z.pendReq /\ z.timer = "recv"

Advances(y, z, a) ==
  /\ a # y.fsn \/ y.last = NoPdu
  /\ z.est /\ z.valid = y.valid /\ z.key = y.key /\ z.fsn = a /\ z.air = y.air
  /\ z.last = NoPdu
  /\ \/ y.queue # <<>> /\ z.queue = y.queue
     \/ y.queue = <<>> /\ \E u \in Real : u.kind = "update" /\ z.queue = <<u>>
  /\ z.pendReq /\ z.timer = "recv"

Confirms(y, z, a) ==
  /\ Stays(y, z) /\ z.last = [kind |-> "confirm", id |-> a]
  /\ z.queue \in Seq(Real) /\ Frees(y, z.queue)
  /\ z.sendLast /\ z.pendReq /\ z.timer = "recv"

Offers(y, z, c) ==
  /\ z.valid /\ ~z.est /\ z.key = c /\ z.last = [kind |-> "offer", id |-> c]
  /\ z.queue = <<>> /\ z.air = y.air /\ ~z.pendReq /\ z.timer = "offer"

LEMMA AllocFrees ==
  ASSUME NEW x \in Context
  PROVE  \E q \in Seq(Real) : Alloc(x) = [x EXCEPT !.queue = q] /\ Frees(x, q)
<1>0. x.queue \in Seq(Real) /\ Len(x.queue) \in Nat
  BY LenProperties DEF Context
<1>1. CASE Exhausted(x)
  <2>1. Len(x.queue) > 0
    <3>1. CASE x.last = NoPdu
      BY <1>0, <1>1, <3>1, PoolSize DEF Exhausted
    <3>2. CASE x.last # NoPdu
      BY <1>0, <1>1, <3>2, PoolSize DEF Exhausted
    <3>3. QED
      BY <3>1, <3>2
  <2>2. x.queue # <<>>
    BY <2>1
  <2>3. QED
    BY <1>1, <2>1, <2>2, AllocTail DEF Frees
<1>2. CASE ~Exhausted(x)
  <2>1. Alloc(x) = [x EXCEPT !.queue = x.queue]
    BY <1>2 DEF Alloc, Context
  <2>2. QED
    BY <1>0, <1>2, <2>1 DEF Frees
<1>3. QED
  BY <1>1, <1>2

LEMMA ClearClears ==
  ASSUME NEW y
  PROVE  Clears(y, FriendClear(y))
BY DEF FriendClear, NoFriendship, Clears

LEMMA StartStarts ==
  ASSUME NEW y \in Context
  PROVE  Starts(y, SendStart(y))
<1> DEFINE k == IF y.est THEN y.last ELSE NoPdu
           z == SendStart(y)
<1>1. z = [y EXCEPT !.pendBuf = FALSE, !.air = y.last, !.airKey = y.key, !.last = k]
  BY DEF SendStart, Context
<1> HIDE DEF k
<1>2. QED
  BY <1>1 DEF Starts, Context, k

LEMMA EndStops ==
  ASSUME NEW y \in Context
  PROVE  Stops(y, SendEnd(y))
<1> DEFINE t == IF y.pendReq THEN y.timer ELSE IF y.est THEN "poll" ELSE "first"
           z == SendEnd(y)
<1>1. z = [y EXCEPT !.air = NoPdu, !.airKey = None, !.timer = t]
  BY DEF SendEnd, Context
<1>2. t = y.timer \/ (~y.pendReq /\ t # "recv")
  OBVIOUS
<1> HIDE DEF t
<1>3. QED
  BY <1>1, <1>2 DEF Stops, Context

LEMMA EnqueueQueues ==
  ASSUME NEW y \in Context, NEW p \in Real
  PROVE  Queues(y, Enqueue(y, p), p)
<1>1. PICK q \in Seq(Real) : Alloc(y) = [y EXCEPT !.queue = q] /\ Frees(y, q)
  BY AllocFrees
<1> DEFINE z == Enqueue(y, p)
<1>2. z = [y EXCEPT !.queue = Append(q, p)]
  BY <1>1 DEF Enqueue, Context
<1>3. /\ Stays(y, z) /\ z.last = y.last /\ z.queue = Append(q, p)
      /\ z.pendReq = y.pendReq /\ z.timer = y.timer /\ z.sendLast = y.sendLast
  BY <1>2 DEF Stays, Context
<1> HIDE DEF z
<1>4. QED
  BY <1>1, <1>3 DEF Queues, z

LEMMA SubConfirms ==
  ASSUME NEW y \in Context, NEW op, NEW a
  PROVE  Confirms(y, FriendSub(y, op, a), a)
<1> DEFINE x == RecvDelay(y)
           p == [kind |-> "confirm", id |-> a]
           z == FriendSub(y, op, a)
<1>1. x \in Context /\ x.queue = y.queue /\ x.last = y.last
  BY DEF RecvDelay, Context
<1>2. PICK q \in Seq(Real) : Alloc(x) = [x EXCEPT !.queue = q] /\ Frees(x, q)
  BY <1>1, AllocFrees
<1>3. Frees(y, q)
  <2>1. Exhausted(x) <=> Exhausted(y)
    BY <1>1 DEF Exhausted
  <2> HIDE DEF x
  <2>2. QED
    BY <1>1, <1>2, <2>1 DEF Frees
<1>4. z = [[x EXCEPT !.queue = q, !.last = p, !.sendLast = TRUE]
             EXCEPT !.sub = (op = "add")]
  BY <1>1, <1>2 DEF FriendSub, SetLast, Context
<1> HIDE DEF p
<1>5. /\ Stays(x, z) /\ z.last = p /\ z.queue = q
      /\ z.sendLast /\ z.pendReq = x.pendReq /\ z.timer = x.timer
  <2> HIDE DEF x
  <2>1. QED
    BY <1>1, <1>4 DEF Stays, Context
<1>6. Stays(y, x) /\ x.pendReq /\ x.timer = "recv"
  BY DEF RecvDelay, Stays, Context
<1> HIDE DEF x, z
<1>7. QED
  BY <1>2, <1>3, <1>5, <1>6 DEF Confirms, Stays, z, p

LEMMA PollAnswers ==
  ASSUME f \in Context, NEW y \in Context, NEW a \in {0, 1}
  PROVE  LET z == FriendPoll(y, a) IN Resends(y, z, a) \/ Advances(y, z, a)
<1> DEFINE x == [RecvDelay(y) EXCEPT !.est = TRUE]
           w == [x EXCEPT !.last = NoPdu, !.fsn = a]
           z == FriendPoll(y, a)
<1>1. x = [y EXCEPT !.pendReq = TRUE, !.timer = "recv", !.est = TRUE]
  BY DEF RecvDelay, Context
<1>2. w = [y EXCEPT !.pendReq = TRUE, !.timer = "recv", !.est = TRUE,
                    !.last = NoPdu, !.fsn = a]
  BY DEF RecvDelay, Context
<1>3. CASE a = y.fsn /\ y.last # NoPdu
  <2>1. z = [x EXCEPT !.sendLast = TRUE]
    BY <1>3 DEF FriendPoll
  <2> HIDE DEF x, z
  <2>2. /\ z.est /\ z.valid = y.valid /\ z.key = y.key /\ z.fsn = y.fsn
        /\ z.air = y.air /\ z.last = y.last /\ z.queue = y.queue
        /\ z.sendLast /\ z.pendReq /\ z.timer = "recv"
    BY <1>1, <2>1 DEF Context
  <2>3. QED
    BY <1>3, <2>2 DEF Resends, z
<1>4. CASE ~(a = y.fsn /\ y.last # NoPdu)
  <2>0. /\ w.est /\ w.valid = y.valid /\ w.key = y.key /\ w.fsn = a
        /\ w.air = y.air /\ w.last = NoPdu /\ w.queue = y.queue
        /\ w.pendReq /\ w.timer = "recv"
    BY <1>2 DEF Context
  <2>1. CASE y.queue # <<>>
    <3>1. z = w
      BY <1>4, <2>1 DEF FriendPoll
    <3> HIDE DEF w, z
    <3>2. QED
      BY <1>4, <2>0, <2>1, <3>1 DEF Advances, z
  <2>2. CASE y.queue = <<>>
    <3> DEFINE u == [kind |-> "update", id |-> Fresh("update", {})]
    <3>1. u \in Real /\ u.kind = "update"
      <4>1. IsFiniteSet({}) /\ Cardinality({}) <= 2 + MaxCalls
        BY FS_EmptySet, Constants
      <4>2. Fresh("update", {}) \in Num
        BY <4>1, FreshExists, Zenon
      <4>3. QED
        BY <4>2 DEF Real, Pdu
    <3>2. z = Enqueue(w, u)
      BY <1>4, <2>2 DEF FriendPoll, EnqueueUpdate
    <3> HIDE DEF u
    <3>3. ~Exhausted(w)
      BY <2>0, <2>2, PoolSize DEF Exhausted
    <3>4. Alloc(w) = w
      BY <3>3 DEF Alloc
    <3>5. z = [w EXCEPT !.queue = Append(w.queue, u)]
      BY <3>2, <3>4 DEF Enqueue
    <3>6. Append(<<>>, u) = <<u>> /\ w.queue = <<>>
      BY <2>0, <2>2
    <3>7. w \in Context
      BY <1>2, NothingIsReal DEF Context
    <3> HIDE DEF w, z
    <3>8. /\ z.est /\ z.valid = y.valid /\ z.key = y.key /\ z.fsn = a
          /\ z.air = y.air /\ z.last = NoPdu /\ z.queue = <<u>>
          /\ z.pendReq /\ z.timer = "recv"
      BY <2>0, <3>5, <3>6, <3>7 DEF Context
    <3>9. QED
      BY <1>4, <2>2, <3>1, <3>8 DEF Advances, z
  <2>3. QED
    BY <2>1, <2>2
<1>5. QED
  BY <1>3, <1>4

-----------------------------------------------------------------------------
LEMMA ReqOffers ==
  ASSUME NEW y, FriendOK(y), y.pendReq => y.valid, NEW c, NEW again \in BOOLEAN
  PROVE  LET z == FriendReq(y, c, again)
         IN  z = y \/ Offers(y, z, c)
<1> DEFINE x == IF y.valid THEN FriendClear(y) ELSE y
           w == [x EXCEPT !.valid = TRUE, !.key = c, !.timer = "offer"]
           p == [kind |-> "offer", id |-> c]
           z == FriendReq(y, c, again)
<1>1. CASE y.valid /\ again /\ Misled
  BY <1>1 DEF FriendReq
<1>2. CASE ~(y.valid /\ again /\ Misled)
  <2>1. x \in Context
    BY ClearOK DEF FriendOK
  <2>2. /\ ~x.est /\ x.last = NoPdu /\ x.queue = <<>> /\ x.air = y.air /\ ~x.pendReq
    <3>1. CASE y.valid
      BY <3>1, ClearClears DEF Clears
    <3>2. CASE ~y.valid
      <4>1. x = y
        BY <3>2
      <4>2. y.pendReq \in BOOLEAN
        BY DEF FriendOK, Context
      <4>3. QED
        BY <3>2, <4>1, <4>2 DEF FriendOK, Idle
    <3>3. QED
      BY <3>1, <3>2
  <2>3. z = SetLast(w, p)
    BY <1>2 DEF FriendReq
  <2> HIDE DEF x, p
  <2>4. /\ w.valid /\ ~w.est /\ w.key = c /\ w.last = NoPdu /\ w.queue = <<>>
        /\ w.air = y.air /\ ~w.pendReq /\ w.timer = "offer"
    BY <2>1, <2>2 DEF Context
  <2>5. Alloc(w) = w
    <3> HIDE DEF w
    <3>1. ~Exhausted(w)
      BY <2>4, PoolSize DEF Exhausted
    <3>2. QED
      BY <3>1 DEF Alloc
  <2>6. z = [w EXCEPT !.last = p, !.sendLast = TRUE]
    BY <2>3, <2>5 DEF SetLast
  <2>7. /\ z.valid = w.valid /\ z.est = w.est /\ z.key = w.key /\ z.last = p
        /\ z.queue = w.queue /\ z.air = w.air /\ z.pendReq = w.pendReq
        /\ z.timer = w.timer
    BY <2>1, <2>6 DEF Context
  <2> HIDE DEF w, z
  <2>8. QED
    BY <2>4, <2>7 DEF Offers, z, p
<1>3. QED
  BY <1>1, <1>2

-----------------------------------------------------------------------------
(***************************************************************************)
(* What context y holds when n messages have come in.                      *)
(***************************************************************************)
\* The kinds of PDU with nothing for the node to receive.
Plain == {"none", "offer"}

\* The PDUs of queue q are messages, no two the same, none of them in S and
\* none later than n; only the first may be a Friend Update.
Line(q, S, n) ==
  \A i \in 1..Len(q) :
    /\ q[i].kind \in {"update", "data"} /\ (i > 1 => q[i].kind = "data")
    /\ q[i].kind = "data" => q[i] \notin S /\ q[i].id <= n
    /\ \A j \in 1..Len(q) : q[i] = q[j] => i = j

Stocked(y, n) ==
  /\ ~y.est => y.queue = <<>> /\ y.last.kind \in Plain
  /\ y.valid /\ ~y.est /\ y.last = NoPdu => y.air.kind \in Plain
  /\ Line(y.queue, {y.last, y.air}, n)
  /\ \A p \in {y.last, y.air} : p.kind = "data" => p.id <= n
  /\ y.pendReq => y.timer = "recv" /\ y.valid
  /\ y.timer = "recv" /\ y.last # NoPdu => y.sendLast

LEMMA ExpireIs ==
  ASSUME NEW y, FriendOK(y), NEW n, Stocked(y, n)
  PROVE  LET z == FriendExpire(y)
         IN  \/ Sends(y, z) \/ Clears(y, z) \/ Pops(y, z)
<1> DEFINE x == [y EXCEPT !.timer = "off"]
           z == FriendExpire(y)
<1>0. y \in Context
  BY DEF FriendOK
<1>1. CASE y.sendLast /\ y.last # NoPdu
  <2>1. z = [y EXCEPT !.timer = "off", !.sendLast = FALSE, !.pendReq = FALSE,
                      !.pendBuf = TRUE]
    BY <1>0, <1>1 DEF FriendExpire, SendBuf, Context
  <2> HIDE DEF z
  <2>2. Sends(y, z)
    BY <1>0, <2>1 DEF Sends, Stays, Context
  <2>3. QED
    BY <2>2 DEF z
<1>2. CASE /\ ~(y.sendLast /\ y.last # NoPdu)
           /\ (y.est /\ ~y.pendReq) \/ y.queue = <<>>
  <2>1. z = FriendClear(x)
    BY <1>2 DEF FriendExpire
  <2>2. x.air = y.air
    BY <1>0 DEF Context
  <2> HIDE DEF x
  <2>3. Clears(x, z)
    BY <2>1, ClearClears
  <2>4. QED
    BY <2>2, <2>3 DEF Clears
<1>3. CASE /\ ~(y.sendLast /\ y.last # NoPdu)
           /\ ~((y.est /\ ~y.pendReq) \/ y.queue = <<>>)
  <2>1. y.est
    BY <1>3 DEF Stocked
  <2>2. y.pendReq
    BY <1>3, <2>1
  <2>3. y.timer = "recv"
    BY <2>2 DEF Stocked
  <2>4. y.last = NoPdu
    BY <1>3, <2>3 DEF Stocked
  <2>5. z = SendBuf([x EXCEPT !.last = Head(y.queue), !.queue = Tail(@)])
    BY <1>3 DEF FriendExpire
  <2>6. z = [y EXCEPT !.timer = "off", !.last = Head(y.queue),
                      !.queue = Tail(y.queue), !.pendReq = FALSE, !.pendBuf = TRUE]
    BY <1>0, <2>5 DEF SendBuf, Context
  <2> HIDE DEF z
  <2>7. /\ Stays(y, z) /\ z.last = Head(y.queue) /\ z.queue = Tail(y.queue)
        /\ ~z.pendReq /\ z.timer = "off"
    BY <1>0, <2>6 DEF Stays, Context
  <2>8. QED
    BY <1>3, <2>1, <2>4, <2>7 DEF Pops, z
<1>4. QED
  BY <1>1, <1>2, <1>3

LEMMA LineEmpty ==
  ASSUME NEW S, NEW n
  PROVE  Line(<<>>, S, n)
BY DEF Line

LEMMA LineOther ==
  ASSUME NEW q, NEW S, NEW T, NEW n, Line(q, S, n),
         \A p \in T : p.kind = "data" => p \in S
  PROVE  Line(q, T, n)
BY DEF Line

LEMMA LineTail ==
  ASSUME NEW q \in Seq(Real), q # <<>>, NEW S, NEW n, Line(q, S, n)
  PROVE  /\ Head(q) \in Real /\ Head(q).kind \in {"update", "data"}
         /\ Head(q).kind = "data" => Head(q) \notin S /\ Head(q).id <= n
         /\ Tail(q) \in Seq(Real) /\ Line(Tail(q), S \cup {Head(q)}, n)
         /\ \A i \in 1..Len(Tail(q)) : Tail(q)[i].kind = "data"
<1> DEFINE t == Tail(q)
<1>1. /\ Len(q) \in Nat /\ Len(q) # 0 /\ Head(q) = q[1]
  BY LenProperties
<1>2. /\ Head(q) \in Real /\ t \in Seq(Real) /\ Len(t) = Len(q) - 1
      /\ \A i \in 1..Len(t) : t[i] = q[i + 1]
  BY HeadTailProperties
<1> HIDE DEF t
<1>3. 1 \in 1..Len(q)
  BY <1>1
<1>4. /\ Head(q).kind \in {"update", "data"}
      /\ Head(q).kind = "data" => Head(q) \notin S /\ Head(q).id <= n
  BY <1>1, <1>3 DEF Line
<1>5. \A i \in 1..Len(t) : i + 1 \in 1..Len(q) /\ i + 1 > 1 /\ i + 1 # 1
  BY <1>1, <1>2
<1>6. ASSUME NEW i \in 1..Len(t)
      PROVE  /\ t[i].kind = "data" /\ t[i] \notin S /\ t[i].id <= n /\ t[i] # Head(q)
             /\ \A j \in 1..Len(t) : t[i] = t[j] => i = j
  <2>1. i + 1 \in 1..Len(q) /\ i + 1 > 1 /\ i + 1 # 1 /\ t[i] = q[i + 1]
    BY <1>2, <1>5, <1>6
  <2>2. t[i].kind = "data" /\ t[i] \notin S /\ t[i].id <= n
    BY <2>1 DEF Line
  <2>3. t[i] # Head(q)
    BY <1>1, <1>3, <2>1 DEF Line
  <2>4. ASSUME NEW j \in 1..Len(t), t[i] = t[j] PROVE i = j
    <3>1. j + 1 \in 1..Len(q) /\ t[j] = q[j + 1]
      BY <1>2, <1>5, <2>4
    <3>2. i + 1 = j + 1
      BY <2>1, <2>4, <3>1 DEF Line
    <3>3. QED
      BY <1>6, <2>4, <3>2
  <2>5. QED
    BY <2>2, <2>3, <2>4
<1>7. Line(t, S \cup {Head(q)}, n)
  BY <1>6 DEF Line
<1>8. QED
  BY <1>2, <1>4, <1>6, <1>7 DEF t

LEMMA LineAppend ==
  ASSUME NEW q \in Seq(Real), NEW S, NEW n \in Nat, Line(q, S, n), NEW p \in Real,
         p.kind = "data", p.id = n + 1, \A r \in S : r.kind = "data" => r.id <= n
  PROVE  Line(Append(q, p), S, n + 1)
<1> DEFINE s == Append(q, p)
<1>1. /\ s \in Seq(Real) /\ Len(q) \in Nat /\ Len(s) = Len(q) + 1
      /\ \A i \in 1..Len(q) : s[i] = q[i]
      /\ s[Len(q) + 1] = p
  BY AppendProperties, LenProperties
<1> HIDE DEF s
<1>2. \A i \in 1..Len(s) : i \in 1..Len(q) \/ i = Len(q) + 1
  BY <1>1
<1>3. \A i \in 1..Len(q) : q[i].kind = "data" => q[i].id \in Int /\ q[i].id <= n
  <2>1. \A i \in 1..Len(q) : q[i] \in Real
    BY ElementOfSeq
  <2>2. \A r \in Real : r.kind = "data" => r.id \in Int
    BY Constants DEF Real, Msg
  <2>3. QED
    BY <2>1, <2>2 DEF Line
<1>4. \A i \in 1..Len(q) : q[i] # p
  BY <1>3
<1>5. p \notin S
  <2>1. SUFFICES ASSUME p \in S PROVE FALSE
    OBVIOUS
  <2>2. p.id <= n
    BY <2>1
  <2>3. QED
    BY <2>2
<1>6. ASSUME NEW i \in 1..Len(s)
      PROVE  /\ s[i].kind \in {"update", "data"} /\ (i > 1 => s[i].kind = "data")
             /\ s[i].kind = "data" => s[i] \notin S /\ s[i].id <= n + 1
             /\ \A j \in 1..Len(s) : s[i] = s[j] => i = j
  <2>1. CASE i = Len(q) + 1
    <3>1. s[i] = p
      BY <1>1, <2>1
    <3>2. \A j \in 1..Len(s) : s[i] = s[j] => i = j
      BY <1>1, <1>2, <1>4, <2>1, <3>1
    <3>3. s[i].id <= n + 1
      BY <3>1
    <3>4. QED
      BY <1>5, <3>1, <3>2, <3>3
  <2>2. CASE i \in 1..Len(q)
    <3>1. s[i] = q[i]
      BY <1>1, <2>2
    <3>2. \A j \in 1..Len(s) : s[i] = s[j] => i = j
      BY <1>1, <1>2, <1>4, <2>2, <3>1 DEF Line
    <3>3. s[i].kind = "data" => s[i].id <= n + 1
      BY <1>3, <2>2, <3>1
    <3>4. QED
      BY <2>2, <3>1, <3>2, <3>3 DEF Line
  <2>3. QED
    BY <1>2, <2>1, <2>2
<1>7. QED
  BY <1>6 DEF Line, s

-----------------------------------------------------------------------------
\* A context that keeps its PDUs.
LEMMA SendsStocked ==
  ASSUME NEW y, NEW z, NEW n, Stocked(y, n), Sends(y, z)
  PROVE  Stocked(z, n)
BY DEF Stocked, Sends, Stays

LEMMA ClearsStocked ==
  ASSUME NEW y, NEW z, NEW n, Stocked(y, n), Clears(y, z)
  PROVE  Stocked(z, n)
<1>1. Line(z.queue, {z.last, z.air}, n)
  BY LineEmpty DEF Clears
<1>2. QED
  BY <1>1, NothingIsReal DEF Stocked, Clears, Plain

LEMMA PopsStocked ==
  ASSUME NEW y \in Context, NEW z, NEW n, Stocked(y, n), Pops(y, z)
  PROVE  Stocked(z, n)
<1> DEFINE q == y.queue
<1>1. q \in Seq(Real) /\ q # <<>> /\ Line(q, {y.last, y.air}, n)
  BY DEF Context, Pops, Stocked
<1>2. /\ Head(q).kind = "data" => Head(q).id <= n
      /\ Line(Tail(q), {y.last, y.air} \cup {Head(q)}, n)
  BY <1>1, LineTail
<1>3. z.est /\ z.last = Head(q) /\ z.queue = Tail(q) /\ z.air = y.air
      /\ ~z.pendReq /\ z.timer = "off"
  BY DEF Pops, Stays
<1> HIDE DEF q
<1>4. Line(z.queue, {z.last, z.air}, n)
  BY <1>2, <1>3, LineOther
<1>5. \A p \in {z.last, z.air} : p.kind = "data" => p.id <= n
  BY <1>2, <1>3 DEF Stocked
<1>6. QED
  BY <1>3, <1>4, <1>5 DEF Stocked

LEMMA StartsStocked ==
  ASSUME NEW y, NEW z, NEW n, Stocked(y, n), Starts(y, z)
  PROVE  Stocked(z, n)
<1>1. /\ z.valid = y.valid /\ z.est = y.est /\ z.air = y.last
      /\ z.last \in {y.last, NoPdu} /\ (~y.est => z.last = NoPdu)
      /\ z.queue = y.queue /\ z.pendReq = y.pendReq /\ z.timer = y.timer
      /\ z.sendLast = y.sendLast
  BY DEF Starts
<1>2. Line(z.queue, {z.last, z.air}, n)
  <2>1. Line(y.queue, {y.last, y.air}, n)
    BY DEF Stocked
  <2>2. \A p \in {z.last, z.air} : p.kind = "data" => p \in {y.last, y.air}
    BY <1>1, NothingIsReal
  <2>3. QED
    BY <1>1, <2>1, <2>2, LineOther
<1>3. QED
  BY <1>1, <1>2, NothingIsReal DEF Stocked, Plain

LEMMA StopsStocked ==
  ASSUME NEW y, NEW z, NEW n, Stocked(y, n), Stops(y, z)
  PROVE  Stocked(z, n)
<1>1. /\ z.valid = y.valid /\ z.est = y.est /\ z.air = NoPdu /\ z.last = y.last
      /\ z.queue = y.queue /\ z.pendReq = y.pendReq /\ z.sendLast = y.sendLast
      /\ z.timer = y.timer \/ (~y.pendReq /\ z.timer # "recv")
  BY DEF Stops
<1>2. Line(z.queue, {z.last, z.air}, n)
  <2>1. Line(y.queue, {y.last, y.air}, n)
    BY DEF Stocked
  <2>2. \A p \in {z.last, z.air} : p.kind = "data" => p \in {y.last, y.air}
    BY <1>1, NothingIsReal
  <2>3. QED
    BY <1>1, <2>1, <2>2, LineOther
<1>3. QED
  BY <1>1, <1>2, NothingIsReal DEF Stocked, Plain

\* The queue that is left when a buffer is needed.
LEMMA FreesLine ==
  ASSUME NEW y \in Context, NEW q, Frees(y, q), NEW S, NEW n, Line(y.queue, S, n)
  PROVE  Line(q, S, n)
<1>1. CASE q = y.queue
  BY <1>1
<1>2. CASE y.queue # <<>> /\ q = Tail(y.queue)
  <2>1. y.queue \in Seq(Real)
    BY DEF Context
  <2>2. Line(q, S \cup {Head(y.queue)}, n)
    BY <1>2, <2>1, LineTail
  <2>3. QED
    BY <2>2, LineOther
<1>3. QED
  BY <1>1, <1>2 DEF Frees

LEMMA QueuesStocked ==
  ASSUME NEW y \in Context, NEW z, NEW n \in Nat, Stocked(y, n), y.est,
         NEW p \in Real, p.kind = "data", p.id = n + 1, Queues(y, z, p)
  PROVE  Stocked(z, n + 1)
<1>1. PICK q \in Seq(Real) : Frees(y, q) /\ z.queue = Append(q, p)
  BY DEF Queues
<1>2. Line(q, {y.last, y.air}, n)
  BY <1>1, FreesLine DEF Stocked
<1>3. Line(z.queue, {y.last, y.air}, n + 1)
  BY <1>1, <1>2, LineAppend DEF Stocked
<1>4. /\ z.valid = y.valid /\ z.est /\ z.air = y.air /\ z.last = y.last
      /\ z.pendReq = y.pendReq /\ z.timer = y.timer /\ z.sendLast = y.sendLast
  BY DEF Queues, Stays
<1>5. ASSUME NEW r \in {z.last, z.air}, r.kind = "data" PROVE r.id <= n + 1
  <2>1. r \in Real
    BY <1>4, <1>5 DEF Context
  <2>2. r.id \in Int
    BY <1>5, <2>1, Constants DEF Real, Msg
  <2>3. r.id <= n
    BY <1>4, <1>5 DEF Stocked
  <2>4. QED
    BY <2>2, <2>3
<1>6. QED
  BY <1>3, <1>4, <1>5 DEF Stocked

LEMMA ResendsStocked ==
  ASSUME NEW y, NEW z, NEW n, Stocked(y, n), y.valid, NEW a, Resends(y, z, a)
  PROVE  Stocked(z, n)
BY DEF Stocked, Resends

LEMMA AdvancesStocked ==
  ASSUME NEW y, NEW z, NEW n, Stocked(y, n), y.valid, NEW a, Advances(y, z, a)
  PROVE  Stocked(z, n)
<1>1. z.est /\ z.valid /\ z.air = y.air /\ z.last = NoPdu /\ z.timer = "recv"
  BY DEF Advances
<1>2. Line(z.queue, {z.last, z.air}, n)
  <2>1. CASE z.queue = y.queue
    <3>1. \A p \in {z.last, z.air} : p.kind = "data" => p \in {y.last, y.air}
      BY <1>1, NothingIsReal
    <3>2. QED
      BY <2>1, <3>1, LineOther DEF Stocked
  <2>2. ASSUME NEW u \in Real, u.kind = "update", z.queue = <<u>>
        PROVE  Line(z.queue, {z.last, z.air}, n)
    <3>1. Len(z.queue) = 1 /\ z.queue[1] = u
      BY <2>2
    <3>2. QED
      BY <2>2, <3>1 DEF Line
  <2>3. QED
    BY <2>1, <2>2 DEF Advances
<1>3. QED
  BY <1>1, <1>2, NothingIsReal DEF Stocked

LEMMA ConfirmsStocked ==
  ASSUME NEW y \in Context, NEW z, NEW n, Stocked(y, n), y.valid, y.est, NEW a,
         Confirms(y, z, a)
  PROVE  Stocked(z, n)
<1>1. /\ z.est /\ z.valid /\ z.air = y.air /\ z.last = [kind |-> "confirm", id |-> a]
      /\ z.timer = "recv" /\ z.sendLast /\ Frees(y, z.queue)
  BY DEF Confirms, Stays
<1>2. z.last.kind = "confirm"
  BY <1>1
<1>3. Line(z.queue, {z.last, z.air}, n)
  <2>1. Line(z.queue, {y.last, y.air}, n)
    BY <1>1, FreesLine DEF Stocked
  <2>2. QED
    BY <1>1, <1>2, <2>1, LineOther
<1>4. QED
  BY <1>1, <1>2, <1>3 DEF Stocked

LEMMA OffersStocked ==
  ASSUME NEW y, NEW z, NEW n, Stocked(y, n), NEW c, Offers(y, z, c)
  PROVE  Stocked(z, n)
<1>1. /\ ~z.est /\ z.queue = <<>> /\ z.air = y.air /\ ~z.pendReq /\ z.timer = "offer"
      /\ z.last = [kind |-> "offer", id |-> c]
  BY DEF Offers
<1>2. z.last.kind = "offer" /\ z.last # NoPdu
  BY <1>1, NothingIsReal
<1>3. Line(z.queue, {z.last, z.air}, n)
  BY <1>1, LineEmpty
<1>4. QED
  BY <1>1, <1>2, <1>3 DEF Stocked, Plain

-----------------------------------------------------------------------------
(***************************************************************************)
(* Steps of the Friend keep the keys in order.                             *)
(***************************************************************************)
LEMMA StaysKeys ==
  ASSUME NEW x, NEW y, NEW z, Keys(y, x), z.valid = y.valid, z.est = y.est,
         z.key = y.key, z.last = y.last, z.air = y.air
  PROVE  Keys(z, x)
BY DEF Keys

LEMMA ClearsKeys ==
  ASSUME NEW n, NEW x, NodeOK(x, n), NEW y, NEW z, Keys(y, x), Clears(y, z)
  PROVE  Keys(z, x)
<1>1. x.counter \in Nat
  BY KeyTypes DEF NodeOK, Node
<1>2. ~z.valid /\ z.key = None /\ z.last.kind = "none" /\ z.air = y.air
  BY NothingIsReal DEF Clears
<1>3. None <= x.counter /\ None < x.counter
  BY <1>1 DEF None
<1>4. QED
  BY <1>2, <1>3 DEF Keys

LEMMA PopsKeys ==
  ASSUME NEW x, NEW y \in Context, NEW z, NEW n, Stocked(y, n), Keys(y, x), Pops(y, z)
  PROVE  Keys(z, x)
<1>1. y.queue \in Seq(Real) /\ y.queue # <<>> /\ Line(y.queue, {y.last, y.air}, n)
  BY DEF Context, Pops, Stocked
<1>2. Head(y.queue).kind \in {"update", "data"}
  BY <1>1, LineTail
<1>3. /\ z.last.kind # "offer" /\ z.est = y.est /\ z.est /\ z.key = y.key
      /\ z.valid = y.valid /\ z.air = y.air
  BY <1>2 DEF Pops, Stays
<1>4. QED
  BY <1>3 DEF Keys

LEMMA StartsKeys ==
  ASSUME NEW x, NEW y, NEW z, Keys(y, x), Starts(y, z)
  PROVE  Keys(z, x)
<1>1. /\ z.valid = y.valid /\ z.est = y.est /\ z.key = y.key /\ z.air = y.last
      /\ z.last \in {y.last, NoPdu} /\ (~y.est => z.last = NoPdu)
  BY DEF Starts
<1>2. QED
  BY <1>1, NothingIsReal DEF Keys

LEMMA StopsKeys ==
  ASSUME NEW x, NEW y, NEW z, Keys(y, x), Stops(y, z)
  PROVE  Keys(z, x)
BY NothingIsReal DEF Keys, Stops

\* The first request has the key of the context.
LEMMA HeadKey ==
  ASSUME NEW n \in Nat, NEW x, NodeOK(x, n), x.tx # <<>>, NEW y, y.valid,
         Linked(y, x), Head(x.tx).key = y.key
  PROVE  x.key = y.key /\ y.key < x.counter
<1>1. Head(x.tx) = x.tx[1] /\ 1 \in 1..Len(x.tx)
  <2>1. Head(x.tx) = x.tx[1] /\ Len(x.tx) \in Nat /\ x.tx \in Seq(Asked)
    BY FirstRequest
  <2>2. Len(x.tx) # 0
    BY <2>1
  <2>3. QED
    BY <2>1, <2>2
<1>2. ~Under(x.tx, Int \ {y.key})
  BY <1>1 DEF Under
<1>3. y.key < x.counter
  BY <1>1 DEF Linked, Older, Under, Before
<1>4. QED
  BY <1>2, <1>3 DEF Linked, Keys

LEMMA PollKeys ==
  ASSUME NEW x, NEW y, NEW z, Keys(y, x), y.valid, y.key < x.counter, NEW a,
         Resends(y, z, a) \/ Advances(y, z, a)
  PROVE  Keys(z, x)
<1>1. /\ z.est /\ z.valid = y.valid /\ z.key = y.key /\ z.air = y.air
      /\ z.last \in {y.last, NoPdu}
  BY DEF Resends, Advances
<1>2. QED
  BY <1>1, NothingIsReal DEF Keys

LEMMA ConfirmsKeys ==
  ASSUME NEW x, NEW y, NEW z, Keys(y, x), y.est, NEW a, Confirms(y, z, a)
  PROVE  Keys(z, x)
<1>1. /\ z.est /\ y.est /\ z.valid = y.valid /\ z.key = y.key /\ z.air = y.air
      /\ z.last.kind = "confirm"
  BY DEF Confirms, Stays
<1>2. QED
  BY <1>1 DEF Keys

LEMMA OffersLinked ==
  ASSUME NEW n \in Nat, NEW x, NodeOK(x, n), x.tx # <<>>, Head(x.tx).op = "req",
         NEW y, FriendOK(y), Linked(y, x), NEW z, Offers(y, z, x.counter)
  PROVE  Linked(z, Started(x))
<1> DEFINE s == Started(x)
<1>1. s.st \in Asking /\ s.counter = x.counter /\ x.st \notin Asking
  BY StartedFields DEF Asking
<1>2. Early(s) /\ Older(s)
  BY StartedLinked DEF Linked
<1>3. /\ x.counter \in Nat /\ s.key \in Int
      /\ y.air.kind = "offer" => y.air.id \in Int
  BY LinkTypes, StartedOK
<1> HIDE DEF s
<1>4. /\ ~z.est /\ z.key = s.counter /\ z.last.kind = "offer" /\ z.last.id = s.counter
      /\ z.air = y.air
  BY <1>1 DEF Offers
<1>5. z.air.kind = "offer" => z.air.id < s.counter /\ z.air.id \in Int
  BY <1>1, <1>3, <1>4 DEF Linked, Keys
<1>6. s.key < s.counter
  BY <1>2 DEF Older
<1>7. Under(s.tx, Int \ {z.key})
  <2>1. Before(s.counter) \subseteq Int \ {z.key}
    BY <1>1, <1>3, <1>4 DEF Before
  <2>2. QED
    BY <1>2, <2>1, UnderMore DEF Older
<1>8. s.key # z.key /\ (z.air.kind = "offer" => z.air.id # z.key /\ z.air.id <= s.counter)
  BY <1>1, <1>3, <1>4, <1>5, <1>6
<1>9. z.key <= s.counter
  BY <1>1, <1>3, <1>4
<1>10. Keys(z, s)
  BY <1>1, <1>4, <1>7, <1>8, <1>9 DEF Keys
<1>11. QED
  BY <1>2, <1>10 DEF Linked, s

-----------------------------------------------------------------------------
(***************************************************************************)
(* Steps of the Friend keep the turns.  Node state w is x but for the      *)
(* cache, which drops what cannot come again.                              *)
(***************************************************************************)
Still(x, w) ==
  /\ w.key = x.key /\ w.fsn = x.fsn /\ w.sent = x.sent /\ w.xact = x.xact
  /\ w.tx = x.tx

LEMMA StaysTurn ==
  ASSUME NEW x, NEW y, NEW z, NEW w, Still(x, w), w.heard = Remember(z, x.heard),
         z.est = y.est, z.key = y.key, z.fsn = y.fsn, z.last = y.last, z.air = y.air,
         Turn(y, x), Kept(y, x)
  PROVE  Turn(z, w) /\ Kept(z, w)
<1>1. /\ z.last \in x.heard => z.last \in w.heard
      /\ z.air \in x.heard => z.air \in w.heard
  BY DEF Remember
<1>2. Turn(z, w)
  BY <1>1 DEF Turn, Behind, Ahead, Still
<1>3. Kept(z, w)
  BY <1>1 DEF Kept, Still, Cfm
<1>4. QED
  BY <1>2, <1>3

LEMMA PopsTurn ==
  ASSUME NEW x, NEW y, NEW z, NEW w, Still(x, w), w.heard = Remember(z, x.heard),
         Pops(y, z), Turn(y, x), Kept(y, x)
  PROVE  Turn(z, w) /\ Kept(z, w)
<1>1. /\ z.est = y.est /\ z.key = y.key /\ z.fsn = y.fsn /\ z.air = y.air
      /\ y.last = NoPdu
  BY DEF Pops, Stays
<1>2. z.air \in x.heard => z.air \in w.heard
  BY DEF Remember
<1>3. Turn(z, w)
  BY <1>1 DEF Turn, Behind, Ahead, Still
<1>4. Kept(z, w)
  <2>1. CASE z.air = NoPdu
    BY <2>1, NothingIsReal DEF Kept
  <2>2. CASE z.air # NoPdu
    BY <1>1, <1>2, <2>2 DEF Kept, Still, Cfm
  <2>3. QED
    BY <2>1, <2>2
<1>5. QED
  BY <1>3, <1>4

LEMMA StartsTurn ==
  ASSUME NEW x, NEW y, NEW z, NEW w, Still(x, w), w.heard = Remember(z, x.heard),
         Starts(y, z), Turn(y, x)
  PROVE  Turn(z, w) /\ Kept(z, w)
<1>1. /\ z.est = y.est /\ z.key = y.key /\ z.fsn = y.fsn
      /\ z.est => z.last = y.last /\ z.air = z.last
  BY DEF Starts
<1>2. z.last \in x.heard => z.last \in w.heard
  BY DEF Remember
<1>3. Turn(z, w)
  BY <1>1, <1>2 DEF Turn, Behind, Ahead, Still
<1>4. Kept(z, w)
  BY <1>1 DEF Kept
<1>5. QED
  BY <1>3, <1>4

LEMMA StopsTurn ==
  ASSUME NEW x, NEW y, NEW z, NEW w, Still(x, w), w.heard = Remember(z, x.heard),
         Stops(y, z), Turn(y, x)
  PROVE  Turn(z, w) /\ Kept(z, w)
<1>1. /\ z.est = y.est /\ z.key = y.key /\ z.fsn = y.fsn /\ z.last = y.last
      /\ z.air = NoPdu
  BY DEF Stops
<1>2. z.last \in x.heard => z.last \in w.heard
  BY DEF Remember
<1>3. Turn(z, w)
  BY <1>1, <1>2 DEF Turn, Behind, Ahead, Still
<1>4. Kept(z, w)
  BY <1>1, NothingIsReal DEF Kept
<1>5. QED
  BY <1>3, <1>4

\* Without a friendship there are no turns.
LEMMA OverTurn ==
  ASSUME NEW z, NEW w, ~z.est
  PROVE  Turn(z, w) /\ Kept(z, w)
BY DEF Turn, Kept

-----------------------------------------------------------------------------
\* The first of requests q is served, and s is left.
LEMMA HeadPolls ==
  ASSUME NEW q \in Seq(Asked), q # <<>>, NEW s \in Seq(Asked), Shifts(q, s, 1),
         NEW b \in {0, 1}, Sorted(q, b)
  PROVE  /\ Head(q).op = "poll" /\ Head(q).arg # b => Polls(s, Head(q).arg)
         /\ Head(q).op \in Subs /\ Polls(q, b) => NoPolls(s)
<1>1. Head(q) = q[1] /\ Len(q) \in Nat /\ Len(s) \in Nat /\ 1 \in 1..Len(q)
  <2>1. Len(q) \in Nat /\ Len(s) \in Nat /\ Len(q) # 0
    BY LenProperties
  <2>2. QED
    BY <2>1
<1>2. \A i \in 1..Len(q) : q[i] \in Asked
  BY ElementOfSeq
<1>3. \A i \in 1..Len(q) : q[i].op = "poll" => q[i].arg \in {0, 1}
  BY <1>2 DEF Asked
<1>4. ASSUME NEW i \in 1..Len(s), s[i].op = "poll"
      PROVE  /\ i + 1 \in 1..Len(q) /\ s[i] = q[i + 1]
             /\ q[i + 1].arg = b => /\ Head(q).op \notin Subs
                                    /\ Head(q).op = "poll" => Head(q).arg = b
  <2>1. i + 1 \in 1..Len(q) /\ s[i] = q[i + 1]
    BY <1>4 DEF Shifts
  <2>2. 1 < i + 1
    BY <1>1
  <2>3. QED
    BY <1>1, <1>4, <2>1, <2>2 DEF Sorted
<1>5. ASSUME Head(q).op = "poll", Head(q).arg # b PROVE Polls(s, Head(q).arg)
  <2>1. Head(q).arg \in {0, 1}
    BY <1>1, <1>3, <1>5
  <2>2. ASSUME NEW i \in 1..Len(s), s[i].op = "poll" PROVE s[i].arg = Head(q).arg
    <3>1. s[i].arg \in {0, 1} /\ s[i].arg # b
      BY <1>3, <1>4, <1>5, <2>2
    <3>2. QED
      BY <1>5, <2>1, <3>1
  <2>3. QED
    BY <2>2 DEF Polls
<1>6. ASSUME Head(q).op \in Subs, Polls(q, b) PROVE NoPolls(s)
  <2>1. ASSUME NEW i \in 1..Len(s), s[i].op = "poll" PROVE FALSE
    <3>1. i + 1 \in 1..Len(q) /\ q[i + 1].op = "poll" /\ q[i + 1].arg # b
      BY <1>4, <1>6, <2>1
    <3>2. QED
      BY <1>6, <3>1 DEF Polls
  <2>2. QED
    BY <2>1 DEF NoPolls
<1>7. QED
  BY <1>5, <1>6

-----------------------------------------------------------------------------
\* Node state s is x after its first request, but for the cache.
Serves(x, s) ==
  /\ s.key = x.key /\ s.fsn = x.fsn /\ s.sent = x.sent /\ s.xact = x.xact
  /\ s.tx \in Seq(Asked) /\ Shifts(x.tx, s.tx, 1)

\* A poll: the Friend sends again what the node did not hear, or goes on.
LEMMA PollTurn ==
  ASSUME NEW n \in Nat, NEW x, NodeOK(x, n), x.tx # <<>>, Head(x.tx).op = "poll",
         NEW y, FriendOK(y), y.valid, Head(x.tx).key = y.key, NEW m, Stocked(y, m),
         Linked(y, x), Together(y, x), Turn(y, x), Kept(y, x),
         NEW z, Resends(y, z, Head(x.tx).arg) \/ Advances(y, z, Head(x.tx).arg),
         NEW s, Serves(x, s), s.heard = Remember(z, x.heard)
  PROVE  Turn(z, s) /\ Kept(z, s)
<1> DEFINE a == Head(x.tx).arg
<1>1. x.key = y.key /\ x.key # None
  BY HeadKey DEF FriendOK, Keyed
<1>2. /\ x.tx \in Seq(Asked) /\ a \in {0, 1} /\ y.fsn \in {0, 1} /\ x.fsn \in {0, 1}
      /\ Head(x.tx) = x.tx[1] /\ 1 \in 1..Len(x.tx)
  <2>1. x.tx \in Seq(Asked) /\ Head(x.tx) \in Asked /\ Head(x.tx) = x.tx[1] /\ Len(x.tx) \in Nat
    BY FirstRequest
  <2>2. a \in {0, 1}
    BY <2>1 DEF Asked
  <2>3. Len(x.tx) # 0
    BY <2>1
  <2>4. QED
    BY <2>1, <2>2, <2>3 DEF NodeOK, Node, FriendOK, Context
<1>3. /\ s.key = x.key /\ s.fsn = x.fsn /\ s.sent = x.sent /\ s.xact = x.xact
      /\ s.tx \in Seq(Asked) /\ Shifts(x.tx, s.tx, 1)
  BY DEF Serves
<1>4. /\ \A b : Polls(x.tx, b) => Polls(s.tx, b)
      /\ NoPolls(x.tx) => NoPolls(s.tx)
      /\ \A b : Sorted(x.tx, b) => Sorted(s.tx, b)
  BY <1>2, <1>3, ShiftPolls
<1>5. ~NoPolls(x.tx)
  BY <1>2 DEF NoPolls
<1>6. /\ z.est /\ z.key = y.key /\ z.air = y.air
  BY DEF Resends, Advances
<1>7. /\ z.last \in x.heard => z.last \in s.heard
      /\ z.air \in x.heard => z.air \in s.heard
  BY DEF Remember
<1> HIDE DEF a
\* The first poll establishes the friendship.
<1>8. CASE ~y.est
  <2>1. y.last = NoPdu
    BY <1>1, <1>8 DEF Linked, Keys
  <2>2. z.fsn = a
    BY <2>1 DEF Resends, Advances, a
  <2>3. ~x.est
    BY <1>1, <1>8 DEF Together
  <2>4. x.sent = "poll" /\ Polls(x.tx, 0) /\ x.fsn = 0
    BY <1>1, <2>3 DEF Linked, Early
  <2>5. a = 0
    BY <1>2, <2>4 DEF Polls, a
  <2>6. Behind(z, s)
    BY <1>3, <1>4, <2>2, <2>4, <2>5 DEF Behind
  <2>7. y.air.kind \in Plain
    BY <1>8, <2>1 DEF Stocked
  <2>8. QED
    BY <1>6, <2>6, <2>7 DEF Turn, Kept, Plain
<1>9. CASE y.est /\ Behind(y, x)
  <2>1. a = y.fsn
    BY <1>2, <1>9 DEF Behind, Polls, a
  <2>2. z.fsn = y.fsn /\ z.last = y.last
    BY <2>1 DEF Resends, Advances, a
  <2>3. Behind(z, s)
    BY <1>3, <1>4, <1>9, <2>2 DEF Behind
  <2>4. Kept(z, s)
    BY <1>3, <1>6, <1>7, <1>9, <2>2 DEF Kept, Cfm
  <2>5. QED
    BY <2>3, <2>4 DEF Turn
<1>10. CASE y.est /\ Ahead(y, x)
  <2>1. /\ x.fsn # y.fsn /\ y.last # NoPdu /\ Sorted(x.tx, y.fsn)
        /\ x.sent = "poll" \/ Polls(x.tx, y.fsn)
        /\ y.last \in x.heard
    BY <1>5, <1>10 DEF Ahead
  <2>2. CASE a = y.fsn
    <3>1. z.fsn = y.fsn /\ z.last = y.last
      BY <2>1, <2>2 DEF Resends, Advances, a
    <3>2. Ahead(z, s)
      BY <1>3, <1>4, <1>7, <2>1, <3>1 DEF Ahead
    <3>3. Kept(z, s)
      BY <1>3, <1>6, <1>7, <1>10, <3>1 DEF Kept, Cfm
    <3>4. QED
      BY <3>2, <3>3 DEF Turn
  <2>3. CASE a # y.fsn
    <3>1. z.fsn = a /\ z.last = NoPdu
      BY <2>3 DEF Resends, Advances, a
    <3>2. x.sent = "poll"
      BY <1>2, <2>1, <2>3 DEF Polls, a
    <3>3. Polls(s.tx, a)
      BY <1>2, <1>3, <2>1, <2>3, HeadPolls DEF a
    <3>4. a = x.fsn
      BY <1>2, <2>1, <2>3
    <3>5. Behind(z, s)
      BY <1>3, <3>1, <3>2, <3>3, <3>4 DEF Behind
    <3>6. Kept(z, s)
      <4>1. SUFFICES ASSUME z.air \notin s.heard
                     PROVE  /\ z.air.kind \in {"none", "offer", "confirm"}
                            /\ s.key = z.key /\ z.air.kind = "confirm"
                                 => s.sent \in Subs /\ z.air # Cfm(s)
        BY DEF Kept
      <4>2. y.air \notin {y.last} \cup x.heard
        BY <1>6, <1>7, <2>1, <4>1
      <4>3. QED
        BY <1>3, <1>6, <1>10, <4>2 DEF Kept, Cfm
    <3>7. QED
      BY <3>5, <3>6 DEF Turn
  <2>4. QED
    BY <2>2, <2>3
<1>11. QED
  BY <1>1, <1>8, <1>9, <1>10 DEF Turn

\* A request for the group comes only after the last PDU was heard.
LEMMA SubAhead ==
  ASSUME NEW n \in Nat, NEW x, NodeOK(x, n), x.tx # <<>>, Head(x.tx).op \in Subs,
         NEW y, FriendOK(y), y.valid, y.est, Head(x.tx).key = y.key,
         Linked(y, x), Ordered(x), Turn(y, x)
  PROVE  x.key = y.key /\ Ahead(y, x) /\ x.sent \in Subs
<1>1. x.key = y.key /\ x.key # None
  BY HeadKey DEF FriendOK, Keyed
<1>2. ~NoSubs(x.tx)
  <2>1. x.tx \in Seq(Asked) /\ Head(x.tx) = x.tx[1] /\ Len(x.tx) \in Nat
    BY FirstRequest
  <2>2. Len(x.tx) # 0
    BY <2>1
  <2>3. 1 \in 1..Len(x.tx)
    BY <2>1, <2>2
  <2>4. QED
    BY <2>1, <2>3 DEF NoSubs
<1>3. x.sent \in Subs
  BY <1>1, <1>2 DEF Ordered
<1>4. QED
  BY <1>1, <1>3 DEF Turn, Behind, Subs

LEMMA SubTurn ==
  ASSUME NEW n \in Nat, NEW x, NodeOK(x, n), x.tx # <<>>, Head(x.tx).op \in Subs,
         NEW y, FriendOK(y), y.valid, y.est, Head(x.tx).key = y.key,
         Linked(y, x), Ordered(x), Agreed(y, x), Turn(y, x), Kept(y, x),
         NEW z, Confirms(y, z, Head(x.tx).arg),
         NEW s, Serves(x, s), s.heard = Remember(z, x.heard)
  PROVE  Turn(z, s) /\ Kept(z, s)
<1>1. x.key = y.key /\ Ahead(y, x) /\ x.sent \in Subs
  BY SubAhead
<1>2. x.tx \in Seq(Asked) /\ y.fsn \in {0, 1}
  BY DEF NodeOK, Node, FriendOK, Context
<1>3. /\ s.key = x.key /\ s.fsn = x.fsn /\ s.sent = x.sent /\ s.xact = x.xact
      /\ s.tx \in Seq(Asked) /\ Shifts(x.tx, s.tx, 1)
  BY DEF Serves
<1>4. /\ \A b : Polls(x.tx, b) => Polls(s.tx, b)
      /\ \A b : Sorted(x.tx, b) => Sorted(s.tx, b)
  BY <1>2, <1>3, ShiftPolls
<1>5. /\ z.est /\ z.key = y.key /\ z.fsn = y.fsn /\ z.air = y.air
      /\ z.last.kind = "confirm" /\ z.last # NoPdu
  BY NothingIsReal DEF Confirms, Stays
<1>6. /\ z.air \in x.heard => z.air \in s.heard
  BY DEF Remember
<1>7. Sorted(x.tx, y.fsn) /\ Polls(x.tx, y.fsn) /\ x.fsn # y.fsn
  BY <1>1 DEF Ahead, Subs
<1>8. NoPolls(s.tx)
  BY <1>2, <1>3, <1>7, HeadPolls
<1>9. Ahead(z, s)
  BY <1>1, <1>3, <1>4, <1>5, <1>7, <1>8 DEF Ahead
<1>10. Kept(z, s)
  <2>1. SUFFICES ASSUME z.air \notin s.heard
                 PROVE  /\ z.air.kind \in {"none", "offer", "confirm"}
                        /\ z.air.kind = "confirm" => s.sent \in Subs /\ z.air # Cfm(s)
    BY DEF Kept
  <2>2. CASE y.air # y.last
    <3>1. y.air \notin {y.last} \cup x.heard
      BY <1>5, <1>6, <2>1, <2>2
    <3>2. QED
      BY <1>1, <1>3, <1>5, <3>1 DEF Kept, Cfm
  <2>3. CASE y.air = y.last
    <3>1. y.last \notin x.heard
      BY <1>5, <1>6, <2>1, <2>3
    <3>2. y.last.kind = "confirm"
      BY <1>1, <3>1 DEF Ahead
    <3>3. ~NoSubs(x.tx)
      <4>1. x.tx \in Seq(Asked) /\ Head(x.tx) = x.tx[1] /\ Len(x.tx) \in Nat
        BY FirstRequest
      <4>2. Len(x.tx) # 0
        BY <4>1
      <4>3. 1 \in 1..Len(x.tx)
        BY <4>1, <4>2
      <4>4. QED
        BY <4>1, <4>3 DEF NoSubs
    <3>4. y.last # Cfm(x)
      BY <1>1, <3>3 DEF Agreed, Coming
    <3>5. QED
      BY <1>1, <1>3, <1>5, <2>3, <3>2, <3>4 DEF Cfm
  <2>4. QED
    BY <2>2, <2>3
<1>11. QED
  BY <1>9, <1>10 DEF Turn

-----------------------------------------------------------------------------
(***************************************************************************)
(* The inductive invariant behind ActsAsMailbox, on top of Inv and Unity.  *)
(***************************************************************************)
\* A Friend Clear Confirm under way is of no later friendship than y.
Over(a, y, x) == a <= x.counter /\ (y.valid => a <= y.key)

\* No send failed, no group came back during its removal, and no PDU that came
\* again passed for an answer.
Straight == slips = {} /\ ~twice

Posted ==
  /\ Stocked(f, sent) /\ l.heard \subseteq {f.last, f.air}
  /\ Linked(f, l) /\ Over(answer, f, l)
  /\ Straight => Turn(f, l) /\ Kept(f, l)

LEMMA InitPosted == Init => Posted
<1> SUFFICES ASSUME Init PROVE Posted
  OBVIOUS
<1>1. /\ f.queue = <<>> /\ f.last = NoPdu /\ f.air = NoPdu /\ ~f.est /\ ~f.valid
      /\ f.key = None /\ ~f.pendReq
  BY DEF Init, NoFriendship
<1>2. /\ ~l.est /\ l.counter = 0 /\ l.key = None /\ l.fsn = 0 /\ l.tx = <<>>
      /\ l.heard = {} /\ answer = None
  BY DEF Init
<1>3. NoPdu.kind = "none" /\ None < 0 /\ None <= 0
  BY DEF NoPdu, None
<1>4. Stocked(f, sent)
  BY <1>1, <1>3, LineEmpty DEF Stocked, Plain
<1>5. Len(l.tx) = 0
  BY <1>2
<1>6. Under(l.tx, Before(0)) /\ Names(l.tx, 0)
  BY <1>5 DEF Under, Names
<1>7. Early(l) /\ Older(l)
  BY <1>2, <1>3, <1>6 DEF Early, Older
<1>8. Keys(f, l)
  BY <1>1, <1>2, <1>3 DEF Keys
<1>9. Turn(f, l) /\ Kept(f, l)
  BY <1>1, OverTurn
<1>10. QED
  BY <1>1, <1>2, <1>3, <1>4, <1>7, <1>8, <1>9 DEF Posted, Linked, Over

LEMMA HeardLinked ==
  ASSUME NEW x \in Node, NEW y, Linked(y, x), NEW S
  PROVE  Linked(y, [x EXCEPT !.heard = S])
<1> DEFINE z == [x EXCEPT !.heard = S]
<1>1. /\ z.est = x.est /\ z.fsn = x.fsn /\ z.key = x.key /\ z.sent = x.sent
      /\ z.tx = x.tx /\ z.counter = x.counter /\ z.st = x.st
  BY DEF Node
<1> HIDE DEF z
<1>2. Early(z) /\ Older(z) /\ Keys(y, z)
  BY <1>1, Zenon DEF Linked, Early, Older, Keys
<1>3. QED
  BY <1>2 DEF Linked, z

\* A step of the Friend.
LEMMA FriendStepPosted ==
  ASSUME Inv, Posted, NEW z, FriendStep(z), UNCHANGED <<answer, slips, twice>>,
         Stocked(z, sent'), Keys(z, l), z.valid => f.valid /\ z.key = f.key,
         Straight =>
           \A w : Still(l, w) /\ w.heard = Remember(z, l.heard)
                    => Turn(z, w) /\ Kept(z, w)
  PROVE  Posted'
<1> DEFINE w == [l EXCEPT !.heard = Remember(z, l.heard)]
<1>0. l \in Node
  BY DEF Inv, NodeOK
<1>1. f' = z /\ l' = w
  BY <1>0 DEF FriendStep, Node
<1>2. Still(l, w) /\ w.heard = Remember(z, l.heard) /\ w.counter = l.counter
  BY <1>0 DEF Node, Still
<1>3. Linked(z, l)
  BY DEF Posted, Linked
<1>4. Linked(z, w)
  BY <1>0, <1>3, HeardLinked
<1> HIDE DEF w
<1>5. Over(answer, z, w)
  BY <1>2 DEF Posted, Over
<1>6. w.heard \subseteq {z.last, z.air}
  BY <1>2 DEF Remember
<1>7. Straight => Turn(z, w) /\ Kept(z, w)
  BY <1>2
<1>8. QED
  BY <1>1, <1>4, <1>5, <1>6, <1>7 DEF Posted, Straight

\* A step of the node.
LEMMA NodeStepPosted ==
  ASSUME Inv, NodeOK(l', calls'), Posted, UNCHANGED <<f, sent>>, answer' \in {answer, None},
         l'.heard = l.heard, Linked(f, l'), l.counter <= l'.counter,
         Straight' => Turn(f, l') /\ Kept(f, l')
  PROVE  Posted'
<1>1. /\ l.counter \in Nat /\ l'.counter \in Nat /\ answer \in Int /\ f.key \in Int
      /\ FriendOK(f)
  BY KeyTypes, LinkTypes DEF Inv, Others, NodeOK, Node, FriendOK, Context
<1>2. f.valid => f.key \in Nat
  BY <1>1, KeyTypes DEF FriendOK, Keyed, Context
<1>3. Over(answer', f, l')
  BY <1>1, <1>2 DEF Posted, Over, None
<1>4. QED
  BY <1>3 DEF Posted

-----------------------------------------------------------------------------
LEMMA FriendPosted ==
  ASSUME Inv, Posted,
         FriendTimer \/ FriendSendStart \/ FriendSendEnd \/ FriendEnqueue
  PROVE  Posted'
<1>0. /\ FriendOK(f) /\ f \in Context /\ NodeOK(l, calls) /\ Stocked(f, sent)
      /\ Keys(f, l) /\ sent \in Nat
      /\ Straight => Turn(f, l) /\ Kept(f, l)
  BY Constants DEF Inv, FriendOK, Posted, Linked, Others
<1>1. CASE FriendTimer
  <2> DEFINE z == FriendExpire(f)
  <2>1. FriendStep(z) /\ UNCHANGED <<answer, sent, slips, twice>>
    BY <1>1 DEF FriendTimer
  <2>2. Sends(f, z) \/ Clears(f, z) \/ Pops(f, z)
    BY <1>0, ExpireIs
  <2> HIDE DEF z
  <2>3. CASE Sends(f, z)
    <3>1. Stocked(z, sent) /\ Keys(z, l)
      BY <1>0, <2>3, SendsStocked, StaysKeys DEF Sends, Stays
    <3>2. Straight =>
           \A w : Still(l, w) /\ w.heard = Remember(z, l.heard)
                    => Turn(z, w) /\ Kept(z, w)
      BY <1>0, <2>3, StaysTurn DEF Sends, Stays
    <3>3. QED
      BY <2>1, <2>3, <3>1, <3>2, FriendStepPosted DEF Sends, Stays
  <2>4. CASE Clears(f, z)
    <3>1. Stocked(z, sent) /\ Keys(z, l) /\ ~z.valid /\ ~z.est
      BY <1>0, <2>4, ClearsStocked, ClearsKeys DEF Clears
    <3>2. QED
      BY <2>1, <3>1, FriendStepPosted, OverTurn
  <2>5. CASE Pops(f, z)
    <3>1. Stocked(z, sent) /\ Keys(z, l)
      BY <1>0, <2>5, PopsStocked, PopsKeys
    <3>2. Straight =>
           \A w : Still(l, w) /\ w.heard = Remember(z, l.heard)
                    => Turn(z, w) /\ Kept(z, w)
      BY <1>0, <2>5, PopsTurn
    <3>3. QED
      BY <2>1, <2>5, <3>1, <3>2, FriendStepPosted DEF Pops, Stays
  <2>6. QED
    BY <2>2, <2>3, <2>4, <2>5
<1>2. CASE FriendSendStart
  <2> DEFINE z == SendStart(f)
  <2>1. FriendStep(z) /\ UNCHANGED <<answer, sent, slips, twice>>
    BY <1>2 DEF FriendSendStart
  <2>2. Starts(f, z)
    BY <1>0, StartStarts
  <2> HIDE DEF z
  <2>3. Stocked(z, sent) /\ Keys(z, l)
    BY <1>0, <2>2, StartsStocked, StartsKeys
  <2>4. Straight =>
         \A w : Still(l, w) /\ w.heard = Remember(z, l.heard)
                  => Turn(z, w) /\ Kept(z, w)
    BY <1>0, <2>2, StartsTurn
  <2>5. QED
    BY <2>1, <2>2, <2>3, <2>4, FriendStepPosted DEF Starts
<1>3. CASE FriendSendEnd
  <2> DEFINE z == SendEnd(f)
  <2>1. FriendStep(z) /\ UNCHANGED <<answer, sent, slips, twice>>
    BY <1>3 DEF FriendSendEnd
  <2>2. Stops(f, z)
    BY <1>0, EndStops
  <2> HIDE DEF z
  <2>3. Stocked(z, sent) /\ Keys(z, l)
    BY <1>0, <2>2, StopsStocked, StopsKeys
  <2>4. Straight =>
         \A w : Still(l, w) /\ w.heard = Remember(z, l.heard)
                  => Turn(z, w) /\ Kept(z, w)
    BY <1>0, <2>2, StopsTurn
  <2>5. QED
    BY <2>1, <2>2, <2>3, <2>4, FriendStepPosted DEF Stops
<1>4. CASE FriendEnqueue
  <2> DEFINE p == [kind |-> "data", id |-> sent + 1]
             z == Enqueue(f, p)
  <2>1. sent + 1 \in Msg
    BY <1>0, <1>4, Constants DEF FriendEnqueue, Msg
  <2>2. p \in Real /\ p.kind = "data" /\ p.id = sent + 1
    BY <2>1 DEF Real, Pdu
  <2>3. FriendStep(z) /\ f.est /\ UNCHANGED <<answer, slips, twice>> /\ sent' = sent + 1
    BY <1>4 DEF FriendEnqueue
  <2> HIDE DEF p
  <2>4. Queues(f, z, p)
    BY <1>0, <2>2, EnqueueQueues
  <2> HIDE DEF z
  <2>5. Stocked(z, sent')
    BY <1>0, <2>2, <2>3, <2>4, QueuesStocked
  <2>6. Keys(z, l)
    BY <1>0, <2>4, StaysKeys DEF Queues, Stays
  <2>7. Straight =>
         \A w : Still(l, w) /\ w.heard = Remember(z, l.heard)
                  => Turn(z, w) /\ Kept(z, w)
    BY <1>0, <2>4, StaysTurn DEF Queues, Stays
  <2>8. QED
    BY <2>3, <2>4, <2>5, <2>6, <2>7, FriendStepPosted DEF Queues, Stays
<1>5. QED
  BY <1>1, <1>2, <1>3, <1>4

-----------------------------------------------------------------------------
\* The timer of the node.
LEMMA TimerPosted ==
  ASSUME Inv, NodeOK(l', calls'), Unity, Posted, LpnTimer
  PROVE  Posted' /\ l'.heard = l.heard
<1>0. /\ FriendOK(f) /\ f \in Context /\ NodeOK(l, calls) /\ calls \in 0..MaxCalls
      /\ Linked(f, l) /\ l.counter \in Nat /\ l'.counter \in Nat
  BY LinkTypes DEF Inv, FriendOK, Posted, Others
<1>1. PICK ok \in Outcomes :
        /\ l' = LpnExpire([l EXCEPT !.timer = FALSE], ok)
        /\ slips' = slips \cup Failed(ok)
  BY DEF LpnTimer
<1>2. /\ ok \in BOOLEAN /\ UNCHANGED <<f, sent, answer>> /\ l.timer
      /\ l.st \in {"timer", "enabled", "waitoffer", "clear"} => l.tx = <<>>
  BY OutcomesAreBoolean DEF LpnTimer
<1>3. /\ Counts(l, l')
      /\ \/ Goes(l, l') /\ (ok /\ Groups(l) => Insists(l, l'))
         \/ Ended(l, l') /\ (l.tx = <<>> \/ l.key = None)
  BY <1>0, <1>1, <1>2, ExpireGoes
<1>4. l.counter <= l'.counter
  BY <1>0, <1>3 DEF Counts
<1>5. Straight' => /\ Straight /\ ok = TRUE /\ Turn(f, l) /\ Kept(f, l)
                     /\ Groups(l) /\ Follows(l, l')
  <2>1. SUFFICES ASSUME Straight'
                 PROVE  /\ Straight /\ ok = TRUE /\ Turn(f, l) /\ Kept(f, l)
                        /\ Groups(l) /\ Follows(l, l')
    OBVIOUS
  <2>2. Straight /\ slips = {} /\ ok = TRUE
    BY <1>1, <2>1, NoSlip DEF Straight, LpnTimer
  <2>3. Groups(l) /\ Ordered(l)
    BY <2>2 DEF Unity, United, Steady
  <2>4. Follows(l, l')
    BY <1>0, <1>1, <1>2, <2>2, <2>3, ExpireSteady
  <2>5. QED
    BY <2>2, <2>3, <2>4 DEF Posted
<1>6. CASE Goes(l, l') /\ (ok /\ Groups(l) => Insists(l, l'))
  <2>1. Linked(f, l') /\ l'.heard = l.heard
    BY <1>0, <1>3, <1>6, GoesLinked DEF Goes
  <2>2. Straight' => Turn(f, l') /\ Kept(f, l')
    BY <1>0, <1>5, <1>6, GoesTurn, GoesKept
  <2>3. QED
    BY <1>2, <1>4, <2>1, <2>2, NodeStepPosted
<1>7. CASE Ended(l, l') /\ (l.tx = <<>> \/ l.key = None)
  <2>1. f.valid => Under(l.tx, Int \ {f.key})
    <3>1. CASE l.tx = <<>>
      BY <3>1 DEF Under
    <3>2. CASE l.key = None
      BY <1>0, <3>2 DEF Linked, Keys, FriendOK, Keyed
    <3>3. QED
      BY <1>7, <3>1, <3>2
  <2>2. Linked(f, l') /\ l'.heard = l.heard
    BY <1>0, <1>3, <1>7, <2>1, EndedLinked DEF Ended
  <2>3. Straight' => Turn(f, l') /\ Kept(f, l')
    BY <1>0, <1>5, <1>7, EndedTurn
  <2>4. QED
    BY <1>2, <1>4, <2>2, <2>3, NodeStepPosted
<1>8. QED
  BY <1>3, <1>6, <1>7

-----------------------------------------------------------------------------
\* The node asks for one thing more, or for nothing.
LEMMA GoesPosted ==
  ASSUME Inv, NodeOK(l', calls'), Posted, UNCHANGED <<f, answer, sent>>,
         Goes(l, l'), Counts(l, l'), Insists(l, l'),
         Straight' => Straight /\ Follows(l, l')
  PROVE  Posted' /\ l'.heard = l.heard
<1>0. /\ FriendOK(f) /\ NodeOK(l, calls) /\ Linked(f, l)
      /\ l.counter \in Nat /\ l'.counter \in Nat
      /\ Straight => Turn(f, l) /\ Kept(f, l)
  BY LinkTypes DEF Inv, Posted
<1>1. l.counter <= l'.counter
  BY <1>0 DEF Counts
<1>2. Linked(f, l') /\ l'.heard = l.heard
  BY <1>0, GoesLinked DEF Goes
<1>3. Straight' => Turn(f, l') /\ Kept(f, l')
  BY <1>0, GoesTurn, GoesKept
<1>4. QED
  BY <1>1, <1>2, <1>3, NodeStepPosted

LEMMA CallPosted ==
  ASSUME Inv, NodeOK(l', calls'), Unity, Posted, LpnPoll \/ LpnGroupAdd \/ LpnGroupDel
  PROVE  Posted' /\ l'.heard = l.heard
<1>0. /\ f \in Context /\ NodeOK(l, calls) /\ l \in Node /\ calls \in 0..MaxCalls
      /\ calls \in Nat
      /\ Straight => Steady(l) /\ Groups(l)
  BY Constants DEF Inv, FriendOK, NodeOK, Others, Unity, United, Steady, Straight
<1>1. CASE LpnPoll
  <2>1. PICK ok \in Outcomes :
          l' = SendFriendPoll(l, ok) /\ slips' = slips \cup Failed(ok)
    BY <1>1 DEF LpnPoll
  <2>2. UNCHANGED <<f, answer, sent>> /\ l.est /\ ok \in BOOLEAN
    BY <1>1, OutcomesAreBoolean DEF LpnPoll
  <2>3. l.st \notin Asking
    BY <1>0, <2>2 DEF NodeOK, Alone, Asking
  <2>4. Goes(l, l') /\ Counts(l, l') /\ Insists(l, l')
    BY <1>0, <2>1, <2>2, <2>3, PollGoes
  <2>5. ASSUME Straight' PROVE Straight /\ Follows(l, l')
    <3>1. Straight /\ slips = {} /\ ok = TRUE
      BY <1>1, <2>1, <2>5, NoSlip DEF Straight, LpnPoll
    <3>2. QED
      BY <1>0, <2>1, <2>2, <3>1, PollCall
  <2>6. QED
    BY <2>2, <2>4, <2>5, GoesPosted
<1>2. CASE LpnGroupAdd
  <2> DEFINE x == IF l.group THEN [l EXCEPT !.toRemove = FALSE]
                  ELSE [l EXCEPT !.group = TRUE, !.changed = TRUE]
             readd == IF l.toRemove /\ l.sent = "rem" THEN {"readd"} ELSE {}
  <2>1. PICK ok \in Outcomes :
          /\ l' = IF l.est /\ l.sent = "none" THEN SubUpdate(x, "add", ok) ELSE x
          /\ slips' = slips \cup Failed(ok) \cup readd
    BY <1>2 DEF LpnGroupAdd
  <2>2. UNCHANGED <<f, answer, sent>> /\ ok \in BOOLEAN
    BY <1>2, OutcomesAreBoolean DEF LpnGroupAdd
  <2>3. /\ x \in Node /\ Same(l, x) /\ x.sent = l.sent /\ x.tx = l.tx
        /\ x.xact = l.xact /\ x.timer = l.timer /\ x.pending = l.pending
        /\ l.group => x.group
        /\ l.sent = "rem" /\ ~l.group => x.toRemove = l.toRemove
        /\ Level(l, x)
    BY <1>0 DEF Node, Same, Level
  <2> HIDE DEF x
  <2>4. Goes(l, l') /\ Counts(l, l') /\ Insists(l, l')
    BY <1>0, <2>1, <2>2, <2>3, GroupGoes DEF Subs
  <2>5. ASSUME Straight' PROVE Straight /\ Follows(l, l')
    <3>1. ~twice /\ slips \cup Failed(ok) = {} /\ readd = {}
      BY <1>2, <2>1, <2>5 DEF Straight, LpnGroupAdd
    <3>2. Straight /\ slips = {} /\ ok = TRUE /\ ~(l.toRemove /\ l.sent = "rem")
      BY <3>1, NoSlip DEF Straight
    <3>3. Groups(x)
      BY <1>0, <2>3, <3>2 DEF Groups, Subs, Same
    <3>4. QED
      BY <1>0, <2>1, <2>3, <3>2, <3>3, GroupCall DEF Subs
  <2>6. QED
    BY <2>2, <2>4, <2>5, GoesPosted
<1>3. CASE LpnGroupDel
  <2> DEFINE x == IF l.added \/ l.pending
                    THEN [l EXCEPT !.toRemove = TRUE, !.changed = TRUE]
                    ELSE [l EXCEPT !.group = FALSE]
  <2>1. PICK ok \in Outcomes :
          /\ l' = IF l.est /\ l.sent = "none" THEN SubUpdate(x, "rem", ok) ELSE x
          /\ slips' = slips \cup Failed(ok)
    BY <1>3 DEF LpnGroupDel
  <2>2. UNCHANGED <<f, answer, sent>> /\ ok \in BOOLEAN
    BY <1>3, OutcomesAreBoolean DEF LpnGroupDel
  <2>3. /\ x \in Node /\ Same(l, x) /\ x.sent = l.sent /\ x.tx = l.tx
        /\ x.xact = l.xact /\ x.timer = l.timer /\ x.pending = l.pending
        /\ l.pending => x.toRemove /\ x.group = l.group
        /\ Level(l, x)
    BY <1>0 DEF Node, Same, Level
  <2> HIDE DEF x
  <2>4. Goes(l, l') /\ Counts(l, l') /\ Insists(l, l')
    BY <1>0, <2>1, <2>2, <2>3, GroupGoes DEF Subs
  <2>5. ASSUME Straight' PROVE Straight /\ Follows(l, l')
    <3>1. Straight /\ slips = {} /\ ok = TRUE
      BY <1>3, <2>1, <2>5, NoSlip DEF Straight, LpnGroupDel
    <3>2. Groups(x)
      BY <1>0, <2>3, <3>1 DEF Groups, Subs, Same
    <3>3. QED
      BY <1>0, <2>1, <2>3, <3>1, <3>2, GroupCall DEF Subs
  <2>6. QED
    BY <2>2, <2>4, <2>5, GoesPosted
<1>4. QED
  BY <1>1, <1>2, <1>3

(***************************************************************************)
(* A Friend Clear Confirm with the node's counter ends the friendship,     *)
(* which is over for the Friend: a newer context would have a newer key.   *)
(***************************************************************************)
LEMMA ClearCfmPosted ==
  ASSUME Inv, NodeOK(l', calls'), Posted, LpnClearCfm
  PROVE  Posted' /\ l'.heard = l.heard
<1>0. /\ FriendOK(f) /\ NodeOK(l, calls) /\ l \in Node /\ Linked(f, l)
      /\ l.counter \in Nat /\ l'.counter \in Nat /\ f.key \in Int
      /\ Straight => Turn(f, l) /\ Kept(f, l)
  BY LinkTypes DEF Inv, Posted
<1>1. UNCHANGED <<f, sent, slips, twice>> /\ answer' = None
  BY DEF LpnClearCfm
<1>2. CASE l' = l
  BY <1>0, <1>1, <1>2, NodeStepPosted DEF Straight
<1>3. CASE l.st = "clear" /\ answer = l.counter /\ l' = Cleanup(l, TRUE)
  <2>1. Ended(l, l') /\ Counts(l, l')
    BY <1>0, <1>3, CleanupEnds DEF Asking
  <2>2. ~f.valid
    <3>1. f.valid => l.counter <= f.key
      BY <1>3 DEF Posted, Over
    <3>2. f.key < l.counter
      BY <1>0, <1>3 DEF Linked, Keys, Asking
    <3>3. QED
      BY <1>0, <3>1, <3>2
  <2>3. Linked(f, l')
    BY <1>0, <2>1, <2>2, EndedLinked
  <2>4. l'.heard = l.heard /\ l.counter <= l'.counter
    BY <1>0, <2>1 DEF Ended, Counts
  <2>5. Straight' => Turn(f, l') /\ Kept(f, l')
    BY <1>0, <1>1, <2>1, EndedTurn DEF Straight
  <2>6. QED
    BY <1>1, <2>3, <2>4, <2>5, NodeStepPosted
<1>4. QED
  BY <1>2, <1>3 DEF LpnClearCfm

-----------------------------------------------------------------------------
\* The node hears what is on the air.
LEMMA HearsPosted ==
  ASSUME Inv, NodeOK(l', calls'), Unity, Posted, LpnHears
  PROVE  Posted' /\ l'.heard = l.heard \cup {f.air}
<1>0. /\ FriendOK(f) /\ f \in Context /\ NodeOK(l, calls) /\ l \in Node
      /\ calls \in 0..MaxCalls /\ calls \in Nat
      /\ Linked(f, l) /\ Keys(f, l)
      /\ l.counter \in Nat /\ l'.counter \in Nat /\ answer \in Int
      /\ Straight => Turn(f, l) /\ Kept(f, l) /\ Ordered(l)
  <2>1. /\ FriendOK(f) /\ f \in Context /\ NodeOK(l, calls) /\ l \in Node
        /\ calls \in 0..MaxCalls /\ calls \in Nat /\ Linked(f, l) /\ Keys(f, l)
        /\ l.counter \in Nat /\ l'.counter \in Nat /\ answer \in Int
    BY Constants, LinkTypes, KeyTypes DEF Inv, FriendOK, Posted, Others, Linked
  <2>2. Straight => Turn(f, l) /\ Kept(f, l) /\ Ordered(l)
    BY Zenon DEF Posted, Unity, United, Steady, Straight
  <2>3. QED
    BY <2>1, <2>2
<1>1. PICK ok \in Outcomes :
        /\ l' = [LpnRecv(l, f.air, ok) EXCEPT !.heard = Remember(f, @ \cup {f.air})]
        /\ slips' = slips \cup Failed(ok)
        /\ twice' = (twice \/ (f.air \in l.heard /\ LpnRecv(l, f.air, ok) # l))
  BY DEF LpnHears
<1>2. /\ ok \in BOOLEAN /\ UNCHANGED <<f, answer, sent>>
      /\ f.air \in Real /\ f.air # NoPdu /\ f.air.kind # "none" /\ f.airKey # None
      /\ l.st \in {"waitoffer", "waitupdate", "clear"}
      /\ f.air.kind # "offer" => f.airKey = l.key
  BY <1>0, OutcomesAreBoolean DEF LpnHears, FriendOK, Keyed, Context, Real
<1>3. Straight' => Straight /\ (LpnRecv(l, f.air, ok) = l \/ f.air \notin l.heard)
  BY <1>1, Zenon DEF Straight
<1> DEFINE w == LpnRecv(l, f.air, ok)
           S == Remember(f, w.heard \cup {f.air})
<1>4. NodeOK(w, calls)
  BY <1>0, <1>2, LpnRecvOK
<1>5. l' = [w EXCEPT !.heard = S]
  BY <1>1, <1>4 DEF NodeOK, Node
<1>6. /\ l'.key = w.key /\ l'.fsn = w.fsn /\ l'.sent = w.sent /\ l'.tx = w.tx
      /\ l'.counter = w.counter /\ l'.heard = S
  BY <1>4, <1>5 DEF NodeOK, Node
<1>7. f.air \in l'.heard /\ l'.heard \subseteq {f.last, f.air}
  BY <1>6 DEF Remember
\* It is enough to look at w.
<1>8. SUFFICES /\ Linked(f, w) /\ l.counter <= w.counter /\ w.heard = l.heard
               /\ Straight' => Turn(f, l')
  <2>1. Linked(f, l')
    BY <1>4, <1>5, <1>8, HeardLinked DEF NodeOK
  <2>2. Straight' => Turn(f, l') /\ Kept(f, l')
    BY <1>3, <1>7, <1>8, HeardKept
  <2>3. Over(answer, f, l')
    BY <1>0, <1>6, <1>8 DEF Posted, Over
  <2>4. l'.heard = l.heard \cup {f.air}
    BY <1>6, <1>8 DEF Remember, Posted
  <2>5. QED
    BY <1>2, <1>7, <2>1, <2>2, <2>3, <2>4 DEF Posted
<1>9. CASE f.air.kind = "offer"
  <2>1. CASE l.st # "waitoffer"
    <3>1. w = l
      BY <1>9, <2>1 DEF LpnRecv
    <3> HIDE DEF w, S
    <3>2. f.last \in l.heard => f.last \in l'.heard
      BY <1>6, <3>1 DEF S, Remember
    <3>3. QED
      BY <1>0, <1>3, <1>6, <3>1, <3>2, LevelTurn DEF Straight
  <2>2. CASE l.st = "waitoffer"
    <3>1. w = LpnOffer(l, f.air.id, ok)
      BY <1>9, <2>2 DEF LpnRecv
    <3> HIDE DEF w, S
    <3>2. \/ Level(l, w) /\ w.tx = l.tx /\ w.sent = l.sent
          \/ Accepts(l, w, f.air.id)
      BY <1>0, <1>2, <2>2, <3>1, OfferAccepts
    <3>3. CASE Level(l, w) /\ w.tx = l.tx /\ w.sent = l.sent
      <4>1. Goes(l, w) /\ Counts(l, w)
        BY <1>0, <3>3 DEF Goes, Counts, Level, Grows
      <4>2. Linked(f, w)
        BY <1>0, <1>4, <4>1, GoesLinked
      <4>3. f.last \in l.heard => f.last \in l'.heard
        BY <1>6, <3>3 DEF S, Remember, Level
      <4>4. QED
        BY <1>0, <1>3, <1>6, <3>3, <4>2, <4>3, LevelTurn DEF Level, Straight
    <3>4. CASE Accepts(l, w, f.air.id)
      <4>1. Linked(f, w) /\ l.counter <= w.counter /\ w.heard = l.heard
        BY <1>0, <1>4, <1>9, <2>2, <3>4, AcceptsLinked DEF Accepts
      <4>2. Turn(f, w)
        BY <1>0, <3>4, AcceptsTurn
      <4>3. f.last \in w.heard => f.last \in l'.heard
        BY <1>6 DEF S, Remember
      <4>4. QED
        BY <1>6, <4>1, <4>2, <4>3, LevelTurn
    <3>5. QED
      BY <3>2, <3>3, <3>4
  <2>3. QED
    BY <2>1, <2>2
<1>10. CASE f.air.kind # "offer"
  <2>1. l.key # None /\ f.air.kind \notin {"none", "offer"}
    BY <1>2, <1>10
  <2>2. l.st \notin Asking
    BY <1>0, <1>2, <2>1 DEF NodeOK, Alone, Asking
  <2>3. \/ w = l
        \/ /\ Replies(l, w)
           /\ l.sent = "poll" \/ (l.sent \in Subs /\ f.air = Cfm(l))
    BY <1>0, <1>2, <2>1, RecvReplies
  <2> HIDE DEF w, S
  <2>4. CASE w = l
    <3>1. f.last \in l.heard => f.last \in l'.heard
      BY <1>6, <2>4 DEF S, Remember
    <3>2. QED
      BY <1>0, <1>3, <1>6, <2>4, <3>1, LevelTurn DEF Straight
  <2>5. CASE /\ Replies(l, w)
             /\ l.sent = "poll" \/ (l.sent \in Subs /\ f.air = Cfm(l))
    <3>1. Linked(f, w) /\ l.counter <= w.counter /\ w.heard = l.heard
      BY <1>0, <1>4, <2>1, <2>2, <2>5, RepliesLinked DEF Replies
    <3>2. Straight' => Turn(f, l')
      <4>1. SUFFICES ASSUME Straight', w # l PROVE Turn(f, l')
        BY <2>4
      <4>2. Straight /\ f.air \notin l.heard
        BY <1>3, <4>1 DEF w
      <4>3. QED
        BY <1>0, <1>2, <1>6, <1>7, <2>1, <2>5, <4>2, RepliesTurn
    <3>3. QED
      BY <3>1, <3>2
  <2>6. QED
    BY <2>3, <2>4, <2>5
<1>11. QED
  BY <1>9, <1>10

-----------------------------------------------------------------------------
\* What a request makes of the Friend's context.
LEMMA ReceiveIs ==
  ASSUME FriendOK(f), NEW n, Stocked(f, n), l.again \in BOOLEAN,
         NEW r \in Asked, r.op # "clearing"
  PROVE  LET z == FriendRecv(f, r)
         IN  \/ z = f /\ r.op # "clear"
             \/ r.op = "req" /\ Offers(f, z, r.arg)
             \/ r.op = "clear" /\ Clears(f, z)
             \/ /\ r.op = "poll" /\ f.valid /\ r.key = f.key
                /\ Resends(f, z, r.arg) \/ Advances(f, z, r.arg)
             \/ /\ r.op \in Subs /\ f.valid /\ f.est /\ r.key = f.key
                /\ Confirms(f, z, r.arg)
<1>0. /\ f \in Context /\ (f.pendReq => f.valid)
      /\ r.op \in {"req", "poll", "add", "rem", "clear"}
      /\ r.op = "poll" => r.arg \in {0, 1}
  BY DEF FriendOK, Stocked, Asked, Request
<1>1. CASE r.op = "req"
  BY <1>0, <1>1, ReqOffers DEF FriendRecv
<1>2. CASE r.op = "clear"
  BY <1>2, ClearClears DEF FriendRecv
<1>3. CASE r.op = "poll"
  <2>1. CASE ~f.valid \/ f.pendBuf \/ r.key # f.key
    BY <1>3, <2>1 DEF FriendRecv
  <2>2. CASE ~(~f.valid \/ f.pendBuf \/ r.key # f.key)
    <3>1. FriendRecv(f, r) = FriendPoll(f, r.arg)
      BY <1>3, <2>2 DEF FriendRecv
    <3>2. QED
      BY <1>0, <1>3, <2>2, <3>1, PollAnswers
  <2>3. QED
    BY <2>1, <2>2
<1>4. CASE r.op \in Subs
  <2>1. CASE ~f.valid \/ f.pendBuf \/ r.key # f.key \/ ~f.est
    BY <1>4, <2>1 DEF FriendRecv, Subs
  <2>2. CASE ~(~f.valid \/ f.pendBuf \/ r.key # f.key \/ ~f.est)
    <3>1. FriendRecv(f, r) = FriendSub(f, r.op, r.arg)
      BY <1>4, <2>2 DEF FriendRecv, Subs
    <3>2. QED
      BY <1>0, <1>4, <2>2, <3>1, SubConfirms
  <2>3. QED
    BY <2>1, <2>2
<1>5. QED
  BY <1>0, <1>1, <1>2, <1>3, <1>4 DEF Subs

-----------------------------------------------------------------------------
\* A request reaches the Friend, whose context becomes z, or is lost.
LEMMA SendIs ==
  ASSUME Inv, Posted, LpnSend
  PROVE  LET r == Head(l.tx)
             x == Started(l)
         IN  /\ l.tx # <<>> /\ NodeOK(x, calls) /\ x.heard = l.heard
             /\ r \in Asked /\ x.counter = l.counter
             /\ UNCHANGED <<sent, got, calls, slips, twice>>
             /\ \/ f' = f /\ l' = x /\ answer' = answer
                \/ /\ f' = FriendRecv(f, r) /\ r.op # "clearing"
                   /\ answer' = IF r.op = "clear" THEN r.arg ELSE answer
                   /\ l' = [x EXCEPT !.heard = Remember(f', l.heard)]
<1>0. NodeOK(l, calls) /\ calls \in Nat
  BY Constants DEF Inv, Others
<1>1. l.tx # <<>>
  BY DEF LpnSend
<1>2. NodeOK(Started(l), calls) /\ Started(l) \in Node
  BY <1>0, <1>1, StartedOK DEF NodeOK
<1>3. /\ Started(l).heard = l.heard /\ Started(l).counter = l.counter
      /\ Head(l.tx) \in Asked
  BY <1>0, <1>1, StartedShifts, StartedFields, FirstRequest
<1>4. \/ f' = f /\ l' = Started(l) /\ answer' = answer
      \/ /\ f' = FriendRecv(f, Head(l.tx)) /\ Head(l.tx).op # "clearing"
         /\ answer' = IF Head(l.tx).op = "clear" THEN Head(l.tx).arg ELSE answer
         /\ l' = [Started(l) EXCEPT !.heard = Remember(f', @)]
  BY DEF LpnSend, Started
<1>5. [Started(l) EXCEPT !.heard = Remember(f', @)]
        = [Started(l) EXCEPT !.heard = Remember(f', l.heard)]
  BY <1>2, <1>3 DEF Node
<1>6. UNCHANGED <<sent, got, calls, slips, twice>>
  BY DEF LpnSend
<1>7. QED
  BY <1>1, <1>2, <1>3, <1>4, <1>5, <1>6, Zenon

LEMMA SendPosted ==
  ASSUME Inv, NodeOK(l', calls'), Unity, Posted, LpnSend
  PROVE  Posted'
<1> DEFINE r == Head(l.tx)
           x == Started(l)
<1>0. /\ FriendOK(f) /\ f \in Context /\ NodeOK(l, calls) /\ l \in Node
      /\ calls \in Nat /\ Linked(f, l) /\ Stocked(f, sent)
      /\ l.counter \in Nat /\ l.again \in BOOLEAN /\ answer \in Int
      /\ l.heard \subseteq {f.last, f.air}
      /\ Straight => /\ Turn(f, l) /\ Kept(f, l) /\ Ordered(l)
                       /\ Together(f, l) /\ Agreed(f, l)
  <2>1. /\ FriendOK(f) /\ f \in Context /\ NodeOK(l, calls) /\ l \in Node
        /\ calls \in Nat /\ answer \in Int
    BY Constants, KeyTypes DEF Inv, FriendOK, Others, NodeOK
  <2>2. l.counter \in Nat /\ l.again \in BOOLEAN
    BY <2>1, LinkTypes DEF Node
  <2>3. QED
    BY <2>1, <2>2, Zenon DEF Posted, Unity, United, Steady, Straight
<1>1. /\ l.tx # <<>> /\ NodeOK(x, calls) /\ x.heard = l.heard /\ x \in Node
      /\ r \in Asked /\ x.counter = l.counter
      /\ UNCHANGED <<sent, got, calls, slips, twice>>
      /\ \/ f' = f /\ l' = x /\ answer' = answer
         \/ /\ f' = FriendRecv(f, r) /\ r.op # "clearing"
            /\ answer' = IF r.op = "clear" THEN r.arg ELSE answer
            /\ l' = [x EXCEPT !.heard = Remember(f', l.heard)]
  BY SendIs DEF NodeOK
<1>2. /\ Linked(f, x)
      /\ Straight => Turn(f, x) /\ Kept(f, x)
  BY <1>0, <1>1, StartedLinked, StartedTurn
<1>3. /\ x.key = l.key /\ x.fsn = l.fsn /\ x.sent = l.sent /\ x.xact = l.xact
      /\ x.tx \in Seq(Asked) /\ (r.op # "clear" => Shifts(l.tx, x.tx, 1))
  BY <1>0, <1>1, StartedShifts, StartedFields
<1>4. r.op = "req" => r.arg = l.counter
  BY <1>0, <1>1, FirstRequest
<1>5. r.op = "clear" => r.arg <= l.counter /\ r.arg \in Nat
  <2>1. 1 \in 1..Len(l.tx) /\ r = l.tx[1]
    BY <1>0, <1>1, FirstRequest
  <2>2. QED
    BY <1>0, <1>1, <2>1, KeyTypes DEF Linked, Older, Names, Asked
<1> HIDE DEF x, r
<1>6. CASE f' = f /\ l' = x /\ answer' = answer
  BY <1>0, <1>1, <1>2, <1>6, NodeStepPosted DEF Straight
<1>7. CASE /\ f' = FriendRecv(f, r) /\ r.op # "clearing"
           /\ answer' = IF r.op = "clear" THEN r.arg ELSE answer
           /\ l' = [x EXCEPT !.heard = Remember(f', l.heard)]
  <2> DEFINE z == f'
             w == l'
  <2>0. /\ w.key = x.key /\ w.fsn = x.fsn /\ w.sent = x.sent /\ w.xact = x.xact
        /\ w.tx = x.tx /\ w.heard = Remember(z, l.heard) /\ w.counter = l.counter
    BY <1>1, <1>7 DEF Node
  <2>1. w.heard \subseteq {z.last, z.air}
    BY <2>0 DEF Remember
  <2>2. SUFFICES /\ Stocked(z, sent) /\ Linked(z, x) /\ Over(answer', z, w)
                 /\ Straight => Turn(z, w) /\ Kept(z, w)
    <3>1. Linked(z, w)
      BY <1>1, <1>7, <2>2, HeardLinked
    <3>2. QED
      BY <1>1, <2>1, <2>2, <3>1 DEF Posted, Straight
  <2>3. Over(answer, f, l) /\ f.key \in Int
    BY <1>0, KeyTypes DEF Posted, Context
  <2>4. r.op # "clear" => Serves(l, w) /\ answer' = answer
    BY <1>3, <1>7, <2>0 DEF Serves
  <2>5. \/ z = f /\ r.op # "clear"
        \/ r.op = "req" /\ Offers(f, z, r.arg)
        \/ r.op = "clear" /\ Clears(f, z)
        \/ /\ r.op = "poll" /\ f.valid /\ r.key = f.key
           /\ Resends(f, z, r.arg) \/ Advances(f, z, r.arg)
        \/ /\ r.op \in Subs /\ f.valid /\ f.est /\ r.key = f.key
           /\ Confirms(f, z, r.arg)
    BY <1>0, <1>1, <1>7, ReceiveIs
  <2> HIDE DEF z, w
  <2>6. CASE z = f /\ r.op # "clear"
    <3>1. w.heard = l.heard
      BY <1>0, <2>0, <2>6 DEF Remember
    <3>2. Straight => Turn(z, w)
      BY <1>1, <1>2, <2>0, <2>6, <3>1, LevelTurn
    <3>3. Straight => Kept(z, w)
      BY <1>1, <1>2, <2>0, <2>6, <3>1 DEF Kept, Cfm
    <3>4. QED
      BY <1>0, <1>2, <2>0, <2>3, <2>4, <2>6, <3>2, <3>3 DEF Over
  <2>7. CASE r.op = "req" /\ Offers(f, z, r.arg)
    <3>1. Stocked(z, sent) /\ Linked(z, x)
      BY <1>0, <1>1, <1>4, <2>7, OffersStocked, OffersLinked DEF r, x
    <3>2. Turn(z, w) /\ Kept(z, w)
      BY <2>7, OverTurn DEF Offers
    <3>3. Over(answer', z, w)
      BY <1>4, <2>0, <2>3, <2>4, <2>7 DEF Over, Offers
    <3>4. QED
      BY <3>1, <3>2, <3>3
  <2>8. CASE r.op = "clear" /\ Clears(f, z)
    <3>1. Stocked(z, sent) /\ Keys(z, x)
      BY <1>0, <1>1, <1>2, <2>8, ClearsStocked, ClearsKeys DEF Linked
    <3>2. Turn(z, w) /\ Kept(z, w) /\ ~z.valid
      BY <2>8, OverTurn DEF Clears
    <3>3. Over(answer', z, w)
      BY <1>5, <1>7, <2>0, <2>8, <3>2 DEF Over
    <3>4. QED
      BY <1>2, <3>1, <3>2, <3>3 DEF Linked
  <2>9. ASSUME f.valid, r.key = f.key
        PROVE  f.key < x.counter /\ l.key = f.key
    BY <1>0, <1>1, <2>9, HeadKey DEF r
  <2>10. CASE /\ r.op = "poll" /\ f.valid /\ r.key = f.key
              /\ Resends(f, z, r.arg) \/ Advances(f, z, r.arg)
    <3>1. Stocked(z, sent) /\ Keys(z, x)
      BY <1>0, <1>2, <2>9, <2>10, ResendsStocked, AdvancesStocked, PollKeys DEF Linked
    <3>2. Straight => Turn(z, w) /\ Kept(z, w)
      BY <1>0, <1>1, <2>0, <2>4, <2>10, PollTurn DEF r
    <3>3. Over(answer', z, w)
      BY <2>0, <2>3, <2>4, <2>10 DEF Over, Resends, Advances
    <3>4. QED
      BY <1>2, <3>1, <3>2, <3>3 DEF Linked
  <2>11. CASE /\ r.op \in Subs /\ f.valid /\ f.est /\ r.key = f.key
              /\ Confirms(f, z, r.arg)
    <3>1. Stocked(z, sent) /\ Keys(z, x)
      BY <1>0, <1>2, <2>11, ConfirmsStocked, ConfirmsKeys DEF Linked
    <3>2. Straight => Turn(z, w) /\ Kept(z, w)
      BY <1>0, <1>1, <2>0, <2>4, <2>11, SubTurn DEF r, Subs
    <3>3. Over(answer', z, w)
      BY <2>0, <2>3, <2>4, <2>11 DEF Over, Confirms, Stays, Subs
    <3>4. QED
      BY <1>2, <3>1, <3>2, <3>3 DEF Linked
  <2>12. QED
    BY <2>5, <2>6, <2>7, <2>8, <2>10, <2>11
<1>8. QED
  BY <1>1, <1>6, <1>7

LEMMA NextPosted == Inv /\ Unity /\ Posted /\ [Next]_vars => Posted'
<1> SUFFICES ASSUME Inv, Unity, Posted, [Next]_vars PROVE Posted'
  OBVIOUS
<1>1. NodeOK(l', calls')
  BY NextInv DEF Inv
<1>2. CASE UNCHANGED vars
  BY <1>2 DEF vars, Posted, Straight
<1>3. QED
  BY <1>1, <1>2, FriendPosted, TimerPosted, CallPosted, ClearCfmPosted, HearsPosted,
     SendPosted DEF Next

-----------------------------------------------------------------------------
(***************************************************************************)
(* What the node has still to receive, in a context and a cache.           *)
(***************************************************************************)
LetterOf(p, S) == IF p.kind = "data" /\ p \notin S THEN <<p.id>> ELSE <<>>

AirOf(y, S) == IF y.air = y.last THEN <<>> ELSE LetterOf(y.air, S)

BoxOf(y, S) == AirOf(y, S) \o (LetterOf(y.last, S) \o Letters(y.queue))

LEMMA BoxIs == Box = BoxOf(f, l.heard) /\ Box' = BoxOf(f', l'.heard)
BY DEF Box, BoxOf, AirOf, LetterOf, Letter

\* A box without one of its messages.
LEMMA Drop ==
  ASSUME NEW a \in Seq(Int), NEW h \in Int, NEW c \in Seq(Int)
  PROVE  LET b == a \o (<<h>> \o c)
         IN  /\ Len(a) + 1 \in 1..Len(b) /\ Abstract!Without(b, Len(a) + 1) = a \o c
             /\ a \o c \in Abstract!Fewer(b)
<1> DEFINE d == <<h>> \o c
           b == a \o d
           n == Len(a) + 1
           s == SubSeq(b, 1, n - 1)
           t == SubSeq(b, n + 1, Len(b))
<1>1. d \in Seq(Int) /\ Len(d) = Len(c) + 1 /\ \A i \in 1..Len(c) : d[i + 1] = c[i]
  OBVIOUS
<1> HIDE DEF d
<1>2. /\ b \in Seq(Int) /\ Len(b) = Len(a) + Len(d) /\ Len(a) \in Nat /\ Len(c) \in Nat
      /\ \A i \in 1..Len(a) + Len(d) : b[i] = IF i <= Len(a) THEN a[i] ELSE d[i - Len(a)]
  BY <1>1, ConcatProperties, LenProperties
<1> HIDE DEF b
<1>3. /\ n \in Int /\ n - 1 = Len(a) /\ n + 1 = Len(a) + 2
      /\ Len(b) = Len(a) + Len(c) + 1
  BY <1>1, <1>2
<1>e. \A i \in 1..Len(b) : b[i] \in Int
  BY <1>2, ElementOfSeq
<1>4. s = a
  <2>1. \A i \in 1..Len(a) : b[i] \in Int
    BY <1>2, <1>3, <1>e
  <2>2. s = SubSeq(b, 1, Len(a))
    BY <1>3
  <2>3. /\ s \in Seq(Int) /\ Len(s) = Len(a)
        /\ \A i \in 1..Len(a) - 1 + 1 : s[i] = b[1 + i - 1]
    BY <1>2, <2>1, <2>2, SubSeqProperties
  <2>4. \A i \in 1..Len(s) : s[i] = a[i]
    BY <1>1, <1>2, <2>3, SMTT(30)
  <2> HIDE DEF s
  <2>5. QED
    BY <2>3, <2>4, SeqEqual
<1>6. t = c
  <2>1. \A i \in Len(a) + 2..Len(b) : b[i] \in Int
    BY <1>2, <1>3, <1>e
  <2>2. t = SubSeq(b, Len(a) + 2, Len(b))
    BY <1>3
  <2>3. Len(a) + 2 \in Int /\ Len(b) \in Int
    BY <1>2, <1>3
  <2>4. /\ t \in Seq(Int)
        /\ Len(t) = IF Len(a) + 2 <= Len(b) THEN Len(b) - (Len(a) + 2) + 1 ELSE 0
        /\ \A i \in 1..Len(b) - (Len(a) + 2) + 1 : t[i] = b[Len(a) + 2 + i - 1]
    BY <2>1, <2>2, <2>3, SubSeqProperties
  <2> HIDE DEF t
  <2>n. Len(a) \in Nat /\ Len(c) \in Nat /\ Len(d) = Len(c) + 1
    BY <1>1, <1>2
  <2>5. Len(t) = Len(c) /\ \A i \in 1..Len(c) : t[i] = b[Len(a) + 1 + i]
    <3>1. /\ Len(b) - (Len(a) + 2) + 1 = Len(c)
          /\ Len(a) + 2 <= Len(b) \/ Len(c) = 0
      BY <1>3, <2>n
    <3>2. Len(t) = Len(c)
      BY <1>3, <2>4, <2>n, <3>1
    <3>3. \A i \in 1..Len(c) : Len(a) + 2 + i - 1 = Len(a) + 1 + i
      BY <2>n
    <3>4. QED
      BY <2>4, <3>1, <3>2, <3>3
  <2>6. \A i \in 1..Len(c) : b[Len(a) + 1 + i] = d[i + 1]
    <3>1. TAKE i \in 1..Len(c)
    <3>2. /\ Len(a) + 1 + i \in 1..Len(a) + Len(d) /\ ~(Len(a) + 1 + i <= Len(a))
          /\ Len(a) + 1 + i - Len(a) = i + 1
      BY <2>n
    <3>3. QED
      BY <1>2, <3>2, SMTT(30)
  <2>7. \A i \in 1..Len(t) : t[i] = c[i]
    BY <1>1, <2>5, <2>6
  <2>8. QED
    BY <2>4, <2>5, <2>7, SeqEqual
<1>7. n \in 1..Len(b)
  BY <1>1, <1>2
<1>8. Abstract!Without(b, n) = a \o c
  BY <1>4, <1>6 DEF Abstract!Without
<1>9. QED
  BY <1>7, <1>8 DEF Abstract!Fewer, b, d

-----------------------------------------------------------------------------
LEMMA RealIds == \A p \in Real : p.id \in Int
<1>1. Num \subseteq Int /\ Msg \subseteq Int
  BY Constants DEF Num, Msg
<1>2. Counter \cup Num \cup Msg \cup {None} \subseteq Int
  BY <1>1, KeyTypes
<1>3. \A p \in Pdu : p.id \in Counter \cup Num \cup Msg \cup {None}
  BY DEF Pdu
<1>4. QED
  BY <1>2, <1>3 DEF Real

LEMMA LettersType ==
  ASSUME NEW q \in Seq(Real)
  PROVE  Letters(q) \in Seq(Int)
<1> DEFINE d == IF q # <<>> /\ Head(q).kind = "update" THEN Tail(q) ELSE q
<1>1. d \in Seq(Real) /\ Len(d) \in Nat
  OBVIOUS
<1>2. \A p \in Real : p.id \in Int
  BY RealIds
<1> HIDE DEF d
<1>3. \A i \in 1..Len(d) : d[i].id \in Int
  BY <1>1, <1>2
<1>4. Letters(q) = [i \in 1..Len(d) |-> d[i].id]
  BY DEF Letters, d
<1>5. QED
  BY <1>1, <1>3, <1>4

LEMMA LetterType ==
  ASSUME NEW p \in Real, NEW S
  PROVE  LetterOf(p, S) \in Seq(Int) /\ p.id \in Int
<1>1. p.id \in Int
  BY RealIds
<1>2. QED
  BY <1>1 DEF LetterOf

\* The first message of a queue, and one more at its end.
LEMMA SameEntries ==
  ASSUME NEW a \in Seq(Int), NEW b \in Seq(Int), Len(a) = Len(b),
         \A i \in 1..Len(a) : a[i] = b[i]
  PROVE  a = b
BY SMTT(30)

LEMMA LettersHead ==
  ASSUME NEW q \in Seq(Real), q # <<>>, NEW S, NEW n, Line(q, S, n)
  PROVE  Letters(q) = (IF Head(q).kind = "data" THEN <<Head(q).id>> ELSE <<>>)
                         \o Letters(Tail(q))
<1> DEFINE t == Tail(q)
           m == [i \in 1..Len(t) |-> t[i].id]
<1>1. /\ Head(q) \in Real /\ Head(q).kind \in {"update", "data"} /\ t \in Seq(Real)
      /\ \A i \in 1..Len(t) : t[i].kind = "data"
  BY LineTail
<1>2. /\ Len(t) \in Nat /\ Len(q) = Len(t) + 1 /\ Head(q) = q[1]
      /\ \A i \in 1..Len(t) : t[i] = q[i + 1]
  OBVIOUS
<1>3. ~(t # <<>> /\ Head(t).kind = "update")
  <2>1. t # <<>> => Head(t) = t[1] /\ 1 \in 1..Len(t)
    BY <1>1
  <2>2. QED
    BY <1>1, <2>1
<1>4. Letters(t) = m
  BY <1>3 DEF Letters
<1>5. m \in Seq(Int)
  BY <1>1, <1>4, LettersType
<1>6. CASE Head(q).kind = "update"
  <2>1. Letters(q) = m
    BY <1>6 DEF Letters
  <2>2. QED
    BY <1>4, <1>5, <1>6, <2>1
<1>7. CASE Head(q).kind = "data"
  <2> DEFINE c == <<Head(q).id>> \o m
             e == [i \in 1..Len(q) |-> q[i].id]
  <2>1. Letters(q) = e
    BY <1>7 DEF Letters
  <2>2. Len(m) = Len(t) /\ \A i \in 1..Len(t) : m[i] = t[i].id
    BY <1>2
  <2>3. Head(q).id \in Int
    BY <1>1, LetterType
  <2>4. e \in Seq(Int)
    BY <2>1, LettersType
  <2>5. Len(e) = Len(q) /\ \A i \in 1..Len(q) : e[i] = q[i].id
    BY <1>2
  <2> HIDE DEF m, e, t
  <2>6. /\ c \in Seq(Int) /\ Len(c) = Len(q) /\ c[1] = Head(q).id
        /\ \A i \in 1..Len(t) : c[i + 1] = m[i]
    BY <1>2, <1>5, <2>2, <2>3
  <2>7. \A i \in 1..Len(q) : c[i] = q[i].id
    <3>1. TAKE i \in 1..Len(q)
    <3>2. CASE i = 1
      BY <1>2, <2>6, <3>2
    <3>3. CASE i # 1
      <4>1. i - 1 \in 1..Len(t) /\ i = (i - 1) + 1
        BY <1>2, <3>3
      <4> DEFINE k == i - 1
      <4>k. k \in 1..Len(t) /\ k + 1 = i
        BY <1>2, <4>1
      <4> HIDE DEF k
      <4>2. c[i] = m[k] /\ m[k] = t[k].id /\ t[k] = q[i]
        BY <1>2, <2>2, <2>6, <4>k
      <4>3. QED
        BY <4>2
    <3>4. QED
      BY <3>2, <3>3
  <2> HIDE DEF c
  <2>8. c = e
    <3>1. c \in Seq(Int) /\ Len(c) = Len(e)
      BY <2>5, <2>6
    <3>2. \A i \in 1..Len(c) : c[i] = e[i]
      BY <2>5, <2>6, <2>7
    <3>3. QED
      BY <2>4, <3>1, <3>2, SameEntries
  <2>9. QED
    BY <1>4, <1>7, <2>1, <2>8 DEF c, t
<1>8. QED
  BY <1>1, <1>6, <1>7

LEMMA LettersAppend ==
  ASSUME NEW q \in Seq(Real), NEW p \in Real, p.kind = "data"
  PROVE  Letters(Append(q, p)) = Append(Letters(q), p.id)
<1> DEFINE s == Append(q, p)
           D(r) == IF r # <<>> /\ Head(r).kind = "update" THEN Tail(r) ELSE r
<1>1. s \in Seq(Real) /\ s # <<>>
  BY AppendProperties
<1>2. D(s) = Append(D(q), p) /\ D(q) \in Seq(Real)
  <2>1. CASE q = <<>>
    <3>1. Head(s) = p /\ s = <<p>>
      BY <2>1
    <3>2. QED
      BY <2>1, <3>1
  <2>2. CASE q # <<>>
    <3>1. Head(s) = Head(q) /\ Tail(s) = Append(Tail(q), p) /\ Tail(q) \in Seq(Real)
      BY <2>2
    <3>2. QED
      BY <1>1, <2>2, <3>1
  <2>3. QED
    BY <2>1, <2>2
<1>3. /\ Letters(s) = [i \in 1..Len(D(s)) |-> D(s)[i].id]
      /\ Letters(q) = [i \in 1..Len(D(q)) |-> D(q)[i].id]
  BY DEF Letters
<1> DEFINE d == D(q)
           e == D(s)
           m == [i \in 1..Len(d) |-> d[i].id]
           k == [i \in 1..Len(e) |-> e[i].id]
<1>4. e = Append(d, p) /\ d \in Seq(Real) /\ Letters(q) = m /\ Letters(s) = k
  BY <1>2, <1>3
<1>5. k \in Seq(Int) /\ m \in Seq(Int) /\ p.id \in Int
  BY <1>1, <1>4, LettersType, LetterType
<1> HIDE DEF d, e
<1>6. /\ Len(d) \in Nat /\ Len(e) = Len(d) + 1 /\ e[Len(d) + 1] = p
      /\ \A i \in 1..Len(d) : e[i] = d[i]
  BY <1>4
<1>7. /\ Len(k) = Len(d) + 1 /\ Len(m) = Len(d)
      /\ \A i \in 1..Len(d) : m[i] = d[i].id
      /\ \A i \in 1..Len(e) : k[i] = e[i].id
  BY <1>6
<1> HIDE DEF k, m
<1> DEFINE c == Append(m, p.id)
<1>8. /\ c \in Seq(Int) /\ Len(c) = Len(d) + 1 /\ c[Len(d) + 1] = p.id
      /\ \A i \in 1..Len(d) : c[i] = m[i]
  BY <1>5, <1>6, <1>7
<1> HIDE DEF c
<1>9. \A i \in 1..Len(d) + 1 : c[i] = k[i]
  BY <1>6, <1>7, <1>8, SMTT(30)
<1>10. c = k
  BY <1>5, <1>7, <1>8, <1>9
<1>11. QED
  BY <1>4, <1>10 DEF c

-----------------------------------------------------------------------------
(***************************************************************************)
(* What each step makes of the box.                                        *)
(***************************************************************************)
LEMMA LetterKinds ==
  /\ \A S : LetterOf(NoPdu, S) = <<>>
  /\ \A p, S : p.kind # "data" \/ p \in S => LetterOf(p, S) = <<>>
  /\ \A p, S : p.kind = "data" /\ p \notin S => LetterOf(p, S) = <<p.id>>
BY NothingIsReal DEF LetterOf

\* What the cache drops cannot come again.
LEMMA LetterSame ==
  ASSUME NEW z, NEW S, NEW p \in {z.last, z.air}
  PROVE  LetterOf(p, Remember(z, S)) = LetterOf(p, S)
BY DEF LetterOf, Remember

LEMMA NoLetters == Letters(<<>>) = <<>> /\ \A u : u.kind = "update" => Letters(<<u>>) = <<>>
<1>1. Letters(<<>>) = <<>>
  BY DEF Letters
<1>2. ASSUME NEW u, u.kind = "update" PROVE Letters(<<u>>) = <<>>
  <2>1. <<u>> # <<>> /\ Head(<<u>>) = u /\ Tail(<<u>>) = <<>>
    OBVIOUS
  <2>2. QED
    BY <1>2, <2>1 DEF Letters
<1>3. QED
  BY <1>1, <1>2

LEMMA BoxType ==
  ASSUME NEW y \in Context, NEW S
  PROVE  /\ y.last \in Real /\ y.air \in Real /\ y.queue \in Seq(Real)
         /\ AirOf(y, S) \in Seq(Int) /\ LetterOf(y.last, S) \in Seq(Int)
         /\ LetterOf(y.air, S) \in Seq(Int)
         /\ Letters(y.queue) \in Seq(Int) /\ BoxOf(y, S) \in Seq(Int)
<1>1. y.last \in Real /\ y.air \in Real /\ y.queue \in Seq(Real)
  BY DEF Context
<1>2. /\ LetterOf(y.last, S) \in Seq(Int) /\ LetterOf(y.air, S) \in Seq(Int)
      /\ Letters(y.queue) \in Seq(Int)
  BY <1>1, LetterType, LettersType
<1>3. AirOf(y, S) \in Seq(Int)
  BY <1>2, EmptySeq DEF AirOf
<1>4. QED
  BY <1>1, <1>2, <1>3, ConcatProperties DEF BoxOf

LEMMA SameBox ==
  ASSUME NEW y, NEW z, NEW S, z.last = y.last, z.air = y.air, z.queue = y.queue
  PROVE  BoxOf(z, Remember(z, S)) = BoxOf(y, S)
<1>1. /\ LetterOf(z.last, Remember(z, S)) = LetterOf(y.last, S)
      /\ LetterOf(z.air, Remember(z, S)) = LetterOf(y.air, S)
  BY LetterSame
<1>2. AirOf(z, Remember(z, S)) = AirOf(y, S)
  BY <1>1 DEF AirOf
<1>3. QED
  BY <1>1, <1>2 DEF BoxOf

\* A box of which only the PDU on the air is left.
LEMMA LastBox ==
  ASSUME NEW y \in Context, NEW S, y.queue = <<>>, y.last.kind \in Plain
  PROVE  BoxOf(y, S) = LetterOf(y.air, S)
<1>1. LetterOf(y.last, S) = <<>> /\ Letters(y.queue) = <<>>
  BY LetterKinds, NoLetters DEF Plain
<1>2. AirOf(y, S) = LetterOf(y.air, S)
  BY <1>1 DEF AirOf
<1>3. LetterOf(y.air, S) \in Seq(Int)
  BY BoxType
<1>4. QED
  BY <1>1, <1>2, <1>3, EmptySeq, ConcatEmptySeq DEF BoxOf

LEMMA FirstBox ==
  ASSUME NEW y \in Context, NEW S
  PROVE  \/ LetterOf(y.air, S) = <<>>
         \/ /\ BoxOf(y, S) # <<>>
            /\ LetterOf(y.air, S) = <<Head(BoxOf(y, S))>>
<1> DEFINE A == AirOf(y, S)
           B == LetterOf(y.last, S)
           L == Letters(y.queue)
<1>1. A \in Seq(Int) /\ B \in Seq(Int) /\ L \in Seq(Int)
  BY BoxType
<1>2. ASSUME LetterOf(y.air, S) # <<>>
      PROVE  BoxOf(y, S) # <<>> /\ LetterOf(y.air, S) = <<Head(BoxOf(y, S))>>
  <2>1. LetterOf(y.air, S) = <<y.air.id>> /\ y.air.id \in Int
    BY <1>2, BoxType, LetterType DEF LetterOf
  <2>2. (A = <<y.air.id>>) \/ (A = <<>> /\ B = <<y.air.id>>)
    BY <2>1 DEF AirOf
  <2>3. PICK c \in Seq(Int) : BoxOf(y, S) = <<y.air.id>> \o c
    <3>1. CASE A = <<y.air.id>>
      <4>1. B \o L \in Seq(Int)
        BY <1>1, ConcatProperties
      <4>2. BoxOf(y, S) = <<y.air.id>> \o (B \o L)
        BY <3>1 DEF BoxOf
      <4>3. QED
        BY <4>1, <4>2
    <3>2. CASE A = <<>> /\ B = <<y.air.id>>
      <4>1. <<y.air.id>> \o L \in Seq(Int)
        BY <1>1, <3>2, ConcatProperties
      <4>2. BoxOf(y, S) = <<>> \o (<<y.air.id>> \o L)
        BY <3>2 DEF BoxOf
      <4>3. BoxOf(y, S) = <<y.air.id>> \o L
        BY <4>1, <4>2, ConcatEmptySeq
      <4>4. QED
        BY <1>1, <4>3
    <3>3. QED
      BY <2>2, <3>1, <3>2
  <2>4. <<y.air.id>> \o c # <<>> /\ Head(<<y.air.id>> \o c) = y.air.id
    BY <2>1
  <2>5. QED
    BY <2>1, <2>3, <2>4
<1>3. QED
  BY <1>2

\* The friendship ends: at most the PDU on the air is left.
LEMMA OverBox ==
  ASSUME NEW y \in Context, NEW z \in Context, NEW S, NEW n, Stocked(y, n),
         z.queue = <<>>, z.last.kind \in Plain, z.air = y.air
  PROVE  LET b == BoxOf(y, S)
             c == BoxOf(z, Remember(z, S))
         IN  /\ c = <<>> \/ (b # <<>> /\ c = <<Head(b)>>)
             /\ ~y.est => c = b
<1>1. BoxOf(z, Remember(z, S)) = LetterOf(y.air, S)
  BY LastBox, LetterSame
<1>2. ~y.est => BoxOf(y, S) = LetterOf(y.air, S)
  BY LastBox DEF Stocked
<1>3. QED
  BY <1>1, <1>2, FirstBox

LEMMA PopsBox ==
  ASSUME NEW y \in Context, NEW z, NEW S, S \subseteq {y.last, y.air},
         NEW n, Stocked(y, n), Pops(y, z)
  PROVE  BoxOf(z, Remember(z, S)) = BoxOf(y, S)
<1> DEFINE T == Remember(z, S)
           h == Head(y.queue)
           H == IF h.kind = "data" THEN <<h.id>> ELSE <<>>
           L == Letters(Tail(y.queue))
<1>1. /\ y.queue \in Seq(Real) /\ y.queue # <<>> /\ y.last = NoPdu
      /\ z.last = h /\ z.queue = Tail(y.queue) /\ z.air = y.air
      /\ Line(y.queue, {y.last, y.air}, n)
  BY DEF Context, Pops, Stays, Stocked
<1>2. /\ h \in Real /\ h.kind \in {"update", "data"}
      /\ h.kind = "data" => h \notin {y.last, y.air}
      /\ Tail(y.queue) \in Seq(Real)
  BY <1>1, LineTail
<1>3. Letters(y.queue) = H \o L
  BY <1>1, LettersHead
<1>4. LetterOf(h, T) = H
  <2>1. LetterOf(h, T) = LetterOf(h, S)
    BY <1>1, LetterSame
  <2>2. h.kind = "data" => h \notin S
    BY <1>2
  <2>3. QED
    BY <2>1, <2>2 DEF LetterOf
<1>5. AirOf(y, S) = LetterOf(y.air, S)
  BY <1>1, LetterKinds DEF AirOf
<1>6. AirOf(z, T) = LetterOf(y.air, S)
  <2>1. CASE y.air = h
    BY <1>1, <1>2, <2>1, LetterKinds DEF AirOf
  <2>2. CASE y.air # h
    BY <1>1, <2>2, LetterSame DEF AirOf
  <2>3. QED
    BY <2>1, <2>2
<1>7. LetterOf(y.last, S) = <<>>
  BY <1>1, LetterKinds
<1>8. H \o L \in Seq(Int)
  BY <1>1, <1>3, LettersType
<1> HIDE DEF H, L, T
<1>9. <<>> \o (H \o L) = H \o L
  BY <1>8, ConcatEmptySeq
<1>10. QED
  BY <1>1, <1>3, <1>4, <1>5, <1>6, <1>7, <1>9 DEF BoxOf, L, T

\* The advertiser starts and ends.
LEMMA StartsBox ==
  ASSUME NEW y \in Context, NEW z, NEW S, NEW n, Stocked(y, n), Starts(y, z),
         y.air = NoPdu
  PROVE  BoxOf(z, Remember(z, S)) = BoxOf(y, S)
<1> DEFINE T == Remember(z, S)
<1>1. AirOf(y, S) = <<>>
  BY LetterKinds DEF AirOf
<1>2. AirOf(z, T) = <<>>
  <2>1. CASE y.est
    BY <2>1 DEF AirOf, Starts
  <2>2. CASE ~y.est
    BY <2>2, LetterKinds DEF AirOf, Starts, Stocked, Plain
  <2>3. QED
    BY <2>1, <2>2
<1>3. LetterOf(z.last, T) = LetterOf(y.last, S)
  <2>1. CASE y.est
    BY <2>1, LetterSame DEF Starts
  <2>2. CASE ~y.est
    BY <2>2, LetterKinds DEF Starts, Stocked, Plain
  <2>3. QED
    BY <2>1, <2>2
<1>4. QED
  BY <1>1, <1>2, <1>3 DEF BoxOf, Starts

LEMMA StopsBox ==
  ASSUME NEW y \in Context, NEW z, NEW S, Stops(y, z)
  PROVE  LET b == BoxOf(y, S)
             c == BoxOf(z, Remember(z, S))
         IN  \/ c = b
             \/ /\ AirOf(y, S) # <<>> /\ c \in Abstract!Fewer(b)
                /\ y.queue = <<>> /\ y.last.kind \in Plain => c = <<>>
<1> DEFINE T == Remember(z, S)
           B == LetterOf(y.last, S)
           L == Letters(y.queue)
<1>1. B \in Seq(Int) /\ L \in Seq(Int) /\ B \o L \in Seq(Int)
  BY BoxType, ConcatProperties
<1>2. AirOf(z, T) = <<>>
  BY LetterKinds DEF AirOf, Stops
<1>3. LetterOf(z.last, T) = B /\ Letters(z.queue) = L
  BY LetterSame DEF Stops
<1>4. BoxOf(z, T) = <<>> \o (B \o L) /\ BoxOf(y, S) = AirOf(y, S) \o (B \o L)
  BY <1>2, <1>3 DEF BoxOf
<1>5. CASE AirOf(y, S) = <<>>
  BY <1>4, <1>5
<1>6. CASE AirOf(y, S) # <<>>
  <2>1. AirOf(y, S) = <<y.air.id>> /\ y.air.id \in Int
    BY <1>6, BoxType, LetterType DEF AirOf, LetterOf
  <2>2. BoxOf(y, S) = <<>> \o (<<y.air.id>> \o (B \o L))
    <3>1. <<y.air.id>> \o (B \o L) \in Seq(Int)
      BY <1>1, <2>1, ConcatProperties
    <3>2. QED
      BY <1>4, <2>1, <3>1, ConcatEmptySeq
  <2>3. BoxOf(z, T) \in Abstract!Fewer(BoxOf(y, S))
    <3> DEFINE c == B \o L
               h == y.air.id
    <3>1. c \in Seq(Int) /\ h \in Int /\ <<>> \in Seq(Int)
      BY <1>1, <2>1, EmptySeq
    <3> HIDE DEF c, h
    <3>2. <<>> \o c \in Abstract!Fewer(<<>> \o (<<h>> \o c))
      BY <3>1, Drop
    <3>3. QED
      BY <1>4, <2>2, <3>2 DEF c, h
  <2>4. ASSUME y.queue = <<>>, y.last.kind \in Plain PROVE BoxOf(z, T) = <<>>
    <3>1. B = <<>> /\ L = <<>>
      BY <2>4, LetterKinds, NoLetters DEF Plain
    <3>2. QED
      BY <1>4, <3>1, EmptySeq, ConcatEmptySeq
  <2>5. QED
    BY <1>6, <2>3, <2>4
<1>7. QED
  BY <1>5, <1>6

-----------------------------------------------------------------------------
\* What the PDU on the air, the last one and the queue hold, each once.
MidOf(y, S) == IF y.air = y.last THEN <<>> ELSE LetterOf(y.last, S)

LEMMA KeepBox ==
  ASSUME NEW y \in Context, NEW S
  PROVE  /\ BoxOf(y, S) = LetterOf(y.air, S) \o (MidOf(y, S) \o Letters(y.queue))
         /\ MidOf(y, S) \in Seq(Int)
         /\ MidOf(y, S) # <<>> => /\ LetterOf(y.last, S) # <<>>
                                  /\ \E m \in Int : MidOf(y, S) = <<m>>
         /\ AirOf(y, S) = <<>> /\ LetterOf(y.last, S) = <<>> =>
              LetterOf(y.air, S) = <<>> /\ MidOf(y, S) = <<>>
<1> DEFINE L == Letters(y.queue)
           B == LetterOf(y.last, S)
<1>1. /\ L \in Seq(Int) /\ B \in Seq(Int) /\ y.last \in Real
      /\ LetterOf(y.air, S) \in Seq(Int) /\ B \o L \in Seq(Int)
  BY BoxType, ConcatProperties
<1>2. B # <<>> => \E m \in Int : B = <<m>>
  BY <1>1, LetterType DEF LetterOf
<1>3. CASE y.air = y.last
  <2>1. AirOf(y, S) = <<>> /\ MidOf(y, S) = <<>>
    BY <1>3 DEF AirOf, MidOf
  <2>2. BoxOf(y, S) = B \o L
    BY <1>1, <2>1, ConcatEmptySeq DEF BoxOf
  <2>3. <<>> \o L = L
    BY <1>1, ConcatEmptySeq
  <2>4. QED
    BY <1>3, <2>1, <2>2, <2>3, EmptySeq
<1>4. CASE y.air # y.last
  BY <1>1, <1>2, <1>4 DEF AirOf, MidOf, BoxOf
<1>5. QED
  BY <1>3, <1>4

\* The last PDU of z is no message.
LEMMA ClipBox ==
  ASSUME NEW z \in Context, NEW S, z.last.kind # "data"
  PROVE  BoxOf(z, Remember(z, S)) = LetterOf(z.air, S) \o Letters(z.queue)
<1> DEFINE T == Remember(z, S)
           L == Letters(z.queue)
<1>1. LetterOf(z.air, T) = LetterOf(z.air, S) /\ MidOf(z, T) = <<>>
  BY LetterSame, LetterKinds DEF MidOf
<1>2. L \in Seq(Int)
  BY BoxType
<1>3. <<>> \o L = L
  BY <1>2, ConcatEmptySeq
<1>4. QED
  BY <1>1, <1>3, KeepBox

LEMMA AdvancesBox ==
  ASSUME NEW y \in Context, NEW z \in Context, NEW S, NEW a, Advances(y, z, a)
  PROVE  LET b == BoxOf(y, S)
             c == BoxOf(z, Remember(z, S))
         IN  c = b \/ (LetterOf(y.last, S) # <<>> /\ c \in Abstract!Fewer(b))
<1> DEFINE K == LetterOf(y.air, S)
           M == MidOf(y, S)
           L == Letters(y.queue)
<1>1. Letters(z.queue) = L /\ z.air = y.air /\ z.last.kind = "none"
  BY NoLetters, NothingIsReal DEF Advances
<1>2. BoxOf(z, Remember(z, S)) = K \o L
  BY <1>1, ClipBox
<1>3. /\ BoxOf(y, S) = K \o (M \o L) /\ K \in Seq(Int) /\ L \in Seq(Int)
      /\ M # <<>> => LetterOf(y.last, S) # <<>> /\ \E m \in Int : M = <<m>>
  BY KeepBox, BoxType
<1> HIDE DEF K, M, L
<1>4. CASE M = <<>>
  BY <1>2, <1>3, <1>4, ConcatEmptySeq
<1>5. CASE M # <<>>
  <2>1. PICK m \in Int : M = <<m>>
    BY <1>3, <1>5
  <2>2. K \o L \in Abstract!Fewer(K \o (<<m>> \o L))
    BY <1>3, Drop
  <2>3. QED
    BY <1>2, <1>3, <1>5, <2>1, <2>2
<1>6. QED
  BY <1>4, <1>5

\* The messages in the queue that is left when a buffer is needed.
LEMMA FreesLetters ==
  ASSUME NEW y \in Context, NEW n, Stocked(y, n), NEW q, Frees(y, q)
  PROVE  /\ Letters(q) \in Seq(Int)
         /\ \/ Letters(q) = Letters(y.queue)
            \/ Exhausted(y) /\ \E h \in Int : Letters(y.queue) = <<h>> \o Letters(q)
<1>1. y.queue \in Seq(Real) /\ Line(y.queue, {y.last, y.air}, n)
  BY DEF Context, Stocked
<1>2. CASE q = y.queue
  BY <1>1, <1>2, LettersType
<1>3. CASE Exhausted(y) /\ y.queue # <<>> /\ q = Tail(y.queue)
  <2>1. /\ Head(y.queue) \in Real /\ q \in Seq(Real)
        /\ Head(y.queue).kind \in {"update", "data"}
    BY <1>1, <1>3, LineTail
  <2>2. Head(y.queue).id \in Int /\ Letters(q) \in Seq(Int)
    BY <2>1, RealIds, LettersType
  <2>3. Letters(y.queue) = (IF Head(y.queue).kind = "data" THEN <<Head(y.queue).id>>
                            ELSE <<>>) \o Letters(q)
    BY <1>1, <1>3, LettersHead
  <2>4. <<>> \o Letters(q) = Letters(q)
    BY <2>2, ConcatEmptySeq
  <2>5. QED
    BY <1>3, <2>1, <2>2, <2>3, <2>4
<1>4. QED
  BY <1>2, <1>3 DEF Frees

LEMMA ConfirmsBox ==
  ASSUME NEW y \in Context, NEW z \in Context, NEW S, NEW n, Stocked(y, n),
         NEW a, Confirms(y, z, a)
  PROVE  LET b == BoxOf(y, S)
             c == BoxOf(z, Remember(z, S))
         IN  \/ c = b
             \/ /\ c \in Abstract!Fewer(b)
                     \cup UNION {Abstract!Fewer(d) : d \in Abstract!Fewer(b)}
                /\ AirOf(y, S) = <<>> /\ LetterOf(y.last, S) = <<>> =>
                     Exhausted(y) /\ b # <<>> /\ c = Tail(b)
<1> DEFINE K == LetterOf(y.air, S)
           M == MidOf(y, S)
           L == Letters(y.queue)
           N == Letters(z.queue)
           clear == AirOf(y, S) = <<>> /\ LetterOf(y.last, S) = <<>>
           b == K \o (M \o L)
           c == K \o N
<1>1. z.air = y.air /\ z.last.kind = "confirm" /\ Frees(y, z.queue)
  BY DEF Confirms, Stays
<1>2. BoxOf(z, Remember(z, S)) = c
  BY <1>1, ClipBox
<1>3. /\ BoxOf(y, S) = b /\ K \in Seq(Int) /\ L \in Seq(Int)
      /\ M # <<>> => \E m \in Int : M = <<m>>
      /\ clear => K = <<>> /\ M = <<>>
  BY KeepBox, BoxType
<1>4. /\ N \in Seq(Int)
      /\ N = L \/ (Exhausted(y) /\ \E h \in Int : L = <<h>> \o N)
  BY <1>1, FreesLetters
<1> HIDE DEF K, M, L, N, clear
<1>e. <<>> \o L = L /\ <<>> \o N = N
  BY <1>3, <1>4, ConcatEmptySeq
<1>5. CASE N = L /\ M = <<>>
  BY <1>2, <1>3, <1>e, <1>5
<1>6. CASE N = L /\ M # <<>>
  <2>1. PICK m \in Int : M = <<m>>
    BY <1>3, <1>6
  <2>2. K \o L \in Abstract!Fewer(K \o (<<m>> \o L))
    BY <1>3, Drop
  <2>3. c \in Abstract!Fewer(b) /\ ~clear
    BY <1>3, <1>6, <2>1, <2>2
  <2>4. QED
    BY <1>2, <1>3, <2>3 DEF clear
<1>7. ASSUME NEW h \in Int, Exhausted(y), L = <<h>> \o N
      PROVE  /\ c \in Abstract!Fewer(b)
                     \cup UNION {Abstract!Fewer(d) : d \in Abstract!Fewer(b)}
             /\ clear => b # <<>> /\ c = Tail(b)
  <2>1. c \in Abstract!Fewer(K \o L)
    BY <1>3, <1>4, <1>7, Drop
  <2>2. CASE M = <<>>
    <3>1. b = K \o L
      BY <1>e, <2>2
    <3>2. ASSUME clear PROVE b # <<>> /\ c = Tail(b)
      <4>1. b = <<h>> \o N /\ c = N
        <5>1. K = <<>> /\ <<>> \o L = L
          BY <1>3, <1>e, <3>2
        <5>2. QED
          BY <1>7, <1>e, <3>1, <5>1
      <4>2. <<h>> \o N # <<>> /\ Tail(<<h>> \o N) = N
        BY <1>4
      <4>3. QED
        BY <4>1, <4>2
    <3>3. QED
      BY <2>1, <3>1, <3>2
  <2>3. CASE M # <<>>
    <3>1. PICK m \in Int : M = <<m>>
      BY <1>3, <2>3
    <3>2. K \o L \in Abstract!Fewer(K \o (<<m>> \o L))
      BY <1>3, Drop
    <3>3. QED
      BY <1>3, <2>1, <2>3, <3>1, <3>2
  <2>4. QED
    BY <2>2, <2>3
<1>8. QED
  <2>1. CASE N = L
    BY <1>5, <1>6, <2>1
  <2>2. CASE Exhausted(y) /\ \E h \in Int : L = <<h>> \o N
    BY <1>2, <1>3, <1>7, <2>2 DEF clear
  <2>3. QED
    BY <1>4, <2>1, <2>2

-----------------------------------------------------------------------------
LEMMA AppendOver ==
  ASSUME NEW a \in Seq(Int), NEW b \in Seq(Int), NEW e \in Int
  PROVE  a \o Append(b, e) = Append(a \o b, e)
BY SMTT(30)

LEMMA Assoc ==
  ASSUME NEW a \in Seq(Int), NEW b \in Seq(Int), NEW c \in Seq(Int)
  PROVE  (a \o b) \o c = a \o (b \o c)
BY SMTT(30)

LEMMA ConcatAppend ==
  ASSUME NEW a \in Seq(Int), NEW b \in Seq(Int), NEW c \in Seq(Int), NEW e \in Int
  PROVE  a \o (b \o Append(c, e)) = Append((a \o b) \o c, e)
<1> DEFINE p == a \o b
<1>1. p \in Seq(Int) /\ b \o c \in Seq(Int)
  BY ConcatProperties
<1>2. b \o Append(c, e) = Append(b \o c, e)
  BY AppendOver
<1>3. a \o Append(b \o c, e) = Append(a \o (b \o c), e)
  BY <1>1, AppendOver
<1>4. p \o c = a \o (b \o c)
  BY Assoc
<1>5. QED
  BY <1>2, <1>3, <1>4, Zenon

LEMMA QueuesBox ==
  ASSUME NEW y \in Context, NEW z, NEW S, NEW n, Stocked(y, n),
         NEW p \in Real, p.kind = "data", Queues(y, z, p)
  PROVE  LET b == BoxOf(y, S)
             c == BoxOf(z, Remember(z, S))
         IN  \/ c = Append(b, p.id)
             \/ /\ Exhausted(y)
                /\ \E i \in 1..Len(b) :
                     /\ c = Append(Abstract!Without(b, i), p.id)
                     /\ Abstract!Without(b, i) \in Abstract!Fewer(b)
                     /\ AirOf(y, S) = <<>> => i \in {1, 2}
<1> DEFINE A == AirOf(y, S)
           B == LetterOf(y.last, S)
           L == Letters(y.queue)
           P == A \o B
<1>1. PICK q \in Seq(Real) : Frees(y, q) /\ z.queue = Append(q, p)
  BY DEF Queues
<1> DEFINE N == Letters(q)
<1>2. Letters(z.queue) = Append(N, p.id) /\ p.id \in Int
  BY <1>1, LettersAppend, RealIds
<1>3. AirOf(z, Remember(z, S)) = A /\ LetterOf(z.last, Remember(z, S)) = B
  BY LetterSame DEF AirOf, Queues, Stays
<1>4. /\ A \in Seq(Int) /\ B \in Seq(Int) /\ L \in Seq(Int) /\ N \in Seq(Int)
      /\ y.last \in Real
      /\ N = L \/ (Exhausted(y) /\ \E h \in Int : L = <<h>> \o N)
  BY <1>1, BoxType, FreesLetters
<1>5. Len(B) \in {0, 1}
  BY DEF LetterOf
<1>6. BoxOf(y, S) = A \o (B \o L) /\ BoxOf(z, Remember(z, S)) = A \o (B \o Append(N, p.id))
  BY <1>2, <1>3 DEF BoxOf
<1> HIDE DEF A, B, L, N
<1>7. P \in Seq(Int) /\ Len(P) = Len(A) + Len(B)
  BY <1>4, ConcatProperties
<1>t. /\ A \in Seq(Int) /\ B \in Seq(Int) /\ L \in Seq(Int) /\ N \in Seq(Int)
      /\ p.id \in Int
  BY <1>2, <1>4
<1>8. BoxOf(y, S) = P \o L
  <2>1. A \o (B \o L) = P \o L
    BY <1>t, Assoc
  <2>2. QED
    BY <1>6, <2>1, Zenon
<1>9. BoxOf(z, Remember(z, S)) = Append(P \o N, p.id)
  <2> DEFINE e == p.id
  <2>0. e \in Int
    BY <1>t
  <2> HIDE DEF e
  <2>1. A \o (B \o Append(N, e)) = Append(P \o N, e)
    <3>1. A \in Seq(Int) /\ B \in Seq(Int) /\ N \in Seq(Int)
      BY <1>t
    <3>2. QED
      BY <2>0, <3>1, ConcatAppend
  <2>2. QED
    BY <1>6, <2>1 DEF e
<1> HIDE DEF P
<1>10. CASE N = L
  BY <1>8, <1>9, <1>10
<1>11. ASSUME NEW h \in Int, Exhausted(y), L = <<h>> \o N
       PROVE  \E i \in 1..Len(BoxOf(y, S)) :
                /\ BoxOf(z, Remember(z, S)) = Append(Abstract!Without(BoxOf(y, S), i), p.id)
                /\ Abstract!Without(BoxOf(y, S), i) \in Abstract!Fewer(BoxOf(y, S))
                /\ A = <<>> => i \in {1, 2}
  <2> DEFINE b == P \o (<<h>> \o N)
             i == Len(P) + 1
  <2>1. i \in 1..Len(b) /\ Abstract!Without(b, i) = P \o N /\ P \o N \in Abstract!Fewer(b)
    BY <1>4, <1>7, <1>11, Drop
  <2>2. A = <<>> => i \in {1, 2}
    <3>1. A = <<>> => Len(P) = Len(B)
      <4>1. A = <<>> => Len(A) = 0
        BY EmptySeq
      <4>2. QED
        BY <1>5, <1>7, <4>1
    <3>2. \A m \in {0, 1} : m + 1 \in {1, 2}
      OBVIOUS
    <3>3. A = <<>> => Len(P) \in {0, 1}
      BY <1>5, <3>1
    <3>4. QED
      BY <3>2, <3>3, Zenon
  <2>3. BoxOf(y, S) = b
    BY <1>8, <1>11
  <2> HIDE DEF b, i
  <2>4. QED
    BY <1>9, <2>1, <2>2, <2>3
<1>12. QED
  BY <1>4, <1>10, <1>11 DEF A

\* The node hears the PDU on the air.
LEMMA HearsBox ==
  ASSUME NEW y \in Context, NEW S
  PROVE  LET b == BoxOf(y, S)
             c == BoxOf(y, S \cup {y.air})
         IN  IF y.air.kind = "data" /\ y.air \notin S
               THEN b # <<>> /\ y.air.id = Head(b) /\ c = Tail(b)
               ELSE c = b
<1> DEFINE T == S \cup {y.air}
           M == MidOf(y, S)
           L == Letters(y.queue)
<1>1. LetterOf(y.air, T) = <<>>
  BY LetterKinds
<1>2. MidOf(y, T) = M
  BY DEF MidOf, LetterOf
<1>3. /\ BoxOf(y, S) = LetterOf(y.air, S) \o (M \o L) /\ BoxOf(y, T) = <<>> \o (M \o L)
      /\ M \in Seq(Int) /\ L \in Seq(Int)
  BY <1>1, <1>2, KeepBox, BoxType
<1>4. M \o L \in Seq(Int)
  BY <1>3, ConcatProperties
<1>5. <<>> \o (M \o L) = M \o L
  BY <1>4, ConcatEmptySeq
<1>6. CASE y.air.kind = "data" /\ y.air \notin S
  <2> DEFINE c == M \o L
             h == y.air.id
  <2>1. LetterOf(y.air, S) = <<h>> /\ h \in Int
    BY <1>6, BoxType, RealIds, LetterKinds
  <2> HIDE DEF c, h
  <2>2. <<h>> \o c # <<>> /\ Head(<<h>> \o c) = h /\ Tail(<<h>> \o c) = c
    BY <1>4, <2>1 DEF c
  <2>3. QED
    BY <1>3, <1>5, <1>6, <2>1, <2>2 DEF c, h
<1>7. CASE ~(y.air.kind = "data" /\ y.air \notin S)
  <2>1. LetterOf(y.air, S) = <<>>
    BY <1>7, LetterKinds
  <2>2. QED
    BY <1>3, <1>7, <2>1
<1>8. QED
  BY <1>6, <1>7

-----------------------------------------------------------------------------
(***************************************************************************)
(* Every step is a step of the mailbox, or leaves it alone.                *)
(***************************************************************************)
Mails == [Abstract!Next]_(Abstract!vars)

LEMMA Rests ==
  ASSUME Box' = Box, f'.est = f.est, sent' = sent, got' = got
  PROVE  Mails
BY DEF Mails, Abstract!vars

LEMMA KeptAir ==
  ASSUME NEW y, NEW x, y.est, Kept(y, x)
  PROVE  AirOf(y, x.heard) = <<>>
BY LetterKinds DEF Kept, AirOf

LEMMA FriendStepBox ==
  ASSUME Inv, NEW z, FriendStep(z)
  PROVE  f' = z /\ Box = BoxOf(f, l.heard) /\ Box' = BoxOf(z, Remember(z, l.heard))
<1>1. f' = z /\ l' = [l EXCEPT !.heard = Remember(z, l.heard)] /\ l \in Node
  BY DEF FriendStep, Inv, NodeOK, Node
<1>2. l'.heard = Remember(z, l.heard)
  BY <1>1 DEF Node
<1>3. QED
  BY <1>1, <1>2, BoxIs

LEMMA CloseMails ==
  ASSUME NEW y \in Context, NEW z \in Context, NEW n, Stocked(y, n),
         z.queue = <<>>, z.last.kind \in Plain, z.air = y.air, ~z.est,
         f = y, f' = z, sent' = sent, got' = got,
         Box = BoxOf(y, l.heard), Box' = BoxOf(z, Remember(z, l.heard))
  PROVE  Mails
<1>1. /\ Box' = <<>> \/ (Box # <<>> /\ Box' = <<Head(Box)>>)
      /\ ~f.est => Box' = Box
  BY OverBox
<1>2. f.est \in BOOLEAN /\ f'.est = FALSE
  BY DEF Context
<1>3. CASE f.est
  BY <1>1, <1>2, <1>3 DEF Mails, Abstract!Next, Abstract!Close
<1>4. CASE ~f.est
  BY <1>1, <1>2, <1>4, Rests
<1>5. QED
  BY <1>3, <1>4

LEMMA FriendMails ==
  ASSUME Inv, Posted, FriendOK(f'),
         FriendTimer \/ FriendSendStart \/ FriendSendEnd \/ FriendEnqueue
  PROVE  Mails
<1>0. /\ FriendOK(f) /\ f \in Context /\ f' \in Context /\ Stocked(f, sent)
      /\ sent \in Nat /\ l.heard \subseteq {f.last, f.air}
      /\ f.est /\ Straight => AirOf(f, l.heard) = <<>>
  BY Constants, KeptAir DEF Inv, FriendOK, Posted, Others
<1>1. CASE FriendTimer
  <2> DEFINE z == FriendExpire(f)
  <2>1. FriendStep(z) /\ UNCHANGED <<sent, got>>
    BY <1>1 DEF FriendTimer
  <2>2. f' = z /\ Box = BoxOf(f, l.heard) /\ Box' = BoxOf(z, Remember(z, l.heard))
    BY <2>1, FriendStepBox
  <2>3. Sends(f, z) \/ Clears(f, z) \/ Pops(f, z)
    BY <1>0, ExpireIs
  <2> HIDE DEF z
  <2>4. CASE Sends(f, z)
    BY <2>1, <2>2, <2>4, SameBox, Rests DEF Sends, Stays
  <2>5. CASE Clears(f, z)
    <3>1. z.queue = <<>> /\ z.last.kind \in Plain /\ z.air = f.air /\ ~z.est
      BY <2>5, NothingIsReal DEF Clears, Plain
    <3>2. QED
      BY <1>0, <2>1, <2>2, <3>1, CloseMails
  <2>6. CASE Pops(f, z)
    <3>1. Box' = Box
      BY <1>0, <2>2, <2>6, PopsBox
    <3>2. QED
      BY <2>1, <2>2, <2>6, <3>1, Rests DEF Pops, Stays
  <2>7. QED
    BY <2>3, <2>4, <2>5, <2>6
<1>2. CASE FriendSendStart
  <2> DEFINE z == SendStart(f)
  <2>1. FriendStep(z) /\ UNCHANGED <<sent, got>> /\ f.air = NoPdu
    BY <1>2 DEF FriendSendStart
  <2>2. f' = z /\ Box = BoxOf(f, l.heard) /\ Box' = BoxOf(z, Remember(z, l.heard))
    BY <2>1, FriendStepBox
  <2>3. Starts(f, z)
    BY <1>0, StartStarts
  <2> HIDE DEF z
  <2>4. Box' = Box
    BY <1>0, <2>1, <2>2, <2>3, StartsBox
  <2>5. QED
    BY <2>1, <2>2, <2>3, <2>4, Rests DEF Starts
<1>3. CASE FriendSendEnd
  <2> DEFINE z == SendEnd(f)
  <2>1. FriendStep(z) /\ UNCHANGED <<sent, got>>
    BY <1>3 DEF FriendSendEnd
  <2>2. f' = z /\ Box = BoxOf(f, l.heard) /\ Box' = BoxOf(z, Remember(z, l.heard))
    BY <2>1, FriendStepBox
  <2>3. Stops(f, z)
    BY <1>0, EndStops
  <2> HIDE DEF z
  <2>4. f'.est = f.est
    BY <2>2, <2>3 DEF Stops
  <2>5. \/ Box' = Box
        \/ /\ AirOf(f, l.heard) # <<>> /\ Box' \in Abstract!Fewer(Box)
           /\ f.queue = <<>> /\ f.last.kind \in Plain => Box' = <<>>
    BY <1>0, <2>2, <2>3, StopsBox
  <2>6. CASE Box' = Box
    BY <2>1, <2>4, <2>6, Rests
  <2>7. CASE /\ AirOf(f, l.heard) # <<>> /\ Box' \in Abstract!Fewer(Box)
             /\ f.queue = <<>> /\ f.last.kind \in Plain => Box' = <<>>
    <3>1. CASE f.est
      <4>1. ~Straight
        BY <1>0, <2>7, <3>1
      <4>2. Abstract!Discard
        BY <2>1, <2>4, <2>7, <3>1, <4>1 DEF Abstract!Discard, Straight
      <4>3. QED
        BY <4>2 DEF Mails, Abstract!Next
    <3>2. CASE ~f.est
      <4>1. Box' = <<>>
        BY <1>0, <2>7, <3>2 DEF Stocked
      <4>2. QED
        BY <2>1, <2>4, <3>2, <4>1 DEF Mails, Abstract!Next, Abstract!Lose
    <3>3. QED
      BY <3>1, <3>2
  <2>8. QED
    BY <2>5, <2>6, <2>7
<1>4. CASE FriendEnqueue
  <2> DEFINE p == [kind |-> "data", id |-> sent + 1]
             z == Enqueue(f, p)
  <2>1. sent + 1 \in Msg
    BY <1>0, <1>4, Constants DEF FriendEnqueue, Msg
  <2>2. p \in Real /\ p.kind = "data" /\ p.id = sent + 1
    BY <2>1 DEF Real, Pdu
  <2>3. FriendStep(z) /\ f.est /\ UNCHANGED got /\ sent' = sent + 1
    BY <1>4 DEF FriendEnqueue
  <2>4. f' = z /\ Box = BoxOf(f, l.heard) /\ Box' = BoxOf(z, Remember(z, l.heard))
    BY <2>3, FriendStepBox
  <2> HIDE DEF p
  <2>5. Queues(f, z, p)
    BY <1>0, <2>2, EnqueueQueues
  <2> HIDE DEF z
  <2>6. f'.est = f.est
    BY <2>4, <2>5 DEF Queues, Stays
  <2>7. \/ Box' = Append(Box, p.id)
        \/ /\ Exhausted(f)
           /\ \E i \in 1..Len(Box) :
                /\ Box' = Append(Abstract!Without(Box, i), p.id)
                /\ Abstract!Without(Box, i) \in Abstract!Fewer(Box)
                /\ AirOf(f, l.heard) = <<>> => i \in {1, 2}
    BY <1>0, <2>2, <2>4, <2>5, QueuesBox, SMTT(30)
  <2>8. \/ Box' = Append(Box, sent')
        \/ /\ Exhausted(f)
           /\ \E i \in {1, 2} \cap 1..Len(Box) :
                Box' = Append(Abstract!Without(Box, i), sent')
        \/ /\ Exhausted(f) /\ ~Straight
           /\ \E b \in Abstract!Fewer(Box) : Box' = Append(b, sent')
    BY <1>0, <2>2, <2>3, <2>7
  <2>9. Abstract!Put
    BY <2>3, <2>6, <2>8 DEF Abstract!Put, Straight
  <2>10. QED
    BY <2>9 DEF Mails, Abstract!Next
<1>5. QED
  BY <1>1, <1>2, <1>3, <1>4

-----------------------------------------------------------------------------
LEMMA HearsMails ==
  ASSUME Inv, NodeOK(l', calls'), Unity, Posted, LpnHears
  PROVE  Mails
<1> DEFINE new == f.air.kind = "data" /\ f.air \notin l.heard
<1>1. f \in Context /\ l'.heard = l.heard \cup {f.air}
  BY HearsPosted DEF Inv, FriendOK
<1>2. f' = f /\ sent' = sent /\ got' = IF new THEN Append(got, f.air.id) ELSE got
  BY DEF LpnHears
<1>3. Box = BoxOf(f, l.heard) /\ Box' = BoxOf(f, l.heard \cup {f.air})
  BY <1>1, <1>2, BoxIs
<1>4. IF new THEN Box # <<>> /\ f.air.id = Head(Box) /\ Box' = Tail(Box)
      ELSE Box' = Box
  BY <1>1, <1>3, HearsBox
<1>5. CASE new
  BY <1>2, <1>4, <1>5 DEF Mails, Abstract!Next, Abstract!Take
<1>6. CASE ~new
  BY <1>2, <1>4, <1>6, Rests
<1>7. QED
  BY <1>5, <1>6

\* The node does something by itself.
LEMMA NodeMails ==
  ASSUME Inv, NodeOK(l', calls'), Unity, Posted,
         LpnClearCfm \/ LpnTimer \/ LpnPoll \/ LpnGroupAdd \/ LpnGroupDel
  PROVE  Mails
<1>1. l'.heard = l.heard
  BY ClearCfmPosted, TimerPosted, CallPosted
<1>2. f' = f /\ sent' = sent /\ got' = got
  BY DEF LpnClearCfm, LpnTimer, LpnPoll, LpnGroupAdd, LpnGroupDel
<1>3. Box' = Box
  BY <1>1, <1>2, BoxIs
<1>4. QED
  BY <1>2, <1>3, Rests

\* A request for the group, or a poll that goes on, finds the last PDU heard.
LEMMA LastHeard ==
  ASSUME NEW n \in Nat, NEW x, NodeOK(x, n), x.tx # <<>>, NEW y, FriendOK(y),
         y.valid, y.est, Head(x.tx).key = y.key, Linked(y, x), Ordered(x), Turn(y, x),
         \/ Head(x.tx).op \in Subs
         \/ /\ Head(x.tx).op = "poll"
            /\ Head(x.tx).arg # y.fsn \/ y.last = NoPdu
  PROVE  LetterOf(y.last, x.heard) = <<>>
<1>1. CASE y.last = NoPdu
  BY <1>1, LetterKinds
<1>2. CASE Ahead(y, x)
  BY <1>2, LetterKinds DEF Ahead
<1>3. CASE Head(x.tx).op \in Subs
  BY <1>2, <1>3, SubAhead
<1>4. CASE Head(x.tx).op = "poll" /\ Head(x.tx).arg # y.fsn
  <2>1. 1 \in 1..Len(x.tx) /\ Head(x.tx) = x.tx[1]
    BY FirstRequest
  <2>2. ~Behind(y, x)
    BY <1>4, <2>1 DEF Behind, Polls
  <2>3. x.key = y.key
    BY HeadKey
  <2>4. QED
    BY <1>2, <2>2, <2>3 DEF Turn
<1>5. QED
  BY <1>1, <1>3, <1>4

LEMMA SendMails ==
  ASSUME Inv, FriendOK(f'), Unity, Posted, LpnSend
  PROVE  Mails
<1> DEFINE r == Head(l.tx)
           x == Started(l)
           z == f'
<1>0. /\ FriendOK(f) /\ f \in Context /\ z \in Context /\ NodeOK(l, calls)
      /\ calls \in Nat /\ Linked(f, l) /\ Stocked(f, sent) /\ l.again \in BOOLEAN
      /\ l.heard \subseteq {f.last, f.air}
      /\ Straight => /\ Turn(f, l) /\ Kept(f, l) /\ Ordered(l)
  <2>1. /\ FriendOK(f) /\ f \in Context /\ z \in Context /\ NodeOK(l, calls)
        /\ l \in Node /\ calls \in Nat
    BY Constants DEF Inv, FriendOK, Others, NodeOK
  <2>2. l.again \in BOOLEAN
    BY <2>1 DEF Node
  <2>3. QED
    BY <2>1, <2>2, Zenon DEF Posted, Unity, United, Steady, Straight
<1>1. /\ l.tx # <<>> /\ x \in Node /\ x.heard = l.heard /\ r \in Asked
      /\ UNCHANGED <<sent, got, slips, twice>>
      /\ \/ f' = f /\ l' = x
         \/ /\ f' = FriendRecv(f, r) /\ r.op # "clearing"
            /\ l' = [x EXCEPT !.heard = Remember(f', l.heard)]
  BY SendIs DEF NodeOK
<1> HIDE DEF x
<1>2. CASE f' = f /\ l' = x
  <2>1. Box' = Box
    BY <1>1, <1>2, BoxIs
  <2>2. QED
    BY <1>1, <1>2, <2>1, Rests
<1>3. CASE /\ f' = FriendRecv(f, r) /\ r.op # "clearing"
           /\ l' = [x EXCEPT !.heard = Remember(f', l.heard)]
  <2>1. l'.heard = Remember(z, l.heard)
    BY <1>1, <1>3 DEF Node
  <2>2. Box = BoxOf(f, l.heard) /\ Box' = BoxOf(z, Remember(z, l.heard))
    BY <2>1, BoxIs
  <2>3. \/ z = f
        \/ Offers(f, z, r.arg)
        \/ Clears(f, z)
        \/ /\ r.op = "poll" /\ f.valid /\ r.key = f.key
           /\ Resends(f, z, r.arg) \/ Advances(f, z, r.arg)
        \/ /\ r.op \in Subs /\ f.valid /\ f.est /\ r.key = f.key
           /\ Confirms(f, z, r.arg)
    BY <1>0, <1>1, <1>3, ReceiveIs
  <2>4. CASE z = f
    <3>1. Box' = Box
      BY <2>2, <2>4, SameBox
    <3>2. QED
      BY <1>1, <2>4, <3>1, Rests
  <2>5. CASE Offers(f, z, r.arg) \/ Clears(f, z)
    <3>1. z.queue = <<>> /\ z.last.kind \in Plain /\ z.air = f.air /\ ~z.est
      BY <2>5, NothingIsReal DEF Offers, Clears, Plain
    <3>2. QED
      BY <1>0, <1>1, <2>2, <3>1, CloseMails
  <2>6. CASE /\ r.op = "poll" /\ f.valid /\ r.key = f.key
             /\ Resends(f, z, r.arg) \/ Advances(f, z, r.arg)
    <3>1. ~f.est => f.last = NoPdu
      <4>1. l.key = f.key
        BY <1>0, <1>1, <2>6, HeadKey
      <4>2. QED
        BY <1>0, <2>6, <4>1 DEF Linked, Keys
    <3>2. z.est = TRUE
      BY <1>0, <2>6 DEF Resends, Advances, Context
    <3>3. CASE Resends(f, z, r.arg)
      <4>1. f.est = TRUE
        BY <1>0, <3>1, <3>3 DEF Resends, Context
      <4>2. Box' = Box
        BY <2>2, <3>3, SameBox DEF Resends
      <4>3. QED
        BY <1>1, <3>2, <4>1, <4>2, Rests
    <3>4. CASE Advances(f, z, r.arg) /\ ~f.est
      <4>1. f.air.kind \in Plain /\ f.queue = <<>> /\ f.last.kind \in Plain
        BY <1>0, <2>6, <3>1, <3>4 DEF Stocked
      <4>2. Box = <<>>
        BY <1>0, <2>2, <4>1, LastBox, LetterKinds DEF Plain
      <4>3. LetterOf(f.last, l.heard) = <<>>
        BY <4>1, LetterKinds DEF Plain
      <4>4. Box' = Box
        BY <1>0, <2>2, <3>4, <4>3, AdvancesBox
      <4>5. QED
        BY <1>1, <3>2, <3>4, <4>2, <4>4 DEF Mails, Abstract!Next, Abstract!Open
    <3>5. CASE Advances(f, z, r.arg) /\ f.est
      <4>1. f.est = TRUE
        BY <1>0, <3>5 DEF Context
      <4>2. Box' = Box \/ (LetterOf(f.last, l.heard) # <<>> /\ Box' \in Abstract!Fewer(Box))
        BY <1>0, <2>2, <3>5, AdvancesBox
      <4>3. CASE Box' = Box
        BY <1>1, <3>2, <4>1, <4>3, Rests
      <4>4. CASE LetterOf(f.last, l.heard) # <<>> /\ Box' \in Abstract!Fewer(Box)
        <5>1. r.arg # f.fsn \/ f.last = NoPdu
          BY <3>5 DEF Advances
        <5>2. ~Straight
          BY <1>0, <1>1, <2>6, <3>5, <4>4, <5>1, LastHeard
        <5>3. Abstract!Discard
          BY <1>1, <3>2, <4>1, <4>4, <5>2 DEF Abstract!Discard, Straight
        <5>4. QED
          BY <5>3 DEF Mails, Abstract!Next
      <4>5. QED
        BY <4>2, <4>3, <4>4
    <3>6. QED
      BY <2>6, <3>3, <3>4, <3>5
  <2>7. CASE /\ r.op \in Subs /\ f.valid /\ f.est /\ r.key = f.key
             /\ Confirms(f, z, r.arg)
    <3>1. z.est = f.est
      BY <2>7 DEF Confirms, Stays
    <3>2. \/ Box' = Box
          \/ /\ Box' \in Abstract!Fewer(Box)
                     \cup UNION {Abstract!Fewer(d) : d \in Abstract!Fewer(Box)}
             /\ AirOf(f, l.heard) = <<>> /\ LetterOf(f.last, l.heard) = <<>> =>
                  Exhausted(f) /\ Box # <<>> /\ Box' = Tail(Box)
      BY <1>0, <2>2, <2>7, ConfirmsBox
    <3>3. Straight => AirOf(f, l.heard) = <<>> /\ LetterOf(f.last, l.heard) = <<>>
      BY <1>0, <1>1, <2>7, KeptAir, LastHeard
    <3>4. CASE Box' = Box
      BY <1>1, <3>1, <3>4, Rests
    <3>5. CASE /\ Box' \in Abstract!Fewer(Box)
                       \cup UNION {Abstract!Fewer(d) : d \in Abstract!Fewer(Box)}
               /\ AirOf(f, l.heard) = <<>> /\ LetterOf(f.last, l.heard) = <<>> =>
                    Exhausted(f) /\ Box # <<>> /\ Box' = Tail(Box)
      <4>1. \/ Exhausted(f) /\ Box # <<>> /\ Box' = Tail(Box)
            \/ ~Straight /\ Box' \in Abstract!Fewer(Box)
                     \cup UNION {Abstract!Fewer(d) : d \in Abstract!Fewer(Box)}
        BY <3>3, <3>5
      <4>2. Abstract!Discard
        BY <1>1, <2>7, <3>1, <4>1 DEF Abstract!Discard, Straight
      <4>3. QED
        BY <4>2 DEF Mails, Abstract!Next
    <3>6. QED
      BY <3>2, <3>4, <3>5
  <2>8. QED
    BY <2>3, <2>4, <2>5, <2>6, <2>7
<1>4. QED
  BY <1>1, <1>2, <1>3

LEMMA StepMails == Inv /\ Unity /\ Posted /\ [Next]_vars => Mails
<1> SUFFICES ASSUME Inv, Unity, Posted, [Next]_vars PROVE Mails
  OBVIOUS
<1>1. NodeOK(l', calls') /\ FriendOK(f')
  BY NextInv DEF Inv
<1>2. CASE UNCHANGED vars
  <2>1. Box' = Box
    BY <1>2, BoxIs DEF vars
  <2>2. QED
    BY <1>2, <2>1, Rests DEF vars
<1>3. QED
  BY <1>1, <1>2, FriendMails, HearsMails, NodeMails, SendMails DEF Next

LEMMA InitMails == Init => Abstract!Init
<1> SUFFICES ASSUME Init PROVE Abstract!Init
  OBVIOUS
<1>1. /\ f.queue = <<>> /\ f.last = NoPdu /\ f.air = NoPdu /\ f.est = FALSE
      /\ sent = 0 /\ got = <<>>
  BY DEF Init, NoFriendship
<1>2. f \in Context
  BY InitInv DEF Inv, FriendOK
<1>3. Box = <<>>
  BY <1>1, <1>2, BoxIs, LastBox, LetterKinds, NothingIsReal DEF Plain
<1>4. QED
  BY <1>1, <1>3 DEF Abstract!Init

(***************************************************************************)
(* The Friend acts as a mailbox, for every pool, every number of messages, *)
(* retries and calls, whatever the node's message cache has forgotten.     *)
(* The node receives each message at most once and in order; without a     *)
(* failed send, a group that came back during its removal or a PDU that    *)
(* passed for an answer when it was heard a second time, none is lost, but *)
(* the oldest ones for want of a buffer and what is left when the          *)
(* friendship ends (bt_mesh_friend_poll, friend_timeout, enqueue_sub_cfm,  *)
(* bt_mesh_lpn_friend_offer, friend_response_received).                    *)
(***************************************************************************)
THEOREM FriendActsAsMailbox == Spec => ActsAsMailbox
<1>1. Spec => []Posted
  <2>1. Inv /\ Unity /\ Posted /\ [Next]_vars => Posted'
    BY NextPosted
  <2>2. QED
    BY <2>1, InitPosted, Invariance, AlwaysUnited, PTL DEF Spec
<1>2. Inv /\ Unity /\ Posted /\ [Next]_vars => [Abstract!Next]_(Abstract!vars)
  BY StepMails DEF Mails
<1>3. QED
  BY <1>1, <1>2, InitMails, Invariance, AlwaysUnited, PTL
  DEF Spec, ActsAsMailbox, Abstract!Spec
=============================================================================
