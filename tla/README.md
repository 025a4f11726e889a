# Verification of the Genie Bluetooth mesh stack

TLA+ models of the parts of this SDK that are hardest to test: the IV Update
procedure, replay protection, segmentation and reassembly, key refresh,
friendship, provisioning, and the storage of cells and of the sequence number
over power cuts. TLC checks small instances, TLAPS proves
the main invariants for every value of the constants. `PROJECT.json` lists the
runs, the proofs, the source lines behind every definition, and the hazards the
properties are aimed at.

    tlc -config MCIvUpdate_node.cfg MCIvUpdate     # a run
    tlapm IvUpdateProofs.tla                       # a proof

Paths below are relative to `src/network/bluetooth/bt_mesh/src/` (mesh stack) and
`src/genie_app/base/` (Genie layer).

## The system

A device runs the mesh stack on a small kernel. Messages pass the access layer
(`access.c`), the transport layer (`transport.c`), the network layer (`net.c`)
and the advertiser (`adv.c`) or a GATT connection (`proxy.c`). What makes the
stack hard is what happens *between* handlers: timers against late messages,
beacons against transfers, and the network's freedom to lose, delay, reorder and
repeat. Handlers run on several threads (the driver's receive thread, the work
queue in the HCI transmit thread, the advertiser), which share `bt_mesh` without
a lock. The Genie layer provisions the device, stores its state in flash and
restores it after a power cut, which may strike between any two flash operations.

| Component | State | Operations | Hard behaviour | What makes it correct |
|---|---|---|---|---|
| IV Update (`net.c`, `beacon.c`) | iv_index, iv_update, seq, last_update, pending_update, ivu_initiator, the ivu_complete work, beacon cache | beacon received, timer, send, provision, reset | recovery and deferral race transfers; every node acts on its own | nonces are never reused; the update ends; indices are not burnt |
| Replay list (`transport.c`, `net.c`) | bt_mesh.rpl | is_replay, rpl_reset, recovery, reset, rpl_clear | ageing of entries over IV updates; a full list | replays refused, newer messages pass |
| Segmentation and reassembly (`transport.c`) | seg_tx, seg_rx | send_seg, retransmit work, trans_ack, trans_seg, ack work | loss, reordering, repetition; contexts shared and reused | success means delivery; delivery once; everything ends |
| Sequence number store (`genie_flash.c`, `genie_event.c`) | seq and recycle partitions, g_flash_seq_ctl | write_seq with recycling, check_recycle, seq_init, mesh_init | power cuts; bits can only be cleared | a restart continues above all numbers used |
| Cell store (`genie_flash.c`) | cells of the system and user data partitions | read, write, delete, recycle, recover | power cuts between the cell and its flag | acts as a map that only the call under way changes, in one step; the device keeps its identity |
| Key refresh (`net.c`, `cfg_srv.c`, `cfg_cli.c`) | kr_phase, kr_flag, two key sets, op_pending | kr_update, phase set, key update, status received | beacons of both keys out of order; late statuses | members understand each other; a refresh ends |
| Friendship (`friend.c`, `lpn.c`) | queues, poll state | request, offer, poll, clear | timeouts against late polls; lost and repeated PDUs | queued messages arrive once and in order; nobody waits for ever |
| Provisioning (`prov.c`, `provisioner_prov.c`) | link and protocol state | one handler per PDU | transaction retries, link timeout, state left over from the last link | success means agreement; losses are made up for; a link ends |
| Genie life cycle (`genie_event.c`, `genie_reset.c`) | g_in_prov, timers, what is stored | one handler per event | timer against configuration; restart half way | a device is either fully provisioned or not at all |
| Access, configuration, health, models, proxy, timers, OTA | tables and application state | request handlers | little concurrency | not modelled, see below |

The components interact by direct calls (`bt_mesh_net_iv_update` asks
`bt_mesh_tx_in_progress`, `seg_tx_reset` calls `bt_mesh_net_iv_update`, every
PDU sent raises the event that stores seq), through the shared structure
`bt_mesh`, and over the air.

## Plan

Done, in this order: `IvUpdate`, `ReplayList`, `SegTransfer`, `SeqStore`, then
`CellStore` with its abstract `KeyValueStore`, `Friendship` with its abstract
`Mailbox`, `KeyRefresh`, `Provisioning`.

Next, most important first:

1. `SendPath`: the threads that send, at the grain of single accesses to
   `bt_mesh.seq` and the IV fields (`bt_mesh_trans_send` encrypts under seq long
   before `bt_mesh_net_encode` takes it), with the priorities of the threads.
2. `WorkQueue`: the sorted queue of delayed work (`bt_common/work.c`,
   `event_scheduler.c`) with its 32-bit clock; a due time past 2^32 ms is small
   and the work runs at once.
3. `GenieLifecycle`: what is stored when, reset by power cycles, restart; with the
   IV index, which the code never stores, joined to `SeqStore`.

## Modules

In all modules a handler (a received PDU, a timer, a call of the application) is
one step. That is an assumption about scheduling, not something the code
enforces: a handler of the work queue can preempt one of the receive thread.
What such a preemption may do is listed among the hazards and comes next in the
plan after the proofs. `SeqStore` and `CellStore` are finer, because there a
power cut separates the flash operations of one handler.

**IvUpdate.** `node[n]` holds the IV fields of `struct bt_mesh_net` and, for each
`seg_tx` context, how many segments are unacknowledged and under which index they
were encrypted. `NetIvUpdate` is `bt_mesh_net_iv_update` as a function on that
record, `DoUpdate` its tail; the actions are the callers: `RecvBeacon`
(secure_beacon_recv with the beacon cache), `IvuComplete`, `SendUnseg`, `SendSeg`,
`Retransmit`, `Ack`, `Cancel`, `StartNetwork`/`JoinNetwork` (bt_mesh_provision) and
`Reset`. Time is a clock that all nodes share, in ticks of which 96 and 120 hours
are `MinStay` and `Timeout`. Beacons are read from the current state of the sender and may be missed;
`ForeignBeacons` are sent by devices outside the model. `nonce`, `net`, `joined`
and `wrapped` are history. The beacon cache is that of the primary subnet.

**ReplayList.** `rpl` is the list as an array, because the order of slots matters.
`Accept` is `is_replay` when it lets a message pass; a refusal changes nothing.
The history variable `newest` says what was really accepted; `lost[s]` records
the three ways in which the code loses its record of source `s`; one of them is
`RplClear`, the shell's `rpl-clear` (`shell.c`:905).

**SegTransfer.** `tx[s]` is the transfer of SDU `s`; `air` holds every segment ever
sent, and receiving does not remove it, which gives loss, delay, reordering and
duplication. Acknowledgements travel in order (a late one is dropped by the
sender's replay check) but may be lost. `RecvForOpen`, `RecvForComplete` and
`RecvForNone` are the three paths of `trans_seg`, `Store` its part from `found_rx` on. The
replay list is the single entry that the source has; unsegmented messages of the
same source are left out. `lost[s]` records how a context of `s` was taken away.
`KeptByReplay(i)` is the one case in which the incomplete timer of a context may be put off
for ever: a segment that it lacks, and refuses as a replay, restarts the timer each time it
comes (`transport.c`:1281 comes before 1303).

**SeqStore.** One step per operation on the flash, with `pc` naming the operation
under way; `PowerCut` may come before any of them. `slips` records the two
situations in which the log goes wrong. `WordAnd` is what programming
a word over another leaves.

**CellStore** and **KeyValueStore.** One step per operation on the flash, `pc` naming
the next one. `Write` is the head of `_genie_flash_write` with its check of
`remain`; then come header, data, flag, and the flag of the cell replaced. When no
slot is free the write becomes a recycling: `EraseRecycle` to `MarkSaved` are
`_genie_flash_copy` to the recycle partition, `ErasePart` to `Release` the copy back,
which `Boot` (genie_flash_check_recycle) also enters. `ResetSystem` holds the tri
tuple in `tri` while the partition is erased. A write that follows a cell deleted or
retired finds the room only through a recycling, as in the code. `KeyValueStore` is
what callers may rely on. It has the call under way as a variable, `req`: a value
changes only in the step in which a write, a deletion or a reset that was asked for takes
effect, and only at its index; a recycling, a start and a power cut change nothing, except
that a power cut may leave the value of the write it interrupts `hidden` under the old one.
The mapping is `Stored`, what a read returns from the partition that counts, `Under`, the
values of active cells that a search does not get to, and `Request`, the call as `pc` and
`job` tell it.

**Friendship** and **Mailbox.** `f` is the context of `struct bt_mesh_friend` with the
Friend's advertiser (`air`), `l` is `bt_mesh.lpn` with one group and the requests in
the node's advertiser (`tx`). `FriendRecv` dispatches to the handlers of `friend.c`,
`LpnRecv` to those of `lpn.c`; the timers are `FriendTimer` and `LpnTimer`, the
callbacks of the advertisers `FriendSendStart`, `FriendSendEnd` and `LpnSend`. `slips`
records two known causes: a send that failed and left the node without a timer, and
a group added again while its removal was under way. `Mailbox` is a queue that loses
its oldest message when there is no room (the next one, if the oldest is being sent),
everything but the message being sent when the friendship ends, and once `faulty`, after
a slip or after `twice`, one message or two, whichever they are. `twice` records that a PDU
which the node had heard before passed for an answer: the message cache
(`msg_cache_match`, `net.c`:136) has two entries in every build, so any two PDUs in between make
it forget, and `LpnHears` does not rely on it. Application data that comes again is refused
by the replay list. `Misled` is about the previous Friend's address in a
Friend Request: `lpn.c`:316 sends it in the CPU's byte order, `friend.c`:844 reads it as big
endian. TRUE, as in the runs, is an address whose two bytes swapped are a unicast
address other than the node's; `bt_mesh_friend_req` then refuses a repeated request of a
node whose context it still has. The proofs cover both values. The mapping `Box`
counts the PDU on the air and the one kept for repetition as in the box until the
node has heard them; the queue holds messages and, in front, perhaps a Friend Update.
Numbers of transactions and PDUs are reused once nobody holds
them, which keeps the state finite.

**KeyRefresh.** `node[n]` is the subnet and its application key on device `n`; keys are
numbered by the refresh that brought them. `KrUpdate`, `RevokeKeys`, `KrpSet`,
`NetKeyUpdate` and `AppKeyUpdate` are the functions of the same names on that record;
`Hears` says whether a PDU of one device passes network and upper transport layer of
another. `req[n]` is the request under way to a member; a later one overtakes it.
The client's calls are those the shell makes; the order in which an operator makes
them (keys to all members before Phase 2, a refresh over before the next) is
the assumption written in the guards of `StartRefresh`, `KeysGiven` and `CliKrpSet*`.
`call` is `op_pending` with the member that the call is about; `status` is the status on its way
to the client (a bound: only the newest arrives). As in `net_key_status` and `app_key_status`, a
status ends whichever call of its kind waits (`StatusRecv`), or the call times out (`Timeout`),
and a status that comes later may answer the next call. `amiss` records the members about
which the client was misled so. `Join` gives a device the client's network key of the moment, as
`bt_mesh_provisioner_net_key_get` does, with the flag 0, which is all that the provisioner of
this repository can hand out (`provisioner_prov.c`:2079 reads the flags once, at
`bt_mesh_provisioner_init_prov_info`, from a subnet that does not exist), or with the client's flag, as
another provisioner would; `early` records a flag 0 in Phase 2. That the key exists is the
assumption of the next paragraph.

**Provisioning.** `link[s]` is `struct prov_link` of the device and of the provisioner, with
their advertisers as queues. Definitions with a parameter `s` model functions that
both files have, and branch on `s` where they differ; `map` names one of the two
files for each and the other for its neighbours. Keys derived from the Diffie-Hellman
key are represented by the set of PDUs that went into `conf_inputs`. `addr`
and `inprov` are the device's address and `g_in_prov`. `o` says how advertising buffers
fare in one handler; an acknowledgement that finds no buffer (`prov.c`:322) is one that is lost.
`netkey` is whether `bt_mesh_provisioner_net_key_get` finds a network key: it looks in
`bt_mesh.p_sub`, which no code of this repository fills, so that `send_prov_data` closes
every link with a failure (`provisioner_prov.c`:1362) and `netkey = FALSE` is the repository
as it stands. TRUE is a build that fills `p_sub`, or another provisioner with the same
protocol. The run and the proofs cover both. (With logging on, the lookup even reads through the
null pointer, `provisioner_prov.c`:390.) `met` is history, the last link on which the provisioner
found the device verified. `DhKeyFails` is `prov_dh_key_cb` without a key.
`ProvTimeout` resets the device's link, as `_genie_reset_prov` does on the boards TG7100B and
CH6121EVB (`genie_event.c`:79); on other boards the link stays, which is the variant
`ProvTimeoutLeavesLink`, and there neither LinkEnds nor Agreement holds. The provisioner raises
the same event as the device when it opens a link (`provisioner_prov.c`:609), and its own
application then starts the same timer; what its expiry does to the provisioner's own
network is outside the model, its link is not touched by it. A cancelled advert stays in the queue (`Cancelled`) until the
advertiser passes over it. Transaction ids are bytes and wrap as in `NextId`. `held` makes the two sides, whose retransmission timers have
the same period, take turns.

`MC*` modules give the constants their values. `*Proofs` modules hold proofs.
Definitions commented "Plausible slip" are variants of the definition that
follows them; they are not part of a specification and serve to show that the
properties notice the difference.

## Runs

| Run | Instance | Shows |
|---|---|---|
| iv_node | one node, two contexts, any beacon at any time, indices 0..2, seq modulo 3 | TypeOK, NonceFresh, UpdateHasExit, DeferredUnderTransfer, TimerDecides |
| iv_pair | two nodes hearing each other, 192 hours = 4 ticks | IvIndexPaced |
| iv_ends | one node, one context, fair | **violated**: IvuEnds |
| rpl | three sources, three slots, two sequence numbers | KnownReplaysRefused, NewerAccepted |
| seg | two devices, three SDUs of two segments, two contexts | TypeOK, SuccessIsDelivery, DeliveredOnce |
| seg_live | one SDU of three segments, fair | TransferEnds, SlotsFreed |
| seq_store | log of three words, a write per three messages | KnownAhead, IdentityKept |
| cells | two indices, two values, partitions of three cells | TypeOK, Fits, TritupleKept, ActsAsStore (refinement of `KeyValueStore`) |
| friendship | one friendship, two messages, two calls of the application | TypeOK, TimerAssert, Awake, Served, ActsAsMailbox (refinement of `Mailbox`) |
| friendship_live | two friendships in a row, one message, a send that fails, fair | Served, BoxEmpties |
| key_refresh | a client, a member and a device that joins, one refresh, fair | TypeOK, Understood, RefreshEnds |
| provisioning | with and without a network key: two links, one retransmission per PDU, two adverts lost, buffers exhausted or a key failed once, fair | TypeOK, Completes, Agreement, AckMeansHandled, LinkEnds |

The violation, *IvuEnds*: the IV Update is deferred by a transfer, `ivu_complete` has run,
the transfer is acknowledged in full. `seg_tx_reset` then returns on `nack_count == 0`
before it reads `pending_update`, and the node stays in the update
(`net.c`:54 speaks of a maximum time).

**Known deviations.** The passing properties state what is true of the code as it
is. Where the code falls short, the exception is a named value of a history
variable or a conjunct of the property, so that the property says exactly when the
promise is kept. The exceptions, and what else was seen on the way:

- Only `bt_mesh_net_resend` checks the limit that `net.c`:47 says triggers an IV Update;
  a node that sends unsegmented messages passes it and wraps (`wrapped` in NonceFresh).
- `bt_mesh_rpl_reset` leaves holes in the list and `is_replay` stops at the first hole, so
  that entries behind it, which `net.c`:576 calls valid, are not consulted; recovery by
  one index empties a list that is still needed (`lost` in KnownReplaysRefused, which also
  excepts what `rpl-clear` does on purpose).
- A reassembly context stays for as long as a segment that it refuses as a replay comes again
  (`transport.c`:1281; `KeptByReplay` in SlotsFreed and in the fairness). It stays for ever,
  not modelled, if its first segment has the wrong size (1274) or the device is an
  established Low Power Node (1283), because then the ack work is not armed.
- `trans_seg` does not borrow when it extends SeqZero: an SDU whose segments straddle a
  multiple of 2^13 is decrypted under the wrong number (`transport.c`:1197, 1313).
- A start with the log of sequence numbers exactly full reads the last word but one
  (`genie_flash.c`:932); after a recycling the next number is programmed over the word
  just restored (`slips` in KnownAhead).
- A power cut between activating a cell and retiring the old one (`genie_flash.c`:744)
  leaves two. A read finds the first, a write retires the first: until a recycling or a
  reset the key stays one write behind (`hidden` in `KeyValueStore`).
- A power cut inside `genie_flash_reset_system` loses the tri tuple (`hit`).
- A full user data partition leaves `free_offset` at 0 (`genie_flash.c`:275), and the next
  write goes over the flag of the partition; not modelled.
- `bt_mesh_ctl_send` failing in `lpn.c` leaves the node without a timer; `groups_changed`
  is not set when a group comes back while it is removed (`slips` in Awake and Served).
- The message cache has two entries: a PDU that comes again can pass for an answer, the
  bit is toggled, and a message is lost (`twice` in ActsAsMailbox). It also resets the
  node's count of attempts, so that a node which hears repetitions for ever never gives up the
  friendship (second disjunct of BoxEmpties).
- The previous Friend's address in a Friend Request changes its byte order on the way
  (`lpn.c`:316, `friend.c`:844; `Misled`).
- After a failed send the node may be behind by a PDU it has not heard. A group request
  then puts its confirmation in the place of that PDU (`enqueue_sub_cfm`), and if the
  pool is exhausted a queued message goes as well: two messages lost in one step
  (`faulty` in `Mailbox`). It takes more messages than the runs have; the proof of
  FriendActsAsMailbox met it.
- `net_key_update` answers STATUS_SUCCESS in Phases 2 and 3 (`cfg_srv.c`:2187), where its
  comment at 2144 speaks of an error; nothing handles the status of
  `bt_mesh_cfg_krp_set`.
- The status handlers of `cfg_cli.c` look at the pending operation and the key index, not at
  the source (150-216). A late status passes for the answer of a member that never got the key,
  the operator goes to Phase 2, and that member is left behind. If there is an application
  key to renew it refuses that one for ever and holds up the others (`amiss` in
  Understood and RefreshEnds).
- A device provisioned in Phase 2 with the flag 0 sends beacons under the new key that end the
  refresh for whoever hears them, before the client has ended it (`early` in Understood).
- A member that joined in Phase 2 does not hear those still in Phase 1 (second disjunct of
  Understood). The refreshed keys are not stored (`genie_event.c`), so a restart returns
  to the old ones.
- `close_link` leaves `rx.prev_id`: the first PDU of the next link may be acknowledged as
  a repetition and not handled (`closed` in AckMeansHandled). The provisioner's
  `close_link` clears LINK_ACTIVE, so that LINK_CLOSE is sent once; if it is lost, a configured
  device keeps an active link and sends no secure beacons (second disjunct of
  LinkEnds). `send_link_close` keeps its count into the next link and resets it at the
  third retransmission. Nothing ends the provisioner's link when a device goes away.
- No network key is ever stored where the provisioner looks for it, so it verifies devices
  and then closes the link with a failure (`netkey` in Completes).
- The device's transaction ids go up to 0xff, which is also XACT_NVAL, "none seen". After
  127 transactions without `reset_link` a provisioner that has seen none would acknowledge
  the one with that id and not handle it; AckMeansHandled excepts it. The run does not
  reach it, the proof of AcksHandled had to say so.

**Bounds.** *iv_node*: seq wraps within a few messages, and three
indices are enough for an update, a further one, and a recovery by one and by
two; what happens after depends on differences of indices only. *iv_pair*: the
first two steps to a new index decide about their distance, so the run stops at
the second; a single context and two sequence numbers let every node initiate at any
time. The view leaves out history that no guard reads. *rpl*: a hole in front of a slot, a
full list and a source not listed all occur with three sources. *seg*: five
transmissions are one SDU sent twice and part of another, or all three SDUs
partly; two SDUs of one source displace each other, the third competes for
contexts. The two SDUs of one device are interchangeable, hence the symmetry. *seq_store*: three words recycle after six messages;
MaxSeq 63 lets this happen often, in combination with restarts. *cells*: one index is the
tri tuple, the other is written, deleted and left behind; three cells are the least in
which both are live and a write must recycle, and also the least that a key left behind
can fill. *friendship*: a pool of three is one friendship's queue and its last PDU, so two
messages with an update exhaust it; two polls are enough for the alternating bit to be
wrong. The first run has one friendship and calls of the application, the second two
friendships and failing sends, because together they are too many states. The view
leaves out history that no guard reads. *key_refresh*: one refresh, because with late
statuses the liveness of two is out of TLC's reach in five minutes; the safety part was also
checked with two (2,297,125 states), where the second begins with what the first left (keys
at index 1, cached beacons), and Understanding is proved for any number. *provisioning*: the second link begins with what the first left; two
losses are one more than Completes allows, so both sides of its condition occur.
The runs of `SegTransfer`, `SeqStore`, `Friendship`, `KeyRefresh` and `Provisioning` end
when a bound on what the environment does is used up, so deadlock is not checked
there.

**Fairness.** Time passes, and the work queue runs work that is due: `ivu_complete`,
the retransmit work of an active transfer, the ack work of a context in use
(`k_delayed_work_submit`). Nothing is assumed there of
beacons, acknowledgements, segments or the application. Work is taken to run when it is due and never
early, which the queue ensures as long as its 32-bit clock does not wrap while
the work waits. `Incomplete` requires that the senders of the stored
segments have ended: they do so within a second, the timer takes 60; it is not assumed to run
out while a refused segment can restart it (`KeptByReplay`). *Friendship*: the timers
of both sides run out and both advertisers send; what is sent may always be lost.
*KeyRefresh*: an operator repeats a key update until it is answered, some request
reaches its member while the client waits, and some status its client in time, if they are
tried again and again (strong fairness, because each may be overtaken or late); a call that
is not answered times out; some of the calls for Phase 2 and Phase 3 are made, perhaps
always to the same member; beacons are periodic, and a beacon that would move a
member is heard at some time. *Provisioning*: the system does not stop while something
is queued, timed or being computed; nothing more, so any one of the competing steps may
be the one that happens.

## Proofs

*IvUpdateProofs*: TypeCorrect, NonceFreshness, UpdateExit, ReturnsDeferred and IndexPaced,
from `ConstantsAssumption` alone, except that IndexPaced supposes no beacons from outside
(`ForeignBeacons = {}`, as in its run). The invariant is TypeOK with three facts per node:

- `Fresh`: the last nonce is not above the transmit index, an index in update is
  positive, and before a wrap the next nonce is above the last. The first part
  is needed after a wrap: it is what makes setting seq to 0 at a new index safe.
- `Exit`: the timer runs, or the return is pending *and* has passed the 96 hours.
  Without the second half `seg_tx_reset` could clear the flag and be refused.
- `Blank`: an unprovisioned device has no state of a network.

The record of a node changes through few functions, so the lemmas say what
`NetIvUpdate`, `SegTxReset`, `Encrypt` and `Resend` preserve; the induction step then has one
case per action. IndexPaced adds `Pace`: a node at the highest index is not longer in its
state than that index exists, and 96 hours less if it is back in Normal Operation. Recovery,
which skips the 96 hour check, keeps it because the node whose beacon it follows has it.

*ReplayListProofs*: ReplayProtection and NoStarvation, from `ListAssumption`. The
invariant is TypeOK with `Sound` (each slot of a source holds something accepted
from it, never newer than the newest) and `Recorded` (unless its record was lost,
a source has one slot at most, and one with its newest message while that can be
decrypted). That the scan stops where it should needs the least element of a
set of slots, taken from the well-foundedness of the naturals.

*SegTransferProofs*: TransferTypes, DeliversOnce and SuccessDelivers, from
`TransferAssumption`. That acknowledgements always have a device to go to needs
`Attributed`: a context in use has a source.

- For DeliversOnce the invariant adds `OnAir` (a segment has the SeqZero of the SDU it is
  from) and `Once`: a delivered SDU has its completed context, and any context with its
  SeqAuth *in front of* it holds a segment of another SDU, so that the
  scan of `seg_rx_find` either finds the completed one or one that cannot be decrypted.
- For SuccessDelivers it adds `Held` (what a context holds is under its SeqAuth), `Open`
  (a context in use is incomplete and the only one of its source), `Full` (a complete
  context stands for a delivery), `AckFor` and `Backed`: every segment acknowledged, or
  whose acknowledgement is under way, is held by a context in use. When all are
  acknowledged the one context of the source would be complete and in use, which
  `Open` excludes. The hypothesis `SeqZeroFresh`, that no SeqZero of a device comes twice, is
  needed: with it an acknowledgement names its SDU. Without it a late full acknowledgement of
  one SDU would complete another. SuccessDeliversInRound derives the hypothesis from a
  device's use of at most 2^13 sequence numbers.

*SeqStoreProofs*: StoreAhead, StoreIdentity and StoreTypes, from the assumptions on the
constants. `NoGap`: the log has no blank word in front of a written one, so the scan at
start finds the last. `Announced` relates the recycle flag, the saved number and the step
of the recycling: a number counts from the moment it is announced until it is
back in the log, over any power cut. `Close`, which holds until a slip: what a
restart would find is less than `Interval` below the numbers used. The interval added at
start makes up for it.

*CellStoreProofs*: CellTypes, NeverOverflows, KeepsTrituple and CellsAreAStore, for any
set of indices and values and any size of the partitions. `Counted` relates the counters in
RAM to the cells; `Backup` and `Restore` say, at every flash operation of a recycling,
which cells are copied and that per index the copy has as many active cells as the part
copied and begins with the same value (an index may have two cells, and the first counts);
`TriSomewhere` says where the tri tuple is. The lemma Effects then shows that each step
changes what a reader would find as one step of `KeyValueStore` does, or not at all. The
induction over cells is not needed: the copy grows by one cell, and cardinalities are
counted up by one. `Request` makes the refinement strict: Effects shows that a step which
changes what is read belongs to the call under way, to its index and its value.

*KeyRefreshProofs*: RefreshTypes, for any operator, and Understanding, for one who lets a
refresh end before the next (`Settles`; the code does nothing to enforce it). `Members`
puts each member in one of three places: old keys, new keys, or joined in Phase 2 without
old ones; it leaves the old keys only when the client has, or when a device joined early.
All of it speaks of the members outside `amiss`. `Told` is why: what such a
member confirmed stays true, and the client goes to Phase 2 when all have confirmed.
`Requests` bounds what requests under way may ask, `Apps` gives members of one age one
application key.

*FriendshipProofs*: FriendshipTypes, NoBufferAtTimeout, AlwaysAwake, GroupServed and
FriendActsAsMailbox, from
`FriendshipAssumption`, for any pool of at least three, any number of retries, messages,
friendships and calls. There are three inductive invariants, each on top of the one before. `Inv` is about each device alone.
Its heart is `Loaded`: what can wake the node, its timer and the requests in its
advertiser, is at most two and one for each call of the application, which is why a
transaction number that nobody holds exists (`Num` has 6 + MaxCalls of them); `Idle` and
`Fits` do the same for the Friend's context and pool. `Unity` relates the devices while
there was no slip. `Together`: the Friend's keys are below the node's counter unless the
node is asking, so that an old context or PDU is never taken for the new friendship, and a
node in the Friend's friendship is so for the Friend too. `Ordered` and `Agreed`: the
request for the group that has the node's transaction number is the last one in its
advertiser, so when its confirmation can be heard no other request is still to come, and
the Friend's list is what the node asked for. `Wakes` is Awake itself. It is inductive only
with `Groups`: a request for the group is repeated on a timeout only while the group still
has to be added or removed, and a node that has nothing to repeat then has no timer either
(that is the slip of a group that comes back during its removal).

`Posted` is behind FriendActsAsMailbox. `Stocked`: the queue is messages, all different, none
of them the last PDU or the one on the air, none later than the last that came in, and the
Friend answers a repeated poll with the last PDU as long as it keeps one. `Linked`: requests in
the node's advertiser and offers on the air are of no friendship later than the node's
counter, so that nothing old opens, closes or polls the present one. `Turn` is the argument of the
alternating bit, and holds while there was no slip: either the bits agree and the node waits for
the answer to a poll with that bit (`Behind`), or they differ, and it has heard the last PDU, or
that PDU only confirms a request for the group, and old polls in its advertiser come before new
ones (`Ahead`). So a poll that makes the Friend give up
its last PDU comes only after that was heard. `Kept`: what is on the air and neither the last PDU
nor heard is not a message. Each function on the context then has a lemma with its effect on
`Box` (`PopsBox`, `AdvancesBox`, `QueuesBox`, `ConfirmsBox`, ...), and each action one that it is
a step of `Mailbox` or leaves it unchanged. `Turn` holds only until `twice`; after that, as
after a slip, the steps are those that `Mailbox` allows when it is `faulty`.

*ProvisioningProofs*: ProvisioningTypes, AcksHandled, Agrees and LinkCompletes, from
`ProvAssumption`, for any number of links, losses, missing buffers, failed keys and tries, and
with or without a network key. The invariant
of the first three, `Inv`, has three layers.
`Side` is about one side: its queued segments and control messages are those of
what it is sending (`Current`), so that what the other hears is the sender's present `tx`,
not something of an earlier link; at most one queued acknowledgement is the pending one
(`Single`); the address given is below the next to allocate (`Sending`, `Steady`); a side
without a link that it did not close itself has seen no transaction (`Blank`). `Taken` and
`Answers` relate the two sides. A node whose link is active has taken the data: it expects
nothing but an invitation, the provisioner is not sending one, and the device is not
sending the link ack that would make it send one. While the device sends its answer and the provisioner
waits for one, both have the same key and the device has the address given. Agreement
follows, but `Answers` is not inductive without `Taken`, which excludes that the device
begins again and derives another key while its answer is on the way. `Offers` does the same
one PDU earlier, for the moment at which the device is found verified: while the provisioner waits
for the random value, a device in a link is past its confirmation and has the key it confirmed,
or has failed. `Seen`: the last
transaction of a side, unless `close_link` left it behind, was handled. Each operation and
each handler has a lemma with its effect (`Kept`, `Shut`, `Goes`, `MsgEff`, `RecvEff`), and
each action one that it keeps the invariant and does what the two action properties say.

LinkCompletes, Completes for every number of tries, needs a second invariant, `Tracked`, on
top of `Inv`. It speaks of the first link for as long as `Calm` holds, which is the condition of
Completes: no more losses than tries, buffers, no timeout. `Stage` lists the pairs of points in
the protocol at which the two sides can be, each by the PDU it said last, its transaction
number, what it expects and what went into the confirmation, and demands that a PDU which the
other has not taken is still being sent. That alone does not exclude that a
side gives up after `Tries` retransmissions, so the rest counts. Every try after the
first was paid for by a loss (`Paid`): the tries of a PDU are fewer than the losses so far,
or as many, and then it, the segments of it that are missing, or its acknowledgement is still
under way. `Flow` says so of a PDU, before and after the other side has
taken it (`Unheard`, `Heard`), and `Opening` and `Acking` of link open and link ack, which
nothing acknowledges: there `held`, who has retransmitted last, takes the place of what is under
way. A retransmission happens with both queues empty, so its try is paid for and below
`Tries`; a loss pays for the next. `Fit` keeps the queues in order (`Lined`: a segment is followed by the
next of its PDU) and the acknowledgements not ahead of what was handled (`Settled`). `Tracked` was
model-checked with three tries and three losses before it was proved. At every stage
one side has something to send or to compute (`StageGoesOn`), which is Completes. The stages end
with the PDU that makes the provisioner close the link (`Last`): the answer to the data, or,
without a network key, the random value.

Only model-checked: the liveness properties (TimerDecides, IvuEnds, TransferEnds,
SlotsFreed, BoxEmpties, RefreshEnds, LinkEnds), which are beyond the prover. Every
safety invariant and action property that a run expects to hold has a theorem.

## Not modelled

Preemption of one handler by another (see Modules). Ciphers and MICs (a message is
authentic or not there); the duplicate cache and relay; GATT proxy and PB-GATT;
configuration apart from key refresh; health and application models; OTA; the test mode
of the IV Update; the stores of boards other than TG7100B and CH6121EVB.

Within the modelled parts: cells of several sizes and flash operations that fail;
segmented PDUs for a low power node, security updates in the Friend queue, the Friend
Clear procedure towards an old Friend, `bt_mesh_lpn_set`; several subnets; a Friend Update as
the third caller of `bt_mesh_kr_update` (`lpn.c`:947); a semaphore of the configuration client
that a status gives twice, so that the next call returns at once; input and
output OOB, malformed PDUs, more than one provisioner, a buffer missing for a segment after the
first (`prov.c`:449), an exhausted address range (`provisioner_prov.c`:1407). Each would add data to a module
and little control, except the segmented PDUs, which join `Friendship` to `SegTransfer`.

The kernel, the Bluetooth host, the platform code and the build system are not this
program's own logic, and they are nearly all of the repository's lines.
