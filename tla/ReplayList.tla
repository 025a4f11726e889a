----------------------------- MODULE ReplayList -----------------------------
(***************************************************************************)
(* The replay protection list of one receiver: bt_mesh.rpl.                *)
(*                                                                         *)
(* For every source the list remembers the newest sequence number accepted *)
(* and whether it belongs to the previous IV index.  is_replay             *)
(* (transport.c) scans and updates the list for a decrypted message; the   *)
(* IV Update procedure ages it (bt_mesh_rpl_reset, net.c), IV Index        *)
(* Recovery, bt_mesh_reset and the shell's rpl-clear empty it.             *)
(*                                                                         *)
(* A message is reduced to what the list looks at: its source, its         *)
(* sequence number and whether it was sent under the previous IV index.    *)
(* The network may deliver any authentic message late and any number of    *)
(* times.  msg_cache and dup_cache are not modelled: they only drop        *)
(* messages, and those that arrive over GATT pass by both.                 *)
(***************************************************************************)
EXTENDS Integers

CONSTANTS
  Sources,     \* unicast addresses of the other devices
  Unassigned,  \* BT_MESH_ADDR_UNASSIGNED, src of an empty slot
  Crpl,        \* CONFIG_BT_MESH_CRPL, slots of the list
  MaxSeq       \* bound: highest sequence number sent under one IV index

ASSUME ListAssumption ==
  /\ Unassigned \notin Sources
  /\ Crpl \in Nat
  /\ MaxSeq \in Nat

Slots == 1..Crpl

Entry == [src : Sources \cup {Unassigned}, old_iv : BOOLEAN, seq : 0..MaxSeq]

EmptySlot == [src |-> Unassigned, old_iv |-> FALSE, seq |-> 0]

Message == [old_iv : BOOLEAN, seq : 0..MaxSeq]

(***************************************************************************)
(* The newest message accepted from a source: its sequence number and how  *)
(* many IV indices ago it was sent.  What is two or more indices old can   *)
(* no longer be decrypted, so the age stops at 2.                          *)
(***************************************************************************)
Newest == [age : 0..2, seq : 0..MaxSeq]

NotHeard == [age |-> 2, seq |-> 0]

Causes == {"empty slot", "recovery", "cleared"}

VARIABLES
  rpl,        \* bt_mesh.rpl
  iv_update,  \* bt_mesh.iv_update
  newest,     \* history: newest[s], the newest message accepted from s
  lost        \* history: lost[s], how the list has lost its record of s

vars == <<rpl, iv_update, newest, lost>>

-----------------------------------------------------------------------------
Age(m) == IF m.old_iv THEN 1 ELSE 0

Newer(m, t) == Age(m) < t.age \/ (Age(m) = t.age /\ m.seq > t.seq)

\* The slot at which the scan of is_replay for source s stops.
StopsAt(i, s) ==
  /\ rpl[i].src \in {Unassigned, s}
  /\ \A j \in Slots : j < i => rpl[j].src \notin {Unassigned, s}

\* The comparison of message m with the existing slot e of its source.
Outdated(e, m) ==
  \/ m.old_iv /\ ~e.old_iv
  \/ m.old_iv = e.old_iv /\ m.seq <= e.seq

(***************************************************************************)
(* The verdict of is_replay: the message is outdated, or the scan ended    *)
(* without a slot ("RPL is full!").                                        *)
(***************************************************************************)
IsReplay(s, m) ==
  \A i \in Slots : StopsAt(i, s) => rpl[i].src = s /\ Outdated(rpl[i], m)

Listed(s) == \E i \in Slots : rpl[i].src = s

\* An empty slot stands in front of the slot of s: is_replay does not see the latter.
Shadowed(s) ==
  \E i, j \in Slots : i < j /\ rpl[i].src = Unassigned /\ rpl[j].src = s

\* Plausible slip: only the sequence number of an existing slot is updated.
StoreSeqOnly(i, s, m) ==
  rpl' = [rpl EXCEPT ![i] =
            IF @.src = s THEN [@ EXCEPT !.seq = m.seq]
                         ELSE [src |-> s, old_iv |-> m.old_iv, seq |-> m.seq]]

Store(i, s, m) ==
  rpl' = [rpl EXCEPT ![i] = [src |-> s, old_iv |-> m.old_iv, seq |-> m.seq]]

(***************************************************************************)
(* is_replay for a message that it lets pass.  It stops at the first empty *)
(* slot, even when the source has a slot of its own further on.            *)
(***************************************************************************)
Accept(s, m) ==
  \E i \in Slots :
    /\ StopsAt(i, s)
    /\ ~IsReplay(s, m)
    /\ Store(i, s, m)
    /\ newest' = [newest EXCEPT ![s] =
                    IF Newer(m, @) THEN [age |-> Age(m), seq |-> m.seq] ELSE @]
    /\ lost' = [lost EXCEPT ![s] = @ \cup IF Shadowed(s) THEN {"empty slot"} ELSE {}]
    /\ UNCHANGED iv_update

\* Plausible slip: entries already old are kept for one more IV index.
RplResetKeepsOld ==
  [i \in Slots |-> IF rpl[i].src = Unassigned THEN rpl[i]
                   ELSE [rpl[i] EXCEPT !.old_iv = TRUE]]

\* bt_mesh_rpl_reset
RplReset ==
  [i \in Slots |->
     IF rpl[i].src = Unassigned THEN rpl[i]
     ELSE IF rpl[i].old_iv THEN EmptySlot
     ELSE [rpl[i] EXCEPT !.old_iv = TRUE]]

\* The receiver's IV index moves on by k.
Aged(k) ==
  [s \in Sources |->
     [newest[s] EXCEPT !.age = IF @ + k > 2 THEN 2 ELSE @ + k]]

(***************************************************************************)
(* bt_mesh_net_iv_update into the IV Update: the index moves on by one.    *)
(***************************************************************************)
EnterUpdate ==
  /\ ~iv_update
  /\ iv_update' = TRUE
  /\ rpl' = RplReset
  /\ newest' = Aged(1)
  /\ UNCHANGED lost

\* bt_mesh_net_iv_update back to Normal Operation: the index stays.
LeaveUpdate ==
  /\ iv_update
  /\ iv_update' = FALSE
  /\ UNCHANGED <<rpl, newest, lost>>

(***************************************************************************)
(* IV Index Recovery: the list is emptied and the index jumps, by one to   *)
(* Normal Operation or by two or more to either state.                     *)
(***************************************************************************)
Recover(k, update) ==
  /\ ~iv_update
  /\ k = 1 => ~update
  /\ iv_update' = update
  /\ rpl' = [i \in Slots |-> EmptySlot]
  /\ newest' = Aged(k)
  /\ lost' = [s \in Sources |-> IF k = 1 /\ newest[s].age = 0 THEN {"recovery"} ELSE {}]

\* bt_mesh_reset, and the network joined after it, in either IV state.
Rejoin(update) ==
  /\ iv_update' = update
  /\ rpl' = [i \in Slots |-> EmptySlot]
  /\ newest' = [s \in Sources |-> NotHeard]
  /\ lost' = [s \in Sources |-> {}]

\* bt_mesh_rpl_clear, a command of the shell: what was accepted is forgotten.
RplClear ==
  /\ rpl' = [i \in Slots |-> EmptySlot]
  /\ lost' = [s \in Sources |-> IF newest[s].age < 2 THEN {"cleared"} ELSE {}]
  /\ UNCHANGED <<iv_update, newest>>

Init ==
  /\ iv_update \in BOOLEAN
  /\ rpl = [i \in Slots |-> EmptySlot]
  /\ newest = [s \in Sources |-> NotHeard]
  /\ lost = [s \in Sources |-> {}]

Next ==
  \/ \E s \in Sources, m \in Message : Accept(s, m)
  \/ EnterUpdate
  \/ LeaveUpdate
  \/ \E k \in 1..2, update \in BOOLEAN : Recover(k, update)
  \/ \E update \in BOOLEAN : Rejoin(update)
  \/ RplClear

Spec == Init /\ [][Next]_vars

-----------------------------------------------------------------------------
TypeOK ==
  /\ rpl \in [Slots -> Entry]
  /\ iv_update \in BOOLEAN
  /\ newest \in [Sources -> Newest]
  /\ lost \in [Sources -> SUBSET Causes]

(***************************************************************************)
(* A message that can still be decrypted and is not newer than what was    *)
(* accepted from its source is refused, over any number of IV updates and  *)
(* whatever other sources did to the list.  Three things excuse it: an     *)
(* empty slot left by bt_mesh_rpl_reset in front of the source's slot, an  *)
(* IV Index Recovery by one, after which messages of the index before can  *)
(* still be decrypted, and bt_mesh_rpl_clear.                              *)
(***************************************************************************)
KnownReplaysRefused ==
  \A s \in Sources, m \in Message :
    lost[s] = {} /\ ~Shadowed(s) /\ ~Newer(m, newest[s]) => IsReplay(s, m)

(***************************************************************************)
(* A listed source is never shut out: any message newer than all accepted  *)
(* from it passes is_replay, however the list was aged in between.         *)
(***************************************************************************)
NewerAccepted ==
  \A s \in Sources, m \in Message :
    Listed(s) /\ Newer(m, newest[s]) => ~IsReplay(s, m)
=============================================================================
