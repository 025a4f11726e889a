-------------------------- MODULE ReplayListProofs --------------------------
(***************************************************************************)
(* Proofs about ReplayList, for any sources, any list size and any         *)
(* sequence numbers.                                                       *)
(***************************************************************************)
EXTENDS ReplayList, TLAPS, WellFoundedInduction

\* Every slot of s holds a message that was accepted from s.
Sound(s) == \A i \in Slots : rpl[i].src = s => ~Newer(rpl[i], newest[s])

(***************************************************************************)
(* Unless the record of s was lost, s has one slot at most, and has one    *)
(* with the newest message while that can still be decrypted.              *)
(***************************************************************************)
Recorded(s) ==
  lost[s] = {} =>
    /\ \A i, j \in Slots : rpl[i].src = s /\ rpl[j].src = s => i = j
    /\ newest[s].age < 2 =>
         \E i \in Slots : /\ rpl[i].src = s
                          /\ Age(rpl[i]) = newest[s].age
                          /\ rpl[i].seq = newest[s].seq

IInv == TypeOK /\ \A s \in Sources : Sound(s) /\ Recorded(s)

-----------------------------------------------------------------------------
\* A nonempty set of naturals has a least element: the scan stops somewhere.
LEMMA Least ==
  ASSUME NEW T, T \subseteq Nat, T # {}
  PROVE  \E x \in T : \A y \in T : x <= y
<1> DEFINE R == {p \in Nat \X Nat : p[1] < p[2]}
<1>1. IsWellFoundedOn(R, Nat)
  <2>1. OpToRel(<, Nat) = R
    BY DEF OpToRel
  <2> QED BY <2>1, NatLessThanWellFounded
<1>2. PICK x \in T : \A y \in T : ~(<<y, x>> \in R)
  <2> HIDE DEF R
  <2> QED BY <1>1, WFMin
<1>3. ASSUME NEW y \in T PROVE x <= y
  <2>1. x \in Nat /\ y \in Nat
    OBVIOUS
  <2>2. y < x => <<y, x>> \in R
    BY <2>1
  <2>3. ~(y < x)
    BY <1>2, <2>2
  <2> QED BY <2>1, <2>3
<1> QED BY <1>2, <1>3

\* For a listed source the scan stops at a slot, never past the end of the list.
LEMMA ScanStops ==
  ASSUME NEW s, Listed(s)
  PROVE  \E i \in Slots : StopsAt(i, s)
<1> DEFINE T == {i \in Slots : rpl[i].src \in {Unassigned, s}}
<1>1. T \subseteq Nat /\ T # {}
  BY DEF Listed, Slots
<1>2. PICK x \in T : \A y \in T : x <= y
  <2> HIDE DEF T
  <2> QED BY <1>1, Least
<1>3. \A j \in Slots : j < x => j \notin T
  BY <1>1, <1>2 DEF Slots
<1> QED BY <1>2, <1>3 DEF StopsAt

\* It stops at one slot only.
LEMMA ScanUnique ==
  ASSUME NEW s, NEW i \in Slots, NEW j \in Slots, StopsAt(i, s), StopsAt(j, s)
  PROVE  i = j
  BY DEF StopsAt, Slots

\* A message is not outdated by a slot exactly when it is newer than the slot's.
LEMMA OutdatedMeans ==
  ASSUME NEW e \in Entry, NEW m \in Message, NEW t \in Newest,
         Age(e) = t.age, e.seq = t.seq
  PROVE  Outdated(e, m) <=> ~Newer(m, t)
  BY ListAssumption DEF Outdated, Newer, Age, Entry, Message, Newest

\* What a slot outdates is not newer than anything at least as new as the slot.
LEMMA OutdatedOld ==
  ASSUME NEW e \in Entry, NEW m \in Message, NEW t \in Newest,
         ~Newer(e, t), Outdated(e, m)
  PROVE  ~Newer(m, t)
  BY ListAssumption DEF Outdated, Newer, Age, Entry, Message, Newest

-----------------------------------------------------------------------------
LEMMA InitHolds == Init => IInv
<1> SUFFICES ASSUME Init PROVE IInv
  OBVIOUS
<1>1. EmptySlot \in Entry /\ NotHeard \in Newest
  BY ListAssumption DEF EmptySlot, Entry, NotHeard, Newest
<1>2. TypeOK
  BY <1>1 DEF Init, TypeOK
<1>3. \A s \in Sources, i \in Slots : rpl[i].src # s
  <2>1. EmptySlot.src = Unassigned
    BY DEF EmptySlot
  <2> QED BY <2>1, ListAssumption DEF Init
<1>4. \A s \in Sources : ~(newest[s].age < 2)
  <2>1. NotHeard.age = 2
    BY DEF NotHeard
  <2>2. newest = [s \in Sources |-> NotHeard]
    BY DEF Init
  <2>3. \A s \in Sources : newest[s].age = 2
    BY <2>1, <2>2
  <2> TAKE s \in Sources
  <2>4. newest[s].age = 2
    BY <2>3
  <2> QED BY <2>4
<1> QED BY <1>2, <1>3, <1>4 DEF IInv, Sound, Recorded

\* is_replay letting a message pass.
LEMMA AcceptKeeps ==
  ASSUME IInv, NEW s \in Sources, NEW m \in Message, Accept(s, m)
  PROVE  IInv'
<1>1. PICK i \in Slots :
        /\ StopsAt(i, s)
        /\ ~IsReplay(s, m)
        /\ Store(i, s, m)
        /\ newest' = [newest EXCEPT ![s] =
                        IF Newer(m, @) THEN [age |-> Age(m), seq |-> m.seq] ELSE @]
        /\ lost' = [lost EXCEPT ![s] = @ \cup IF Shadowed(s) THEN {"empty slot"} ELSE {}]
        /\ UNCHANGED iv_update
  BY DEF Accept
<1> DEFINE e == [src |-> s, old_iv |-> m.old_iv, seq |-> m.seq]
           t == IF Newer(m, newest[s]) THEN [age |-> Age(m), seq |-> m.seq] ELSE newest[s]
<1>2. e \in Entry /\ e.src = s /\ e.seq = m.seq /\ e.old_iv = m.old_iv /\ t \in Newest
  BY DEF Entry, Message, IInv, TypeOK, Newest, Age
<1>3. rpl' = [rpl EXCEPT ![i] = e] /\ newest' = [newest EXCEPT ![s] = t]
  BY <1>1 DEF Store
<1>4. TypeOK'
  <2>1. lost' \in [Sources -> SUBSET Causes]
    <3>1. (IF Shadowed(s) THEN {"empty slot"} ELSE {}) \subseteq Causes
      BY DEF Causes
    <3>2. lost[s] \cup (IF Shadowed(s) THEN {"empty slot"} ELSE {}) \subseteq Causes
      BY <3>1 DEF IInv, TypeOK
    <3>3. lost \in [Sources -> SUBSET Causes]
      BY DEF IInv, TypeOK
    <3> QED BY <1>1, <3>2, <3>3
  <2> HIDE DEF e, t
  <2>2. rpl \in [Slots -> Entry] /\ newest \in [Sources -> Newest]
    BY DEF IInv, TypeOK
  <2>3. rpl' \in [Slots -> Entry] /\ newest' \in [Sources -> Newest]
    BY <1>2, <1>3, <2>2
  <2>4. iv_update' \in BOOLEAN
    BY <1>1 DEF IInv, TypeOK
  <2> QED BY <2>1, <2>3, <2>4 DEF TypeOK
<1>5. \A j \in Slots : rpl'[j] = IF j = i THEN e ELSE rpl[j]
  BY <1>3 DEF IInv, TypeOK
<1>6. \A r \in Sources : newest'[r] = IF r = s THEN t ELSE newest[r]
  BY <1>3 DEF IInv, TypeOK
<1>7. \A r \in Sources : r # s => Sound(r)' /\ Recorded(r)'
  <2> TAKE r \in Sources
  <2> HAVE r # s
  <2> HIDE DEF e, t
  <2>1. lost'[r] = lost[r] /\ newest'[r] = newest[r]
    BY <1>1, <1>6 DEF IInv, TypeOK
  <2>2. rpl[i].src # r
    BY <1>1, ListAssumption DEF StopsAt
  <2>3. \A j \in Slots : /\ rpl'[j].src = r <=> rpl[j].src = r
                         /\ rpl[j].src = r => rpl'[j] = rpl[j]
    BY <1>2, <1>5, <2>2
  <2> QED BY <2>1, <2>3 DEF IInv, Sound, Recorded
<1>8. Sound(s)'
  <2>1. ~Newer(e, t)
    BY <1>2, ListAssumption DEF Newer, Age, Message, IInv, TypeOK, Newest
  <2>2. ASSUME NEW f \in Entry, ~Newer(f, newest[s]) PROVE ~Newer(f, t)
    BY <2>2, ListAssumption DEF Newer, Age, Message, IInv, TypeOK, Newest, Entry
  <2> HIDE DEF e, t
  <2>3. ASSUME NEW j \in Slots, rpl'[j].src = s PROVE ~Newer(rpl'[j], newest'[s])
    <3>1. CASE j = i
      BY <1>5, <1>6, <2>1, <3>1
    <3>2. CASE j # i
      BY <1>5, <1>6, <2>2, <2>3, <3>2 DEF IInv, TypeOK, Sound
    <3> QED BY <3>1, <3>2
  <2> QED BY <2>3 DEF Sound
<1>9. Recorded(s)'
  <2> SUFFICES ASSUME lost'[s] = {}
               PROVE  /\ \A j, k \in Slots : rpl'[j].src = s /\ rpl'[k].src = s => j = k
                      /\ Age(e) = t.age /\ e.seq = t.seq
    <3> HIDE DEF e, t
    <3> QED BY <1>2, <1>5, <1>6 DEF Recorded
  <2>1. lost[s] = {} /\ ~Shadowed(s)
    BY <1>1 DEF IInv, TypeOK
  <2>2. rpl[i] \in Entry /\ newest[s] \in Newest /\ Recorded(s)
    BY DEF IInv, TypeOK
  <2>3. ASSUME NEW j \in Slots, rpl[j].src = s PROVE j = i
    <3>1. ~(j < i)
      BY <1>1, <2>3 DEF StopsAt
    <3>2. ~(i < j /\ rpl[i].src = Unassigned)
      BY <2>1, <2>3 DEF Shadowed
    <3>3. rpl[i].src = s => j = i
      BY <2>1, <2>2, <2>3 DEF Recorded
    <3>4. rpl[i].src = Unassigned \/ rpl[i].src = s
      BY <1>1 DEF StopsAt
    <3>5. i \in Int /\ j \in Int
      BY DEF Slots
    <3> QED BY <3>1, <3>2, <3>3, <3>4, <3>5
  <2>4. \A j, k \in Slots : rpl'[j].src = s /\ rpl'[k].src = s => j = k
    <3> HIDE DEF e
    <3> QED BY <1>5, <2>3
  <2>5. Newer(m, newest[s])
    <3>1. CASE newest[s].age < 2
      <4>1. rpl[i].src = s /\ Age(rpl[i]) = newest[s].age /\ rpl[i].seq = newest[s].seq
        BY <2>1, <2>2, <2>3, <3>1 DEF Recorded
      <4>2. ~Outdated(rpl[i], m)
        BY <1>1, <4>1, ScanUnique DEF IsReplay
      <4> QED BY <2>2, <4>1, <4>2, OutdatedMeans
    <3>2. CASE ~(newest[s].age < 2)
      BY <2>2, <3>2 DEF Newer, Age, Newest
    <3> QED BY <3>1, <3>2
  <2>6. Age(e) = t.age /\ e.seq = t.seq
    BY <1>2, <2>5 DEF Age
  <2> QED BY <2>4, <2>6
<1> QED BY <1>4, <1>7, <1>8, <1>9 DEF IInv

\* bt_mesh_rpl_reset together with the step to the next IV index.
LEMMA EnterUpdateKeeps ==
  ASSUME IInv, EnterUpdate
  PROVE  IInv'
<1>1. rpl' = RplReset /\ newest' = Aged(1) /\ UNCHANGED lost /\ iv_update' = TRUE
  BY DEF EnterUpdate
<1>2. EmptySlot \in Entry /\ EmptySlot.src = Unassigned
  BY ListAssumption DEF EmptySlot, Entry
<1>3. \A i \in Slots : rpl[i] \in Entry /\ rpl'[i] \in Entry
  BY <1>1, <1>2 DEF RplReset, IInv, TypeOK, Entry
<1>4. \A s \in Sources : /\ newest[s] \in Newest /\ newest'[s] \in Newest
                         /\ newest'[s].seq = newest[s].seq
                         /\ newest'[s].age = IF newest[s].age + 1 > 2 THEN 2 ELSE newest[s].age + 1
  BY <1>1 DEF Aged, IInv, TypeOK, Newest
<1>5. TypeOK'
  <2>1. rpl' \in [Slots -> Entry]
    BY <1>1, <1>3 DEF RplReset
  <2>2. newest' \in [Sources -> Newest]
    BY <1>1, <1>4 DEF Aged
  <2> QED BY <1>1, <2>1, <2>2 DEF TypeOK, IInv
<1>6. \A s \in Sources, i \in Slots :
        rpl'[i].src = s => /\ rpl[i].src = s /\ ~rpl[i].old_iv
                           /\ rpl'[i].old_iv /\ rpl'[i].seq = rpl[i].seq
  BY <1>1, <1>2, <1>3, ListAssumption DEF RplReset, Entry
<1>7. \A s \in Sources, i \in Slots :
        rpl[i].src = s /\ ~rpl[i].old_iv => rpl'[i].src = s
  BY <1>1, <1>3, ListAssumption DEF RplReset, Entry
<1>8. ASSUME NEW s \in Sources PROVE Sound(s)'
  <2> SUFFICES ASSUME NEW i \in Slots, rpl'[i].src = s PROVE ~Newer(rpl'[i], newest'[s])
    BY DEF Sound
  <2>1. ~Newer(rpl[i], newest[s])
    BY <1>6 DEF IInv, Sound
  <2> QED BY <1>3, <1>4, <1>6, <2>1, ListAssumption DEF Newer, Age, Entry, Newest
<1>9. ASSUME NEW s \in Sources PROVE Recorded(s)'
  <2> SUFFICES ASSUME lost[s] = {}
               PROVE  /\ \A i, j \in Slots : rpl'[i].src = s /\ rpl'[j].src = s => i = j
                      /\ newest'[s].age < 2 =>
                           \E i \in Slots : /\ rpl'[i].src = s
                                            /\ Age(rpl'[i]) = newest'[s].age
                                            /\ rpl'[i].seq = newest'[s].seq
    BY <1>1 DEF Recorded
  <2>1. \A i, j \in Slots : rpl'[i].src = s /\ rpl'[j].src = s => i = j
    BY <1>6 DEF IInv, Recorded
  <2>2. ASSUME newest'[s].age < 2
        PROVE  \E i \in Slots : /\ rpl'[i].src = s
                                /\ Age(rpl'[i]) = newest'[s].age
                                /\ rpl'[i].seq = newest'[s].seq
    <3>1. newest[s].age = 0 /\ newest'[s].age = 1
      BY <1>4, <2>2 DEF Newest
    <3>2. PICK i \in Slots : /\ rpl[i].src = s /\ Age(rpl[i]) = newest[s].age
                             /\ rpl[i].seq = newest[s].seq
      BY <3>1 DEF IInv, Recorded
    <3>3. ~rpl[i].old_iv
      BY <3>1, <3>2 DEF Age
    <3>4. rpl'[i].src = s
      BY <1>7, <3>2, <3>3
    <3> QED BY <1>4, <1>6, <3>1, <3>2, <3>4 DEF Age
  <2> QED BY <2>1, <2>2
<1> QED BY <1>5, <1>8, <1>9 DEF IInv

\* IV Index Recovery.
LEMMA RecoverKeeps ==
  ASSUME IInv, NEW k \in 1..2, NEW update \in BOOLEAN, Recover(k, update)
  PROVE  IInv'
<1>1. EmptySlot \in Entry /\ EmptySlot.src = Unassigned
  BY ListAssumption DEF EmptySlot, Entry
<1>2. \A s \in Sources : /\ newest[s] \in Newest /\ newest'[s] \in Newest
                         /\ newest'[s].age = IF newest[s].age + k > 2 THEN 2 ELSE newest[s].age + k
  BY DEF Recover, Aged, IInv, TypeOK, Newest
<1>3. newest' \in [Sources -> Newest]
  BY <1>2 DEF Recover, Aged
<1>4. lost' \in [Sources -> SUBSET Causes]
  BY DEF Recover, Causes
<1>5. TypeOK'
  BY <1>1, <1>3, <1>4 DEF Recover, TypeOK
<1>6. \A s \in Sources, i \in Slots : rpl'[i].src # s
  BY <1>1, ListAssumption DEF Recover
<1>7. ASSUME NEW s \in Sources, lost'[s] = {} PROVE ~(newest'[s].age < 2)
  <2>1. ~(k = 1 /\ newest[s].age = 0)
    BY <1>7 DEF Recover
  <2> QED BY <1>2, <2>1 DEF Newest
<1> QED BY <1>5, <1>6, <1>7 DEF IInv, Sound, Recorded

LEMMA RejoinKeeps ==
  ASSUME NEW update \in BOOLEAN, Rejoin(update)
  PROVE  IInv'
<1>1. EmptySlot \in Entry /\ NotHeard \in Newest /\ EmptySlot.src = Unassigned
  BY ListAssumption DEF EmptySlot, Entry, NotHeard, Newest
<1>2. TypeOK'
  BY <1>1 DEF Rejoin, TypeOK
<1>3. \A s \in Sources, i \in Slots : rpl'[i].src # s
  BY <1>1, ListAssumption DEF Rejoin
<1>4. \A s \in Sources : ~(newest'[s].age < 2)
  BY DEF Rejoin, NotHeard
<1> QED BY <1>2, <1>3, <1>4 DEF IInv, Sound, Recorded

\* The shell's rpl-clear.
LEMMA RplClearKeeps ==
  ASSUME IInv, RplClear
  PROVE  IInv'
<1>1. EmptySlot \in Entry /\ EmptySlot.src = Unassigned
  BY ListAssumption DEF EmptySlot, Entry
<1>2. lost' \in [Sources -> SUBSET Causes]
  BY DEF RplClear, Causes
<1>3. TypeOK'
  BY <1>1, <1>2 DEF RplClear, IInv, TypeOK
<1>4. \A s \in Sources, i \in Slots : rpl'[i].src # s
  BY <1>1, ListAssumption DEF RplClear
<1>5. ASSUME NEW s \in Sources, lost'[s] = {} PROVE ~(newest'[s].age < 2)
  BY <1>5 DEF RplClear
<1> QED BY <1>3, <1>4, <1>5 DEF IInv, Sound, Recorded

LEMMA StepKeeps == IInv /\ [Next]_vars => IInv'
<1> SUFFICES ASSUME IInv, [Next]_vars PROVE IInv'
  OBVIOUS
<1>1. CASE UNCHANGED <<rpl, newest, lost>> /\ iv_update' \in BOOLEAN
  BY <1>1 DEF IInv, TypeOK, Sound, Recorded
<1>2. CASE UNCHANGED vars
  BY <1>1, <1>2 DEF vars, IInv, TypeOK
<1>3. CASE LeaveUpdate
  BY <1>1, <1>3 DEF LeaveUpdate
<1> QED BY <1>2, <1>3, AcceptKeeps, EnterUpdateKeeps, RecoverKeeps, RejoinKeeps,
           RplClearKeeps DEF Next

LEMMA Invariance == Spec => []IInv
  BY InitHolds, StepKeeps, PTL DEF Spec

-----------------------------------------------------------------------------
(***************************************************************************)
(* Replays are refused by is_replay in every reachable state, for any list *)
(* size, but for the three ways in which the list loses a record.          *)
(***************************************************************************)
THEOREM ReplayProtection == Spec => []KnownReplaysRefused
<1>1. IInv => KnownReplaysRefused
  <2> SUFFICES ASSUME IInv, NEW s \in Sources, NEW m \in Message, lost[s] = {},
                      ~Shadowed(s), ~Newer(m, newest[s]),
                      NEW i \in Slots, StopsAt(i, s)
               PROVE  rpl[i].src = s /\ Outdated(rpl[i], m)
    BY DEF KnownReplaysRefused, IsReplay
  <2>1. newest[s] \in Newest /\ newest[s].age < 2
    BY DEF IInv, TypeOK, Newest, Newer, Age
  <2>2. PICK j \in Slots : /\ rpl[j].src = s /\ Age(rpl[j]) = newest[s].age
                           /\ rpl[j].seq = newest[s].seq
    BY <2>1 DEF IInv, Recorded
  <2>3. ~(j < i) /\ ~(i < j /\ rpl[i].src = Unassigned)
    BY <2>2 DEF StopsAt, Shadowed
  <2>4. i = j \/ rpl[i].src = s
    BY <2>3 DEF Slots, StopsAt
  <2>5. i = j
    BY <2>2, <2>4 DEF IInv, Recorded
  <2> QED BY <2>1, <2>2, <2>5, OutdatedMeans DEF IInv, TypeOK
<1> QED BY <1>1, Invariance, PTL

(***************************************************************************)
(* A listed source is heard: is_replay never refuses what is newer than    *)
(* everything accepted from it, neither as a replay nor for want of room.  *)
(***************************************************************************)
THEOREM NoStarvation == Spec => []NewerAccepted
<1>1. IInv => NewerAccepted
  <2> SUFFICES ASSUME IInv, NEW s \in Sources, NEW m \in Message, Listed(s),
                      Newer(m, newest[s]), IsReplay(s, m)
               PROVE  FALSE
    BY DEF NewerAccepted
  <2>1. PICK i \in Slots : StopsAt(i, s)
    BY ScanStops
  <2>2. rpl[i].src = s /\ Outdated(rpl[i], m)
    BY <2>1 DEF IsReplay
  <2>3. ~Newer(rpl[i], newest[s]) /\ rpl[i] \in Entry /\ newest[s] \in Newest
    BY <2>2 DEF IInv, TypeOK, Sound
  <2> QED BY <2>2, <2>3, OutdatedOld
<1> QED BY <1>1, Invariance, PTL
=============================================================================
