------------------------------ MODULE SeqStore ------------------------------
(***************************************************************************)
(* How a provisioned device keeps its sequence number over power cuts      *)
(* (genie_flash.c and genie_event.c, boards TG7100B and CH6121EVB).        *)
(*                                                                         *)
(* The number is written to a log of words in the seq partition, once in   *)
(* every Interval messages; after a start the device continues Interval    *)
(* above the number it finds.  A full log is erased, with the number kept  *)
(* in the recycle partition meanwhile.  Power may fail between any two     *)
(* operations on the flash; a word is programmed, and a partition erased,  *)
(* in one piece.  Programming a word can only clear bits.                  *)
(*                                                                         *)
(* The device stays in one network and its IV index does not change.  The  *)
(* other partitions, which share the recycle partition, are left out: a    *)
(* recycling of theirs is finished before the next write or, after a power *)
(* cut, before anything else happens.                                      *)
(***************************************************************************)
EXTENDS Integers

CONSTANTS
  LogSize,        \* words in the log: 1022 in the code
  Interval,       \* CONFIG_MESH_SEQ_COUNT_INT
  MaxSeq,         \* highest sequence number: 2^24 - 1 in the code
  WordAnd(_, _)   \* bitwise AND of two words

ASSUME StoreAssumption ==
  /\ LogSize \in Nat /\ LogSize >= 2
  /\ Interval \in Nat /\ Interval >= 1
  /\ MaxSeq \in Nat

ASSUME WordAssumption ==
  \A a, b \in 0..MaxSeq : WordAnd(a, b) \in 0..MaxSeq

Cells == 1..LogSize

Blank == -1

Word == (0..MaxSeq) \cup {Blank}

\* The flag in the first word of the recycle partition.
RecycleFlag == {"origin", "invalid", "seq", "base"}

(***************************************************************************)
(* The next operation on the flash, of those that genie_flash_write_seq,   *)
(* _genie_flash_copy_seq and genie_flash_init_partition consist of.        *)
(***************************************************************************)
Operation ==
  {"none", "append", "erase recycle", "claim recycle", "save", "mark saved",
   "erase log", "mark log", "restore", "release"}

VARIABLES
  log,        \* flash: the words of the seq partition
  inited,     \* flash: the seq partition holds its flag, FLAG_INITED_SEQ
  recycle,    \* flash: flag and first word of the recycle partition
  mode,       \* "off", "boot", "on", or "reset": identity erased at start
  pc,         \* the operation under way
  arg,        \* the number it writes
  wr,         \* write_offset of g_flash_seq_ctl, in words
  rd,         \* read_offset of g_flash_seq_ctl, 0 if there is nothing to read
  seq,        \* bt_mesh.seq
  used,       \* history: the highest sequence number used, -1 if none
  slips       \* history: how the log has gone wrong

flash == <<log, inited, recycle>>
vars == <<log, inited, recycle, mode, pc, arg, wr, rd, seq, used, slips>>

-----------------------------------------------------------------------------
\* Programming word v over what a cell holds.
Programmed(old, v) == IF old = Blank THEN v ELSE WordAnd(old, v)

\* genie_flash_write_seq, up to its first operation on the flash.
WriteSeq(v) ==
  /\ pc' = IF wr' > LogSize THEN "erase recycle" ELSE "append"
  /\ arg' = v

\* The condition of _genie_event_handle_seq_update.
Due(s) == s % Interval = 0

(***************************************************************************)
(* bt_mesh_net_encode or bt_mesh_net_resend: a message takes the next      *)
(* sequence number, and genie_event stores the number that follows.        *)
(***************************************************************************)
Send ==
  /\ mode = "on" /\ pc = "none"
  /\ seq < MaxSeq
  /\ used' = IF seq > used THEN seq ELSE used
  /\ seq' = seq + 1
  /\ wr' = wr
  /\ IF Due(seq + 1) THEN WriteSeq(seq + 1) ELSE UNCHANGED <<pc, arg>>
  /\ UNCHANGED <<flash, mode, rd, slips>>

\* genie_flash_write_seq: the number goes to the end of the log.
Append ==
  /\ pc = "append"
  /\ log' = [log EXCEPT ![wr] = Programmed(@, arg)]
  /\ slips' = slips \cup IF log[wr] \in {Blank, arg} THEN {} ELSE {"overlaid"}
  /\ rd' = wr
  /\ wr' = wr + 1
  /\ pc' = "none"
  /\ UNCHANGED <<inited, recycle, mode, arg, seq, used>>

\* Operation op is done: next follows.
Done(op, next) ==
  /\ pc = op
  /\ pc' = next
  /\ UNCHANGED <<mode, arg, seq, used, slips>>

\* _genie_flash_copy_seq to the recycle partition, one operation after the other.
EraseRecycle ==
  /\ Done("erase recycle", "claim recycle")
  /\ recycle' = [flag |-> "origin", word |-> Blank]
  /\ UNCHANGED <<log, inited, wr, rd>>

ClaimRecycle ==
  /\ Done("claim recycle", "save")
  /\ recycle' = [recycle EXCEPT !.flag = "invalid"]
  /\ UNCHANGED <<log, inited, wr, rd>>

Save ==
  /\ Done("save", "mark saved")
  /\ recycle' = [recycle EXCEPT !.word = Programmed(@, arg)]
  /\ UNCHANGED <<log, inited, wr, rd>>

\* Plausible slip: the flag that announces the saved number is not written.
MarkSavedMissing ==
  /\ Done("mark saved", "erase log")
  /\ UNCHANGED <<flash, wr, rd>>

MarkSaved ==
  /\ Done("mark saved", "erase log")
  /\ recycle' = [recycle EXCEPT !.flag = "seq"]
  /\ UNCHANGED <<log, inited, wr, rd>>

(***************************************************************************)
(* genie_flash_init_partition for the seq partition, and after it the rest *)
(* of _genie_flash_copy_seq when the number is to come back from the       *)
(* recycle partition.  write_offset stays at the first word.               *)
(***************************************************************************)
EraseLog ==
  /\ Done("erase log", "mark log")
  /\ log' = [i \in Cells |-> Blank]
  /\ inited' = FALSE
  /\ wr' = 1
  /\ rd' = 0
  /\ UNCHANGED recycle

MarkLog ==
  /\ Done("mark log", IF recycle.flag = "seq" THEN "restore" ELSE "none")
  /\ inited' = TRUE
  /\ UNCHANGED <<log, recycle, wr, rd>>

Restore ==
  /\ Done("restore", "release")
  /\ log' = [log EXCEPT ![1] = Programmed(@, arg)]
  /\ UNCHANGED <<inited, recycle, wr, rd>>

Release ==
  /\ Done("release", "none")
  /\ recycle' = [recycle EXCEPT !.flag = "base"]
  /\ UNCHANGED <<log, inited, wr, rd>>

PowerCut ==
  /\ mode \in {"boot", "on"}
  /\ mode' = "off"
  /\ pc' = "none"
  /\ arg' = 0 /\ wr' = 1 /\ rd' = 0 /\ seq' = 0
  /\ UNCHANGED <<flash, used, slips>>

(***************************************************************************)
(* genie_flash_init up to genie_flash_seq_init: a number left in the       *)
(* recycle partition is brought back (genie_flash_check_recycle), and a    *)
(* seq partition without its flag is erased (_genie_flash_checkflag).      *)
(***************************************************************************)
Boot ==
  /\ mode = "off"
  /\ mode' = "boot"
  /\ pc' = IF recycle.flag = "seq" \/ ~inited THEN "erase log" ELSE "none"
  /\ arg' = IF recycle.flag = "seq" THEN recycle.word ELSE arg
  /\ UNCHANGED <<flash, wr, rd, seq, used, slips>>

\* genie_flash_seq_init: the offsets that result when the scan ends at word i.
FirstBlank(i) == log[i] = Blank /\ \A j \in Cells : j < i => log[j] # Blank

Full == \A i \in Cells : log[i] # Blank

SeqInit ==
  \/ \E i \in Cells : FirstBlank(i) /\ wr' = i /\ rd' = i - 1
  \/ Full /\ wr' = LogSize /\ rd' = LogSize - 1

\* Plausible slip: the device continues at the number it finds.
ResumeAtStored(v) == v

\* _genie_event_handle_mesh_init: where the device continues.
Resume(v) == v + Interval

(***************************************************************************)
(* genie_flash_seq_init and _genie_event_handle_mesh_init: the number is   *)
(* read, bt_mesh_provision starts the stack with it and stores it.  When   *)
(* there is none, genie_flash_reset_system erases what the device knows of *)
(* the network.  (Bound: the numbers do not run out.)                      *)
(***************************************************************************)
Load ==
  /\ mode = "boot" /\ pc = "none"
  /\ SeqInit
  /\ slips' = slips \cup IF Full THEN {"full"} ELSE {}
  /\ IF rd' = 0
       THEN mode' = "reset" /\ UNCHANGED <<seq, pc, arg>>
       ELSE /\ Resume(log[rd']) <= MaxSeq
            /\ mode' = "on"
            /\ seq' = Resume(log[rd'])
            /\ WriteSeq(seq')
  /\ UNCHANGED <<flash, used>>

Init ==
  /\ log = [i \in Cells |-> IF i = 1 THEN 0 ELSE Blank]
  /\ inited = TRUE
  /\ recycle = [flag |-> "origin", word |-> Blank]
  /\ mode = "on" /\ pc = "none" /\ arg = 0
  /\ wr = 2 /\ rd = 1 /\ seq = 0
  /\ used = -1
  /\ slips = {}

Next ==
  \/ Send \/ Append
  \/ EraseRecycle \/ ClaimRecycle \/ Save \/ MarkSaved
  \/ EraseLog \/ MarkLog \/ Restore \/ Release
  \/ PowerCut \/ Boot \/ Load

Spec == Init /\ [][Next]_vars

-----------------------------------------------------------------------------
TypeOK ==
  /\ log \in [Cells -> Word]
  /\ inited \in BOOLEAN
  /\ recycle \in [flag : RecycleFlag, word : Word]
  /\ mode \in {"off", "boot", "on", "reset"}
  /\ pc \in Operation
  /\ arg \in 0..MaxSeq
  /\ wr \in 1..LogSize + 1 /\ rd \in 0..LogSize
  /\ seq \in 0..MaxSeq
  /\ used \in -1..MaxSeq
  /\ slips \subseteq {"full", "overlaid"}

(***************************************************************************)
(* A running device sends only under sequence numbers above all it used    *)
(* before, wherever power failed and however often (write_seq, copy_seq,   *)
(* check_recycle and mesh_init together).  Two things excuse the store: a  *)
(* start with the log exactly full, where seq_init takes the last word but *)
(* one, and a write over the word that a recycling left in the log.        *)
(***************************************************************************)
KnownAhead == mode = "on" /\ slips = {} => used < seq

(***************************************************************************)
(* A provisioned device always finds a sequence number at start: no power  *)
(* cut makes it erase its keys and address (mesh_init, ">>>error<<<").     *)
(***************************************************************************)
IdentityKept == mode # "reset"
=============================================================================
