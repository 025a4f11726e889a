----------------------------- MODULE CellStore -----------------------------
(***************************************************************************)
(* The store of indexed cells in a flash partition (genie_flash.c).  A     *)
(* write appends a cell and then retires the one it replaces; when no room *)
(* is left the live cells are copied to the recycle partition and back.    *)
(*                                                                         *)
(* Every operation on the flash is a step of its own and power may fail    *)
(* between any two of them; the operation itself, a header, a block of     *)
(* data, a flag or an erase, happens in one piece.  Cells have one size, a *)
(* slot, and Slots of them leave a few bytes of the partition blank, which *)
(* is so for the sizes the system partition is used with.  The operations  *)
(* on the flash do not fail, and one thread uses the store.                *)
(***************************************************************************)
EXTENDS Integers, Sequences, FiniteSets

CONSTANTS
  Index,      \* the indices, GFI_MESH_PARA and so on
  Tri,        \* GFI_MESH_TRITUPLE, what tells this device from all others
  Value,      \* contents of a cell
  None,       \* no contents
  Torn,       \* contents not yet written
  Slots       \* cells that fit a partition

ASSUME CellAssumption ==
  /\ Tri \in Index
  /\ None \notin Value /\ Torn \notin Value /\ None # Torn
  /\ Slots \in Nat /\ Slots >= 2

Cell == [flag : {"writing", "active", "invalid"},
         index : Index, value : Value \cup {Torn}]

\* The next operation on the flash.
Operation ==
  {"none", "header", "data", "activate", "retire",
   "erase recycle", "claim recycle", "save header", "save data",
   "backup header", "backup data", "mark saved",
   "erase part", "mark part", "restore header", "restore data", "release"}

VARIABLES
  part,       \* flash: the cells of the partition
  inited,     \* flash: the partition holds its flag
  rcells,     \* flash: the cells of the recycle partition
  rflag,      \* flash: the flag of the recycle partition
  mode,       \* "off", "boot", "on"
  pc,         \* the operation under way
  job,        \* index and value of the write under way
  old,        \* the cell this write replaces, 0 if none
  at,         \* the cell of the source that is copied next
  tri,        \* the tri tuple that a reset writes back, None otherwise
  remain,     \* remain of g_info_system, in slots
  free,       \* free_offset of g_info_system: a slot
  hit         \* history: power failed while a reset held the tri tuple

flash == <<part, inited, rcells, rflag>>
info == <<remain, free>>
call == <<job, old, at>>
vars == <<part, inited, rcells, rflag, mode, pc, job, old, at, tri, remain,
          free, hit>>

-----------------------------------------------------------------------------
Active(cells, i) ==
  {n \in 1..Len(cells) : cells[n].flag = "active" /\ cells[n].index = i}

First(S) == CHOOSE n \in S : \A k \in S : n <= k

\* _genie_flash_search: the first active cell of index i, 0 if none.
Search(cells, i) ==
  IF Active(cells, i) = {} THEN 0 ELSE First(Active(cells, i))

\* _genie_flash_read.
Read(cells, i) ==
  IF Search(cells, i) = 0 THEN None ELSE cells[Search(cells, i)].value

Live(cells) == {n \in 1..Len(cells) : cells[n].flag = "active"}

\* _genie_flash_check_remain for a partition with these cells.
CheckRemain(cells) ==
  /\ remain' = Slots - Cardinality(Live(cells))
  /\ free' = Len(cells) + 1

SetFlag(cells, n, f) == [cells EXCEPT ![n].flag = f]

Header(f, i) == [flag |-> f, index |-> i, value |-> Torn]

WithData(cells, v) == [cells EXCEPT ![Len(cells)].value = v]

(***************************************************************************)
(* _genie_flash_write up to its first operation on the flash.  Without     *)
(* space it returns an error.                                              *)
(***************************************************************************)
StartWrite(cells, i, v) ==
  /\ job' = [index |-> i, value |-> v]
  /\ IF free > Slots
       THEN pc' = "erase recycle" /\ UNCHANGED old
       ELSE pc' = "header" /\ old' = Search(cells, i)

Idle == mode = "on" /\ pc = "none"

\* Plausible slip: the space that is left is not looked at.
WriteUnchecked(i, v) ==
  /\ Idle
  /\ StartWrite(part, i, v)
  /\ UNCHANGED <<flash, mode, at, tri, info, hit>>

Write(i, v) ==
  /\ Idle
  /\ remain >= 1
  /\ StartWrite(part, i, v)
  /\ UNCHANGED <<flash, mode, at, tri, info, hit>>

\* The operations of a write; the free slot is the one after the last cell.
WriteHeader ==
  /\ pc = "header"
  /\ part' = Append(part, Header("writing", job.index))
  /\ pc' = "data"
  /\ UNCHANGED <<inited, rcells, rflag, mode, call, tri, info, hit>>

WriteData ==
  /\ pc = "data"
  /\ part' = WithData(part, job.value)
  /\ pc' = "activate"
  /\ UNCHANGED <<inited, rcells, rflag, mode, call, tri, info, hit>>

Activate ==
  /\ pc = "activate"
  /\ part' = SetFlag(part, Len(part), "active")
  /\ remain' = remain - 1
  /\ free' = free + 1
  /\ IF old = 0
       THEN pc' = "none" /\ tri' = None
       ELSE pc' = "retire" /\ UNCHANGED tri
  /\ UNCHANGED <<inited, rcells, rflag, mode, call, hit>>

\* Plausible slip: two cells are given back for one.
RetireTwo ==
  /\ pc = "retire"
  /\ part' = SetFlag(part, old, "invalid")
  /\ remain' = remain + 2
  /\ pc' = "none"
  /\ tri' = None
  /\ UNCHANGED <<inited, rcells, rflag, mode, call, free, hit>>

\* _genie_flash_delete_flag on the old cell.
Retire ==
  /\ pc = "retire"
  /\ part' = SetFlag(part, old, "invalid")
  /\ remain' = remain + 1
  /\ pc' = "none"
  /\ tri' = None
  /\ UNCHANGED <<inited, rcells, rflag, mode, call, free, hit>>

\* _genie_flash_delete; remain is not touched.  The tri tuple is never deleted.
Delete(i) ==
  /\ Idle
  /\ i # Tri
  /\ Search(part, i) # 0
  /\ part' = SetFlag(part, Search(part, i), "invalid")
  /\ UNCHANGED <<inited, rcells, rflag, mode, pc, call, tri, info, hit>>

-----------------------------------------------------------------------------
\* Operation op of _genie_flash_copy is done: next follows.
Done(op, next) ==
  /\ pc = op
  /\ pc' = next
  /\ UNCHANGED <<mode, job, old, tri, hit>>

\* Plausible slip: also the cells of the index that is written anew.
KeepAll(cells, i) == Live(cells)

\* Cells that _genie_flash_copy takes over when index i is written anew.
Keep(cells, i) == {n \in Live(cells) : cells[n].index # i}

\* The cell after n that is copied, 0 if there is none.
After(S, n) ==
  IF \E k \in S : k > n THEN First({k \in S : k > n}) ELSE 0

\* _genie_flash_copy from the partition to the recycle partition.
EraseRecycle ==
  /\ Done("erase recycle", "claim recycle")
  /\ rcells' = <<>> /\ rflag' = "origin"
  /\ UNCHANGED <<part, inited, at, info>>

ClaimRecycle ==
  /\ Done("claim recycle", "save header")
  /\ rflag' = "invalid"
  /\ UNCHANGED <<part, inited, rcells, at, info>>

SaveHeader ==
  /\ Done("save header", "save data")
  /\ rcells' = Append(rcells, Header("active", job.index))
  /\ UNCHANGED <<part, inited, rflag, at, info>>

\* Where a backup goes on after cell n.
BackupAfter(n) ==
  /\ at' = After(Keep(part, job.index), n)
  /\ pc' = IF at' = 0 THEN "mark saved" ELSE "backup header"

SaveData ==
  /\ pc = "save data"
  /\ rcells' = WithData(rcells, job.value)
  /\ BackupAfter(0)
  /\ UNCHANGED <<part, inited, rflag, mode, job, old, tri, info, hit>>

BackupHeader ==
  /\ Done("backup header", "backup data")
  /\ rcells' = Append(rcells, Header("active", part[at].index))
  /\ UNCHANGED <<part, inited, rflag, at, info>>

BackupData ==
  /\ pc = "backup data"
  /\ rcells' = WithData(rcells, part[at].value)
  /\ BackupAfter(at)
  /\ UNCHANGED <<part, inited, rflag, mode, job, old, tri, info, hit>>

\* Plausible slip: the partition is erased before its copy is announced.
MarkSavedLate ==
  /\ Done("mark saved", "erase part")
  /\ UNCHANGED <<flash, at, info>>

MarkSaved ==
  /\ Done("mark saved", "erase part")
  /\ rflag' = "saved"
  /\ UNCHANGED <<part, inited, rcells, at, info>>

(***************************************************************************)
(* genie_flash_init_partition, for a reset, a partition without its flag   *)
(* at start, and as the first step of the copy back.                       *)
(***************************************************************************)
ErasePart ==
  /\ Done("erase part", "mark part")
  /\ part' = <<>> /\ inited' = FALSE
  /\ remain' = Slots /\ free' = 1
  /\ UNCHANGED <<rcells, rflag, at>>

MarkPart ==
  /\ pc = "mark part"
  /\ inited' = TRUE
  /\ IF rflag = "saved"
       THEN /\ at' = First(Live(rcells)) /\ pc' = "restore header"
            /\ UNCHANGED <<job, old>>
       ELSE /\ UNCHANGED at
            /\ IF tri # None THEN StartWrite(<<>>, Tri, tri)
               ELSE pc' = "none" /\ UNCHANGED <<job, old>>
  /\ UNCHANGED <<part, rcells, rflag, mode, tri, info, hit>>

\* _genie_flash_copy from the recycle partition back.
RestoreHeader ==
  /\ Done("restore header", "restore data")
  /\ part' = Append(part, Header("active", rcells[at].index))
  /\ UNCHANGED <<inited, rcells, rflag, at, info>>

RestoreData ==
  /\ pc = "restore data"
  /\ part' = WithData(part, rcells[at].value)
  /\ at' = After(Live(rcells), at)
  /\ pc' = IF at' = 0 THEN "release" ELSE "restore header"
  /\ UNCHANGED <<inited, rcells, rflag, mode, job, old, tri, info, hit>>

\* The recycle partition is given up, and _genie_flash_write counts anew.
Release ==
  /\ Done("release", "none")
  /\ rflag' = "base"
  /\ CheckRemain(part)
  /\ UNCHANGED <<part, inited, rcells, at>>

(***************************************************************************)
(* genie_flash_reset_system: the tri tuple is read, the partition erased,  *)
(* and the tri tuple written again.                                        *)
(***************************************************************************)
ResetSystem ==
  /\ Idle
  /\ tri' = Read(part, Tri)
  /\ pc' = "erase part"
  /\ UNCHANGED <<flash, mode, call, info, hit>>

-----------------------------------------------------------------------------
PowerCut ==
  /\ mode # "off"
  /\ mode' = "off" /\ pc' = "none"
  /\ job' = [index |-> Tri, value |-> None] /\ old' = 0 /\ at' = 0
  /\ tri' = None /\ remain' = 0 /\ free' = 0
  /\ hit' = (hit \/ (tri # None /\ pc # "erase part"))
  /\ UNCHANGED flash

\* genie_flash_init: genie_flash_check_recycle, then _genie_flash_checkflag.
Boot ==
  /\ mode = "off"
  /\ mode' = "boot"
  /\ pc' = IF rflag = "saved" \/ ~inited THEN "erase part" ELSE "none"
  /\ UNCHANGED <<flash, call, tri, info, hit>>

\* genie_flash_init: _genie_flash_check_remain.
Booted ==
  /\ mode = "boot" /\ pc = "none"
  /\ mode' = "on"
  /\ CheckRemain(part)
  /\ UNCHANGED <<flash, pc, call, tri, hit>>

\* A device that has left the factory with its tri tuple is switched on.
Init ==
  /\ \E v \in Value :
       part = <<[flag |-> "active", index |-> Tri, value |-> v]>>
  /\ inited = TRUE
  /\ rcells = <<>> /\ rflag = "origin"
  /\ mode = "off" /\ pc = "none"
  /\ job = [index |-> Tri, value |-> None] /\ old = 0 /\ at = 0
  /\ tri = None /\ remain = 0 /\ free = 0
  /\ hit = FALSE

Next ==
  \/ \E i \in Index : Delete(i) \/ \E v \in Value : Write(i, v)
  \/ WriteHeader \/ WriteData \/ Activate \/ Retire
  \/ EraseRecycle \/ ClaimRecycle \/ SaveHeader \/ SaveData
  \/ BackupHeader \/ BackupData \/ MarkSaved
  \/ ErasePart \/ MarkPart \/ RestoreHeader \/ RestoreData \/ Release
  \/ ResetSystem \/ PowerCut \/ Boot \/ Booted

Spec == Init /\ [][Next]_vars

-----------------------------------------------------------------------------
\* The type invariant; remain and free, counted in RAM, stay within the partition.
TypeOK ==
  /\ part \in Seq(Cell) /\ rcells \in Seq(Cell)
  /\ inited \in BOOLEAN
  /\ rflag \in {"origin", "invalid", "saved", "base"}
  /\ mode \in {"off", "boot", "on"}
  /\ pc \in Operation
  /\ job \in [index : Index, value : Value \cup {None}]
  /\ old \in 0..Slots /\ at \in 0..Slots
  /\ tri \in Value \cup {None}
  /\ remain \in 0..Slots /\ free \in 0..Slots + 1
  /\ hit \in BOOLEAN

\* Where the contents are: a copy that is marked as saved counts, nothing else.
Contents == IF rflag = "saved" THEN rcells ELSE part

Stored == [i \in Index |-> Read(Contents, i)]

\* Active cells of index i, but for one that replaces an old one yet to be retired.
Settled(i) ==
  IF pc = "retire" /\ job.index = i THEN Active(Contents, i) \ {Len(Contents)}
  ELSE Active(Contents, i)

\* Values of active cells that a search does not get to.
Under == [i \in Index |->
  {Contents[n].value : n \in Settled(i) \ {Search(Contents, i)}}]

\* The call under way, up to the step in which it takes effect and after it.
Request ==
  IF mode # "on" THEN <<"down", None, None>>
  ELSE IF pc = "none" THEN <<"idle", None, None>>
  ELSE IF pc \in {"erase part", "mark part", "restore header", "restore data", "release"}
    THEN IF rflag = "saved" \/ (pc = "mark part" /\ tri = None)
           THEN <<"tidy", None, None>>
           ELSE <<IF pc = "mark part" THEN "write" ELSE "reset", Tri, tri>>
  ELSE <<"write", job.index, job.value>>

Abstract == INSTANCE KeyValueStore WITH store <- Stored, hidden <- Under, req <- Request

(***************************************************************************)
(* Wherever power fails, also during a recycling or the recovery from one, *)
(* only the call under way changes what is read, at its own index, in one  *)
(* step and to the value it was given: a recycling, a start, or a deletion *)
(* elsewhere loses and changes nothing.  The one weakness is the one that  *)
(* KeyValueStore states (_genie_flash_write, _genie_flash_recycle,         *)
(* genie_flash_check_recycle, genie_flash_reset_system).                   *)
(***************************************************************************)
ActsAsStore == Abstract!Spec

(***************************************************************************)
(* Neither partition is ever asked to hold more cells than fit: remain,    *)
(* checked once before a write, covers what a recycling copies, for all    *)
(* that deletions and power cuts leave behind.                             *)
(***************************************************************************)
Fits == Len(part) <= Slots /\ Len(rcells) <= Slots

(***************************************************************************)
(* The tri tuple outlives every power cut, except one that falls between   *)
(* the erase in genie_flash_reset_system and the write that brings it back.*)
(***************************************************************************)
TritupleKept == mode = "on" /\ pc = "none" /\ ~hit => Stored[Tri] \in Value
=============================================================================
