-------------------------- MODULE CellStoreProofs --------------------------
(***************************************************************************)
(* Proofs about CellStore, for any set of indices and values and any size  *)
(* of the partitions: neither overflows, the tri tuple is kept, and the    *)
(* cells implement KeyValueStore.                                          *)
(*                                                                         *)
(* The argument: what the partition and its copy hold is related at every  *)
(* operation of a recycling, so that the one flag that switches from the   *)
(* partition to the copy, and the one that switches back, change in one    *)
(* step what a reader would find, or nothing.                              *)
(***************************************************************************)
EXTENDS CellStore, FiniteSetTheorems, SequenceTheorems, WellFoundedInduction, TLAPS

Writing == {"header", "data", "activate"}

Copying == {"erase recycle", "claim recycle", "save header", "save data",
            "backup header", "backup data", "mark saved"}

Emptying == {"erase part", "mark part"}

Restoring == {"restore header", "restore data", "release"}

\* Which operations happen in which mode, and under which flag.
Control ==
  /\ mode = "off" => pc = "none"
  /\ mode = "boot" => pc \in {"none"} \cup Emptying \cup Restoring
  /\ rflag = "saved" => mode = "off" \/ pc \in Emptying \cup Restoring
  /\ pc \in Restoring => rflag = "saved"
  /\ mode = "boot" /\ pc = "erase part" /\ rflag # "saved" => ~inited
  /\ ~inited => part = <<>> /\ (mode = "off" \/ pc \in Emptying)
  /\ pc = "mark part" => part = <<>> /\ remain = Slots /\ free = 1

\* The tri tuple that a reset holds.
Held ==
  /\ tri # None =>
       /\ mode = "on" /\ rflag # "saved"
       /\ pc \in Emptying \cup Writing
       /\ pc \in Writing => job = [index |-> Tri, value |-> tri] /\ old = 0
  /\ mode = "on" /\ pc = "erase part" /\ rflag # "saved" => tri = Read(part, Tri)

\* All that is written can be read.
Readable ==
  /\ rflag # "saved" =>
       \A n \in 1..Len(part) : part[n].flag = "active" => part[n].value \in Value
  /\ \A n \in 1..Len(rcells) : rcells[n].flag = "active"
  /\ rflag = "saved" =>
       /\ Len(rcells) >= 1
       /\ \A n \in 1..Len(rcells) : rcells[n].value \in Value

\* The write under way.
Job ==
  /\ pc \in Writing \cup {"retire"} \cup Copying => mode = "on" /\ job.value \in Value
  /\ pc \in Writing => old = Search(part, job.index)
  /\ pc \in {"data", "activate"} =>
       /\ Len(part) >= 1
       /\ part[Len(part)].flag = "writing" /\ part[Len(part)].index = job.index
  /\ pc = "activate" => part[Len(part)].value = job.value
  /\ pc = "retire" =>
       /\ Len(part) >= 1 /\ old # Len(part) /\ old = Search(part, job.index) /\ old # 0
       /\ part[Len(part)] = [flag |-> "active", index |-> job.index, value |-> job.value]

\* What is counted in RAM covers the cells.
Counted ==
  mode = "on" =>
    /\ pc \in {"none", "header", "retire"} \cup Copying => free = Len(part) + 1
    /\ pc \in {"data", "activate"} => free = Len(part)
    /\ pc \in {"none", "retire"} \cup Writing \cup Copying =>
         remain + Cardinality(Live(part)) <= Slots
    /\ pc \in Writing \cup Copying => remain >= 1
    /\ pc \in Writing => free <= Slots

Upto(S, b) == {k \in S : k <= b}

Values(c, S) == {c[k].value : k \in S}

\* The values of the cells of S but the first.
Rest(c, S) == Values(c, S \ {First(S)})

(***************************************************************************)
(* The first n cells of r are the cell of job j and the copy of those      *)
(* cells of c, up to b, that are kept.                                     *)
(***************************************************************************)
Copy(c, r, j, b, n) ==
  /\ n >= 1 /\ n <= Len(r)
  /\ r[1].value = j.value
  /\ n = 1 + Cardinality(Upto(Keep(c, j.index), b))
  /\ \A k \in 1..n : r[k].value \in Value
  /\ \A k \in 1..n : r[k].index = j.index <=> k = 1
  /\ \A i \in Index \ {j.index} :
       LET P == Upto(Active(c, i), b)
           R == Upto(Active(r, i), n)
       IN  /\ P = {} <=> R = {}
           /\ P # {} => r[First(R)].value = c[First(P)].value
           /\ Rest(c, P) = Rest(r, R)

Copied(b, n) == Copy(part, rcells, job, b, n)

Backup ==
  /\ pc \in {"claim recycle", "save header"} => rcells = <<>>
  /\ pc = "save data" => Len(rcells) = 1 /\ rcells[1].index = job.index
  /\ pc \in {"backup header", "backup data"} => at \in Keep(part, job.index)
  /\ pc = "backup header" => Copied(at - 1, Len(rcells))
  /\ pc = "backup data" =>
       /\ Copied(at - 1, Len(rcells) - 1)
       /\ rcells[Len(rcells)].index = part[at].index
  /\ pc = "mark saved" => Copied(Len(part), Len(rcells))

\* The first n cells are back in the partition.
Restored(n) == n <= Len(rcells) /\ \A k \in 1..n : part[k] = rcells[k]

Restore ==
  /\ pc = "restore header" =>
       /\ at \in 1..Len(rcells)
       /\ Len(part) = at - 1 /\ Restored(at - 1)
  /\ pc = "restore data" =>
       /\ at \in 1..Len(rcells)
       /\ Len(part) = at /\ Restored(at - 1)
       /\ part[at].flag = "active" /\ part[at].index = rcells[at].index
  /\ pc = "release" => Len(part) = Len(rcells) /\ Restored(Len(part))

\* Where the tri tuple is.
TriSomewhere ==
  ~hit => \/ Stored[Tri] \in Value
          \/ /\ mode = "on" /\ rflag # "saved" /\ tri \in Value
             /\ pc \in {"mark part"} \cup Writing

IInv ==
  /\ TypeOK /\ Fits
  /\ Control /\ Held /\ Readable /\ Job /\ Counted /\ Backup /\ Restore
  /\ TriSomewhere
-----------------------------------------------------------------------------
(***************************************************************************)
(* The operators of the model, first the scan for a cell.                  *)
(***************************************************************************)
\* A nonempty set of naturals has a least element.
LEMMA LeastElement ==
  ASSUME NEW T, T \subseteq Nat, T # {}
  PROVE  \E x \in T : \A y \in T : x <= y
<1> DEFINE R == {p \in Nat \X Nat : p[1] < p[2]}
<1>1. IsWellFoundedOn(R, Nat)
  <2>1. OpToRel(<, Nat) = R
    BY DEF OpToRel
  <2> QED BY <2>1, NatLessThanWellFounded
<1>2. PICK x \in T : \A y \in T : ~(<<y, x>> \in R)
  <2> HIDE DEF R
  <2> QED BY <1>1, WFMin
<1>3. ASSUME NEW y \in T PROVE x <= y
  <2>1. x \in Nat /\ y \in Nat
    OBVIOUS
  <2>2. y < x => <<y, x>> \in R
    BY <2>1
  <2>3. ~(y < x)
    BY <1>2, <2>2
  <2> QED BY <2>1, <2>3
<1> QED BY <1>2, <1>3

LEMMA FirstIsLeast ==
  ASSUME NEW S, S \subseteq Nat, S # {}
  PROVE  First(S) \in S /\ \A k \in S : First(S) <= k
<1>1. \E n \in S : \A k \in S : n <= k
  BY LeastElement
<1> QED BY <1>1 DEF First

LEMMA LeastIsFirst ==
  ASSUME NEW S, S \subseteq Nat, NEW n \in S, \A k \in S : n <= k
  PROVE  First(S) = n
<1>1. First(S) \in S /\ \A k \in S : First(S) <= k
  BY FirstIsLeast
<1>2. First(S) \in Nat /\ n \in Nat
  BY <1>1
<1>3. First(S) <= n /\ n <= First(S)
  BY <1>1
<1> QED BY <1>2, <1>3

\* The sets of cells.
LEMMA CellSets ==
  ASSUME NEW c \in Seq(Cell), NEW i
  PROVE  /\ Len(c) \in Nat
         /\ Active(c, i) \subseteq Live(c) /\ Live(c) \subseteq 1..Len(c)
         /\ Keep(c, i) \subseteq Live(c) /\ Live(c) \subseteq Nat
         /\ \A n \in 1..Len(c) : c[n] \in Cell
         /\ Active(c, i) \subseteq Nat /\ Keep(c, i) \subseteq Nat
<1>1. Len(c) \in Nat /\ \A n \in 1..Len(c) : c[n] \in Cell
  BY LenProperties, ElementOfSeq
<1> QED BY <1>1 DEF Active, Live, Keep

LEMMA CellCards ==
  ASSUME NEW c \in Seq(Cell), NEW i
  PROVE  /\ IsFiniteSet(Live(c)) /\ Cardinality(Live(c)) \in Nat
         /\ Cardinality(Live(c)) <= Len(c)
         /\ IsFiniteSet(Active(c, i)) /\ Cardinality(Active(c, i)) \in Nat
         /\ IsFiniteSet(Keep(c, i)) /\ Cardinality(Keep(c, i)) \in Nat
         /\ Cardinality(Keep(c, i)) <= Cardinality(Live(c))
<1>1. Len(c) \in Nat
  BY CellSets
<1>2. IsFiniteSet(1..Len(c)) /\ Cardinality(1..Len(c)) = Len(c)
  BY <1>1, FS_Interval
<1>3. IsFiniteSet(Live(c)) /\ Cardinality(Live(c)) <= Len(c)
  BY <1>2, CellSets, FS_Subset
<1>4. IsFiniteSet(Active(c, i)) /\ IsFiniteSet(Keep(c, i))
  BY <1>3, CellSets, FS_Subset
<1>5. Cardinality(Keep(c, i)) <= Cardinality(Live(c))
  BY <1>3, CellSets, FS_Subset
<1> QED BY <1>3, <1>4, <1>5, FS_CardinalityType

LEMMA SearchFinds ==
  ASSUME NEW c \in Seq(Cell), NEW i
  PROVE  /\ Search(c, i) = 0 <=> Active(c, i) = {}
         /\ Active(c, i) # {} =>
              /\ Search(c, i) \in Active(c, i)
              /\ \A k \in Active(c, i) : Search(c, i) <= k
         /\ Search(c, i) \in 0..Len(c)
<1>1. Active(c, i) \subseteq 1..Len(c) /\ Active(c, i) \subseteq Nat /\ Len(c) \in Nat
  BY CellSets
<1>2. CASE Active(c, i) = {}
  BY <1>1, <1>2 DEF Search
<1>3. CASE Active(c, i) # {}
  <2>1. Search(c, i) = First(Active(c, i))
    BY <1>3 DEF Search
  <2>2. /\ First(Active(c, i)) \in Active(c, i)
        /\ \A k \in Active(c, i) : First(Active(c, i)) <= k
    BY <1>1, <1>3, FirstIsLeast
  <2>3. First(Active(c, i)) \in 1..Len(c)
    BY <1>1, <2>2
  <2>4. Search(c, i) # 0 /\ Search(c, i) \in 0..Len(c)
    BY <1>1, <2>1, <2>3
  <2> QED BY <1>3, <2>1, <2>2, <2>4
<1> QED BY <1>2, <1>3

\* What decides what is read.
LEMMA SameRead ==
  ASSUME NEW c \in Seq(Cell), NEW d \in Seq(Cell), NEW i, Active(c, i) = Active(d, i),
         \A n \in Active(c, i) : c[n].value = d[n].value
  PROVE  Search(c, i) = Search(d, i) /\ Read(c, i) = Read(d, i)
<1>1. Search(c, i) = Search(d, i)
  BY DEF Search
<1>2. CASE Search(c, i) = 0
  BY <1>1, <1>2 DEF Read
<1>3. CASE Search(c, i) # 0
  <2>1. Search(c, i) \in Active(c, i)
    BY <1>3, SearchFinds
  <2> QED BY <1>1, <1>3, <2>1 DEF Read
<1> QED BY <1>1, <1>2, <1>3

LEMMA ReadOne ==
  ASSUME NEW c \in Seq(Cell), NEW i, NEW n \in Active(c, i),
         \A k \in Active(c, i) : n <= k
  PROVE  Search(c, i) = n /\ Read(c, i) = c[n].value
<1>1. Active(c, i) # {} /\ Active(c, i) \subseteq Nat
  BY CellSets
<1>2. Search(c, i) = n
  BY <1>1, LeastIsFirst DEF Search
<1>3. n # 0
  BY <1>1, <1>2, SearchFinds
<1> QED BY <1>2, <1>3 DEF Read

-----------------------------------------------------------------------------
\* A cell is appended.
LEMMA AppendCell ==
  ASSUME NEW c \in Seq(Cell), NEW f \in {"writing", "active", "invalid"}, NEW j \in Index
  PROVE  LET d == Append(c, Header(f, j))
         IN  /\ d \in Seq(Cell) /\ Len(d) = Len(c) + 1
             /\ \A n \in 1..Len(c) : d[n] = c[n]
             /\ d[Len(c) + 1] = [flag |-> f, index |-> j, value |-> Torn]
<1>1. Header(f, j) \in Cell
  BY DEF Header, Cell
<1> QED BY <1>1, AppendProperties DEF Header

\* The last cell gets its data.
LEMMA DataCell ==
  ASSUME NEW c \in Seq(Cell), Len(c) >= 1, NEW v \in Value \cup {Torn}
  PROVE  LET d == WithData(c, v)
         IN  /\ d \in Seq(Cell) /\ Len(d) = Len(c)
             /\ \A n \in 1..Len(c) : n # Len(c) => d[n] = c[n]
             /\ d[Len(c)] = [flag |-> c[Len(c)].flag, index |-> c[Len(c)].index, value |-> v]
<1> DEFINE l == Len(c)
           e == [flag |-> c[l].flag, index |-> c[l].index, value |-> v]
<1>1. l \in Nat /\ l \in 1..l /\ c[l] \in Cell
  BY CellSets
<1>2. e = [c[l] EXCEPT !.value = v] /\ e \in Cell
  BY <1>1 DEF Cell
<1>3. WithData(c, v) = [c EXCEPT ![l] = e]
  BY <1>1, <1>2 DEF WithData
<1> HIDE DEF e, l
<1>4. /\ [c EXCEPT ![l] = e] \in Seq(Cell) /\ Len([c EXCEPT ![l] = e]) = Len(c)
      /\ \A j \in 1..Len(c) : [c EXCEPT ![l] = e][j] = IF j = l THEN e ELSE c[j]
  BY <1>1, <1>2, ExceptSeq DEF l
<1> QED BY <1>1, <1>3, <1>4 DEF e, l

\* The flag of a cell is set.
LEMMA FlagCell ==
  ASSUME NEW c \in Seq(Cell), NEW k \in 1..Len(c), NEW f \in {"writing", "active", "invalid"}
  PROVE  LET d == SetFlag(c, k, f)
         IN  /\ d \in Seq(Cell) /\ Len(d) = Len(c)
             /\ \A n \in 1..Len(c) : n # k => d[n] = c[n]
             /\ d[k] = [flag |-> f, index |-> c[k].index, value |-> c[k].value]
<1> DEFINE e == [flag |-> f, index |-> c[k].index, value |-> c[k].value]
<1>1. c[k] \in Cell
  BY CellSets
<1>2. e = [c[k] EXCEPT !.flag = f] /\ e \in Cell
  BY <1>1 DEF Cell
<1>3. SetFlag(c, k, f) = [c EXCEPT ![k] = e]
  BY <1>1, <1>2 DEF SetFlag
<1> HIDE DEF e
<1>4. /\ [c EXCEPT ![k] = e] \in Seq(Cell) /\ Len([c EXCEPT ![k] = e]) = Len(c)
      /\ \A j \in 1..Len(c) : [c EXCEPT ![k] = e][j] = IF j = k THEN e ELSE c[j]
  BY <1>2, ExceptSeq
<1> QED BY <1>3, <1>4 DEF e
\* A header that is not yet active changes nothing that is read.
LEMMA WritingSets ==
  ASSUME NEW c \in Seq(Cell), NEW j \in Index
  PROVE  LET d == Append(c, Header("writing", j))
         IN  /\ Live(d) = Live(c)
             /\ \A i : Active(d, i) = Active(c, i) /\ Search(d, i) = Search(c, i)
                       /\ Read(d, i) = Read(c, i)
<1> DEFINE d == Append(c, Header("writing", j))
<1>0. /\ d \in Seq(Cell) /\ Len(d) = Len(c) + 1
      /\ \A n \in 1..Len(c) : d[n] = c[n]
      /\ d[Len(c) + 1] = [flag |-> "writing", index |-> j, value |-> Torn]
  BY AppendCell
<1> HIDE DEF d
<1>1. /\ d \in Seq(Cell) /\ Len(d) = Len(c) + 1 /\ Len(c) \in Nat
      /\ \A n \in 1..Len(c) : d[n] = c[n]
      /\ d[Len(c) + 1].flag = "writing"
  BY <1>0, CellSets
<1>2. \A n \in 1..Len(d) : n \in 1..Len(c) \/ n = Len(c) + 1
  BY <1>1
<1>3. 1..Len(c) \subseteq 1..Len(d)
  BY <1>1
<1>4. Live(d) = Live(c) /\ \A i : Active(d, i) = Active(c, i)
  BY <1>1, <1>2, <1>3 DEF Live, Active
<1>5. ASSUME NEW i PROVE Search(d, i) = Search(c, i) /\ Read(d, i) = Read(c, i)
  <2>1. \A n \in Active(c, i) : d[n].value = c[n].value
    BY <1>1 DEF Active
  <2> QED BY <1>1, <1>4, <2>1, SameRead
<1> QED BY <1>4, <1>5 DEF d

\* One that is active at once is one cell more of its index.
LEMMA ActiveSets ==
  ASSUME NEW c \in Seq(Cell), NEW j \in Index
  PROVE  LET d == Append(c, Header("active", j))
         IN  \A i : Active(d, i) = IF i = j THEN Active(c, i) \cup {Len(c) + 1}
                                           ELSE Active(c, i)
<1> DEFINE d == Append(c, Header("active", j))
<1>0. /\ d \in Seq(Cell) /\ Len(d) = Len(c) + 1
      /\ \A n \in 1..Len(c) : d[n] = c[n]
      /\ d[Len(c) + 1] = [flag |-> "active", index |-> j, value |-> Torn]
  BY AppendCell
<1> HIDE DEF d
<1>1. /\ d \in Seq(Cell) /\ Len(d) = Len(c) + 1 /\ Len(c) \in Nat
      /\ \A n \in 1..Len(c) : d[n] = c[n]
      /\ d[Len(c) + 1].flag = "active" /\ d[Len(c) + 1].index = j
  BY <1>0, CellSets
<1>2. \A n : n \in 1..Len(d) <=> n \in 1..Len(c) \/ n = Len(c) + 1
  BY <1>1
<1>3. ASSUME NEW i
      PROVE  Active(d, i) = IF i = j THEN Active(c, i) \cup {Len(c) + 1} ELSE Active(c, i)
  BY <1>1, <1>2 DEF Active
<1> QED BY <1>3 DEF d

\* Data changes what is read only where the last cell is the one that is found.
LEMMA DataSets ==
  ASSUME NEW c \in Seq(Cell), Len(c) >= 1, NEW v \in Value \cup {Torn}
  PROVE  LET d == WithData(c, v)
         IN  /\ Live(d) = Live(c)
             /\ \A i : Active(d, i) = Active(c, i)
             /\ \A i : Len(c) \notin Active(c, i) =>
                         Search(d, i) = Search(c, i) /\ Read(d, i) = Read(c, i)
<1> DEFINE d == WithData(c, v)
<1>0. /\ d \in Seq(Cell) /\ Len(d) = Len(c)
      /\ \A n \in 1..Len(c) : n # Len(c) => d[n] = c[n]
      /\ d[Len(c)] = [flag |-> c[Len(c)].flag, index |-> c[Len(c)].index, value |-> v]
  BY DataCell
<1> HIDE DEF d
<1>1. /\ d \in Seq(Cell) /\ Len(d) = Len(c) /\ Len(c) \in Nat
      /\ \A n \in 1..Len(c) : n # Len(c) => d[n] = c[n]
      /\ d[Len(c)].flag = c[Len(c)].flag /\ d[Len(c)].index = c[Len(c)].index
  BY <1>0, CellSets
<1>2. \A n \in 1..Len(c) : d[n].flag = c[n].flag /\ d[n].index = c[n].index
  BY <1>1
<1>3. Live(d) = Live(c) /\ \A i : Active(d, i) = Active(c, i)
  BY <1>1, <1>2 DEF Live, Active
<1>4. ASSUME NEW i, Len(c) \notin Active(c, i)
      PROVE  Search(d, i) = Search(c, i) /\ Read(d, i) = Read(c, i)
  <2>1. \A n \in Active(c, i) : d[n].value = c[n].value
    BY <1>1, <1>4 DEF Active
  <2> QED BY <1>1, <1>3, <2>1, SameRead
<1> QED BY <1>3, <1>4 DEF d

LEMMA FlagActive ==
  ASSUME NEW c \in Seq(Cell), NEW k \in 1..Len(c)
  PROVE  LET d == SetFlag(c, k, "active")
         IN  /\ Live(d) = Live(c) \cup {k}
             /\ \A i : Active(d, i) = IF i = c[k].index THEN Active(c, i) \cup {k}
                                                        ELSE Active(c, i)
<1> DEFINE d == SetFlag(c, k, "active")
<1>0. /\ Len(d) = Len(c)
      /\ \A n \in 1..Len(c) : n # k => d[n] = c[n]
      /\ d[k] = [flag |-> "active", index |-> c[k].index, value |-> c[k].value]
  BY FlagCell
<1> HIDE DEF d
<1>1. /\ Len(d) = Len(c)
      /\ \A n \in 1..Len(c) : n # k => d[n] = c[n]
      /\ d[k].flag = "active" /\ d[k].index = c[k].index
  BY <1>0
<1>2. Live(d) = Live(c) \cup {k}
  BY <1>1 DEF Live
<1>3. ASSUME NEW i
      PROVE  Active(d, i) = IF i = c[k].index THEN Active(c, i) \cup {k} ELSE Active(c, i)
  BY <1>1 DEF Active
<1> QED BY <1>2, <1>3 DEF d

LEMMA FlagInvalid ==
  ASSUME NEW c \in Seq(Cell), NEW k \in 1..Len(c)
  PROVE  LET d == SetFlag(c, k, "invalid")
         IN  /\ Live(d) = Live(c) \ {k}
             /\ \A i : Active(d, i) = Active(c, i) \ {k}
             /\ \A n \in 1..Len(c) : d[n].value = c[n].value
<1> DEFINE d == SetFlag(c, k, "invalid")
<1>0. /\ Len(d) = Len(c)
      /\ \A n \in 1..Len(c) : n # k => d[n] = c[n]
      /\ d[k] = [flag |-> "invalid", index |-> c[k].index, value |-> c[k].value]
  BY FlagCell
<1> HIDE DEF d
<1>1. /\ Len(d) = Len(c)
      /\ \A n \in 1..Len(c) : n # k => d[n] = c[n]
      /\ d[k].flag = "invalid" /\ d[k].index = c[k].index /\ d[k].value = c[k].value
  BY <1>0
<1>2. Live(d) = Live(c) \ {k} /\ \A n \in 1..Len(c) : d[n].value = c[n].value
  BY <1>1 DEF Live
<1>3. ASSUME NEW i PROVE Active(d, i) = Active(c, i) \ {k}
  BY <1>1 DEF Active
<1> QED BY <1>2, <1>3 DEF d

-----------------------------------------------------------------------------
LEMMA InitInv == Init => IInv
<1> SUFFICES ASSUME Init PROVE IInv
  OBVIOUS
<1>1. PICK v \in Value : part = <<[flag |-> "active", index |-> Tri, value |-> v]>>
  BY DEF Init
<1> DEFINE cell == [flag |-> "active", index |-> Tri, value |-> v]
<1>2. /\ cell \in Cell /\ part = <<cell>> /\ part \in Seq(Cell)
      /\ Len(part) = 1 /\ part[1] = cell
  BY <1>1, CellAssumption DEF Cell
<1>3. rcells \in Seq(Cell) /\ Len(rcells) = 0 /\ Slots \in Nat /\ Slots >= 2
  BY CellAssumption DEF Init
<1>4. TypeOK /\ Fits
  <2>1. 0 \in 0..Slots /\ 0 \in 0..Slots + 1 /\ 1 <= Slots /\ 0 <= Slots
    BY <1>3
  <2>2. job \in [index : Index, value : Value \cup {None}]
    BY CellAssumption DEF Init
  <2> QED BY <1>2, <1>3, <2>1, <2>2 DEF Init, TypeOK, Fits, Operation
<1>5. Control /\ Held /\ Job /\ Counted /\ Backup /\ Restore
  BY DEF Init, Control, Held, Job, Counted, Backup, Restore, Writing, Copying,
         Emptying, Restoring
<1>6. Readable
  BY <1>2, <1>3 DEF Init, Readable
<1>7. Stored[Tri] = v
  <2>1. Active(part, Tri) = {1}
    BY <1>2 DEF Active
  <2>2. Read(part, Tri) = v
    <3>1. 1 \in Active(part, Tri) /\ \A k \in Active(part, Tri) : 1 <= k
      BY <2>1
    <3>2. Read(part, Tri) = part[1].value
      BY <1>2, <3>1, ReadOne
    <3> QED BY <1>2, <3>2
  <2> QED BY <2>2, CellAssumption DEF Init, Stored, Contents
<1> QED BY <1>4, <1>5, <1>6, <1>7 DEF IInv, TriSomewhere
-----------------------------------------------------------------------------
(***************************************************************************)
(* How far a copy is.                                                      *)
(***************************************************************************)
LEMMA AfterIs ==
  ASSUME NEW S, S \subseteq Nat, 0 \notin S, NEW n \in Nat
  PROVE  /\ After(S, n) = 0 => \A k \in S : k <= n
         /\ After(S, n) # 0 => /\ After(S, n) \in S /\ After(S, n) > n
                               /\ \A k \in S : k > n => After(S, n) <= k
<1>1. CASE \E k \in S : k > n
  <2> DEFINE T == {k \in S : k > n}
  <2>1. T \subseteq Nat /\ T # {} /\ 0 \notin T
    BY <1>1
  <2>2. After(S, n) = First(T)
    BY <1>1 DEF After
  <2>3. First(T) \in T /\ \A k \in T : First(T) <= k
    <3> HIDE DEF T
    <3> QED BY <2>1, FirstIsLeast
  <2> QED BY <2>1, <2>2, <2>3
<1>2. CASE ~\E k \in S : k > n
  <2>1. After(S, n) = 0
    BY <1>2 DEF After
  <2>2. \A k \in S : k <= n
    BY <1>2
  <2> QED BY <2>1, <2>2
<1> QED BY <1>1, <1>2

\* Up to cell n and up to before the next one is the same.
LEMMA UptoAfter ==
  ASSUME NEW S, S \subseteq Nat, 0 \notin S, NEW n \in Nat, NEW T, T \subseteq S
  PROVE  /\ After(S, n) # 0 => Upto(T, After(S, n) - 1) = Upto(T, n)
         /\ After(S, n) = 0 => Upto(T, n) = T
<1>1. CASE After(S, n) = 0
  BY <1>1, AfterIs DEF Upto
<1>2. CASE After(S, n) # 0
  <2> DEFINE a == After(S, n)
  <2>1. a \in Nat /\ a > n /\ \A k \in T : k \in Nat /\ (k > n => a <= k)
    BY <1>2, AfterIs
  <2> HIDE DEF a
  <2>2. \A k \in T : k <= a - 1 <=> k <= n
    BY <2>1
  <2>3. Upto(T, a - 1) = Upto(T, n)
    BY <2>2 DEF Upto
  <2> QED BY <1>2, <2>3 DEF a
<1> QED BY <1>1, <1>2

\* One cell more.
LEMMA UptoNext ==
  ASSUME NEW S, S \subseteq Nat, IsFiniteSet(S), NEW a \in Nat
  PROVE  /\ IsFiniteSet(Upto(S, a - 1)) /\ Cardinality(Upto(S, a - 1)) \in Nat
         /\ a \notin S => Upto(S, a) = Upto(S, a - 1)
         /\ a \in S => /\ Upto(S, a) = Upto(S, a - 1) \cup {a}
                       /\ Cardinality(Upto(S, a)) = Cardinality(Upto(S, a - 1)) + 1
         /\ Cardinality(Upto(S, a)) <= Cardinality(S)
<1>1. \A k \in S : k \in Nat /\ (k <= a <=> k <= a - 1 \/ k = a)
  OBVIOUS
<1>2. IsFiniteSet(Upto(S, a - 1)) /\ Cardinality(Upto(S, a - 1)) \in Nat
  <2>1. Upto(S, a - 1) \subseteq S
    BY DEF Upto
  <2> QED BY <2>1, FS_Subset, FS_CardinalityType
<1>3. a \notin S => Upto(S, a) = Upto(S, a - 1)
  BY <1>1 DEF Upto
<1>4. a \in S => Upto(S, a) = Upto(S, a - 1) \cup {a}
  BY <1>1 DEF Upto
<1>5. a \notin Upto(S, a - 1)
  BY DEF Upto
<1>6. a \in S => Cardinality(Upto(S, a)) = Cardinality(Upto(S, a - 1)) + 1
  BY <1>2, <1>4, <1>5, FS_AddElement
<1>7. Cardinality(Upto(S, a)) <= Cardinality(S)
  <2>1. Upto(S, a) \subseteq S
    BY DEF Upto
  <2> QED BY <2>1, FS_Subset
<1> QED BY <1>2, <1>3, <1>4, <1>6, <1>7

\* What the invariant says of the cells as sets.
LEMMA Sets ==
  ASSUME IInv
  PROVE  /\ part \in Seq(Cell) /\ Len(part) \in Nat /\ Len(part) <= Slots
         /\ rcells \in Seq(Cell) /\ Len(rcells) \in Nat /\ Len(rcells) <= Slots
         /\ Slots \in Nat /\ Slots >= 2
         /\ remain \in Nat /\ remain <= Slots /\ free \in Nat /\ free <= Slots + 1
         /\ old \in Nat /\ old <= Slots /\ at \in Nat /\ at <= Slots
         /\ job.index \in Index /\ Tri \in Index
         /\ \A n \in 1..Len(part) : part[n] \in Cell /\ part[n].index \in Index
         /\ \A n \in 1..Len(rcells) : rcells[n] \in Cell /\ rcells[n].index \in Index
         /\ Cardinality(Live(part)) \in Nat /\ Cardinality(Live(part)) <= Len(part)
<1>1. /\ part \in Seq(Cell) /\ rcells \in Seq(Cell)
      /\ Len(part) <= Slots /\ Len(rcells) <= Slots
      /\ remain \in 0..Slots /\ free \in 0..Slots + 1 /\ old \in 0..Slots /\ at \in 0..Slots
      /\ job \in [index : Index, value : Value \cup {None}]
  BY DEF IInv, TypeOK, Fits
<1>2. Slots \in Nat /\ Slots >= 2 /\ Tri \in Index
  BY CellAssumption
<1>3. /\ remain \in Nat /\ remain <= Slots /\ free \in Nat /\ free <= Slots + 1
      /\ old \in Nat /\ old <= Slots /\ at \in Nat /\ at <= Slots
  BY <1>1, <1>2
<1>4. Len(part) \in Nat /\ Len(rcells) \in Nat
  BY <1>1, CellSets
<1>5. /\ \A n \in 1..Len(part) : part[n] \in Cell /\ part[n].index \in Index
      /\ \A n \in 1..Len(rcells) : rcells[n] \in Cell /\ rcells[n].index \in Index
  BY <1>1, CellSets DEF Cell
<1>6. Cardinality(Live(part)) \in Nat /\ Cardinality(Live(part)) <= Len(part)
  BY <1>1, CellCards
<1> QED BY <1>1, <1>2, <1>3, <1>4, <1>5, <1>6

LEMMA OperationStep == IInv /\ [Next]_vars => pc' \in Operation
  BY DEF IInv, TypeOK, Operation, Next, vars, Write, StartWrite, WriteHeader,
         WriteData, Activate, Retire, Delete, Done, EraseRecycle, ClaimRecycle,
         SaveHeader, SaveData, BackupAfter, BackupHeader, BackupData, MarkSaved,
         ErasePart, MarkPart, RestoreHeader, RestoreData, Release, ResetSystem,
         PowerCut, Boot, Booted

\* The room that a recycling needs.
LEMMA BackupFits ==
  ASSUME IInv, pc = "backup header"
  PROVE  Len(rcells) + 1 <= Slots
<1> DEFINE K == Keep(part, job.index)
<1>1. at \in K /\ Len(rcells) = 1 + Cardinality(Upto(K, at - 1))
  BY DEF IInv, Backup, Copied, Copy
<1>2. remain >= 1 /\ remain + Cardinality(Live(part)) <= Slots
  BY DEF IInv, Counted, Job, Copying, Writing
<1>3. K \subseteq Nat /\ IsFiniteSet(K) /\ Cardinality(K) \in Nat
      /\ Cardinality(K) <= Cardinality(Live(part))
  BY Sets, CellSets, CellCards
<1>4. at \in Nat
  BY Sets
<1> HIDE DEF K
<1>5. /\ Cardinality(Upto(K, at)) = Cardinality(Upto(K, at - 1)) + 1
      /\ Cardinality(Upto(K, at)) <= Cardinality(K)
      /\ Cardinality(Upto(K, at - 1)) \in Nat
  BY <1>1, <1>3, <1>4, UptoNext
<1>6. /\ Slots \in Nat /\ remain \in Nat /\ Cardinality(Live(part)) \in Nat
  BY Sets
<1>7. Cardinality(K) + 1 <= Slots
  BY ONLY <1>2, <1>3, <1>6
<1> DEFINE n == Cardinality(Upto(K, at - 1))
           m == Cardinality(K)
<1>8. n \in Nat /\ m \in Nat /\ n + 1 <= m /\ m + 1 <= Slots /\ Len(rcells) = 1 + n
  BY <1>1, <1>3, <1>5, <1>7
<1> HIDE DEF n, m
<1>9. Slots \in Nat
  BY <1>6
<1> QED BY ONLY <1>8, <1>9

\* A copy goes on at a cell of the partition, or ends.
LEMMA NextCell ==
  ASSUME NEW c \in Seq(Cell), NEW S, S \subseteq 1..Len(c), NEW n \in Nat, Len(c) <= Slots
  PROVE  After(S, n) \in 0..Slots
<1>1. Len(c) \in Nat /\ S \subseteq Nat /\ 0 \notin S /\ Slots \in Nat
  BY CellSets, CellAssumption
<1>2. After(S, n) # 0 => After(S, n) \in 1..Len(c)
  BY <1>1, AfterIs
<1> QED BY <1>1, <1>2

LEMMA TypeStep == IInv /\ [Next]_vars => TypeOK' /\ Fits'
<1> SUFFICES ASSUME IInv, [Next]_vars PROVE TypeOK' /\ Fits'
  OBVIOUS
<1>0. pc' \in Operation
  BY OperationStep
<1>a. TypeOK /\ Fits
  BY DEF IInv
<1>b. /\ part \in Seq(Cell) /\ Len(part) \in Nat /\ Len(part) <= Slots
      /\ rcells \in Seq(Cell) /\ Len(rcells) \in Nat /\ Len(rcells) <= Slots
      /\ Slots \in Nat /\ Slots >= 2
  BY Sets
<1>c. <<>> \in Seq(Cell) /\ Len(<<>>) <= Slots
  <2>1. <<>> \in Seq(Cell) /\ Len(<<>>) = 0
    BY EmptySeq
  <2>2. 0 <= Slots
    BY <1>b
  <2> QED BY <2>1, <2>2
<1> USE <1>0 DEF Fits
<1>1. ASSUME NEW i \in Index, NEW v \in Value, Write(i, v) PROVE TypeOK' /\ Fits'
  <2>1. job' = [index |-> i, value |-> v] /\ (old' = old \/ old' = Search(part, i))
    BY <1>1 DEF Write, StartWrite
  <2>2. Search(part, i) \in 0..Slots
    BY <1>b, SearchFinds
  <2> QED BY <1>1, <1>a, <2>1, <2>2 DEF Write, TypeOK, flash, info
<1>2. ASSUME NEW i \in Index, Delete(i) PROVE TypeOK' /\ Fits'
  <2>1. Search(part, i) \in 1..Len(part) /\ part' = SetFlag(part, Search(part, i), "invalid")
    BY <1>2, <1>b, SearchFinds DEF Delete
  <2>2. part' \in Seq(Cell) /\ Len(part') = Len(part)
    BY <1>b, <2>1, FlagCell
  <2> QED BY <1>2, <1>a, <2>2 DEF Delete, TypeOK, call, info
<1>3. CASE WriteHeader
  <2>1. mode = "on" /\ free = Len(part) + 1 /\ free <= Slots
    BY <1>3 DEF WriteHeader, IInv, Job, Counted, Writing
  <2>2. part' \in Seq(Cell) /\ Len(part') = Len(part) + 1
    BY <1>3, <1>b, Sets, AppendCell DEF WriteHeader
  <2>3. Len(part') <= Slots
    BY <2>1, <2>2
  <2> QED BY <1>3, <1>a, <2>2, <2>3 DEF WriteHeader, TypeOK, call, info
<1>4. CASE WriteData
  <2>1. Len(part) >= 1 /\ job.value \in Value
    BY <1>4 DEF WriteData, IInv, Job, Writing
  <2>2. part' \in Seq(Cell) /\ Len(part') = Len(part)
    BY <1>4, <1>b, <2>1, DataCell DEF WriteData
  <2> QED BY <1>4, <1>a, <2>2 DEF WriteData, TypeOK, call, info
<1>5. CASE Activate
  <2>1. Len(part) >= 1 /\ free <= Slots /\ remain >= 1
    BY <1>5 DEF Activate, IInv, Job, Counted, Writing
  <2>2. Len(part) \in 1..Len(part)
    BY <1>b, <2>1
  <2>3. part' \in Seq(Cell) /\ Len(part') = Len(part)
    BY <1>5, <1>b, <2>2, FlagCell DEF Activate
  <2>4. remain' = remain - 1 /\ free' = free + 1
    BY <1>5 DEF Activate
  <2>5. remain' \in 0..Slots /\ free' \in 0..Slots + 1
    BY <2>1, <2>4, Sets
  <2> QED BY <1>5, <1>a, <2>3, <2>5 DEF Activate, TypeOK, call
<1>6. CASE Retire
  <2>1. /\ old = Search(part, job.index) /\ old # 0
        /\ remain + Cardinality(Live(part)) <= Slots
    BY <1>6 DEF Retire, IInv, Job, Counted
  <2>2. old \in Live(part) /\ old \in 1..Len(part)
    BY <1>b, <2>1, SearchFinds, CellSets
  <2>3. part' \in Seq(Cell) /\ Len(part') = Len(part)
    BY <1>6, <1>b, <2>2, FlagCell DEF Retire
  <2>4. Cardinality(Live(part)) >= 1
    <3>1. IsFiniteSet(Live(part)) /\ Cardinality(Live(part)) \in Nat
      BY <1>b, CellCards
    <3>2. Cardinality(Live(part)) # 0
      BY <2>2, <3>1, FS_EmptySet
    <3> QED BY <3>1, <3>2
  <2>5. remain' = remain + 1
    BY <1>6 DEF Retire
  <2>6. remain' \in 0..Slots
    BY <2>1, <2>4, <2>5, Sets
  <2> QED BY <1>6, <1>a, <2>3, <2>6 DEF Retire, TypeOK, call
<1>7. CASE EraseRecycle
  <2>1. rcells' \in Seq(Cell) /\ Len(rcells') <= Slots
    BY <1>7, <1>c DEF EraseRecycle
  <2> QED BY <1>7, <1>a, <2>1 DEF EraseRecycle, Done, TypeOK, info
<1>8. CASE ClaimRecycle \/ MarkSaved
  BY <1>8, <1>a DEF ClaimRecycle, MarkSaved, Done, TypeOK, info
<1>9. CASE SaveHeader
  <2>1. rcells = <<>>
    BY <1>9 DEF SaveHeader, Done, IInv, Backup
  <2>2. rcells' \in Seq(Cell) /\ Len(rcells') = Len(rcells) + 1
    BY <1>9, <1>b, Sets, AppendCell DEF SaveHeader
  <2>3. Len(rcells') <= Slots
    BY <1>b, <2>1, <2>2
  <2> QED BY <1>9, <1>a, <2>2, <2>3 DEF SaveHeader, Done, TypeOK, info
<1>10. CASE SaveData \/ BackupData
  <2>1. PICK v \in Value \cup {Torn}, n \in Nat :
          rcells' = WithData(rcells, v) /\ at' = After(Keep(part, job.index), n)
    <3>1. CASE SaveData
      <4>1. job.value \in Value
        BY <3>1 DEF SaveData, IInv, Job, Copying
      <4> QED BY <3>1, <4>1 DEF SaveData, BackupAfter
    <3>2. CASE BackupData
      <4>1. at \in Keep(part, job.index)
        BY <3>2 DEF BackupData, IInv, Backup
      <4>2. at \in Nat /\ part[at] \in Cell
        BY <1>b, <4>1, CellSets, Sets
      <4>3. part[at].value \in Value \cup {Torn}
        BY <4>2 DEF Cell
      <4> QED BY <3>2, <4>2, <4>3 DEF BackupData, BackupAfter
    <3> QED BY <1>10, <3>1, <3>2
  <2>2. Len(rcells) >= 1
    <3>1. CASE pc = "save data"
      <4>1. Len(rcells) = 1
        BY <3>1 DEF IInv, Backup
      <4> QED BY ONLY <4>1
    <3>2. CASE pc = "backup data"
      <4>1. Len(rcells) - 1 >= 1 /\ Len(rcells) \in Nat
        BY <1>b, <3>2 DEF IInv, Backup, Copied, Copy
      <4> QED BY ONLY <4>1
    <3> QED BY <1>10, <3>1, <3>2 DEF SaveData, BackupData
  <2>3. rcells' \in Seq(Cell) /\ Len(rcells') = Len(rcells)
    BY <1>b, <2>1, <2>2, DataCell
  <2>4. at' \in 0..Slots
    <3>1. Keep(part, job.index) \subseteq 1..Len(part)
      BY <1>b, CellSets
    <3> QED BY <1>b, <2>1, <3>1, NextCell
  <2> QED BY <1>10, <1>a, <2>3, <2>4 DEF SaveData, BackupData, TypeOK, info
<1>11. CASE BackupHeader
  <2>1. at \in Keep(part, job.index) /\ pc = "backup header"
    BY <1>11 DEF BackupHeader, Done, IInv, Backup
  <2>2. part[at].index \in Index
    BY <1>b, <2>1, CellSets, Sets
  <2>3. rcells' \in Seq(Cell) /\ Len(rcells') = Len(rcells) + 1
    BY <1>11, <1>b, <2>2, AppendCell DEF BackupHeader
  <2>4. Len(rcells') <= Slots
    BY <2>1, <2>3, BackupFits
  <2> QED BY <1>11, <1>a, <2>3, <2>4 DEF BackupHeader, Done, TypeOK, info
<1>12. CASE ErasePart
  <2>1. part' \in Seq(Cell) /\ Len(part') <= Slots
    BY <1>12, <1>c DEF ErasePart
  <2>2. remain' = Slots /\ free' = 1
    BY <1>12 DEF ErasePart
  <2>3. remain' \in 0..Slots /\ free' \in 0..Slots + 1
    BY <1>b, <2>2
  <2> QED BY <1>12, <1>a, <2>1, <2>3 DEF ErasePart, Done, TypeOK
<1>13. CASE MarkPart
  <2>1. at' \in 0..Slots
    <3>1. CASE rflag = "saved"
      <4>1. Len(rcells) >= 1 /\ Live(rcells) = 1..Len(rcells)
        BY <3>1 DEF IInv, Readable, Live
      <4>2. 1 \in Live(rcells) /\ Live(rcells) \subseteq Nat /\ \A k \in Live(rcells) : 1 <= k
        BY <1>b, <4>1
      <4>3. at' = 1
        BY <1>13, <3>1, <4>2, LeastIsFirst DEF MarkPart
      <4> QED BY <1>b, <4>3
    <3>2. CASE rflag # "saved"
      BY <1>13, <1>a, <3>2 DEF MarkPart, TypeOK
    <3> QED BY <3>1, <3>2
  <2>2. job' \in [index : Index, value : Value \cup {None}]
    <3>1. job' = job \/ (tri # None /\ job' = [index |-> Tri, value |-> tri])
      BY <1>13 DEF MarkPart, StartWrite
    <3> QED BY <1>a, <3>1, CellAssumption DEF TypeOK
  <2>3. old' \in 0..Slots
    <3>1. Search(<<>>, Tri) \in 0..Slots
      <4>1. Active(<<>>, Tri) = {}
        BY DEF Active
      <4> QED BY <1>b, <4>1 DEF Search
    <3> QED BY <1>13, <1>a, <3>1 DEF MarkPart, StartWrite, TypeOK
  <2> QED BY <1>13, <1>a, <2>1, <2>2, <2>3 DEF MarkPart, TypeOK, info
<1>14. CASE RestoreHeader
  <2>1. at \in 1..Len(rcells) /\ Len(part) = at - 1
    BY <1>14 DEF RestoreHeader, Done, IInv, Restore
  <2>2. rcells[at].index \in Index
    BY <2>1, Sets
  <2>3. part' \in Seq(Cell) /\ Len(part') = Len(part) + 1
    BY <1>14, <1>b, <2>2, AppendCell DEF RestoreHeader
  <2>4. Len(part') <= Slots
    BY <1>b, <2>1, <2>3
  <2> QED BY <1>14, <1>a, <2>3, <2>4 DEF RestoreHeader, Done, TypeOK, info
<1>15. CASE RestoreData
  <2>1. at \in 1..Len(rcells) /\ Len(part) = at
    BY <1>15 DEF RestoreData, IInv, Restore
  <2>2. rcells[at].value \in Value \cup {Torn} /\ Len(part) >= 1
    BY <1>b, <2>1, Sets DEF Cell
  <2>3. part' \in Seq(Cell) /\ Len(part') = Len(part)
    BY <1>15, <1>b, <2>2, DataCell DEF RestoreData
  <2>4. at' \in 0..Slots
    <3>1. Live(rcells) \subseteq 1..Len(rcells) /\ at \in Nat
      BY <1>b, <2>1, CellSets
    <3> QED BY <1>15, <1>b, <3>1, NextCell DEF RestoreData
  <2> QED BY <1>15, <1>a, <2>3, <2>4 DEF RestoreData, TypeOK, info
<1>16. CASE Release \/ Booted
  <2>1. remain' = Slots - Cardinality(Live(part)) /\ free' = Len(part) + 1
    BY <1>16 DEF Release, Booted, CheckRemain
  <2>2. remain' \in 0..Slots /\ free' \in 0..Slots + 1
    BY <2>1, Sets
  <2> QED BY <1>16, <1>a, <2>2 DEF Release, Booted, Done, TypeOK, flash, call
<1>17. CASE ResetSystem
  <2>1. tri' = Read(part, Tri) /\ rflag # "saved"
    BY <1>17 DEF ResetSystem, Idle, IInv, Control, Emptying, Restoring
  <2>2. Read(part, Tri) \in Value \cup {None}
    <3>1. Search(part, Tri) # 0 => Search(part, Tri) \in Active(part, Tri)
      BY <1>b, SearchFinds
    <3> QED BY <2>1, <3>1 DEF Read, Active, IInv, Readable
  <2> QED BY <1>17, <1>a, <2>1, <2>2 DEF ResetSystem, TypeOK, flash, call, info
<1>18. CASE PowerCut
  <2>1. 0 \in 0..Slots /\ 0 \in 0..Slots + 1
    BY <1>b
  <2>2. job' \in [index : Index, value : Value \cup {None}] /\ hit' \in BOOLEAN
    BY <1>18, CellAssumption DEF PowerCut
  <2> QED BY <1>18, <1>a, <2>1, <2>2 DEF PowerCut, TypeOK, flash
<1>19. CASE Boot
  BY <1>19, <1>a DEF Boot, TypeOK, flash, call, info
<1>20. CASE UNCHANGED vars
  BY <1>20, <1>a DEF vars, TypeOK
<1> QED BY <1>1, <1>2, <1>3, <1>4, <1>5, <1>6, <1>7, <1>8, <1>9, <1>10, <1>11, <1>12,
           <1>13, <1>14, <1>15, <1>16, <1>17, <1>18, <1>19, <1>20 DEF Next

-----------------------------------------------------------------------------
\* Nothing is found in an empty partition.
LEMMA Empty == \A i : Active(<<>>, i) = {} /\ Search(<<>>, i) = 0 /\ Read(<<>>, i) = None
<1>1. \A i : Active(<<>>, i) = {}
  BY DEF Active
<1>2. \A i : Search(<<>>, i) = 0
  BY <1>1 DEF Search
<1> QED BY <1>1, <1>2 DEF Read

\* A reset that holds the tri tuple starts to write it.
LEMMA MarkPartWrites ==
  ASSUME IInv, MarkPart
  PROVE  /\ rflag = "saved" => pc' = "restore header" /\ job' = job /\ old' = old /\ at' = 1
         /\ rflag # "saved" /\ tri # None =>
              pc' = "header" /\ job' = [index |-> Tri, value |-> tri] /\ old' = 0
         /\ rflag # "saved" /\ tri = None => pc' = "none" /\ job' = job /\ old' = old
<1>1. free = 1
  BY DEF MarkPart, IInv, Control
<1>2. ~(free > Slots)
  BY <1>1, CellAssumption
<1>3. rflag = "saved" => at' = 1
  <2> SUFFICES ASSUME rflag = "saved" PROVE at' = 1
    OBVIOUS
  <2>1. Len(rcells) >= 1 /\ Len(rcells) \in Nat /\ Live(rcells) = 1..Len(rcells)
    BY Sets DEF IInv, Readable, Live
  <2>2. 1 \in Live(rcells) /\ Live(rcells) \subseteq Nat /\ \A k \in Live(rcells) : 1 <= k
    BY <2>1
  <2> QED BY <2>2, LeastIsFirst DEF MarkPart
<1> QED BY <1>2, <1>3, Empty DEF MarkPart, StartWrite

LEMMA ControlStep == IInv /\ [Next]_vars => Control' /\ Held'
<1> SUFFICES ASSUME IInv, [Next]_vars PROVE Control' /\ Held'
  OBVIOUS
<1>0. Control /\ Held
  BY DEF IInv
<1> USE DEF Writing, Emptying, Restoring
<1>1. ASSUME NEW i \in Index, NEW v \in Value, Write(i, v) PROVE Control' /\ Held'
  BY <1>0, <1>1 DEF Write, StartWrite, Idle, Control, Held, flash, info
<1>2. ASSUME NEW i \in Index, Delete(i) PROVE Control' /\ Held'
  BY <1>0, <1>2 DEF Delete, Idle, Control, Held, info
<1>3. CASE WriteHeader
  BY <1>0, <1>3 DEF WriteHeader, Control, Held, info, call
<1>4. CASE WriteData
  BY <1>0, <1>4 DEF WriteData, Control, Held, info, call
<1>5. CASE Activate
  BY <1>0, <1>5 DEF Activate, Control, Held, call
<1>6. CASE Retire
  BY <1>0, <1>6 DEF Retire, Control, Held, call
<1>7. CASE EraseRecycle
  BY <1>0, <1>7 DEF EraseRecycle, Done, Control, Held, info
<1>8. CASE ClaimRecycle
  BY <1>0, <1>8 DEF ClaimRecycle, Done, Control, Held, info
<1>9. CASE SaveHeader
  BY <1>0, <1>9 DEF SaveHeader, Done, Control, Held, info
<1>10. CASE SaveData
  BY <1>0, <1>10 DEF SaveData, BackupAfter, Control, Held, info
<1>11. CASE BackupHeader
  BY <1>0, <1>11 DEF BackupHeader, Done, Control, Held, info
<1>12. CASE BackupData
  BY <1>0, <1>12 DEF BackupData, BackupAfter, Control, Held, info
<1>13. CASE MarkSaved
  BY <1>0, <1>13 DEF MarkSaved, Done, Control, Held, info
<1>14. CASE ErasePart
  BY <1>0, <1>14 DEF ErasePart, Done, Control, Held
<1>15. CASE MarkPart
  BY <1>0, <1>15, MarkPartWrites DEF MarkPart, Control, Held, info
<1>16. CASE RestoreHeader
  BY <1>0, <1>16 DEF RestoreHeader, Done, Control, Held, info
<1>17. CASE RestoreData
  BY <1>0, <1>17 DEF RestoreData, Control, Held, info
<1>18. CASE Release
  BY <1>0, <1>18 DEF Release, Done, CheckRemain, Control, Held
<1>19. CASE ResetSystem
  BY <1>0, <1>19 DEF ResetSystem, Idle, Control, Held, flash, info, call
<1>20. CASE PowerCut
  BY <1>0, <1>20 DEF PowerCut, Control, Held, flash
<1>21. CASE Boot
  BY <1>0, <1>21 DEF Boot, Control, Held, flash, info, call
<1>22. CASE Booted
  BY <1>0, <1>22 DEF Booted, CheckRemain, Control, Held, flash, call
<1>23. CASE UNCHANGED vars
  BY <1>0, <1>23 DEF vars, Control, Held
<1> QED BY <1>1, <1>2, <1>3, <1>4, <1>5, <1>6, <1>7, <1>8, <1>9, <1>10, <1>11, <1>12,
           <1>13, <1>14, <1>15, <1>16, <1>17, <1>18, <1>19, <1>20, <1>21, <1>22, <1>23
        DEF Next

LEMMA ReadableStep == IInv /\ [Next]_vars => Readable'
<1> SUFFICES ASSUME IInv, [Next]_vars PROVE Readable'
  OBVIOUS
<1>0. Control /\ Readable
  BY DEF IInv
<1>a. /\ part \in Seq(Cell) /\ Len(part) \in Nat /\ rcells \in Seq(Cell) /\ Len(rcells) \in Nat
      /\ job.index \in Index
  BY Sets
<1> USE DEF Emptying, Restoring
<1>1. ASSUME NEW i \in Index, NEW v \in Value, Write(i, v) PROVE Readable'
  BY <1>0, <1>1 DEF Write, Readable, flash
<1>2. ASSUME NEW k \in 1..Len(part), part' = SetFlag(part, k, "invalid"),
             rcells' = rcells, rflag' = rflag
      PROVE  Readable'
  <2>1. /\ Len(part') = Len(part) /\ \A n \in 1..Len(part) : n # k => part'[n] = part[n]
        /\ part'[k] = [flag |-> "invalid", index |-> part[k].index, value |-> part[k].value]
    BY <1>a, <1>2, FlagCell
  <2>2. part'[k].flag = "invalid"
    BY <2>1
  <2> QED BY <1>0, <1>2, <2>1, <2>2 DEF Readable
<1>3. ASSUME NEW i \in Index, Delete(i) PROVE Readable'
  <2>1. Search(part, i) \in 1..Len(part)
    BY <1>3, <1>a, SearchFinds DEF Delete
  <2> QED BY <1>2, <1>3, <2>1 DEF Delete
<1>4. CASE Retire
  <2>1. old \in 1..Len(part)
    BY <1>4, <1>a, SearchFinds DEF Retire, IInv, Job
  <2> QED BY <1>2, <1>4, <2>1 DEF Retire
<1>5. CASE WriteHeader
  <2>1. /\ Len(part') = Len(part) + 1 /\ \A n \in 1..Len(part) : part'[n] = part[n]
        /\ part'[Len(part) + 1] = [flag |-> "writing", index |-> job.index, value |-> Torn]
    BY <1>5, <1>a, AppendCell DEF WriteHeader
  <2>2. part'[Len(part) + 1].flag = "writing"
    BY <2>1
  <2>3. \A n \in 1..Len(part') : n \in 1..Len(part) \/ n = Len(part) + 1
    BY <1>a, <2>1
  <2> QED BY <1>0, <1>5, <2>1, <2>2, <2>3 DEF WriteHeader, Readable
<1>6. CASE WriteData
  <2>1. Len(part) >= 1 /\ part[Len(part)].flag = "writing" /\ job.value \in Value
    BY <1>6 DEF WriteData, IInv, Job, Writing
  <2>2. /\ Len(part') = Len(part)
        /\ \A n \in 1..Len(part) : n # Len(part) => part'[n] = part[n]
        /\ part'[Len(part)] = [flag |-> part[Len(part)].flag,
                               index |-> part[Len(part)].index, value |-> job.value]
    BY <1>6, <1>a, <2>1, DataCell DEF WriteData
  <2>3. part'[Len(part)].flag = "writing"
    BY <2>1, <2>2
  <2> QED BY <1>0, <1>6, <2>2, <2>3 DEF WriteData, Readable
<1>7. CASE Activate
  <2>1. Len(part) >= 1 /\ part[Len(part)].value = job.value /\ job.value \in Value
    BY <1>7 DEF Activate, IInv, Job, Writing
  <2>2. Len(part) \in 1..Len(part)
    BY <1>a, <2>1
  <2>3. /\ Len(part') = Len(part)
        /\ \A n \in 1..Len(part) : n # Len(part) => part'[n] = part[n]
        /\ part'[Len(part)] = [flag |-> "active", index |-> part[Len(part)].index,
                               value |-> part[Len(part)].value]
    BY <1>7, <1>a, <2>2, FlagCell DEF Activate
  <2>4. part'[Len(part)].value \in Value
    BY <2>1, <2>3
  <2> QED BY <1>0, <1>7, <2>3, <2>4 DEF Activate, Readable
<1>8. CASE EraseRecycle
  <2>1. rcells' = <<>> /\ rflag' = "origin" /\ part' = part /\ rflag # "saved"
    BY <1>0, <1>8 DEF EraseRecycle, Done, Control
  <2>2. 1..Len(<<>>) = {}
    OBVIOUS
  <2> QED BY <1>0, <2>1, <2>2 DEF Readable
<1>9. CASE ClaimRecycle
  BY <1>0, <1>9 DEF ClaimRecycle, Done, Control, Readable
<1>10. ASSUME NEW j \in Index, rcells' = Append(rcells, Header("active", j)),
              part' = part, rflag' = rflag, rflag # "saved"
       PROVE  Readable'
  <2>1. /\ Len(rcells') = Len(rcells) + 1
        /\ \A n \in 1..Len(rcells) : rcells'[n] = rcells[n]
        /\ rcells'[Len(rcells) + 1] = [flag |-> "active", index |-> j, value |-> Torn]
    BY <1>10, <1>a, AppendCell
  <2>2. rcells'[Len(rcells) + 1].flag = "active"
    BY <2>1
  <2>3. \A n \in 1..Len(rcells') : n \in 1..Len(rcells) \/ n = Len(rcells) + 1
    BY <1>a, <2>1
  <2> QED BY <1>0, <1>10, <2>1, <2>2, <2>3 DEF Readable
<1>11. CASE SaveHeader
  <2>1. rflag # "saved"
    BY <1>0, <1>11 DEF SaveHeader, Done, Control
  <2> QED BY <1>10, <1>11, <1>a, <2>1 DEF SaveHeader
<1>12. CASE BackupHeader
  <2>1. rflag # "saved" /\ at \in Keep(part, job.index)
    BY <1>0, <1>12 DEF BackupHeader, Done, Control, IInv, Backup
  <2>2. part[at].index \in Index
    BY <1>a, <2>1, CellSets, Sets
  <2> QED BY <1>10, <1>12, <2>1, <2>2 DEF BackupHeader
<1>13. ASSUME NEW v \in Value \cup {Torn}, rcells' = WithData(rcells, v), Len(rcells) >= 1,
              part' = part, rflag' = rflag, rflag # "saved"
       PROVE  Readable'
  <2>1. /\ Len(rcells') = Len(rcells)
        /\ \A n \in 1..Len(rcells) : n # Len(rcells) => rcells'[n] = rcells[n]
        /\ rcells'[Len(rcells)] = [flag |-> rcells[Len(rcells)].flag,
                                   index |-> rcells[Len(rcells)].index, value |-> v]
    BY <1>13, <1>a, DataCell
  <2>2. rcells'[Len(rcells)].flag = rcells[Len(rcells)].flag
    BY <2>1
  <2> QED BY <1>0, <1>13, <2>1, <2>2 DEF Readable
<1>14. CASE SaveData
  <2>1. rflag # "saved" /\ job.value \in Value /\ Len(rcells) = 1
    BY <1>0, <1>14 DEF SaveData, Control, IInv, Job, Backup, Copying
  <2>2. Len(rcells) >= 1
    BY ONLY <2>1
  <2> QED BY <1>13, <1>14, <2>1, <2>2 DEF SaveData
<1>15. CASE BackupData
  <2>1. rflag # "saved" /\ at \in Keep(part, job.index) /\ Len(rcells) - 1 >= 1
    BY <1>0, <1>15 DEF BackupData, Control, IInv, Backup, Copied, Copy
  <2>2. Len(rcells) >= 1
    BY ONLY <1>a, <2>1
  <2>3. part[at] \in Cell
    BY <1>a, <2>1, CellSets, Sets
  <2>4. part[at].value \in Value \cup {Torn}
    BY <2>3 DEF Cell
  <2> QED BY <1>13, <1>15, <2>1, <2>2, <2>4 DEF BackupData
<1>16. CASE MarkSaved
  <2>1. /\ Len(rcells) >= 1
        /\ \A k \in 1..Len(rcells) : rcells[k].value \in Value
    BY <1>16 DEF MarkSaved, Done, IInv, Backup, Copied, Copy
  <2> QED BY <1>0, <1>16, <2>1 DEF MarkSaved, Readable
<1>17. CASE ErasePart
  <2>1. 1..Len(<<>>) = {}
    OBVIOUS
  <2> QED BY <1>0, <1>17, <2>1 DEF ErasePart, Readable
<1>18. CASE MarkPart
  BY <1>0, <1>18 DEF MarkPart, Readable
<1>19. CASE RestoreHeader
  BY <1>0, <1>19 DEF RestoreHeader, Done, Control, Readable
<1>20. CASE RestoreData
  BY <1>0, <1>20 DEF RestoreData, Control, Readable
<1>21. CASE Release
  <2>1. /\ rflag = "saved" /\ Len(part) = Len(rcells)
        /\ \A k \in 1..Len(part) : part[k] = rcells[k]
    BY <1>0, <1>21 DEF Release, Done, Control, IInv, Restore, Restored
  <2> QED BY <1>0, <1>21, <2>1 DEF Release, Readable
<1>22. CASE ResetSystem \/ PowerCut \/ Boot \/ Booted \/ UNCHANGED vars
  BY <1>0, <1>22 DEF ResetSystem, PowerCut, Boot, Booted, vars, flash, Readable
<1> QED BY <1>1, <1>3, <1>4, <1>5, <1>6, <1>7, <1>8, <1>9, <1>11, <1>12, <1>14, <1>15,
           <1>16, <1>17, <1>18, <1>19, <1>20, <1>21, <1>22 DEF Next

LEMMA JobStep == IInv /\ [Next]_vars => Job'
<1> SUFFICES ASSUME IInv, [Next]_vars PROVE Job'
  OBVIOUS
<1>0. Control /\ Held /\ Job
  BY DEF IInv
<1>a. part \in Seq(Cell) /\ Len(part) \in Nat /\ job.index \in Index
  BY Sets
<1> USE DEF Writing, Copying
<1>1. ASSUME NEW i \in Index, NEW v \in Value, Write(i, v) PROVE Job'
  BY <1>0, <1>1 DEF Write, StartWrite, Idle, Job, flash
<1>2. ASSUME NEW i \in Index, Delete(i) PROVE Job'
  BY <1>0, <1>2 DEF Delete, Idle, Job
<1>3. CASE WriteHeader
  <2>1. pc = "header" /\ pc' = "data" /\ job' = job /\ old' = old /\ mode' = mode
    BY <1>3 DEF WriteHeader, call
  <2>2. /\ Len(part') = Len(part) + 1
        /\ part'[Len(part) + 1] = [flag |-> "writing", index |-> job.index, value |-> Torn]
        /\ Search(part', job.index) = Search(part, job.index)
    BY <1>3, <1>a, AppendCell, WritingSets DEF WriteHeader
  <2>3. Len(part') >= 1
    BY <1>a, <2>2
  <2>4. part'[Len(part')].flag = "writing" /\ part'[Len(part')].index = job.index
    BY <2>2
  <2> QED BY <1>0, <2>1, <2>2, <2>3, <2>4 DEF Job
<1>4. CASE WriteData
  <2>1. pc = "data" /\ pc' = "activate" /\ job' = job /\ old' = old /\ mode' = mode
    BY <1>4 DEF WriteData, call
  <2>2. /\ Len(part) >= 1 /\ job.value \in Value /\ old = Search(part, job.index)
        /\ part[Len(part)].flag = "writing" /\ part[Len(part)].index = job.index
    BY <1>0, <2>1 DEF Job
  <2>3. /\ Len(part') = Len(part)
        /\ part'[Len(part)] = [flag |-> part[Len(part)].flag,
                               index |-> part[Len(part)].index, value |-> job.value]
    BY <1>4, <1>a, <2>2, DataCell DEF WriteData
  <2>4. Len(part) \notin Active(part, job.index)
    BY <2>2 DEF Active
  <2>5. Search(part', job.index) = Search(part, job.index)
    BY <1>4, <1>a, <2>2, <2>4, DataSets DEF WriteData
  <2>6. /\ part'[Len(part')].flag = "writing" /\ part'[Len(part')].index = job.index
        /\ part'[Len(part')].value = job.value /\ Len(part') >= 1
    BY <2>2, <2>3
  <2> QED BY <1>0, <2>1, <2>2, <2>5, <2>6 DEF Job
<1>5. CASE Activate
  <2>1. /\ pc = "activate" /\ job' = job /\ old' = old /\ mode' = mode
        /\ pc' = IF old = 0 THEN "none" ELSE "retire"
    BY <1>5 DEF Activate, call
  <2>2. /\ Len(part) >= 1 /\ mode = "on" /\ job.value \in Value
        /\ part[Len(part)].flag = "writing" /\ part[Len(part)].index = job.index
        /\ part[Len(part)].value = job.value /\ old = Search(part, job.index)
    BY <1>0, <2>1 DEF Job
  <2>3. Len(part) \in 1..Len(part)
    BY <1>a, <2>2
  <2>4. /\ part' \in Seq(Cell) /\ Len(part') = Len(part)
        /\ part'[Len(part)] = [flag |-> "active", index |-> part[Len(part)].index,
                               value |-> part[Len(part)].value]
    BY <1>5, <1>a, <2>3, FlagCell DEF Activate
  <2>a. Active(part', job.index) = Active(part, job.index) \cup {Len(part)}
    <3>1. part' = SetFlag(part, Len(part), "active")
      BY <1>5 DEF Activate
    <3>2. \A i : Active(part', i) = IF i = part[Len(part)].index
                                     THEN Active(part, i) \cup {Len(part)}
                                     ELSE Active(part, i)
      BY <1>a, <2>3, <3>1, FlagActive
    <3> QED BY <2>2, <3>2
  <2>5. ASSUME old # 0
        PROVE  old # Len(part) /\ Search(part', job.index) = old
    <3>1. old \in Active(part, job.index) /\ \A k \in Active(part, job.index) : old <= k
      BY <1>a, <2>2, <2>5, SearchFinds
    <3>2. old # Len(part)
      BY <2>2, <3>1 DEF Active
    <3>3. old <= Len(part)
      BY <1>a, <3>1 DEF Active
    <3>4. old \in Active(part', job.index) /\ \A k \in Active(part', job.index) : old <= k
      BY <2>a, <3>1, <3>3
    <3> QED BY <2>4, <3>2, <3>4, ReadOne
  <2>6. /\ Len(part') >= 1
        /\ part'[Len(part')] = [flag |-> "active", index |-> job.index, value |-> job.value]
    BY <2>2, <2>4
  <2> QED BY <2>1, <2>2, <2>4, <2>5, <2>6 DEF Job
<1>6. CASE Retire
  BY <1>0, <1>6 DEF Retire, Job
<1>7. CASE EraseRecycle \/ ClaimRecycle \/ SaveHeader \/ BackupHeader
  BY <1>0, <1>7 DEF EraseRecycle, ClaimRecycle, SaveHeader, BackupHeader, Done, Job
<1>8. CASE SaveData \/ BackupData
  BY <1>0, <1>8 DEF SaveData, BackupData, BackupAfter, Job
<1>9. CASE MarkSaved \/ ErasePart \/ RestoreHeader \/ Release
  BY <1>0, <1>9 DEF MarkSaved, ErasePart, RestoreHeader, Release, Done, Job
<1>10. CASE RestoreData
  BY <1>0, <1>10 DEF RestoreData, Job
<1>11. CASE MarkPart
  <2>1. CASE rflag # "saved" /\ tri # None
    <3>1. /\ pc' = "header" /\ job' = [index |-> Tri, value |-> tri] /\ old' = 0
          /\ mode' = mode /\ part' = part
      BY <1>11, <2>1, MarkPartWrites DEF MarkPart
    <3>2. mode = "on" /\ part = <<>> /\ tri \in Value
      BY <1>0, <1>11, <2>1 DEF MarkPart, Control, Held, IInv, TypeOK
    <3>3. job'.index = Tri /\ job'.value \in Value /\ Search(part', job'.index) = 0
      BY <3>1, <3>2, Empty
    <3> QED BY <3>1, <3>2, <3>3 DEF Job
  <2>2. CASE ~(rflag # "saved" /\ tri # None)
    BY <1>11, <2>2, MarkPartWrites DEF Job
  <2> QED BY <2>1, <2>2
<1>12. CASE ResetSystem \/ PowerCut \/ Boot
  BY <1>0, <1>12 DEF ResetSystem, PowerCut, Boot, Job
<1>13. CASE Booted
  BY <1>0, <1>13 DEF Booted, Job
<1>14. CASE UNCHANGED vars
  BY <1>0, <1>14 DEF vars, Job
<1> QED BY <1>1, <1>2, <1>3, <1>4, <1>5, <1>6, <1>7, <1>8, <1>9, <1>10, <1>11, <1>12,
           <1>13, <1>14 DEF Next

LEMMA CountedStep == IInv /\ [Next]_vars => Counted'
<1> SUFFICES ASSUME IInv, [Next]_vars PROVE Counted'
  OBVIOUS
<1>0. Control /\ Job /\ Counted
  BY DEF IInv
<1>a. /\ part \in Seq(Cell) /\ Len(part) \in Nat /\ job.index \in Index
      /\ Slots \in Nat /\ remain \in Nat /\ free \in Nat
      /\ Cardinality(Live(part)) \in Nat /\ IsFiniteSet(Live(part))
  BY Sets, CellCards
<1> USE DEF Writing, Copying
<1>1. ASSUME NEW i \in Index, NEW v \in Value, Write(i, v) PROVE Counted'
  <2>1. /\ remain >= 1 /\ part' = part /\ free' = free /\ remain' = remain
        /\ mode = "on" /\ mode' = "on" /\ pc = "none"
        /\ pc' \in {"erase recycle", "header"}
        /\ pc' = "header" => ~(free > Slots)
    BY <1>1 DEF Write, StartWrite, Idle, flash, info
  <2>2. pc' = "header" => free <= Slots
    BY <1>a, <2>1
  <2> QED BY <1>0, <2>1, <2>2 DEF Counted
<1>2. ASSUME NEW i \in Index, Delete(i) PROVE Counted'
  <2>1. Search(part, i) \in 1..Len(part)
    BY <1>2, <1>a, SearchFinds DEF Delete
  <2>2. Len(part') = Len(part) /\ Live(part') = Live(part) \ {Search(part, i)}
    BY <1>2, <1>a, <2>1, FlagCell, FlagInvalid DEF Delete
  <2>3. Cardinality(Live(part')) <= Cardinality(Live(part)) /\ Cardinality(Live(part')) \in Nat
    <3>1. Live(part') \subseteq Live(part)
      BY <2>2
    <3> QED BY <1>a, <3>1, FS_Subset, FS_CardinalityType
  <2>4. /\ mode = "on" /\ pc = "none" /\ pc' = "none" /\ remain' = remain /\ free' = free
    BY <1>2 DEF Delete, Idle, info
  <2>5. remain + Cardinality(Live(part)) <= Slots /\ free = Len(part) + 1
    BY <1>0, <2>4 DEF Counted
  <2>6. remain' + Cardinality(Live(part')) <= Slots
    BY <1>a, <2>3, <2>4, <2>5
  <2> QED BY <2>2, <2>4, <2>5, <2>6 DEF Counted
<1>3. CASE WriteHeader
  <2>1. /\ pc = "header" /\ pc' = "data" /\ mode' = mode /\ remain' = remain /\ free' = free
        /\ mode = "on"
    BY <1>0, <1>3 DEF WriteHeader, info, Job
  <2>2. Len(part') = Len(part) + 1 /\ Live(part') = Live(part)
    BY <1>3, <1>a, AppendCell, WritingSets DEF WriteHeader
  <2> QED BY <1>0, <2>1, <2>2 DEF Counted
<1>4. CASE WriteData
  <2>1. /\ pc = "data" /\ pc' = "activate" /\ mode' = mode /\ remain' = remain /\ free' = free
        /\ mode = "on" /\ Len(part) >= 1 /\ job.value \in Value
    BY <1>0, <1>4 DEF WriteData, info, Job
  <2>2. Len(part') = Len(part) /\ Live(part') = Live(part)
    BY <1>4, <1>a, <2>1, DataCell, DataSets DEF WriteData
  <2> QED BY <1>0, <2>1, <2>2 DEF Counted
<1>5. CASE Activate
  <2>1. /\ pc = "activate" /\ pc' \in {"none", "retire"} /\ mode' = mode
        /\ remain' = remain - 1 /\ free' = free + 1
        /\ mode = "on" /\ Len(part) >= 1 /\ part[Len(part)].flag = "writing"
    BY <1>0, <1>5 DEF Activate, Job
  <2>2. Len(part) \in 1..Len(part)
    BY <1>a, <2>1
  <2>3. Len(part') = Len(part) /\ Live(part') = Live(part) \cup {Len(part)}
    BY <1>5, <1>a, <2>2, FlagCell, FlagActive DEF Activate
  <2>4. Len(part) \notin Live(part)
    BY <2>1 DEF Live
  <2>5. Cardinality(Live(part')) = Cardinality(Live(part)) + 1
    BY <1>a, <2>3, <2>4, FS_AddElement
  <2>6. free = Len(part) /\ remain + Cardinality(Live(part)) <= Slots
    BY <1>0, <2>1 DEF Counted
  <2>7. free' = Len(part') + 1 /\ remain' + Cardinality(Live(part')) <= Slots
    BY <1>a, <2>1, <2>3, <2>5, <2>6
  <2> QED BY <2>1, <2>7 DEF Counted
<1>6. CASE Retire
  <2>1. /\ pc = "retire" /\ pc' = "none" /\ mode' = mode
        /\ remain' = remain + 1 /\ free' = free /\ mode = "on"
        /\ old = Search(part, job.index) /\ old # 0
    BY <1>0, <1>6 DEF Retire, Job
  <2>2. old \in Live(part) /\ old \in 1..Len(part)
    BY <1>a, <2>1, SearchFinds, CellSets
  <2>3. Len(part') = Len(part) /\ Live(part') = Live(part) \ {old}
    BY <1>6, <1>a, <2>2, FlagCell, FlagInvalid DEF Retire
  <2>4. Cardinality(Live(part')) = Cardinality(Live(part)) - 1
    BY <1>a, <2>2, <2>3, FS_RemoveElement
  <2>5. free = Len(part) + 1 /\ remain + Cardinality(Live(part)) <= Slots
    BY <1>0, <2>1 DEF Counted
  <2>6. free' = Len(part') + 1 /\ remain' + Cardinality(Live(part')) <= Slots
    BY <1>a, <2>1, <2>3, <2>4, <2>5
  <2> QED BY <2>1, <2>6 DEF Counted
<1>7. CASE EraseRecycle \/ ClaimRecycle \/ SaveHeader \/ BackupHeader
  BY <1>0, <1>7 DEF EraseRecycle, ClaimRecycle, SaveHeader, BackupHeader, Done, Counted, info
<1>8. CASE SaveData \/ BackupData
  BY <1>0, <1>8 DEF SaveData, BackupData, BackupAfter, Counted, info
<1>9. CASE MarkSaved \/ ErasePart \/ RestoreHeader
  BY <1>9 DEF MarkSaved, ErasePart, RestoreHeader, Done, Counted
<1>10. CASE RestoreData
  BY <1>10 DEF RestoreData, Counted
<1>11. CASE MarkPart
  <2>1. part' = <<>> /\ remain' = Slots /\ free' = 1
    BY <1>0, <1>11 DEF MarkPart, Control, info
  <2>2. Len(part') = 0 /\ Live(part') = {}
    BY <2>1 DEF Live
  <2>3. Cardinality(Live(part')) = 0
    BY <2>2, FS_EmptySet
  <2>4. free' = Len(part') + 1 /\ remain' + Cardinality(Live(part')) <= Slots
        /\ free' <= Slots /\ remain' >= 1
    BY <2>1, <2>2, <2>3, CellAssumption
  <2>5. pc' \in {"restore header", "header", "none"}
    BY <1>11, MarkPartWrites
  <2> QED BY <2>4, <2>5 DEF Counted
<1>12. CASE Release \/ Booted
  <2>1. /\ remain' = Slots - Cardinality(Live(part)) /\ free' = Len(part) + 1
        /\ part' = part /\ pc' = "none"
    BY <1>12 DEF Release, Booted, Done, CheckRemain, flash
  <2>2. remain' + Cardinality(Live(part')) <= Slots
    BY <1>a, <2>1
  <2> QED BY <2>1, <2>2 DEF Counted
<1>13. CASE ResetSystem \/ PowerCut \/ Boot
  BY <1>13 DEF ResetSystem, PowerCut, Boot, Counted
<1>14. CASE UNCHANGED vars
  BY <1>0, <1>14 DEF vars, Counted
<1> QED BY <1>1, <1>2, <1>3, <1>4, <1>5, <1>6, <1>7, <1>8, <1>9, <1>10, <1>11, <1>12,
           <1>13, <1>14 DEF Next

-----------------------------------------------------------------------------
(***************************************************************************)
(* A copy that goes on.                                                    *)
(***************************************************************************)
LEMMA FirstGrows ==
  ASSUME NEW S, S \subseteq Nat, NEW x \in Nat, \A k \in S : k <= x
  PROVE  /\ S = {} => First(S \cup {x}) = x
         /\ S # {} => First(S \cup {x}) = First(S)
<1>1. S \cup {x} \subseteq Nat
  OBVIOUS
<1>2. S = {} => First(S \cup {x}) = x
  <2>1. x <= x
    OBVIOUS
  <2> QED BY <1>1, <2>1, LeastIsFirst
<1>3. ASSUME S # {} PROVE First(S \cup {x}) = First(S)
  <2>1. First(S) \in S /\ \A k \in S : First(S) <= k
    BY <1>3, FirstIsLeast
  <2>2. First(S) \in S \cup {x} /\ \A k \in S \cup {x} : First(S) <= k
    BY <2>1
  <2> DEFINE y == First(S)
             T == S \cup {x}
  <2>3. y \in T /\ T \subseteq Nat /\ \A k \in T : y <= k
    BY <1>1, <2>2
  <2> HIDE DEF y, T
  <2>4. First(T) = y
    BY <2>3, LeastIsFirst
  <2> QED BY <2>4 DEF y, T
<1> QED BY <1>2, <1>3

LEMMA RestGrows ==
  ASSUME NEW c, NEW S, S \subseteq Nat, NEW x \in Nat, \A k \in S : k < x
  PROVE  /\ S = {} => Rest(c, S \cup {x}) = {}
         /\ S # {} => Rest(c, S \cup {x}) = Rest(c, S) \cup {c[x].value}
<1>1. /\ S = {} => First(S \cup {x}) = x
      /\ S # {} => First(S \cup {x}) = First(S)
  <2>1. \A k \in S : k <= x
    OBVIOUS
  <2> QED BY <2>1, FirstGrows
<1>2. ASSUME S # {} PROVE First(S) # x
  <2>1. First(S) \in S
    BY <1>2, FirstIsLeast
  <2>2. First(S) \in Nat /\ First(S) < x
    BY <2>1
  <2> DEFINE y == First(S)
  <2>3. y \in Nat /\ y < x
    BY <2>2
  <2> HIDE DEF y
  <2>4. y # x
    BY <2>3
  <2> QED BY <2>4 DEF y
<1>3. CASE S = {}
  <2>1. (S \cup {x}) \ {x} = {}
    BY <1>3
  <2> QED BY <1>1, <1>3, <2>1 DEF Rest, Values
<1>4. CASE S # {}
  <2> DEFINE y == First(S)
  <2>1. y # x /\ First(S \cup {x}) = y
    BY <1>1, <1>2, <1>4
  <2> HIDE DEF y
  <2>2. (S \cup {x}) \ {y} = (S \ {y}) \cup {x}
    BY <2>1
  <2>3. Values(c, (S \ {y}) \cup {x}) = Values(c, S \ {y}) \cup {c[x].value}
    BY DEF Values
  <2> QED BY <1>4, <2>1, <2>2, <2>3 DEF Rest, y
<1> QED BY <1>3, <1>4

LEMMA SameRest ==
  ASSUME NEW c, NEW d, NEW S, S \subseteq Nat, \A n \in S : c[n].value = d[n].value
  PROVE  Rest(c, S) = Rest(d, S)
BY DEF Rest, Values

\* The part of a copy that is written stays when more is appended.
LEMMA CopyExtend ==
  ASSUME NEW c \in Seq(Cell), NEW r \in Seq(Cell), NEW s \in Seq(Cell), NEW j,
         NEW b \in Nat, NEW n \in Nat, Copy(c, r, j, b, n),
         Len(s) >= n, \A k \in 1..n : s[k] = r[k]
  PROVE  Copy(c, s, j, b, n)
<1>1. /\ n >= 1 /\ n <= Len(r) /\ r[1].value = j.value
      /\ n = 1 + Cardinality(Upto(Keep(c, j.index), b))
      /\ \A k \in 1..n : r[k].value \in Value
      /\ \A k \in 1..n : r[k].index = j.index <=> k = 1
  BY DEF Copy
<1>2. Len(s) \in Nat /\ Len(r) \in Nat /\ n <= Len(s) /\ 1 \in 1..n
  BY <1>1, CellSets
<1>3. /\ s[1].value = j.value
      /\ \A k \in 1..n : s[k].value \in Value
      /\ \A k \in 1..n : s[k].index = j.index <=> k = 1
  BY <1>1, <1>2
<1>4. ASSUME NEW i \in Index \ {j.index}
      PROVE  LET P == Upto(Active(c, i), b)
                 R == Upto(Active(s, i), n)
             IN  /\ P = {} <=> R = {}
                 /\ P # {} => s[First(R)].value = c[First(P)].value
                 /\ Rest(c, P) = Rest(s, R)
  <2> DEFINE P == Upto(Active(c, i), b)
             Q == Upto(Active(r, i), n)
             R == Upto(Active(s, i), n)
  <2>1. /\ P = {} <=> Q = {}
        /\ P # {} => r[First(Q)].value = c[First(P)].value
        /\ Rest(c, P) = Rest(r, Q)
    BY DEF Copy
  <2>2. Q = R /\ Q \subseteq 1..n /\ Q \subseteq Nat
    <3>1. \A k : k \in 1..Len(r) /\ k <= n <=> k \in 1..n
      BY <1>1, <1>2
    <3>2. \A k : k \in 1..Len(s) /\ k <= n <=> k \in 1..n
      BY <1>2
    <3> QED BY <3>1, <3>2 DEF Upto, Active
  <2> HIDE DEF P, Q, R
  <2>3. P # {} => First(Q) \in 1..n
    BY <2>1, <2>2, FirstIsLeast
  <2>4. P # {} => s[First(R)].value = c[First(P)].value
    BY <2>1, <2>2, <2>3
  <2>5. Rest(s, R) = Rest(r, Q)
    <3>1. \A k \in Q : s[k].value = r[k].value
      BY <2>2
    <3> QED BY <2>2, <3>1, SameRest
  <2> QED BY <2>1, <2>2, <2>4, <2>5 DEF P, R
<1> QED BY <1>1, <1>2, <1>3, <1>4 DEF Copy

\* One cell more is copied.
LEMMA CopyNext ==
  ASSUME NEW c \in Seq(Cell), NEW r \in Seq(Cell), NEW j, NEW n \in Nat,
         NEW a \in Keep(c, j.index), Copy(c, r, j, a - 1, n), n + 1 <= Len(r),
         r[n + 1] = [flag |-> "active", index |-> c[a].index, value |-> c[a].value],
         c[a].value \in Value
  PROVE  Copy(c, r, j, a, n + 1)
<1>1. /\ n >= 1 /\ r[1].value = j.value
      /\ n = 1 + Cardinality(Upto(Keep(c, j.index), a - 1))
      /\ \A k \in 1..n : r[k].value \in Value
      /\ \A k \in 1..n : r[k].index = j.index <=> k = 1
  BY DEF Copy
<1>2. /\ a \in Nat /\ a >= 1 /\ a \in 1..Len(c) /\ c[a].flag = "active"
      /\ c[a].index # j.index /\ Len(r) \in Nat /\ Len(c) \in Nat
  <2>1. Len(r) \in Nat /\ Len(c) \in Nat
    BY CellSets
  <2>2. a \in 1..Len(c) /\ c[a].flag = "active" /\ c[a].index # j.index
    BY DEF Keep, Live
  <2> QED BY <2>1, <2>2
<1>3. r[n + 1].flag = "active" /\ r[n + 1].index = c[a].index /\ r[n + 1].value = c[a].value
  OBVIOUS
<1>4. \A k \in 1..n + 1 : k \in 1..n \/ k = n + 1
  OBVIOUS
<1>5. /\ \A k \in 1..n + 1 : r[k].value \in Value
      /\ \A k \in 1..n + 1 : r[k].index = j.index <=> k = 1
  <2>1. n + 1 # 1
    BY <1>1
  <2> QED BY <1>1, <1>2, <1>3, <1>4, <2>1
<1>6. n + 1 = 1 + Cardinality(Upto(Keep(c, j.index), a))
  <2> DEFINE K == Keep(c, j.index)
  <2>1. K \subseteq Nat /\ IsFiniteSet(K) /\ a \in K
    BY CellSets, CellCards
  <2> HIDE DEF K
  <2>2. /\ Cardinality(Upto(K, a)) = Cardinality(Upto(K, a - 1)) + 1
        /\ Cardinality(Upto(K, a - 1)) \in Nat
    BY <1>2, <2>1, UptoNext
  <2> QED BY <1>1, <2>2 DEF K
<1>7. ASSUME NEW i \in Index \ {j.index}
      PROVE  LET P == Upto(Active(c, i), a)
                 R == Upto(Active(r, i), n + 1)
             IN  /\ P = {} <=> R = {}
                 /\ P # {} => r[First(R)].value = c[First(P)].value
                 /\ Rest(c, P) = Rest(r, R)
  <2> DEFINE A == Active(c, i)
             B == Active(r, i)
             P == Upto(A, a)
             O == Upto(A, a - 1)
             R == Upto(B, n + 1)
             Q == Upto(B, n)
  <2>1. /\ O = {} <=> Q = {}
        /\ O # {} => r[First(Q)].value = c[First(O)].value
        /\ Rest(c, O) = Rest(r, Q)
    BY DEF Copy
  <2>2. A \subseteq Nat /\ IsFiniteSet(A) /\ B \subseteq Nat /\ IsFiniteSet(B)
    BY CellSets, CellCards
  <2>3. /\ a \in A <=> c[a].index = i
        /\ n + 1 \in B <=> c[a].index = i
    <3>1. n + 1 \in 1..Len(r)
      BY <1>2
    <3> QED BY <1>2, <1>3, <3>1 DEF Active
  <2>4. O \subseteq Nat /\ Q \subseteq Nat /\ (\A k \in O : k < a) /\ (\A k \in Q : k < n + 1)
    BY <1>2, <2>2 DEF Upto
  <2> HIDE DEF A, B
  <2>5. /\ IsFiniteSet(O) /\ Cardinality(O) \in Nat
        /\ a \notin A => P = O
        /\ a \in A => P = O \cup {a} /\ Cardinality(P) = Cardinality(O) + 1
    BY <1>2, <2>2, UptoNext
  <2>6. /\ IsFiniteSet(Q) /\ Cardinality(Q) \in Nat
        /\ n + 1 \notin B => R = Q
        /\ n + 1 \in B => R = Q \cup {n + 1} /\ Cardinality(R) = Cardinality(Q) + 1
    <3> DEFINE m == n + 1
    <3>1. m - 1 = n /\ m \in Nat
      OBVIOUS
    <3> HIDE DEF m
    <3>2. /\ IsFiniteSet(Upto(B, m - 1)) /\ Cardinality(Upto(B, m - 1)) \in Nat
          /\ m \notin B => Upto(B, m) = Upto(B, m - 1)
          /\ m \in B => /\ Upto(B, m) = Upto(B, m - 1) \cup {m}
                        /\ Cardinality(Upto(B, m)) = Cardinality(Upto(B, m - 1)) + 1
      BY <2>2, <3>1, UptoNext
    <3> QED BY <3>1, <3>2 DEF m
  <2> HIDE DEF O, P, Q, R
  <2>7. CASE c[a].index # i
    <3>1. P = O /\ R = Q
      BY <2>3, <2>5, <2>6, <2>7
    <3>2. /\ P = {} <=> R = {}
          /\ P # {} => r[First(R)].value = c[First(P)].value
          /\ Rest(c, P) = Rest(r, R)
      BY <2>1, <3>1
    <3> QED BY <3>2 DEF P, R, A, B
  <2>8. CASE c[a].index = i
    <3>1. P = O \cup {a} /\ R = Q \cup {n + 1} /\ n + 1 \in Nat
      BY <2>3, <2>5, <2>6, <2>8
    <3>2. /\ O = {} => First(P) = a
          /\ O # {} => First(P) = First(O)
      <4>1. \A k \in O : k <= a
        BY <1>2, <2>4
      <4> QED BY <1>2, <2>4, <3>1, <4>1, FirstGrows
    <3>3. /\ Q = {} => First(R) = n + 1
          /\ Q # {} => First(R) = First(Q)
      <4>1. \A k \in Q : k <= n + 1
        BY <2>4
      <4> QED BY <2>4, <3>1, <4>1, FirstGrows
    <3>4. r[First(R)].value = c[First(P)].value
      BY <1>3, <2>1, <3>2, <3>3
    <3>5. /\ O = {} => Rest(c, P) = {}
          /\ O # {} => Rest(c, P) = Rest(c, O) \cup {c[a].value}
      <4>1. a \in Nat /\ O \subseteq Nat /\ \A k \in O : k < a
        BY <1>2, <2>4
      <4>2. /\ O = {} => Rest(c, O \cup {a}) = {}
            /\ O # {} => Rest(c, O \cup {a}) = Rest(c, O) \cup {c[a].value}
        BY ONLY <4>1, RestGrows, ZenonT(60)
      <4> QED BY <3>1, <4>2
    <3>6. /\ Q = {} => Rest(r, R) = {}
          /\ Q # {} => Rest(r, R) = Rest(r, Q) \cup {r[n + 1].value}
      <4> DEFINE m == n + 1
      <4>1. m \in Nat /\ Q \subseteq Nat /\ \A k \in Q : k < m
        BY <2>4, <3>1
      <4> HIDE DEF m
      <4>2. /\ Q = {} => Rest(r, Q \cup {m}) = {}
            /\ Q # {} => Rest(r, Q \cup {m}) = Rest(r, Q) \cup {r[m].value}
        BY ONLY <4>1, RestGrows, ZenonT(60)
      <4> QED BY <3>1, <4>2 DEF m
    <3>7. Rest(c, P) = Rest(r, R)
      BY <1>3, <2>1, <3>5, <3>6
    <3>8. P # {} /\ R # {}
      BY <3>1
    <3> QED BY <3>4, <3>7, <3>8 DEF P, R, A, B
  <2> QED BY <2>7, <2>8
<1>8. n + 1 >= 1
  OBVIOUS
<1> QED BY <1>1, <1>5, <1>6, <1>7, <1>8 DEF Copy

\* Only cells that are kept count for how far a copy is.
LEMMA CopyBound ==
  ASSUME NEW c \in Seq(Cell), NEW r, NEW j, NEW b, NEW n, NEW d, Copy(c, r, j, b, n),
         \A T \in SUBSET Keep(c, j.index) : Upto(T, d) = Upto(T, b)
  PROVE  Copy(c, r, j, d, n)
<1>1. Upto(Keep(c, j.index), d) = Upto(Keep(c, j.index), b)
  OBVIOUS
<1>2. ASSUME NEW i \in Index \ {j.index}
      PROVE  Upto(Active(c, i), d) = Upto(Active(c, i), b)
  <2>1. Active(c, i) \subseteq Keep(c, j.index)
    BY DEF Active, Keep, Live
  <2> QED BY <2>1
<1> QED BY <1>1, <1>2 DEF Copy

\* The copy goes on at the next cell that is kept, or is complete.
LEMMA CopyJump ==
  ASSUME NEW c \in Seq(Cell), NEW r, NEW j, NEW b \in Nat, NEW n, Copy(c, r, j, b, n)
  PROVE  LET a == After(Keep(c, j.index), b)
         IN  /\ a # 0 => a \in Keep(c, j.index) /\ Copy(c, r, j, a - 1, n)
             /\ a = 0 => Copy(c, r, j, Len(c), n)
<1> DEFINE K == Keep(c, j.index)
           a == After(K, b)
<1>1. K \subseteq Nat /\ 0 \notin K /\ K \subseteq 1..Len(c) /\ Len(c) \in Nat
  BY CellSets
<1> HIDE DEF K
<1>2. a # 0 => a \in K
  BY <1>1, AfterIs
<1>3. ASSUME a # 0 PROVE \A T \in SUBSET K : Upto(T, a - 1) = Upto(T, b)
  BY <1>1, <1>3, UptoAfter
<1>4. ASSUME a = 0 PROVE \A T \in SUBSET K : Upto(T, Len(c)) = Upto(T, b)
  <2> TAKE T \in SUBSET K
  <2>1. Upto(T, b) = T
    BY <1>1, <1>4, UptoAfter
  <2>2. \A k \in T : k <= Len(c)
    BY <1>1
  <2>3. Upto(T, Len(c)) = T
    BY <2>2 DEF Upto
  <2> QED BY <2>1, <2>3
<1> HIDE DEF a
<1>5. a # 0 => Copy(c, r, j, a - 1, n)
  BY <1>3, CopyBound DEF K
<1>6. a = 0 => Copy(c, r, j, Len(c), n)
  BY <1>4, CopyBound DEF K
<1> QED BY <1>2, <1>5, <1>6 DEF a, K

\* The cell of the job comes first.
LEMMA CopyStarts ==
  ASSUME NEW c \in Seq(Cell), NEW r \in Seq(Cell), NEW j, Len(r) = 1,
         r[1].index = j.index, r[1].value = j.value, j.value \in Value
  PROVE  Copy(c, r, j, 0, 1)
<1>1. Upto(Keep(c, j.index), 0) = {} /\ \A i : Upto(Active(c, i), 0) = {}
  BY CellSets DEF Upto, Active, Keep, Live
<1>2. \A k \in 1..1 : k = 1
  OBVIOUS
<1>3. \A i \in Index \ {j.index} : Upto(Active(r, i), 1) = {}
  <2>1. \A k \in 1..Len(r) : k = 1
    BY <1>2
  <2> QED BY <2>1 DEF Upto, Active
<1>4. Cardinality({}) = 0
  BY FS_EmptySet
<1>5. 1 = 1 + Cardinality({})
  BY <1>4
<1>6. /\ \A k \in 1..1 : r[k].value \in Value
      /\ \A k \in 1..1 : r[k].index = j.index <=> k = 1
  BY <1>2
<1>7. ASSUME NEW i \in Index \ {j.index}
      PROVE  /\ Upto(Active(c, i), 0) = {} /\ Upto(Active(r, i), 1) = {}
             /\ Rest(c, Upto(Active(c, i), 0)) = Rest(r, Upto(Active(r, i), 1))
  BY <1>1, <1>3 DEF Rest, Values
<1>8. 1 >= 1 /\ 1 <= Len(r)
  OBVIOUS
<1> QED BY <1>1, <1>5, <1>6, <1>7, <1>8 DEF Copy

LEMMA BackupStep == IInv /\ [Next]_vars => Backup'
<1> SUFFICES ASSUME IInv, [Next]_vars PROVE Backup'
  OBVIOUS
<1>0. Control /\ Job /\ Backup /\ Readable
  BY DEF IInv
<1>a. /\ part \in Seq(Cell) /\ Len(part) \in Nat /\ job.index \in Index
      /\ rcells \in Seq(Cell) /\ Len(rcells) \in Nat /\ at \in Nat
  BY Sets
<1>b. ASSUME pc' \notin {"claim recycle", "save header", "save data", "backup header",
                         "backup data", "mark saved"}
      PROVE  Backup'
  BY <1>b DEF Backup
<1>1. ASSUME NEW i \in Index, NEW v \in Value, Write(i, v) PROVE Backup'
  BY <1>1, <1>b DEF Write, StartWrite
<1>2. ASSUME NEW i \in Index, Delete(i) PROVE Backup'
  BY <1>2, <1>b DEF Delete, Idle
<1>3. CASE WriteHeader \/ WriteData \/ Activate \/ Retire
  BY <1>3, <1>b DEF WriteHeader, WriteData, Activate, Retire
<1>4. CASE EraseRecycle
  BY <1>4 DEF EraseRecycle, Done, Backup
<1>5. CASE ClaimRecycle
  BY <1>0, <1>5 DEF ClaimRecycle, Done, Backup
<1>6. CASE SaveHeader
  <2>1. rcells = <<>> /\ pc' = "save data" /\ job' = job
    BY <1>0, <1>6 DEF SaveHeader, Done, Backup
  <2>2. /\ Len(rcells') = Len(rcells) + 1
        /\ rcells'[Len(rcells) + 1] = [flag |-> "active", index |-> job.index, value |-> Torn]
    BY <1>6, <1>a, AppendCell DEF SaveHeader
  <2>3. Len(rcells) = 0
    BY <2>1
  <2>4. Len(rcells') = 1 /\ Len(rcells) + 1 = 1
    BY ONLY <2>2, <2>3
  <2>5. rcells'[1].index = job'.index
    <3>1. rcells'[Len(rcells) + 1].index = job.index
      BY <2>2
    <3>2. rcells'[1] = rcells'[Len(rcells) + 1]
      BY ONLY <2>4
    <3> QED BY <2>1, <3>1, <3>2
  <2> QED BY <2>1, <2>4, <2>5 DEF Backup
<1>7. ASSUME NEW b \in Nat, NEW n, Copy(part, rcells', job, b, n), n = Len(rcells'),
             BackupAfter(b), part' = part, job' = job
      PROVE  Backup'
  <2> DEFINE a == After(Keep(part, job.index), b)
  <2>1. /\ a # 0 => a \in Keep(part, job.index) /\ Copy(part, rcells', job, a - 1, n)
        /\ a = 0 => Copy(part, rcells', job, Len(part), n)
    BY <1>7, <1>a, CopyJump
  <2>2. at' = a /\ pc' = IF at' = 0 THEN "mark saved" ELSE "backup header"
    BY <1>7 DEF BackupAfter
  <2> HIDE DEF a
  <2>3. CASE a = 0
    BY <1>7, <2>1, <2>2, <2>3 DEF Backup, Copied
  <2>4. CASE a # 0
    BY <1>7, <2>1, <2>2, <2>4 DEF Backup, Copied
  <2> QED BY <2>3, <2>4
<1>8. CASE SaveData
  <2>1. /\ Len(rcells) = 1 /\ rcells[1].index = job.index /\ job.value \in Value
        /\ rcells' = WithData(rcells, job.value) /\ BackupAfter(0) /\ part' = part /\ job' = job
    BY <1>0, <1>8 DEF SaveData, Backup, Job, Copying
  <2>2. Len(rcells) >= 1
    BY ONLY <2>1
  <2>3. /\ rcells' \in Seq(Cell) /\ Len(rcells') = Len(rcells)
        /\ rcells'[Len(rcells)] = [flag |-> rcells[Len(rcells)].flag,
                                   index |-> rcells[Len(rcells)].index, value |-> job.value]
    BY <1>a, <2>1, <2>2, DataCell
  <2>4. Len(rcells') = 1 /\ rcells'[1].index = job.index /\ rcells'[1].value = job.value
    BY <2>1, <2>3
  <2>5. Copy(part, rcells', job, 0, 1)
    BY <1>a, <2>1, <2>3, <2>4, CopyStarts
  <2>6. 0 \in Nat
    OBVIOUS
  <2> QED BY <1>7, <2>1, <2>4, <2>5, <2>6
<1>9. CASE BackupHeader
  <2>1. /\ at \in Keep(part, job.index) /\ Copy(part, rcells, job, at - 1, Len(rcells))
        /\ pc' = "backup data" /\ part' = part /\ job' = job /\ at' = at
        /\ rcells' = Append(rcells, Header("active", part[at].index))
    BY <1>0, <1>9 DEF BackupHeader, Done, Backup, Copied
  <2>2. part[at].index \in Index /\ at \in 1..Len(part)
    BY <1>a, <2>1, CellSets, Sets
  <2>3. /\ rcells' \in Seq(Cell) /\ Len(rcells') = Len(rcells) + 1
        /\ \A n \in 1..Len(rcells) : rcells'[n] = rcells[n]
        /\ rcells'[Len(rcells) + 1] = [flag |-> "active", index |-> part[at].index, value |-> Torn]
    BY <1>a, <2>1, <2>2, AppendCell
  <2>4. Len(rcells') >= Len(rcells) /\ Len(rcells') - 1 = Len(rcells) /\ at - 1 \in Nat
    BY <1>a, <2>2, <2>3
  <2>5. Copy(part, rcells', job, at - 1, Len(rcells))
    BY <1>a, <2>1, <2>3, <2>4, CopyExtend
  <2>6. rcells'[Len(rcells')].index = part[at].index
    BY <2>3
  <2> QED BY <2>1, <2>4, <2>5, <2>6 DEF Backup, Copied
<1>10. CASE BackupData
  <2> DEFINE n == Len(rcells) - 1
  <2>1. /\ at \in Keep(part, job.index) /\ Copy(part, rcells, job, at - 1, n)
        /\ rcells[Len(rcells)].index = part[at].index /\ part' = part /\ job' = job
        /\ rcells' = WithData(rcells, part[at].value) /\ BackupAfter(at)
        /\ rflag # "saved"
    BY <1>0, <1>10 DEF BackupData, Backup, Copied, Control, Emptying, Restoring
  <2>2. n >= 1
    BY <2>1 DEF Copy
  <2>3. n \in Nat /\ n + 1 = Len(rcells) /\ Len(rcells) >= 1 /\ Len(rcells) \in 1..Len(rcells)
    BY <1>a, <2>2
  <2> HIDE DEF n
  <2>4. at \in 1..Len(part) /\ part[at].value \in Value
    <3>1. at \in 1..Len(part) /\ part[at].flag = "active"
      BY <2>1 DEF Keep, Live
    <3> QED BY <1>0, <2>1, <3>1 DEF Readable
  <2>5. /\ rcells' \in Seq(Cell) /\ Len(rcells') = Len(rcells)
        /\ \A k \in 1..Len(rcells) : k # Len(rcells) => rcells'[k] = rcells[k]
        /\ rcells'[Len(rcells)] = [flag |-> rcells[Len(rcells)].flag,
                                   index |-> rcells[Len(rcells)].index, value |-> part[at].value]
    BY <1>a, <2>1, <2>3, <2>4, DataCell
  <2>6. rcells[Len(rcells)].flag = "active"
    BY <1>0, <2>3 DEF Readable
  <2>7. rcells'[n + 1] = [flag |-> "active", index |-> part[at].index, value |-> part[at].value]
    BY <2>1, <2>3, <2>5, <2>6
  <2>8. Copy(part, rcells', job, at - 1, n)
    <3>1. \A k \in 1..n : k \in 1..Len(rcells) /\ k # Len(rcells)
      BY <1>a, <2>3
    <3>2. Len(rcells') >= n /\ at - 1 \in Nat
      BY <1>a, <2>3, <2>4, <2>5
    <3> QED BY <1>a, <2>1, <2>3, <2>5, <3>1, <3>2, CopyExtend
  <2>9. Copy(part, rcells', job, at, n + 1)
    <3>1. n + 1 <= Len(rcells')
      BY <1>a, <2>3, <2>5
    <3> QED BY <1>a, <2>1, <2>3, <2>4, <2>5, <2>7, <2>8, <3>1, CopyNext
  <2> QED BY <1>7, <1>a, <2>1, <2>3, <2>5, <2>9
<1>11. CASE MarkSaved \/ ErasePart \/ RestoreHeader \/ Release
  BY <1>11, <1>b DEF MarkSaved, ErasePart, RestoreHeader, Release, Done
<1>12. CASE MarkPart
  BY <1>12, <1>b, MarkPartWrites
<1>13. CASE RestoreData \/ ResetSystem \/ PowerCut \/ Boot
  BY <1>13, <1>b DEF RestoreData, ResetSystem, PowerCut, Boot
<1>14. CASE Booted
  BY <1>14, <1>b DEF Booted
<1>15. CASE UNCHANGED vars
  BY <1>0, <1>15 DEF vars, Backup, Copied
<1> QED BY <1>1, <1>2, <1>3, <1>4, <1>5, <1>6, <1>8, <1>9, <1>10, <1>11, <1>12, <1>13,
           <1>14, <1>15 DEF Next

LEMMA RestoreStep == IInv /\ [Next]_vars => Restore'
<1> SUFFICES ASSUME IInv, [Next]_vars PROVE Restore'
  OBVIOUS
<1>0. Control /\ Restore /\ Readable
  BY DEF IInv
<1>a. /\ part \in Seq(Cell) /\ Len(part) \in Nat
      /\ rcells \in Seq(Cell) /\ Len(rcells) \in Nat
  BY Sets
<1>b. ASSUME pc' \notin {"restore header", "restore data", "release"} PROVE Restore'
  BY <1>b DEF Restore
<1>1. ASSUME NEW i \in Index, NEW v \in Value, Write(i, v) PROVE Restore'
  BY <1>1, <1>b DEF Write, StartWrite
<1>2. ASSUME NEW i \in Index, Delete(i) PROVE Restore'
  BY <1>2, <1>b DEF Delete, Idle
<1>3. CASE WriteHeader \/ WriteData \/ Activate \/ Retire
  BY <1>3, <1>b DEF WriteHeader, WriteData, Activate, Retire
<1>4. CASE EraseRecycle \/ ClaimRecycle \/ SaveHeader \/ BackupHeader \/ MarkSaved \/ ErasePart
           \/ Release
  BY <1>4, <1>b DEF EraseRecycle, ClaimRecycle, SaveHeader, BackupHeader, MarkSaved, ErasePart,
                    Release, Done
<1>5. CASE SaveData \/ BackupData
  BY <1>5, <1>b DEF SaveData, BackupData, BackupAfter
<1>6. CASE MarkPart
  <2>1. CASE rflag = "saved"
    <3>1. /\ pc' = "restore header" /\ at' = 1 /\ part' = <<>> /\ rcells' = rcells
          /\ Len(rcells) >= 1
      BY <1>0, <1>6, <2>1, MarkPartWrites DEF MarkPart, Control, Readable
    <3>2. Len(part') = 0
      BY <3>1
    <3>3. at' \in 1..Len(rcells') /\ Len(part') = at' - 1 /\ at' - 1 <= Len(rcells')
          /\ 1..(at' - 1) = {}
      <4>1. at' = 1 /\ Len(rcells') \in Nat /\ Len(rcells') >= 1
        BY <1>a, <3>1
      <4> QED BY ONLY <4>1, <3>2
    <3> QED BY <3>1, <3>3 DEF Restore, Restored
  <2>2. CASE rflag # "saved"
    BY <1>6, <1>b, <2>2, MarkPartWrites
  <2> QED BY <2>1, <2>2
<1>7. CASE RestoreHeader
  <2>1. /\ at \in 1..Len(rcells) /\ Len(part) = at - 1 /\ Restored(at - 1)
        /\ pc' = "restore data" /\ at' = at /\ rcells' = rcells
        /\ part' = Append(part, Header("active", rcells[at].index))
    BY <1>0, <1>7 DEF RestoreHeader, Done, Restore
  <2>2. rcells[at].index \in Index
    BY <2>1, Sets
  <2>3. /\ part' \in Seq(Cell) /\ Len(part') = Len(part) + 1
        /\ \A n \in 1..Len(part) : part'[n] = part[n]
        /\ part'[Len(part) + 1] = [flag |-> "active", index |-> rcells[at].index, value |-> Torn]
    BY <1>a, <2>1, <2>2, AppendCell
  <2>a. at \in 1..Len(rcells) /\ Len(part) = at - 1 /\ Len(part') = Len(part) + 1
    BY <2>1, <2>3
  <2>4. Len(part) + 1 = at /\ Len(part') = at
    BY ONLY <1>a, <2>a
  <2>5. part'[at].flag = "active" /\ part'[at].index = rcells[at].index
    BY <2>3, <2>4
  <2>6. at - 1 <= Len(rcells) /\ \A k \in 1..(at - 1) : part'[k] = rcells[k]
    BY <2>1, <2>3 DEF Restored
  <2> QED BY <2>1, <2>4, <2>5, <2>6 DEF Restore, Restored
<1>8. CASE RestoreData
  <2>1. /\ at \in 1..Len(rcells) /\ Len(part) = at /\ Restored(at - 1)
        /\ part[at].flag = "active" /\ part[at].index = rcells[at].index
        /\ rcells' = rcells /\ part' = WithData(part, rcells[at].value)
        /\ at' = After(Live(rcells), at)
        /\ pc' = IF at' = 0 THEN "release" ELSE "restore header"
        /\ rflag = "saved"
    BY <1>0, <1>8 DEF RestoreData, Restore, Control, Restoring
  <2>2. /\ rcells[at] \in Cell /\ rcells[at].value \in Value /\ rcells[at].flag = "active"
    BY <1>0, <1>a, <2>1, Sets DEF Readable
  <2>a. at \in 1..Len(rcells) /\ Len(part) = at
    BY <2>1
  <2>b. Len(part) >= 1 /\ at \in Nat /\ at <= Len(rcells)
    BY ONLY <1>a, <2>a
  <2>3. /\ part' \in Seq(Cell) /\ Len(part') = Len(part)
        /\ \A n \in 1..Len(part) : n # Len(part) => part'[n] = part[n]
        /\ part'[Len(part)] = [flag |-> part[Len(part)].flag,
                               index |-> part[Len(part)].index, value |-> rcells[at].value]
    <3>1. part' = WithData(part, rcells[at].value) /\ rcells[at].value \in Value \cup {Torn}
      BY <2>1, <2>2
    <3> QED BY <1>a, <2>b, <3>1, DataCell
  <2>4. part'[at] = rcells[at]
    <3>1. part'[at] = [flag |-> rcells[at].flag, index |-> rcells[at].index,
                       value |-> rcells[at].value]
      BY <2>1, <2>2, <2>3
    <3>2. rcells[at] = [flag |-> rcells[at].flag, index |-> rcells[at].index,
                        value |-> rcells[at].value]
      BY <2>2 DEF Cell
    <3> QED BY <3>1, <3>2
  <2>5. at <= Len(rcells) /\ \A k \in 1..at : part'[k] = rcells[k]
    <3>1. \A k \in 1..at : k = at \/ (k \in 1..(at - 1) /\ k # at /\ k \in 1..at)
      BY ONLY <2>b
    <3>2. \A k \in 1..(at - 1) : k # at /\ k \in 1..at => part'[k] = rcells[k]
      BY <2>1, <2>3 DEF Restored
    <3> QED BY <2>4, <2>b, <3>1, <3>2
  <2> DEFINE a == After(1..Len(rcells), at)
  <2>6. at' = a
    <3>1. Live(rcells) = 1..Len(rcells)
      BY <1>0 DEF Readable, Live
    <3> QED BY <2>1, <3>1
  <2>7. /\ a = 0 => at = Len(rcells)
        /\ a # 0 => a \in 1..Len(rcells) /\ a - 1 = at
    <3> DEFINE S == 1..Len(rcells)
    <3>1. S \subseteq Nat /\ 0 \notin S
      BY <1>a
    <3> HIDE DEF S
    <3>2. /\ a = 0 => \A k \in S : k <= at
          /\ a # 0 => a \in S /\ a > at /\ \A k \in S : k > at => a <= k
      BY <2>b, <3>1, AfterIs DEF S
    <3> HIDE DEF a
    <3>3. a = 0 => at = Len(rcells)
      BY ONLY <1>a, <2>a, <2>b, <3>2 DEF S
    <3>4. ASSUME a # 0 PROVE a \in 1..Len(rcells) /\ a - 1 = at
      <4>1. a \in 1..Len(rcells) /\ a > at /\ \A k \in 1..Len(rcells) : k > at => a <= k
        BY <3>2, <3>4 DEF S
      <4>2. at + 1 \in 1..Len(rcells) /\ at + 1 > at
        BY ONLY <1>a, <2>a, <2>b, <4>1
      <4>3. a <= at + 1
        BY <4>1, <4>2
      <4> QED BY ONLY <1>a, <2>b, <4>1, <4>3
    <3> QED BY <3>3, <3>4
  <2> HIDE DEF a
  <2>8. CASE a = 0
    BY <2>1, <2>3, <2>5, <2>6, <2>7, <2>8 DEF Restore, Restored
  <2>9. CASE a # 0
    BY <2>1, <2>3, <2>5, <2>6, <2>7, <2>9 DEF Restore, Restored
  <2> QED BY <2>8, <2>9
<1>9. CASE ResetSystem \/ PowerCut \/ Boot
  BY <1>9, <1>b DEF ResetSystem, PowerCut, Boot
<1>10. CASE Booted
  BY <1>10, <1>b DEF Booted
<1>11. CASE UNCHANGED vars
  BY <1>0, <1>11 DEF vars, Restore, Restored
<1> QED BY <1>1, <1>2, <1>3, <1>4, <1>5, <1>6, <1>7, <1>8, <1>9, <1>10, <1>11 DEF Next

-----------------------------------------------------------------------------
(***************************************************************************)
(* What a reader finds.                                                    *)
(***************************************************************************)
LEMMA ReadIn ==
  ASSUME NEW c \in Seq(Cell), NEW i,
         \A n \in 1..Len(c) : c[n].flag = "active" => c[n].value \in Value
  PROVE  /\ Active(c, i) = {} => Read(c, i) = None
         /\ Active(c, i) # {} => Read(c, i) \in Value
<1>1. CASE Active(c, i) = {}
  BY <1>1 DEF Search, Read
<1>2. CASE Active(c, i) # {}
  <2>1. Search(c, i) \in Active(c, i) /\ Search(c, i) # 0
    BY <1>2, SearchFinds
  <2>2. Search(c, i) \in 1..Len(c) /\ c[Search(c, i)].flag = "active"
    BY <2>1 DEF Active
  <2> QED BY <1>2, <2>1, <2>2 DEF Read
<1> QED BY <1>1, <1>2

\* The contents are readable, wherever they are.
LEMMA ContentsReadable ==
  ASSUME IInv, NEW i \in Index
  PROVE  /\ Active(Contents, i) = {} => Stored[i] = None
         /\ Active(Contents, i) # {} => Stored[i] \in Value
<1>1. Contents \in Seq(Cell)
  BY Sets DEF Contents
<1>2. \A n \in 1..Len(Contents) : Contents[n].flag = "active" => Contents[n].value \in Value
  BY DEF IInv, Readable, Contents
<1>3. /\ Active(Contents, i) = {} => Read(Contents, i) = None
      /\ Active(Contents, i) # {} => Read(Contents, i) \in Value
  BY <1>1, <1>2, ReadIn
<1> QED BY <1>3 DEF Stored

LEMMA StoredType == IInv => Stored \in [Index -> Value \cup {None}]
<1> SUFFICES ASSUME IInv PROVE Stored \in [Index -> Value \cup {None}]
  OBVIOUS
<1>1. \A i \in Index : Stored[i] \in Value \cup {None}
  BY ContentsReadable
<1> QED BY <1>1 DEF Stored

\* What lies under the value that is read, where no cell waits to be retired.
LEMMA UnderIs ==
  ASSUME NEW i \in Index
  PROVE  /\ pc # "retire" \/ job.index # i =>
              Under[i] = Rest(Contents, Active(Contents, i))
         /\ pc' # "retire" \/ job'.index # i =>
              Under'[i] = Rest(Contents', Active(Contents', i))
<1>1. ASSUME NEW c, NEW S, S = Active(c, i)
      PROVE  {c[n].value : n \in S \ {Search(c, i)}} = Rest(c, S)
  <2>1. S # {} => Search(c, i) = First(S)
    BY <1>1 DEF Search
  <2>2. CASE S = {}
    BY <2>2 DEF Rest, Values
  <2>3. CASE S # {}
    BY <2>1, <2>3 DEF Rest, Values
  <2> QED BY <2>2, <2>3
<1>2. ASSUME pc # "retire" \/ job.index # i PROVE Under[i] = Rest(Contents, Active(Contents, i))
  <2>1. Settled(i) = Active(Contents, i)
    BY <1>2 DEF Settled
  <2>2. Under[i] = {Contents[n].value : n \in Settled(i) \ {Search(Contents, i)}}
    BY DEF Under
  <2> QED BY <1>1, <2>1, <2>2
<1>3. ASSUME pc' # "retire" \/ job'.index # i
      PROVE  Under'[i] = Rest(Contents', Active(Contents', i))
  <2>1. Settled(i)' = Active(Contents', i)
    BY <1>3 DEF Settled
  <2>2. Under'[i] = {Contents'[n].value : n \in Settled(i)' \ {Search(Contents', i)}}
    BY DEF Under
  <2> QED BY <1>1, <2>1, <2>2
<1> QED BY <1>2, <1>3

\* A step that leaves what is read and what lies under it.
LEMMA SameStore ==
  ASSUME \A i \in Index : Read(Contents', i) = Read(Contents, i) /\ Under'[i] = Under[i]
  PROVE  Stored' = Stored /\ Under' = Under
<1>1. Stored' = Stored
  BY DEF Stored
<1>2. Under = [i \in Index |-> Under[i]] /\ Under' = [i \in Index |-> Under'[i]]
  BY DEF Under
<1> QED BY <1>1, <1>2

LEMMA SameContents ==
  ASSUME Contents' = Contents, pc # "retire", pc' # "retire"
  PROVE  Stored' = Stored /\ Under' = Under
<1>1. \A i \in Index : Under'[i] = Under[i]
  BY UnderIs
<1> QED BY <1>1, SameStore

\* The contents are those of the partition, and no cell is about to be retired.
LEMMA SamePart ==
  ASSUME rflag # "saved", rflag' # "saved", pc # "retire", pc' # "retire",
         \A i : Active(part', i) = Active(part, i) /\ Read(part', i) = Read(part, i),
         \A i : Rest(part', Active(part, i)) = Rest(part, Active(part, i))
  PROVE  Stored' = Stored /\ Under' = Under
<1>1. Contents = part /\ Contents' = part'
  BY DEF Contents
<1>2. \A i \in Index : Under'[i] = Under[i] /\ Read(Contents', i) = Read(Contents, i)
  BY <1>1, UnderIs
<1> QED BY <1>2, SameStore

\* One index is read anew.
LEMMA OneRead ==
  ASSUME NEW x \in Index, \A i \in Index : i # x => Read(Contents', i) = Read(Contents, i)
  PROVE  Stored' = [Stored EXCEPT ![x] = Read(Contents', x)]
BY DEF Stored

LEMMA OneUnder ==
  ASSUME NEW x \in Index, \A i \in Index : i # x => Under'[i] = Under[i]
  PROVE  Under' = [Under EXCEPT ![x] = Under'[x]]
<1>1. Under = [i \in Index |-> Under[i]] /\ Under' = [i \in Index |-> Under'[i]]
  BY DEF Under
<1> QED BY <1>1

LEMMA OneCell ==
  ASSUME NEW c, NEW l \in Nat
  PROVE  Rest(c, {l}) = {}
<1>1. First({l}) = l
  <2>1. {l} \subseteq Nat /\ l \in {l} /\ \A k \in {l} : l <= k
    OBVIOUS
  <2> QED BY <2>1, LeastIsFirst
<1>2. {l} \ {l} = {}
  OBVIOUS
<1> QED BY <1>1, <1>2 DEF Rest, Values

\* One cell less.
LEMMA DropOne ==
  ASSUME NEW c, NEW S, NEW f \in S
  PROVE  /\ Values(c, S \ {f}) \in {Values(c, S), Values(c, S) \ {c[f].value}}
         /\ Values(c, S) = Values(c, S \ {f}) \cup {c[f].value}
<1>1. Values(c, S) = Values(c, S \ {f}) \cup {c[f].value}
  BY DEF Values
<1>2. CASE c[f].value \in Values(c, S \ {f})
  BY <1>1, <1>2
<1>3. CASE c[f].value \notin Values(c, S \ {f})
  BY <1>1, <1>3
<1> QED BY <1>1, <1>2, <1>3

\* The flag of a cell does not change what else is read.
LEMMA FlagReads ==
  ASSUME NEW c \in Seq(Cell), NEW k \in 1..Len(c), NEW i, k \notin Active(c, i),
         NEW f \in {"active", "invalid"}, f = "active" => c[k].index # i
  PROVE  LET d == SetFlag(c, k, f)
         IN  /\ Active(d, i) = Active(c, i) /\ Read(d, i) = Read(c, i)
             /\ Rest(d, Active(c, i)) = Rest(c, Active(c, i))
<1> DEFINE d == SetFlag(c, k, f)
<1>0. f \in {"writing", "active", "invalid"}
  OBVIOUS
<1>1. d \in Seq(Cell) /\ \A n \in 1..Len(c) : n # k => d[n] = c[n]
  BY <1>0, FlagCell
<1>2. Active(d, i) = Active(c, i)
  <2>1. CASE f = "active"
    <3>1. \A j : Active(d, j) = IF j = c[k].index THEN Active(c, j) \cup {k} ELSE Active(c, j)
      BY <2>1, FlagActive
    <3> QED BY <2>1, <3>1
  <2>2. CASE f = "invalid"
    <3>1. \A j : Active(d, j) = Active(c, j) \ {k}
      BY <2>2, FlagInvalid
    <3> QED BY <3>1
  <2> QED BY <2>1, <2>2
<1>3. \A n \in Active(c, i) : n \in 1..Len(c) /\ n # k
  BY DEF Active
<1> HIDE DEF d
<1>4. Read(d, i) = Read(c, i)
  BY <1>1, <1>2, <1>3, SameRead
<1>5. Rest(d, Active(c, i)) = Rest(c, Active(c, i))
  <2>1. \A n \in Active(c, i) : d[n].value = c[n].value
    BY <1>1, <1>3
  <2>2. Active(c, i) \subseteq Nat
    BY CellSets
  <2> QED BY <2>1, <2>2, SameRest
<1> QED BY <1>2, <1>4, <1>5 DEF d

\* The write of an index that was not there: what is read changes as the flag does.
LEMMA FirstWrite ==
  ASSUME IInv, Activate, old = 0
  PROVE  /\ Stored' = [Stored EXCEPT ![job.index] = job.value]
         /\ Under' = [Under EXCEPT ![job.index] = {}]
<1>0. PICK x : x = job.index
  OBVIOUS
<1> DEFINE l == Len(part)
<1>1. /\ pc = "activate" /\ pc' = "none" /\ part' = SetFlag(part, l, "active")
      /\ rflag # "saved" /\ rflag' = rflag /\ l >= 1 /\ part[l].index = x
      /\ part[l].value = job.value /\ Search(part, x) = 0
  BY <1>0 DEF Activate, IInv, Job, Control, Writing, Emptying, Restoring
<1>2. part \in Seq(Cell) /\ l \in Nat /\ l \in 1..l /\ x \in Index
  BY <1>0, <1>1, Sets
<1>3. Active(part, x) = {}
  BY <1>1, <1>2, SearchFinds
<1>4. \A i : Active(part', i) = IF i = part[l].index THEN Active(part, i) \cup {l}
                                                     ELSE Active(part, i)
  BY <1>1, <1>2, FlagActive
<1>5. /\ part' \in Seq(Cell) /\ Len(part') = l
      /\ part'[l] = [flag |-> "active", index |-> part[l].index, value |-> part[l].value]
  <2>1. part' = SetFlag(part, l, "active")
    BY <1>1
  <2> QED BY <1>2, <2>1, FlagCell
<1>6. Contents = part /\ Contents' = part'
  BY <1>1 DEF Contents
<1>7. ASSUME NEW i, i # x
      PROVE  /\ Active(part', i) = Active(part, i) /\ Read(part', i) = Read(part, i)
             /\ Rest(part', Active(part, i)) = Rest(part, Active(part, i))
  <2>1. l \notin Active(part, i) /\ part[l].index # i
    BY <1>1, <1>7 DEF Active
  <2> QED BY <1>1, <1>2, <2>1, FlagReads
<1> HIDE DEF l
<1>8. Active(part', x) = {l}
  BY <1>1, <1>3, <1>4
<1>9. Read(part', x) = job.value
  <2>1. l \in Active(part', x) /\ \A k \in Active(part', x) : l <= k
    BY <1>2, <1>8
  <2>2. Read(part', x) = part'[l].value
    BY <1>5, <2>1, ReadOne
  <2> QED BY <1>1, <1>5, <2>2
<1>10. Stored' = [Stored EXCEPT ![x] = job.value]
  BY <1>2, <1>6, <1>7, <1>9, OneRead
<1>11. Under'[x] = {}
  BY <1>1, <1>2, <1>6, <1>8, UnderIs, OneCell
<1>12. \A i \in Index : i # x => Under'[i] = Under[i]
  BY <1>1, <1>6, <1>7, UnderIs
<1>13. Under' = [Under EXCEPT ![x] = {}]
  BY <1>2, <1>11, <1>12, OneUnder
<1> QED BY <1>0, <1>10, <1>13

\* The write of an index that is there: nothing changes until the old cell is retired.
LEMMA LaterWrite ==
  ASSUME IInv, Activate, old # 0
  PROVE  Stored' = Stored /\ Under' = Under
<1>0. PICK x : x = job.index
  OBVIOUS
<1> DEFINE l == Len(part)
<1>1. /\ pc = "activate" /\ pc' = "retire" /\ part' = SetFlag(part, l, "active")
      /\ rflag # "saved" /\ rflag' = rflag /\ l >= 1 /\ part[l].index = x
      /\ part[l].flag = "writing" /\ Search(part, x) = old
      /\ job' = job /\ old' = old /\ job.index = x
  BY <1>0 DEF Activate, IInv, Job, Control, Writing, Emptying, Restoring, call
<1>2. part \in Seq(Cell) /\ l \in Nat /\ l \in 1..l /\ x \in Index
  BY <1>1, Sets
<1>3. Contents = part /\ Contents' = part'
  BY <1>1 DEF Contents
<1>4. \A i : Active(part', i) = IF i = part[l].index THEN Active(part, i) \cup {l}
                                                     ELSE Active(part, i)
  BY <1>1, <1>2, FlagActive
<1>5. l \notin Active(part, x) /\ Active(part', x) = Active(part, x) \cup {l}
  BY <1>1, <1>4 DEF Active
<1>6. ASSUME NEW i \in Index, i # x
      PROVE  /\ Read(part', i) = Read(part, i) /\ Active(part', i) = Active(part, i)
             /\ Rest(part', Active(part, i)) = Rest(part, Active(part, i))
  <2>1. l \notin Active(part, i) /\ part[l].index # i
    BY <1>1, <1>6 DEF Active
  <2> QED BY <1>1, <1>2, <2>1, FlagReads
<1>7. /\ part' \in Seq(Cell) /\ Len(part') = l
      /\ \A n \in 1..Len(part) : n # l => part'[n] = part[n]
  <2>1. part' = SetFlag(part, l, "active")
    BY <1>1
  <2> QED BY <1>2, <2>1, FlagCell
<1>8. Search(part', x) = old
  <2>1. Job'
    BY JobStep DEF Next
  <2> QED BY <1>1, <2>1 DEF Job
<1>9. \A n \in Active(part, x) : n \in 1..Len(part) /\ n # l /\ part'[n] = part[n]
  BY <1>5, <1>7 DEF Active
<1>10. Read(part', x) = Read(part, x)
  <2>1. old \in Active(part, x)
    BY <1>1, <1>2, SearchFinds
  <2> QED BY <1>1, <1>8, <1>9, <2>1 DEF Read
<1>11. Under'[x] = Under[x]
  <2> DEFINE A == Active(part, x)
  <2>1. Settled(x) = A
    BY <1>1, <1>3 DEF Settled
  <2>2. Settled(x)' = Active(part', x) \ {l}
    BY <1>1, <1>3, <1>7 DEF Settled
  <2>3. Settled(x)' = A
    BY <1>5, <2>2
  <2>4. Under[x] = {part[n].value : n \in A \ {old}}
    BY <1>1, <1>2, <1>3, <2>1 DEF Under
  <2>5. Under'[x] = {part'[n].value : n \in A \ {old}}
    BY <1>2, <1>3, <1>8, <2>3 DEF Under
  <2>6. \A n \in A \ {old} : part'[n].value = part[n].value
    BY <1>9
  <2> QED BY <2>4, <2>5, <2>6
<1>12. \A i \in Index : i # x => Under'[i] = Under[i]
  BY <1>1, <1>3, <1>6, UnderIs
<1> QED BY <1>3, <1>6, <1>10, <1>11, <1>12, SameStore

\* Until the old cell is retired, the new one does not count.
LEMMA UnderRetire ==
  ASSUME IInv, pc = "retire"
  PROVE  Under[job.index] =
           Values(part, (Active(part, job.index) \ {old}) \ {Len(part)})
<1>1. Contents = part /\ Search(part, job.index) = old /\ job.index \in Index
  BY Sets DEF Contents, IInv, Job, Control, Emptying, Restoring
<1>2. Settled(job.index) = Active(part, job.index) \ {Len(part)}
  BY <1>1 DEF Settled
<1>3. Settled(job.index) \ {old} = (Active(part, job.index) \ {old}) \ {Len(part)}
  BY <1>2
<1> QED BY <1>1, <1>3 DEF Under, Values

\* The old cell is retired: the new value is read, or one that lay under the old.
LEMMA RetireWrites ==
  ASSUME IInv, Retire
  PROVE  Abstract!Put(job.index, job.value)
<1>0. PICK x : x = job.index
  OBVIOUS
<1> DEFINE l == Len(part)
           S == Active(part, x)
           T == Active(part', x)
<1>1. /\ pc = "retire" /\ pc' = "none" /\ part' = SetFlag(part, old, "invalid")
      /\ rflag # "saved" /\ rflag' = rflag /\ l >= 1 /\ old # l
      /\ Search(part, x) = old /\ old # 0
      /\ part[l] = [flag |-> "active", index |-> x, value |-> job.value]
      /\ job' = job /\ job.index = x
  BY <1>0 DEF Retire, IInv, Job, Control, Emptying, Restoring, call
<1>2. part \in Seq(Cell) /\ l \in Nat /\ l \in 1..l /\ x \in Index
  BY <1>1, Sets
<1>3. Contents = part /\ Contents' = part'
  BY <1>1 DEF Contents
<1>4. old \in S /\ old \in 1..l
  BY <1>1, <1>2, SearchFinds DEF Active
<1>5. T = S \ {old} /\ \A n \in 1..Len(part) : part'[n].value = part[n].value
  BY <1>1, <1>2, <1>4, FlagInvalid
<1>6. l \in T /\ T \subseteq 1..l /\ T \subseteq Nat
  <2>1. part[l].flag = "active" /\ part[l].index = x
    BY <1>1
  <2>2. l \in S
    BY <1>2, <2>1 DEF Active
  <2>3. S \subseteq 1..l /\ S \subseteq Nat
    BY <1>2, CellSets
  <2> HIDE DEF l, S
  <2> QED BY <1>1, <1>5, <2>2, <2>3
<1>7. part' \in Seq(Cell)
  <2>1. part' = SetFlag(part, old, "invalid")
    BY <1>1
  <2> QED BY <1>2, <1>4, <2>1, FlagCell
<1>8. ASSUME NEW i \in Index, i # x
      PROVE  /\ Read(part', i) = Read(part, i) /\ Active(part', i) = Active(part, i)
             /\ Rest(part', Active(part, i)) = Rest(part, Active(part, i))
  <2>1. old \notin Active(part, i)
    BY <1>4, <1>8 DEF Active
  <2> QED BY <1>1, <1>2, <1>4, <2>1, FlagReads
<1>9. Stored' = [Stored EXCEPT ![x] = Read(part', x)]
  BY <1>2, <1>3, <1>8, OneRead
<1>10. Under' = [Under EXCEPT ![x] = Under'[x]]
  <2>1. \A i \in Index : i # x => Under'[i] = Under[i]
    BY <1>1, <1>3, <1>8, UnderIs
  <2> QED BY <1>2, <2>1, OneUnder
<1>11. Under[x] = Values(part', T \ {l})
  <2>1. Under[x] = Values(part, T \ {l})
    BY <1>1, <1>5, UnderRetire
  <2>2. \A n \in T \ {l} : part'[n].value = part[n].value
    BY <1>5, <1>6
  <2> QED BY <2>1, <2>2 DEF Values
<1>12. Under'[x] = Values(part', T \ {First(T)})
  BY <1>1, <1>2, <1>3, UnderIs DEF Rest
<1>13. part'[l].value = job.value
  BY <1>1, <1>2, <1>5
<1>14. First(T) \in T /\ (\A k \in T : First(T) <= k) /\ Read(part', x) = part'[First(T)].value
  <2>1. First(T) \in T /\ \A k \in T : First(T) <= k
    <3> HIDE DEF T
    <3> QED BY <1>6, FirstIsLeast
  <2> QED BY <1>7, <2>1, ReadOne
<1> HIDE DEF T, S
<1>15. CASE T \ {l} = {}
  <2>1. First(T) = l
    BY <1>14, <1>15
  <2>2. Under'[x] = {}
    BY <1>12, <1>15, <2>1 DEF Values
  <2>3. Read(part', x) = job.value
    BY <1>13, <1>14, <2>1
  <2> QED BY <1>0, <1>9, <1>10, <2>2, <2>3 DEF Abstract!Put
<1>16. CASE T \ {l} # {}
  <2> DEFINE f == First(T)
             U == T \ {l}
             H == Values(part', U \ {f})
  <2>1. PICK k \in T : k # l
    BY <1>16
  <2>2. f # l
    <3>1. f <= k /\ k \in 1..l /\ k # l
      BY <1>6, <1>14, <2>1
    <3>2. ASSUME f = l PROVE FALSE
      <4>1. l <= k /\ k <= l /\ k \in Nat
        BY <1>2, <3>1, <3>2
      <4> QED BY <1>2, <2>1, <4>1
    <3> QED BY <3>2
  <2>3. f \in U /\ l \in T \ {f} /\ (T \ {f}) \ {l} = U \ {f}
    BY <1>6, <1>14, <2>2
  <2> HIDE DEF f, U, l
  <2>4. Under[x] = Values(part', U) /\ Under'[x] = Values(part', T \ {f})
    BY <1>11, <1>12 DEF U, f
  <2>5. Under'[x] = H \cup {job.value}
    <3> DEFINE W == T \ {f}
    <3>1. l \in W /\ W \ {l} = U \ {f} /\ Under'[x] = Values(part', W)
      BY <2>3, <2>4
    <3> HIDE DEF W
    <3>2. l \in W
      BY <3>1
    <3>3. Values(part', W) = Values(part', W \ {l}) \cup {part'[l].value}
      BY ONLY <3>2, DropOne
    <3> QED BY <1>13, <3>1, <3>3
  <2>6. /\ H \in {Under[x], Under[x] \ {part'[f].value}}
        /\ part'[f].value \in Under[x]
    <3>1. /\ Values(part', U \ {f}) \in {Values(part', U), Values(part', U) \ {part'[f].value}}
          /\ Values(part', U) = Values(part', U \ {f}) \cup {part'[f].value}
      <4>1. f \in U
        BY <2>3
      <4> QED BY ONLY <4>1, DropOne
    <3> QED BY <2>4, <3>1
  <2> HIDE DEF H
  <2>7. Read(part', x) = part'[f].value
    BY <1>14 DEF f
  <2>8. /\ Stored' = [Stored EXCEPT ![x] = part'[f].value]
        /\ Under' = [Under EXCEPT ![x] = H \cup {job.value}]
    BY <1>9, <1>10, <2>5, <2>7
  <2> QED BY <1>0, <2>6, <2>8 DEF Abstract!Put
<1> QED BY <1>15, <1>16

\* A deletion uncovers what lay under the value that is read, if anything did.
LEMMA Deletes ==
  ASSUME IInv, NEW x \in Index, Delete(x)
  PROVE  Abstract!Remove(x)
<1> DEFINE k == Search(part, x)
           S == Active(part, x)
           T == Active(part', x)
<1>1. /\ pc = "none" /\ pc' = "none" /\ part' = SetFlag(part, k, "invalid")
      /\ rflag # "saved" /\ rflag' = rflag /\ k # 0
  BY DEF Delete, Idle, IInv, Control, Emptying, Restoring
<1>2. part \in Seq(Cell) /\ Len(part) \in Nat
  BY Sets
<1>3. Contents = part /\ Contents' = part'
  BY <1>1 DEF Contents
<1>4. k \in S /\ k \in 1..Len(part) /\ k = First(S)
  BY <1>1, <1>2, SearchFinds DEF Active, Search
<1>5. T = S \ {k} /\ \A n \in 1..Len(part) : part'[n].value = part[n].value
  BY <1>1, <1>2, <1>4, FlagInvalid
<1>6. ASSUME NEW i \in Index, i # x
      PROVE  /\ Read(part', i) = Read(part, i) /\ Active(part', i) = Active(part, i)
             /\ Rest(part', Active(part, i)) = Rest(part, Active(part, i))
  <2>1. k \notin Active(part, i)
    BY <1>4, <1>6 DEF Active
  <2> HIDE DEF k
  <2> QED BY <1>1, <1>2, <1>4, <2>1, FlagReads
<1>7. Stored' = [Stored EXCEPT ![x] = Read(part', x)]
  BY <1>3, <1>6, OneRead
<1>8. Under' = [Under EXCEPT ![x] = Under'[x]]
  <2>1. \A i \in Index : i # x => Under'[i] = Under[i]
    BY <1>1, <1>3, <1>6, UnderIs
  <2> QED BY <2>1, OneUnder
<1>9. Under[x] = Values(part', T)
  <2>1. Under[x] = Values(part, T)
    BY <1>1, <1>3, <1>4, <1>5, UnderIs DEF Rest
  <2>2. \A n \in T : part'[n].value = part[n].value
    BY <1>5 DEF Active
  <2> QED BY <2>1, <2>2 DEF Values
<1>10. Under'[x] = Values(part', T \ {First(T)})
  BY <1>1, <1>3, UnderIs DEF Rest
<1>11. part' \in Seq(Cell)
  <2>1. TypeOK'
    BY TypeStep DEF Next
  <2> QED BY <2>1 DEF TypeOK
<1>12. CASE T = {}
  <2>1. Read(part', x) = None
    BY <1>12 DEF Read, Search
  <2>2. Under[x] = {} /\ Under'[x] = {}
    BY <1>9, <1>10, <1>12 DEF Values
  <2>3. Under' = Under
    BY <1>8, <2>2 DEF Under
  <2> QED BY <1>7, <2>1, <2>2, <2>3 DEF Abstract!Remove
<1>13. CASE T # {}
  <2> DEFINE f == First(T)
             H == Values(part', T \ {f})
  <2>1. f \in T /\ \A n \in T : f <= n
    <3>1. T \subseteq Nat
      BY <1>11, CellSets
    <3> HIDE DEF T
    <3> QED BY <1>13, <3>1, FirstIsLeast
  <2>2. Read(part', x) = part'[f].value
    BY <1>11, <2>1, ReadOne
  <2> HIDE DEF f, T
  <2>3. /\ H \in {Under[x], Under[x] \ {part'[f].value}}
        /\ part'[f].value \in Under[x]
    <3>1. /\ Values(part', T \ {f}) \in {Values(part', T), Values(part', T) \ {part'[f].value}}
          /\ Values(part', T) = Values(part', T \ {f}) \cup {part'[f].value}
      BY <2>1, DropOne
    <3> QED BY <1>9, <3>1
  <2>4. Under'[x] = H
    BY <1>10 DEF f
  <2> HIDE DEF H
  <2>5. /\ Stored' = [Stored EXCEPT ![x] = part'[f].value]
        /\ Under' = [Under EXCEPT ![x] = H]
    BY <1>7, <1>8, <2>2, <2>4
  <2> QED BY <2>3, <2>5 DEF Abstract!Remove
<1> QED BY <1>12, <1>13

\* The copy that is marked as saved is the store with the write done, and healed.
LEMMA Saves ==
  ASSUME IInv, MarkSaved
  PROVE  Abstract!Put(job.index, job.value)
<1>0. PICK x : x = job.index
  OBVIOUS
<1>1. /\ pc = "mark saved" /\ pc' = "erase part" /\ rcells' = rcells /\ part' = part
      /\ rflag # "saved" /\ rflag' = "saved" /\ Copied(Len(part), Len(rcells))
  BY DEF MarkSaved, Done, IInv, Backup, Control, Emptying, Restoring
<1>2. /\ part \in Seq(Cell) /\ Len(part) \in Nat /\ x \in Index
      /\ rcells \in Seq(Cell) /\ Len(rcells) \in Nat
  BY <1>0, Sets
<1>3. Contents = part /\ Contents' = rcells
  BY <1>1 DEF Contents
<1>4. /\ Len(rcells) >= 1 /\ rcells[1].value = job.value
      /\ \A k \in 1..Len(rcells) : rcells[k].index = x <=> k = 1
      /\ \A k \in 1..Len(rcells) : rcells[k].flag = "active"
  BY <1>0, <1>1 DEF Copied, Copy, IInv, Readable
<1>5. 1 \in 1..Len(rcells)
  BY ONLY <1>2, <1>4
<1>6. Active(rcells, x) = {1}
  BY <1>4, <1>5 DEF Active
<1>7. Read(rcells, x) = job.value
  <2>1. 1 \in Active(rcells, x) /\ \A k \in Active(rcells, x) : 1 <= k
    BY <1>6
  <2>2. Read(rcells, x) = rcells[1].value
    BY <1>2, <2>1, ReadOne
  <2> QED BY <1>4, <2>2
<1>8. ASSUME NEW i \in Index, i # x
      PROVE  /\ Rest(rcells, Active(rcells, i)) = Rest(part, Active(part, i))
             /\ Read(rcells, i) = Read(part, i)
  <2> DEFINE P == Active(part, i)
             R == Active(rcells, i)
  <2>1. Upto(P, Len(part)) = P /\ Upto(R, Len(rcells)) = R
    <3>1. (\A k \in P : k <= Len(part)) /\ (\A k \in R : k <= Len(rcells))
      BY <1>2 DEF Active
    <3> QED BY <3>1 DEF Upto
  <2>2. LET U == Upto(Active(part, i), Len(part))
            V == Upto(Active(rcells, i), Len(rcells))
        IN  /\ U = {} <=> V = {}
            /\ U # {} => rcells[First(V)].value = part[First(U)].value
            /\ Rest(part, U) = Rest(rcells, V)
    BY <1>0, <1>1, <1>8 DEF Copied, Copy
  <2>3. /\ P = {} <=> R = {}
        /\ P # {} => rcells[First(R)].value = part[First(P)].value
        /\ Rest(part, P) = Rest(rcells, R)
    BY <2>1, <2>2
  <2>4. CASE P = {}
    <3>1. Search(part, i) = 0 /\ Search(rcells, i) = 0
      BY <2>3, <2>4 DEF Search
    <3> QED BY <2>3, <3>1 DEF Read
  <2>5. CASE P # {}
    <3>1. Search(part, i) = First(P) /\ Search(rcells, i) = First(R)
      BY <2>3, <2>5 DEF Search
    <3>2. Search(part, i) # 0 /\ Search(rcells, i) # 0
      BY <1>2, <2>3, <2>5, SearchFinds
    <3>3. Read(part, i) = part[First(P)].value /\ Read(rcells, i) = rcells[First(R)].value
      BY <3>1, <3>2 DEF Read
    <3> QED BY <2>3, <2>5, <3>3
  <2> QED BY <2>4, <2>5
<1>9. Stored' = [Stored EXCEPT ![x] = job.value]
  BY <1>2, <1>3, <1>7, <1>8, OneRead
<1>10. Under'[x] = {}
  <2>1. pc' # "retire" /\ 1 \in Nat
    BY <1>1
  <2> QED BY <1>2, <1>3, <1>6, <2>1, UnderIs, OneCell
<1>11. \A i \in Index : i # x => Under'[i] = Under[i]
  BY <1>1, <1>3, <1>8, UnderIs
<1>12. Under' = [Under EXCEPT ![x] = {}]
  BY <1>2, <1>10, <1>11, OneUnder
<1> QED BY <1>0, <1>9, <1>12 DEF Abstract!Put

\* A reset erases.
LEMMA Erases ==
  ASSUME IInv, ErasePart, rflag # "saved"
  PROVE  Abstract!Clear
<1>1. Contents' = <<>> /\ pc' # "retire"
  BY DEF ErasePart, Done, Contents
<1>2. Stored' = [i \in Index |-> None]
  BY <1>1, Empty DEF Stored
<1>3. ASSUME NEW i \in Index PROVE Under'[i] = {}
  <2>1. Under'[i] = Rest(Contents', {})
    BY <1>1, Empty, UnderIs
  <2> QED BY <2>1 DEF Rest, Values
<1>4. Under' = [i \in Index |-> {}]
  BY <1>3 DEF Under
<1> QED BY <1>2, <1>4 DEF Abstract!Clear

\* A power cut before the old cell is retired leaves the new one under it.
LEMMA Cuts ==
  ASSUME IInv, PowerCut, pc = "retire"
  PROVE  Abstract!Leave(job.index, job.value)
<1>0. PICK x : x = job.index
  OBVIOUS
<1> DEFINE l == Len(part)
           S == Active(part, x)
<1>1. /\ pc' = "none" /\ part' = part /\ rflag # "saved" /\ rflag' = rflag
      /\ l >= 1 /\ old # l /\ Search(part, x) = old /\ old # 0 /\ job.index = x
      /\ part[l] = [flag |-> "active", index |-> x, value |-> job.value]
  BY <1>0 DEF PowerCut, flash, IInv, Job, Control, Emptying, Restoring
<1>2. part \in Seq(Cell) /\ l \in Nat /\ l \in 1..l /\ x \in Index
  BY <1>1, Sets
<1>3. Contents = part /\ Contents' = part
  BY <1>1 DEF Contents
<1>4. old \in S /\ old = First(S)
  BY <1>1, <1>2, SearchFinds DEF Search
<1>5. l \in S /\ l \in S \ {old}
  <2>1. part[l].flag = "active" /\ part[l].index = x
    BY <1>1
  <2>2. l \in S
    BY <1>2, <2>1 DEF Active
  <2> HIDE DEF l, S
  <2> QED BY <1>1, <2>2
<1>6. Stored' = Stored /\ Stored[x] # None
  <2>1. Stored' = Stored
    BY <1>3 DEF Stored
  <2>2. Stored[x] \in Value
    <3>1. Active(Contents, x) # {}
      BY <1>3, <1>4
    <3> QED BY <1>2, <3>1, ContentsReadable
  <2> QED BY <2>1, <2>2, CellAssumption
<1>7. Under[x] = Values(part, (S \ {old}) \ {l})
  BY <1>1, UnderRetire
<1>8. Under'[x] = Values(part, S \ {old})
  BY <1>1, <1>2, <1>3, <1>4, UnderIs DEF Rest
<1>9. part[l].value = job.value
  BY <1>1
<1> HIDE DEF S, l
<1>10. Under'[x] = Under[x] \cup {job.value}
  <2> DEFINE W == S \ {old}
  <2>1. l \in W /\ Under[x] = Values(part, W \ {l}) /\ Under'[x] = Values(part, W)
    BY <1>5, <1>7, <1>8
  <2> HIDE DEF W
  <2>2. Values(part, W) = Values(part, W \ {l}) \cup {part[l].value}
    BY <2>1, DropOne
  <2> QED BY <1>9, <2>1, <2>2
<1>11. \A i \in Index : i # x => Under'[i] = Under[i]
  BY <1>1, <1>3, UnderIs
<1>12. Under' = [Under EXCEPT ![x] = Under[x] \cup {job.value}]
  BY <1>2, <1>10, <1>11, OneUnder
<1> QED BY <1>0, <1>6, <1>12 DEF Abstract!Leave

\* What lies under a value was written.
LEMMA UnderType == IInv => \A i \in Index : Under[i] \subseteq Value
<1> SUFFICES ASSUME IInv, NEW i \in Index PROVE Under[i] \subseteq Value
  OBVIOUS
<1>1. \A n \in 1..Len(Contents) : Contents[n].flag = "active" => Contents[n].value \in Value
  BY DEF IInv, Readable, Contents
<1>2. Settled(i) \subseteq Active(Contents, i)
  BY DEF Settled
<1>3. \A n \in Settled(i) : Contents[n].value \in Value
  BY <1>1, <1>2 DEF Active
<1> QED BY <1>3 DEF Under

\* Calls of KeyValueStore that read and change nothing.
Silent ==
  \/ UNCHANGED <<Stored, Under, Request>>
  \/ \E i \in Index, v \in Value : Abstract!AskWrite(i, v)
  \/ Abstract!AskReset \/ Abstract!Return \/ Abstract!PowerCut \/ Abstract!PowerOn

(***************************************************************************)
(* Every operation on the flash is a step of KeyValueStore, or none.       *)
(***************************************************************************)
LEMMA Effects ==
  ASSUME IInv, [Next]_vars
  PROVE  \/ Silent
         \/ \E i \in Index, v \in Value : Abstract!DoWrite(i, v)
         \/ \E i \in Index \ {Tri} : Abstract!Delete(i)
         \/ ErasePart /\ rflag # "saved" /\ \E v \in Value \cup {None} : Abstract!DoReset(v)
<1> DEFINE Same == Stored' = Stored /\ Under' = Under
<1>0. Control /\ Held /\ Job /\ tri \in Value \cup {None} /\ mode \in {"off", "boot", "on"}
  BY DEF IInv, TypeOK
<1>a. /\ part \in Seq(Cell) /\ Len(part) \in Nat /\ job.index \in Index
      /\ rcells \in Seq(Cell) /\ Len(rcells) \in Nat
  BY Sets
<1>b. pc \in Writing \cup Copying \cup {"retire"} =>
        /\ mode = "on" /\ rflag # "saved" /\ job.index \in Index /\ job.value \in Value
        /\ Request = <<"write", job.index, job.value>>
  BY <1>0, <1>a DEF Control, Job, Writing, Copying, Emptying, Restoring, Request
<1>c. ASSUME Same, Request' = Request PROVE Silent
  BY <1>c DEF Silent
<1> USE DEF Writing, Copying
<1>1. ASSUME NEW i \in Index, NEW v \in Value, Write(i, v) PROVE Silent
  <2>1. Contents' = Contents /\ pc # "retire" /\ pc' # "retire"
    BY <1>1 DEF Write, StartWrite, Idle, flash, Contents
  <2>2. Same
    BY <2>1, SameContents
  <2>3. mode = "on" /\ pc = "none" /\ mode' = "on" /\ job' = [index |-> i, value |-> v]
        /\ pc' \in {"erase recycle", "header"}
    BY <1>1 DEF Write, StartWrite, Idle
  <2>4. Request = <<"idle", None, None>> /\ Request' = <<"write", i, v>>
    BY <2>3 DEF Request
  <2>5. Abstract!AskWrite(i, v)
    BY <2>2, <2>4 DEF Abstract!AskWrite, Abstract!Plain
  <2> QED BY <2>5 DEF Silent
<1>2. ASSUME NEW i \in Index, Delete(i) PROVE \E j \in Index \ {Tri} : Abstract!Delete(j)
  <2>1. i # Tri
    BY <1>2 DEF Delete
  <2>2. Request = <<"idle", None, None>> /\ Request' = Request
    BY <1>2 DEF Delete, Idle, Request
  <2>3. Abstract!Delete(i)
    BY <1>2, <2>2, Deletes DEF Abstract!Delete, Abstract!Plain
  <2> QED BY <2>1, <2>3
<1>3. CASE WriteHeader
  <2>1. /\ rflag # "saved" /\ rflag' # "saved" /\ pc # "retire" /\ pc' # "retire"
        /\ part' = Append(part, Header("writing", job.index))
    BY <1>b, <1>3 DEF WriteHeader
  <2>2. \A i : Active(part', i) = Active(part, i) /\ Read(part', i) = Read(part, i)
    BY <1>a, <2>1, WritingSets
  <2>3. ASSUME NEW i PROVE Rest(part', Active(part, i)) = Rest(part, Active(part, i))
    <3>1. \A n \in 1..Len(part) : part'[n] = part[n]
      BY <1>a, <2>1, AppendCell
    <3>2. \A n \in Active(part, i) : part'[n].value = part[n].value
      BY <3>1 DEF Active
    <3>3. Active(part, i) \subseteq Nat
      BY <1>a, CellSets
    <3> QED BY <3>2, <3>3, SameRest
  <2>4. Same
    BY <2>1, <2>2, <2>3, SamePart
  <2>5. Request' = Request
    BY <1>b, <1>3 DEF WriteHeader, call, Request
  <2> QED BY <1>c, <2>4, <2>5
<1>4. CASE WriteData
  <2>1. /\ rflag # "saved" /\ rflag' # "saved" /\ pc # "retire" /\ pc' # "retire"
        /\ part' = WithData(part, job.value) /\ job.value \in Value
        /\ Len(part) >= 1 /\ part[Len(part)].flag = "writing"
    BY <1>0, <1>b, <1>4 DEF WriteData, Job
  <2>2. \A i : Len(part) \notin Active(part, i)
    BY <2>1 DEF Active
  <2>3. \A i : Active(part', i) = Active(part, i)
    BY <1>a, <2>1, DataSets
  <2>4. \A i : Read(part', i) = Read(part, i)
    BY <1>a, <2>1, <2>2, DataSets
  <2>5. ASSUME NEW i PROVE Rest(part', Active(part, i)) = Rest(part, Active(part, i))
    <3>0. job.value \in Value \cup {Torn} /\ Len(part) >= 1 /\ part' = WithData(part, job.value)
      BY <2>1
    <3>1. \A n \in 1..Len(part) : n # Len(part) => part'[n] = part[n]
      BY <1>a, <3>0, DataCell
    <3>2. \A n \in Active(part, i) : part'[n].value = part[n].value
      BY <2>2, <3>1 DEF Active
    <3>3. Active(part, i) \subseteq Nat
      BY <1>a, CellSets
    <3> QED BY <3>2, <3>3, SameRest
  <2>6. Same
    BY <2>1, <2>3, <2>4, <2>5, SamePart
  <2>7. Request' = Request
    BY <1>b, <1>4 DEF WriteData, call, Request
  <2> QED BY <1>c, <2>6, <2>7
<1>5. CASE Activate
  <2>1. CASE old # 0
    <3>1. Request' = Request
      BY <1>b, <1>5, <2>1 DEF Activate, call, Request
    <3> QED BY <1>c, <1>5, <2>1, <3>1, LaterWrite
  <2>2. CASE old = 0
    <3>1. /\ Stored' = [Stored EXCEPT ![job.index] = job.value]
          /\ Under' = [Under EXCEPT ![job.index] = {}]
      BY <1>5, <2>2, FirstWrite
    <3>2. Abstract!Put(job.index, job.value)
      BY <3>1 DEF Abstract!Put
    <3>3. /\ job.index \in Index /\ job.value \in Value
          /\ Request = <<"write", job.index, job.value>> /\ Request' = <<"idle", None, None>>
      BY <1>b, <1>5, <2>2 DEF Activate, Request
    <3>4. Abstract!DoWrite(job.index, job.value)
      BY <3>2, <3>3 DEF Abstract!DoWrite, Abstract!Plain
    <3> QED BY <3>3, <3>4
  <2> QED BY <2>1, <2>2
<1>6. CASE Retire \/ MarkSaved
  <2>1. Abstract!Put(job.index, job.value)
    BY <1>6, RetireWrites, Saves
  <2>2. /\ job.index \in Index /\ job.value \in Value
        /\ Request = <<"write", job.index, job.value>>
    BY <1>b, <1>6 DEF Retire, MarkSaved, Done
  <2>3. Request' \in {<<"idle", None, None>>, <<"tidy", None, None>>}
    BY <1>b, <1>6 DEF Retire, MarkSaved, Done, Request
  <2>4. Abstract!DoWrite(job.index, job.value)
    BY <2>1, <2>2, <2>3 DEF Abstract!DoWrite, Abstract!Plain
  <2> QED BY <2>2, <2>4
<1>7. CASE EraseRecycle \/ ClaimRecycle \/ SaveHeader \/ BackupHeader
  <2>1. Contents' = Contents /\ pc # "retire" /\ pc' # "retire"
    BY <1>b, <1>7 DEF EraseRecycle, ClaimRecycle, SaveHeader, BackupHeader, Done, Contents
  <2>2. Request' = Request
    BY <1>b, <1>7 DEF EraseRecycle, ClaimRecycle, SaveHeader, BackupHeader, Done, Request
  <2> QED BY <1>c, <2>1, <2>2, SameContents
<1>8. CASE SaveData \/ BackupData
  <2>1. Contents' = Contents /\ pc # "retire" /\ pc' # "retire"
    BY <1>b, <1>8 DEF SaveData, BackupData, BackupAfter, Contents
  <2>2. Request' = Request
    BY <1>b, <1>8 DEF SaveData, BackupData, BackupAfter, Request
  <2> QED BY <1>c, <2>1, <2>2, SameContents
<1>9. CASE ErasePart
  <2>1. pc = "erase part" /\ pc' = "mark part" /\ mode' = mode /\ tri' = tri /\ rflag' = rflag
    BY <1>9 DEF ErasePart, Done
  <2>2. CASE rflag = "saved"
    <3>1. Contents' = Contents /\ pc # "retire" /\ pc' # "retire"
      BY <1>9, <2>2 DEF ErasePart, Done, Contents
    <3>2. Request' = Request
      BY <2>1, <2>2 DEF Request
    <3> QED BY <1>c, <3>1, <3>2, SameContents
  <2>3. CASE rflag # "saved" /\ mode = "on"
    <3>1. Abstract!Clear
      BY <1>9, <2>3, Erases
    <3>2. /\ Request = <<"reset", Tri, tri>>
          /\ Request' = IF tri = None THEN <<"tidy", None, None>> ELSE <<"write", Tri, tri>>
      BY <2>1, <2>3 DEF Request
    <3>3. Abstract!DoReset(tri)
      BY <3>1, <3>2 DEF Abstract!DoReset, Abstract!Plain
    <3> QED BY <1>0, <1>9, <2>3, <3>3
  <2>4. CASE rflag # "saved" /\ mode # "on"
    <3>1. part = <<>>
      BY <1>0, <2>1, <2>4 DEF Control
    <3>2. Contents' = Contents /\ pc # "retire" /\ pc' # "retire"
      BY <1>9, <2>1, <2>4, <3>1 DEF ErasePart, Contents
    <3>3. Request' = Request
      BY <2>1, <2>4 DEF Request
    <3> QED BY <1>c, <3>2, <3>3, SameContents
  <2> QED BY <2>2, <2>3, <2>4
<1>10. CASE MarkPart
  <2>1. Contents' = Contents /\ pc # "retire" /\ pc' # "retire"
    BY <1>10, MarkPartWrites DEF MarkPart, Contents
  <2>2. Same
    BY <2>1, SameContents
  <2>3. pc = "mark part" /\ mode' = mode /\ rflag' = rflag /\ tri' = tri
    BY <1>10 DEF MarkPart
  <2>4. CASE mode # "on" \/ rflag = "saved"
    <3>1. Request' = Request
      BY <1>10, <2>3, <2>4 DEF MarkPart, Request
    <3> QED BY <1>c, <2>2, <3>1
  <2>5. CASE mode = "on" /\ rflag # "saved" /\ tri # None
    <3>1. pc' \in {"header", "erase recycle"} /\ job' = [index |-> Tri, value |-> tri]
      BY <1>10, <2>5 DEF MarkPart, StartWrite
    <3>2. Request' = Request
      BY <2>3, <2>5, <3>1 DEF Request
    <3> QED BY <1>c, <2>2, <3>2
  <2>6. CASE mode = "on" /\ rflag # "saved" /\ tri = None
    <3>1. Request = <<"tidy", None, None>> /\ Request' = <<"idle", None, None>>
      BY <1>10, <2>3, <2>6 DEF MarkPart, Request
    <3>2. Abstract!Return
      BY <2>2, <3>1 DEF Abstract!Return, Abstract!Plain
    <3> QED BY <3>2 DEF Silent
  <2> QED BY <2>4, <2>5, <2>6
<1>11. CASE RestoreHeader \/ RestoreData
  <2>1. rflag = "saved"
    BY <1>0, <1>11 DEF RestoreHeader, RestoreData, Done, Control, Restoring
  <2>2. Contents' = Contents /\ pc # "retire" /\ pc' # "retire"
    BY <1>11, <2>1 DEF RestoreHeader, RestoreData, Done, Contents
  <2>3. Request' = Request
    BY <1>11, <2>1 DEF RestoreHeader, RestoreData, Done, Request
  <2> QED BY <1>c, <2>2, <2>3, SameContents
<1>12. CASE Release
  <2>1. /\ rflag = "saved" /\ Len(part) = Len(rcells)
        /\ \A k \in 1..Len(part) : part[k] = rcells[k]
    BY <1>0, <1>12 DEF Release, Done, Control, Restoring, IInv, Restore, Restored
  <2>2. part = rcells
    BY <1>a, <2>1, SeqEqual
  <2>3. Contents' = Contents /\ pc # "retire" /\ pc' # "retire"
    BY <1>12, <2>1, <2>2 DEF Release, Done, Contents
  <2>4. Same
    BY <2>3, SameContents
  <2>5. CASE mode # "on"
    <3>1. Request' = Request
      BY <1>12, <2>5 DEF Release, Done, Request
    <3> QED BY <1>c, <2>4, <3>1
  <2>6. CASE mode = "on"
    <3>1. Request = <<"tidy", None, None>> /\ Request' = <<"idle", None, None>>
      BY <1>12, <2>1, <2>6 DEF Release, Done, Request
    <3>2. Abstract!Return
      BY <2>4, <3>1 DEF Abstract!Return, Abstract!Plain
    <3> QED BY <3>2 DEF Silent
  <2> QED BY <2>5, <2>6
<1>13. CASE PowerCut
  <2>1. Request' = <<"down", None, None>>
    BY <1>13 DEF PowerCut, Request
  <2>2. CASE pc = "retire"
    <3>1. Abstract!Leave(job.index, job.value)
      BY <1>13, <2>2, Cuts
    <3>2. /\ job.index \in Index /\ job.value \in Value
          /\ Request = <<"write", job.index, job.value>>
      BY <1>b, <2>2
    <3>3. Request # <<"down", None, None>>
      BY <3>2
    <3>4. Abstract!PowerCut
      BY <2>1, <3>1, <3>2, <3>3 DEF Abstract!PowerCut, Abstract!Plain
    <3> QED BY <3>4 DEF Silent
  <2>3. CASE pc # "retire"
    <3>1. Contents' = Contents /\ pc' # "retire"
      BY <1>13 DEF PowerCut, flash, Contents
    <3>2. Same
      BY <2>3, <3>1, SameContents
    <3>3. CASE Request = <<"down", None, None>>
      BY <1>c, <2>1, <3>2, <3>3
    <3>4. CASE Request # <<"down", None, None>>
      <4>1. Abstract!PowerCut
        BY <2>1, <3>2, <3>4 DEF Abstract!PowerCut, Abstract!Plain
      <4> QED BY <4>1 DEF Silent
    <3> QED BY <3>3, <3>4
  <2> QED BY <2>2, <2>3
<1>14. CASE ResetSystem
  <2>1. Contents' = Contents /\ pc # "retire" /\ pc' # "retire"
    BY <1>14 DEF ResetSystem, Idle, flash, Contents
  <2>2. Same
    BY <2>1, SameContents
  <2>3. mode = "on" /\ mode' = "on" /\ pc = "none" /\ pc' = "erase part" /\ rflag' = rflag
        /\ tri' = Read(part, Tri)
    BY <1>14 DEF ResetSystem, Idle, flash
  <2>4. rflag # "saved"
    BY <1>0, <2>3 DEF Control, Emptying, Restoring
  <2>5. Contents = part /\ Stored[Tri] = tri'
    BY <2>3, <2>4, CellAssumption DEF Contents, Stored
  <2>6. Request = <<"idle", None, None>> /\ Request' = <<"reset", Tri, tri'>>
    BY <2>3, <2>4 DEF Request
  <2>7. Abstract!AskReset
    BY <2>2, <2>5, <2>6 DEF Abstract!AskReset, Abstract!Plain
  <2> QED BY <2>7 DEF Silent
<1>15. CASE Boot \/ Booted
  <2>1. Contents' = Contents /\ pc # "retire" /\ pc' # "retire"
    BY <1>0, <1>15 DEF Boot, Booted, flash, Contents, Control
  <2>2. Same
    BY <2>1, SameContents
  <2>3. CASE Boot
    <3>1. Request' = Request
      BY <2>3 DEF Boot, Request
    <3> QED BY <1>c, <2>2, <3>1
  <2>4. CASE Booted
    <3>1. Request = <<"down", None, None>> /\ Request' = <<"idle", None, None>>
      BY <2>4 DEF Booted, Request
    <3>2. Abstract!PowerOn
      BY <2>2, <3>1 DEF Abstract!PowerOn, Abstract!Plain
    <3> QED BY <3>2 DEF Silent
  <2> QED BY <1>15, <2>3, <2>4
<1>16. CASE UNCHANGED vars
  <2>1. Contents' = Contents /\ Request' = Request
    BY <1>16 DEF vars, Contents, Request
  <2>2. Stored' = Stored
    BY <2>1 DEF Stored
  <2>3. Under' = Under
    BY <1>16, <2>1 DEF vars, Under, Settled
  <2> QED BY <1>c, <2>1, <2>2, <2>3
<1> HIDE DEF Same
<1> QED BY <1>1, <1>2, <1>3, <1>4, <1>5, <1>6, <1>7, <1>8, <1>9, <1>10, <1>11, <1>12, <1>13,
           <1>14, <1>15, <1>16 DEF Next

LEMMA TriStep == IInv /\ [Next]_vars => TriSomewhere'
<1> SUFFICES ASSUME IInv, [Next]_vars, ~hit' PROVE TriSomewhere'
  BY DEF TriSomewhere
<1>0. Control /\ Held /\ Job /\ TriSomewhere
  BY DEF IInv
<1>1. ~hit
  BY DEF Next, vars, Write, WriteHeader, WriteData, Activate, Retire, Delete, Done, EraseRecycle,
         ClaimRecycle, SaveHeader, SaveData, BackupHeader, BackupData, MarkSaved, ErasePart,
         MarkPart, RestoreHeader, RestoreData, Release, ResetSystem, PowerCut, Boot, Booted
<1>2. Tri \in Index /\ Stored \in [Index -> Value \cup {None}] /\ None \notin Value
  BY CellAssumption, StoredType
<1>3. CASE Stored[Tri] \in Value
  <2>1. CASE Stored' = Stored
    BY <1>3, <2>1 DEF TriSomewhere
  <2>2. ASSUME NEW i \in Index, NEW v \in Value, Abstract!DoWrite(i, v)
        PROVE  Stored'[Tri] \in Value
    <3>1. Under[i] \subseteq Value
      BY UnderType
    <3> QED BY <1>2, <1>3, <2>2, <3>1 DEF Abstract!DoWrite, Abstract!Put
  <2>3. ASSUME NEW i \in Index \ {Tri}, Abstract!Delete(i) PROVE Stored'[Tri] \in Value
    BY <1>2, <1>3, <2>3 DEF Abstract!Delete, Abstract!Remove
  <2>4. ASSUME Silent PROVE Stored' = Stored
    BY <2>4 DEF Silent, Abstract!AskWrite, Abstract!AskReset, Abstract!Return,
                Abstract!PowerCut, Abstract!Leave, Abstract!PowerOn
  <2>5. CASE ErasePart /\ rflag # "saved"
    <3>1. Contents = part /\ Stored[Tri] = Read(part, Tri)
      BY <1>2, <2>5 DEF Contents, Stored
    <3>2. part # <<>>
      BY <1>2, <1>3, <3>1, Empty
    <3>3. mode = "on"
      BY <1>0, <2>5, <3>2 DEF ErasePart, Done, Control, IInv, TypeOK
    <3>4. tri = Read(part, Tri)
      BY <1>0, <2>5, <3>3 DEF Held, ErasePart, Done
    <3> QED BY <1>3, <2>5, <3>1, <3>3, <3>4 DEF ErasePart, Done, TriSomewhere
  <2> QED BY <2>1, <2>2, <2>3, <2>4, <2>5, Effects DEF TriSomewhere
<1>4. CASE Stored[Tri] \notin Value
  <2>1. /\ mode = "on" /\ rflag # "saved" /\ tri \in Value /\ tri # None
        /\ pc \in {"mark part"} \cup Writing
    BY <1>0, <1>1, <1>2, <1>4 DEF TriSomewhere
  <2>2. CASE MarkPart
    BY <2>1, <2>2, MarkPartWrites DEF MarkPart, TriSomewhere, Writing
  <2>3. CASE WriteHeader \/ WriteData
    BY <2>1, <2>3 DEF WriteHeader, WriteData, TriSomewhere, Writing
  <2>4. CASE Activate
    <3>1. job = [index |-> Tri, value |-> tri] /\ old = 0
      BY <1>0, <2>1, <2>4 DEF Activate, Held, Writing
    <3>2. Stored' = [Stored EXCEPT ![Tri] = tri]
      BY <2>4, <3>1, FirstWrite
    <3>3. Stored'[Tri] = tri
      BY <1>2, <3>2
    <3> QED BY <2>1, <3>3 DEF TriSomewhere
  <2>5. CASE UNCHANGED vars
    BY <2>1, <2>5 DEF vars, TriSomewhere
  <2>6. ~PowerCut
    BY <2>1 DEF PowerCut, Writing
  <2>7. MarkPart \/ WriteHeader \/ WriteData \/ Activate \/ UNCHANGED vars
    BY <2>1, <2>6 DEF Next, Write, Retire, Delete, Idle, Done, EraseRecycle, ClaimRecycle,
         SaveHeader, SaveData, BackupHeader, BackupData, MarkSaved, ErasePart, RestoreHeader,
         RestoreData, Release, ResetSystem, Boot, Booted, Writing
  <2> QED BY <2>2, <2>3, <2>4, <2>5, <2>7
<1> QED BY <1>3, <1>4

-----------------------------------------------------------------------------
LEMMA IInvHolds == Spec => []IInv
<1>1. IInv /\ [Next]_vars => IInv'
  BY TypeStep, ControlStep, ReadableStep, JobStep, CountedStep, BackupStep, RestoreStep, TriStep
     DEF IInv
<1> QED BY <1>1, InitInv, PTL DEF Spec

\* The types, with remain and free, counted in RAM, within the partition.
THEOREM CellTypes == Spec => []TypeOK
<1>1. IInv => TypeOK
  BY DEF IInv
<1> QED BY <1>1, IInvHolds, PTL

(***************************************************************************)
(* Neither partition is ever asked to hold more cells than fit, however    *)
(* many slots there are (_genie_flash_write, _genie_flash_recycle).        *)
(***************************************************************************)
THEOREM NeverOverflows == Spec => []Fits
<1>1. IInv => Fits
  BY DEF IInv
<1> QED BY <1>1, IInvHolds, PTL

(***************************************************************************)
(* The tri tuple outlives every power cut, except one that falls between   *)
(* the erase in genie_flash_reset_system and the write that brings it back.*)
(***************************************************************************)
THEOREM KeepsTrituple == Spec => []TritupleKept
<1>1. IInv => TritupleKept
  BY DEF IInv, TriSomewhere, TritupleKept, Writing
<1> QED BY <1>1, IInvHolds, PTL

LEMMA StoreInit == Init => Abstract!Init
<1> SUFFICES ASSUME Init PROVE Abstract!Init
  OBVIOUS
<1>1. Stored \in [Index -> Value \cup {None}]
  BY InitInv, StoredType
<1>2. PICK cell : part = <<cell>>
  BY DEF Init
<1>3. Contents = part /\ Len(part) = 1 /\ pc # "retire"
  BY <1>2 DEF Init, Contents
<1>4. ASSUME NEW i \in Index PROVE Under[i] = {}
  <2>1. \A k \in Active(part, i) : k = 1
    BY <1>3 DEF Active
  <2>2. Active(part, i) = {} \/ Active(part, i) = {1}
    BY <2>1
  <2>3. Rest(part, {}) = {} /\ Rest(part, {1}) = {}
    BY OneCell DEF Rest, Values
  <2> QED BY <1>3, <2>2, <2>3, UnderIs
<1>5. Under = [i \in Index |-> {}]
  BY <1>4 DEF Under
<1>6. Request = <<"down", None, None>>
  BY DEF Init, Request
<1> QED BY <1>1, <1>5, <1>6 DEF Abstract!Init, Abstract!Plain

(***************************************************************************)
(* Wherever power fails, the cells act as KeyValueStore: only the call     *)
(* under way changes what is read, in one step (_genie_flash_write,        *)
(* _genie_flash_delete, _genie_flash_recycle, genie_flash_check_recycle,   *)
(* genie_flash_reset_system).                                              *)
(***************************************************************************)
THEOREM CellsAreAStore == Spec => ActsAsStore
<1>1. IInv /\ [Next]_vars => [Abstract!Next]_(Abstract!vars)
  BY Effects DEF Silent, Abstract!Next, Abstract!vars
<1> QED BY <1>1, StoreInit, IInvHolds, PTL DEF Spec, ActsAsStore, Abstract!Spec
=============================================================================
