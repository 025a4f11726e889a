--------------------------- MODULE SeqStoreProofs ---------------------------
(***************************************************************************)
(* Proofs about SeqStore, for a log of any size and any interval between   *)
(* two writes.                                                             *)
(*                                                                         *)
(* The argument: the words of the log have no gap, so the scan at start    *)
(* finds the last one; a number that was announced in the recycle          *)
(* partition is good until it is back in the log; and the number that a    *)
(* restart would find is never more than Interval below the next one.      *)
(***************************************************************************)
EXTENDS SeqStore, TLAPS

\* The operations that bring the saved number back to the log.
Restoring == {"erase log", "mark log", "restore", "release"}

\* Those that a write of the running device may have to do before.
Saving == {"erase recycle", "claim recycle", "save", "mark saved"}

\* A blank word is followed by blank words only.
NoGap == \A i, j \in Cells : i < j /\ log[i] = Blank => log[j] = Blank

(***************************************************************************)
(* The flag of the recycle partition announces a number exactly while the  *)
(* log may lack one: from the end of the saving to the end of the          *)
(* restoring, over any power cut.                                          *)
(***************************************************************************)
Announced ==
  /\ recycle.flag = "seq" =>
       recycle.word # Blank /\ (mode = "off" \/ pc \in Restoring)
  /\ log[1] = Blank \/ ~inited => recycle.flag = "seq"
  /\ pc \in Restoring => recycle.flag = "seq" /\ arg = recycle.word
  /\ pc \in {"claim recycle", "save"} => recycle.word = Blank
  /\ pc = "mark saved" => recycle.word = arg
  /\ pc \in {"mark log", "restore"} => \A i \in Cells : log[i] = Blank
  /\ pc \in {"restore", "release"} => inited
  /\ pc = "release" => log[1] = arg /\ \A i \in Cells : i > 1 => log[i] = Blank
  /\ pc \in {"mark log", "restore", "release"} => wr = 1

\* Where the running device appends is next to the words of the log.
Adjacent ==
  /\ mode = "off" => pc = "none"
  /\ mode = "boot" => pc \in Restoring \cup {"none"}
  /\ mode = "on" /\ wr > 1 => log[wr - 1] # Blank
  /\ pc = "append" => wr <= LogSize

\* Word i is the last of the log.
Last(i) == log[i] # Blank /\ \A j \in Cells : j > i => log[j] = Blank

\* The last word, for a device that is running.
Newest == IF wr > 1 THEN wr - 1 ELSE 1

(***************************************************************************)
(* The number that a restart would find is less than Interval below all    *)
(* that were used, and the running device is closer yet: it has used none  *)
(* since it last had to write.                                             *)
(***************************************************************************)
Close ==
  /\ recycle.flag = "seq" => used < recycle.word + Interval
  /\ recycle.flag # "seq" =>
       \A i \in Cells : Last(i) => used < log[i] + Interval
  /\ mode = "on" => used < seq
  /\ mode = "on" /\ pc \notin Restoring => Last(Newest)
  /\ mode = "on" /\ pc = "none" => /\ log[Newest] <= seq
                                   /\ seq - log[Newest] <= seq % Interval
  /\ mode = "on" /\ pc \in Saving \cup {"append"} =>
       /\ arg = seq
       /\ log[Newest] < seq
       /\ seq <= log[Newest] + Interval
  /\ mode = "on" /\ pc \in Restoring => arg = seq

IInv ==
  /\ TypeOK
  /\ IdentityKept
  /\ NoGap /\ Announced /\ Adjacent
  /\ slips = {} => Close

-----------------------------------------------------------------------------
\* Division with remainder.
LEMMA DivMod ==
  ASSUME NEW d \in Nat \ {0}, NEW s \in Nat
  PROVE  /\ s = d * (s \div d) + (s % d)
         /\ s \div d \in Int /\ s % d \in 0..d - 1
  OBVIOUS

\* A multiple of d that is closer to 0 than d is 0.
LEMMA SmallMultiple ==
  ASSUME NEW d \in Nat \ {0}, NEW k \in Int, NEW x \in Int,
         d * k = x, -d < x, x < d
  PROVE  x = 0
<1>1. CASE k = 0
  BY <1>1
<1>2. CASE k >= 1
  <2>1. d * k >= d * 1
    BY <1>2
  <2> QED BY <2>1
<1>3. CASE k <= -1
  <2>1. d * k <= d * (-1)
    BY <1>3
  <2> QED BY <2>1
<1> QED BY <1>1, <1>2, <1>3

\* The remainder of the next number, when it is not due to be written.
LEMMA NotDue ==
  ASSUME NEW s \in Nat, ~Due(s + 1)
  PROVE  (s + 1) % Interval = (s % Interval) + 1
<1> DEFINE d == Interval
           q == s \div d
           r == s % d
           p == (s + 1) \div d
           t == (s + 1) % d
<1>0. d \in Nat \ {0} /\ t # 0
  BY StoreAssumption DEF Due
<1>1. s = d * q + r /\ q \in Int /\ r \in 0..d - 1
  BY <1>0, DivMod
<1>2. s + 1 = d * p + t /\ p \in Int /\ t \in 0..d - 1
  BY <1>0, DivMod
<1> HIDE DEF d, q, r, p, t
<1>3. d * (p - q) = r + 1 - t
  BY <1>0, <1>1, <1>2
<1>4. r + 1 - t = 0
  BY <1>0, <1>1, <1>2, <1>3, SmallMultiple
<1>5. t = r + 1
  BY <1>1, <1>2, <1>4
<1> QED BY <1>5 DEF t, r, d

\* A remainder is below the interval.
LEMMA Remainder ==
  ASSUME NEW s \in Nat
  PROVE  s % Interval \in 0..Interval - 1
  BY StoreAssumption

\* Programming never makes a word blank.
LEMMA ProgrammedWord ==
  ASSUME NEW w \in Word, NEW v \in 0..MaxSeq
  PROVE  Programmed(w, v) \in 0..MaxSeq /\ Programmed(w, v) # Blank
  BY StoreAssumption, WordAssumption DEF Programmed, Word, Blank

LEMMA InitInv == Init => IInv
<1> SUFFICES ASSUME Init PROVE IInv
  OBVIOUS
<1> USE StoreAssumption
<1>1. TypeOK /\ IdentityKept
  BY DEF Init, TypeOK, IdentityKept, Cells, Word, Blank, RecycleFlag, Operation
<1>2. NoGap /\ Announced /\ Adjacent
  BY DEF Init, NoGap, Announced, Adjacent, Cells, Blank, Restoring
<1>3. Close
  BY DEF Init, Close, Last, Newest, Cells, Blank, Restoring, Saving
<1> QED BY <1>1, <1>2, <1>3 DEF IInv

-----------------------------------------------------------------------------
\* The operations follow one another as named.
LEMMA OperationStep == IInv /\ [Next]_vars => pc' \in Operation
  BY DEF IInv, TypeOK, Operation, Next, vars, Send, WriteSeq, Append, Done,
         EraseRecycle, ClaimRecycle, Save, MarkSaved, EraseLog, MarkLog, Restore,
         Release, PowerCut, Boot, Load

\* The types are kept.
LEMMA TypeStep == IInv /\ [Next]_vars => TypeOK'
<1> SUFFICES ASSUME IInv, [Next]_vars PROVE TypeOK'
  OBVIOUS
<1>0. pc' \in Operation
  BY OperationStep
<1> USE <1>0, StoreAssumption DEF IInv, TypeOK
<1>1. CASE Send
  <2>1. seq' \in 0..MaxSeq /\ used' \in -1..MaxSeq
    BY <1>1 DEF Send
  <2>2. arg' \in 0..MaxSeq
    BY <1>1, <2>1 DEF Send, WriteSeq
  <2> QED BY <1>1, <2>1, <2>2 DEF Send, flash
<1>2. CASE Append
  <2>1. wr \in Cells
    BY <1>2 DEF Append, Adjacent, Cells
  <2>2. Programmed(log[wr], arg) \in Word
    BY <2>1, ProgrammedWord DEF Word
  <2> QED BY <1>2, <2>1, <2>2 DEF Append, Cells
<1>3. CASE EraseRecycle
  BY <1>3 DEF EraseRecycle, Done, Word, RecycleFlag
<1>4. CASE ClaimRecycle
  BY <1>4 DEF ClaimRecycle, Done, RecycleFlag
<1>5. CASE Save
  BY <1>5, ProgrammedWord DEF Save, Done, Word
<1>6. CASE MarkSaved
  BY <1>6 DEF MarkSaved, Done, RecycleFlag
<1>7. CASE EraseLog
  <2>1. log' \in [Cells -> Word] /\ inited' \in BOOLEAN
    BY <1>7 DEF EraseLog, Word
  <2>2. wr' = 1 /\ rd' = 0
    BY <1>7 DEF EraseLog
  <2>3. wr' \in 1..LogSize + 1 /\ rd' \in 0..LogSize
    BY <2>2
  <2> QED BY <1>7, <2>1, <2>3 DEF EraseLog, Done
<1>8. CASE MarkLog
  BY <1>8 DEF MarkLog, Done
<1>9. CASE Restore
  BY <1>9, ProgrammedWord DEF Restore, Done, Word
<1>10. CASE Release
  BY <1>10 DEF Release, Done, RecycleFlag
<1>11. CASE PowerCut
  BY <1>11 DEF PowerCut, flash
<1>12. CASE Boot
  BY <1>12 DEF Boot, flash, Announced, Word
<1>13. CASE Load
  <2>1. wr' \in 1..LogSize + 1 /\ rd' \in 0..LogSize
    BY <1>13 DEF Load, SeqInit, Cells
  <2>2. rd' # 0 => log[rd'] \in 0..MaxSeq
    BY <1>13 DEF Load, SeqInit, FirstBlank, Full, Cells, Word, Blank
  <2>3. seq' \in 0..MaxSeq /\ arg' \in 0..MaxSeq
    <3>1. CASE rd' = 0
      BY <1>13, <3>1 DEF Load
    <3>2. CASE rd' # 0
      <4>1. log[rd'] + Interval <= MaxSeq /\ seq' = log[rd'] + Interval /\ arg' = seq'
        BY <1>13, <3>2 DEF Load, WriteSeq, Resume
      <4> QED BY <2>2, <3>2, <4>1
    <3> QED BY <3>1, <3>2
  <2>4. mode' \in {"off", "boot", "on", "reset"}
    BY <1>13 DEF Load
  <2>5. slips' \subseteq {"full", "overlaid"}
    BY <1>13 DEF Load
  <2> QED BY <1>13, <2>1, <2>3, <2>4, <2>5 DEF Load, flash
<1>14. CASE UNCHANGED vars
  BY <1>14 DEF vars
<1> QED BY <1>1, <1>2, <1>3, <1>4, <1>5, <1>6, <1>7, <1>8, <1>9, <1>10, <1>11,
           <1>12, <1>13, <1>14 DEF Next

-----------------------------------------------------------------------------
\* The log keeps its shape, and is never without a number to be found.
LEMMA ShapeStep ==
  IInv /\ [Next]_vars => IdentityKept' /\ NoGap' /\ Announced' /\ Adjacent'
<1> SUFFICES ASSUME IInv, [Next]_vars
             PROVE  IdentityKept' /\ NoGap' /\ Announced' /\ Adjacent'
  OBVIOUS
<1>0. 1 \in Cells /\ LogSize \in Nat /\ LogSize >= 2 /\ MaxSeq \in Nat
  BY StoreAssumption DEF Cells
<1> USE <1>0 DEF IInv, TypeOK, IdentityKept, Restoring
<1>1. CASE Send
  <2>1. /\ mode = "on" /\ mode' = "on" /\ pc = "none"
        /\ log' = log /\ inited' = inited /\ recycle' = recycle /\ wr' = wr
        /\ pc' \in {"none", "append", "erase recycle"}
        /\ pc' = "append" => ~(wr > LogSize)
    BY <1>1 DEF Send, WriteSeq, flash
  <2>2. pc' = "append" => wr <= LogSize
    BY <2>1
  <2>3. Adjacent'
    BY <2>1, <2>2 DEF Adjacent
  <2> QED BY <2>1, <2>3 DEF NoGap, Announced
<1>2. CASE Append
  <2>1. wr \in Cells /\ Programmed(log[wr], arg) # Blank
    BY <1>2, ProgrammedWord DEF Append, Adjacent, Cells
  <2>2. \A i \in Cells : log'[i] = IF i = wr THEN Programmed(log[wr], arg) ELSE log[i]
    BY <1>2 DEF Append
  <2>3. pc = "append" /\ mode # "off" /\ mode # "boot" /\ recycle.flag # "seq"
    BY <1>2 DEF Append, Announced, Adjacent
  <2>4. NoGap'
    BY <2>1, <2>2, <2>3 DEF NoGap, Adjacent, Cells
  <2>5. Announced'
    BY <1>2, <2>1, <2>2, <2>3 DEF Append, Announced
  <2>6. Adjacent'
    BY <1>2, <2>1, <2>2, <2>3 DEF Append, Adjacent, Cells
  <2> QED BY <1>2, <2>4, <2>5, <2>6 DEF Append
<1>3. CASE EraseRecycle
  BY <1>3 DEF EraseRecycle, Done, NoGap, Announced, Adjacent
<1>4. CASE ClaimRecycle
  BY <1>4 DEF ClaimRecycle, Done, NoGap, Announced, Adjacent
<1>5. CASE Save
  BY <1>5 DEF Save, Done, Programmed, NoGap, Announced, Adjacent
<1>6. CASE MarkSaved
  <2>1. arg # Blank
    BY DEF Blank
  <2> QED BY <1>6, <2>1 DEF MarkSaved, Done, NoGap, Announced, Adjacent
<1>7. CASE EraseLog
  <2>1. /\ pc' = "mark log" /\ wr' = 1 /\ recycle' = recycle /\ mode' = mode
        /\ arg' = arg /\ recycle.flag = "seq" /\ arg = recycle.word
        /\ recycle.word # Blank
        /\ \A i \in Cells : log'[i] = Blank
    BY <1>7 DEF EraseLog, Done, Announced
  <2>2. NoGap' /\ Announced'
    BY <2>1 DEF NoGap, Announced
  <2>3. Adjacent'
    <3>1. pc = "erase log"
      BY <1>7 DEF EraseLog, Done
    <3>2. wr' = 1
      BY <2>1
    <3>3. ~(wr' > 1)
      BY ONLY <3>2
    <3> QED BY <2>1, <3>1, <3>3 DEF Adjacent
  <2> QED BY <2>1, <2>2, <2>3
<1>8. CASE MarkLog
  BY <1>8 DEF MarkLog, Done, NoGap, Announced, Adjacent
<1>9. CASE Restore
  BY <1>9 DEF Restore, Done, Programmed, NoGap, Announced, Adjacent, Cells, Blank
<1>10. CASE Release
  <2>1. arg # Blank
    BY DEF Blank
  <2> QED BY <1>10, <2>1 DEF Release, Done, NoGap, Announced, Adjacent
<1>11. CASE PowerCut
  BY <1>11 DEF PowerCut, flash, NoGap, Announced, Adjacent
<1>12. CASE Boot
  BY <1>12 DEF Boot, flash, NoGap, Announced, Adjacent
<1>13. CASE Load
  <2>1. recycle.flag # "seq" /\ log[1] # Blank /\ inited
    BY <1>13 DEF Load, Announced
  <2>2. /\ log' = log /\ inited' = inited /\ recycle' = recycle
        /\ pc' \in {"none", "append", "erase recycle"}
    BY <1>13 DEF Load, WriteSeq, flash
  <2>3. rd' # 0 /\ wr' - 1 = rd' /\ log[rd'] # Blank
    BY <1>13, <2>1 DEF Load, SeqInit, FirstBlank, Full, Cells
  <2>4. mode' = "on" /\ (pc' = "append" => ~(wr' > LogSize))
    BY <1>13, <2>3 DEF Load, WriteSeq
  <2>5. wr' \in 1..LogSize + 1
    BY TypeStep
  <2>6. pc' = "append" => wr' <= LogSize
    BY <2>4, <2>5
  <2>7. Adjacent'
    BY <2>2, <2>3, <2>4, <2>6 DEF Adjacent
  <2> QED BY <2>1, <2>2, <2>4, <2>7 DEF NoGap, Announced
<1>14. CASE UNCHANGED vars
  BY <1>14 DEF vars, NoGap, Announced, Adjacent
<1> QED BY <1>1, <1>2, <1>3, <1>4, <1>5, <1>6, <1>7, <1>8, <1>9, <1>10, <1>11,
           <1>12, <1>13, <1>14 DEF Next
-----------------------------------------------------------------------------
\* At most one word is the last, and Newest is a word of the log.
LEMMA LastIsOne ==
  ASSUME TypeOK, NEW i \in Cells, NEW j \in Cells, Last(i), Last(j)
  PROVE  i = j
  BY StoreAssumption DEF Last, Cells, TypeOK

LEMMA NewestCell == TypeOK => Newest \in Cells
  BY StoreAssumption DEF Newest, Cells, TypeOK

(***************************************************************************)
(* The heart of the argument.  Without a slip a step keeps the number that *)
(* a restart would find close to those that were used.                     *)
(***************************************************************************)
LEMMA CloseStep == IInv /\ [Next]_vars /\ slips' = {} => Close'
<1> SUFFICES ASSUME IInv, [Next]_vars, slips' = {} PROVE Close'
  OBVIOUS
<1>0. slips \subseteq slips'
  BY DEF Next, vars, Send, Append, Done, EraseRecycle, ClaimRecycle, Save,
         MarkSaved, EraseLog, MarkLog, Restore, Release, PowerCut, Boot, Load
<1>a. TypeOK /\ mode # "reset" /\ NoGap /\ Announced /\ Adjacent /\ Close
  BY <1>0 DEF IInv, IdentityKept
<1>b. /\ 1 \in Cells /\ LogSize \in Nat /\ LogSize >= 2
      /\ MaxSeq \in Nat /\ Interval \in Nat /\ Interval >= 1
      /\ \A i \in Cells : i \in Int /\ log[i] \in Int
      /\ seq \in Nat /\ used \in Int /\ wr \in Nat /\ wr >= 1 /\ recycle.word \in Int
  BY <1>a, StoreAssumption DEF Cells, TypeOK, Word, Blank
<1>c. Newest \in Cells
  BY <1>a, NewestCell
<1>d. seq % Interval \in 0..Interval - 1
  BY <1>b, Remainder
<1> HIDE DEF Newest
<1>1. CASE Send
  <2>1. /\ mode = "on" /\ pc = "none" /\ mode' = "on"
        /\ seq' = seq + 1 /\ wr' = wr
        /\ log' = log /\ recycle' = recycle
        /\ pc' \in {"none", "append", "erase recycle"}
        /\ pc' = "none" => ~Due(seq + 1)
        /\ pc' # "none" => arg' = seq + 1
        /\ used' = IF seq > used THEN seq ELSE used
    BY <1>1 DEF Send, WriteSeq, flash
  <2>2. recycle.flag # "seq"
    BY <1>a, <2>1 DEF Announced, Restoring
  <2>3. /\ used < seq /\ Last(Newest) /\ log[Newest] <= seq
        /\ seq - log[Newest] <= seq % Interval
    BY <1>a, <2>1 DEF Close, Restoring
  <2>4. used' = seq /\ Newest' = Newest /\ Last(Newest)'
    BY <1>b, <2>1, <2>3 DEF Newest, Last
  <2>5. /\ used' < seq' /\ used' < log[Newest] + Interval
        /\ log[Newest] < seq' /\ seq' <= log[Newest] + Interval
    <3>1. log[Newest] \in Int /\ Interval \in Nat /\ seq \in Nat /\ used \in Int
      BY <1>b, <1>c
    <3>2. used' = seq /\ seq' = seq + 1
      BY <2>1, <2>4
    <3> QED BY <1>d, <2>3, <3>1, <3>2
  <2>6. pc' = "none" => seq' - log[Newest] <= seq' % Interval
    <3>1. pc' = "none" => seq' % Interval = (seq % Interval) + 1
      BY <1>b, <2>1, NotDue
    <3> QED BY <1>b, <1>c, <1>d, <2>1, <2>3, <3>1
  <2>7. \A i \in Cells : Last(i)' => used' < log[i] + Interval
    BY <1>a, <1>c, <2>1, <2>3, <2>5, LastIsOne DEF Last
  <2>8. log[Newest] <= seq'
    <3>1. log[Newest] \in Int /\ seq \in Nat /\ seq' = seq + 1
      BY <1>b, <1>c, <2>1
    <3> QED BY <2>3, <3>1
  <2> QED BY <2>1, <2>2, <2>4, <2>5, <2>6, <2>7, <2>8 DEF Close, Restoring, Saving
<1>2. CASE Append
  <2>1. /\ pc = "append" /\ pc' = "none" /\ mode' = mode /\ arg' = arg
        /\ seq' = seq /\ used' = used /\ recycle' = recycle /\ wr' = wr + 1
        /\ log' = [log EXCEPT ![wr] = Programmed(@, arg)]
        /\ log[wr] \in {Blank, arg}
    BY <1>2 DEF Append
  <2>2. mode = "on" /\ recycle.flag # "seq" /\ wr <= LogSize
    BY <1>a, <2>1 DEF TypeOK, Adjacent, Announced, Restoring
  <2>3. /\ arg = seq /\ used < seq /\ Last(Newest) /\ log[Newest] < seq
    BY <1>a, <2>1, <2>2 DEF Close, Restoring, Saving
  <2>4. wr \in Cells
    BY <1>b, <2>2 DEF Cells
  <2>5. wr > 1
    <3> SUFFICES ASSUME ~(wr > 1) PROVE FALSE
      OBVIOUS
    <3>1. wr = 1 /\ Newest = 1
      BY <1>b DEF Newest
    <3>2. log[1] # Blank /\ log[1] # arg
      BY <1>b, <2>3, <3>1 DEF Last
    <3> QED BY <2>1, <3>1, <3>2
  <2>6. Newest = wr - 1 /\ Newest' = wr
    BY <1>b, <2>1, <2>5 DEF Newest
  <2>7. log[wr] = Blank /\ \A j \in Cells : j > wr => log[j] = Blank
    BY <1>b, <2>3, <2>4, <2>5, <2>6 DEF Last
  <2>8. log' \in [Cells -> Int] /\ \A j \in Cells : log'[j] = IF j = wr THEN seq ELSE log[j]
    BY <1>a, <1>b, <2>1, <2>3, <2>4, <2>7 DEF Programmed, TypeOK, Word, Blank
  <2>9. seq # Blank
    BY <1>b DEF Blank
  <2>10. log'[wr] # Blank /\ \A j \in Cells : j > wr => log'[j] = Blank
    BY <1>b, <2>4, <2>7, <2>8, <2>9
  <2>11. Last(Newest)'
    BY <2>6, <2>10 DEF Last
  <2>12. \A i \in Cells : Last(i)' => i = wr
    BY <1>b, <2>4, <2>7, <2>8, <2>9 DEF Last, Cells
  <2>13. /\ used' < log'[wr] + Interval /\ log'[wr] <= seq'
         /\ seq' - log'[wr] <= seq' % Interval /\ used' < seq'
    BY <1>b, <1>d, <2>1, <2>3, <2>4, <2>8
  <2> QED BY <2>1, <2>2, <2>6, <2>11, <2>12, <2>13 DEF Close, Restoring, Saving
<1>3. CASE EraseRecycle \/ ClaimRecycle \/ Save
  <2>1. /\ mode' = mode /\ arg' = arg /\ seq' = seq /\ used' = used
        /\ log' = log /\ wr' = wr /\ pc \in Saving /\ pc' \in Saving
    BY <1>3 DEF EraseRecycle, ClaimRecycle, Save, Done, Saving
  <2>2. recycle.flag # "seq"
    BY <1>a, <2>1 DEF Announced, Adjacent, Restoring, Saving
  <2>3. recycle'.flag # "seq"
    <3>1. CASE EraseRecycle
      BY <3>1 DEF EraseRecycle
    <3>2. CASE ClaimRecycle
      BY <1>a, <3>2 DEF ClaimRecycle, TypeOK
    <3>3. CASE Save
      BY <1>a, <2>2, <3>3 DEF Save, TypeOK
    <3> QED BY <1>3, <3>1, <3>2, <3>3
  <2>4. Newest' = Newest /\ \A i : Last(i)' <=> Last(i)
    BY <2>1 DEF Newest, Last
  <2> QED BY <1>a, <2>1, <2>2, <2>3, <2>4 DEF Close, Restoring, Saving
<1>4. CASE MarkSaved
  <2>1. /\ pc = "mark saved" /\ pc' = "erase log" /\ mode' = mode /\ arg' = arg
        /\ seq' = seq /\ used' = used
        /\ recycle'.flag = "seq" /\ recycle'.word = recycle.word
    BY <1>4, <1>a DEF MarkSaved, Done, TypeOK
  <2>2. mode = "on" /\ recycle.word = arg
    BY <1>a, <2>1 DEF Announced, Adjacent, Restoring, TypeOK
  <2>3. arg = seq /\ used < seq
    BY <1>a, <2>1, <2>2 DEF Close, Saving
  <2>4. used' < recycle'.word + Interval
    <3>1. recycle'.word = seq /\ used' = used /\ used < seq
      BY <2>1, <2>2, <2>3
    <3>2. seq \in Nat /\ used \in Int /\ Interval \in Nat
      BY <1>b
    <3> QED BY ONLY <3>1, <3>2
  <2> QED BY <2>1, <2>2, <2>3, <2>4 DEF Close, Restoring, Saving
<1>5. CASE EraseLog \/ MarkLog \/ Restore
  <2>1. /\ mode' = mode /\ arg' = arg /\ seq' = seq /\ used' = used
        /\ recycle' = recycle /\ pc \in Restoring
    BY <1>5 DEF EraseLog, MarkLog, Restore, Done, Restoring
  <2>2. recycle.flag = "seq"
    BY <1>a, <2>1 DEF Announced
  <2>3. pc' \in Restoring
    BY <1>5, <2>2 DEF EraseLog, MarkLog, Restore, Done, Restoring
  <2> QED BY <1>a, <2>1, <2>2, <2>3 DEF Close, Restoring, Saving
<1>6. CASE Release
  <2>1. /\ pc = "release" /\ pc' = "none" /\ mode' = mode
        /\ seq' = seq /\ used' = used /\ log' = log /\ wr' = wr
        /\ recycle'.flag = "base"
    BY <1>6, <1>a DEF Release, Done, TypeOK
  <2>2. /\ recycle.flag = "seq" /\ arg = recycle.word /\ recycle.word # Blank
        /\ log[1] = arg /\ wr = 1
        /\ \A i \in Cells : i > 1 => log[i] = Blank
    BY <1>a, <2>1 DEF Announced, Restoring
  <2>3. Newest = 1 /\ Newest' = 1
    BY <2>1, <2>2 DEF Newest
  <2>4. Last(1)' /\ \A i \in Cells : Last(i)' => i = 1
    BY <1>b, <2>1, <2>2 DEF Last, Cells
  <2>5. used < log[1] + Interval /\ (mode = "on" => log[1] = seq /\ used < seq)
    BY <1>a, <2>1, <2>2 DEF Close, Restoring
  <2>6. mode = "on" => log[1] <= seq /\ seq - log[1] <= seq % Interval
    BY <1>b, <1>d, <2>5
  <2> QED BY <2>1, <2>3, <2>4, <2>5, <2>6 DEF Close, Restoring, Saving
<1>7. CASE PowerCut \/ Boot
  <2>1. /\ mode' # "on" /\ log' = log /\ recycle' = recycle /\ used' = used
    BY <1>7 DEF PowerCut, Boot, flash
  <2> QED BY <1>a, <2>1 DEF Close, Last
<1>8. CASE Load
  <2>1. /\ mode = "boot" /\ pc = "none" /\ ~Full
        /\ log' = log /\ recycle' = recycle /\ used' = used
    BY <1>8 DEF Load, flash
  <2>2. recycle.flag # "seq" /\ log[1] # Blank
    BY <1>a, <2>1 DEF Announced, Restoring
  <2>3. PICK i \in Cells : FirstBlank(i) /\ wr' = i /\ rd' = i - 1
    BY <1>8, <2>1 DEF Load, SeqInit
  <2>4. i > 1 /\ i - 1 \in Cells /\ Newest' = i - 1
    BY <1>b, <2>2, <2>3 DEF FirstBlank, Newest, Cells
  <2>5. Last(i - 1)
    BY <1>a, <1>b, <2>3, <2>4 DEF FirstBlank, NoGap, Last, Cells
  <2>6. used < log[i - 1] + Interval
    BY <1>a, <2>2, <2>4, <2>5 DEF Close
  <2>7. rd' # 0
    BY <1>b, <2>3, <2>4
  <2>8. /\ mode' = "on" /\ pc' \in {"append", "erase recycle"}
        /\ seq' = log[i - 1] + Interval /\ arg' = seq'
    BY <1>8, <2>3, <2>7 DEF Load, WriteSeq, Resume
  <2>9. log[i - 1] < seq' /\ seq' <= log[i - 1] + Interval
    <3>1. log[i - 1] \in Int /\ Interval \in Nat /\ Interval >= 1
      BY <1>b, <2>4
    <3>2. seq' = log[i - 1] + Interval
      BY <2>8
    <3> QED BY ONLY <3>1, <3>2
  <2>10. \A j \in Cells : Last(j)' => j = i - 1
    BY <1>a, <2>1, <2>4, <2>5, LastIsOne DEF Last
  <2>11. Last(i - 1)'
    BY <2>1, <2>5 DEF Last
  <2>12. Last(Newest)' /\ log'[Newest'] = log[i - 1]
    BY <2>1, <2>4, <2>11 DEF Last
  <2> QED BY <2>1, <2>2, <2>4, <2>6, <2>8, <2>9, <2>10, <2>12
          DEF Close, Restoring, Saving
<1>9. CASE UNCHANGED vars
  BY <1>a, <1>9 DEF vars, Close, Last, Newest
<1> QED BY <1>1, <1>2, <1>3, <1>4, <1>5, <1>6, <1>7, <1>8, <1>9 DEF Next

-----------------------------------------------------------------------------
\* IInv is inductive.
LEMMA Inductive == Spec => []IInv
<1>1. IInv /\ [Next]_vars => IInv'
  <2> SUFFICES ASSUME IInv, [Next]_vars PROVE IInv'
    OBVIOUS
  <2>1. TypeOK' /\ IdentityKept' /\ NoGap' /\ Announced' /\ Adjacent'
    BY TypeStep, ShapeStep
  <2>2. slips' = {} => Close'
    BY CloseStep
  <2> QED BY <2>1, <2>2 DEF IInv
<1> QED BY InitInv, <1>1, PTL DEF Spec

(***************************************************************************)
(* Every offset stays in the log and every number in 24 bits, whatever     *)
(* power cuts interrupt (genie_flash_write_seq, genie_flash_seq_init).     *)
(***************************************************************************)
THEOREM StoreTypes == Spec => []TypeOK
<1>1. IInv => TypeOK
  BY DEF IInv
<1> QED BY Inductive, <1>1, PTL

(***************************************************************************)
(* A running device is always above the numbers it used, for a log of any  *)
(* size, any interval and power cuts anywhere, until one of the two slips  *)
(* happens (_genie_event_handle_mesh_init adds just enough).               *)
(***************************************************************************)
THEOREM StoreAhead == Spec => []KnownAhead
<1>1. IInv => KnownAhead
  BY DEF IInv, Close, KnownAhead
<1> QED BY Inductive, <1>1, PTL

(***************************************************************************)
(* A provisioned device never finds the log empty at start, wherever power *)
(* failed in a recycling, so mesh_init never erases its identity.          *)
(***************************************************************************)
THEOREM StoreIdentity == Spec => []IdentityKept
<1>1. IInv => IdentityKept
  BY DEF IInv
<1> QED BY Inductive, <1>1, PTL
=============================================================================
