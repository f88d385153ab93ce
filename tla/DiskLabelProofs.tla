-------------------------- MODULE DiskLabelProofs ---------------------------
(***************************************************************************)
(* Proofs about DiskLabel, for every layout: the second pass of            *)
(* editdisklbl over the layout writes what the first one has checked, the  *)
(* images lie in their partitions, and the table, whole or in part, reads  *)
(* back along its chain as the layout.                                     *)
(***************************************************************************)
EXTENDS DiskLabel, WellFoundedInduction, TLAPS

-----------------------------------------------------------------------------
(* Loops *)

\* What holds before a loop, and after a turn if it did before, holds after every turn.
LEMMA TurnByTurn ==
    ASSUME NEW n \in Nat, NEW S, 0 \in S, \A i \in 1 .. n : i - 1 \in S => i \in S
    PROVE  \A i \in 0 .. n : i \in S
  <1> DEFINE bad   == {i \in 0 .. n : i \notin S}
             below == {ss \in Nat \X Nat : ss[1] < ss[2]}
  <1> SUFFICES ASSUME bad # {}
               PROVE  FALSE
    OBVIOUS
  <1>1. OpToRel(<, Nat) = below
    BY DEF OpToRel
  <1>2. bad \subseteq Nat
    OBVIOUS
  <1>3. PICK x \in bad : \A y \in bad : ~(<<y, x>> \in below)
    <2> HIDE DEF bad, below
    <2> QED BY <1>1, <1>2, NatLessThanWellFounded, WFMin
  <1>4. x \in 1 .. n /\ x - 1 \in 0 .. n
    BY <1>3
  <1>5. <<x - 1, x>> \in below
    BY <1>4
  <1>6. x - 1 \in S
    BY <1>3, <1>4, <1>5
  <1> QED BY <1>3, <1>4, <1>6

\* The turns of config_mbr follow from each other.
LEMMA TurnAfterTurn ==
    ASSUME NEW d, Num(d) \in Nat
    PROVE  /\ LastTurn(d) \in Nat /\ Num(d) <= LastTurn(d)
           /\ Turns(d)[0] = [ok |-> TRUE, lba |-> d.skip_lba, ext_lba |-> 0, lst |-> << >>, d |-> d]
           /\ \A i \in 1 .. LastTurn(d) :
                 Turns(d)[i] = IF i <= Num(d) THEN AddPartition(Turns(d)[i - 1], i)
                               ELSE AddBlank(Turns(d)[i - 1], i)
  <1> DEFINE n          == LastTurn(d)
             start      == [ok |-> TRUE, lba |-> d.skip_lba, ext_lba |-> 0, lst |-> << >>, d |-> d]
             Step(a, i) == IF i <= Num(d) THEN AddPartition(a, i) ELSE AddBlank(a, i)
             Made(m, s) == s = [i \in 0 .. m |-> IF i = 0 THEN start
                                                 ELSE IF i <= Num(d) THEN AddPartition(s[i - 1], i)
                                                 ELSE AddBlank(s[i - 1], i)]
             S          == {m \in Nat : \E s : Made(m, s)}
  <1>1. n \in Nat /\ Num(d) <= n
    BY DEF LastTurn, NUM_BOOT_RECORD_PARTS
  <1> HIDE DEF n, start
  <1>2. 0 \in S
    <2>1. Made(0, [i \in 0 .. 0 |-> start])
      OBVIOUS
    <2> QED BY <2>1
  <1>3. ASSUME NEW m \in 1 .. n, m - 1 \in S
        PROVE  m \in S
    <2>1. PICK s : Made(m - 1, s)
      BY <1>3
    <2> DEFINE u == [i \in 0 .. m |-> IF i < m THEN s[i] ELSE Step(s[m - 1], m)]
    <2>2. ASSUME NEW i \in 0 .. m
          PROVE  u[i] = IF i = 0 THEN start
                        ELSE IF i <= Num(d) THEN AddPartition(u[i - 1], i)
                        ELSE AddBlank(u[i - 1], i)
      <3>1. CASE i = m
        <4>1. m \in 1 .. n /\ m - 1 \in 0 .. m /\ m - 1 < m /\ m \in 0 .. m /\ ~(m < m) /\ m # 0
          BY <1>1
        <4>2. u[m] = Step(s[m - 1], m) /\ u[m - 1] = s[m - 1]
          BY <4>1
        <4> QED BY <3>1, <4>1, <4>2
      <3>2. CASE i < m
        <4>1. i \in 0 .. m - 1 /\ u[i] = s[i] /\ (i # 0 => i - 1 \in 0 .. m /\ i - 1 < m)
          BY <1>1, <3>2
        <4>2. i # 0 => u[i - 1] = s[i - 1]
          BY <4>1
        <4>3. s[i] = IF i = 0 THEN start
                     ELSE IF i <= Num(d) THEN AddPartition(s[i - 1], i)
                     ELSE AddBlank(s[i - 1], i)
          BY <2>1, <4>1
        <4> QED BY <4>1, <4>2, <4>3
      <3> QED BY <1>1, <3>1, <3>2
    <2>3. Made(m, u)
      BY <2>2
    <2> HIDE DEF u
    <2>4. \E t : Made(m, t)
      BY <2>3
    <2> HIDE DEF Made
    <2> QED BY <1>1, <2>4
  <1>4. \E s : Made(n, s)
    <2>1. \A i \in 0 .. n : i \in S
      <3> HIDE DEF S
      <3> QED BY <1>1, <1>2, <1>3, TurnByTurn
    <2> QED BY <1>1, <2>1
  <1>5. Turns(d) = CHOOSE s : Made(n, s)
    BY DEF Turns, n, start
  <1>6. Made(n, Turns(d))
    BY <1>4, <1>5
  <1> DEFINE t == Turns(d)
  <1> HIDE DEF t
  <1>7. Made(n, t)
    BY <1>6 DEF t
  <1>8. t[0] = start
    BY <1>1, <1>7
  <1>9. ASSUME NEW i \in 1 .. n
        PROVE  t[i] = IF i <= Num(d) THEN AddPartition(t[i - 1], i) ELSE AddBlank(t[i - 1], i)
    BY <1>1, <1>7
  <1> QED BY <1>1, <1>8, <1>9 DEF n, start, t

-----------------------------------------------------------------------------
(* One turn *)

EbrSet == [logical : Entries, next : Entries]

\* A write goes to a slot of the MBR, or all of it, or to a sector of the disk.
Writes == {w \in [to : {"mbr", "ebr"}, at : Nat, what : EbrSet] :
              w.to = "mbr" => w.at \in 0 .. NUM_BOOT_RECORD_PARTS}

Disks == [skip_lba : 0 .. Word - 1, num_lba : 0 .. Word - 1,
          parts : Seq([start_lba : 0 .. Word - 1, len_kb : 0 .. Word - 1])]

Accs == [ok : BOOLEAN, lba : 0 .. Word - 1, ext_lba : 0 .. Word - 1, lst : Seq(Writes), d : Disks]

StartOf(acc, i) == DataLba(acc.lba, Extended(acc.d, i))
LenOf(acc, i)   == PartLen(acc.d, acc.d.parts[i], StartOf(acc, i))
AfterOf(acc, i) == (StartOf(acc, i) + LenOf(acc, i)) % Word
ExtOf(acc, i)   == IF Opens(acc.d, i) THEN acc.lba ELSE acc.ext_lba

\* What a turn writes: the entry of the extended partition, and that of the partition.
OpeningOf(acc, i) == WriteEntry(i, Entry("ext", acc.lba, (acc.d.num_lba - acc.lba) % Word))
WriteOf(acc, i) ==
    IF Extended(acc.d, i) = 0 THEN WriteEntry(i, Entry("part", StartOf(acc, i), LenOf(acc, i)))
    ELSE WriteEbr(acc.lba, [logical |-> Entry("part", 1, LenOf(acc, i)),
                            next |-> NextEntry(acc.d, i, AfterOf(acc, i), ExtOf(acc, i))])

KeptOf(acc, i) ==
    IF Extended(acc.d, i) = 1 /\ acc.d.parts[i].len_kb = REST
    THEN KeptKb(LenOf(acc, i)) ELSE acc.d.parts[i].len_kb

\* A quotient is natural, and a remainder is smaller than its divisor.
LEMMA Divided ==
    ASSUME NEW a \in Nat, NEW b \in Nat \ {0}
    PROVE  a \div b \in Nat
  OBVIOUS

LEMMA Wrapped ==
    ASSUME NEW a \in Int
    PROVE  a % Word \in 0 .. Word - 1
  BY SectorsAssumption

\* Lengths in sectors have 32 bits, lengths in KB are natural.
LEMMA LengthTypes ==
    /\ \A len_kb \in Nat : kb_to_lba(len_kb) \in 0 .. Word - 1
    /\ \A len \in Nat : KeptKb(len) \in 0 .. Word - 1
    /\ \A n \in Nat : ImageKb(n) \in 0 .. Word - 1
  <1>1. ASSUME NEW x \in Nat
        PROVE  kb_to_lba(x) \in 0 .. Word - 1
    <2>1. x * KB \in Nat
      BY SectorsAssumption
    <2>2. x * KB + SectSize - 1 \in Nat
      BY <2>1, SectorsAssumption
    <2>3. (x * KB + SectSize - 1) \div SectSize \in Nat
      BY <2>2, Divided, SectorsAssumption
    <2> QED BY <2>3, Wrapped DEF kb_to_lba
  <1>2. ASSUME NEW x \in Nat
        PROVE  KeptKb(x) \in 0 .. Word - 1
    <2>1. x * SectSize \in Nat
      BY SectorsAssumption
    <2>2. (x * SectSize) \div KB \in Nat
      BY <2>1, Divided, SectorsAssumption
    <2> QED BY <2>2, Wrapped DEF KeptKb
  <1>3. ASSUME NEW x \in Nat
        PROVE  ImageKb(x) \in 0 .. Word - 1
    <2>1. x * SectSize \in Nat
      BY SectorsAssumption
    <2>2. x * SectSize + KB - 1 \in Nat
      BY <2>1, SectorsAssumption
    <2>3. (x * SectSize + KB - 1) \div KB \in Nat
      BY <2>2, Divided, SectorsAssumption
    <2> QED BY <2>3, Wrapped DEF ImageKb
  <1> QED BY <1>1, <1>2, <1>3

\* A remainder is no larger than what it is taken of.
LEMMA WrapsDown ==
    ASSUME NEW a \in Nat
    PROVE  a % Word \in Nat /\ a % Word <= a
  BY SectorsAssumption

\* The length that is kept for the rest of the disk fits into that rest.
LEMMA KeptFits ==
    ASSUME NEW len \in Nat
    PROVE  kb_to_lba(KeptKb(len)) <= len
  <1> DEFINE bytes == len * SectSize
             whole == bytes \div KB
             q     == KeptKb(len)
             m     == q * KB + SectSize - 1
  <1>1. bytes \in Nat
    BY SectorsAssumption
  <1> HIDE DEF bytes
  <1>2. whole \in Nat /\ whole * KB <= bytes
    BY <1>1, SectorsAssumption
  <1> HIDE DEF whole
  <1>3. q \in Nat /\ q <= whole
    <2>1. q = whole % Word
      BY DEF q, whole, bytes, KeptKb
    <2> QED BY <1>2, <2>1, WrapsDown
  <1> HIDE DEF q
  <1>4. q * KB <= bytes /\ q * KB \in Nat
    <2>1. q * KB <= whole * KB /\ q * KB \in Nat /\ whole * KB \in Nat
      BY <1>2, <1>3, SectorsAssumption
    <2> QED BY <1>1, <1>2, <2>1
  <1>5. m \in Nat /\ m < (len + 1) * SectSize
    BY <1>4, SectorsAssumption DEF bytes
  <1> HIDE DEF m
  <1>6. m \div SectSize \in Nat /\ m \div SectSize <= len
    BY <1>5, SectorsAssumption
  <1>7. kb_to_lba(q) = (m \div SectSize) % Word
    BY DEF kb_to_lba, m
  <1>8. (m \div SectSize) % Word \in Nat /\ (m \div SectSize) % Word <= m \div SectSize
    BY <1>6, WrapsDown
  <1>9. kb_to_lba(q) <= len
    BY <1>6, <1>7, <1>8
  <1> QED BY <1>9 DEF q

\* A sum of sectors, and what of an entry is made of them.
LEMMA EntryTypes ==
    ASSUME NEW type \in {"none", "part", "ext"},
           NEW start \in 0 .. Word - 1, NEW len \in 0 .. Word - 1
    PROVE  Entry(type, start, len) \in Entries
  BY DEF Entry, Entries

LEMMA WriteTypes ==
    /\ NoEntry \in Entries /\ NoEbr \in EbrSet
    /\ WriteEmpty \in Writes
    /\ \A slot \in 0 .. NUM_BOOT_RECORD_PARTS, e \in Entries : WriteEntry(slot, e) \in Writes
    /\ \A lba \in Nat, b \in EbrSet : WriteEbr(lba, b) \in Writes
  <1>1. NoEntry \in Entries
    BY EntryTypes, SectorsAssumption DEF NoEntry
  <1>2. NoEbr \in EbrSet
    BY <1>1 DEF NoEbr, EbrSet
  <1>3. WriteEmpty \in Writes
    BY <1>2 DEF WriteEmpty, Writes, NUM_BOOT_RECORD_PARTS
  <1>4. ASSUME NEW slot \in 0 .. NUM_BOOT_RECORD_PARTS, NEW e \in Entries
        PROVE  WriteEntry(slot, e) \in Writes
    <2>1. [NoEbr EXCEPT !.logical = e] \in EbrSet
      BY <1>2 DEF EbrSet
    <2> QED BY <2>1 DEF WriteEntry, Writes, NUM_BOOT_RECORD_PARTS
  <1>5. ASSUME NEW lba \in Nat, NEW b \in EbrSet
        PROVE  WriteEbr(lba, b) \in Writes
    BY DEF WriteEbr, Writes
  <1> QED BY <1>1, <1>2, <1>3, <1>4, <1>5

\* The partitions of a disk, and where the next of them goes.
LEMMA DiskTypes ==
    ASSUME NEW d \in Disks
    PROVE  /\ Num(d) \in Nat /\ DOMAIN d.parts = 1 .. Num(d)
           /\ d.skip_lba \in 0 .. Word - 1 /\ d.num_lba \in 0 .. Word - 1
           /\ \A i \in 1 .. Num(d) : d.parts[i].len_kb \in 0 .. Word - 1
                                   /\ d.parts[i].start_lba \in 0 .. Word - 1
  <1> DEFINE part == [start_lba : 0 .. Word - 1, len_kb : 0 .. Word - 1]
             ps   == d.parts
  <1>1. ps \in Seq(part) /\ d.skip_lba \in 0 .. Word - 1 /\ d.num_lba \in 0 .. Word - 1
    BY DEF Disks
  <1> HIDE DEF ps
  <1>2. Len(ps) \in Nat /\ DOMAIN ps = 1 .. Len(ps) /\ \A i \in 1 .. Len(ps) : ps[i] \in part
    <2> HIDE DEF part
    <2> QED BY <1>1
  <1>3. \A i \in 1 .. Len(ps) : ps[i].len_kb \in 0 .. Word - 1 /\ ps[i].start_lba \in 0 .. Word - 1
    BY <1>2
  <1> QED BY <1>1, <1>2, <1>3 DEF Num, ps

LEMMA PlaceTypes ==
    ASSUME NEW acc \in Accs, NEW i \in 1 .. Num(acc.d)
    PROVE  /\ Extended(acc.d, i) \in {0, 1}
           /\ StartOf(acc, i) \in 0 .. Word - 1
           /\ LenOf(acc, i) \in 0 .. Word - 1
           /\ AfterOf(acc, i) \in 0 .. Word - 1
           /\ ExtOf(acc, i) \in 0 .. Word - 1
           /\ KeptOf(acc, i) \in 0 .. Word - 1
  <1>1. acc.d \in Disks /\ acc.lba \in 0 .. Word - 1 /\ acc.ext_lba \in 0 .. Word - 1
    BY DEF Accs
  <1>2. Extended(acc.d, i) \in {0, 1}
    BY DEF Extended
  <1>3. StartOf(acc, i) \in 0 .. Word - 1
    <2>1. acc.lba + Extended(acc.d, i) \in Int
      BY <1>1, <1>2, SectorsAssumption
    <2> QED BY <2>1, Wrapped DEF StartOf, DataLba
  <1>4. acc.d.parts[i].len_kb \in 0 .. Word - 1 /\ acc.d.num_lba \in 0 .. Word - 1
    BY <1>1, DiskTypes
  <1>5. LenOf(acc, i) \in 0 .. Word - 1
    <2>1. acc.d.num_lba - StartOf(acc, i) \in Int
      BY <1>3, <1>4, SectorsAssumption
    <2> QED BY <1>4, <2>1, Wrapped, LengthTypes DEF LenOf, PartLen
  <1>6. AfterOf(acc, i) \in 0 .. Word - 1
    <2>1. StartOf(acc, i) + LenOf(acc, i) \in Int
      BY <1>3, <1>5, SectorsAssumption
    <2> QED BY <2>1, Wrapped DEF AfterOf
  <1>7. KeptOf(acc, i) \in 0 .. Word - 1
    <2>1. LenOf(acc, i) \in Nat
      BY <1>5, SectorsAssumption
    <2> QED BY <1>4, <2>1, LengthTypes DEF KeptOf
  <1> QED BY <1>1, <1>2, <1>3, <1>5, <1>6, <1>7 DEF ExtOf

\* What a turn writes is a write of an entry that 32 bits can hold.
LEMMA TurnWrites ==
    ASSUME NEW acc \in Accs, NEW i \in 1 .. Num(acc.d)
    PROVE  /\ WriteOf(acc, i) \in Writes
           /\ Opens(acc.d, i) => OpeningOf(acc, i) \in Writes
  <1> DEFINE d == acc.d
  <1>1. /\ d \in Disks /\ acc.lba \in 0 .. Word - 1
        /\ Num(d) \in Nat /\ d.num_lba \in 0 .. Word - 1 /\ acc.lba \in Nat /\ i \in Nat
    BY DiskTypes, SectorsAssumption DEF Accs
  <1>2. Extended(d, i) = 0 => i \in 0 .. NUM_BOOT_RECORD_PARTS
    BY <1>1 DEF Extended, NUM_BOOT_RECORD_PARTS
  <1>3. Entry("part", StartOf(acc, i), LenOf(acc, i)) \in Entries
    BY PlaceTypes, EntryTypes
  <1>4. CASE Extended(d, i) = 0
    <2>1. WriteOf(acc, i) = WriteEntry(i, Entry("part", StartOf(acc, i), LenOf(acc, i)))
      BY <1>4 DEF WriteOf
    <2>2. i \in 0 .. NUM_BOOT_RECORD_PARTS
      BY <1>2, <1>4
    <2>3. Opens(d, i) => FALSE
      BY <1>1, <1>4 DEF Extended, Opens
    <2> QED BY <1>3, <2>1, <2>2, <2>3, WriteTypes
  <1>5. CASE Extended(d, i) = 1
    <2>1. Entry("part", 1, LenOf(acc, i)) \in Entries
      <3>1. 1 \in 0 .. Word - 1
        BY SectorsAssumption
      <3> QED BY <3>1, PlaceTypes, EntryTypes
    <2>2. NextEntry(d, i, AfterOf(acc, i), ExtOf(acc, i)) \in Entries
      <3> DEFINE after == AfterOf(acc, i)
                 ext   == ExtOf(acc, i)
                 size  == IF d.parts[i + 1].len_kb # REST
                          THEN (1 + kb_to_lba(d.parts[i + 1].len_kb)) % Word
                          ELSE (d.num_lba - after) % Word
      <3>1. after \in Int /\ ext \in Int /\ after - ext \in Int /\ d.num_lba - after \in Int
        BY <1>1, PlaceTypes, SectorsAssumption
      <3> HIDE DEF after, ext
      <3>2. CASE i = Num(d)
        BY <3>2, WriteTypes DEF NextEntry
      <3>3. CASE i # Num(d)
        <4>1. i + 1 \in 1 .. Num(d)
          BY <1>1, <3>3
        <4>2. d.parts[i + 1].len_kb \in 0 .. Word - 1
          BY <1>1, <4>1, DiskTypes
        <4>3. (1 + kb_to_lba(d.parts[i + 1].len_kb)) % Word \in 0 .. Word - 1
              \/ d.parts[i + 1].len_kb = REST
          <5>1. CASE d.parts[i + 1].len_kb \in Nat
            <6>1. kb_to_lba(d.parts[i + 1].len_kb) \in Int
              BY <5>1, LengthTypes, SectorsAssumption
            <6>2. 1 + kb_to_lba(d.parts[i + 1].len_kb) \in Int
              BY <6>1
            <6> QED BY <6>2, Wrapped
          <5> QED BY <4>2, <5>1
        <4>4. (d.num_lba - after) % Word \in 0 .. Word - 1
          BY <3>1, Wrapped
        <4>5. size \in 0 .. Word - 1
          BY <4>3, <4>4
        <4>6. NextStart(after, ext) \in 0 .. Word - 1
          BY <3>1, Wrapped DEF NextStart
        <4>7. NextEntry(d, i, after, ext) = Entry("ext", NextStart(after, ext), size)
          BY <3>3 DEF NextEntry
        <4> HIDE DEF size
        <4> QED BY <4>5, <4>6, <4>7, EntryTypes DEF after, ext
      <3> QED BY <3>2, <3>3 DEF after, ext
    <2>3. WriteOf(acc, i) = WriteEbr(acc.lba,
                [logical |-> Entry("part", 1, LenOf(acc, i)),
                 next    |-> NextEntry(d, i, AfterOf(acc, i), ExtOf(acc, i))])
      BY <1>5 DEF WriteOf
    <2>4. [logical |-> Entry("part", 1, LenOf(acc, i)),
           next    |-> NextEntry(d, i, AfterOf(acc, i), ExtOf(acc, i))] \in EbrSet
      BY <2>1, <2>2 DEF EbrSet
    <2>5. WriteOf(acc, i) \in Writes
      BY <1>1, <2>3, <2>4, WriteTypes
    <2>6. ASSUME Opens(d, i)
          PROVE  OpeningOf(acc, i) \in Writes
      <3>1. i \in 0 .. NUM_BOOT_RECORD_PARTS
        BY <2>6 DEF Opens, NUM_BOOT_RECORD_PARTS
      <3>2. (d.num_lba - acc.lba) % Word \in 0 .. Word - 1
        <4>1. d.num_lba - acc.lba \in Int
          BY <1>1, SectorsAssumption
        <4> QED BY <4>1, Wrapped
      <3>3. Entry("ext", acc.lba, (d.num_lba - acc.lba) % Word) \in Entries
        BY <1>1, <3>2, EntryTypes
      <3> QED BY <3>1, <3>3, WriteTypes DEF OpeningOf
    <2> QED BY <2>5, <2>6
  <1> QED BY <1>4, <1>5, PlaceTypes

\* What a turn that goes well leaves.
LEMMA AddedRecord ==
    ASSUME NEW acc \in Accs, NEW i \in 1 .. Num(acc.d), acc.ok, ~Refuses(acc, i)
    PROVE  AddPartition(acc, i) =
             [ok |-> TRUE, lba |-> AfterOf(acc, i), ext_lba |-> ExtOf(acc, i),
              lst |-> wlist_add(IF Opens(acc.d, i) THEN wlist_add(acc.lst, OpeningOf(acc, i))
                                ELSE acc.lst, WriteOf(acc, i)),
              d |-> [acc.d EXCEPT !.parts[i].start_lba = StartOf(acc, i),
                                  !.parts[i].len_kb = KeptOf(acc, i)]]
  BY DEF AddPartition, AfterOf, ExtOf, WriteOf, KeptOf, StartOf, LenOf, OpeningOf

\* What a turn that goes well leaves, field by field.
LEMMA Added ==
    ASSUME NEW acc \in Accs, NEW i \in 1 .. Num(acc.d)
    PROVE  LET new == AddPartition(acc, i)
           IN  /\ new.ok <=> acc.ok /\ ~Refuses(acc, i)
               /\ ~new.ok => new = [acc EXCEPT !.ok = FALSE]
               /\ new.ok =>
                    /\ new.lba = AfterOf(acc, i) /\ new.ext_lba = ExtOf(acc, i)
                    /\ new.lst = wlist_add(IF Opens(acc.d, i)
                                           THEN wlist_add(acc.lst, OpeningOf(acc, i))
                                           ELSE acc.lst, WriteOf(acc, i))
                    /\ new.d = [acc.d EXCEPT !.parts[i].start_lba = StartOf(acc, i),
                                             !.parts[i].len_kb = KeptOf(acc, i)]
  <1> DEFINE new  == AddPartition(acc, i)
             lst  == IF Opens(acc.d, i) THEN wlist_add(acc.lst, OpeningOf(acc, i)) ELSE acc.lst
             disk == [acc.d EXCEPT !.parts[i].start_lba = StartOf(acc, i),
                                   !.parts[i].len_kb = KeptOf(acc, i)]
  <1>1. acc.ok \in BOOLEAN /\ DOMAIN acc = {"ok", "lba", "ext_lba", "lst", "d"}
    BY DEF Accs
  <1>2. CASE ~acc.ok \/ Refuses(acc, i)
    <2>1. new = [acc EXCEPT !.ok = FALSE]
      BY <1>2 DEF AddPartition
    <2>2. new.ok = FALSE
      BY <1>1, <2>1
    <2> QED BY <1>2, <2>1, <2>2
  <1>3. CASE acc.ok /\ ~Refuses(acc, i)
    <2>1. new = [ok |-> TRUE, lba |-> AfterOf(acc, i), ext_lba |-> ExtOf(acc, i),
                 lst |-> wlist_add(lst, WriteOf(acc, i)), d |-> disk]
      BY <1>3, AddedRecord
    <2> HIDE DEF new, disk, lst
    <2>2. /\ new.ok = TRUE /\ new.lba = AfterOf(acc, i) /\ new.ext_lba = ExtOf(acc, i)
          /\ new.lst = wlist_add(lst, WriteOf(acc, i)) /\ new.d = disk
      BY <2>1
    <2> QED BY <1>3, <2>2 DEF new, disk, lst
  <1> QED BY <1>1, <1>2, <1>3

\* A turn leaves a disk of as many partitions, of which it changes one.
LEMMA AddedDisk ==
    ASSUME NEW acc \in Accs, NEW i \in 1 .. Num(acc.d), AddPartition(acc, i).ok
    PROVE  LET new == AddPartition(acc, i).d
           IN  /\ new \in Disks /\ Num(new) = Num(acc.d)
               /\ new.skip_lba = acc.d.skip_lba /\ new.num_lba = acc.d.num_lba
               /\ new.parts[i].start_lba = StartOf(acc, i)
               /\ new.parts[i].len_kb = KeptOf(acc, i)
               /\ \A j \in 1 .. Num(acc.d) : j # i => new.parts[j] = acc.d.parts[j]
  <1> DEFINE new == AddPartition(acc, i).d
             d   == acc.d
             ps  == new.parts
             p   == ps[i]
  <1>1. d \in Disks /\ Num(d) \in Nat /\ i \in 1 .. Num(d) /\ DOMAIN d.parts = 1 .. Num(d)
    BY DiskTypes DEF Accs
  <1>2. new = [d EXCEPT !.parts[i].start_lba = StartOf(acc, i), !.parts[i].len_kb = KeptOf(acc, i)]
    BY Added
  <1>3. StartOf(acc, i) \in 0 .. Word - 1 /\ KeptOf(acc, i) \in 0 .. Word - 1
    BY PlaceTypes
  <1>4. /\ d.parts \in Seq([start_lba : 0 .. Word - 1, len_kb : 0 .. Word - 1])
        /\ DOMAIN d = {"skip_lba", "num_lba", "parts"}
        /\ d.skip_lba \in 0 .. Word - 1 /\ d.num_lba \in 0 .. Word - 1
    BY <1>1 DEF Disks
  <1>5. d.parts[i] \in [start_lba : 0 .. Word - 1, len_kb : 0 .. Word - 1]
    <2> DEFINE part == [start_lba : 0 .. Word - 1, len_kb : 0 .. Word - 1]
    <2>1. d.parts \in Seq(part)
      BY <1>4
    <2> HIDE DEF part
    <2>2. d.parts[i] \in part
      BY <1>1, <2>1
    <2> QED BY <2>2 DEF part
  <1> HIDE DEF new
  <1>6. /\ new.skip_lba = d.skip_lba /\ new.num_lba = d.num_lba
        /\ DOMAIN new = {"skip_lba", "num_lba", "parts"}
        /\ ps = [d.parts EXCEPT ![i] = [[d.parts[i] EXCEPT !.start_lba = StartOf(acc, i)]
                                          EXCEPT !.len_kb = KeptOf(acc, i)]]
    BY <1>1, <1>2, <1>4, <1>5
  <1> HIDE DEF ps
  <1>7. p = [[d.parts[i] EXCEPT !.start_lba = StartOf(acc, i)] EXCEPT !.len_kb = KeptOf(acc, i)]
    BY <1>1, <1>6
  <1> HIDE DEF p
  <1>8. /\ p.start_lba = StartOf(acc, i) /\ p.len_kb = KeptOf(acc, i)
        /\ p \in [start_lba : 0 .. Word - 1, len_kb : 0 .. Word - 1]
    BY <1>3, <1>5, <1>7
  <1>9. /\ ps \in Seq([start_lba : 0 .. Word - 1, len_kb : 0 .. Word - 1])
        /\ Len(ps) = Len(d.parts) /\ \A j \in 1 .. Num(d) : j # i => ps[j] = d.parts[j]
    BY <1>1, <1>4, <1>6, <1>7, <1>8 DEF Num
  <1>10. new = [skip_lba |-> d.skip_lba, num_lba |-> d.num_lba, parts |-> ps]
    BY <1>2, <1>4, <1>6 DEF Disks, ps
  <1>11. new \in Disks
    BY <1>4, <1>9, <1>10 DEF Disks
  <1> QED BY <1>6, <1>8, <1>9, <1>11 DEF Num, new, ps, p

LEMMA AddedTypes ==
    ASSUME NEW acc \in Accs, NEW i \in 1 .. Num(acc.d)
    PROVE  AddPartition(acc, i) \in Accs /\ Num(AddPartition(acc, i).d) = Num(acc.d)
  <1> DEFINE new == AddPartition(acc, i)
             lst == IF Opens(acc.d, i) THEN wlist_add(acc.lst, OpeningOf(acc, i)) ELSE acc.lst
  <1>1. acc.lst \in Seq(Writes)
    BY DEF Accs
  <1>2. CASE ~new.ok
    <2>1. new = [acc EXCEPT !.ok = FALSE]
      BY <1>2, Added
    <2> HIDE DEF new
    <2> QED BY <2>1 DEF Accs, new
  <1>3. CASE new.ok
    <2>1. lst \in Seq(Writes) /\ wlist_add(lst, WriteOf(acc, i)) \in Seq(Writes)
      BY <1>1, TurnWrites DEF wlist_add
    <2>2. new.d \in Disks /\ Num(new.d) = Num(acc.d)
      BY <1>3, AddedDisk
    <2> DEFINE disk == [acc.d EXCEPT !.parts[i].start_lba = StartOf(acc, i),
                                     !.parts[i].len_kb = KeptOf(acc, i)]
    <2>3. new = [ok |-> TRUE, lba |-> AfterOf(acc, i), ext_lba |-> ExtOf(acc, i),
                 lst |-> wlist_add(lst, WriteOf(acc, i)), d |-> disk]
      <3>1. acc.ok /\ ~Refuses(acc, i)
        BY <1>3, Added
      <3> QED BY <3>1, AddedRecord
    <2> HIDE DEF new, lst, disk
    <2>4. new.d = disk
      BY <2>3
    <2>5. disk \in Disks
      BY <2>2, <2>4
    <2>6. new \in Accs
      BY <2>1, <2>3, <2>5, PlaceTypes DEF Accs
    <2> QED BY <2>2, <2>6 DEF new
  <1> QED BY <1>2, <1>3

-----------------------------------------------------------------------------
(* All turns *)

LEMMA BlankAdded ==
    ASSUME NEW acc \in Accs, NEW i \in 1 .. NUM_BOOT_RECORD_PARTS
    PROVE  /\ AddBlank(acc, i) \in Accs
           /\ AddBlank(acc, i).d = acc.d /\ AddBlank(acc, i).ok = acc.ok
           /\ AddBlank(acc, i).lst = wlist_add(acc.lst, WriteEntry(i, NoEntry))
  <1> DEFINE lst == wlist_add(acc.lst, WriteEntry(i, NoEntry))
  <1>1. i \in 0 .. NUM_BOOT_RECORD_PARTS
    BY DEF NUM_BOOT_RECORD_PARTS
  <1>2. WriteEntry(i, NoEntry) \in Writes
    BY <1>1, WriteTypes
  <1>3. acc.lst \in Seq(Writes)
    BY DEF Accs
  <1>4. lst \in Seq(Writes)
    BY <1>2, <1>3 DEF wlist_add
  <1>5. AddBlank(acc, i) = [acc EXCEPT !.lst = lst]
    BY DEF AddBlank
  <1> HIDE DEF lst
  <1>6. [acc EXCEPT !.lst = lst] \in Accs
    BY <1>4 DEF Accs
  <1>7. [acc EXCEPT !.lst = lst].d = acc.d /\ [acc EXCEPT !.lst = lst].ok = acc.ok
        /\ [acc EXCEPT !.lst = lst].lst = lst
    BY DEF Accs
  <1> QED BY <1>5, <1>6, <1>7 DEF lst

\* The turns of a disk, and which of them adds a partition.
LEMMA TurnTypes ==
    ASSUME NEW d \in Disks
    PROVE  \A i \in 0 .. LastTurn(d) : Turns(d)[i] \in Accs /\ Num(Turns(d)[i].d) = Num(d)
  <1> DEFINE t == Turns(d)
             n == LastTurn(d)
             S == {i \in 0 .. n : t[i] \in Accs /\ Num(t[i].d) = Num(d)}
             start == [ok |-> TRUE, lba |-> d.skip_lba, ext_lba |-> 0, lst |-> << >>, d |-> d]
  <1>1. Num(d) \in Nat /\ n \in Nat /\ Num(d) <= n
    BY DiskTypes, TurnAfterTurn
  <1>2. t[0] = start
    BY <1>1, TurnAfterTurn
  <1>3. \A i \in 1 .. n : t[i] = IF i <= Num(d) THEN AddPartition(t[i - 1], i)
                                ELSE AddBlank(t[i - 1], i)
    BY <1>1, TurnAfterTurn
  <1>4. start \in Accs /\ start.d = d
    <2>1. d.skip_lba \in 0 .. Word - 1 /\ 0 \in 0 .. Word - 1 /\ << >> \in Seq(Writes)
      BY DiskTypes, SectorsAssumption
    <2> QED BY <2>1 DEF Accs
  <1>5. \A i \in 1 .. n : i > Num(d) => i \in 1 .. NUM_BOOT_RECORD_PARTS
    BY <1>1 DEF LastTurn, NUM_BOOT_RECORD_PARTS
  <1> HIDE DEF n, t, start
  <1>6. 0 \in S
    BY <1>1, <1>2, <1>4
  <1>7. ASSUME NEW i \in 1 .. n, i - 1 \in S
        PROVE  i \in S
    <2>1. t[i - 1] \in Accs /\ Num(t[i - 1].d) = Num(d)
      BY <1>7
    <2>2. CASE i <= Num(d)
      <3>1. i \in 1 .. Num(t[i - 1].d)
        BY <1>1, <2>1, <2>2
      <3>2. t[i] = AddPartition(t[i - 1], i)
        BY <1>3, <2>2
      <3>3. t[i] \in Accs /\ Num(t[i].d) = Num(d)
        BY <2>1, <3>1, <3>2, AddedTypes
      <3> QED BY <1>1, <3>3
    <2>3. CASE ~(i <= Num(d))
      <3>1. i \in 1 .. NUM_BOOT_RECORD_PARTS
        BY <1>1, <1>5, <2>3
      <3>2. t[i] = AddBlank(t[i - 1], i)
        BY <1>3, <2>3
      <3>3. t[i] \in Accs /\ t[i].d = t[i - 1].d
        BY <2>1, <3>1, <3>2, BlankAdded
      <3> QED BY <1>1, <2>1, <3>3
    <2> QED BY <2>2, <2>3
  <1>8. \A i \in 0 .. n : i \in S
    <2> HIDE DEF S
    <2> QED BY <1>1, <1>6, <1>7, TurnByTurn
  <1> QED BY <1>8 DEF n, t

\* A turn by its predecessor.
LEMMA EachTurn ==
    ASSUME NEW d \in Disks, NEW i \in 1 .. LastTurn(d)
    PROVE  /\ LastTurn(d) \in Nat /\ i - 1 \in 0 .. LastTurn(d) /\ Num(d) <= LastTurn(d)
           /\ Turns(d)[i - 1] \in Accs /\ Num(Turns(d)[i - 1].d) = Num(d)
           /\ i <= Num(d) => /\ i \in 1 .. Num(d)
                             /\ Turns(d)[i] = AddPartition(Turns(d)[i - 1], i)
           /\ ~(i <= Num(d)) => /\ i \in 1 .. NUM_BOOT_RECORD_PARTS
                                /\ Num(d) <= NUM_BOOT_RECORD_PARTS
                                /\ Turns(d)[i] = AddBlank(Turns(d)[i - 1], i)
  <1>1. Num(d) \in Nat /\ LastTurn(d) \in Nat /\ Num(d) <= LastTurn(d)
    BY DiskTypes, TurnAfterTurn
  <1>2. i - 1 \in 0 .. LastTurn(d) /\ (i <= Num(d) => i \in 1 .. Num(d))
    BY <1>1
  <1>3. ~(i <= Num(d)) => i \in 1 .. NUM_BOOT_RECORD_PARTS /\ Num(d) <= NUM_BOOT_RECORD_PARTS
    BY <1>1 DEF LastTurn, NUM_BOOT_RECORD_PARTS
  <1>4. Turns(d)[i] = IF i <= Num(d) THEN AddPartition(Turns(d)[i - 1], i)
                      ELSE AddBlank(Turns(d)[i - 1], i)
    BY <1>1, TurnAfterTurn
  <1>5. Turns(d)[i - 1] \in Accs /\ Num(Turns(d)[i - 1].d) = Num(d)
    BY <1>2, TurnTypes
  <1> QED BY <1>1, <1>2, <1>3, <1>4, <1>5

\* A turn that goes well follows one that did.
LEMMA OkBefore ==
    ASSUME NEW d \in Disks, NEW i \in 1 .. LastTurn(d), Turns(d)[i].ok
    PROVE  Turns(d)[i - 1].ok
  <1> DEFINE a == Turns(d)[i - 1]
             b == Turns(d)[i]
  <1>1. a \in Accs /\ Num(a.d) = Num(d) /\ b.ok
    BY EachTurn
  <1>2. i <= Num(d) => i \in 1 .. Num(d) /\ b = AddPartition(a, i)
    BY EachTurn
  <1>3. ~(i <= Num(d)) => i \in 1 .. NUM_BOOT_RECORD_PARTS /\ b = AddBlank(a, i)
    BY EachTurn
  <1> HIDE DEF a, b
  <1>4. CASE i <= Num(d)
    <2>1. AddPartition(a, i).ok => a.ok
      BY <1>1, <1>2, <1>4, Added
    <2> QED BY <1>1, <1>2, <1>4, <2>1 DEF a
  <1>5. CASE ~(i <= Num(d))
    BY <1>1, <1>3, <1>5, BlankAdded DEF a
  <1> QED BY <1>4, <1>5

\* What the turns have made of the disk: a length that was REST may have become
\* a number, in the turn of that partition.
LEMMA TurnsKeep ==
    ASSUME NEW d \in Disks
    PROVE  \A i \in 0 .. LastTurn(d) : Turns(d)[i].ok =>
             /\ Turns(d)[i].d.skip_lba = d.skip_lba /\ Turns(d)[i].d.num_lba = d.num_lba
             /\ \A j \in 1 .. Num(d) :
                  Turns(d)[i].d.parts[j].len_kb = IF j <= i THEN KeptOf(Turns(d)[j - 1], j)
                                                  ELSE d.parts[j].len_kb
  <1> DEFINE t == Turns(d)
             n == LastTurn(d)
             Made(i) == t[i].ok =>
                          /\ t[i].d.skip_lba = d.skip_lba /\ t[i].d.num_lba = d.num_lba
                          /\ \A j \in 1 .. Num(d) :
                               t[i].d.parts[j].len_kb = IF j <= i THEN KeptOf(t[j - 1], j)
                                                        ELSE d.parts[j].len_kb
             S == {i \in 0 .. n : Made(i)}
             start == [ok |-> TRUE, lba |-> d.skip_lba, ext_lba |-> 0, lst |-> << >>, d |-> d]
  <1>1. Num(d) \in Nat /\ n \in Nat /\ Num(d) <= n /\ t[0] = start
    BY DiskTypes, TurnAfterTurn
  <1>2. \A i \in 1 .. n : t[i].ok => t[i - 1].ok
    BY OkBefore
  <1> HIDE DEF n
  <1>3. 0 \in S
    <2>1. t[0].d = d
      BY <1>1
    <2>2. \A j \in 1 .. Num(d) : ~(j <= 0)
      BY <1>1
    <2>3. Made(0)
      BY <2>1, <2>2
    <2> HIDE DEF Made
    <2> QED BY <1>1, <2>3
  <1>4. ASSUME NEW i \in 1 .. n, i - 1 \in S
        PROVE  i \in S
    <2>1. ASSUME t[i].ok
          PROVE  /\ t[i].d.skip_lba = d.skip_lba /\ t[i].d.num_lba = d.num_lba
                 /\ \A j \in 1 .. Num(d) :
                      t[i].d.parts[j].len_kb = IF j <= i THEN KeptOf(t[j - 1], j)
                                               ELSE d.parts[j].len_kb
      <3>1. t[i - 1].ok /\ Made(i - 1)
        BY <1>2, <1>4, <2>1
      <3>2. t[i - 1] \in Accs /\ Num(t[i - 1].d) = Num(d)
        BY EachTurn DEF n
      <3>3. CASE i <= Num(d)
        <4>1. i \in 1 .. Num(t[i - 1].d) /\ t[i] = AddPartition(t[i - 1], i)
          BY <3>2, <3>3, EachTurn DEF n
        <4>2. /\ t[i].d.skip_lba = t[i - 1].d.skip_lba /\ t[i].d.num_lba = t[i - 1].d.num_lba
              /\ t[i].d.parts[i].len_kb = KeptOf(t[i - 1], i)
              /\ \A j \in 1 .. Num(d) : j # i => t[i].d.parts[j] = t[i - 1].d.parts[j]
          BY <2>1, <3>2, <4>1, AddedDisk
        <4>3. ASSUME NEW j \in 1 .. Num(d)
              PROVE  t[i].d.parts[j].len_kb = IF j <= i THEN KeptOf(t[j - 1], j)
                                              ELSE d.parts[j].len_kb
          <5> HIDE DEF t
          <5>1. CASE j = i
            BY <1>1, <4>2, <5>1
          <5>2. CASE j # i
            <6>1. j <= i <=> j <= i - 1
              BY <1>1, <5>2
            <6>2. t[i].d.parts[j].len_kb = t[i - 1].d.parts[j].len_kb
              BY <4>2, <5>2
            <6> QED BY <3>1, <6>1, <6>2
          <5> QED BY <5>1, <5>2
        <4> QED BY <3>1, <4>2, <4>3
      <3>4. CASE ~(i <= Num(d))
        <4>1. i \in 1 .. NUM_BOOT_RECORD_PARTS /\ t[i] = AddBlank(t[i - 1], i)
          BY <3>4, EachTurn DEF n
        <4>2. t[i].d = t[i - 1].d
          BY <3>2, <4>1, BlankAdded
        <4>3. \A j \in 1 .. Num(d) : j <= i /\ j <= i - 1
          BY <1>1, <3>4
        <4> HIDE DEF t
        <4> QED BY <3>1, <4>2, <4>3
      <3> QED BY <3>3, <3>4
    <2>2. Made(i)
      BY <2>1
    <2> HIDE DEF Made
    <2> QED BY <1>1, <2>2
  <1>5. \A i \in 0 .. n : i \in S
    <2> HIDE DEF S
    <2> QED BY <1>1, <1>3, <1>4, TurnByTurn
  <1> QED BY <1>5 DEF n

-----------------------------------------------------------------------------
(* The second pass *)

\* Two writes at the same place that lay a partition out on the same sectors; the
\* first of them may leave some at its end.
SimilarWrite(w, v) ==
    /\ w.to = v.to /\ w.at = v.at
    /\ w.what.logical.start = v.what.logical.start
    /\ w.what.logical.len <= v.what.logical.len

Similar(l, m) == Len(l) = Len(m) /\ \A j \in 1 .. Len(m) : SimilarWrite(l[j], m[j])

LEMMA WriteItself ==
    ASSUME NEW w \in Writes
    PROVE  SimilarWrite(w, w)
  <1>1. w.what.logical.len \in Int
    BY SectorsAssumption DEF Writes, EbrSet, Entries
  <1> QED BY <1>1 DEF SimilarWrite

LEMMA SimilarAdded ==
    ASSUME NEW l \in Seq(Writes), NEW m \in Seq(Writes), Similar(l, m),
           NEW w \in Writes, NEW v \in Writes, SimilarWrite(w, v)
    PROVE  Similar(wlist_add(l, w), wlist_add(m, v))
  <1> DEFINE a == wlist_add(l, w)
             b == wlist_add(m, v)
  <1>1. Len(l) \in Nat /\ Len(m) = Len(l)
    BY DEF Similar
  <1>2. /\ Len(a) = Len(l) + 1 /\ a[1] = w
        /\ \A j \in 1 .. Len(l) : a[j + 1] = l[j]
    BY DEF wlist_add
  <1>3. /\ Len(b) = Len(m) + 1 /\ b[1] = v
        /\ \A j \in 1 .. Len(m) : b[j + 1] = m[j]
    BY DEF wlist_add
  <1> HIDE DEF a, b
  <1>4. ASSUME NEW j \in 1 .. Len(b)
        PROVE  SimilarWrite(a[j], b[j])
    <2>1. CASE j = 1
      BY <1>2, <1>3, <2>1
    <2>2. CASE j # 1
      <3>1. j - 1 \in 1 .. Len(m) /\ (j - 1) + 1 = j
        BY <1>1, <1>3, <2>2
      <3>2. SimilarWrite(l[j - 1], m[j - 1])
        BY <3>1 DEF Similar
      <3>3. a[j] = l[j - 1] /\ b[j] = m[j - 1]
        BY <1>1, <1>2, <1>3, <3>1
      <3> QED BY <3>2, <3>3
    <2> QED BY <2>1, <2>2
  <1> QED BY <1>1, <1>2, <1>3, <1>4 DEF Similar, a, b

\* The two passes at the same partition: they agree on where it begins, and but
\* for the last one on where it ends.
LEMMA TurnsAgree ==
    ASSUME NEW a \in Accs, NEW b \in Accs, NEW i \in 1 .. Num(a.d), Num(b.d) = Num(a.d),
           a.ok, ~Refuses(a, i), a.lba = b.lba, a.d.num_lba = b.d.num_lba,
           b.d.parts[i].len_kb = KeptOf(a, i)
    PROVE  /\ SimilarWrite(WriteOf(b, i), WriteOf(a, i))
           /\ Opens(b.d, i) = Opens(a.d, i)
           /\ Opens(a.d, i) => OpeningOf(b, i) = OpeningOf(a, i)
           /\ i < Num(a.d) => AfterOf(b, i) = AfterOf(a, i)
  <1>1. Extended(b.d, i) = Extended(a.d, i) /\ Opens(b.d, i) = Opens(a.d, i)
    BY DEF Extended, Opens
  <1>2. StartOf(b, i) = StartOf(a, i)
    BY <1>1 DEF StartOf
  <1>3. /\ StartOf(a, i) \in Int /\ LenOf(a, i) \in Nat /\ LenOf(b, i) \in Nat
        /\ i \in Nat /\ Extended(a.d, i) \in {0, 1} /\ Num(a.d) \in Nat
    BY PlaceTypes, DiskTypes, SectorsAssumption DEF Accs
  <1>4. /\ LenOf(b, i) <= LenOf(a, i)
        /\ i < Num(a.d) => LenOf(b, i) = LenOf(a, i)
    <2>1. CASE Extended(a.d, i) = 1 /\ a.d.parts[i].len_kb = REST
      <3>1. b.d.parts[i].len_kb = KeptKb(LenOf(a, i))
        BY <2>1 DEF KeptOf
      <3>2. LenOf(a, i) = (a.d.num_lba - StartOf(a, i)) % Word
        BY <2>1 DEF LenOf, PartLen
      <3>3. ~(i < Num(a.d))
        BY <2>1 DEF Refuses
      <3>4. CASE KeptKb(LenOf(a, i)) = REST
        <4>1. LenOf(b, i) = (b.d.num_lba - StartOf(b, i)) % Word
          BY <3>1, <3>4 DEF LenOf, PartLen
        <4> QED BY <1>2, <1>3, <3>2, <4>1
      <3>5. CASE KeptKb(LenOf(a, i)) # REST
        <4>1. LenOf(b, i) = kb_to_lba(KeptKb(LenOf(a, i)))
          BY <3>1, <3>5 DEF LenOf, PartLen
        <4>2. kb_to_lba(KeptKb(LenOf(a, i))) <= LenOf(a, i)
          BY <1>3, KeptFits
        <4> QED BY <3>3, <4>1, <4>2
      <3> QED BY <3>4, <3>5
    <2>2. CASE ~(Extended(a.d, i) = 1 /\ a.d.parts[i].len_kb = REST)
      <3>1. b.d.parts[i].len_kb = a.d.parts[i].len_kb
        BY <2>2 DEF KeptOf
      <3>2. LenOf(b, i) = LenOf(a, i)
        BY <1>2, <3>1 DEF LenOf, PartLen
      <3> QED BY <1>3, <3>2
    <2> QED BY <2>1, <2>2
  <1>5. Opens(a.d, i) => OpeningOf(b, i) = OpeningOf(a, i)
    BY DEF OpeningOf
  <1>6. i < Num(a.d) => AfterOf(b, i) = AfterOf(a, i)
    BY <1>2, <1>4 DEF AfterOf
  <1>7. SimilarWrite(WriteOf(b, i), WriteOf(a, i))
    <2>1. CASE Extended(a.d, i) = 0
      <3>1. /\ WriteOf(a, i) = WriteEntry(i, Entry("part", StartOf(a, i), LenOf(a, i)))
            /\ WriteOf(b, i) = WriteEntry(i, Entry("part", StartOf(a, i), LenOf(b, i)))
        BY <1>1, <1>2, <2>1 DEF WriteOf
      <3>2. ASSUME NEW len
            PROVE  LET w == WriteEntry(i, Entry("part", StartOf(a, i), len))
                   IN  /\ w.to = "mbr" /\ w.at = i
                       /\ w.what.logical.start = StartOf(a, i) /\ w.what.logical.len = len
        BY DEF WriteEntry, Entry, NoEbr
      <3>3. /\ WriteOf(a, i).to = WriteOf(b, i).to /\ WriteOf(a, i).at = WriteOf(b, i).at
            /\ WriteOf(a, i).what.logical.start = WriteOf(b, i).what.logical.start
            /\ WriteOf(a, i).what.logical.len = LenOf(a, i)
            /\ WriteOf(b, i).what.logical.len = LenOf(b, i)
        BY <3>1, <3>2
      <3> QED BY <1>4, <3>3 DEF SimilarWrite
    <2>2. CASE Extended(a.d, i) = 1
      <3> DEFINE next(c) == NextEntry(c.d, i, AfterOf(c, i), ExtOf(c, i))
      <3>1. /\ WriteOf(a, i) = WriteEbr(a.lba, [logical |-> Entry("part", 1, LenOf(a, i)),
                                                next |-> next(a)])
            /\ WriteOf(b, i) = WriteEbr(a.lba, [logical |-> Entry("part", 1, LenOf(b, i)),
                                                next |-> next(b)])
        BY <1>1, <2>2 DEF WriteOf
      <3> HIDE DEF next
      <3>2. ASSUME NEW len, NEW e
            PROVE  LET w == WriteEbr(a.lba, [logical |-> Entry("part", 1, len), next |-> e])
                   IN  /\ w.to = "ebr" /\ w.at = a.lba
                       /\ w.what.logical.start = 1 /\ w.what.logical.len = len
        BY DEF WriteEbr, Entry
      <3>3. /\ WriteOf(a, i).to = WriteOf(b, i).to /\ WriteOf(a, i).at = WriteOf(b, i).at
            /\ WriteOf(a, i).what.logical.start = WriteOf(b, i).what.logical.start
            /\ WriteOf(a, i).what.logical.len = LenOf(a, i)
            /\ WriteOf(b, i).what.logical.len = LenOf(b, i)
        BY <3>1, <3>2
      <3> QED BY <1>4, <3>3 DEF SimilarWrite
    <2> QED BY <1>3, <2>1, <2>2
  <1> QED BY <1>1, <1>5, <1>6, <1>7

\* config_mbr is its last turn and the empty table.
LEMMA ConfigMade ==
    ASSUME NEW d \in Disks
    PROVE  LET last == Turns(d)[LastTurn(d)]
           IN  /\ last \in Accs /\ LastTurn(d) \in Nat
               /\ config_mbr(d).ok = last.ok /\ config_mbr(d).d = last.d
               /\ config_mbr(d).lst = wlist_add(last.lst, WriteEmpty)
               /\ config_mbr(d).ok \in BOOLEAN
               /\ config_mbr(d).d \in Disks /\ Num(config_mbr(d).d) = Num(d)
               /\ config_mbr(d).lst \in Seq(Writes)
  <1> DEFINE last == Turns(d)[LastTurn(d)]
             lst  == wlist_add(last.lst, WriteEmpty)
  <1>1. LastTurn(d) \in Nat
    BY DiskTypes, TurnAfterTurn
  <1>2. last \in Accs /\ Num(last.d) = Num(d)
    BY <1>1, TurnTypes
  <1>3. config_mbr(d) = [last EXCEPT !.lst = lst]
    BY DEF config_mbr
  <1> HIDE DEF last
  <1>4. last.lst \in Seq(Writes) /\ last.ok \in BOOLEAN /\ last.d \in Disks
    BY <1>2 DEF Accs
  <1>5. lst \in Seq(Writes)
    BY <1>4, WriteTypes DEF wlist_add
  <1> HIDE DEF lst
  <1>6. /\ config_mbr(d).ok = last.ok /\ config_mbr(d).d = last.d /\ config_mbr(d).lst = lst
    BY <1>2, <1>3 DEF Accs
  <1> QED BY <1>1, <1>2, <1>4, <1>5, <1>6 DEF last, lst

\* The second pass lays the partitions of the first one out as that has done.
LEMMA SecondPass ==
    ASSUME NEW d \in Disks, config_mbr(d).ok, config_mbr(config_mbr(d).d).ok
    PROVE  LET e == config_mbr(d).d
           IN  /\ Similar(config_mbr(e).lst, config_mbr(d).lst)
               /\ \A i \in 0 .. LastTurn(d) :
                    Turns(d)[i].ok /\ Turns(e)[i].ok /\ i < Num(d) => Turns(e)[i].lba = Turns(d)[i].lba
  <1> DEFINE e == config_mbr(d).d
             n == LastTurn(d)
             t == Turns(d)
             u == Turns(e)
             Agree(i) == t[i].ok /\ u[i].ok =>
                           /\ Similar(u[i].lst, t[i].lst)
                           /\ i < Num(d) => u[i].lba = t[i].lba
             S == {i \in 0 .. n : Agree(i)}
  <1>1. /\ e \in Disks /\ Num(e) = Num(d) /\ n \in Nat /\ Num(d) \in Nat
        /\ t[n].ok /\ e = t[n].d
    BY ConfigMade, DiskTypes
  <1>2. LastTurn(e) = n
    BY <1>1 DEF LastTurn
  <1>3. Num(d) <= n
    BY <1>1, TurnAfterTurn
  <1>4. /\ e.skip_lba = d.skip_lba /\ e.num_lba = d.num_lba
        /\ \A i \in 1 .. Num(d) : e.parts[i].len_kb = KeptOf(t[i - 1], i)
    BY <1>1, <1>3, TurnsKeep
  <1>5. /\ t[0].lba = d.skip_lba /\ t[0].lst = << >>
        /\ u[0].lba = e.skip_lba /\ u[0].lst = << >>
    <2>1. t[0] = [ok |-> TRUE, lba |-> d.skip_lba, ext_lba |-> 0, lst |-> << >>, d |-> d]
      BY <1>1, TurnAfterTurn
    <2>2. u[0] = [ok |-> TRUE, lba |-> e.skip_lba, ext_lba |-> 0, lst |-> << >>, d |-> e]
      <3> HIDE DEF e
      <3> QED BY <1>1, TurnAfterTurn
    <2> HIDE DEF e, t, u
    <2> QED BY <2>1, <2>2
  <1> HIDE DEF e, n, t, u
  <1>6. 0 \in S
    <2>1. Similar(u[0].lst, t[0].lst)
      BY <1>5 DEF Similar
    <2>2. Agree(0)
      BY <1>4, <1>5, <2>1
    <2> HIDE DEF Agree
    <2> QED BY <1>1, <2>2
  <1>7. ASSUME NEW i \in 1 .. n, i - 1 \in S
        PROVE  i \in S
    <2> DEFINE a == t[i - 1]
               b == u[i - 1]
    <2>1. ASSUME t[i].ok, u[i].ok
          PROVE  /\ Similar(u[i].lst, t[i].lst)
                 /\ i < Num(d) => u[i].lba = t[i].lba
      <3>1. a.ok /\ b.ok
        BY <1>1, <1>2, <2>1, OkBefore DEF n, t, u
      <3>2. /\ a \in Accs /\ b \in Accs /\ Num(a.d) = Num(d) /\ Num(b.d) = Num(d)
            /\ i - 1 \in 0 .. n
        BY <1>1, <1>2, EachTurn DEF n, t, u
      <3>3. Similar(b.lst, a.lst) /\ (i - 1 < Num(d) => b.lba = a.lba)
        BY <1>7, <3>1
      <3>4. a.lst \in Seq(Writes) /\ b.lst \in Seq(Writes)
        BY <3>2 DEF Accs
      <3>5. CASE i <= Num(d)
        <4>1. /\ i \in 1 .. Num(d) /\ t[i] = AddPartition(a, i) /\ u[i] = AddPartition(b, i)
          BY <1>1, <1>2, <3>5, EachTurn DEF n, t, u
        <4>2. a.d.num_lba = d.num_lba /\ b.d.num_lba = e.num_lba
          BY <1>1, <1>2, <3>1, <3>2, TurnsKeep DEF n, t, u
        <4>3. b.d.parts[i].len_kb = e.parts[i].len_kb
          <5>1. \A j \in 1 .. Num(e) : b.d.parts[j].len_kb = IF j <= i - 1 THEN KeptOf(u[j - 1], j)
                                                             ELSE e.parts[j].len_kb
            BY <1>1, <1>2, <3>1, <3>2, TurnsKeep DEF n, u
          <5>2. ~(i <= i - 1)
            OBVIOUS
          <5> QED BY <1>1, <4>1, <5>1, <5>2
        <4>4. b.d.parts[i].len_kb = KeptOf(a, i)
          BY <1>4, <4>1, <4>3
        <4>5. i - 1 < Num(d)
          BY <1>1, <4>1
        <4> HIDE DEF a, b
        <4>6. ~Refuses(a, i) /\ AddPartition(a, i).ok /\ AddPartition(b, i).ok
          <5>1. AddPartition(a, i).ok <=> a.ok /\ ~Refuses(a, i)
            BY <3>2, <4>1, Added
          <5> QED BY <2>1, <4>1, <5>1
        <4>7. /\ SimilarWrite(WriteOf(b, i), WriteOf(a, i))
              /\ Opens(b.d, i) = Opens(a.d, i)
              /\ Opens(a.d, i) => OpeningOf(b, i) = OpeningOf(a, i)
              /\ i < Num(a.d) => AfterOf(b, i) = AfterOf(a, i)
          BY <1>4, <3>1, <3>2, <3>3, <4>1, <4>2, <4>4, <4>5, <4>6, TurnsAgree
        <4> DEFINE la == IF Opens(a.d, i) THEN wlist_add(a.lst, OpeningOf(a, i)) ELSE a.lst
                   lb == IF Opens(b.d, i) THEN wlist_add(b.lst, OpeningOf(b, i)) ELSE b.lst
        <4>8. /\ t[i].lst = wlist_add(la, WriteOf(a, i)) /\ t[i].lba = AfterOf(a, i)
              /\ u[i].lst = wlist_add(lb, WriteOf(b, i)) /\ u[i].lba = AfterOf(b, i)
          <5>1. t[i].lst = wlist_add(la, WriteOf(a, i)) /\ t[i].lba = AfterOf(a, i)
            <6>1. i \in 1 .. Num(a.d)
              BY <3>2, <4>1
            <6>2. /\ AddPartition(a, i).lst = wlist_add(la, WriteOf(a, i))
                  /\ AddPartition(a, i).lba = AfterOf(a, i)
              BY <3>2, <4>6, <6>1, Added
            <6> QED BY <4>1, <6>2
          <5>2. u[i].lst = wlist_add(lb, WriteOf(b, i)) /\ u[i].lba = AfterOf(b, i)
            <6>1. i \in 1 .. Num(b.d)
              BY <3>2, <4>1
            <6>2. /\ AddPartition(b, i).lst = wlist_add(lb, WriteOf(b, i))
                  /\ AddPartition(b, i).lba = AfterOf(b, i)
              BY <3>2, <4>6, <6>1, Added
            <6> QED BY <4>1, <6>2
          <5> QED BY <5>1, <5>2
        <4>9. la \in Seq(Writes) /\ lb \in Seq(Writes) /\ Similar(lb, la)
          <5>1. CASE Opens(a.d, i)
            <6>1. OpeningOf(a, i) \in Writes /\ OpeningOf(b, i) = OpeningOf(a, i)
              BY <3>2, <4>1, <4>7, <5>1, TurnWrites
            <6>2. SimilarWrite(OpeningOf(b, i), OpeningOf(a, i))
              BY <6>1, WriteItself
            <6>3. la = wlist_add(a.lst, OpeningOf(a, i)) /\ lb = wlist_add(b.lst, OpeningOf(b, i))
              BY <4>7, <5>1
            <6>4. la \in Seq(Writes) /\ lb \in Seq(Writes)
              BY <3>4, <6>1, <6>3 DEF wlist_add
            <6> HIDE DEF la, lb
            <6> QED BY <3>3, <3>4, <6>1, <6>2, <6>3, <6>4, SimilarAdded
          <5>2. CASE ~Opens(a.d, i)
            BY <3>3, <3>4, <4>7, <5>2
          <5> QED BY <5>1, <5>2
        <4>10. WriteOf(a, i) \in Writes /\ WriteOf(b, i) \in Writes
          BY <3>2, <4>1, TurnWrites
        <4> HIDE DEF la, lb
        <4>11. Similar(u[i].lst, t[i].lst)
          BY <4>7, <4>8, <4>9, <4>10, SimilarAdded
        <4> QED BY <3>2, <4>7, <4>8, <4>11
      <3>6. CASE ~(i <= Num(d))
        <4>1. /\ i \in 1 .. NUM_BOOT_RECORD_PARTS
              /\ t[i] = AddBlank(a, i) /\ u[i] = AddBlank(b, i)
          BY <1>1, <1>2, <3>6, EachTurn DEF n, t, u
        <4> HIDE DEF a, b
        <4>2. /\ t[i].lst = wlist_add(a.lst, WriteEntry(i, NoEntry))
              /\ u[i].lst = wlist_add(b.lst, WriteEntry(i, NoEntry))
          BY <3>2, <4>1, BlankAdded
        <4>3. WriteEntry(i, NoEntry) \in Writes
          <5>1. i \in 0 .. NUM_BOOT_RECORD_PARTS
            BY <4>1 DEF NUM_BOOT_RECORD_PARTS
          <5> QED BY <5>1, WriteTypes
        <4>4. SimilarWrite(WriteEntry(i, NoEntry), WriteEntry(i, NoEntry))
          BY <4>3, WriteItself
        <4>5. Similar(u[i].lst, t[i].lst)
          BY <3>3, <3>4, <4>2, <4>3, <4>4, SimilarAdded
        <4>6. ~(i < Num(d))
          BY <1>1, <3>6
        <4> QED BY <4>5, <4>6
      <3> QED BY <3>5, <3>6
    <2>2. Agree(i)
      BY <2>1
    <2> HIDE DEF Agree
    <2> QED BY <1>1, <2>2
  <1>8. \A i \in 0 .. n : i \in S
    <2> HIDE DEF S
    <2> QED BY <1>1, <1>6, <1>7, TurnByTurn
  <1>9. Similar(u[n].lst, t[n].lst)
    <2>1. u[n].ok
      BY <1>1, <1>2, ConfigMade DEF e, u
    <2> QED BY <1>1, <1>8, <2>1
  <1>10. /\ t[n].lst \in Seq(Writes) /\ u[n].lst \in Seq(Writes)
         /\ config_mbr(d).lst = wlist_add(t[n].lst, WriteEmpty)
         /\ config_mbr(e).lst = wlist_add(u[n].lst, WriteEmpty)
    <2>1. t[n] \in Accs /\ config_mbr(d).lst = wlist_add(t[n].lst, WriteEmpty)
      BY ConfigMade DEF t, n
    <2>2. u[n] \in Accs /\ config_mbr(e).lst = wlist_add(u[n].lst, WriteEmpty)
      BY <1>1, <1>2, ConfigMade DEF u, n
    <2> QED BY <2>1, <2>2 DEF Accs
  <1>11. Similar(config_mbr(e).lst, config_mbr(d).lst)
    BY <1>9, <1>10, WriteTypes, WriteItself, SimilarAdded
  <1>12. ASSUME NEW i \in 0 .. n, t[i].ok, u[i].ok, i < Num(d)
         PROVE  u[i].lba = t[i].lba
    BY <1>8, <1>12
  <1> QED BY <1>11, <1>12 DEF e, n, t, u

-----------------------------------------------------------------------------
(* The program *)

\* The state of the tool: what is written is the second pass over the disk that
\* the first one has left.
IInv ==
    /\ pc \in {"process", "apply", "commit", "copy", "done", "failed"}
    /\ dinfo \in Disks
    /\ images \in [1 .. Num(dinfo) -> Nat]
    /\ mbr \in [1 .. NUM_BOOT_RECORD_PARTS -> Entries]
    /\ wr_lst \in Seq(Writes) /\ checked \in Seq(Writes)
    /\ k \in 1 .. Num(dinfo) + 1
    /\ pc \in {"process", "apply"} => k = 1
    /\ pc = "apply" => \E d \in Disks : /\ config_mbr(d).ok
                                        /\ dinfo = config_mbr(d).d
                                        /\ checked = config_mbr(d).lst
    /\ pc = "commit" => /\ Len(wr_lst) <= Len(checked)
                        /\ Len(wr_lst) = Len(checked) => Similar(wr_lst, checked)

\* A layout file describes a disk, with an image or none for each partition.
LEMMA LoadedTypes ==
    ASSUME NEW l \in Layouts
    PROVE  LET d == [Loaded(l) EXCEPT !.num_lba = IF @ = 0 THEN l.file_lba ELSE @]
           IN  /\ d \in Disks
               /\ l.images \in [1 .. Num(d) -> Nat]
               /\ l.mbr \in [1 .. NUM_BOOT_RECORD_PARTS -> Entries]
  <1> DEFINE kb(i) == IF l.images[i] # 0 THEN ImageKb(l.images[i])
                      ELSE parse_len(l.parts[i].n, l.parts[i].suffix)
             ps == [i \in DOMAIN l.parts |-> [start_lba |-> 0, len_kb |-> kb(i)]]
             item == [n : Nat, suffix : {"", "K", "M"}]
             part == [start_lba : 0 .. Word - 1, len_kb : 0 .. Word - 1]
             num == IF l.num_lba = 0 THEN l.file_lba ELSE l.num_lba
             d == [Loaded(l) EXCEPT !.num_lba = IF @ = 0 THEN l.file_lba ELSE @]
  <1>1. /\ l.skip_lba \in 0 .. Word - 1 /\ l.num_lba \in 0 .. Word - 1
        /\ l.file_lba \in 0 .. Word - 1
        /\ l.parts \in Seq(item)
        /\ \A i \in DOMAIN l.parts : parse_len(l.parts[i].n, l.parts[i].suffix) < Word
        /\ l.images \in [DOMAIN l.parts -> Nat]
        /\ l.mbr \in [1 .. NUM_BOOT_RECORD_PARTS -> Entries]
    <2>1. l.skip_lba \in 1 .. Word - 1
      BY LayoutsAssumption
    <2>2. l.skip_lba \in 0 .. Word - 1
      BY <2>1, SectorsAssumption
    <2> QED BY <2>2, LayoutsAssumption
  <1>2. /\ Len(l.parts) \in Nat /\ DOMAIN l.parts = 1 .. Len(l.parts)
        /\ \A i \in DOMAIN l.parts : l.parts[i] \in item
    <2> HIDE DEF item
    <2> QED BY <1>1
  <1>3. ASSUME NEW i \in DOMAIN l.parts
        PROVE  kb(i) \in 0 .. Word - 1
    <2>1. l.images[i] \in Nat
      BY <1>1
    <2>2. l.parts[i].n \in Nat /\ l.parts[i].suffix \in {"", "K", "M"}
      BY <1>2
    <2>3. parse_len(l.parts[i].n, l.parts[i].suffix) \in Nat
      <3> DEFINE n        == l.parts[i].n
                 suffix   == l.parts[i].suffix
                 multiple == CASE suffix = "" -> 1 [] suffix = "K" -> KB [] suffix = "M" -> KB * KB
      <3>1. KB * KB \in Nat
        BY SectorsAssumption
      <3>2. multiple \in Nat
        BY <2>2, <3>1, SectorsAssumption
      <3> HIDE DEF multiple
      <3>3. multiple \div KB \in Nat
        BY <3>2, Divided, SectorsAssumption
      <3>4. parse_len(n, suffix) = n * (IF multiple > KB THEN multiple \div KB ELSE multiple)
        BY DEF parse_len, multiple
      <3> HIDE DEF n, suffix
      <3>5. (IF multiple > KB THEN multiple \div KB ELSE multiple) \in Nat
        BY <3>2, <3>3
      <3>6. n \in Nat
        BY <2>2 DEF n
      <3> HIDE DEF multiple
      <3>7. parse_len(n, suffix) \in Nat
        BY <3>4, <3>5, <3>6
      <3> QED BY <3>7 DEF n, suffix
    <2>4. parse_len(l.parts[i].n, l.parts[i].suffix) \in 0 .. Word - 1
      <3> DEFINE len == parse_len(l.parts[i].n, l.parts[i].suffix)
      <3>1. len < Word /\ len \in Nat
        BY <1>1, <2>3
      <3> HIDE DEF len
      <3>2. len \in 0 .. Word - 1
        BY <3>1, SectorsAssumption
      <3> QED BY <3>2 DEF len
    <2> QED BY <2>1, <2>4, LengthTypes
  <1> HIDE DEF kb
  <1>4. ps \in Seq(part) /\ Len(ps) = Len(l.parts)
    <2>1. 0 \in 0 .. Word - 1
      BY SectorsAssumption
    <2>2. \A i \in 1 .. Len(l.parts) : [start_lba |-> 0, len_kb |-> kb(i)] \in part
      BY <1>2, <1>3, <2>1
    <2> DEFINE n == Len(l.parts)
               Part(i) == [start_lba |-> 0, len_kb |-> kb(i)]
    <2>3. n \in Nat /\ ps = [i \in 1 .. n |-> Part(i)] /\ \A i \in 1 .. n : Part(i) \in part
      BY <1>2, <2>2
    <2> HIDE DEF part, Part, ps, n
    <2>4. ps \in Seq(part) /\ Len(ps) = n
      BY <2>3
    <2> QED BY <2>4 DEF n
  <1>5. num \in 0 .. Word - 1
    BY <1>1
  <1>6. Loaded(l) = [skip_lba |-> l.skip_lba, num_lba |-> l.num_lba, parts |-> ps]
    BY DEF Loaded, kb
  <1> HIDE DEF ps, num
  <1>7. d = [skip_lba |-> l.skip_lba, num_lba |-> num, parts |-> ps]
    BY <1>6 DEF num
  <1> HIDE DEF d
  <1>8. d \in Disks
    BY <1>1, <1>4, <1>5, <1>7 DEF Disks
  <1>9. Num(d) = Len(l.parts)
    BY <1>4, <1>7 DEF Num
  <1> QED BY <1>1, <1>2, <1>8, <1>9 DEF d, NUM_BOOT_RECORD_PARTS

LEMMA Initial ==
    Init => IInv
  <1> SUFFICES ASSUME Init
               PROVE  IInv
    OBVIOUS
  <1>1. PICK l \in Layouts :
           /\ dinfo = [Loaded(l) EXCEPT !.num_lba = IF @ = 0 THEN l.file_lba ELSE @]
           /\ images = l.images /\ mbr = l.mbr
    BY DEF Init
  <1>2. /\ dinfo \in Disks /\ images \in [1 .. Num(dinfo) -> Nat]
        /\ mbr \in [1 .. NUM_BOOT_RECORD_PARTS -> Entries]
    BY <1>1, LoadedTypes
  <1>3. Num(dinfo) \in Nat
    BY <1>2, DiskTypes
  <1>4. wr_lst = << >> /\ checked = << >> /\ k = 1 /\ pc = "process"
    BY DEF Init
  <1>5. << >> \in Seq(Writes)
    OBVIOUS
  <1> QED BY <1>2, <1>3, <1>4, <1>5 DEF IInv

\* Every step of the tool keeps the invariant.
LEMMA Inductive ==
    IInv /\ [Next]_vars => IInv'
  <1> SUFFICES ASSUME IInv, [Next]_vars
               PROVE  IInv'
    OBVIOUS
  <1>1. /\ pc \in {"process", "apply", "commit", "copy", "done", "failed"}
        /\ dinfo \in Disks /\ images \in [1 .. Num(dinfo) -> Nat]
        /\ mbr \in [1 .. NUM_BOOT_RECORD_PARTS -> Entries]
        /\ wr_lst \in Seq(Writes) /\ checked \in Seq(Writes)
        /\ k \in 1 .. Num(dinfo) + 1 /\ Num(dinfo) \in Nat
        /\ pc \in {"process", "apply"} => k = 1
    BY DiskTypes DEF IInv
  <1>2. << >> \in Seq(Writes)
    OBVIOUS
  <1>3. /\ config_mbr(dinfo).d \in Disks /\ Num(config_mbr(dinfo).d) = Num(dinfo)
        /\ config_mbr(dinfo).lst \in Seq(Writes)
    BY <1>1, ConfigMade
  <1>4. CASE Process
    <2>1. /\ dinfo' \in Disks /\ Num(dinfo') = Num(dinfo) /\ checked' \in Seq(Writes)
          /\ pc' \in {"apply", "failed"} /\ k' = 1
      BY <1>1, <1>2, <1>3, <1>4 DEF Process
    <2>2. pc' = "apply" => \E d \in Disks : /\ config_mbr(d).ok
                                          /\ dinfo' = config_mbr(d).d
                                          /\ checked' = config_mbr(d).lst
      <3>1. ASSUME pc' = "apply"
            PROVE  /\ config_mbr(dinfo).ok /\ dinfo' = config_mbr(dinfo).d
                   /\ checked' = config_mbr(dinfo).lst
        BY <1>4, <3>1 DEF Process
      <3> QED BY <1>1, <3>1
    <2>3. UNCHANGED <<images, mbr, wr_lst>>
      BY <1>4 DEF Process
    <2> QED BY <1>1, <2>1, <2>2, <2>3 DEF IInv
  <1>5. CASE Apply
    <2>1. /\ dinfo' \in Disks /\ Num(dinfo') = Num(dinfo) /\ wr_lst' \in Seq(Writes)
          /\ pc' \in {"commit", "failed"} /\ UNCHANGED <<images, mbr, checked, k>>
      BY <1>1, <1>2, <1>3, <1>5 DEF Apply
    <2>2. pc' = "commit" => Similar(wr_lst', checked')
      <3> SUFFICES ASSUME pc' = "commit"
                   PROVE  Similar(wr_lst', checked')
        OBVIOUS
      <3>1. config_mbr(dinfo).ok /\ wr_lst' = config_mbr(dinfo).lst /\ pc = "apply"
        BY <1>5 DEF Apply
      <3>2. PICK d \in Disks : /\ config_mbr(d).ok /\ dinfo = config_mbr(d).d
                               /\ checked = config_mbr(d).lst
        BY <3>1 DEF IInv
      <3> QED BY <2>1, <3>1, <3>2, SecondPass
    <2>3. pc' = "commit" => Len(wr_lst') <= Len(checked')
      BY <1>1, <2>1, <2>2 DEF Similar
    <2> QED BY <1>1, <2>1, <2>2, <2>3 DEF IInv
  <1>6. CASE Commit
    <2> DEFINE w == Head(wr_lst)
    <2>1. /\ pc = "commit" /\ wr_lst # << >> /\ wr_lst' = Tail(wr_lst)
          /\ UNCHANGED <<dinfo, images, data, checked, k, pc>>
          /\ mbr' = IF w.to # "mbr" THEN mbr
                    ELSE IF w.at = 0 THEN [i \in 1 .. NUM_BOOT_RECORD_PARTS |-> NoEntry]
                    ELSE [mbr EXCEPT ![w.at] = w.what.logical]
      BY <1>6 DEF Commit
    <2>2. w \in Writes /\ Tail(wr_lst) \in Seq(Writes) /\ Len(Tail(wr_lst)) < Len(wr_lst)
      BY <1>1, <2>1
    <2>3. /\ w.what.logical \in Entries
          /\ w.to = "mbr" => w.at \in 0 .. NUM_BOOT_RECORD_PARTS
      BY <2>2 DEF Writes, EbrSet
    <2>4. mbr' \in [1 .. NUM_BOOT_RECORD_PARTS -> Entries]
      <3> HIDE DEF w
      <3> QED BY <1>1, <2>1, <2>3, WriteTypes
    <2>5. Len(wr_lst) <= Len(checked)
      BY <2>1 DEF IInv
    <2>6. Len(wr_lst') < Len(checked')
      BY <1>1, <2>1, <2>2, <2>5
    <2>7. wr_lst' \in Seq(Writes) /\ Len(wr_lst') \in Nat /\ Len(checked') \in Nat
      BY <1>1, <2>1, <2>2
    <2> QED BY <1>1, <2>1, <2>4, <2>6, <2>7 DEF IInv
  <1>7. CASE Committed
    BY <1>1, <1>7 DEF Committed, IInv
  <1>8. CASE CopyImage
    <2>1. /\ pc = "copy" /\ k <= Len(images) /\ k' = k + 1
          /\ UNCHANGED <<dinfo, images, wr_lst, checked, pc>>
          /\ mbr' \in {mbr, [i \in 1 .. NUM_BOOT_RECORD_PARTS |-> NoEntry]}
      BY <1>8 DEF CopyImage
    <2>2. Len(images) = Num(dinfo)
      BY <1>1
    <2>3. mbr' \in [1 .. NUM_BOOT_RECORD_PARTS -> Entries]
      BY <1>1, <2>1, WriteTypes
    <2>4. k' \in 1 .. Num(dinfo) + 1
      BY <1>1, <2>1, <2>2
    <2> QED BY <1>1, <2>1, <2>3, <2>4 DEF IInv
  <1>9. CASE Finish
    BY <1>1, <1>9 DEF Finish, IInv
  <1>10. CASE Fail
    BY <1>1, <1>10 DEF Fail, IInv
  <1>11. CASE UNCHANGED vars
    BY <1>11 DEF vars, IInv
  <1> QED BY <1>4, <1>5, <1>6, <1>7, <1>8, <1>9, <1>10, <1>11 DEF Next

\* The invariant of the tool.
THEOREM Invariant == Spec => []IInv
  BY Initial, Inductive, PTL DEF Spec

\* Whatever the layout file says, the numbers that editdisklbl writes into a boot
\* record have 32 bits, and no step goes beyond the table or the list of images.
THEOREM TypeCorrect == Spec => []TypeOK
  <1>1. IInv => TypeOK
    <2> SUFFICES ASSUME IInv
                 PROVE  TypeOK
      OBVIOUS
    <2>1. DOMAIN mbr = 1 .. NUM_BOOT_RECORD_PARTS /\ \A i \in DOMAIN mbr : mbr[i] \in Entries
      BY DEF IInv
    <2>2. \A i \in DOMAIN mbr : mbr[i].start \in 0 .. Word - 1 /\ mbr[i].len \in 0 .. Word - 1
      BY <2>1 DEF Entries
    <2> QED BY <2>1, <2>2 DEF IInv, TypeOK
  <1> QED BY <1>1, Invariant, PTL

\* apply_disk_config works the layout out a second time, from a struct disk_info
\* that process_disk_config has changed, and what it writes is still what was checked.
THEOREM AppliesTheChecked == Spec => []AppliesWhatItChecked
  <1>1. IInv => AppliesWhatItChecked
    <2> SUFFICES ASSUME IInv, pc = "commit", Len(wr_lst) = Len(checked),
                        NEW j \in DOMAIN checked
                 PROVE  SimilarWrite(wr_lst[j], checked[j])
      BY DEF AppliesWhatItChecked, SimilarWrite
    <2>1. Similar(wr_lst, checked) /\ checked \in Seq(Writes)
      BY DEF IInv
    <2>2. j \in 1 .. Len(checked)
      BY <2>1
    <2> QED BY <2>1, <2>2 DEF Similar
  <1> QED BY <1>1, Invariant, PTL

-----------------------------------------------------------------------------
(* Images *)

\* The first byte behind a partition, with two sectors to spare.
EndOf(i) == dinfo.parts[i].start_lba * SectSize + dinfo.parts[i].len_kb * KB + 2 * SectSize

\* What holds an image ends below 2^32 bytes, as far as the offsets of the program go,
\* and what has a partition behind it below 2^32 sectors.
InRange ==
    \A i \in 1 .. Num(dinfo) :
        /\ images[i] # 0 => images[i] * SectSize + KB < Word /\ EndOf(i) <= Word
        /\ i < Num(dinfo) => EndOf(i) <= Word * SectSize

\* Every partition but the last begins where the one before it ends, or with its
\* EBR in between.
Chained(d) ==
    \A i \in 1 .. Num(d) :
        LET p == d.parts[i]
        IN  i < Num(d) /\ p.len_kb # REST =>
              d.parts[i + 1].start_lba =
                DataLba((p.start_lba + kb_to_lba(p.len_kb)) % Word, Extended(d, i + 1))

\* A partition with an image has the length of the image.
ImagesMeasured ==
    \A i \in 1 .. Num(dinfo) :
        images[i] # 0 /\ ImageKb(images[i]) # REST => dinfo.parts[i].len_kb = ImageKb(images[i])

\* The images up to k - 1 are in their place, and nothing else has been copied.
Copied ==
    /\ \A i \in 1 .. Num(dinfo) : i < k =>
         \A s \in Sectors(dinfo.parts[i].start_lba, images[i]) : s \in DOMAIN data /\ data[s] = i
    /\ \A s \in DOMAIN data :
         /\ data[s] \in 1 .. Num(dinfo)
         /\ s \in Sectors(dinfo.parts[data[s]].start_lba, images[data[s]])

CopyInv ==
    /\ pc # "failed" => ImagesMeasured
    /\ pc \notin {"process", "failed"} => validate(dinfo)
    /\ pc \in {"process", "apply", "commit"} => k = 1 /\ data = [s \in {} |-> 0]
    /\ pc \in {"commit", "copy", "done"} => Chained(dinfo)
    /\ pc \in {"copy", "done"} /\ InRange => Copied
    /\ pc = "done" => k > Num(dinfo)

\* What goes well at the end went well all along.
LEMMA AllOk ==
    ASSUME NEW d \in Disks, Turns(d)[LastTurn(d)].ok
    PROVE  \A i \in 0 .. LastTurn(d) : Turns(d)[i].ok
  <1> DEFINE n == LastTurn(d)
             t == Turns(d)
             S == {m \in 0 .. n : t[n - m].ok}
  <1>1. n \in Nat
    BY ConfigMade
  <1>2. \A i \in 1 .. n : t[i].ok => t[i - 1].ok
    BY OkBefore
  <1>3. t[n].ok
    OBVIOUS
  <1> HIDE DEF n, t
  <1>4. 0 \in S
    BY <1>1, <1>3
  <1>5. ASSUME NEW m \in 1 .. n, m - 1 \in S
        PROVE  m \in S
    <2>1. n - (m - 1) \in 1 .. n /\ t[n - (m - 1)].ok /\ (n - (m - 1)) - 1 = n - m
      BY <1>1, <1>5
    <2>2. t[(n - (m - 1)) - 1].ok
      BY <1>2, <2>1
    <2> QED BY <1>1, <2>1, <2>2
  <1>6. \A m \in 0 .. n : m \in S
    <2> HIDE DEF S
    <2> QED BY <1>1, <1>4, <1>5, TurnByTurn
  <1>7. ASSUME NEW i \in 0 .. n
        PROVE  t[i].ok
    <2>1. n - i \in 0 .. n /\ n - (n - i) = i
      BY <1>1
    <2> QED BY <1>6, <2>1
  <1> QED BY <1>7 DEF n, t

\* Where the turns have put the partitions.
LEMMA TurnsPlace ==
    ASSUME NEW d \in Disks, Turns(d)[LastTurn(d)].ok
    PROVE  \A i \in 0 .. LastTurn(d) : \A j \in 1 .. Num(d) :
             j <= i => Turns(d)[i].d.parts[j].start_lba = StartOf(Turns(d)[j - 1], j)
  <1> DEFINE t == Turns(d)
             n == LastTurn(d)
             Made(i) == \A j \in 1 .. Num(d) :
                          j <= i => t[i].d.parts[j].start_lba = StartOf(t[j - 1], j)
             S == {i \in 0 .. n : Made(i)}
  <1>1. Num(d) \in Nat /\ n \in Nat /\ Num(d) <= n
    BY DiskTypes, TurnAfterTurn
  <1>2. \A i \in 0 .. n : t[i].ok
    BY AllOk
  <1> HIDE DEF n
  <1>3. 0 \in S
    <2>1. Made(0)
      BY <1>1
    <2> HIDE DEF Made
    <2> QED BY <1>1, <2>1
  <1>4. ASSUME NEW i \in 1 .. n, i - 1 \in S
        PROVE  i \in S
    <2>1. Made(i - 1) /\ t[i].ok /\ i \in 0 .. n
      BY <1>1, <1>2, <1>4
    <2>2. t[i - 1] \in Accs /\ Num(t[i - 1].d) = Num(d)
      BY EachTurn DEF n
    <2>3. ASSUME NEW j \in 1 .. Num(d), j <= i
          PROVE  t[i].d.parts[j].start_lba = StartOf(t[j - 1], j)
      <3>1. CASE i <= Num(d)
        <4>1. i \in 1 .. Num(t[i - 1].d) /\ t[i] = AddPartition(t[i - 1], i)
          BY <2>2, <3>1, EachTurn DEF n
        <4>2. /\ t[i].d.parts[i].start_lba = StartOf(t[i - 1], i)
              /\ \A m \in 1 .. Num(d) : m # i => t[i].d.parts[m] = t[i - 1].d.parts[m]
          BY <2>1, <2>2, <4>1, AddedDisk
        <4> HIDE DEF t
        <4>3. CASE j = i
          BY <4>2, <4>3
        <4>4. CASE j # i
          <5>1. j <= i - 1
            BY <1>1, <2>3, <4>4
          <5> QED BY <2>1, <4>2, <4>4, <5>1
        <4> QED BY <4>3, <4>4
      <3>2. CASE ~(i <= Num(d))
        <4>1. i \in 1 .. NUM_BOOT_RECORD_PARTS /\ t[i] = AddBlank(t[i - 1], i)
          BY <3>2, EachTurn DEF n
        <4>2. t[i].d = t[i - 1].d
          BY <2>2, <4>1, BlankAdded
        <4>3. j <= i - 1
          BY <1>1, <3>2
        <4> HIDE DEF t
        <4> QED BY <2>1, <4>2, <4>3
      <3> QED BY <3>1, <3>2
    <2>4. Made(i)
      BY <2>3
    <2> HIDE DEF Made
    <2> QED BY <2>1, <2>4
  <1>5. \A i \in 0 .. n : i \in S
    <2> HIDE DEF S
    <2> QED BY <1>1, <1>3, <1>4, TurnByTurn
  <1> QED BY <1>5 DEF n

\* config_mbr keeps the lengths that are given, and lays the partitions out one behind the other.
LEMMA ConfigChains ==
    ASSUME NEW d \in Disks, config_mbr(d).ok
    PROVE  LET e == config_mbr(d).d
           IN  /\ \A i \in 1 .. Num(d) :
                    d.parts[i].len_kb # REST => e.parts[i].len_kb = d.parts[i].len_kb
               /\ validate(d) => validate(e) /\ Chained(e)
  <1> DEFINE e == config_mbr(d).d
             n == LastTurn(d)
             t == Turns(d)
  <1>1. /\ e \in Disks /\ Num(e) = Num(d) /\ n \in Nat /\ Num(d) \in Nat /\ Num(d) <= n
        /\ t[n].ok /\ e = t[n].d
    BY ConfigMade, DiskTypes, TurnAfterTurn
  <1>2. \A i \in 0 .. n : t[i].ok
    BY <1>1, AllOk DEF n
  <1>3. \A i \in 1 .. Num(d) : e.parts[i].len_kb = KeptOf(t[i - 1], i)
    BY <1>1, TurnsKeep
  <1>4. \A i \in 1 .. Num(d) : e.parts[i].start_lba = StartOf(t[i - 1], i)
    BY <1>1, TurnsPlace
  <1> HIDE DEF e, n
  <1>5. ASSUME NEW i \in 1 .. Num(d)
        PROVE  /\ i \in 1 .. n /\ i - 1 \in 0 .. n /\ ~(i <= i - 1)
               /\ t[i - 1] \in Accs /\ Num(t[i - 1].d) = Num(d)
               /\ t[i] = AddPartition(t[i - 1], i)
               /\ t[i - 1].d.parts[i].len_kb = d.parts[i].len_kb
    <2>1. i \in 1 .. n /\ i - 1 \in 0 .. n /\ ~(i <= i - 1) /\ i <= Num(d)
      BY <1>1
    <2>2. t[i - 1].d.parts[i].len_kb = d.parts[i].len_kb
      BY <1>2, <2>1, TurnsKeep DEF n
    <2> QED BY <2>1, <2>2, EachTurn DEF n
  <1>6. ASSUME NEW i \in 1 .. Num(d), d.parts[i].len_kb # REST
        PROVE  e.parts[i].len_kb = d.parts[i].len_kb
    <2>1. KeptOf(t[i - 1], i) = d.parts[i].len_kb
      BY <1>5, <1>6 DEF KeptOf
    <2> QED BY <1>3, <2>1
  <1>7. validate(d) => validate(e)
    BY <1>1, <1>6 DEF validate
  <1>8. ASSUME validate(d), NEW i \in 1 .. Num(d), i < Num(d)
        PROVE  e.parts[i + 1].start_lba =
                 DataLba((e.parts[i].start_lba + kb_to_lba(e.parts[i].len_kb)) % Word,
                         Extended(e, i + 1))
    <2> DEFINE a == t[i - 1]
               b == t[i]
    <2>1. d.parts[i].len_kb # REST
      BY <1>1, <1>8 DEF validate
    <2>2. i + 1 \in 1 .. Num(d) /\ (i + 1) - 1 = i
      BY <1>1, <1>8
    <2>3. /\ a \in Accs /\ i \in 1 .. Num(a.d) /\ b = AddPartition(a, i) /\ b.ok
          /\ a.d.parts[i].len_kb = d.parts[i].len_kb
      <3>1. i \in 0 .. n
        BY <1>1
      <3> QED BY <1>2, <1>5, <3>1
    <2>4. Num(b.d) = Num(d)
      BY <1>5, <2>2
    <2>5. e.parts[i + 1].start_lba = StartOf(b, i + 1)
      BY <1>4, <2>2
    <2>6. e.parts[i].start_lba = StartOf(a, i)
      BY <1>4
    <2> HIDE DEF a, b
    <2>7. b.lba = AfterOf(a, i)
      BY <2>3, Added
    <2>8. LenOf(a, i) = kb_to_lba(e.parts[i].len_kb)
      BY <1>6, <2>1, <2>3 DEF LenOf, PartLen
    <2>9. Extended(b.d, i + 1) = Extended(e, i + 1)
      BY <1>1, <2>4 DEF Extended
    <2> QED BY <2>5, <2>6, <2>7, <2>8, <2>9 DEF StartOf, AfterOf
  <1>9. validate(d) => Chained(e)
    BY <1>1, <1>8 DEF Chained
  <1> QED BY <1>6, <1>7, <1>9 DEF e

\* A partition that ends below 2^32 sectors ends at a sector that has a number, and
\* holds its kilobytes.
LEMMA EndsBelow ==
    ASSUME NEW start \in Nat, NEW len_kb \in Nat,
           start * SectSize + len_kb * KB + 2 * SectSize <= Word * SectSize
    PROVE  /\ kb_to_lba(len_kb) \in Nat /\ start + kb_to_lba(len_kb) + 1 < Word
           /\ len_kb * KB <= kb_to_lba(len_kb) * SectSize
  <1> DEFINE bytes == len_kb * KB
             m     == bytes + SectSize - 1
             x     == m \div SectSize
             y     == start + x + 1
  <1>1. bytes \in Nat /\ start * SectSize \in Nat
    BY SectorsAssumption
  <1>2. start * SectSize + bytes + 2 * SectSize <= Word * SectSize
    OBVIOUS
  <1> HIDE DEF bytes
  <1>3. m \in Nat
    BY <1>1, SectorsAssumption
  <1>4. m <= bytes + SectSize - 1 /\ bytes <= m - SectSize + 1
    BY <1>1, SectorsAssumption
  <1>5. kb_to_lba(len_kb) = x % Word
    BY DEF kb_to_lba, x, m, bytes
  <1> HIDE DEF m
  <1>6. x \in Nat /\ x * SectSize \in Nat /\ x * SectSize <= m /\ m < x * SectSize + SectSize
    BY <1>3, SectorsAssumption
  <1> HIDE DEF x
  <1>7. y \in Nat /\ y * SectSize = start * SectSize + x * SectSize + SectSize
    BY <1>6, SectorsAssumption
  <1> DEFINE xs == x * SectSize
             ss == start * SectSize
             ys == y * SectSize
             ws == Word * SectSize
  <1>8. ys < ws /\ bytes <= xs
    <2>1. /\ xs \in Nat /\ ss \in Nat /\ m \in Nat /\ bytes \in Nat /\ SectSize \in Nat \ {0} /\ ws \in Nat
          /\ ys = ss + xs + SectSize /\ xs <= m /\ m < xs + SectSize
          /\ m <= bytes + SectSize - 1 /\ bytes <= m - SectSize + 1
          /\ ss + bytes + 2 * SectSize <= ws
      BY <1>1, <1>2, <1>3, <1>4, <1>6, <1>7, SectorsAssumption
    <2> HIDE DEF xs, ss, ys, ws
    <2> QED BY <2>1
  <1>9. y < Word
    <2> HIDE DEF y
    <2> SUFFICES ASSUME Word <= y
                 PROVE  Word * SectSize <= y * SectSize
      BY <1>7, <1>8, SectorsAssumption
    <2> QED BY <1>7, SectorsAssumption
  <1>10. x < Word /\ x % Word = x
    BY <1>6, <1>9, SectorsAssumption
  <1> QED BY <1>5, <1>6, <1>8, <1>9, <1>10 DEF bytes

\* The kilobytes of an image below 2^32 bytes hold it, and are not REST.
LEMMA ImageFits ==
    ASSUME NEW n \in Nat, n * SectSize + KB < Word
    PROVE  n * SectSize <= ImageKb(n) * KB /\ ImageKb(n) # REST
  <1> DEFINE bytes == n * SectSize
             m     == bytes + KB - 1
             q     == m \div KB
  <1>1. bytes \in Nat /\ bytes + KB < Word
    BY SectorsAssumption
  <1> HIDE DEF bytes
  <1>2. m \in Nat /\ m < Word - 1 /\ bytes = m - KB + 1
    BY <1>1, SectorsAssumption
  <1>3. ImageKb(n) = q % Word
    BY DEF ImageKb, q, m, bytes
  <1> HIDE DEF m
  <1>4. q \in Nat /\ q * KB \in Nat /\ q * KB <= m /\ m < q * KB + KB /\ q <= q * KB
    BY <1>2, SectorsAssumption
  <1> HIDE DEF q
  <1>5. q < Word - 1 /\ q < Word
    BY <1>2, <1>4, SectorsAssumption
  <1>6. q % Word = q
    BY <1>4, <1>5, SectorsAssumption
  <1>7. bytes <= q * KB
    BY <1>1, <1>2, <1>4, SectorsAssumption
  <1>8. q # REST
    BY <1>4, <1>5 DEF REST
  <1> QED BY <1>3, <1>6, <1>7, <1>8 DEF bytes

\* Each partition is behind the one before it.
LEMMA NextBehind ==
    ASSUME dinfo \in Disks, images \in [1 .. Num(dinfo) -> Nat],
           validate(dinfo), Chained(dinfo), InRange,
           NEW i \in 1 .. Num(dinfo), i < Num(dinfo)
    PROVE  LET p == dinfo.parts[i]
           IN  /\ kb_to_lba(p.len_kb) \in Nat
               /\ p.start_lba + kb_to_lba(p.len_kb) <= dinfo.parts[i + 1].start_lba
  <1> DEFINE start  == dinfo.parts[i].start_lba
             len_kb == dinfo.parts[i].len_kb
             lba    == start + kb_to_lba(len_kb)
             ext    == Extended(dinfo, i + 1)
  <1>1. start \in Nat /\ len_kb \in Nat /\ Num(dinfo) \in Nat
    BY DiskTypes, SectorsAssumption
  <1>2. len_kb # REST
    BY <1>1 DEF validate
  <1>3. start * SectSize + len_kb * KB + 2 * SectSize <= Word * SectSize
    BY DEF InRange, EndOf
  <1>4. dinfo.parts[i + 1].start_lba = DataLba(lba % Word, ext)
    BY <1>2 DEF Chained
  <1> HIDE DEF start, len_kb
  <1>5. kb_to_lba(len_kb) \in Nat /\ lba + 1 < Word
    BY <1>1, <1>3, EndsBelow
  <1>6. lba \in Nat
    BY <1>1, <1>5
  <1>7. ext \in {0, 1}
    BY DEF Extended
  <1> HIDE DEF lba, ext
  <1>8. lba % Word = lba
    BY <1>5, <1>6, SectorsAssumption
  <1>9. (lba + ext) % Word = lba + ext
    <2>1. lba + ext \in 0 .. Word - 1
      BY <1>5, <1>6, <1>7, SectorsAssumption
    <2> QED BY <2>1, SectorsAssumption
  <1>10. lba <= dinfo.parts[i + 1].start_lba
    BY <1>4, <1>6, <1>7, <1>8, <1>9 DEF DataLba
  <1> QED BY <1>5, <1>10 DEF lba, start, len_kb

\* So the partitions lie in the order of the layout, one behind the other.
LEMMA Apart ==
    ASSUME dinfo \in Disks, images \in [1 .. Num(dinfo) -> Nat],
           validate(dinfo), Chained(dinfo), InRange,
           NEW i \in 1 .. Num(dinfo), NEW j \in 1 .. Num(dinfo), i < j
    PROVE  dinfo.parts[i].start_lba + kb_to_lba(dinfo.parts[i].len_kb) <= dinfo.parts[j].start_lba
  <1> DEFINE start(m) == dinfo.parts[m].start_lba
             len(m)   == kb_to_lba(dinfo.parts[m].len_kb)
             n        == Num(dinfo) - i - 1
             S        == {m \in 0 .. n : start(i) + len(i) <= start(i + 1 + m)}
  <1>1. Num(dinfo) \in Nat /\ n \in Nat
    BY DiskTypes
  <1>2. \A m \in 1 .. Num(dinfo) : start(m) \in Nat
    BY DiskTypes, SectorsAssumption
  <1>3. \A m \in 1 .. Num(dinfo) : m < Num(dinfo) =>
           len(m) \in Nat /\ start(m) + len(m) <= start(m + 1)
    BY NextBehind
  <1> HIDE DEF start, len
  <1>4. 0 \in S
    <2>1. i < Num(dinfo) /\ i + 1 + 0 = i + 1
      BY <1>1
    <2>2. start(i) + len(i) <= start(i + 1)
      BY <1>3, <2>1
    <2> QED BY <1>1, <2>1, <2>2
  <1>5. ASSUME NEW m \in 1 .. n, m - 1 \in S
        PROVE  m \in S
    <2> DEFINE a == i + 1 + (m - 1)
    <2>1. /\ a \in 1 .. Num(dinfo) /\ a < Num(dinfo) /\ a + 1 = i + 1 + m
          /\ a + 1 \in 1 .. Num(dinfo) /\ i < Num(dinfo)
      BY <1>1
    <2>2. start(i) + len(i) <= start(a)
      BY <1>5
    <2> HIDE DEF a
    <2>3. start(a) + len(a) <= start(a + 1) /\ len(a) \in Nat /\ len(i) \in Nat
      BY <1>3, <2>1
    <2>4. start(a) \in Nat /\ start(a + 1) \in Nat /\ start(i) \in Nat
      BY <1>2, <2>1
    <2>5. start(i) + len(i) <= start(a + 1)
      BY <2>2, <2>3, <2>4
    <2>6. start(i) + len(i) <= start(i + 1 + m)
      BY <2>1, <2>5
    <2> QED BY <1>1, <2>6
  <1>6. \A m \in 0 .. n : m \in S
    <2> HIDE DEF S, n
    <2> QED BY <1>1, <1>4, <1>5, TurnByTurn
  <1>7. j - i - 1 \in 0 .. n /\ i + 1 + (j - i - 1) = j
    BY <1>1
  <1>8. start(i) + len(i) <= start(i + 1 + (j - i - 1))
    BY <1>6, <1>7
  <1> QED BY <1>7, <1>8 DEF start, len

\* The sectors of an image are in its partition, and where the tool copies it to.
LEMMA ImageAtStart ==
    ASSUME dinfo \in Disks, images \in [1 .. Num(dinfo) -> Nat], ImagesMeasured, InRange,
           NEW i \in 1 .. Num(dinfo), images[i] # 0
    PROVE  LET p == dinfo.parts[i]
           IN  /\ ImageLba(i) = p.start_lba
               /\ images[i] <= kb_to_lba(p.len_kb) /\ kb_to_lba(p.len_kb) \in Nat
  <1> DEFINE start  == dinfo.parts[i].start_lba
             len_kb == dinfo.parts[i].len_kb
             n      == images[i]
             x      == kb_to_lba(len_kb)
  <1>1. start \in Nat /\ len_kb \in Nat /\ n \in Nat
    BY DiskTypes, SectorsAssumption
  <1>2. n * SectSize + KB < Word /\ start * SectSize + len_kb * KB + 2 * SectSize <= Word
    BY DEF InRange, EndOf
  <1>3. ImageLba(i) = ((start * SectSize) % Word) \div SectSize
    BY DEF ImageLba
  <1>4. n # 0 /\ ImageKb(n) # REST => len_kb = ImageKb(n)
    BY DEF ImagesMeasured
  <1> HIDE DEF start, len_kb, n
  <1>5. x \in Nat /\ start * SectSize < Word /\ len_kb * KB <= x * SectSize
    <2>1. start * SectSize \in Nat /\ len_kb * KB \in Nat /\ Word <= Word * SectSize
      BY <1>1, SectorsAssumption
    <2>2. start * SectSize < Word
      BY <1>2, <2>1, SectorsAssumption
    <2>3. start * SectSize + len_kb * KB + 2 * SectSize <= Word * SectSize
      BY <1>2, <2>1, SectorsAssumption
    <2> QED BY <1>1, <2>2, <2>3, EndsBelow
  <1> HIDE DEF x
  <1>6. start * SectSize \in Nat
    BY <1>1, SectorsAssumption
  <1>7. (start * SectSize) % Word = start * SectSize
    BY <1>5, <1>6, SectorsAssumption
  <1>8. (start * SectSize) \div SectSize = start
    BY <1>1, SectorsAssumption
  <1>9. n * SectSize <= len_kb * KB
    <2>1. n # 0
      BY DEF n
    <2> QED BY <1>1, <1>2, <1>4, <2>1, ImageFits
  <1>10. n * SectSize <= x * SectSize
    <2>1. n * SectSize \in Nat /\ len_kb * KB \in Nat /\ x * SectSize \in Nat
      BY <1>1, <1>5, SectorsAssumption
    <2> QED BY <1>5, <1>9, <2>1
  <1>11. n <= x
    BY <1>1, <1>5, <1>10, SectorsAssumption
  <1> QED BY <1>3, <1>5, <1>7, <1>8, <1>11 DEF start, len_kb, n, x

LEMMA CopyInitial ==
    Init => CopyInv
  <1> SUFFICES ASSUME Init
               PROVE  CopyInv
    OBVIOUS
  <1>1. PICK l \in Layouts :
           /\ dinfo = [Loaded(l) EXCEPT !.num_lba = IF @ = 0 THEN l.file_lba ELSE @]
           /\ images = l.images
    BY DEF Init
  <1>2. dinfo.parts = Loaded(l).parts
    <2>1. Loaded(l) = [skip_lba |-> Loaded(l).skip_lba, num_lba |-> Loaded(l).num_lba,
                       parts |-> Loaded(l).parts]
      BY DEF Loaded
    <2> QED BY <1>1, <2>1
  <1>3. dinfo \in Disks /\ DOMAIN dinfo.parts = 1 .. Num(dinfo)
    BY <1>1, LoadedTypes, DiskTypes
  <1>4. ImagesMeasured
    BY <1>1, <1>2, <1>3 DEF ImagesMeasured, Loaded
  <1> QED BY <1>4 DEF CopyInv, Init

\* config_mbr does not touch the length of a partition with an image.
LEMMA MeasuredKept ==
    ASSUME dinfo \in Disks, ImagesMeasured, config_mbr(dinfo).ok,
           dinfo' = config_mbr(dinfo).d, images' = images
    PROVE  ImagesMeasured'
  <1>1. Num(dinfo') = Num(dinfo)
    BY ConfigMade
  <1>2. ASSUME NEW i \in 1 .. Num(dinfo), images[i] # 0, ImageKb(images[i]) # REST
        PROVE  dinfo'.parts[i].len_kb = ImageKb(images[i])
    <2>1. dinfo.parts[i].len_kb = ImageKb(images[i])
      BY <1>2 DEF ImagesMeasured
    <2> QED BY <1>2, <2>1, ConfigChains
  <1> QED BY <1>1, <1>2 DEF ImagesMeasured

\* An image goes to sectors that no earlier one is on.
LEMMA CopyKeeps ==
    ASSUME IInv, ImagesMeasured, validate(dinfo), Chained(dinfo), InRange, Copied, CopyImage
    PROVE  Copied'
  <1> DEFINE at       == ImageLba(k) .. ImageLba(k) + images[k] - 1
             start(i) == dinfo.parts[i].start_lba
             n        == Num(dinfo)
  <1>1. /\ dinfo \in Disks /\ images \in [1 .. n -> Nat] /\ k \in 1 .. n + 1 /\ n \in Nat
    BY DiskTypes DEF IInv
  <1>2. /\ k <= Len(images) /\ k' = k + 1 /\ dinfo' = dinfo /\ images' = images
        /\ data' = [s \in at \cup DOMAIN data |-> IF s \in at THEN k ELSE data[s]]
    BY DEF CopyImage
  <1>3. Len(images) = n /\ k \in 1 .. n
    BY <1>1, <1>2
  <1>4. \A i \in 1 .. n : start(i) \in Nat /\ images[i] \in Nat
    BY <1>1, DiskTypes, SectorsAssumption
  <1>5. at = Sectors(start(k), images[k])
    <2>1. CASE images[k] = 0
      <3>1. ImageLba(k) \in Int
        <4>1. (start(k) * SectSize) % Word \in Nat
          <5>1. start(k) * SectSize \in Int
            BY <1>3, <1>4, SectorsAssumption
          <5> HIDE DEF start
          <5> QED BY <5>1, Wrapped, SectorsAssumption
        <4> QED BY <4>1, Divided, SectorsAssumption DEF ImageLba
      <3>2. at = {} /\ Sectors(start(k), images[k]) = {}
        BY <1>3, <1>4, <2>1, <3>1 DEF Sectors
      <3> QED BY <3>2
    <2>2. CASE images[k] # 0
      BY <1>1, <1>3, <2>2, ImageAtStart DEF Sectors
    <2> QED BY <2>1, <2>2
  <1>6. /\ DOMAIN data' = at \cup DOMAIN data
        /\ \A s \in DOMAIN data' : data'[s] = IF s \in at THEN k ELSE data[s]
    <2> HIDE DEF at
    <2> QED BY <1>2
  <1>7. ASSUME NEW i \in 1 .. n, i < k, NEW s \in Sectors(start(i), images[i])
        PROVE  s \notin at
    <2>1. images[i] # 0 /\ s \in Int /\ s < start(i) + images[i]
      BY <1>4, <1>7 DEF Sectors
    <2>2. images[i] <= kb_to_lba(dinfo.parts[i].len_kb) /\ kb_to_lba(dinfo.parts[i].len_kb) \in Nat
      BY <1>1, <2>1, ImageAtStart
    <2>3. start(i) + kb_to_lba(dinfo.parts[i].len_kb) <= start(k)
      BY <1>1, <1>3, <1>7, Apart
    <2> HIDE DEF start, at
    <2>4. s < start(k)
      BY <1>3, <1>4, <2>1, <2>2, <2>3
    <2> QED BY <1>3, <1>4, <1>5, <2>1, <2>4 DEF Sectors
  <1> HIDE DEF at, n
  <1>8. ASSUME NEW i \in 1 .. n, i < k + 1, NEW s \in Sectors(start(i), images[i])
        PROVE  s \in DOMAIN data' /\ data'[s] = i
    <2>1. CASE i = k
      BY <1>5, <1>6, <1>8, <2>1
    <2>2. CASE i # k
      <3>1. i < k
        BY <1>1, <1>8, <2>2
      <3>2. s \in DOMAIN data /\ data[s] = i
        BY <1>8, <3>1 DEF Copied, n
      <3> QED BY <1>6, <1>7, <1>8, <3>1, <3>2
    <2> QED BY <2>1, <2>2
  <1>9. ASSUME NEW s \in DOMAIN data'
        PROVE  data'[s] \in 1 .. n /\ s \in Sectors(start(data'[s]), images[data'[s]])
    <2>1. CASE s \in at
      BY <1>3, <1>5, <1>6, <2>1
    <2>2. CASE s \notin at
      <3>1. s \in DOMAIN data /\ data'[s] = data[s]
        BY <1>6, <2>2
      <3> QED BY <3>1 DEF Copied, n
    <2> QED BY <2>1, <2>2
  <1> QED BY <1>2, <1>8, <1>9 DEF Copied, n

LEMMA CopyInductive ==
    IInv /\ CopyInv /\ [Next]_vars => CopyInv'
  <1> SUFFICES ASSUME IInv, CopyInv, [Next]_vars
               PROVE  CopyInv'
    OBVIOUS
  <1>1. dinfo \in Disks /\ images \in [1 .. Num(dinfo) -> Nat] /\ k \in 1 .. Num(dinfo) + 1
        /\ Num(dinfo) \in Nat
    BY DiskTypes DEF IInv
  <1>2. CASE Process
    <2>1. CASE pc' = "failed"
      BY <1>2, <2>1 DEF CopyInv, Process
    <2>2. CASE pc' # "failed"
      <3>1. /\ pc = "process" /\ pc' = "apply" /\ config_mbr(dinfo).ok /\ validate(dinfo)
            /\ dinfo' = config_mbr(dinfo).d /\ UNCHANGED <<images, data, k>>
        BY <1>2, <2>2 DEF Process
      <3>2. ImagesMeasured'
        BY <1>1, <3>1, MeasuredKept DEF CopyInv
      <3>3. validate(dinfo')
        BY <1>1, <3>1, ConfigChains
      <3> QED BY <3>1, <3>2, <3>3 DEF CopyInv
    <2> QED BY <2>1, <2>2
  <1>3. CASE Apply
    <2>1. CASE pc' = "failed"
      BY <1>3, <2>1 DEF CopyInv, Apply
    <2>2. CASE pc' # "failed"
      <3>1. /\ pc = "apply" /\ pc' = "commit" /\ config_mbr(dinfo).ok /\ validate(dinfo)
            /\ dinfo' = config_mbr(dinfo).d /\ UNCHANGED <<images, data, k>>
        BY <1>3, <2>2 DEF Apply
      <3>2. ImagesMeasured'
        BY <1>1, <3>1, MeasuredKept DEF CopyInv
      <3>3. validate(dinfo') /\ Chained(dinfo')
        BY <1>1, <3>1, ConfigChains
      <3> QED BY <3>1, <3>2, <3>3 DEF CopyInv
    <2> QED BY <2>1, <2>2
  <1>4. CASE Commit
    <2>1. UNCHANGED <<dinfo, images, data, k, pc>>
      BY <1>4 DEF Commit
    <2> QED BY <2>1 DEF CopyInv, ImagesMeasured, InRange, EndOf, Copied
  <1>5. CASE Committed
    <2>1. pc = "commit" /\ pc' = "copy" /\ UNCHANGED <<dinfo, images, data, k>>
      BY <1>5 DEF Committed
    <2>2. k = 1 /\ DOMAIN data = {}
      BY <2>1 DEF CopyInv
    <2>3. Copied'
      BY <1>1, <2>1, <2>2 DEF Copied
    <2> QED BY <2>1, <2>3 DEF CopyInv, ImagesMeasured
  <1>6. CASE CopyImage
    <2>1. pc = "copy" /\ UNCHANGED <<dinfo, images, pc>>
      BY <1>6 DEF CopyImage
    <2>2. InRange' => Copied'
      <3>1. InRange' => InRange
        BY <2>1 DEF InRange, EndOf
      <3> QED BY <1>6, <2>1, <3>1, CopyKeeps DEF CopyInv
    <2> QED BY <2>1, <2>2 DEF CopyInv, ImagesMeasured
  <1>7. CASE Finish
    <2>1. pc = "copy" /\ pc' = "done" /\ k > Len(images) /\ UNCHANGED <<dinfo, images, data, k>>
      BY <1>7 DEF Finish
    <2>2. Len(images) = Num(dinfo)
      BY <1>1
    <2> QED BY <2>1, <2>2 DEF CopyInv, ImagesMeasured, InRange, EndOf, Copied
  <1>8. CASE Fail
    BY <1>8 DEF Fail, CopyInv
  <1>9. CASE UNCHANGED vars
    BY <1>9 DEF vars, CopyInv, ImagesMeasured, InRange, EndOf, Copied
  <1> QED BY <1>2, <1>3, <1>4, <1>5, <1>6, <1>7, <1>8, <1>9 DEF Next

\* Every image that the tool has been given is in its partition when it is done, as a
\* whole and with no sector of another, if none of them ends near 2^32 bytes.
THEOREM ImagesLieInPlace == Spec => [](InRange => ImagesInPlace)
  <1>1. IInv /\ CopyInv => (InRange => ImagesInPlace)
    <2> SUFFICES ASSUME IInv, CopyInv, InRange, pc = "done"
                 PROVE  ImagesInPlace
      BY DEF ImagesInPlace
    <2>1. /\ dinfo \in Disks /\ images \in [1 .. Num(dinfo) -> Nat] /\ k \in 1 .. Num(dinfo) + 1
          /\ Num(dinfo) \in Nat
      BY DiskTypes DEF IInv
    <2>2. Copied /\ ImagesMeasured /\ k > Num(dinfo)
      BY DEF CopyInv
    <2>3. ASSUME NEW i \in DOMAIN images, NEW s \in Sectors(dinfo.parts[i].start_lba, images[i])
          PROVE  s \in DOMAIN data /\ data[s] = i
      <3>1. i \in 1 .. Num(dinfo) /\ i < k
        BY <2>1, <2>2
      <3> QED BY <2>2, <2>3, <3>1 DEF Copied
    <2>4. ASSUME NEW s \in DOMAIN data
          PROVE  s \in Sectors(dinfo.parts[data[s]].start_lba,
                               kb_to_lba(dinfo.parts[data[s]].len_kb))
      <3> DEFINE i     == data[s]
                 start == dinfo.parts[i].start_lba
                 len   == kb_to_lba(dinfo.parts[i].len_kb)
                 n     == images[i]
      <3>1. i \in 1 .. Num(dinfo) /\ s \in Sectors(start, n)
        BY <2>2 DEF Copied
      <3>2. start \in Nat /\ n \in Nat
        BY <2>1, <3>1, DiskTypes, SectorsAssumption
      <3>3. n # 0
        BY <3>1, <3>2 DEF Sectors
      <3>4. n <= len /\ len \in Nat
        BY <2>1, <2>2, <3>1, <3>3, ImageAtStart
      <3> HIDE DEF start, len, n
      <3>5. s \in Sectors(start, len)
        BY <3>1, <3>2, <3>4 DEF Sectors
      <3> QED BY <3>5 DEF start, len, n
    <2> QED BY <2>3, <2>4 DEF ImagesInPlace
  <1>2. Spec => []CopyInv
    BY CopyInitial, CopyInductive, Invariant, PTL DEF Spec
  <1> QED BY <1>1, <1>2, Invariant, PTL

-----------------------------------------------------------------------------
(* The table *)

\* The sector a turn begins at: that of the EBR, if there is one.
LbaOf(d, i) == (d.parts[i].start_lba - Extended(d, i)) % Word

\* The length of a partition in the table.
LenIn(d, i) == PartLen(d, d.parts[i], d.parts[i].start_lba)

\* What the layout has in a slot of the MBR, and in the EBR of a partition.
SlotIs(d, i, e) ==
    IF i > Num(d) THEN e = NoEntry
    ELSE IF Opens(d, i) THEN e.type = "ext" /\ e.start = LbaOf(d, i)
    ELSE e = Entry("part", d.parts[i].start_lba, LenIn(d, i))

EbrIs(d, i, b) ==
    /\ b.logical = Entry("part", 1, LenIn(d, i))
    /\ IF i = Num(d) THEN b.next.type = "none"
       ELSE b.next.type = "ext" /\ b.next.start = NextStart(LbaOf(d, i + 1), LbaOf(d, 4))

\* The number of the writes, and the r-th of them from the end.
Total(d) == IF Num(d) > NUM_BOOT_RECORD_PARTS THEN Num(d) + 2 ELSE NUM_BOOT_RECORD_PARTS + 1

FromEnd(l, r) == l[Len(l) + 1 - r]

\* What that one does: from the end, the slots of the MBR, the EBRs, and the
\* MBR that is emptied.
IsWrite(d, r, w) ==
    IF r <= NUM_BOOT_RECORD_PARTS
    THEN w.to = "mbr" /\ w.at = r /\ SlotIs(d, r, w.what.logical)
    ELSE IF r = Total(d) THEN w.to = "mbr" /\ w.at = 0
    ELSE w.to = "ebr" /\ w.at = LbaOf(d, r - 1) /\ EbrIs(d, r - 1, w.what)

\* The table when all writes but the last m have been done.
TableOf(d, m) ==
    /\ \A i \in 1 .. NUM_BOOT_RECORD_PARTS :
          IF i > m THEN SlotIs(d, i, mbr[i]) ELSE mbr[i] = NoEntry
    /\ \A i \in NUM_BOOT_RECORD_PARTS .. Num(d) :
          Extended(d, i) = 1 /\ i + 1 > m =>
              LbaOf(d, i) \in DOMAIN ebr /\ EbrIs(d, i, ebr[LbaOf(d, i)])

\* Where the table is being written, or is written.
Written == pc \in {"commit", "copy", "done"} \/ (pc = "failed" /\ wr_lst # << >>)

TableInv ==
    /\ pc \in {"process", "apply"} => dinfo.skip_lba # 0
    /\ pc # "commit" /\ pc # "failed" => wr_lst = << >>
    /\ Written =>
         /\ validate(dinfo) /\ Chained(dinfo)
         /\ Num(dinfo) > 0 => dinfo.parts[1].start_lba # 0
         /\ Len(checked) = Total(dinfo) /\ Len(wr_lst) <= Total(dinfo)
         /\ \A r \in 1 .. Len(wr_lst) : IsWrite(dinfo, r, FromEnd(wr_lst, r))
         /\ InRange /\ Len(wr_lst) < Total(dinfo) => TableOf(dinfo, Len(wr_lst))

\* What has been added to a list is behind what was there.
LEMMA AddedFromEnd ==
    ASSUME NEW l \in Seq(Writes), NEW w \in Writes, NEW n \in Nat, Len(l) = n
    PROVE  /\ wlist_add(l, w) \in Seq(Writes) /\ Len(wlist_add(l, w)) = n + 1
           /\ FromEnd(wlist_add(l, w), n + 1) = w
           /\ \A r \in 1 .. n : FromEnd(wlist_add(l, w), r) = FromEnd(l, r)
  <1> DEFINE m == wlist_add(l, w)
  <1>1. m \in Seq(Writes) /\ Len(m) = n + 1
    BY DEF wlist_add
  <1>2. m[1] = w
    BY DEF wlist_add
  <1>3. \A j \in 1 .. n : m[j + 1] = l[j]
    BY DEF wlist_add
  <1> HIDE DEF m
  <1>4. FromEnd(m, n + 1) = w
    BY <1>1, <1>2 DEF FromEnd
  <1>5. ASSUME NEW r \in 1 .. n
        PROVE  FromEnd(m, r) = FromEnd(l, r)
    <2> DEFINE j == n + 1 - r
    <2>1. j \in 1 .. n /\ Len(m) + 1 - r = j + 1
      BY <1>1
    <2>2. m[j + 1] = l[j]
      BY <1>3, <2>1
    <2> QED BY <2>1, <2>2 DEF FromEnd
  <1> QED BY <1>1, <1>4, <1>5 DEF m

\* What is left when the first write is done.
LEMMA TailFromEnd ==
    ASSUME NEW l \in Seq(Writes), l # << >>
    PROVE  /\ Tail(l) \in Seq(Writes) /\ Len(l) \in Nat \ {0} /\ Len(Tail(l)) = Len(l) - 1
           /\ Head(l) = FromEnd(l, Len(l)) /\ Head(l) \in Writes
           /\ \A r \in 1 .. Len(l) - 1 : FromEnd(Tail(l), r) = FromEnd(l, r)
  <1>1. Len(l) \in Nat \ {0} /\ Tail(l) \in Seq(Writes) /\ Len(Tail(l)) = Len(l) - 1
    OBVIOUS
  <1>2. Head(l) = l[1] /\ l[1] \in Writes
    BY <1>1
  <1>3. \A j \in 1 .. Len(l) - 1 : Tail(l)[j] = l[j + 1]
    BY <1>1
  <1>4. FromEnd(l, Len(l)) = l[1]
    BY <1>1 DEF FromEnd
  <1>5. ASSUME NEW r \in 1 .. Len(l) - 1
        PROVE  FromEnd(Tail(l), r) = FromEnd(l, r)
    <2> DEFINE j == Len(l) - r
    <2>1. j \in 1 .. Len(l) - 1 /\ Len(Tail(l)) + 1 - r = j /\ Len(l) + 1 - r = j + 1
      BY <1>1
    <2>2. Tail(l)[j] = l[j + 1]
      BY <1>3, <2>1
    <2> QED BY <2>1, <2>2 DEF FromEnd
  <1> QED BY <1>1, <1>2, <1>4, <1>5

\* The r-th write from the end, by the turn that has added it.
TurnWrite(d, r) ==
    IF r > NUM_BOOT_RECORD_PARTS THEN WriteOf(Turns(d)[r - 2], r - 1)
    ELSE IF r > Num(d) THEN WriteEntry(r, NoEntry)
    ELSE IF Opens(d, r) THEN OpeningOf(Turns(d)[r - 1], r)
    ELSE WriteOf(Turns(d)[r - 1], r)

\* The writes after each turn: one for each, and one that opens the extended partition.
LEMMA TurnsWrite ==
    ASSUME NEW d \in Disks, Turns(d)[LastTurn(d)].ok
    PROVE  \A i \in 0 .. LastTurn(d) :
             /\ Len(Turns(d)[i].lst) = i + Extended(d, i)
             /\ \A r \in 1 .. i + Extended(d, i) : FromEnd(Turns(d)[i].lst, r) = TurnWrite(d, r)
             /\ Extended(d, i) = 1 => Turns(d)[i].ext_lba = Turns(d)[3].lba
  <1> DEFINE t == Turns(d)
             n == LastTurn(d)
             Made(i) == /\ Len(t[i].lst) = i + Extended(d, i)
                        /\ \A r \in 1 .. i + Extended(d, i) : FromEnd(t[i].lst, r) = TurnWrite(d, r)
                        /\ Extended(d, i) = 1 => t[i].ext_lba = t[3].lba
             S == {i \in 0 .. n : Made(i)}
             start == [ok |-> TRUE, lba |-> d.skip_lba, ext_lba |-> 0, lst |-> << >>, d |-> d]
  <1>1. Num(d) \in Nat /\ n \in Nat /\ Num(d) <= n /\ t[0] = start
    BY DiskTypes, TurnAfterTurn
  <1>2. \A i \in 0 .. n : t[i].ok
    BY AllOk
  <1> HIDE DEF n
  <1>3. 0 \in S
    <2>1. Extended(d, 0) = 0 /\ t[0].lst = << >>
      BY <1>1 DEF Extended, NUM_BOOT_RECORD_PARTS
    <2>2. Made(0)
      BY <2>1
    <2> HIDE DEF Made
    <2> QED BY <1>1, <2>2
  <1>4. ASSUME NEW i \in 1 .. n, i - 1 \in S
        PROVE  i \in S
    <2> DEFINE a == t[i - 1]
               p == i - 1 + Extended(d, i - 1)
    <2>1. /\ i - 1 \in 0 .. n /\ a \in Accs /\ Num(a.d) = Num(d) /\ a.lst \in Seq(Writes)
          /\ Len(a.lst) = p /\ p \in Nat
          /\ \A r \in 1 .. p : FromEnd(a.lst, r) = TurnWrite(d, r)
          /\ Extended(d, i - 1) = 1 => a.ext_lba = t[3].lba
      <3>1. a \in Accs /\ Num(a.d) = Num(d) /\ i - 1 \in 0 .. n
        BY EachTurn DEF n
      <3>2. Made(i - 1)
        BY <1>4
      <3>3. a.lst \in Seq(Writes)
        BY <3>1 DEF Accs
      <3>4. p \in Nat
        BY <1>1 DEF Extended
      <3> QED BY <3>1, <3>2, <3>3, <3>4
    <2>2. Extended(a.d, i) = Extended(d, i) /\ (Opens(a.d, i) <=> Opens(d, i))
      BY <2>1 DEF Extended, Opens
    <2>3. CASE i <= Num(d)
      <3>1. i \in 1 .. Num(a.d) /\ t[i] = AddPartition(a, i) /\ t[i].ok
        <4>1. i \in 0 .. n
          BY <1>1
        <4> QED BY <1>2, <2>1, <2>3, <4>1, EachTurn DEF n
      <3> DEFINE la == IF Opens(a.d, i) THEN wlist_add(a.lst, OpeningOf(a, i)) ELSE a.lst
      <3> HIDE DEF t, a
      <3>2. t[i].lst = wlist_add(la, WriteOf(a, i)) /\ t[i].ext_lba = ExtOf(a, i)
        <4>1. AddPartition(a, i).ok
          BY <3>1
        <4>2. /\ AddPartition(a, i).lst = wlist_add(la, WriteOf(a, i))
              /\ AddPartition(a, i).ext_lba = ExtOf(a, i)
          BY <2>1, <3>1, <4>1, Added
        <4> QED BY <3>1, <4>2
      <3>3. WriteOf(a, i) \in Writes /\ (Opens(a.d, i) => OpeningOf(a, i) \in Writes)
        BY <2>1, <3>1, TurnWrites
      <3>4. CASE Opens(d, i)
        <4>1. i = 4 /\ Extended(d, i) = 1 /\ Extended(d, i - 1) = 0 /\ p = 3
          BY <1>1, <3>4 DEF Opens, Extended, NUM_BOOT_RECORD_PARTS
        <4>2. la = wlist_add(a.lst, OpeningOf(a, i))
          BY <2>2, <3>4
        <4>3. /\ la \in Seq(Writes) /\ Len(la) = 3 + 1 /\ FromEnd(la, 3 + 1) = OpeningOf(a, i)
              /\ \A r \in 1 .. 3 : FromEnd(la, r) = FromEnd(a.lst, r)
          <5>1. Len(a.lst) = 3 /\ 3 \in Nat /\ OpeningOf(a, i) \in Writes
            BY <2>1, <2>2, <3>3, <3>4, <4>1
          <5> HIDE DEF la
          <5> QED BY <2>1, <4>2, <5>1, AddedFromEnd
        <4> HIDE DEF la
        <4>4. /\ Len(t[i].lst) = 4 + 1 /\ FromEnd(t[i].lst, 4 + 1) = WriteOf(a, i)
              /\ \A r \in 1 .. 4 : FromEnd(t[i].lst, r) = FromEnd(la, r)
          <5> DEFINE q == 4
          <5>1. Len(la) = q /\ q \in Nat
            BY <4>3
          <5> HIDE DEF q
          <5>2. /\ Len(t[i].lst) = q + 1 /\ FromEnd(t[i].lst, q + 1) = WriteOf(a, i)
                /\ \A r \in 1 .. q : FromEnd(t[i].lst, r) = FromEnd(la, r)
            BY <3>2, <3>3, <4>3, <5>1, AddedFromEnd
          <5> QED BY <5>2 DEF q
        <4>5. TurnWrite(d, 5) = WriteOf(a, i) /\ TurnWrite(d, 4) = OpeningOf(a, i)
          <5>1. 5 - 2 = 3 /\ 5 - 1 = 4 /\ 4 - 1 = 3 /\ 5 > NUM_BOOT_RECORD_PARTS
                /\ ~(4 > NUM_BOOT_RECORD_PARTS) /\ ~(4 > Num(d)) /\ i = 4 /\ i - 1 = 3 /\ Opens(d, 4)
            BY <1>1, <2>3, <3>4, <4>1 DEF NUM_BOOT_RECORD_PARTS
          <5> QED BY <5>1 DEF TurnWrite, t, a
        <4>6. ASSUME NEW r \in 1 .. i + Extended(d, i)
              PROVE  FromEnd(t[i].lst, r) = TurnWrite(d, r)
          <5>1. r \in 1 .. 3 \/ r = 4 \/ r = 5
            BY <4>1
          <5> QED BY <2>1, <4>1, <4>3, <4>4, <4>5, <5>1
        <4>7. ExtOf(a, i) = t[3].lba
          <5>1. i - 1 = 3 /\ ExtOf(a, i) = a.lba
            BY <2>2, <3>4, <4>1 DEF ExtOf
          <5> QED BY <5>1 DEF a
        <4>8. Made(i)
          BY <3>2, <4>1, <4>4, <4>6, <4>7
        <4> HIDE DEF Made
        <4> QED BY <1>1, <4>8
      <3>5. CASE ~Opens(d, i)
        <4>1. la = a.lst /\ ExtOf(a, i) = a.ext_lba
          BY <2>2, <3>5 DEF ExtOf
        <4> HIDE DEF la
        <4>2. Extended(d, i) = Extended(d, i - 1) /\ p + 1 = i + Extended(d, i)
          BY <1>1, <2>3, <3>5 DEF Opens, Extended, NUM_BOOT_RECORD_PARTS
        <4>3. /\ Len(t[i].lst) = p + 1 /\ FromEnd(t[i].lst, p + 1) = WriteOf(a, i)
              /\ \A r \in 1 .. p : FromEnd(t[i].lst, r) = FromEnd(a.lst, r)
          <5> HIDE DEF p
          <5> QED BY <2>1, <3>2, <3>3, <4>1, AddedFromEnd
        <4>4. TurnWrite(d, p + 1) = WriteOf(a, i)
          <5>1. CASE Extended(d, i) = 1
            <6>1. i >= NUM_BOOT_RECORD_PARTS /\ p + 1 = i + 1
              BY <4>2, <5>1 DEF Extended
            <6>2. p + 1 > NUM_BOOT_RECORD_PARTS /\ (p + 1) - 2 = i - 1 /\ (p + 1) - 1 = i
              BY <1>1, <6>1 DEF NUM_BOOT_RECORD_PARTS
            <6> HIDE DEF p
            <6> QED BY <6>2 DEF TurnWrite, t, a
          <5>2. CASE Extended(d, i) # 1
            <6>1. p + 1 = i /\ ~(i > NUM_BOOT_RECORD_PARTS) /\ ~(i > Num(d))
              BY <1>1, <2>3, <4>2, <5>2 DEF Extended, NUM_BOOT_RECORD_PARTS
            <6> QED BY <3>5, <6>1 DEF TurnWrite, t, a
          <5> QED BY <5>1, <5>2
        <4>5. ASSUME NEW r \in 1 .. i + Extended(d, i)
              PROVE  FromEnd(t[i].lst, r) = TurnWrite(d, r)
          <5>1. r \in 1 .. p \/ r = p + 1
            BY <2>1, <4>2
          <5> QED BY <2>1, <4>3, <4>4, <5>1
        <4>6. Len(t[i].lst) = i + Extended(d, i) /\ (Extended(d, i) = 1 => t[i].ext_lba = t[3].lba)
          BY <2>1, <3>2, <4>1, <4>2, <4>3
        <4>7. Made(i)
          BY <4>5, <4>6
        <4> HIDE DEF Made
        <4> QED BY <1>1, <4>7
      <3> QED BY <3>4, <3>5
    <2>4. CASE ~(i <= Num(d))
      <3>1. i \in 1 .. NUM_BOOT_RECORD_PARTS /\ Num(d) <= NUM_BOOT_RECORD_PARTS /\ t[i] = AddBlank(a, i)
        BY <2>4, EachTurn DEF n
      <3>2. Extended(d, i) = 0 /\ Extended(d, i - 1) = 0 /\ p = i - 1 /\ p + 1 = i
        BY <1>1, <3>1 DEF Extended, NUM_BOOT_RECORD_PARTS
      <3> HIDE DEF t, a
      <3>3. WriteEntry(i, NoEntry) \in Writes
        <4>1. i \in 0 .. NUM_BOOT_RECORD_PARTS
          BY <3>1 DEF NUM_BOOT_RECORD_PARTS
        <4> QED BY <4>1, WriteTypes
      <3>4. t[i].lst = wlist_add(a.lst, WriteEntry(i, NoEntry))
        BY <2>1, <3>1, BlankAdded
      <3>5. /\ Len(t[i].lst) = i /\ FromEnd(t[i].lst, i) = WriteEntry(i, NoEntry)
            /\ \A r \in 1 .. p : FromEnd(t[i].lst, r) = FromEnd(a.lst, r)
        <4>1. /\ Len(t[i].lst) = p + 1 /\ FromEnd(t[i].lst, p + 1) = WriteEntry(i, NoEntry)
              /\ \A r \in 1 .. p : FromEnd(t[i].lst, r) = FromEnd(a.lst, r)
          <5> HIDE DEF p
          <5> QED BY <2>1, <3>3, <3>4, AddedFromEnd
        <4> QED BY <3>2, <4>1
      <3>6. TurnWrite(d, i) = WriteEntry(i, NoEntry)
        <4>1. ~(i > NUM_BOOT_RECORD_PARTS) /\ i > Num(d)
          BY <1>1, <2>4, <3>1 DEF NUM_BOOT_RECORD_PARTS
        <4> QED BY <4>1 DEF TurnWrite
      <3>7. ASSUME NEW r \in 1 .. i + Extended(d, i)
            PROVE  FromEnd(t[i].lst, r) = TurnWrite(d, r)
        <4>1. r \in 1 .. p \/ r = i
          BY <2>1, <3>2
        <4> QED BY <2>1, <3>5, <3>6, <4>1
      <3>8. Made(i)
        BY <3>2, <3>5, <3>7
      <3> HIDE DEF Made
      <3> QED BY <1>1, <3>8
    <2> QED BY <2>3, <2>4
  <1>5. \A i \in 0 .. n : i \in S
    <2> HIDE DEF S
    <2> QED BY <1>1, <1>3, <1>4, TurnByTurn
  <1> QED BY <1>5 DEF n

\* The sector in front of an EBR's data is that of the EBR.
LEMMA DataBehind ==
    ASSUME NEW x \in 0 .. Word - 1, NEW extended \in {0, 1}
    PROVE  (DataLba(x, extended) - extended) % Word = x
  <1>1. Word \in Nat \ {0, 1} /\ x \in Nat
    BY SectorsAssumption
  <1>2. \A y \in 0 .. Word - 1 : y % Word = y
    BY <1>1
  <1>3. CASE x + extended < Word
    <2>1. x + extended \in 0 .. Word - 1 /\ (x + extended) - extended = x
      BY <1>1, <1>3
    <2>2. DataLba(x, extended) = x + extended
      BY <1>2, <2>1 DEF DataLba
    <2> QED BY <1>2, <2>1, <2>2
  <1>4. CASE ~(x + extended < Word)
    <2>1. extended = 1 /\ x + extended = Word /\ x = Word - 1
      BY <1>1, <1>4
    <2>2. Word % Word = 0 /\ (0 - 1) % Word = Word - 1
      BY <1>1
    <2> QED BY <2>1, <2>2 DEF DataLba
  <1> QED BY <1>3, <1>4

\* What the second pass works from, and what it leaves, by its turns.
LEMMA Places ==
    ASSUME NEW c \in Disks, config_mbr(c).ok, config_mbr(config_mbr(c).d).ok,
           NEW i \in 1 .. Num(c)
    PROVE  LET d == config_mbr(c).d
               e == config_mbr(d).d
               a == Turns(d)[i - 1]
           IN  /\ a \in Accs /\ Num(a.d) = Num(c) /\ Num(d) = Num(c) /\ Num(e) = Num(c)
               /\ a.d.num_lba = e.num_lba
               /\ e.parts[i].start_lba = StartOf(a, i)
               /\ LbaOf(e, i) = a.lba
               /\ LenIn(e, i) = LenOf(a, i)
               /\ i < Num(c) => AfterOf(a, i) = LbaOf(e, i + 1)
  <1> DEFINE d == config_mbr(c).d
             e == config_mbr(d).d
             n == LastTurn(d)
             t == Turns(d)
             v == Turns(c)
  <1>1. /\ d \in Disks /\ Num(d) = Num(c) /\ e \in Disks /\ Num(e) = Num(c)
        /\ n \in Nat /\ Num(c) \in Nat /\ Num(c) <= n /\ n = LastTurn(c)
        /\ t[n].ok /\ e = t[n].d /\ v[n].ok /\ d = v[n].d
    BY ConfigMade, DiskTypes, TurnAfterTurn DEF LastTurn
  <1>2. \A j \in 0 .. n : t[j].ok /\ v[j].ok
    BY <1>1, AllOk
  <1>3. /\ \A j \in 1 .. Num(c) : e.parts[j].len_kb = KeptOf(t[j - 1], j)
        /\ e.num_lba = d.num_lba
    BY <1>1, TurnsKeep
  <1>4. \A j \in 1 .. Num(c) : e.parts[j].start_lba = StartOf(t[j - 1], j)
    BY <1>1, TurnsPlace
  <1>5. /\ \A j \in 1 .. Num(c) : d.parts[j].len_kb = KeptOf(v[j - 1], j)
        /\ d.num_lba = c.num_lba
    BY <1>1, TurnsKeep
  <1>6. ASSUME NEW j \in 1 .. Num(c)
        PROVE  t[j - 1].lba = v[j - 1].lba
    <2>1. j - 1 \in 0 .. n /\ j - 1 < Num(c)
      BY <1>1
    <2> QED BY <1>1, <1>2, <2>1, SecondPass
  <1> HIDE DEF d, e, n
  <1>7. ASSUME NEW j \in 1 .. Num(c)
        PROVE  /\ j - 1 \in 0 .. n /\ j \in 1 .. n /\ j \in 0 .. n /\ j <= Num(c) /\ ~(j <= j - 1)
               /\ t[j - 1] \in Accs /\ Num(t[j - 1].d) = Num(c) /\ t[j] = AddPartition(t[j - 1], j)
               /\ t[j - 1].d.parts[j].len_kb = d.parts[j].len_kb
               /\ t[j - 1].d.num_lba = e.num_lba
    <2>1. j - 1 \in 0 .. n /\ j \in 1 .. n /\ j \in 0 .. n /\ j <= Num(c) /\ ~(j <= j - 1)
      BY <1>1
    <2>2. t[j - 1] \in Accs /\ Num(t[j - 1].d) = Num(c) /\ t[j] = AddPartition(t[j - 1], j)
      BY <1>1, <2>1, EachTurn DEF n
    <2>3. t[j - 1].d.parts[j].len_kb = d.parts[j].len_kb /\ t[j - 1].d.num_lba = d.num_lba
      BY <1>1, <1>2, <2>1, TurnsKeep DEF n
    <2> QED BY <1>3, <2>1, <2>2, <2>3
  <1>8. ASSUME NEW j \in 1 .. Num(c)
        PROVE  /\ v[j - 1] \in Accs /\ Num(v[j - 1].d) = Num(c)
               /\ v[j - 1].d.parts[j].len_kb = c.parts[j].len_kb
               /\ v[j - 1].d.num_lba = e.num_lba
    <2>1. j - 1 \in 0 .. n /\ j \in 1 .. n
      BY <1>1
    <2>2. v[j - 1] \in Accs /\ Num(v[j - 1].d) = Num(c)
      BY <1>1, <2>1, EachTurn
    <2>3. v[j - 1].d.parts[j].len_kb = c.parts[j].len_kb /\ v[j - 1].d.num_lba = c.num_lba
      BY <1>1, <1>2, <1>7, <2>1, TurnsKeep
    <2> QED BY <1>3, <1>5, <2>2, <2>3
  <1>9. ASSUME NEW j \in 1 .. Num(c)
        PROVE  LbaOf(e, j) = t[j - 1].lba
    <2>1. t[j - 1].lba \in 0 .. Word - 1
      BY <1>7 DEF Accs
    <2>2. Extended(e, j) \in {0, 1} /\ Extended(t[j - 1].d, j) = Extended(e, j)
      BY <1>1, <1>7 DEF Extended
    <2>3. e.parts[j].start_lba = DataLba(t[j - 1].lba, Extended(e, j))
      BY <1>4, <2>2 DEF StartOf
    <2> HIDE DEF t
    <2> QED BY <2>1, <2>2, <2>3, DataBehind DEF LbaOf
  <1>10. LenIn(e, i) = LenOf(t[i - 1], i)
    <2> DEFINE a == t[i - 1]
               b == v[i - 1]
               rest == (e.num_lba - e.parts[i].start_lba) % Word
    <2>1. /\ a.d.parts[i].len_kb = d.parts[i].len_kb /\ a.d.num_lba = e.num_lba
          /\ StartOf(a, i) = e.parts[i].start_lba /\ e.parts[i].len_kb = KeptOf(a, i)
      BY <1>3, <1>4, <1>7
    <2>2. /\ b.d.parts[i].len_kb = c.parts[i].len_kb /\ b.d.num_lba = e.num_lba
          /\ d.parts[i].len_kb = KeptOf(b, i)
      BY <1>5, <1>8
    <2>3. Extended(a.d, i) = Extended(b.d, i)
      BY <1>7, <1>8 DEF Extended
    <2>4. StartOf(b, i) = e.parts[i].start_lba
      BY <1>6, <2>1, <2>3 DEF StartOf
    <2> HIDE DEF a, b, t, v
    <2>5. CASE d.parts[i].len_kb # REST
      BY <2>1, <2>5 DEF LenIn, LenOf, PartLen, KeptOf, a
    <2>6. CASE d.parts[i].len_kb = REST
      <3>1. LenOf(a, i) = rest
        BY <2>1, <2>6 DEF LenOf, PartLen
      <3>2. e.parts[i].len_kb = REST
        <4>1. CASE Extended(a.d, i) # 1
          BY <2>1, <2>6, <4>1 DEF KeptOf
        <4>2. CASE Extended(a.d, i) = 1
          <5>1. c.parts[i].len_kb = REST /\ KeptKb(LenOf(b, i)) = REST
            BY <2>2, <2>3, <2>6, <4>2 DEF KeptOf
          <5>2. LenOf(b, i) = rest
            BY <2>2, <2>4, <5>1 DEF LenOf, PartLen
          <5>3. e.parts[i].len_kb = KeptKb(LenOf(a, i))
            BY <2>1, <2>6, <4>2 DEF KeptOf
          <5> QED BY <3>1, <5>1, <5>2, <5>3
        <4> QED BY <4>1, <4>2
      <3> QED BY <3>1, <3>2 DEF LenIn, PartLen, a
    <2> QED BY <2>5, <2>6 DEF a
  <1>11. ASSUME i < Num(c)
         PROVE  AfterOf(t[i - 1], i) = LbaOf(e, i + 1)
    <2>1. i + 1 \in 1 .. Num(c) /\ (i + 1) - 1 = i /\ i \in 0 .. n
      BY <1>1, <1>11
    <2>2. LbaOf(e, i + 1) = t[i].lba
      BY <1>9, <2>1
    <2>3. /\ t[i - 1] \in Accs /\ i \in 1 .. Num(t[i - 1].d)
          /\ t[i] = AddPartition(t[i - 1], i) /\ t[i].ok
      BY <1>2, <1>7, <2>1
    <2> DEFINE a == t[i - 1]
    <2>4. a \in Accs /\ i \in 1 .. Num(a.d) /\ AddPartition(a, i).ok
      BY <2>3
    <2>5. t[i].lba = AddPartition(a, i).lba
      BY <2>3
    <2> HIDE DEF a
    <2>6. AddPartition(a, i).lba = AfterOf(a, i)
      BY <2>4, Added
    <2> QED BY <2>2, <2>5, <2>6 DEF a
  <1> QED BY <1>1, <1>4, <1>7, <1>9, <1>10, <1>11 DEF d, e, t

\* All the writes of config_mbr.
LEMMA AllWrites ==
    ASSUME NEW d \in Disks, config_mbr(d).ok
    PROVE  /\ Total(d) \in Nat /\ Total(d) > NUM_BOOT_RECORD_PARTS
           /\ Len(config_mbr(d).lst) = Total(d)
           /\ FromEnd(config_mbr(d).lst, Total(d)) = WriteEmpty
           /\ \A r \in 1 .. Total(d) - 1 : FromEnd(config_mbr(d).lst, r) = TurnWrite(d, r)
  <1> DEFINE n == LastTurn(d)
             l == Turns(d)[n].lst
             q == n + Extended(d, n)
  <1>1. /\ Turns(d)[n] \in Accs /\ Turns(d)[n].ok /\ n \in Nat /\ Num(d) \in Nat
        /\ config_mbr(d).lst = wlist_add(l, WriteEmpty)
    BY ConfigMade, DiskTypes
  <1>2. l \in Seq(Writes)
    BY <1>1 DEF Accs
  <1>3. Len(l) = q /\ \A r \in 1 .. q : FromEnd(l, r) = TurnWrite(d, r)
    <2>1. n \in 0 .. n
      BY <1>1
    <2> QED BY <1>1, <2>1, TurnsWrite
  <1>4. q \in Nat /\ Total(d) = q + 1 /\ Total(d) > NUM_BOOT_RECORD_PARTS
    BY <1>1 DEF Total, LastTurn, Extended, NUM_BOOT_RECORD_PARTS
  <1> HIDE DEF q, l, n
  <1>5. /\ Len(wlist_add(l, WriteEmpty)) = q + 1
        /\ FromEnd(wlist_add(l, WriteEmpty), q + 1) = WriteEmpty
        /\ \A r \in 1 .. q : FromEnd(wlist_add(l, WriteEmpty), r) = FromEnd(l, r)
    BY <1>2, <1>3, <1>4, WriteTypes, AddedFromEnd
  <1>6. Total(d) \in Nat /\ Total(d) - 1 = q
    BY <1>4
  <1> QED BY <1>1, <1>3, <1>4, <1>5, <1>6

\* What a write does, in fields.
LEMMA WriteFields ==
    /\ \A slot, e : LET w == WriteEntry(slot, e)
                    IN  w.to = "mbr" /\ w.at = slot /\ w.what.logical = e
    /\ \A lba, b : LET w == WriteEbr(lba, b)
                   IN  w.to = "ebr" /\ w.at = lba /\ w.what = b
    /\ WriteEmpty.to = "mbr" /\ WriteEmpty.at = 0
    /\ \A type, start, len : /\ Entry(type, start, len).type = type
                             /\ Entry(type, start, len).start = start
                             /\ Entry(type, start, len).len = len
  BY DEF WriteEntry, WriteEbr, WriteEmpty, NoEbr, Entry

\* The writes of the second pass, in terms of the disk that it leaves.
LEMMA LayoutWrites ==
    ASSUME NEW c \in Disks, config_mbr(c).ok, config_mbr(config_mbr(c).d).ok
    PROVE  LET d == config_mbr(c).d
               e == config_mbr(d).d
           IN  /\ Len(config_mbr(c).lst) = Total(e) /\ Len(config_mbr(d).lst) = Total(e)
               /\ \A r \in 1 .. Total(e) : IsWrite(e, r, FromEnd(config_mbr(d).lst, r))
  <1> DEFINE d == config_mbr(c).d
             e == config_mbr(d).d
             t == Turns(d)
             l == config_mbr(d).lst
  <1>1. /\ d \in Disks /\ e \in Disks /\ Num(d) = Num(c) /\ Num(e) = Num(c) /\ Num(c) \in Nat
        /\ t[LastTurn(d)].ok /\ LastTurn(d) \in Nat /\ Num(c) <= LastTurn(d)
    BY ConfigMade, DiskTypes, TurnAfterTurn
  <1>2. Total(c) = Total(e) /\ Total(d) = Total(e)
    BY <1>1 DEF Total
  <1>3. /\ Total(e) \in Nat /\ Total(e) > NUM_BOOT_RECORD_PARTS
        /\ Len(l) = Total(e) /\ Len(config_mbr(c).lst) = Total(e)
        /\ FromEnd(l, Total(e)) = WriteEmpty
        /\ \A r \in 1 .. Total(e) - 1 : FromEnd(l, r) = TurnWrite(d, r)
    BY <1>1, <1>2, AllWrites
  <1>4. \A i \in 1 .. Num(c) :
           /\ Num(t[i - 1].d) = Num(c) /\ e.parts[i].start_lba = StartOf(t[i - 1], i)
           /\ LbaOf(e, i) = t[i - 1].lba /\ LenIn(e, i) = LenOf(t[i - 1], i)
           /\ i < Num(c) => AfterOf(t[i - 1], i) = LbaOf(e, i + 1)
    BY Places
  <1>5. \A i \in 1 .. Num(c) : Extended(d, i) = 1 => t[i].ext_lba = t[3].lba
    <2>1. \A i \in 1 .. Num(c) : i \in 0 .. LastTurn(d)
      BY <1>1
    <2> QED BY <1>1, <2>1, TurnsWrite
  <1> HIDE DEF d, e, t, l
  <1>6. ASSUME NEW i \in 1 .. Num(c), Extended(d, i) = 0
        PROVE  WriteOf(t[i - 1], i) = WriteEntry(i, Entry("part", e.parts[i].start_lba, LenIn(e, i)))
    <2>1. Extended(t[i - 1].d, i) = 0
      BY <1>1, <1>4, <1>6 DEF Extended
    <2> QED BY <1>4, <2>1 DEF WriteOf
  <1>7. ASSUME NEW i \in 1 .. Num(c), Extended(d, i) = 1
        PROVE  ExtOf(t[i - 1], i) = LbaOf(e, 4)
    <2>1. 4 \in 1 .. Num(c) /\ 4 - 1 = 3 /\ i >= 4 /\ Num(d) > 4
      BY <1>1, <1>7 DEF Extended, NUM_BOOT_RECORD_PARTS
    <2>2. LbaOf(e, 4) = t[3].lba
      BY <1>4, <2>1
    <2>3. Opens(t[i - 1].d, i) <=> i = 4
      BY <1>1, <1>4, <2>1 DEF Opens, NUM_BOOT_RECORD_PARTS
    <2>4. CASE i = 4
      BY <2>1, <2>2, <2>3, <2>4 DEF ExtOf
    <2>5. CASE i # 4
      <3>1. i - 1 \in 1 .. Num(c) /\ Extended(d, i - 1) = 1
        BY <1>1, <2>1, <2>5 DEF Extended, NUM_BOOT_RECORD_PARTS
      <3> QED BY <1>5, <2>2, <2>3, <2>5, <3>1 DEF ExtOf
    <2> QED BY <2>4, <2>5
  <1>8. ASSUME NEW i \in 1 .. Num(c), Extended(d, i) = 1
        PROVE  \E b : WriteOf(t[i - 1], i) = WriteEbr(LbaOf(e, i), b) /\ EbrIs(e, i, b)
    <2> DEFINE a == t[i - 1]
               x == NextEntry(a.d, i, AfterOf(a, i), ExtOf(a, i))
               b == [logical |-> Entry("part", 1, LenIn(e, i)), next |-> x]
    <2>1. Num(a.d) = Num(c) /\ LbaOf(e, i) = a.lba /\ LenIn(e, i) = LenOf(a, i)
      BY <1>4
    <2>2. Extended(a.d, i) # 0
      BY <1>1, <1>8, <2>1 DEF Extended
    <2>3. i < Num(c) => AfterOf(a, i) = LbaOf(e, i + 1)
      BY <1>4
    <2>4. ExtOf(a, i) = LbaOf(e, 4)
      BY <1>7, <1>8
    <2> HIDE DEF a
    <2>5. WriteOf(a, i) = WriteEbr(LbaOf(e, i), b)
      BY <2>1, <2>2 DEF WriteOf
    <2>6. b.logical = Entry("part", 1, LenIn(e, i)) /\ b.next = x
      OBVIOUS
    <2>7. IF i = Num(c) THEN x.type = "none"
          ELSE x.type = "ext" /\ x.start = NextStart(LbaOf(e, i + 1), LbaOf(e, 4))
      <3>1. CASE i = Num(c)
        BY <2>1, <3>1, WriteFields DEF NextEntry, NoEntry
      <3>2. CASE i # Num(c)
        <4>1. i < Num(c) /\ i # Num(a.d)
          BY <1>1, <2>1, <3>2
        <4>2. /\ x.type = "ext" /\ x.start = NextStart(AfterOf(a, i), ExtOf(a, i))
          BY <4>1, WriteFields DEF NextEntry
        <4> QED BY <2>3, <2>4, <3>2, <4>1, <4>2
      <3> QED BY <3>1, <3>2
    <2> HIDE DEF x, b
    <2>8. EbrIs(e, i, b)
      BY <1>1, <2>6, <2>7 DEF EbrIs
    <2> QED BY <2>5, <2>8 DEF a
  <1>9. ASSUME NEW r \in 1 .. Total(e)
        PROVE  IsWrite(e, r, FromEnd(l, r))
    <2>1. CASE r = Total(e)
      <3>1. FromEnd(l, r) = WriteEmpty /\ ~(r <= NUM_BOOT_RECORD_PARTS)
        BY <1>3, <2>1 DEF NUM_BOOT_RECORD_PARTS
      <3> QED BY <2>1, <3>1, WriteFields DEF IsWrite
    <2>2. CASE r <= NUM_BOOT_RECORD_PARTS
      <3>1. r \in 1 .. Total(e) - 1 /\ ~(r > NUM_BOOT_RECORD_PARTS)
        BY <1>3, <2>2 DEF NUM_BOOT_RECORD_PARTS
      <3>2. FromEnd(l, r) = TurnWrite(d, r)
        BY <1>3, <3>1
      <3>3. CASE r > Num(c)
        <4>1. FromEnd(l, r) = WriteEntry(r, NoEntry) /\ SlotIs(e, r, NoEntry)
          BY <1>1, <3>1, <3>2, <3>3 DEF TurnWrite, SlotIs
        <4> QED BY <2>2, <4>1, WriteFields DEF IsWrite
      <3>4. CASE ~(r > Num(c)) /\ Opens(d, r)
        <4>1. FromEnd(l, r) = OpeningOf(t[r - 1], r)
          BY <1>1, <3>1, <3>2, <3>4 DEF TurnWrite, t
        <4>2. r \in 1 .. Num(c) /\ Opens(e, r)
          BY <1>1, <3>1, <3>4 DEF Opens
        <4>3. LbaOf(e, r) = t[r - 1].lba
          BY <1>4, <4>2
        <4> DEFINE x == Entry("ext", LbaOf(e, r), (t[r - 1].d.num_lba - LbaOf(e, r)) % Word)
        <4>4. FromEnd(l, r) = WriteEntry(r, x) /\ x.type = "ext" /\ x.start = LbaOf(e, r)
          BY <4>1, <4>3, WriteFields DEF OpeningOf
        <4> HIDE DEF x
        <4>5. SlotIs(e, r, x)
          BY <1>1, <3>4, <4>2, <4>4 DEF SlotIs
        <4> QED BY <2>2, <4>4, <4>5, WriteFields DEF IsWrite
      <3>5. CASE ~(r > Num(c)) /\ ~Opens(d, r)
        <4>1. FromEnd(l, r) = WriteOf(t[r - 1], r)
          BY <1>1, <3>1, <3>2, <3>5 DEF TurnWrite, t
        <4>2. r \in 1 .. Num(c) /\ ~Opens(e, r) /\ Extended(d, r) = 0
          BY <1>1, <2>2, <3>1, <3>5 DEF Opens, Extended, NUM_BOOT_RECORD_PARTS
        <4> DEFINE x == Entry("part", e.parts[r].start_lba, LenIn(e, r))
        <4>3. FromEnd(l, r) = WriteEntry(r, x)
          BY <1>6, <4>1, <4>2
        <4>4. SlotIs(e, r, x)
          BY <1>1, <3>5, <4>2 DEF SlotIs
        <4> HIDE DEF x
        <4> QED BY <2>2, <4>3, <4>4, WriteFields DEF IsWrite
      <3> QED BY <3>3, <3>4, <3>5
    <2>3. CASE r # Total(e) /\ ~(r <= NUM_BOOT_RECORD_PARTS)
      <3>1. /\ r \in 1 .. Total(e) - 1 /\ r > NUM_BOOT_RECORD_PARTS
            /\ r - 1 \in 1 .. Num(c) /\ Extended(d, r - 1) = 1 /\ (r - 1) - 1 = r - 2
        BY <1>1, <1>3, <2>3 DEF Total, Extended, NUM_BOOT_RECORD_PARTS
      <3>2. FromEnd(l, r) = WriteOf(t[(r - 1) - 1], r - 1)
        BY <1>3, <3>1 DEF TurnWrite, t
      <3>3. PICK b : FromEnd(l, r) = WriteEbr(LbaOf(e, r - 1), b) /\ EbrIs(e, r - 1, b)
        BY <1>8, <3>1, <3>2
      <3> QED BY <2>3, <3>3, WriteFields DEF IsWrite
    <2> QED BY <2>1, <2>2, <2>3
  <1> QED BY <1>3, <1>9 DEF d, e, l

-----------------------------------------------------------------------------
(* Where the table lies *)

\* The partitions, the EBRs and the MBR lie behind one another.
LEMMA Behind ==
    ASSUME dinfo \in Disks, images \in [1 .. Num(dinfo) -> Nat],
           validate(dinfo), Chained(dinfo), InRange,
           Num(dinfo) > 0 => dinfo.parts[1].start_lba # 0,
           NEW j \in 1 .. Num(dinfo)
    PROVE  /\ dinfo.parts[j].start_lba \in Nat \ {0}
           /\ \A i \in 1 .. Num(dinfo) : i < j => dinfo.parts[i].len_kb # REST
           /\ \A i \in 1 .. Num(dinfo) : i < j => kb_to_lba(dinfo.parts[i].len_kb) \in Nat
           /\ Extended(dinfo, j) = 1 =>
                /\ LbaOf(dinfo, j) \in Nat \ {0} /\ LbaOf(dinfo, j) < Word
                /\ dinfo.parts[j].start_lba = LbaOf(dinfo, j) + 1
                /\ \A i \in 1 .. Num(dinfo) : i < j =>
                     dinfo.parts[i].start_lba + kb_to_lba(dinfo.parts[i].len_kb) <= LbaOf(dinfo, j)
  <1> DEFINE start(i) == dinfo.parts[i].start_lba
             len(i)   == kb_to_lba(dinfo.parts[i].len_kb)
             n        == Num(dinfo)
  <1>1. /\ n \in Nat /\ \A i \in 1 .. n : start(i) \in 0 .. Word - 1 /\ dinfo.parts[i].len_kb \in Nat
    BY DiskTypes, SectorsAssumption
  <1>2. ASSUME NEW i \in 1 .. n
        PROVE  len(i) \in Nat
    <2>1. dinfo.parts[i].len_kb \in Nat
      BY <1>1
    <2>2. kb_to_lba(dinfo.parts[i].len_kb) \in 0 .. Word - 1
      BY <2>1, LengthTypes
    <2> QED BY <2>2, SectorsAssumption
  <1>3. \A i \in 1 .. n : i < n => dinfo.parts[i].len_kb # REST
    BY <1>1 DEF validate
  <1>4. \A i \in 1 .. n, m \in 1 .. n : i < m => start(i) + len(i) <= start(m)
    BY Apart
  <1>5. Word \in Nat \ {0, 1} /\ start(1) # 0 /\ 1 \in 1 .. n
    BY <1>1, SectorsAssumption
  <1> HIDE DEF start, len, n
  <1>6. start(j) \in Nat \ {0}
    <2>1. CASE j = 1
      BY <1>1, <1>5, <2>1 DEF n
    <2>2. CASE j # 1
      <3>1. start(1) + len(1) <= start(j) /\ start(1) \in Nat \ {0} /\ len(1) \in Nat /\ start(j) \in Nat
        BY <1>1, <1>2, <1>4, <1>5, <2>2 DEF n
      <3> QED BY <3>1
    <2> QED BY <2>1, <2>2
  <1>7. \A i \in 1 .. n : i < j => dinfo.parts[i].len_kb # REST
    BY <1>1, <1>3 DEF n
  <1>8. ASSUME Extended(dinfo, j) = 1
        PROVE  /\ LbaOf(dinfo, j) \in Nat \ {0} /\ LbaOf(dinfo, j) < Word
               /\ start(j) = LbaOf(dinfo, j) + 1
               /\ \A i \in 1 .. n : i < j => start(i) + len(i) <= LbaOf(dinfo, j)
    <2> DEFINE h == j - 1
               x == start(h) + len(h)
    <2>1. h \in 1 .. n /\ h < n /\ h < j /\ h + 1 = j
      BY <1>1, <1>8 DEF Extended, NUM_BOOT_RECORD_PARTS, n
    <2>2. start(j) = DataLba(x % Word, 1)
      <3>1. dinfo.parts[h].len_kb # REST
        BY <1>3, <2>1
      <3> QED BY <1>8, <2>1, <3>1 DEF Chained, start, len, n
    <2>3. start(h) \in Nat /\ len(h) \in Nat /\ x + 1 < Word
      <3>1. start(h) * SectSize + dinfo.parts[h].len_kb * KB + 2 * SectSize <= Word * SectSize
        BY <2>1 DEF InRange, EndOf, start, n
      <3>2. start(h) + len(h) + 1 < Word
        BY <1>1, <2>1, <3>1, EndsBelow DEF len
      <3> QED BY <1>1, <1>2, <2>1, <3>2
    <2>4. x \in Nat /\ x % Word = x /\ (x + 1) % Word = x + 1
      <3>1. x \in Nat /\ x \in 0 .. Word - 1 /\ x + 1 \in 0 .. Word - 1
        BY <1>5, <2>3
      <3>2. \A y \in 0 .. Word - 1 : y % Word = y
        BY <1>5
      <3> QED BY <3>1, <3>2
    <2>5. start(j) = x + 1
      BY <2>2, <2>4 DEF DataLba
    <2>6. LbaOf(dinfo, j) = x
      <3>1. LbaOf(dinfo, j) = (start(j) - 1) % Word
        BY <1>8 DEF LbaOf, start
      <3>2. start(j) - 1 = x
        BY <2>4, <2>5
      <3> QED BY <2>4, <3>1, <3>2
    <2>7. x # 0
      <3>1. start(h) # 0
        <4>1. CASE h = 1
          BY <1>5, <4>1
        <4>2. CASE h # 1
          <5>1. start(1) + len(1) <= start(h) /\ start(1) \in Nat \ {0} /\ len(1) \in Nat
            BY <1>1, <1>2, <1>4, <1>5, <2>1, <4>2
          <5> QED BY <2>3, <5>1
        <4> QED BY <4>1, <4>2
      <3> QED BY <2>3, <3>1
    <2>8. ASSUME NEW i \in 1 .. n, i < j
          PROVE  start(i) + len(i) <= x
      <3>1. CASE i = h
        BY <2>3, <3>1
      <3>2. CASE i # h
        <4>1. i < h
          BY <1>1, <2>1, <2>8, <3>2 DEF n
        <4>2. start(i) + len(i) <= start(h) /\ start(i) \in Nat /\ len(i) \in Nat
          BY <1>1, <1>2, <1>4, <2>1, <4>1
        <4> QED BY <2>3, <4>2
      <3> QED BY <3>1, <3>2
    <2> HIDE DEF x
    <2>9. LbaOf(dinfo, j) \in Nat \ {0} /\ LbaOf(dinfo, j) < Word
      BY <1>5, <2>3, <2>4, <2>6, <2>7
    <2>10. start(j) = LbaOf(dinfo, j) + 1
      BY <2>5, <2>6
    <2>11. \A i \in 1 .. n : i < j => start(i) + len(i) <= LbaOf(dinfo, j)
      BY <2>6, <2>8
    <2> QED BY <2>9, <2>10, <2>11
  <1> QED BY <1>2, <1>6, <1>7, <1>8 DEF start, len, n

-----------------------------------------------------------------------------
(* The chain *)

\* The chain is followed from one EBR to the next.
LEMMA ChainFollows ==
    ASSUME NEW depth \in Nat \ {0}
    PROVE  /\ ChainLba(depth)[1] = ExtStart
           /\ \A m \in 2 .. depth :
                ChainLba(depth)[m] =
                  IF ChainLba(depth)[m - 1] = 0 \/ EbrAt(ChainLba(depth)[m - 1]).next.type = "none"
                  THEN 0 ELSE (ExtStart + EbrAt(ChainLba(depth)[m - 1]).next.start) % Word
           /\ DOMAIN ChainLba(depth) = 1 .. depth
  <1> DEFINE Step(x)    == IF x = 0 \/ EbrAt(x).next.type = "none" THEN 0
                           ELSE (ExtStart + EbrAt(x).next.start) % Word
             Made(m, s) == s = [i \in 1 .. m |-> IF i = 1 THEN ExtStart ELSE Step(s[i - 1])]
             S          == {m \in Nat : \E s : Made(m + 1, s)}
             n          == depth - 1
  <1> HIDE DEF Step
  <1>1. n \in Nat /\ n + 1 = depth
    OBVIOUS
  <1>2. 0 \in S
    <2> DEFINE u == [i \in 1 .. 1 |-> ExtStart]
    <2>1. u = [i \in 1 .. 1 |-> IF i = 1 THEN ExtStart ELSE Step(u[i - 1])]
      BY \A i \in 1 .. 1 : i = 1
    <2>2. Made(1, u)
      BY <2>1
    <2> HIDE DEF u
    <2>3. \E s : Made(0 + 1, s)
      BY <2>2
    <2> HIDE DEF Made
    <2> QED BY <2>3
  <1>3. ASSUME NEW m \in 1 .. n, m - 1 \in S
        PROVE  m \in S
    <2>1. PICK s : Made(m, s)
      <3>1. \E s : Made((m - 1) + 1, s)
        BY <1>3
      <3>2. (m - 1) + 1 = m
        BY <1>1
      <3> QED BY <3>1, <3>2
    <2> DEFINE u == [i \in 1 .. m + 1 |-> IF i < m + 1 THEN s[i] ELSE Step(s[m])]
    <2>2. ASSUME NEW i \in 1 .. m + 1
          PROVE  u[i] = IF i = 1 THEN ExtStart ELSE Step(u[i - 1])
      <3>1. CASE i = m + 1
        <4>1. m \in 1 .. m + 1 /\ m < m + 1 /\ m + 1 \in 1 .. m + 1 /\ ~(m + 1 < m + 1)
              /\ m + 1 # 1 /\ (m + 1) - 1 = m
          BY <1>1
        <4>2. u[m + 1] = Step(s[m]) /\ u[m] = s[m]
          BY <4>1
        <4> HIDE DEF u
        <4>3. i = m + 1 /\ i # 1 /\ i - 1 = m
          BY <3>1, <4>1
        <4>4. u[i] = Step(u[i - 1])
          BY <4>2, <4>3
        <4> QED BY <4>3, <4>4
      <3>2. CASE i < m + 1
        <4>1. i \in 1 .. m /\ u[i] = s[i] /\ (i # 1 => i - 1 \in 1 .. m + 1 /\ i - 1 < m + 1)
          BY <1>1, <3>2
        <4>2. i # 1 => u[i - 1] = s[i - 1]
          BY <4>1
        <4>3. s[i] = IF i = 1 THEN ExtStart ELSE Step(s[i - 1])
          BY <2>1, <4>1
        <4> HIDE DEF u
        <4> QED BY <4>1, <4>2, <4>3
      <3> QED BY <1>1, <3>1, <3>2
    <2>3. Made(m + 1, u)
      BY <2>2
    <2> HIDE DEF u
    <2>4. \E r : Made(m + 1, r)
      BY <2>3
    <2> HIDE DEF Made
    <2> QED BY <1>1, <2>4
  <1>4. \E s : Made(depth, s)
    <2>1. \A i \in 0 .. n : i \in S
      <3> HIDE DEF S, n
      <3> QED BY <1>1, <1>2, <1>3, TurnByTurn
    <2>2. n \in S
      BY <1>1, <2>1
    <2> HIDE DEF Made
    <2> QED BY <1>1, <2>2
  <1>5. ChainLba(depth) = CHOOSE s : Made(depth, s)
    BY DEF ChainLba, Step
  <1>6. Made(depth, ChainLba(depth))
    BY <1>4, <1>5
  <1> DEFINE t == ChainLba(depth)
  <1> HIDE DEF t
  <1>7. Made(depth, t)
    BY <1>6 DEF t
  <1>8. DOMAIN t = 1 .. depth
    BY <1>7
  <1>9. ASSUME NEW m \in 1 .. depth
        PROVE  t[m] = IF m = 1 THEN ExtStart ELSE Step(t[m - 1])
    BY <1>7
  <1> HIDE DEF Made
  <1>10. t[1] = ExtStart
    BY <1>9
  <1>11. ASSUME NEW m \in 2 .. depth
         PROVE  t[m] = Step(t[m - 1])
    <2>1. m \in 1 .. depth /\ m # 1
      OBVIOUS
    <2> QED BY <1>9, <2>1
  <1> QED BY <1>8, <1>10, <1>11 DEF t, Step

-----------------------------------------------------------------------------
(* What is read *)

\* The disk of the second pass, with no partition that ends near 2^32 bytes.
Laid ==
    /\ dinfo \in Disks /\ images \in [1 .. Num(dinfo) -> Nat]
    /\ validate(dinfo) /\ Chained(dinfo) /\ InRange
    /\ Num(dinfo) > 0 => dinfo.parts[1].start_lba # 0
    /\ DOMAIN mbr = 1 .. NUM_BOOT_RECORD_PARTS

\* The table leads into the chain once its last slot but the first three is there.
LEMMA ExtStartIs ==
    ASSUME Laid, NEW m \in Nat, TableOf(dinfo, m)
    PROVE  ExtStart = IF Num(dinfo) > 4 /\ m < 4 THEN LbaOf(dinfo, 4) ELSE 0
  <1> DEFINE n     == Num(dinfo)
             slots == {i \in DOMAIN mbr : mbr[i].type = "ext"}
  <1>1. n \in Nat /\ DOMAIN mbr = 1 .. 4
    BY DiskTypes DEF Laid, NUM_BOOT_RECORD_PARTS
  <1>2. NoEntry.type = "none"
    BY WriteFields DEF NoEntry
  <1>3. ASSUME NEW i \in 1 .. 4
        PROVE  /\ mbr[i].type = "ext" <=> i = 4 /\ n > 4 /\ m < 4
               /\ mbr[i].type = "ext" => mbr[i].start = LbaOf(dinfo, 4)
    <2>1. IF i > m THEN SlotIs(dinfo, i, mbr[i]) ELSE mbr[i] = NoEntry
      BY DEF TableOf, NUM_BOOT_RECORD_PARTS
    <2>2. CASE ~(i > m) \/ i > n
      <3>1. mbr[i].type = "none"
        BY <1>2, <2>1, <2>2 DEF SlotIs
      <3> QED BY <1>1, <2>2, <3>1
    <2>3. CASE i > m /\ ~(i > n) /\ Opens(dinfo, i)
      <3>1. mbr[i].type = "ext" /\ mbr[i].start = LbaOf(dinfo, i)
        BY <2>1, <2>3 DEF SlotIs
      <3>2. i = 4 /\ n > 4
        BY <1>1, <2>3 DEF Opens, NUM_BOOT_RECORD_PARTS
      <3> QED BY <2>3, <3>1, <3>2
    <2>4. CASE i > m /\ ~(i > n) /\ ~Opens(dinfo, i)
      <3>1. mbr[i].type = "part"
        BY <2>1, <2>4, WriteFields DEF SlotIs
      <3>2. ~(i = 4 /\ n > 4)
        BY <1>1, <2>4 DEF Opens, NUM_BOOT_RECORD_PARTS
      <3> QED BY <3>1, <3>2
    <2> QED BY <2>2, <2>3, <2>4
  <1>4. ExtStart = IF slots = {} THEN 0 ELSE mbr[Min(slots)].start
    BY DEF ExtStart
  <1>5. CASE n > 4 /\ m < 4
    <2>1. slots = {4}
      BY <1>1, <1>3, <1>5
    <2>2. Min({4}) = 4
      BY DEF Min
    <2>3. mbr[4].start = LbaOf(dinfo, 4)
      BY <1>3, <1>5
    <2> HIDE DEF slots
    <2>4. ExtStart = mbr[4].start
      BY <1>4, <2>1, <2>2
    <2> QED BY <1>5, <2>3, <2>4
  <1>6. CASE ~(n > 4 /\ m < 4)
    <2>1. slots = {}
      BY <1>1, <1>3, <1>6
    <2> QED BY <1>4, <1>6, <2>1
  <1> QED BY <1>5, <1>6

\* Without an extended partition the chain is empty.
LEMMA NoChain ==
    ASSUME ExtStart = 0, NEW depth \in Nat \ {0}
    PROVE  \A q \in 1 .. depth : ChainLba(depth)[q] = 0
  <1> DEFINE n == depth - 1
             t == ChainLba(depth)
             S == {q \in 0 .. n : t[q + 1] = 0}
  <1>1. n \in Nat /\ t[1] = 0
    BY ChainFollows
  <1>2. \A m \in 2 .. depth : t[m - 1] = 0 => t[m] = 0
    BY ChainFollows
  <1> HIDE DEF t
  <1>3. 0 \in S
    BY <1>1
  <1>4. ASSUME NEW q \in 1 .. n, q - 1 \in S
        PROVE  q \in S
    <2>1. q + 1 \in 2 .. depth /\ (q + 1) - 1 = q /\ (q - 1) + 1 = q /\ q \in 0 .. n
      BY <1>1
    <2>2. t[q] = 0
      BY <1>4, <2>1
    <2>3. t[q + 1] = 0
      BY <1>2, <2>1, <2>2
    <2> QED BY <2>1, <2>3
  <1>5. \A q \in 0 .. n : q \in S
    <2> HIDE DEF S, n
    <2> QED BY <1>1, <1>3, <1>4, TurnByTurn
  <1>6. ASSUME NEW q \in 1 .. depth
        PROVE  t[q] = 0
    <2>1. q - 1 \in 0 .. n /\ (q - 1) + 1 = q
      BY <1>1
    <2>2. q - 1 \in S
      BY <1>5, <2>1
    <2> QED BY <2>1, <2>2
  <1> QED BY <1>6 DEF t

\* A pointer that counts from the start of the extended partition leads where it should.
LEMMA Pointed ==
    ASSUME NEW x \in Nat, NEW y \in Nat, x <= y, y < Word
    PROVE  (x + NextStart(y, x)) % Word = y
  <1>1. Word \in Nat \ {0}
    BY SectorsAssumption
  <1>2. \A z \in 0 .. Word - 1 : z % Word = z
    BY <1>1
  <1>3. y - x \in 0 .. Word - 1 /\ y \in 0 .. Word - 1 /\ x + (y - x) = y
    BY <1>1
  <1>4. NextStart(y, x) = y - x
    BY <1>2, <1>3 DEF NextStart
  <1> QED BY <1>2, <1>3, <1>4

\* An EBR is where the layout has it, and says what it should.
LEMMA EbrThere ==
    ASSUME Laid, NEW m \in Nat, m < 4, TableOf(dinfo, m),
           NEW i \in 1 .. Num(dinfo), Extended(dinfo, i) = 1
    PROVE  LbaOf(dinfo, i) \in DOMAIN ebr /\ EbrIs(dinfo, i, EbrAt(LbaOf(dinfo, i)))
  <1>1. i \in NUM_BOOT_RECORD_PARTS .. Num(dinfo) /\ i + 1 > m
    BY DiskTypes DEF Laid, Extended, NUM_BOOT_RECORD_PARTS
  <1> QED BY <1>1 DEF TableOf, EbrAt

\* The chain goes through the EBRs in the order of the layout.
LEMMA ChainIs ==
    ASSUME Laid, NEW m \in Nat, m < 4, TableOf(dinfo, m), Num(dinfo) > 4,
           NEW depth \in Nat \ {0}
    PROVE  \A q \in 1 .. depth :
              ChainLba(depth)[q] = IF q + 3 <= Num(dinfo) THEN LbaOf(dinfo, q + 3) ELSE 0
  <1> DEFINE n    == depth - 1
             t    == ChainLba(depth)
             p    == Num(dinfo)
             At(q) == IF q + 3 <= p THEN LbaOf(dinfo, q + 3) ELSE 0
             S    == {q \in 0 .. n : t[q + 1] = At(q + 1)}
  <1>1. n \in Nat /\ p \in Nat /\ p > 4 /\ ExtStart = LbaOf(dinfo, 4)
    BY DiskTypes, ExtStartIs DEF Laid
  <1>2. t[1] = LbaOf(dinfo, 4)
    BY <1>1, ChainFollows
  <1>3. ASSUME NEW q \in 1 .. n
        PROVE  t[q + 1] = IF t[q] = 0 \/ EbrAt(t[q]).next.type = "none"
                          THEN 0 ELSE (LbaOf(dinfo, 4) + EbrAt(t[q]).next.start) % Word
    <2>1. q + 1 \in 2 .. depth /\ (q + 1) - 1 = q
      BY <1>1
    <2> QED BY <1>1, <2>1, ChainFollows
  <1> HIDE DEF t
  <1>4. ASSUME NEW j \in 1 .. p, j >= 4
        PROVE  /\ Extended(dinfo, j) = 1
               /\ LbaOf(dinfo, j) \in Nat \ {0} /\ LbaOf(dinfo, j) < Word
               /\ LbaOf(dinfo, 4) \in Nat /\ LbaOf(dinfo, 4) <= LbaOf(dinfo, j)
    <2>1. 4 \in 1 .. p /\ Extended(dinfo, j) = 1 /\ Extended(dinfo, 4) = 1
      BY <1>1, <1>4 DEF Extended, NUM_BOOT_RECORD_PARTS
    <2>2. /\ LbaOf(dinfo, j) \in Nat \ {0} /\ LbaOf(dinfo, j) < Word
          /\ \A i \in 1 .. p : i < j =>
               dinfo.parts[i].start_lba + kb_to_lba(dinfo.parts[i].len_kb) <= LbaOf(dinfo, j)
          /\ \A i \in 1 .. p : i < j => kb_to_lba(dinfo.parts[i].len_kb) \in Nat
      BY <2>1, Behind DEF Laid
    <2>3. LbaOf(dinfo, 4) \in Nat /\ dinfo.parts[4].start_lba = LbaOf(dinfo, 4) + 1
      BY <2>1, Behind DEF Laid
    <2>4. CASE j = 4
      BY <2>1, <2>2, <2>3, <2>4
    <2>5. CASE j # 4
      <3>1. 4 < j
        BY <1>1, <1>4, <2>5
      <3>2. /\ dinfo.parts[4].start_lba + kb_to_lba(dinfo.parts[4].len_kb) <= LbaOf(dinfo, j)
            /\ kb_to_lba(dinfo.parts[4].len_kb) \in Nat
        BY <2>1, <2>2, <3>1
      <3> QED BY <2>1, <2>2, <2>3, <3>2
    <2> QED BY <2>4, <2>5
  <1>5. 0 \in S
    <2>1. At(0 + 1) = LbaOf(dinfo, 4)
      BY <1>1
    <2> QED BY <1>1, <1>2, <2>1
  <1>6. ASSUME NEW q \in 1 .. n, q - 1 \in S
        PROVE  q \in S
    <2>1. (q - 1) + 1 = q /\ q \in 0 .. n
      BY <1>1
    <2>2. t[q] = At(q)
      BY <1>6, <2>1
    <2>3. CASE q + 3 > p
      <3>1. t[q] = 0 /\ ~(q + 1 + 3 <= p)
        BY <1>1, <2>2, <2>3
      <3>2. t[q + 1] = 0
        BY <1>3, <3>1
      <3> QED BY <2>1, <3>1, <3>2
    <2>4. CASE q + 3 <= p
      <3> DEFINE j == q + 3
                 b == EbrAt(LbaOf(dinfo, j))
      <3>1. j \in 1 .. p /\ j >= 4 /\ q + 1 + 3 = j + 1
        BY <1>1, <2>4
      <3>2. t[q] = LbaOf(dinfo, j)
        BY <2>2, <2>4
      <3> HIDE DEF j
      <3>3. Extended(dinfo, j) = 1 /\ LbaOf(dinfo, j) # 0
        BY <1>4, <3>1
      <3>4. EbrIs(dinfo, j, b)
        BY <3>1, <3>3, EbrThere
      <3> HIDE DEF b
      <3>5. t[q + 1] = IF b.next.type = "none" THEN 0
                       ELSE (LbaOf(dinfo, 4) + b.next.start) % Word
        BY <1>3, <3>2, <3>3 DEF b
      <3>6. CASE j = p
        <4>1. b.next.type = "none" /\ ~(j + 1 <= p)
          BY <1>1, <3>4, <3>6 DEF EbrIs
        <4> QED BY <2>1, <3>1, <3>5, <4>1
      <3>7. CASE j # p
        <4>1. j + 1 \in 1 .. p /\ j + 1 >= 4 /\ j + 1 <= p
          BY <1>1, <3>1, <3>7
        <4>2. b.next.type = "ext" /\ b.next.start = NextStart(LbaOf(dinfo, j + 1), LbaOf(dinfo, 4))
          BY <3>4, <3>7 DEF EbrIs
        <4>3. (LbaOf(dinfo, 4) + NextStart(LbaOf(dinfo, j + 1), LbaOf(dinfo, 4))) % Word
                = LbaOf(dinfo, j + 1)
          BY <1>4, <4>1, Pointed
        <4>4. t[q + 1] = LbaOf(dinfo, j + 1)
          BY <3>5, <4>2, <4>3
        <4> QED BY <2>1, <3>1, <4>1, <4>4
      <3> QED BY <3>6, <3>7
    <2> QED BY <1>1, <2>3, <2>4
  <1>7. \A q \in 0 .. n : q \in S
    <2> HIDE DEF S, n
    <2> QED BY <1>1, <1>5, <1>6, TurnByTurn
  <1>8. ASSUME NEW q \in 1 .. depth
        PROVE  t[q] = At(q)
    <2>1. q - 1 \in 0 .. n /\ (q - 1) + 1 = q
      BY <1>1
    <2>2. q - 1 \in S
      BY <1>7, <2>1
    <2> HIDE DEF At
    <2> QED BY <2>1, <2>2
  <1> QED BY <1>8 DEF t

\* The partitions whose entries a table of these writes can be read from.
Listed(m, i) == IF Extended(dinfo, i) = 1 THEN m < 4 ELSE i > m

\* Their numbers in the device names are their own.
LEMMA Numbered ==
    ASSUME dinfo \in Disks
    PROVE  /\ \A i \in 1 .. Num(dinfo) :
                 /\ find_mbr_part(i) \in 1 .. Num(dinfo) + NUM_BOOT_RECORD_PARTS
                 /\ Extended(dinfo, i) = 1 => find_mbr_part(i) = i + 1 /\ i >= 4 /\ Num(dinfo) > 4
                 /\ Extended(dinfo, i) # 1 => find_mbr_part(i) = i /\ i <= 4
           /\ \A i, j \in 1 .. Num(dinfo) : find_mbr_part(i) = find_mbr_part(j) => i = j
  <1>1. Num(dinfo) \in Nat
    BY DiskTypes
  <1> QED BY <1>1 DEF find_mbr_part, Extended, NUM_BOOT_RECORD_PARTS

\* A partition that is listed is read as the layout has it.
LEMMA ListedRead ==
    ASSUME Laid, NEW m \in Nat, TableOf(dinfo, m), NEW i \in 1 .. Num(dinfo), Listed(m, i)
    PROVE  LET p == Partition(find_mbr_part(i))
           IN  p.type = "part" /\ p.start = dinfo.parts[i].start_lba /\ p.len = LenIn(dinfo, i)
  <1> DEFINE n == Num(dinfo)
             f == find_mbr_part(i)
             start == dinfo.parts[i].start_lba
  <1>1. n \in Nat /\ start \in 0 .. Word - 1
    BY DiskTypes DEF Laid
  <1>2. /\ f \in Nat
        /\ Extended(dinfo, i) = 1 => f = i + 1 /\ i >= 4 /\ n > 4
        /\ Extended(dinfo, i) # 1 => f = i /\ i <= 4
    BY Numbered DEF Laid
  <1>3. CASE Extended(dinfo, i) # 1
    <2>1. f = i /\ i \in 1 .. 4 /\ i > m
      BY <1>1, <1>2, <1>3 DEF Listed
    <2>2. SlotIs(dinfo, i, mbr[i]) /\ ~(i > n) /\ ~Opens(dinfo, i)
      <3>1. SlotIs(dinfo, i, mbr[i])
        BY <2>1 DEF TableOf, NUM_BOOT_RECORD_PARTS
      <3> QED BY <1>1, <1>3, <2>1, <3>1 DEF Opens, Extended, NUM_BOOT_RECORD_PARTS
    <2>3. mbr[i] = Entry("part", start, LenIn(dinfo, i))
      BY <2>2 DEF SlotIs
    <2>4. /\ mbr[i].type = "part" /\ mbr[i].start = start /\ mbr[i].len = LenIn(dinfo, i)
      BY <2>3, WriteFields
    <2>5. Partition(f) = [start |-> mbr[i].start, len |-> mbr[i].len, type |-> mbr[i].type]
      BY <2>1 DEF Partition, NUM_BOOT_RECORD_PARTS
    <2> QED BY <2>4, <2>5
  <1>4. CASE Extended(dinfo, i) = 1
    <2> DEFINE q == i - 3
               at == ChainLba(q)[q]
               l == EbrAt(at).logical
    <2>1. m < 4 /\ f = i + 1 /\ i >= 4 /\ n > 4 /\ ~(f <= NUM_BOOT_RECORD_PARTS)
          /\ f - NUM_BOOT_RECORD_PARTS = q /\ q \in Nat \ {0} /\ q \in 1 .. q /\ q + 3 = i
      BY <1>1, <1>2, <1>4 DEF Listed, NUM_BOOT_RECORD_PARTS
    <2>2. at = LbaOf(dinfo, i)
      <3>1. \A z \in 1 .. q : ChainLba(q)[z] = IF z + 3 <= Num(dinfo) THEN LbaOf(dinfo, z + 3) ELSE 0
        BY <2>1, ChainIs
      <3>2. q + 3 <= Num(dinfo)
        BY <1>1, <2>1
      <3> HIDE DEF q
      <3> QED BY <2>1, <3>1, <3>2
    <2>3. /\ LbaOf(dinfo, i) # 0 /\ start = LbaOf(dinfo, i) + 1
      BY <1>4, Behind DEF Laid
    <2>4. l = Entry("part", 1, LenIn(dinfo, i))
      BY <1>4, <2>1, <2>2, EbrThere DEF EbrIs
    <2>5. l.type = "part" /\ l.start = 1 /\ l.len = LenIn(dinfo, i)
      BY <2>4, WriteFields
    <2>6. Partition(f) = [start |-> (at + l.start) % Word, len |-> l.len, type |-> l.type]
      BY <2>1, <2>2, <2>3 DEF Partition
    <2>7. (at + l.start) % Word = start
      <3>1. at + l.start = start
        BY <2>2, <2>3, <2>5
      <3>2. \A z \in 0 .. Word - 1 : z % Word = z
        BY SectorsAssumption
      <3> HIDE DEF start, at, l
      <3> QED BY <1>1, <3>1, <3>2
    <2> HIDE DEF at, l, f, start
    <2> QED BY <2>5, <2>6, <2>7 DEF f, start
  <1> QED BY <1>3, <1>4

\* No other number is that of a partition.
LEMMA ReadListed ==
    ASSUME Laid, NEW m \in Nat, TableOf(dinfo, m),
           NEW f \in 1 .. Num(dinfo) + NUM_BOOT_RECORD_PARTS, Partition(f).type = "part"
    PROVE  \E i \in 1 .. Num(dinfo) : f = find_mbr_part(i) /\ Listed(m, i)
  <1> DEFINE n == Num(dinfo)
  <1>1. n \in Nat /\ f \in Nat \ {0} /\ f <= n + 4
    BY DiskTypes DEF Laid, NUM_BOOT_RECORD_PARTS
  <1>2. NoEntry.type # "part"
    BY WriteFields DEF NoEntry
  <1>3. CASE f <= 4
    <2>1. f \in 1 .. 4 /\ Partition(f) = [start |-> mbr[f].start, len |-> mbr[f].len, type |-> mbr[f].type]
      BY <1>1, <1>3 DEF Partition, NUM_BOOT_RECORD_PARTS
    <2>2. mbr[f].type = "part"
      BY <2>1
    <2>3. f > m /\ SlotIs(dinfo, f, mbr[f])
      <3>1. IF f > m THEN SlotIs(dinfo, f, mbr[f]) ELSE mbr[f] = NoEntry
        BY <2>1 DEF TableOf, NUM_BOOT_RECORD_PARTS
      <3> QED BY <1>2, <2>2, <3>1
    <2>4. ~(f > n) /\ ~Opens(dinfo, f)
      BY <1>2, <2>2, <2>3 DEF SlotIs
    <2>5. f \in 1 .. n /\ Extended(dinfo, f) # 1
      BY <1>1, <1>3, <2>4 DEF Opens, Extended, NUM_BOOT_RECORD_PARTS
    <2>6. find_mbr_part(f) = f /\ Listed(m, f)
      BY <2>3, <2>5, Numbered DEF Laid, Listed
    <2> QED BY <2>5, <2>6
  <1>4. CASE ~(f <= 4)
    <2> DEFINE q == f - NUM_BOOT_RECORD_PARTS
               at == ChainLba(q)[q]
    <2>1. q \in Nat \ {0} /\ q \in 1 .. q /\ q + 3 = f - 1
      BY <1>1, <1>4 DEF NUM_BOOT_RECORD_PARTS
    <2>2. at # 0
      <3> SUFFICES ASSUME at = 0
                   PROVE  FALSE
        OBVIOUS
      <3>1. Partition(f) = NoEntry
        BY <1>1, <1>4 DEF Partition, NUM_BOOT_RECORD_PARTS
      <3> QED BY <1>2, <3>1
    <2>3. n > 4 /\ m < 4
      <3> SUFFICES ASSUME ~(n > 4 /\ m < 4)
                   PROVE  FALSE
        OBVIOUS
      <3>1. ExtStart = 0
        BY ExtStartIs
      <3>2. \A z \in 1 .. q : ChainLba(q)[z] = 0
        BY <2>1, <3>1, NoChain
      <3> HIDE DEF q
      <3> QED BY <2>1, <2>2, <3>2
    <2>4. q + 3 <= n
      <3>1. \A z \in 1 .. q : ChainLba(q)[z] = IF z + 3 <= Num(dinfo) THEN LbaOf(dinfo, z + 3) ELSE 0
        BY <2>1, <2>3, ChainIs
      <3> HIDE DEF q
      <3>2. at = IF q + 3 <= Num(dinfo) THEN LbaOf(dinfo, q + 3) ELSE 0
        BY <2>1, <3>1
      <3> QED BY <2>2, <3>2
    <2> DEFINE i == f - 1
    <2>5. i \in 1 .. n /\ i + 1 = f /\ Extended(dinfo, i) = 1
      BY <1>1, <1>4, <2>1, <2>3, <2>4 DEF Extended, NUM_BOOT_RECORD_PARTS
    <2> HIDE DEF i
    <2>6. find_mbr_part(i) = f /\ Listed(m, i)
      BY <2>3, <2>5, Numbered DEF Laid, Listed
    <2> QED BY <2>5, <2>6
  <1> QED BY <1>3, <1>4

\* So the numbers in use are those of the partitions that are listed.
LEMMA NumbersAre ==
    ASSUME Laid, NEW m \in Nat, TableOf(dinfo, m)
    PROVE  /\ Numbers = {find_mbr_part(i) : i \in {j \in 1 .. Num(dinfo) : Listed(m, j)}}
           /\ \A i \in 1 .. Num(dinfo) : find_mbr_part(i) \in Numbers <=> Listed(m, i)
  <1>1. \A f \in 1 .. Num(dinfo) + NUM_BOOT_RECORD_PARTS : Partition(f).type = "part" =>
           \E i \in 1 .. Num(dinfo) : f = find_mbr_part(i) /\ Listed(m, i)
    BY ReadListed
  <1>2. \A i \in 1 .. Num(dinfo) : Listed(m, i) => Partition(find_mbr_part(i)).type = "part"
    BY ListedRead
  <1>3. \A i \in 1 .. Num(dinfo) : find_mbr_part(i) \in 1 .. Num(dinfo) + NUM_BOOT_RECORD_PARTS
    BY Numbered DEF Laid
  <1>4. \A i, j \in 1 .. Num(dinfo) : find_mbr_part(i) = find_mbr_part(j) => i = j
    BY Numbered DEF Laid
  <1> QED BY <1>1, <1>2, <1>3, <1>4 DEF Numbers

-----------------------------------------------------------------------------
(* Writing it *)

\* No two EBRs are in one sector.
LEMMA EbrsApart ==
    ASSUME Laid, NEW i \in 1 .. Num(dinfo), NEW j \in 1 .. Num(dinfo), i < j, Extended(dinfo, i) = 1
    PROVE  LbaOf(dinfo, i) # LbaOf(dinfo, j)
  <1>1. Extended(dinfo, j) = 1 /\ Num(dinfo) \in Nat
    BY DiskTypes DEF Laid, Extended, NUM_BOOT_RECORD_PARTS
  <1>2. LbaOf(dinfo, i) \in Nat /\ dinfo.parts[i].start_lba = LbaOf(dinfo, i) + 1
    BY Behind DEF Laid
  <1>3. /\ LbaOf(dinfo, j) \in Nat /\ kb_to_lba(dinfo.parts[i].len_kb) \in Nat
        /\ dinfo.parts[i].start_lba + kb_to_lba(dinfo.parts[i].len_kb) <= LbaOf(dinfo, j)
    BY <1>1, Behind DEF Laid
  <1> QED BY <1>2, <1>3

\* A write adds its part to the table.
LEMMA CommitKeeps ==
    ASSUME IInv, Laid, Commit, Len(wr_lst) <= Total(dinfo),
           \A r \in 1 .. Len(wr_lst) : IsWrite(dinfo, r, FromEnd(wr_lst, r)),
           Len(wr_lst) < Total(dinfo) => TableOf(dinfo, Len(wr_lst))
    PROVE  TableOf(dinfo, Len(wr_lst))'
  <1> DEFINE m == Len(wr_lst)
             w == Head(wr_lst)
             n == Num(dinfo)
  <1>1. /\ wr_lst' = Tail(wr_lst) /\ dinfo' = dinfo
        /\ mbr' = IF w.to # "mbr" THEN mbr
                  ELSE IF w.at = 0 THEN [i \in 1 .. NUM_BOOT_RECORD_PARTS |-> NoEntry]
                  ELSE [mbr EXCEPT ![w.at] = w.what.logical]
        /\ ebr' = IF w.to # "ebr" THEN ebr
                  ELSE [s \in {w.at} \cup DOMAIN ebr |-> IF s = w.at THEN w.what ELSE ebr[s]]
    BY DEF Commit
  <1>2. m \in Nat \ {0} /\ Len(wr_lst') = m - 1 /\ w = FromEnd(wr_lst, m)
    BY <1>1, TailFromEnd DEF IInv, Commit
  <1>3. n \in Nat /\ Total(dinfo) \in Nat /\ Total(dinfo) > 4 /\ m <= Total(dinfo)
        /\ DOMAIN mbr = 1 .. 4
    BY DiskTypes DEF Laid, Total, NUM_BOOT_RECORD_PARTS
  <1>4. IsWrite(dinfo, m, w)
    BY <1>2
  <1>5. m < Total(dinfo) => TableOf(dinfo, m)
    OBVIOUS
  <1> SUFFICES /\ \A i \in 1 .. 4 :
                    IF i > m - 1 THEN SlotIs(dinfo, i, mbr'[i]) ELSE mbr'[i] = NoEntry
               /\ \A i \in 4 .. n : Extended(dinfo, i) = 1 /\ i + 1 > m - 1 =>
                    LbaOf(dinfo, i) \in DOMAIN ebr' /\ EbrIs(dinfo, i, ebr'[LbaOf(dinfo, i)])
    BY <1>1, <1>2 DEF TableOf, NUM_BOOT_RECORD_PARTS
  <1> HIDE DEF m, w, n
  <1>6. CASE m = Total(dinfo)
    <2>1. w.to = "mbr" /\ w.at = 0
      BY <1>3, <1>4, <1>6 DEF IsWrite, NUM_BOOT_RECORD_PARTS
    <2>2. \A i \in 1 .. 4 : mbr'[i] = NoEntry /\ ~(i > m - 1)
      BY <1>1, <1>3, <1>6, <2>1 DEF NUM_BOOT_RECORD_PARTS
    <2>3. \A i \in 4 .. n : ~(Extended(dinfo, i) = 1 /\ i + 1 > m - 1)
      BY <1>3, <1>6 DEF Total, Extended, NUM_BOOT_RECORD_PARTS, n
    <2> QED BY <2>2, <2>3
  <1>7. CASE m < Total(dinfo) /\ m <= 4
    <2>1. w.to = "mbr" /\ w.at = m /\ SlotIs(dinfo, m, w.what.logical)
      BY <1>4, <1>7 DEF IsWrite, NUM_BOOT_RECORD_PARTS
    <2>2. m \in 1 .. 4 /\ m # 0
      BY <1>2, <1>7
    <2>3. mbr' = [mbr EXCEPT ![m] = w.what.logical] /\ ebr' = ebr
      BY <1>1, <2>1, <2>2
    <2>4. \A i \in 1 .. 4 : IF i > m THEN SlotIs(dinfo, i, mbr[i]) ELSE mbr[i] = NoEntry
      BY <1>5, <1>7 DEF TableOf, NUM_BOOT_RECORD_PARTS
    <2>5. ASSUME NEW i \in 1 .. 4
          PROVE  IF i > m - 1 THEN SlotIs(dinfo, i, mbr'[i]) ELSE mbr'[i] = NoEntry
      <3>1. CASE i = m
        <4>1. mbr'[i] = w.what.logical /\ i > m - 1
          BY <1>3, <2>2, <2>3, <3>1
        <4> QED BY <2>1, <3>1, <4>1
      <3>2. CASE i # m
        <4>1. mbr'[i] = mbr[i] /\ (i > m - 1 <=> i > m)
          BY <1>3, <2>2, <2>3, <3>2
        <4> QED BY <2>4, <4>1
      <3> QED BY <3>1, <3>2
    <2>6. \A i \in 4 .. n : Extended(dinfo, i) = 1 =>
             LbaOf(dinfo, i) \in DOMAIN ebr' /\ EbrIs(dinfo, i, ebr'[LbaOf(dinfo, i)])
      <3>1. \A i \in 4 .. n : i + 1 > m
        BY <2>2
      <3> QED BY <1>5, <1>7, <2>3, <3>1 DEF TableOf, NUM_BOOT_RECORD_PARTS, n
    <2> QED BY <2>5, <2>6
  <1>8. CASE m < Total(dinfo) /\ m > 4
    <2> DEFINE h   == m - 1
               lba == LbaOf(dinfo, h)
    <2>1. /\ h \in 4 .. n /\ h \in 1 .. n /\ Extended(dinfo, h) = 1
          /\ w.to = "ebr" /\ w.at = lba /\ EbrIs(dinfo, h, w.what)
      <3>1. w.to = "ebr" /\ w.at = lba /\ EbrIs(dinfo, h, w.what)
        BY <1>2, <1>3, <1>4, <1>8 DEF IsWrite, NUM_BOOT_RECORD_PARTS
      <3>2. h \in 4 .. n /\ h \in 1 .. n /\ Extended(dinfo, h) = 1
        BY <1>2, <1>3, <1>8 DEF Total, Extended, NUM_BOOT_RECORD_PARTS, n
      <3> QED BY <3>1, <3>2
    <2> HIDE DEF lba
    <2>2. mbr' = mbr /\ ebr' = [s \in {lba} \cup DOMAIN ebr |-> IF s = lba THEN w.what ELSE ebr[s]]
      BY <1>1, <2>1
    <2>3. \A i \in 1 .. 4 : IF i > m - 1 THEN SlotIs(dinfo, i, mbr'[i]) ELSE mbr'[i] = NoEntry
      <3>1. \A i \in 1 .. 4 : ~(i > m) /\ ~(i > m - 1)
        BY <1>2, <1>8
      <3> QED BY <1>5, <1>8, <2>2, <3>1 DEF TableOf, NUM_BOOT_RECORD_PARTS
    <2>4. ASSUME NEW i \in 4 .. n, Extended(dinfo, i) = 1, i + 1 > m - 1
          PROVE  LbaOf(dinfo, i) \in DOMAIN ebr' /\ EbrIs(dinfo, i, ebr'[LbaOf(dinfo, i)])
      <3>1. CASE i = h
        <4>1. LbaOf(dinfo, i) = lba /\ lba \in DOMAIN ebr' /\ ebr'[lba] = w.what
          BY <2>2, <3>1 DEF lba
        <4> QED BY <2>1, <3>1, <4>1
      <3>2. CASE i # h
        <4>1. i \in 1 .. n /\ h < i /\ i + 1 > m
          BY <1>2, <1>3, <2>4, <3>2
        <4>2. LbaOf(dinfo, i) # lba
          BY <2>1, <4>1, EbrsApart DEF n, lba
        <4>3. LbaOf(dinfo, i) \in DOMAIN ebr /\ EbrIs(dinfo, i, ebr[LbaOf(dinfo, i)])
          BY <1>5, <1>8, <2>4, <4>1 DEF TableOf, NUM_BOOT_RECORD_PARTS, n
        <4> DEFINE x == LbaOf(dinfo, i)
        <4> HIDE DEF x
        <4>4. x \in DOMAIN ebr' /\ ebr'[x] = ebr[x]
          BY <2>2, <4>2, <4>3 DEF x
        <4> QED BY <4>3, <4>4 DEF x
      <3> QED BY <3>1, <3>2
    <2> QED BY <2>3, <2>4
  <1> QED BY <1>2, <1>3, <1>6, <1>7, <1>8

\* An image goes over none of it.
LEMMA CopyKeepsTable ==
    ASSUME IInv, Laid, ImagesMeasured, CopyImage, TableOf(dinfo, 0)
    PROVE  TableOf(dinfo, 0)'
  <1> DEFINE at == ImageLba(k) .. ImageLba(k) + images[k] - 1
             n  == Num(dinfo)
             start(i) == dinfo.parts[i].start_lba
             len(i)   == kb_to_lba(dinfo.parts[i].len_kb)
  <1>1. /\ dinfo' = dinfo /\ ebr' = [s \in DOMAIN ebr \ at |-> ebr[s]]
        /\ mbr' = IF 0 \in at THEN [i \in 1 .. NUM_BOOT_RECORD_PARTS |-> NoEntry] ELSE mbr
    BY DEF CopyImage
  <1>2. n \in Nat /\ k \in 1 .. n /\ images[k] \in Nat
    <2>1. n \in Nat /\ images \in [1 .. n -> Nat] /\ k \in 1 .. n + 1
      BY DiskTypes DEF IInv
    <2>2. k <= Len(images) /\ Len(images) = n
      BY <2>1 DEF CopyImage
    <2> QED BY <2>1, <2>2
  <1>3. \A i \in 1 .. n : start(i) \in Nat \ {0}
    BY Behind DEF Laid
  <1>4. images[k] # 0 => ImageLba(k) = start(k) /\ images[k] <= len(k) /\ len(k) \in Nat
    BY <1>2, ImageAtStart DEF Laid
  <1>5. images[k] = 0 => at = {}
    <2>1. ImageLba(k) \in Int
      <3>1. start(k) * SectSize \in Int
        BY <1>2, <1>3, SectorsAssumption
      <3> HIDE DEF start
      <3>2. (start(k) * SectSize) % Word \in Nat
        BY <3>1, Wrapped, SectorsAssumption
      <3> QED BY <3>2, Divided, SectorsAssumption DEF ImageLba, start
    <2> QED BY <2>1
  <1>6. \A s \in at : s \in Int /\ start(k) <= s /\ s < start(k) + len(k) /\ len(k) \in Nat
    <2> HIDE DEF start, len
    <2> QED BY <1>2, <1>3, <1>4, <1>5
  <1> HIDE DEF at
  <1>7. 0 \notin at
    BY <1>2, <1>3, <1>6
  <1>8. ASSUME NEW i \in 1 .. n, Extended(dinfo, i) = 1
        PROVE  LbaOf(dinfo, i) \notin at
    <2>1. /\ LbaOf(dinfo, i) \in Nat /\ start(i) = LbaOf(dinfo, i) + 1
          /\ \A j \in 1 .. n : j < i => start(j) + len(j) <= LbaOf(dinfo, i)
      BY <1>8, Behind DEF Laid
    <2>2. CASE k < i
      <3>1. start(k) + len(k) <= LbaOf(dinfo, i)
        BY <1>2, <2>1, <2>2
      <3> HIDE DEF start, len
      <3> QED BY <1>2, <1>3, <1>6, <2>1, <3>1
    <2>3. CASE ~(k < i)
      <3>1. start(i) <= start(k)
        <4>1. CASE i = k
          BY <1>2, <1>3, <4>1
        <4>2. CASE i # k
          <5>1. i < k
            BY <1>2, <2>3, <4>2
          <5>2. start(i) + len(i) <= start(k)
            BY <1>2, <5>1, Apart DEF Laid
          <5>3. len(i) \in Nat
            BY <1>2, <5>1, Behind DEF Laid
          <5> HIDE DEF start, len
          <5> QED BY <1>2, <1>3, <5>2, <5>3
        <4> QED BY <4>1, <4>2
      <3> HIDE DEF start, len
      <3> QED BY <1>2, <1>3, <1>6, <2>1, <3>1
    <2> QED BY <2>2, <2>3
  <1>9. mbr' = mbr
    BY <1>1, <1>7
  <1>10. \A s \in DOMAIN ebr : s \notin at => s \in DOMAIN ebr' /\ ebr'[s] = ebr[s]
    BY <1>1
  <1>11. \A i \in 4 .. n : Extended(dinfo, i) = 1 =>
            LbaOf(dinfo, i) \in DOMAIN ebr' /\ EbrIs(dinfo, i, ebr'[LbaOf(dinfo, i)])
    <2>1. \A i \in 4 .. n : i \in 1 .. n /\ i + 1 > 0
      BY <1>2
    <2>2. \A i \in 4 .. n : Extended(dinfo, i) = 1 =>
            LbaOf(dinfo, i) \in DOMAIN ebr /\ EbrIs(dinfo, i, ebr[LbaOf(dinfo, i)])
      BY <2>1 DEF TableOf, NUM_BOOT_RECORD_PARTS
    <2> QED BY <1>8, <1>10, <2>1, <2>2
  <1>12. \A i \in 1 .. 4 : IF i > 0 THEN SlotIs(dinfo, i, mbr'[i]) ELSE mbr'[i] = NoEntry
    BY <1>9 DEF TableOf, NUM_BOOT_RECORD_PARTS
  <1> QED BY <1>1, <1>11, <1>12 DEF TableOf, NUM_BOOT_RECORD_PARTS

LEMMA TableInitial ==
    Init => TableInv
  <1> SUFFICES ASSUME Init
               PROVE  TableInv
    OBVIOUS
  <1>1. PICK l \in Layouts : dinfo = [Loaded(l) EXCEPT !.num_lba = IF @ = 0 THEN l.file_lba ELSE @]
    BY DEF Init
  <1>2. dinfo.skip_lba # 0
    <2>1. Loaded(l) = [skip_lba |-> l.skip_lba, num_lba |-> l.num_lba, parts |-> Loaded(l).parts]
      BY DEF Loaded
    <2>2. dinfo.skip_lba = l.skip_lba
      BY <1>1, <2>1
    <2>3. l.skip_lba \in 1 .. Word - 1
      BY LayoutsAssumption
    <2> QED BY <2>2, <2>3, SectorsAssumption
  <1> QED BY <1>2 DEF TableInv, Init, Written

\* The second pass begins where the first one did, and the MBR is not in its way.
LEMMA StartKept ==
    ASSUME NEW d \in Disks, config_mbr(d).ok, d.skip_lba # 0
    PROVE  LET e == config_mbr(d).d
           IN  e.skip_lba # 0 /\ (Num(e) > 0 => e.parts[1].start_lba # 0)
  <1> DEFINE n == LastTurn(d)
             e == config_mbr(d).d
  <1>1. /\ n \in Nat /\ Num(d) \in Nat /\ Num(d) <= n /\ n \in 0 .. n
        /\ Turns(d)[n].ok /\ e = Turns(d)[n].d /\ Num(e) = Num(d)
    <2>1. Num(d) \in Nat
      BY DiskTypes
    <2>2. n \in Nat /\ Num(d) <= n
      BY <2>1, TurnAfterTurn
    <2>3. Turns(d)[n].ok /\ e = Turns(d)[n].d /\ Num(e) = Num(d)
      BY ConfigMade
    <2> QED BY <2>1, <2>2, <2>3
  <1>2. e.skip_lba = d.skip_lba
    BY <1>1, TurnsKeep
  <1>3. ASSUME Num(d) > 0
        PROVE  e.parts[1].start_lba = d.skip_lba
    <2>1. 1 \in 1 .. Num(d) /\ 1 <= n /\ 1 - 1 = 0
      BY <1>1, <1>3
    <2>2. e.parts[1].start_lba = StartOf(Turns(d)[0], 1)
      BY <1>1, <2>1, TurnsPlace
    <2>3. /\ Turns(d)[0].lba = d.skip_lba /\ Extended(Turns(d)[0].d, 1) = 0
          /\ d.skip_lba \in 0 .. Word - 1
      <3>1. Turns(d)[0] = [ok |-> TRUE, lba |-> d.skip_lba, ext_lba |-> 0, lst |-> << >>, d |-> d]
        BY <1>1, TurnAfterTurn
      <3>2. Turns(d)[0].lba = d.skip_lba
        BY <3>1
      <3>3. Extended(Turns(d)[0].d, 1) = 0
        BY DEF Extended, NUM_BOOT_RECORD_PARTS
      <3> QED BY <3>2, <3>3, DiskTypes
    <2>4. \A z \in 0 .. Word - 1 : z + 0 = z /\ z % Word = z
      BY SectorsAssumption
    <2> QED BY <2>2, <2>3, <2>4 DEF StartOf, DataLba
  <1> QED BY <1>1, <1>2, <1>3

\* Where the table is written, its disk is that of the second pass.
LEMMA WrittenLaid ==
    ASSUME IInv, TableInv, Written, InRange
    PROVE  Laid
  <1>1. mbr \in [1 .. NUM_BOOT_RECORD_PARTS -> Entries]
    BY DEF IInv
  <1>2. DOMAIN mbr = 1 .. NUM_BOOT_RECORD_PARTS
    BY <1>1
  <1> QED BY <1>2 DEF Laid, IInv, TableInv

LEMMA TableInductive ==
    IInv /\ CopyInv /\ TableInv /\ [Next]_vars => TableInv'
  <1> SUFFICES ASSUME IInv, CopyInv, TableInv, [Next]_vars
               PROVE  TableInv'
    OBVIOUS
  <1>1. dinfo \in Disks /\ wr_lst \in Seq(Writes)
    BY DEF IInv
  <1>2. CASE Process
    <2>1. wr_lst' = << >> /\ pc' \in {"apply", "failed"} /\ ~Written'
      BY <1>2 DEF Process, TableInv, Written
    <2>2. pc' = "apply" => dinfo'.skip_lba # 0
      <3> SUFFICES ASSUME pc' = "apply"
                   PROVE  dinfo'.skip_lba # 0
        OBVIOUS
      <3>1. config_mbr(dinfo).ok /\ dinfo' = config_mbr(dinfo).d /\ dinfo.skip_lba # 0
        BY <1>2 DEF Process, TableInv
      <3> QED BY <1>1, <3>1, StartKept
    <2> QED BY <2>1, <2>2 DEF TableInv
  <1>3. CASE Apply
    <2>1. CASE pc' # "commit"
      <3>1. wr_lst' = << >> /\ pc' = "failed" /\ ~Written'
        BY <1>3, <2>1 DEF Apply, Written
      <3> QED BY <3>1 DEF TableInv
    <2>2. CASE pc' = "commit"
      <3>1. /\ config_mbr(dinfo).ok /\ validate(dinfo) /\ checked' = checked /\ pc = "apply"
            /\ dinfo' = config_mbr(dinfo).d /\ wr_lst' = config_mbr(dinfo).lst
            /\ dinfo.skip_lba # 0
        BY <1>3, <2>2 DEF Apply, TableInv
      <3>2. PICK c \in Disks : /\ config_mbr(c).ok /\ dinfo = config_mbr(c).d
                               /\ checked = config_mbr(c).lst
        BY <3>1 DEF IInv
      <3>3. /\ Len(checked') = Total(dinfo') /\ Len(wr_lst') = Total(dinfo')
            /\ \A r \in 1 .. Total(dinfo') : IsWrite(dinfo', r, FromEnd(wr_lst', r))
        BY <3>1, <3>2, LayoutWrites
      <3>4. validate(dinfo') /\ Chained(dinfo')
        BY <1>1, <3>1, ConfigChains
      <3>5. Num(dinfo') > 0 => dinfo'.parts[1].start_lba # 0
        BY <1>1, <3>1, StartKept
      <3>6. Total(dinfo') \in Nat
        <4>1. Num(dinfo') \in Nat
          BY <1>1, <3>1, ConfigMade, DiskTypes
        <4> QED BY <4>1 DEF Total, NUM_BOOT_RECORD_PARTS
      <3> QED BY <2>2, <3>3, <3>4, <3>5, <3>6 DEF TableInv
    <2> QED BY <2>1, <2>2
  <1>4. CASE Commit
    <2>1. /\ pc = "commit" /\ wr_lst # << >> /\ wr_lst' = Tail(wr_lst)
          /\ UNCHANGED <<dinfo, images, checked, pc>>
      BY <1>4 DEF Commit
    <2>2. Written
      BY <2>1 DEF Written
    <2>3. /\ Len(wr_lst) \in Nat \ {0} /\ Len(wr_lst') = Len(wr_lst) - 1
          /\ \A r \in 1 .. Len(wr_lst) - 1 : FromEnd(wr_lst', r) = FromEnd(wr_lst, r)
      BY <1>1, <2>1, TailFromEnd
    <2>4. /\ Len(wr_lst) <= Total(dinfo) /\ Total(dinfo) \in Nat
          /\ \A r \in 1 .. Len(wr_lst) : IsWrite(dinfo, r, FromEnd(wr_lst, r))
      <3>1. Total(dinfo) \in Nat
        BY <1>1, DiskTypes DEF Total, NUM_BOOT_RECORD_PARTS
      <3> QED BY <2>2, <3>1 DEF TableInv
    <2>5. InRange' => TableOf(dinfo, Len(wr_lst))'
      <3> SUFFICES ASSUME InRange'
                   PROVE  TableOf(dinfo, Len(wr_lst))'
        OBVIOUS
      <3>1. InRange
        BY <2>1 DEF InRange, EndOf
      <3>2. Laid /\ (Len(wr_lst) < Total(dinfo) => TableOf(dinfo, Len(wr_lst)))
        BY <2>2, <3>1, WrittenLaid DEF TableInv
      <3> QED BY <1>4, <2>4, <3>2, CommitKeeps
    <2>6. \A r \in 1 .. Len(wr_lst') : IsWrite(dinfo, r, FromEnd(wr_lst', r))
      BY <2>3, <2>4
    <2>7. /\ validate(dinfo) /\ Chained(dinfo) /\ Len(checked) = Total(dinfo)
          /\ Num(dinfo) > 0 => dinfo.parts[1].start_lba # 0
      BY <2>2 DEF TableInv
    <2>8. Len(wr_lst') <= Total(dinfo)
      BY <2>3, <2>4
    <2> QED BY <2>1, <2>5, <2>6, <2>7, <2>8 DEF TableInv
  <1>5. CASE Committed
    <2>1. /\ Written /\ Written' /\ pc' = "copy" /\ wr_lst = << >>
          /\ UNCHANGED <<dinfo, images, mbr, ebr, wr_lst, checked>>
      BY <1>5 DEF Committed, Written
    <2> QED BY <2>1 DEF TableInv, InRange, EndOf, TableOf
  <1>6. CASE CopyImage
    <2>1. /\ pc = "copy" /\ UNCHANGED <<dinfo, images, wr_lst, checked, pc>>
      BY <1>6 DEF CopyImage
    <2>2. /\ Written /\ wr_lst = << >> /\ Len(wr_lst) = 0 /\ Total(dinfo) > 0
      <3>1. Total(dinfo) > 0
        BY <1>1, DiskTypes DEF Total, NUM_BOOT_RECORD_PARTS
      <3> QED BY <2>1, <3>1 DEF Written, TableInv
    <2>3. InRange' => TableOf(dinfo, Len(wr_lst))'
      <3> SUFFICES ASSUME InRange'
                   PROVE  TableOf(dinfo, Len(wr_lst))'
        OBVIOUS
      <3>1. InRange
        BY <2>1 DEF InRange, EndOf
      <3>2. Laid /\ TableOf(dinfo, 0) /\ ImagesMeasured
        BY <2>1, <2>2, <3>1, WrittenLaid DEF TableInv, CopyInv
      <3>3. TableOf(dinfo, 0)'
        BY <1>6, <3>2, CopyKeepsTable
      <3> QED BY <2>1, <2>2, <3>3 DEF TableOf
    <2> QED BY <2>1, <2>2, <2>3 DEF TableInv
  <1>7. CASE Finish
    <2>1. /\ Written /\ Written' /\ pc' = "done" /\ pc = "copy"
          /\ UNCHANGED <<dinfo, images, mbr, ebr, wr_lst, checked>>
      BY <1>7 DEF Finish, Written
    <2> QED BY <2>1 DEF TableInv, InRange, EndOf, TableOf
  <1>8. CASE Fail
    <2>1. /\ pc # "failed" /\ pc' = "failed" /\ (Written' => Written)
          /\ UNCHANGED <<dinfo, images, mbr, ebr, wr_lst, checked>>
      <3>1. pc \in {"process", "apply"} => wr_lst = << >>
        BY DEF TableInv
      <3> QED BY <1>8, <3>1 DEF Fail, Written
    <2> QED BY <2>1 DEF TableInv, InRange, EndOf, TableOf
  <1>9. CASE UNCHANGED vars
    BY <1>9 DEF vars, TableInv, Written, InRange, EndOf, TableOf
  <1> QED BY <1>2, <1>3, <1>4, <1>5, <1>6, <1>7, <1>8, <1>9 DEF Next

LEMMA TableAlways == Spec => [](IInv /\ TableInv)
  <1>1. Spec => []CopyInv
    BY CopyInitial, CopyInductive, Invariant, PTL DEF Spec
  <1> QED BY <1>1, TableInitial, TableInductive, Invariant, PTL DEF Spec

-----------------------------------------------------------------------------
(* The table as a kernel reads it *)

\* All partitions are listed once the last slot but the first three is written.
LEMMA Whole ==
    ASSUME Laid, TableOf(dinfo, 0)
    PROVE  /\ Numbers = {find_mbr_part(i) : i \in 1 .. Num(dinfo)}
           /\ \A i \in 1 .. Num(dinfo) :
                /\ Partition(find_mbr_part(i)).start = dinfo.parts[i].start_lba
                /\ Partition(find_mbr_part(i)).len = LenIn(dinfo, i)
  <1>1. \A i \in 1 .. Num(dinfo) : Listed(0, i)
    BY DEF Listed
  <1>2. {j \in 1 .. Num(dinfo) : Listed(0, j)} = 1 .. Num(dinfo)
    BY <1>1
  <1> QED BY <1>1, <1>2, NumbersAre, ListedRead

\* The image file that editdisklbl leaves has exactly the partitions of the layout,
\* each under the number that find_mbr_part gives it and at the sector its image goes
\* to, if none of them ends near 2^32 bytes.
THEOREM ReadsBack == Spec => [](InRange => ReadBackIsLayout)
  <1>1. IInv /\ TableInv => (InRange => ReadBackIsLayout)
    <2> SUFFICES ASSUME IInv, TableInv, InRange, pc \in {"copy", "done"}
                 PROVE  ReadBackIsLayout
      BY DEF ReadBackIsLayout
    <2>1. Written /\ Len(wr_lst) = 0 /\ Total(dinfo) > 0
      <3>1. Total(dinfo) > 0
        BY DiskTypes DEF IInv, Total, NUM_BOOT_RECORD_PARTS
      <3> QED BY <3>1 DEF Written, TableInv
    <2>2. Laid /\ TableOf(dinfo, 0)
      BY <2>1, WrittenLaid DEF TableInv
    <2>3. /\ Numbers = {find_mbr_part(i) : i \in 1 .. Num(dinfo)}
          /\ \A i \in 1 .. Num(dinfo) :
               /\ Partition(find_mbr_part(i)).start = dinfo.parts[i].start_lba
               /\ Partition(find_mbr_part(i)).len = LenIn(dinfo, i)
      BY <2>2, Whole
    <2>4. \A i \in 1 .. Num(dinfo) : dinfo.parts[i].len_kb # REST =>
             LenIn(dinfo, i) = kb_to_lba(dinfo.parts[i].len_kb)
      BY DEF LenIn, PartLen
    <2> QED BY <2>3, <2>4 DEF ReadBackIsLayout
  <1> QED BY <1>1, TableAlways, PTL

\* Nor do two of those partitions share a sector, or one of them and an EBR or the MBR.
THEOREM NothingIsShared == Spec => [](InRange => NothingShared)
  <1>1. IInv /\ TableInv => (InRange => NothingShared)
    <2> SUFFICES ASSUME IInv, TableInv, InRange, pc \in {"copy", "done"}
                 PROVE  NothingShared
      BY DEF NothingShared
    <2> DEFINE n        == Num(dinfo)
               start(i) == dinfo.parts[i].start_lba
               len(i)   == kb_to_lba(dinfo.parts[i].len_kb)
               part(f)  == Sectors(Partition(f).start, Partition(f).len)
               in(i)    == Sectors(start(i), LenIn(dinfo, i))
               chain    == {ChainLba(n + 1)[d] : d \in 1 .. n + 1}
    <2>1. Written /\ Len(wr_lst) = 0 /\ Total(dinfo) > 0
      <3>1. Total(dinfo) > 0
        BY DiskTypes DEF IInv, Total, NUM_BOOT_RECORD_PARTS
      <3> QED BY <3>1 DEF Written, TableInv
    <2>2. Laid /\ TableOf(dinfo, 0)
      BY <2>1, WrittenLaid DEF TableInv
    <2>3. n \in Nat /\ n + 1 \in Nat \ {0}
      BY <2>2, DiskTypes DEF Laid
    <2>4. Numbers = {find_mbr_part(i) : i \in 1 .. n} /\ \A i \in 1 .. n : part(find_mbr_part(i)) = in(i)
      BY <2>2, Whole
    <2>5. ASSUME NEW i \in 1 .. n
          PROVE  /\ start(i) \in Nat \ {0}
                 /\ \A s \in in(i) : s \in Int /\ start(i) <= s
                 /\ i < n => len(i) \in Nat /\ \A s \in in(i) : s < start(i) + len(i)
      <3>1. start(i) \in Nat \ {0}
        BY <2>2, Behind DEF Laid
      <3>2. LenIn(dinfo, i) \in Int
        <4>1. dinfo.parts[i].len_kb \in Nat /\ dinfo.num_lba \in Nat
          BY <2>2, DiskTypes, SectorsAssumption DEF Laid
        <4>2. kb_to_lba(dinfo.parts[i].len_kb) \in Int
          BY <4>1, LengthTypes
        <4>3. (dinfo.num_lba - start(i)) % Word \in Int
          <5>1. dinfo.num_lba - start(i) \in Int
            BY <3>1, <4>1
          <5> HIDE DEF start
          <5> QED BY <5>1, SectorsAssumption
        <4> QED BY <4>2, <4>3 DEF LenIn, PartLen
      <3>3. i < n => len(i) \in Nat /\ LenIn(dinfo, i) = len(i)
        <4> SUFFICES ASSUME i < n
                     PROVE  len(i) \in Nat /\ LenIn(dinfo, i) = len(i)
          OBVIOUS
        <4>1. n \in 1 .. n
          BY <2>3
        <4>2. len(i) \in Nat /\ dinfo.parts[i].len_kb # REST
          BY <2>2, <4>1, Behind DEF Laid
        <4> QED BY <4>2 DEF LenIn, PartLen
      <3> HIDE DEF start, len
      <3> QED BY <3>1, <3>2, <3>3 DEF Sectors
    <2>6. \A i, j \in 1 .. n : i < j => start(i) + len(i) <= start(j)
      BY <2>2, Apart DEF Laid
    <2>7. ASSUME NEW lba \in {0} \cup chain, NEW i \in 1 .. n
          PROVE  lba \notin in(i)
      <3>1. CASE lba = 0
        <4> HIDE DEF in, start
        <4> QED BY <2>5, <3>1
      <3>2. CASE lba # 0
        <4>1. PICK q \in 1 .. n + 1 : lba = ChainLba(n + 1)[q]
          BY <3>2
        <4>2. n > 4 /\ lba = LbaOf(dinfo, q + 3) /\ q + 3 <= n
          <5>1. n > 4
            <6> SUFFICES ASSUME ~(n > 4)
                         PROVE  FALSE
              OBVIOUS
            <6>1. ExtStart = 0
              BY <2>2, ExtStartIs
            <6>2. ChainLba(n + 1)[q] = 0
              BY <2>3, <6>1, NoChain
            <6> QED BY <3>2, <4>1, <6>2
          <5>2. ChainLba(n + 1)[q] = IF q + 3 <= Num(dinfo) THEN LbaOf(dinfo, q + 3) ELSE 0
            BY <2>2, <2>3, <5>1, ChainIs
          <5> QED BY <3>2, <4>1, <5>1, <5>2
        <4> DEFINE j == q + 3
        <4>3. j \in 1 .. n /\ Extended(dinfo, j) = 1 /\ lba = LbaOf(dinfo, j)
          BY <2>3, <4>2 DEF Extended, NUM_BOOT_RECORD_PARTS
        <4> HIDE DEF j
        <4>4. /\ lba \in Nat /\ start(j) = lba + 1
              /\ \A h \in 1 .. n : h < j => start(h) + len(h) <= lba
          BY <2>2, <4>3, Behind DEF Laid
        <4>5. CASE i < j
          <5>1. i < n /\ start(i) + len(i) <= lba
            BY <2>3, <4>3, <4>4, <4>5
          <5> HIDE DEF in, start, len
          <5> QED BY <2>5, <4>4, <5>1
        <4>6. CASE ~(i < j)
          <5>1. start(j) <= start(i)
            <6>1. CASE i = j
              BY <2>5, <6>1
            <6>2. CASE i # j
              <7>1. j < i /\ j < n
                BY <2>3, <4>3, <4>6, <6>2
              <7>2. start(j) + len(j) <= start(i) /\ len(j) \in Nat
                BY <2>5, <2>6, <4>3, <7>1
              <7> HIDE DEF in, start, len
              <7> QED BY <2>5, <4>3, <7>2
            <6> QED BY <6>1, <6>2
          <5> HIDE DEF in, start, len
          <5> QED BY <2>5, <4>3, <4>4, <5>1
        <4> QED BY <4>5, <4>6
      <3> QED BY <3>1, <3>2
    <2>8. ASSUME NEW i \in 1 .. n, NEW j \in 1 .. n, i < j
          PROVE  in(i) \cap in(j) = {}
      <3>1. i < n /\ start(i) + len(i) <= start(j)
        BY <2>3, <2>6, <2>8
      <3> HIDE DEF in, start, len
      <3> QED BY <2>5, <3>1
    <2>9. ASSUME NEW i \in 1 .. n, NEW j \in 1 .. n, i # j
          PROVE  in(i) \cap in(j) = {}
      <3>1. i < j \/ j < i
        BY <2>9
      <3> HIDE DEF in
      <3> QED BY <2>8, <3>1
    <2> HIDE DEF in, chain
    <2>10. \A f, g \in Numbers : f # g => part(f) \cap part(g) = {}
      <3> HIDE DEF part
      <3> QED BY <2>4, <2>9
    <2>11. \A f \in Numbers : part(f) \cap ({0} \cup chain) = {}
      <3> HIDE DEF part
      <3> QED BY <2>4, <2>7
    <2> QED BY <2>10, <2>11 DEF NothingShared, chain
  <1> QED BY <1>1, TableAlways, PTL

\* A tool that is killed between two writes has listed only partitions of the new
\* layout, and has made the whole chain if it has made the way into it.
THEOREM KilledLeavesPart == Spec => [](InRange => KilledIsPartOfNew)
  <1>1. IInv /\ TableInv => (InRange => KilledIsPartOfNew)
    <2> DEFINE m == Len(wr_lst)
    <2> SUFFICES ASSUME IInv, TableInv, InRange, pc \in {"commit", "failed"},
                        m \notin {0, Len(checked)}
                 PROVE  /\ Numbers \subseteq {find_mbr_part(i) : i \in 1 .. Num(dinfo)}
                        /\ \A i \in 1 .. Num(dinfo) : find_mbr_part(i) \in Numbers =>
                             Partition(find_mbr_part(i)).start = dinfo.parts[i].start_lba
                        /\ ExtStart # 0 => \A i \in NUM_BOOT_RECORD_PARTS .. Num(dinfo) :
                                              find_mbr_part(i) \in Numbers
      BY DEF KilledIsPartOfNew
    <2>1. wr_lst \in Seq(Writes) /\ dinfo \in Disks
      BY DEF IInv
    <2>2. m \in Nat /\ (wr_lst = << >> => m = 0) /\ Num(dinfo) \in Nat /\ Total(dinfo) \in Nat
      BY <2>1, DiskTypes DEF Total, NUM_BOOT_RECORD_PARTS
    <2>3. Written
      BY <2>2 DEF Written
    <2>4. Laid /\ m < Total(dinfo)
      BY <2>2, <2>3, WrittenLaid DEF TableInv
    <2>5. TableOf(dinfo, m)
      BY <2>3, <2>4 DEF TableInv
    <2> HIDE DEF m
    <2>6. /\ Numbers = {find_mbr_part(i) : i \in {j \in 1 .. Num(dinfo) : Listed(m, j)}}
          /\ \A i \in 1 .. Num(dinfo) : find_mbr_part(i) \in Numbers <=> Listed(m, i)
      BY <2>2, <2>4, <2>5, NumbersAre
    <2>7. \A i \in 1 .. Num(dinfo) : Listed(m, i) =>
             Partition(find_mbr_part(i)).start = dinfo.parts[i].start_lba
      BY <2>2, <2>4, <2>5, ListedRead
    <2>8. ASSUME ExtStart # 0, NEW i \in NUM_BOOT_RECORD_PARTS .. Num(dinfo)
          PROVE  i \in 1 .. Num(dinfo) /\ Listed(m, i)
      <3>1. Num(dinfo) > 4 /\ m < 4
        BY <2>2, <2>4, <2>5, <2>8, ExtStartIs
      <3>2. i \in 1 .. Num(dinfo) /\ Extended(dinfo, i) = 1
        BY <2>2, <3>1 DEF Extended, NUM_BOOT_RECORD_PARTS
      <3> QED BY <3>1, <3>2 DEF Listed
    <2> QED BY <2>6, <2>7, <2>8
  <1> QED BY <1>1, TableAlways, PTL
=============================================================================
