---------------------------- MODULE GptDiskProofs ----------------------------
(***************************************************************************)
(* Proofs about GptDisk, for every set of tables, every number of runs and *)
(* every combination of the fault parameters the theorem names.            *)
(***************************************************************************)
EXTENDS GptDisk, TLAPS

\* What write_gpt_to_disk and write_mbr put on the disk is well formed, and
\* the order names the five structures.
LEMMA Order ==
    /\ LastStep = 5
    /\ WriteOrder[1] = "hdr1" /\ WriteOrder[2] = "ent1"
    /\ WriteOrder[3] = "hdr2" /\ WriteOrder[4] = "ent2"
    /\ WriteOrder[5] = "mbr"
    /\ \A i \in 1 .. 5 : WriteOrder[i] \in Structures
BY DEF WriteOrder, LastStep, Structures

\* gpt_read returns a table or fails.
LEMMA ReadType ==
    ASSUME NEW d \in [Structures -> Contents]
    PROVE  gpt_read(d) \in Tables \cup {NoTable}
BY DEF gpt_read, ReadPrimary, ReadBackup, ReadCopy

\* What is written for a structure is a legal content of it.
LEMMA ImageType ==
    ASSUME NEW s, NEW t \in Tables
    PROVE  Image(s, t) \in Contents
BY DEF Image, Contents

-----------------------------------------------------------------------------
(* Type correctness *)

\* After a write the run is at the next structure or at the end of gpt_write.
LEMMA AdvanceType ==
    ASSUME TypeOK, pc = "writing", Advance
    PROVE  /\ pc' \in {"writing", "written"}
           /\ step' \in 1 .. LastStep
           /\ pc' = "writing" => step' < LastStep
BY Order DEF TypeOK, Advance

\* Every step of a run, a kernel write-back or a power loss keeps the types.
LEMMA TypeStep == TypeOK /\ [Next]_vars => TypeOK'
<1> SUFFICES ASSUME TypeOK, [Next]_vars PROVE TypeOK'
  OBVIOUS
<1> USE BoundsAssumption
<1>0. "hdr2" \in Structures /\ Garbage \in Contents
  BY DEF Structures, Contents
<1>1. CASE UNCHANGED vars
  BY <1>1 DEF TypeOK, vars
<1>2. ASSUME NEW t \in Tables, BeginWrite(t) PROVE TypeOK'
  BY <1>2, Order DEF TypeOK, BeginWrite
<1>3. CASE WriteStructure
  <2>1. cache' \in [Structures -> Contents]
    BY <1>3, ImageType DEF TypeOK, WriteStructure
  <2> QED
    BY <1>3, <2>1, AdvanceType DEF TypeOK, WriteStructure, history
<1>4. CASE WriteStructureShort
  <2>1. cache' \in [Structures -> Contents]
    BY <1>4, <1>0 DEF TypeOK, WriteStructureShort
  <2> QED
    BY <1>4, <2>1, AdvanceType DEF TypeOK, WriteStructureShort, history
<1>5. CASE WriteStructureInterrupted
  <2>1. cache' \in [Structures -> Contents]
    BY <1>5, <1>0, ImageType DEF TypeOK, WriteStructureInterrupted
  <2> QED
    BY <1>5, <2>1, AdvanceType DEF TypeOK, WriteStructureInterrupted, history
<1>6. CASE Die
  BY <1>6 DEF TypeOK, Die, history
<1>7. ASSUME NEW s \in Structures, WriteBack(s) PROVE TypeOK'
  <2>1. disk' \in [Structures -> Contents]
    BY <1>7 DEF TypeOK, WriteBack
  <2> QED
    BY <1>7, <2>1 DEF TypeOK, WriteBack, history
<1>8. CASE gpt_sync_ptable
  BY <1>8, ReadType DEF TypeOK, gpt_sync_ptable, SyncedDisk
<1>9. CASE Exit
  BY <1>9 DEF TypeOK, Exit, history
<1>10. CASE LosePower
  <2>1. disk' \in [Structures -> Contents]
    BY <1>10, <1>0 DEF TypeOK, LosePower
  <2>2. kernel' \in Tables \cup {NoTable}
    BY <1>10, <2>1, ReadType DEF LosePower
  <2> QED
    BY <1>10, <2>1, <2>2 DEF TypeOK, LosePower, history
<1> QED
  BY <1>1, <1>2, <1>3, <1>4, <1>5, <1>6, <1>7, <1>8, <1>9, <1>10 DEF Next

\* The type invariant of the disk, the page cache and the run.
LEMMA TypeInit == Init => TypeOK
<1> SUFFICES ASSUME Init PROVE TypeOK
  OBVIOUS
<1>1. cache \in [Structures -> Contents]
  BY DEF Init, Contents
<1> QED
  BY <1>1, ReadType, Order, BoundsAssumption DEF Init, TypeOK

\* Type correctness of gpt_write, gpt_sync_ptable and the faults around them.
THEOREM TypeCorrect == Spec => []TypeOK
BY TypeInit, TypeStep, PTL DEF Spec

-----------------------------------------------------------------------------
(* Runs that are killed, with the power on and whole writes *)

\* The structures a gpt_write has written after k writes.
Written(k) == {WriteOrder[i] : i \in 1 .. k}

\* What makes an interrupted gpt_write predictable: the page cache is what
\* the run found, except for the structures it has already written.
IInv ==
    /\ TypeOK
    /\ pc \in {"written", "synced"} => step = LastStep
    /\ \A s \in Structures :
          cache[s] = IF s \in Written(step) THEN Image(s, target) ELSE start[s]

\* Which structures are written after each number of writes.
LEMMA WrittenSets ==
    /\ Written(0) = {}
    /\ Written(1) = {"hdr1"}
    /\ Written(2) = {"hdr1", "ent1"}
    /\ Written(3) = {"hdr1", "ent1", "hdr2"}
    /\ Written(4) = {"hdr1", "ent1", "hdr2", "ent2"}
    /\ Written(5) = Structures
<1>1. 1 .. 0 = {} /\ 1 .. 1 = {1} /\ 1 .. 2 = {1, 2} /\ 1 .. 3 = {1, 2, 3}
      /\ 1 .. 4 = {1, 2, 3, 4} /\ 1 .. 5 = {1, 2, 3, 4, 5}
  OBVIOUS
<1> QED
  BY <1>1, Order DEF Written, Structures

\* One more write adds the structure it writes.
LEMMA WrittenNext ==
    ASSUME NEW k \in 0 .. 4
    PROVE  Written(k + 1) = Written(k) \cup {WriteOrder[k + 1]}
<1>1. 1 .. (k + 1) = (1 .. k) \cup {k + 1}
  OBVIOUS
<1> QED
  BY <1>1 DEF Written

\* A run of the installer starts with nothing written.
LEMMA IInvInit == Init => IInv
<1> SUFFICES ASSUME Init PROVE IInv
  OBVIOUS
<1>1. cache = start /\ step = 0 /\ pc = "idle"
  BY DEF Init
<1> QED
  BY <1>1, TypeInit, WrittenSets DEF IInv

\* Each action keeps the record of what this run has written.
LEMMA IInvStep ==
    ASSUME ~PowerLoss, ~ShortWrites
    PROVE  IInv /\ [Next]_vars => IInv'
<1> SUFFICES ASSUME IInv, [Next]_vars PROVE IInv'
  OBVIOUS
<1>0. TypeOK /\ TypeOK'
  BY TypeStep DEF IInv
<1>1. CASE UNCHANGED vars
  BY <1>0, <1>1 DEF IInv, vars
<1>2. ASSUME NEW t \in Tables, BeginWrite(t) PROVE IInv'
  BY <1>0, <1>2, WrittenSets DEF IInv, BeginWrite
<1>3. CASE WriteStructure
  <2>1. step \in 0 .. 4
    BY <1>3, Order DEF IInv, TypeOK, WriteStructure
  <2>2. Written(step') = Written(step) \cup {WriteOrder[step + 1]}
    BY <1>3, <2>1, WrittenNext DEF WriteStructure, Advance
  <2>3. cache \in [Structures -> Contents]
    BY <1>0 DEF TypeOK
  <2>4. \A s \in Structures :
          cache'[s] = IF s = WriteOrder[step + 1] THEN Image(s, target)
                                                  ELSE cache[s]
    BY <1>3, <2>3 DEF WriteStructure
  <2>5. target' = target /\ start' = start
    BY <1>3 DEF WriteStructure, history
  <2>6. pc' \in {"written", "synced"} => step' = LastStep
    BY <1>3 DEF WriteStructure, Advance
  <2>7. \A s \in Structures :
          cache'[s] = IF s \in Written(step)' THEN Image(s, target')
                                              ELSE start'[s]
    BY <2>2, <2>4, <2>5 DEF IInv, Written
  <2> QED
    BY <1>0, <2>5, <2>6, <2>7 DEF IInv
<1>4. CASE Die \/ gpt_sync_ptable \/ Exit \/ \E s \in Structures : WriteBack(s)
  BY <1>0, <1>4 DEF IInv, Die, gpt_sync_ptable, Exit, WriteBack, history, Written
<1> QED
  BY <1>1, <1>2, <1>3, <1>4
     DEF Next, WriteStructureShort, WriteStructureInterrupted, LosePower

\* What a reader finds after the writes of a gpt_write so far.
Progressed ==
    /\ step \in {0, 1, 2, 3, 4, 5}
    /\ cache["hdr1"] = IF step >= 1 THEN target ELSE start["hdr1"]
    /\ cache["ent1"] = IF step >= 2 THEN target ELSE start["ent1"]
    /\ cache["hdr2"] = IF step >= 3 THEN target ELSE start["hdr2"]
    /\ cache["ent2"] = IF step >= 4 THEN target ELSE start["ent2"]
    /\ cache["mbr"] = IF step >= 5 THEN Protective ELSE start["mbr"]

\* The invariant, read off structure by structure.
LEMMA Progress == IInv => Progressed
<1> SUFFICES ASSUME IInv PROVE Progressed
  OBVIOUS
<1>1. step \in {0, 1, 2, 3, 4, 5}
  BY Order DEF IInv, TypeOK
<1>2. \A s \in Structures :
          cache[s] = IF s \in Written(step) THEN Image(s, target) ELSE start[s]
  BY DEF IInv
<1>3. Image("mbr", target) = Protective
      /\ \A s \in Structures : s # "mbr" => Image(s, target) = target
  BY DEF Image
<1> QED
  BY <1>1, <1>2, <1>3, WrittenSets DEF Structures, Progressed

\* Killing the installer at any point of gpt_write leaves a disk with two
\* agreeing copies on the old or on the new table.
LEMMA OldOrNewHolds == IInv => OldOrNew
<1> SUFFICES ASSUME IInv, Mirrored(start)
             PROVE  gpt_read(cache) \in {gpt_read(start), target}
  BY DEF OldOrNew
<1>1. start["mbr"] = Protective /\ target \in Tables
  BY DEF Mirrored, IInv, TypeOK
<1>2. PICK t \in Tables : /\ start["hdr1"] = t /\ start["ent1"] = t
                          /\ start["hdr2"] = t /\ start["ent2"] = t
  BY DEF Mirrored, ReadPrimary, ReadBackup, ReadCopy
<1>3. cache["mbr"] = Protective
  BY <1>1, Progress DEF Progressed
<1>4. gpt_read(start) = t
  BY <1>1, <1>2, DistinctContents DEF gpt_read, ReadPrimary, ReadBackup, ReadCopy
<1>5. gpt_read(cache) \in {t, target}
  BY <1>1, <1>2, <1>3, Progress, DistinctContents
     DEF Progressed, gpt_read, ReadPrimary, ReadBackup, ReadCopy
<1> QED
  BY <1>4, <1>5

\* Crash consistency of gpt_write under process death.
THEOREM KilledWriteIsOldOrNew ==
    ASSUME ~PowerLoss, ~ShortWrites
    PROVE  Spec => []OldOrNew
BY IInvInit, IInvStep, OldOrNewHolds, PTL DEF Spec

\* A completed gpt_write has written all five structures.
LEMMA WrittenHolds == IInv => WrittenIsRead /\ WrittenHeals
<1> SUFFICES ASSUME IInv, pc \in {"written", "synced"}
             PROVE  gpt_read(cache) = target /\ Mirrored(cache)
  BY DEF WrittenIsRead, WrittenHeals
<1>1. step = 5 /\ target \in Tables
  BY Order DEF IInv, TypeOK
<1>2. /\ cache["hdr1"] = target /\ cache["ent1"] = target
      /\ cache["hdr2"] = target /\ cache["ent2"] = target
      /\ cache["mbr"] = Protective
  BY <1>1, Progress DEF Progressed
<1> QED
  BY <1>1, <1>2, DistinctContents
     DEF gpt_read, Mirrored, ReadPrimary, ReadBackup, ReadCopy

\* A gpt_write that returns 0 can be read back, from both copies, whatever the
\* disk held before and however often earlier runs were killed.
THEOREM CompletedWriteIsRead ==
    ASSUME ~PowerLoss, ~ShortWrites
    PROVE  Spec => [](WrittenIsRead /\ WrittenHeals)
BY IInvInit, IInvStep, WrittenHolds, PTL DEF Spec

\* Only gpt_write changes what a reader sees, and only its second write does.
LEMMA SwitchStep ==
    ASSUME ~PowerLoss, ~ShortWrites, IInv, [Next]_vars,
           Mirrored(start), pc = "writing", gpt_read(cache) # gpt_read(cache)'
    PROVE  gpt_read(cache) = gpt_read(start) /\ gpt_read(cache)' = target
<1>1. WriteStructure
  BY DEF Next, vars, BeginWrite, Die, WriteBack, gpt_sync_ptable, Exit, LosePower,
         WriteStructureShort, WriteStructureInterrupted, gpt_read,
         ReadPrimary, ReadBackup, ReadCopy
<1>2. target' = target /\ start' = start /\ step' = step + 1
  BY <1>1 DEF WriteStructure, Advance, history
<1>3. IInv'
  BY IInvStep
<1>4. start["mbr"] = Protective /\ target \in Tables
  BY DEF Mirrored, IInv, TypeOK
<1>5. PICK t \in Tables : /\ start["hdr1"] = t /\ start["ent1"] = t
                          /\ start["hdr2"] = t /\ start["ent2"] = t
  BY DEF Mirrored, ReadPrimary, ReadBackup, ReadCopy
<1>6. gpt_read(start) = t
  BY <1>4, <1>5, DistinctContents DEF gpt_read, ReadPrimary, ReadBackup, ReadCopy
<1>7. gpt_read(cache) = IF step >= 2 THEN target ELSE t
  BY <1>4, <1>5, Progress, DistinctContents
     DEF Progressed, gpt_read, ReadPrimary, ReadBackup, ReadCopy
<1>8. Progressed'
  BY <1>3, Progress, PTL
<1>9. gpt_read(cache') = IF step' >= 2 THEN target ELSE t
  BY <1>2, <1>4, <1>5, <1>8, DistinctContents
     DEF Progressed, gpt_read, ReadPrimary, ReadBackup, ReadCopy
<1>10. gpt_read(cache)' = gpt_read(cache')
  BY DEF gpt_read, ReadPrimary, ReadBackup, ReadCopy
<1>11. step \in {0, 1, 2, 3, 4, 5}
  BY Progress DEF Progressed
<1> QED
  BY <1>2, <1>6, <1>7, <1>9, <1>10, <1>11

\* The table is switched once, and never back, by a gpt_write that found two
\* agreeing copies.
THEOREM SwitchedOnce ==
    ASSUME ~PowerLoss, ~ShortWrites
    PROVE  Spec => SingleSwitch
<1>1. IInv /\ [Next]_vars
        => [ Mirrored(start) /\ pc = "writing" /\ gpt_read(cache) # gpt_read(cache)'
               => /\ gpt_read(cache) = gpt_read(start)
                  /\ gpt_read(cache)' = target ]_vars
  BY SwitchStep
<1> QED
  BY <1>1, IInvInit, IInvStep, PTL DEF Spec, SingleSwitch

-----------------------------------------------------------------------------
(* Power loss and spoilt writes *)

\* After sync() nothing is left to be written back, until a gpt_write begins.
SyncInv ==
    /\ TypeOK
    /\ pc \in {"writing", "written"} => durable = NoTable
    /\ durable # NoTable => disk = cache /\ gpt_read(cache) = durable

\* Each action keeps it: a power loss finds nothing to lose.
LEMMA SyncInvStep == SyncInv /\ [Next]_vars => SyncInv'
<1> SUFFICES ASSUME SyncInv, [Next]_vars PROVE SyncInv'
  OBVIOUS
<1> USE DEF SyncInv
<1>0. TypeOK'
  BY TypeStep
<1>1. CASE UNCHANGED vars
  BY <1>0, <1>1 DEF vars, gpt_read, ReadPrimary, ReadBackup, ReadCopy
<1>2. ASSUME NEW t \in Tables, BeginWrite(t) PROVE SyncInv'
  BY <1>0, <1>2 DEF BeginWrite
<1>3. CASE WriteStructure \/ WriteStructureShort \/ WriteStructureInterrupted
  BY <1>0, <1>3
     DEF WriteStructure, WriteStructureShort, WriteStructureInterrupted, Advance, history
<1>4. CASE Die
  BY <1>0, <1>4 DEF Die, history
<1>5. ASSUME NEW s \in Structures, WriteBack(s) PROVE SyncInv'
  BY <1>0, <1>5 DEF WriteBack, history
<1>6. CASE gpt_sync_ptable
  BY <1>0, <1>6 DEF gpt_sync_ptable, SyncedDisk, gpt_read, ReadPrimary, ReadBackup,
                    ReadCopy
<1>7. CASE Exit
  BY <1>0, <1>7 DEF Exit, history, gpt_read, ReadPrimary, ReadBackup, ReadCopy
<1>8. CASE LosePower
  <2>1. durable' = durable /\ pc' = "idle" /\ cache' = disk'
    BY <1>8 DEF LosePower, history
  <2>2. disk = cache => disk' = disk
    BY <1>8 DEF LosePower, TypeOK
  <2> QED
    BY <1>0, <2>1, <2>2 DEF gpt_read, ReadPrimary, ReadBackup, ReadCopy
<1> QED
  BY <1>1, <1>2, <1>3, <1>4, <1>5, <1>6, <1>7, <1>8 DEF Next

\* A table that was readable when sync() returned is read from then on, through
\* process deaths and power losses, until the next gpt_write begins.
THEOREM SyncedIsDurable == Spec => []Durable
<1>1. Init => SyncInv
  BY TypeInit DEF SyncInv, Init
<1>2. SyncInv => Durable
  BY DEF SyncInv, Durable, gpt_read, ReadPrimary, ReadBackup, ReadCopy
<1> QED
  BY <1>1, <1>2, SyncInvStep, PTL DEF Spec

\* Where a structure can stand once a gpt_write of a disk at rest has begun.
Reached(s) == {start[s], Image(s, target), Garbage}

\* A disk at rest gets nothing but what this gpt_write puts there.
LossInv ==
    /\ TypeOK
    /\ clean => \A s \in Structures : disk[s] \in Reached(s) /\ cache[s] \in Reached(s)

\* Each action keeps it, the lossy and the spoilt ones included.
LEMMA LossInvStep == LossInv /\ [Next]_vars => LossInv'
<1> SUFFICES ASSUME LossInv, [Next]_vars PROVE LossInv'
  OBVIOUS
<1> USE DEF LossInv, Reached
<1>0. TypeOK'
  BY TypeStep
<1>1. CASE UNCHANGED vars
  BY <1>0, <1>1 DEF vars, Image
<1>2. ASSUME NEW t \in Tables, BeginWrite(t) PROVE LossInv'
  BY <1>0, <1>2 DEF BeginWrite
<1>3. CASE WriteStructure
  BY <1>0, <1>3 DEF WriteStructure, history, TypeOK, Image
<1>4. CASE WriteStructureShort
  BY <1>0, <1>4 DEF WriteStructureShort, history, TypeOK, Image
<1>5. CASE WriteStructureInterrupted
  BY <1>0, <1>5 DEF WriteStructureInterrupted, history, TypeOK, Image
<1>6. CASE Die \/ Exit
  BY <1>0, <1>6 DEF Die, Exit, history, Image
<1>7. ASSUME NEW s \in Structures, WriteBack(s) PROVE LossInv'
  BY <1>0, <1>7 DEF WriteBack, history, TypeOK, Image
<1>8. CASE gpt_sync_ptable
  BY <1>0, <1>8 DEF gpt_sync_ptable, SyncedDisk, Image
<1>9. CASE LosePower
  <2>1. UNCHANGED <<clean, start, target>> /\ cache' = disk'
    BY <1>9 DEF LosePower, history
  <2>2. \A s \in Structures : disk'[s] \in {disk[s], cache[s], Garbage}
    BY <1>9 DEF LosePower
  <2> QED
    BY <1>0, <2>1, <2>2 DEF Image
<1> QED
  BY <1>1, <1>2, <1>3, <1>4, <1>5, <1>6, <1>7, <1>8, <1>9 DEF Next

\* What can then be read is the old table, the new one, or nothing.
LEMMA LossOutcome == LossInv => PowerLossOutcome
<1> SUFFICES ASSUME LossInv, Mirrored(start), clean
             PROVE  gpt_read(disk) \in {gpt_read(start), target, NoTable}
  BY DEF PowerLossOutcome
<1>1. start["mbr"] = Protective /\ target \in Tables
  BY DEF Mirrored, LossInv, TypeOK
<1>2. PICK t \in Tables : /\ start["hdr1"] = t /\ start["ent1"] = t
                          /\ start["hdr2"] = t /\ start["ent2"] = t
  BY DEF Mirrored, ReadPrimary, ReadBackup, ReadCopy
<1>3. gpt_read(start) = t
  BY <1>1, <1>2, DistinctContents DEF gpt_read, ReadPrimary, ReadBackup, ReadCopy
<1>4. /\ disk["hdr1"] \in {t, target, Garbage} /\ disk["ent1"] \in {t, target, Garbage}
      /\ disk["hdr2"] \in {t, target, Garbage} /\ disk["ent2"] \in {t, target, Garbage}
  BY <1>2 DEF LossInv, Reached, Structures, Image
<1> QED
  BY <1>1, <1>3, <1>4, DistinctContents DEF gpt_read, ReadPrimary, ReadBackup, ReadCopy

\* Whatever part of a gpt_write reaches the platter, and however it is spoilt,
\* the CRCs keep every table but the old and the new one from being read.
THEOREM NeverAThirdTable == Spec => []PowerLossOutcome
<1>1. Init => LossInv
  BY TypeInit DEF LossInv, Init, Reached
<1> QED
  BY <1>1, LossInvStep, LossOutcome, PTL DEF Spec

-----------------------------------------------------------------------------
(* Runs that are killed implement GptStore *)

\* The page cache as four copies and an MBR, for the step-by-step argument.
LEMMA ReadsOf ==
    ASSUME NEW d \in [Structures -> Contents]
    PROVE  /\ ReadPrimary(d) = IF d["hdr1"] \in Tables /\ d["ent1"] = d["hdr1"]
                               THEN d["hdr1"] ELSE NoTable
           /\ ReadBackup(d) = IF d["hdr2"] \in Tables /\ d["ent2"] = d["hdr2"]
                              THEN d["hdr2"] ELSE NoTable
BY DEF ReadPrimary, ReadBackup, ReadCopy

\* One write of gpt_write is a step of GptStore or invisible: the header and
\* the entries of the primary lose and publish the table, those of the backup
\* break and settle the fallback, and the MBR publishes both.
LEMMA WriteStepRefines ==
    ASSUME IInv, WriteStructure
    PROVE  Store!Next \/ UNCHANGED Store!vars
<1> DEFINE d == cache
           e == cache'
<1>1. /\ step \in {0, 1, 2, 3, 4}
      /\ Progressed
      /\ target \in Tables
      /\ d \in [Structures -> Contents]
  BY Progress, Order DEF IInv, TypeOK, WriteStructure, Progressed
<1>2. e = [d EXCEPT ![WriteOrder[step + 1]] = Image(WriteOrder[step + 1], target)]
  BY DEF WriteStructure
<1>3. /\ gpt_read(cache)' = gpt_read(e)
      /\ Fallback' = IF e["mbr"] # Protective THEN NoTable ELSE ReadBackup(e)
  BY DEF gpt_read, Fallback, ReadPrimary, ReadBackup, ReadCopy
<1> USE DEF Structures, Image
<1>4. CASE step = 0
  <2>1. e["hdr1"] = target /\ \A s \in Structures \ {"hdr1"} : e[s] = d[s]
    BY <1>1, <1>2, <1>4, Order
  <2>2. Fallback' = Fallback
    BY <1>3, <2>1 DEF Fallback, ReadBackup, ReadCopy
  <2>3. gpt_read(e) \in {target, Fallback}
    BY <1>1, <2>1, DistinctContents
       DEF gpt_read, Fallback, ReadPrimary, ReadBackup, ReadCopy
  <2> QED
    BY <1>1, <1>3, <2>2, <2>3 DEF Store!Next, Store!Publish, Store!FallBack
<1>5. CASE step = 1
  <2>1. e["ent1"] = target /\ \A s \in Structures \ {"ent1"} : e[s] = d[s]
    BY <1>1, <1>2, <1>5, Order
  <2>2. Fallback' = Fallback
    BY <1>3, <2>1 DEF Fallback, ReadBackup, ReadCopy
  <2>3. d["hdr1"] = target
    BY <1>1, <1>5 DEF Progressed
  <2>4. gpt_read(e) = target \/ gpt_read(e) = gpt_read(d)
    BY <1>1, <2>1, <2>3, DistinctContents
       DEF gpt_read, ReadPrimary, ReadBackup, ReadCopy
  <2> QED
    BY <1>1, <1>3, <2>2, <2>4 DEF Store!Next, Store!Publish, Store!vars
<1>6. CASE step = 2 \/ step = 3
  <2>1. \E s \in {"hdr2", "ent2"} :
            e[s] = target /\ \A x \in Structures \ {s} : e[x] = d[x]
    BY <1>1, <1>2, <1>6, Order
  <2>2. d["hdr1"] = target /\ d["ent1"] = target
    BY <1>1, <1>6 DEF Progressed
  <2>3. e["hdr1"] = target /\ e["ent1"] = target /\ e["mbr"] = d["mbr"]
    BY <2>1, <2>2
  <2>4. gpt_read(e) = gpt_read(d)
    BY <1>1, <2>2, <2>3, DistinctContents DEF gpt_read, ReadPrimary, ReadCopy
  <2>5. d["mbr"] = Protective => gpt_read(d) = target
    BY <1>1, <2>2, DistinctContents DEF gpt_read, ReadPrimary, ReadCopy
  <2>6. ReadBackup(e) \in {NoTable, target}
    <3>1. step = 2 => e["hdr2"] = target
      BY <1>1, <1>2, Order
    <3>2. step = 3 => e["hdr2"] = target
      BY <1>1, <1>2, Order DEF Progressed
    <3> QED
      BY <1>1, <1>6, <3>1, <3>2 DEF ReadBackup, ReadCopy
  <2>7. d["mbr"] # Protective => Fallback' = Fallback
    BY <1>3, <2>3 DEF Fallback
  <2>8. d["mbr"] = Protective => Fallback' \in {NoTable, gpt_read(d)}
    BY <1>3, <2>3, <2>5, <2>6 DEF Fallback
  <2>9. d["mbr"] = Protective => gpt_read(d) # NoTable
    BY <1>1, <2>5, DistinctContents
  <2> QED
    BY <1>3, <2>4, <2>7, <2>8, <2>9
       DEF Store!Next, Store!BreakBackup, Store!Settle, Store!vars
<1>7. CASE step = 4
  <2>1. e["mbr"] = Protective /\ \A s \in Structures \ {"mbr"} : e[s] = d[s]
    BY <1>1, <1>2, <1>7, Order
  <2>2. /\ d["hdr1"] = target /\ d["ent1"] = target
        /\ d["hdr2"] = target /\ d["ent2"] = target
    BY <1>1, <1>7 DEF Progressed
  <2>3. gpt_read(e) = target /\ ReadBackup(e) = target
    BY <1>1, <2>1, <2>2, DistinctContents
       DEF gpt_read, ReadPrimary, ReadBackup, ReadCopy
  <2> QED
    BY <1>1, <1>3, <2>1, <2>3 DEF Store!Next, Store!Publish
<1> QED
  BY <1>1, <1>4, <1>5, <1>6, <1>7

\* Every step of the disk is a step of what a reader is promised.
LEMMA StepRefines ==
    ASSUME ~PowerLoss, ~ShortWrites
    PROVE  IInv /\ [Next]_vars => [Store!Next]_Store!vars
<1> SUFFICES ASSUME IInv, [Next]_vars
             PROVE  Store!Next \/ UNCHANGED Store!vars
  OBVIOUS
<1>1. CASE WriteStructure
  BY <1>1, WriteStepRefines
<1>2. CASE ~WriteStructure
  <2>1. cache' = cache
    BY <1>2 DEF Next, vars, BeginWrite, Die, WriteBack, gpt_sync_ptable, Exit, LosePower,
                WriteStructureShort, WriteStructureInterrupted
  <2> QED
    BY <2>1 DEF Store!vars, gpt_read, Fallback, ReadPrimary, ReadBackup, ReadCopy
<1> QED
  BY <1>1, <1>2

\* A reader of a disk on which installers are started and killed sees what
\* GptStore promises.
THEOREM KilledWritesRefineStore ==
    ASSUME ~PowerLoss, ~ShortWrites
    PROVE  Spec => ImplementsStore
<1>1. Init => Store!Init
  <2> SUFFICES ASSUME Init PROVE Store!Init
    OBVIOUS
  <2>1. cache \in [Structures -> Contents]
    BY TypeInit DEF TypeOK
  <2> QED
    BY <2>1, ReadType
       DEF Store!Init, Store!Readable, Fallback, ReadBackup, ReadCopy
<1> QED
  BY <1>1, IInvInit, IInvStep, StepRefines, PTL DEF Spec, ImplementsStore, Store!Spec
=============================================================================
