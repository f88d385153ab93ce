------------------------------ MODULE GptDisk -------------------------------
(***************************************************************************)
(* How libgpt stores a partition table: gpt_write, gpt_read and            *)
(* gpt_sync_ptable of libgpt/gpt.c, over the five structures they touch on *)
(* the disk, with the kernel's page cache between the program and the      *)
(* platter.                                                                *)
(*                                                                         *)
(* A table is one value: the contents of a header and of an entries array  *)
(* written from it.  Both CRCs are ideal: a copy is accepted iff its       *)
(* header and its entries were written whole and from the same table.      *)
(*                                                                         *)
(* A run of the installer opens the disk, replaces the table and exits; it *)
(* may die between any two writes, and (PowerLoss) the machine may lose    *)
(* power, which keeps any part of what was not yet written back.           *)
(***************************************************************************)
EXTENDS Naturals, Sequences

CONSTANTS Tables,       \* the partition tables that occur
          NoTable,      \* result of a gpt_read that fails
          Protective,   \* an MBR whose first entry has type 0xEE
          Garbage,      \* contents that no check accepts
          MaxRuns,      \* bound: how many times gpt_write is called
          PowerLoss,    \* whether the machine may lose power
          ShortWrites   \* whether write(2) may be short or interrupted

ASSUME DistinctContents ==
    /\ NoTable \notin Tables
    /\ Protective \notin Tables
    /\ Garbage \notin Tables
    /\ Garbage # Protective

ASSUME BoundsAssumption ==
    /\ MaxRuns \in Nat
    /\ PowerLoss \in BOOLEAN
    /\ ShortWrites \in BOOLEAN

VARIABLES
    cache,    \* what read(2) returns for each structure
    disk,     \* what is on the platter
    kernel,   \* the table the kernel's block layer works with
    pc,       \* "idle", "writing" (in gpt_write), "written", "synced"
    step,     \* number of structures this gpt_write has written
    target,   \* the table being written
    start,    \* history: the structures as this gpt_write found them
    clean,    \* history: nothing was waiting to be written back then
    durable,  \* history: what was readable at the last sync(), until the
              \* next gpt_write
    runs      \* number of gpt_write calls so far

history == <<start, clean, durable>>
vars == <<cache, disk, kernel, pc, step, target, start, clean, durable, runs>>

Structures == {"mbr", "hdr1", "ent1", "hdr2", "ent2"}
Contents   == Tables \cup {Protective, Garbage}

-----------------------------------------------------------------------------
(* Reading *)

\* read_gpt_data without its last check.
ReadCopyUnchecked(d, hdr, ent) ==
    IF d[hdr] \in Tables THEN d[ent] ELSE NoTable

\* read_gpt_data: signature and header CRC, then the CRC of the entries.
ReadCopy(d, hdr, ent) ==
    IF d[hdr] \in Tables /\ d[ent] = d[hdr] THEN d[hdr] ELSE NoTable

ReadPrimary(d) == ReadCopy(d, "hdr1", "ent1")
ReadBackup(d)  == ReadCopy(d, "hdr2", "ent2")

\* gpt_read: protective MBR, then the primary copy, else the backup.
gpt_read(d) ==
    IF d["mbr"] # Protective THEN NoTable
    ELSE IF ReadPrimary(d) # NoTable THEN ReadPrimary(d)
    ELSE ReadBackup(d)

\* Both copies can be read and hold the same table.
Mirrored(d) ==
    /\ d["mbr"] = Protective
    /\ ReadPrimary(d) # NoTable
    /\ ReadPrimary(d) = ReadBackup(d)

-----------------------------------------------------------------------------
(* Writing *)

WriteOrderHeadersFirst == <<"hdr1", "hdr2", "ent1", "ent2", "mbr">>
WriteOrderEntriesLost  == <<"hdr1", "ent1", "hdr2", "hdr2", "mbr">>
WriteOrderMbrSkipped   == <<"hdr1", "ent1", "hdr2", "ent2", "ent2">>

\* gpt_write: write_gpt_to_disk of the primary, then of the backup (header
\* before entries), then write_mbr.
WriteOrder == <<"hdr1", "ent1", "hdr2", "ent2", "mbr">>

LastStep == Len(WriteOrder)

Image(s, t) == IF s = "mbr" THEN Protective ELSE t

Init ==
    \E m \in {Protective, Garbage}, p, b \in Tables \cup {Garbage} :
        /\ cache = [s \in Structures |->
                      CASE s = "mbr" -> m
                        [] s \in {"hdr1", "ent1"} -> p
                        [] OTHER -> b]
        /\ disk = cache
        /\ start = cache
        /\ clean = TRUE
        /\ kernel = gpt_read(cache)
        /\ pc = "idle"
        /\ step = 0
        /\ target \in Tables
        /\ durable = NoTable
        /\ runs = 0

\* A run of the installer has filled in its struct gpt (from gpt_read or
\* gpt_new) and calls gpt_write with the table t.
BeginWrite(t) ==
    /\ pc = "idle"
    /\ runs < MaxRuns
    /\ runs' = runs + 1
    /\ pc' = "writing"
    /\ step' = 0
    /\ target' = t
    /\ start' = cache
    /\ clean' = (disk = cache)
    /\ durable' = NoTable
    /\ UNCHANGED <<cache, disk, kernel>>

\* gpt_write that does not stop after write_mbr.
AdvanceForever ==
    /\ step' = step + 1
    /\ pc' = "writing"

\* After the structure just written: go on, or return 0 from gpt_write.
Advance ==
    /\ step' = step + 1
    /\ pc' = IF step + 1 = LastStep THEN "written" ELSE "writing"

\* One lseek64 and robust_write that the kernel completes in one write(2).
WriteStructure ==
    /\ pc = "writing"
    /\ LET s == WriteOrder[step + 1]
       IN  cache' = [cache EXCEPT ![s] = Image(s, target)]
    /\ Advance
    /\ UNCHANGED <<disk, kernel, target, history, runs>>

\* robust_write when write(2) is short: buf does not move on, so the rest of
\* the structure is filled from the start of the buffer again, and the
\* call reports success.
WriteStructureShort ==
    /\ ShortWrites
    /\ pc = "writing"
    /\ cache' = [cache EXCEPT ![WriteOrder[step + 1]] = Garbage]
    /\ Advance
    /\ UNCHANGED <<disk, kernel, target, history, runs>>

\* The structure whose first byte follows the last byte of another one: the
\* MBR fills its sector to the end, and the backup entries end at the header.
Follows(s) == CASE s = "mbr"  -> {"hdr1"}
                [] s = "ent2" -> {"hdr2"}
                [] OTHER      -> {}

\* robust_write when write(2) fails with EINTR: ret = -1 is subtracted from
\* count, so one byte too many is written, past the end of the structure.
WriteStructureInterrupted ==
    /\ ShortWrites
    /\ pc = "writing"
    /\ LET s == WriteOrder[step + 1]
       IN  cache' = [x \in Structures |->
                       IF x = s THEN Image(s, target)
                       ELSE IF x \in Follows(s) THEN Garbage
                       ELSE cache[x]]
    /\ Advance
    /\ UNCHANGED <<disk, kernel, target, history, runs>>

\* The process ends without having synced: a write(2) or an allocation fails
\* and gpt_write returns -1 (the caller then dies), or the process is killed.
Die ==
    /\ pc \in {"writing", "written"}
    /\ pc' = "idle"
    /\ UNCHANGED <<cache, disk, kernel, step, target, history, runs>>

\* The kernel writes back one structure of the page cache when it likes.
WriteBack(s) ==
    /\ disk[s] # cache[s]
    /\ disk' = [disk EXCEPT ![s] = cache[s]]
    /\ UNCHANGED <<cache, kernel, pc, step, target, history, runs>>

SyncNothing == disk

\* sync(2)
SyncedDisk == cache

\* gpt_sync_ptable: sync(), then BLKRRPART, which makes the kernel read the
\* table again or fails (EBUSY, no such device) and leaves its view alone.
\* partitioner_execute ignores the result.
gpt_sync_ptable ==
    /\ pc = "written"
    /\ pc' = "synced"
    /\ disk' = SyncedDisk
    /\ kernel' \in {kernel, gpt_read(cache)}
    /\ durable' = gpt_read(cache)
    /\ UNCHANGED <<cache, step, target, start, clean, runs>>

\* The run ends after it has synced.
Exit ==
    /\ pc = "synced"
    /\ pc' = "idle"
    /\ UNCHANGED <<cache, disk, kernel, step, target, history, runs>>

\* Of what was not yet written back, any part (lost) does not reach the
\* platter, and the entries, which are several sectors, may reach it in part
\* (torn).  The machine restarts, and the kernel reads the table it finds.
LosePower ==
    /\ PowerLoss
    /\ \E lost \in SUBSET Structures, torn \in SUBSET {"ent1", "ent2"} :
          disk' = [s \in Structures |->
                     IF disk[s] = cache[s] THEN disk[s]
                     ELSE IF s \in torn THEN Garbage
                     ELSE IF s \in lost THEN disk[s] ELSE cache[s]]
    /\ cache' = disk'
    /\ kernel' = gpt_read(disk')
    /\ pc' = "idle"
    /\ UNCHANGED <<step, target, history, runs>>

Next ==
    \/ \E t \in Tables : BeginWrite(t)
    \/ WriteStructure
    \/ WriteStructureShort
    \/ WriteStructureInterrupted
    \/ Die
    \/ \E s \in Structures : WriteBack(s)
    \/ gpt_sync_ptable
    \/ Exit
    \/ LosePower

Spec == Init /\ [][Next]_vars

-----------------------------------------------------------------------------
(* What makes it correct *)

TypeOK ==
    /\ cache \in [Structures -> Contents]
    /\ disk \in [Structures -> Contents]
    /\ kernel \in Tables \cup {NoTable}
    /\ pc \in {"idle", "writing", "written", "synced"}
    /\ step \in 0 .. LastStep
    /\ pc = "writing" => step < LastStep
    /\ target \in Tables
    /\ start \in [Structures -> Contents]
    /\ clean \in BOOLEAN
    /\ durable \in Tables \cup {NoTable}
    /\ runs \in 0 .. MaxRuns

\* A gpt_write that found two agreeing copies leaves, wherever it is
\* interrupted, either the table it found or the one it writes: a later
\* gpt_read never fails and never returns anything else.
OldOrNew ==
    Mirrored(start) => gpt_read(cache) \in {gpt_read(start), target}

\* The table changes at a single write of such a gpt_write, and once readers
\* see the new table the later writes (backup copy, MBR) do not take it back.
SingleSwitch ==
    [][ Mirrored(start) /\ pc = "writing" /\ gpt_read(cache) # gpt_read(cache)'
          => /\ gpt_read(cache) = gpt_read(start)
             /\ gpt_read(cache)' = target ]_vars

\* When gpt_write returns 0, gpt_read returns the table it was given, from
\* either copy ("Write the GPT back to the disk", gpt.h).
WrittenIsRead ==
    pc \in {"written", "synced"} => gpt_read(cache) = target

\* Both copies are then restored: a run that completes heals a disk an
\* earlier, interrupted run left with one copy or with two that differ.
WrittenHeals ==
    pc \in {"written", "synced"} => Mirrored(cache)

\* After sync() the table survives whatever happens until the next gpt_write.
Durable ==
    durable # NoTable => /\ gpt_read(disk) = durable
                         /\ gpt_read(cache) = durable

\* Power lost during a gpt_write of a disk at rest with two agreeing copies,
\* or a gpt_write spoilt by short writes: the disk has the old table, the new
\* one or none, never one of an earlier run and never one put together from
\* both.
PowerLossOutcome ==
    Mirrored(start) /\ clean
        => gpt_read(disk) \in {gpt_read(start), target, NoTable}

-----------------------------------------------------------------------------
(* The abstract view of a reader *)

Fallback == IF cache["mbr"] # Protective THEN NoTable ELSE ReadBackup(cache)

Store == INSTANCE GptStore WITH seen <- gpt_read(cache), fallback <- Fallback

\* Whatever runs are started and killed, a reader of the disk sees what
\* GptStore promises: whole tables, lost only to the fallback, and a fallback
\* that is given up only while the table in use is intact.
ImplementsStore == Store!Spec
=============================================================================
