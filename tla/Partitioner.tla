---------------------------- MODULE Partitioner -----------------------------
(***************************************************************************)
(* installer/partitioner.c on one disk: the scan (partitioner_prepare), the*)
(* questions (partitioner_cli) and the execution phase, which shrinks      *)
(* Windows, removes an old Android and lays out the new one, or wipes the  *)
(* disk.  The options of the disk (ictx.opts, "disk.X:...") are the record *)
(* opts, with 0 for a key that is not set.                                 *)
(*                                                                         *)
(* Bytes are counted in sectors; a MiB is SectorsPerMiB sectors.  Writing  *)
(* the table is one step here: GptDisk takes it apart.                     *)
(***************************************************************************)
EXTENDS GptTable

CONSTANTS
    SectorsPerMiB,     \* (1 << 20) / lba_size
    TableSectors,      \* sectors of the entries array that gpt_new makes
    NewEntries,        \* num_pentries of gpt_new
    PartList,          \* base:partitions with the type and length of each
    BootloaderLen,     \* partition.bootloader:len of the ini file, in MiB
    Prefixed,          \* the names that begin with "bootloader"
    MIN_DATA_PART_SIZE,
    Word,              \* 2^64: the counters in MiB are uint64_t
    MibWord,           \* 2^44: what is left of them in mib << 20
    Disks,             \* the disks found: size, table and NTFS volume, its index 0 for none
    Modes,             \* "interactive", "default" or "provision"
    NoTable            \* the disk has no GPT that can be read

ASSUME SizesAssumption ==
    /\ SectorsPerMiB \in Nat \ {0}
    /\ TableSectors \in Nat
    /\ TableSectors + 2 <= SectorsPerMiB
    /\ NewEntries \in Nat
    /\ BootloaderLen \in Nat \ {0}
    /\ MIN_DATA_PART_SIZE \in Nat \ {0}
    /\ MibWord \in Nat \ {0} /\ Word \in Nat
    /\ MibWord * SectorsPerMiB <= Word

\* The list of installer/iago.ini: the partition the loader starts from is an
\* ESP, no more than one partition takes the space that is left, and no name but
\* those of the two bootloaders begins as theirs do.
ASSUME PartListAssumption ==
    LET K == DOMAIN PartList
    IN  /\ PartList \in Seq([name : {PartList[k].name : k \in K},
                             type : {PartList[k].type : k \in K}, len : Int \ {0}])
        /\ \A j, k \in K : PartList[j].name = PartList[k].name => j = k
        /\ \A j, k \in K : PartList[j].len < 0 /\ PartList[k].len < 0 => j = k
        /\ \E k \in K : PartList[k].name = "bootloader" /\ PartList[k].type = "esp"
        /\ \A k \in K : PartList[k].name \in Prefixed <=>
                          PartList[k].name \in {"bootloader", "bootloader2"}

\* A table the installer finds is sound, it fits the disk, and an ESP in it has
\* no name of Android's but the one FinishTable gives; the NTFS volume it finds
\* is in a partition that holds it.
ASSUME DisksAssumption ==
    \A d \in Disks :
        /\ d.sectors \in Nat /\ d.sectors < MibWord
        /\ d.table # NoTable =>
              /\ IsSound(d.table) /\ d.table.last_usable_lba < d.sectors
              /\ \A i \in DOMAIN d.table.entries : d.table.entries[i].last_lba <= Word
              /\ \A i \in InUse(d.table) : d.table.entries[i].type = "esp" =>
                    \/ d.table.entries[i].name[1] # "android_"
                    \/ d.table.entries[i].name = <<"android_", "bootloader">>
        /\ d.ntfs \in [index : Nat, size : Nat, min : Nat]
        /\ d.ntfs.index # 0 =>
              /\ d.table # NoTable /\ d.ntfs.index \in InUse(d.table)
              /\ d.table.entries[d.ntfs.index].name[1] # "android_"
              /\ d.ntfs.size <= gpt_entry_get_size(d.table.entries[d.ntfs.index])

VARIABLES
    mode,      \* the boot entry: interactive, or one of two overlays
    sectors,   \* size of the disk
    orig,      \* the table as the installer found it
    ondisk,    \* the table on the disk
    ntfs,      \* the NTFS volume: size in sectors, smallest size it can have
    opts,      \* ictx.opts, as far as this disk is concerned
    index,     \* partition.X:index
    mem,       \* the struct gpt being edited
    mk,        \* struct mkpart_ctx and the position in the partition list
    pc,        \* the next step; "done" and "dead" (die()) are the ends
    why        \* the die() that ended the run

vars == <<mode, sectors, orig, ondisk, ntfs, opts, index, mem, mk, pc, why>>

PartNames == {PartList[k].name : k \in DOMAIN PartList}

\* The partitions that have the length of partition.bootloader:len.
Bootloaders == {"bootloader", "bootloader2"}

-----------------------------------------------------------------------------
(* Arithmetic *)

ToMibDown(n)       == n \div SectorsPerMiB
to_mib(n)          == (n + SectorsPerMiB - 1) \div SectorsPerMiB
to_mib_floor(n)    == n \div SectorsPerMiB
mib_align(n)       == to_mib(n) * SectorsPerMiB
mib_to_lba(mib)    == (mib % MibWord) * SectorsPerMiB

-----------------------------------------------------------------------------
(* What the scan looks for *)

NAME_MAGIC == "android_"

AndroidName(part) == <<NAME_MAGIC, part>>

\* A plugin's own partition, and not the ESP, which is kept.
IsAndroidAnyName(name) == name[1] = NAME_MAGIC

IsAndroid(name) == name[1] = NAME_MAGIC /\ name # AndroidName("bootloader")

AndroidEntries(t) == {i \in InUse(t) : IsAndroid(t.entries[i].name)}

\* check_for_ptn: the first partition of a type, 0 for the -1 of the source.
check_for_ptn(t, type) ==
    LET found == {i \in InUse(t) : t.entries[i].type = type}
    IN  IF found = {} THEN 0 ELSE Min(found)

\* check_for_android
check_for_android(t) ==
    LET sizes == [i \in DOMAIN t.entries |->
                    IF i \in AndroidEntries(t) THEN gpt_entry_get_size(t.entries[i]) ELSE 0]
    IN  RunningSums(sizes)[Len(sizes)]

\* get_ntfs_min_size: fails unless the type is right and ntfsresize --check and
\* --info accept the volume.
get_ntfs_min_size(i, t) ==
    IF /\ ValidIndex(i, t)
       /\ t.entries[i].type = "ms_data"
       /\ i = ntfs.index
    THEN {0, ntfs.min}
    ELSE {0}

NoOpts == [dualboot |-> FALSE, esp_index |-> 0, esp_size |-> 0, msdata_index |-> 0,
           msdata_size |-> 0, msdata_minsize |-> 0, android_size |-> 0,
           free_size |-> 0, windows_resize |-> 0, bootloader_len |-> BootloaderLen]

NoPlan == [k |-> 1, start_mb |-> 0, end_mb |-> 0, next_mb |-> 0, ptn_mb |-> 0,
           disk_mb |-> 0]

Init ==
    /\ mode \in Modes
    /\ \E d \in Disks : /\ sectors = d.sectors
                        /\ orig = d.table
                        /\ ntfs = d.ntfs
    /\ ondisk = orig
    /\ opts = [NoOpts EXCEPT !.dualboot = (mode = "default")]
    /\ index = [p \in PartNames |-> 0]
    /\ mem = NoTable
    /\ mk = NoPlan
    /\ pc = "prepare"
    /\ why = "none"

\* die()
Dies(reason) == pc' = "dead" /\ why' = reason

\* partitioner_prepare: the scan of the disk.  (A reserved partition in the
\* last entry of the table, which the source would read past, does not occur.)
Prepare ==
    /\ pc = "prepare"
    /\ pc' = IF mode = "interactive" THEN "cli" ELSE "execute"
    /\ IF ondisk = NoTable
       THEN UNCHANGED opts
       ELSE LET t        == ondisk
                reserved == check_for_ptn(t, "ms_reserved")
                esp      == check_for_ptn(t, "esp")
                data     == reserved + 1
            IN  \E minsize \in IF reserved # 0 /\ mode = "interactive"
                               THEN get_ntfs_min_size(data, t) ELSE {0} :
                  opts' = [opts EXCEPT
                    !.msdata_index   = IF reserved = 0 THEN 0 ELSE data,
                    !.msdata_size    = IF reserved = 0 THEN 0
                                       ELSE gpt_entry_get_size(t.entries[data]),
                    !.msdata_minsize = minsize,
                    !.esp_index      = esp,
                    !.esp_size       = IF esp = 0 THEN 0 ELSE
                                       mib_align(gpt_entry_get_size(t.entries[esp])),
                    !.android_size   = check_for_android(t),
                    !.free_size      = gpt_find_contiguous_free_space(t).size]
    /\ UNCHANGED <<mode, sectors, orig, ondisk, ntfs, index, mem, mk, why>>

-----------------------------------------------------------------------------
(* The questions *)

\* sumsizes_cb over the partition list: what does not grow, in MiB, without the
\* names strncmp takes for a bootloader's.
FixedLens ==
    [k \in DOMAIN PartList |->
        IF PartList[k].name \notin Prefixed /\ PartList[k].len > 0
        THEN PartList[k].len ELSE 0]

FixedMb == RunningSums(FixedLens)[Len(PartList)]

get_partial_space_required(esp_sizes) == FixedMb * SectorsPerMiB + esp_sizes

\* get_all_space_required without the data partition.
AllSpaceNoData(dualboot) ==
    get_partial_space_required(IF dualboot THEN opts.esp_size
                               ELSE 2 * BootloaderLen * SectorsPerMiB)

get_all_space_required(dualboot) ==
    get_partial_space_required(IF dualboot THEN opts.esp_size
                               ELSE 2 * BootloaderLen * SectorsPerMiB)
        + MIN_DATA_PART_SIZE * SectorsPerMiB

\* The space that the interactive session counts on: an old Android is taken
\* to use all there is.
TotalFree == IF opts.android_size # 0 THEN opts.android_size ELSE opts.free_size

Shortage == get_all_space_required(TRUE) - TotalFree

must_resize == Shortage > 0

windows_max_size == opts.msdata_size - (IF must_resize THEN Shortage ELSE 0)

CanResize == opts.msdata_minsize # 0

\* ui_get_value: a number in range, or Enter for the default, the largest one,
\* which is not compared with the minimum.
NewWindowsSizes ==
    {mib \in 0 .. to_mib_floor(windows_max_size) :
        mib >= to_mib(opts.msdata_minsize) \/ mib = to_mib_floor(windows_max_size)}

\* partitioner_cli, the user keeps Windows.
CliDualBoot ==
    /\ pc = "cli"
    /\ opts.msdata_size # 0
    /\ \/ /\ must_resize
          /\ \/ windows_max_size < opts.msdata_minsize
             \/ windows_max_size < 0
             \/ ~CanResize
          /\ Dies("cli_space")
          /\ UNCHANGED opts
       \/ /\ ~must_resize \/ (CanResize /\ windows_max_size >= opts.msdata_minsize)
          /\ \/ /\ CanResize
                /\ \E mib \in NewWindowsSizes :
                     opts' = [opts EXCEPT !.windows_resize = mib * SectorsPerMiB,
                                          !.dualboot = TRUE]
                /\ pc' = "execute"
                /\ UNCHANGED why
             \/ /\ ~must_resize
                /\ opts' = [opts EXCEPT !.dualboot = TRUE]
                /\ pc' = "execute"
                /\ UNCHANGED why
             \/ /\ must_resize
                /\ Dies("cli_space")
                /\ UNCHANGED opts
    /\ UNCHANGED <<mode, sectors, orig, ondisk, ntfs, index, mem, mk>>

\* "Shave off 2 megabytes to be safe"
UsableForWipe == sectors - 2 * SectorsPerMiB

\* partitioner_cli, the disk is wiped, if the user confirms it.
CliWipe ==
    /\ pc = "cli"
    /\ \/ Dies("user")
       \/ /\ UsableForWipe < get_all_space_required(FALSE)
          /\ Dies("cli_space")
       \/ /\ UsableForWipe >= get_all_space_required(FALSE)
          /\ pc' = "execute"
          /\ UNCHANGED why
    /\ UNCHANGED <<mode, sectors, orig, ondisk, ntfs, opts, index, mem, mk>>

-----------------------------------------------------------------------------
(* The execution phase *)

\* execute_dual_boot up to gpt_read; gpt_init and gpt_read may fail.
ExecuteDualBoot ==
    /\ pc = "execute"
    /\ opts.dualboot
    /\ \/ /\ Dies("io")
          /\ UNCHANGED mem
       \/ /\ opts.esp_index = 0
          /\ Dies("no_esp")
          /\ UNCHANGED mem
       \/ /\ opts.esp_index # 0
          /\ mem' = ondisk
          /\ pc' = IF opts.windows_resize # 0 THEN "resize" ELSE "delete"
          /\ UNCHANGED why
    /\ UNCHANGED <<mode, sectors, orig, ondisk, ntfs, opts, index, mk>>

ShrunkLastOffByOne(first, new_size) == first + new_size - 2

\* The last LBA of a partition that holds new_size.
ShrunkLast(first, new_size) == first + new_size - 1

\* resize_ntfs_partition: ntfsresize --no-action, then ntfsresize --force on the
\* volume, then the entry in memory; each command may fail, the second one
\* after it has shrunk the volume.
ResizeNtfs ==
    /\ pc = "resize"
    /\ LET new == opts.windows_resize
           i   == opts.msdata_index
       IN  \/ /\ Dies("ntfs")
              /\ UNCHANGED <<ntfs, mem>>
           \/ /\ new >= ntfs.min
              /\ new <= gpt_entry_get_size(ondisk.entries[i])
              /\ ntfs' = [ntfs EXCEPT !.size = new]
              /\ \/ /\ Dies("ntfs")
                    /\ UNCHANGED mem
                 \/ /\ mem' = [mem EXCEPT !.entries[i].last_lba =
                                  ShrunkLast(mem.entries[i].first_lba, new)]
                    /\ pc' = "delete"
                    /\ UNCHANGED why
    /\ UNCHANGED <<mode, sectors, orig, ondisk, opts, index, mk>>

delete_android(t) == gpt_entry_delete(t, AndroidEntries(t))

\* delete_android, and the existing ESP becomes the bootloader partition.
DeleteAndroid ==
    /\ pc = "delete"
    /\ mem' = IF opts.android_size = 0 THEN mem ELSE delete_android(mem)
    /\ opts' = [opts EXCEPT !.bootloader_len = to_mib(opts.esp_size)]
    /\ index' = [index EXCEPT !["bootloader"] = opts.esp_index]
    /\ pc' = "space"
    /\ UNCHANGED <<mode, sectors, orig, ondisk, ntfs, mk, why>>

\* execute_wipe_disk up to create_android_partitions; gpt_init and gpt_new may
\* fail.
ExecuteWipe ==
    /\ pc = "execute"
    /\ ~opts.dualboot
    /\ \/ /\ Dies("io")
          /\ UNCHANGED mem
       \/ /\ mem' = gpt_new(sectors, TableSectors, NewEntries)
          /\ pc' = "space"
          /\ UNCHANGED why
    /\ UNCHANGED <<mode, sectors, orig, ondisk, ntfs, opts, index, mk>>

SpaceNeededMb ==
    to_mib(get_partial_space_required(
             IF opts.dualboot THEN opts.esp_size
             ELSE 2 * BootloaderLen * SectorsPerMiB))

\* create_android_partitions up to its loop.  space_available_mb is unsigned:
\* in a free region that holds no MiB boundary the difference wraps.
PlanSpace ==
    /\ pc = "space"
    /\ LET gap       == gpt_find_contiguous_free_space(mem)
           start_mb  == to_mib(gap.start)
           end_mb    == to_mib_floor(gap.end + 1)
           available == (end_mb - start_mb) % Word
       IN  \/ /\ gap.size = 0
              /\ Dies("space")
              /\ UNCHANGED mk
           \/ /\ gap.size # 0
              /\ available < SpaceNeededMb + MIN_DATA_PART_SIZE
              /\ Dies("space")
              /\ UNCHANGED mk
           \/ /\ gap.size # 0
              /\ available >= SpaceNeededMb + MIN_DATA_PART_SIZE
              /\ mk' = [k |-> 1, start_mb |-> start_mb, end_mb |-> end_mb,
                        next_mb |-> start_mb, ptn_mb |-> SpaceNeededMb,
                        disk_mb |-> available]
              /\ pc' = "mkpart"
              /\ UNCHANGED why
    /\ UNCHANGED <<mode, sectors, orig, ondisk, ntfs, opts, index, mem>>

\* PartMb with the length of the ini file for a second bootloader that has to
\* hold what the ESP holds.
PartMbIni(p) ==
    IF p.name \in Bootloaders THEN BootloaderLen
    ELSE IF p.len < 0 THEN (mk.disk_mb - mk.ptn_mb) % Word
    ELSE p.len

\* The length of a partition: the bootloaders have one length, a negative one
\* takes what the others leave.
PartMb(p) ==
    IF p.name \in Bootloaders THEN opts.bootloader_len
    ELSE IF p.len < 0 THEN (mk.disk_mb - mk.ptn_mb) % Word
    ELSE p.len

SkipsBootloader(p) == opts.dualboot /\ p.name = "bootloader"

\* mkpart_cb for one entry of the partition list.
MkPart ==
    /\ pc = "mkpart"
    /\ mk.k <= Len(PartList)
    /\ LET p     == PartList[mk.k]
           mb    == PartMb(p)
           first == mib_to_lba(mk.next_mb)
           last  == (mib_to_lba((mk.next_mb + mb) % Word) - 1) % Word
       IN  \/ /\ SkipsBootloader(p)
              /\ mk' = [mk EXCEPT !.k = mk.k + 1]
              /\ UNCHANGED <<mem, index, pc, why>>
           \/ /\ ~SkipsBootloader(p)
              /\ gpt_next_index(mem) = 0
              /\ Dies("full")
              /\ UNCHANGED <<mem, index, mk>>
           \/ /\ ~SkipsBootloader(p)
              /\ gpt_next_index(mem) # 0
              /\ mem' = gpt_entry_create(mem, AndroidName(p.name), p.type, first, last)
              /\ index' = [index EXCEPT ![p.name] = gpt_next_index(mem)]
              /\ mk' = [mk EXCEPT !.k = mk.k + 1, !.next_mb = (mk.next_mb + mb) % Word]
              /\ UNCHANGED <<pc, why>>
    /\ UNCHANGED <<mode, sectors, orig, ondisk, ntfs, opts>>

\* The loop is over: execute_dual_boot names the ESP.
FinishTable ==
    /\ pc = "mkpart"
    /\ mk.k > Len(PartList)
    /\ mem' = IF opts.dualboot
              THEN gpt_entry_set_name(mem, opts.esp_index, AndroidName("bootloader"))
              ELSE mem
    /\ pc' = "write"
    /\ UNCHANGED <<mode, sectors, orig, ondisk, ntfs, opts, index, mk, why>>

\* gpt_write and gpt_sync_ptable; a gpt_write that fails leaves the old table
\* or the new one (GptDisk).
WriteTable ==
    /\ pc = "write"
    /\ \/ /\ ondisk' = mem
          /\ pc' = "done"
          /\ UNCHANGED why
       \/ /\ ondisk' \in {ondisk, mem}
          /\ Dies("io")
    /\ UNCHANGED <<mode, sectors, orig, ntfs, opts, index, mem, mk>>

Next ==
    \/ Prepare
    \/ CliDualBoot
    \/ CliWipe
    \/ ExecuteDualBoot
    \/ ResizeNtfs
    \/ DeleteAndroid
    \/ ExecuteWipe
    \/ PlanSpace
    \/ MkPart
    \/ FinishTable
    \/ WriteTable

Spec == Init /\ [][Next]_vars

-----------------------------------------------------------------------------
(* What makes it correct *)

Reasons == {"none", "user", "cli_space", "no_esp", "ntfs", "space", "full", "io"}

Wrapped == mk.end_mb < mk.start_mb

\* The struct gpt in memory stays a table, and the indices recorded for the
\* partitions are entries of it, in use unless the space was miscounted.
TypeOK ==
    /\ pc \in {"prepare", "cli", "execute", "resize", "delete", "space", "mkpart",
               "write", "done", "dead"}
    /\ why \in Reasons
    /\ (pc = "dead") = (why # "none")
    /\ mk.k \in 1 .. Len(PartList) + 1
    /\ mem # NoTable =>
         /\ \A i \in DOMAIN mem.entries : /\ mem.entries[i].first_lba \in 0 .. Word
                                          /\ mem.entries[i].last_lba \in 0 .. Word
         /\ \A p \in PartNames : index[p] # 0 =>
               index[p] \in IF Wrapped THEN DOMAIN mem.entries ELSE InUse(mem)

\* Where there was room (the free region holds a MiB boundary), the table that
\* is written has no two partitions on one sector and none outside the
\* usable range, although gpt_entry_create checks neither.
NewTableIsSound ==
    ondisk # orig /\ ~Wrapped => Disjoint(ondisk) /\ InRange(ondisk)

\* The message of create_android_partitions, "Insufficient disk space (have
\* %llu MiB need %llu MiB)": a table is only laid out in a region that is big
\* enough.
LaidOutInEnoughSpace ==
    pc \in {"write", "done"} => mk.end_mb - mk.start_mb >= SpaceNeededMb + MIN_DATA_PART_SIZE

\* The partitions of an Android that a new installation may replace.
OldAndroid(e) == e.name[1] = NAME_MAGIC /\ e.name # AndroidName("bootloader")

\* A dual boot installation leaves every partition that is not Android's in
\* its entry and on its sectors; the ESP gets a name, Windows may end earlier.
ForeignKept ==
    opts.dualboot /\ orig # NoTable =>
        \A i \in InUse(orig) : ~OldAndroid(orig.entries[i]) =>
            LET old == orig.entries[i]
                new == ondisk.entries[i]
            IN  /\ new.first_lba = old.first_lba
                /\ new.type = old.type
                /\ \/ new.last_lba = old.last_lba
                   \/ /\ i = opts.msdata_index
                      /\ opts.windows_resize # 0
                      /\ new.last_lba <= old.last_lba
                /\ \/ new.name = old.name
                   \/ i = opts.esp_index

\* At every moment, whatever fails or kills the installer next, the NTFS volume
\* lies within its partition on the disk: the volume is shrunk before the
\* table says so.
NtfsFits ==
    ntfs.index # 0 /\ (opts.dualboot \/ ondisk = orig) =>
        ntfs.size <= gpt_entry_get_size(ondisk.entries[ntfs.index])

\* A completed installation has every partition of the list, at the index
\* recorded for it, of its configured size, with a data partition of at least
\* the minimum; the bootloader of a dual boot is the ESP that was there, and
\* nothing of an older Android is left beside the new one.
AndroidComplete ==
    pc = "done" /\ ~Wrapped =>
        /\ \A k \in DOMAIN PartList :
              LET p == PartList[k]
                  e == ondisk.entries[index[p.name]]
              IN  /\ index[p.name] \in InUse(ondisk)
                  /\ e.name = AndroidName(p.name)
                  /\ p.name \notin Bootloaders =>
                       IF p.len < 0
                       THEN gpt_entry_get_size(e) >= MIN_DATA_PART_SIZE * SectorsPerMiB
                       ELSE gpt_entry_get_size(e) = p.len * SectorsPerMiB
                  /\ p.name = "bootloader" => e.type = "esp"
                  /\ p.name = "bootloader2" =>
                       gpt_entry_get_size(e) >=
                         gpt_entry_get_size(ondisk.entries[index["bootloader"]])
        /\ {i \in InUse(ondisk) : OldAndroid(ondisk.entries[i])}
              \subseteq {index[p] : p \in PartNames}

\* The layouts the interactive session reckons with ("Assumes if Android is
\* present, there is no additional free space on the disk"): Windows from one MiB
\* boundary to another, an old Android and nothing else behind it, and no free MiB
\* in front of it.
Tidy(t) ==
    LET win == t.entries[opts.msdata_index]
    IN  /\ opts.msdata_index \in InUse(t)
        /\ win.first_lba % SectorsPerMiB = 0
        /\ (win.last_lba + 1) % SectorsPerMiB = 0
        /\ \A i \in InUse(t) :
              IsAndroid(t.entries[i].name) <=> t.entries[i].first_lba > win.first_lba
        /\ \A a \in FreeSectors(t) :
              (a .. a + SectorsPerMiB - 1) \subseteq FreeSectors(t) => a > win.first_lba
        /\ opts.msdata_minsize # 0 => opts.msdata_minsize >= SectorsPerMiB

\* What the interactive session accepted is not refused for lack of space.  For
\* a wipe the two MiB shaved off cover both tables and the alignment; for a
\* dual boot of a tidy disk its sums agree with those of the execution, which
\* would refuse only after Windows has been shrunk.
AcceptedFits ==
    mode = "interactive" /\ (opts.dualboot => Tidy(orig)) => why # "space"

\* gpt_find_contiguous_free_space returns the largest run of free sectors of
\* the table it is given.
GapIsLargest ==
    pc = "space" /\ Disjoint(mem) => IsLargestGap(gpt_find_contiguous_free_space(mem), mem)
=============================================================================
