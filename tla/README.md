# Iago in TLA+

Iago installs Android on a PC from a live USB stick. This directory is a TLA+
development of the parts of it that change disks: what they are, what may go wrong
between two of their steps, and what holds nevertheless.

All paths below are relative to `src/`.

## 1. The system

| component | state it keeps | operations | interacts with |
|---|---|---|---|
| `libgpt/gpt.c` | `struct gpt`: header and entries in memory; on the disk a protective MBR and two copies of header and entries | `gpt_read`, `gpt_new`, `gpt_write`, `gpt_sync_ptable`; entries: create, delete, name, find free space | the partitioner plugin (its only user), the page cache, the kernel's block layer (`BLKRRPART`) |
| `installer/partitioner.c` | `ictx.opts` keys `disk.X:*`, `partition.X:index/device/guid` | `prepare` (scan disks), `cli_session` (questions), `execute` (shrink NTFS, remove an old Android, lay out the new one, write) | libgpt, `ntfsresize`, the user |
| `installer/main.c` | the list of plugins, `iago.state`, the combined ini file | `preparation_phase`, `cli_phase`, `execution_phase` | every plugin, init (properties), the kernel (`sync`, reboot) |
| `installer/imagewriter.c` | - | waits for a device node, then formats, copies, zeroes or skips | ueventd (device nodes), `util.c` |
| `installer/ota.c` | `base:reboot_target` | copies a package and a recovery command to cache | the recovery console at the next boot |
| `plugins/gummiboot`, `plugins/syslinux` | - | put a boot loader on the ESP and make the machine start it | EFI variables, the MBR, an ESP shared with Windows |
| `installer/finalizer.c` | - | writes `install.prop` to factory | - |
| `installer/util.c` | - | `die`, I/O loops, `dd`, mounts, file system checks, prompts | everything above |
| `editdisklbl/` | `struct disk_info`, the list of writes | host tool: puts an MBR table (primary and logical partitions) and the images of the partitions into a disk image file | - |
| `preinit/preinit.c` | what is mounted, the count of retries | first process of the media: looks through disks and partitions for the media, mounts it, starts Android's init | the kernel, which is still finding devices |

Not programs of this system's own: `installer/newfs_msdos.c` (third party),
`gptdump`, `dump_diskconfig` (printing), the make files and `tools/` (they build the
media), `init*.rc`, `loader/`, `isolinux.cfg`, `res/` (static), `plugins/userfastboot`
(its plugin has no functions).

What is hard here:

* **Crashes.** The installer writes to disks that hold somebody's Windows. `die()`,
  a killed process and a pulled plug may come between any two writes, and
  nothing is journalled.
* **Interleaving.** ueventd makes and removes device nodes while the imagewriter waits for
  them; the kernel may go on with the old table; preinit scans while devices appear.
* **Order.** Header before entries, primary before backup; package before command; files
  before the firmware's boot entry; `sync()` before "complete".
* **Arithmetic.** Sectors, bytes and MiB, rounded up here and down there, unsigned.
* **Checked in one place, used in another.** The questions decide whether there is room, execution
  decides again after Windows has been shrunk; editdisklbl lays the table out twice.

What makes each component correct:

* *libgpt*: a reader finds a whole table whenever it looks, old or new; `gpt_write`
  that returns 0 can be read back; a synced table stays.
* *partitioner*: no overlap, nothing of others touched, the NTFS volume never
  larger than its partition, every Android partition there once and of its size.
* *iagod and plugins*: "complete" means installed and on the platter; foreign
  partitions are untouched; no command without its package; no boot entry without
  what it boots; every installation ends.
* *editdisklbl*: the chain of boot records reads back as the layout; images lie in their
  partitions.
* *imagewriter and `util.c`*: however reads and writes are split, the partition holds the
  image, or zeros, when it goes on to the next; a file system ends in front of its footer.
* *preinit*: init is started on the media; a panic only if the media is not there.
* *from preinit to the partitioner*: the media is never taken for a disk to install on,
  every other disk is offered, and the disk asked for is the one that is written.

`PROJECT.json` lists the hazards at their lines, with the properties about them.

## 2. Modules

| module | models | shape |
|---|---|---|
| `GptStore` | what libgpt promises to a reader (abstract) | one table in use, one to fall back to |
| `GptDisk` | `gpt_write`, `gpt_read`, `gpt_sync_ptable` over page cache and platter | one action per structure written, for both ways `robust_write` goes wrong, for death, write-back, sync and power loss |
| `GptDiskProofs` | theorems about `GptDisk` | |
| `GptTable` | `struct gpt` in memory: entries and the search for free space | operators |
| `Partitioner` (EXTENDS `GptTable`) | scan, questions, execution on one disk | one action per function; each cause of a `die()` that a well-formed ini file leaves is a disjunct |
| `GptTableProofs` | lemmas about `GptTable`, and a theorem about its search for free space | |
| `PartitionerProofs` (EXTENDS `GptTableProofs`) | theorems about `Partitioner` | |
| `CellWrite` | what the imagewriter promises about one partition (abstract), which is all `Installer` knows of it | contents and outcome |
| `ImageWriter` | `execute_cb` of imagewriter with `dd`, `robust_read`, `xwrite`, the zeroing, the file system makers and checks | one action per `read(2)`, `write(2)` and tool |
| `ImageWriterProofs` | theorems about `ImageWriter` | |
| `Installer` | `execution_phase` of iagod, with ueventd, the kernel and the power switch | each `execute` function is a sequence of operations, one action per kind of operation |
| `InstallerProofs` | theorems about `Installer` | |
| `DiskLabel` | editdisklbl | `process_disk_config`, `apply_disk_config`, each write of `wlist_commit`, each image |
| `DiskLabelProofs` | theorems about `DiskLabel` | |
| `Preinit` | `mount_device` and the retries of `main` | one action per turn of a loop |
| `PreinitProofs` | theorems about `Preinit` | |
| `DiskChoice` (EXTENDS `Preinit`) | composition of preinit with the scan, the question and the write of the partitioner plugin | preinit's steps, one action per turn of the loop over `/sys/block`, per line typed, and for the write |
| `DiskChoiceProofs` (EXTENDS `PreinitProofs`) | theorems about the composition | |

`MCx` gives `x` its instances for TLC.

The same happening is looked at with different lenses. Writing the table is five
steps in `GptDisk`, one in `Partitioner` (old or new if it fails, which is what
`OldOrNew` allows), part of one step in `Installer`, and in `DiskChoice` a set of disks that
have been written to. Writing a partition is `BeginWrite` and `FinishWrite` in `Installer`, and those
are what `CellWrite` has and `ImageWriter` implements. Where partitions lie matters in
`Partitioner`, where sectors are numbers; in `Installer` a partition is a *cell*
and what matters is what is in it, who wrote it and when. Definitions have the names of the
source where there is a function to name (`gpt_entry_create`, `config_mbr`, ...).

### GptDisk

`cache` is what `read(2)` returns for the five structures, `disk` what is on the
platter. A table is one value: a copy is accepted iff header and entries hold the same
one, i.e. CRCs are ideal. `start`, `clean` and `durable` are history: what the current `gpt_write`
found, whether the disk was at rest then, and what was readable at the last `sync()`.
`WriteStructureShort` is `robust_write` with a short `write(2)`: the buffer is not
advanced, the structure is spoilt, the call succeeds. `WriteStructureInterrupted` is its
EINTR: one byte too many, which hits the structure that follows (`Follows`; a byte behind the primary
entries or behind the disk is outside the model). Power loss keeps any subset of what was not
written back, and may tear entries.

### GptTable and Partitioner

LBAs are numbers; sizes are in sectors (bytes in the code), a MiB is `SectorsPerMiB`
sectors, and `Word`, `MibWord` are where `uint64_t` counters wrap. `opts` is the part of
`ictx.opts` that concerns the disk, 0 standing for a key that is not set. `mode` is the
entry of the boot menu: interactive, automatic (`iago-default.ini`, dual boot) or
provisioning (`iago-provision.ini`, wipe). What is done to a table is a function of it
(`gpt_entry_delete` of a set of entries, `gpt_entry_create`), so that lemmas can say what each keeps. The
walk of `gpt_find_contiguous_free_space` over the sorted partitions is the set of what it looks at: the gap in front of each
partition (`Gaps`; `Base` is its variable `base` when it comes there) and the one behind the last (`LastGap`), of which
`largest_update` keeps the first of the largest (`Largest`). What a loop adds up is its counter after each turn
(`RunningSums`).

### ImageWriter and CellWrite

`job` is one section of the ini file with the length of its image and of its device, in
blocks. `rpos` and `wpos` are the offsets of the two files, `pos` and `left` the pointer and the count of
`xwrite`. A `read(2)` returns any number of blocks up to `Chunk`, a `write(2)` writes any number of
those asked for; writing behind the end of the device fails. `cut` is history: an `EINTR` in
`robust_read`, whose `continue` evaluates `count && !short_ok` and leaves the loop with nothing read, which
`__dd` takes for the end of the image. `Word` is where `get_volume_size(device) - footer` wraps, and
`KB` the rounding of `length >> 10`. The refinement maps a finished copy that holds what
the mode asks for to "result", anything else that was touched to "junk", and `execute_cb` that has returned to "done",
whatever it has written. A copy that was cut short is therefore no behaviour of `CellWrite`: `execute_cb` goes on with half an
image. `ImplementsCell` states the exception: each step is one of `CellWrite` *unless and until* `cut` is set, and
what follows is not constrained. `Installer` has only partitions that are not cut short.

### Installer

`call` counts the calls `execution_phase` makes: the partitioner, `execute_cb` of the imagewriter
for each partition of the list, ota, the boot loader, the finalizer, and `sync()` with what follows it. `Code` is the
sequence of operations of that call for the configuration `conf`, ending in a `return`; `pc` is the position in it, and
`busy` says that an operation is half done (block device half written, file truncated but not filled). The new table is
given entry by entry: the n-th partition that `mkpart_cb` makes gets the n-th free index (`Rank`, `MadeAt`), which is what
`gpt_next_index` comes to in a table nobody else edits. `table` is on the disk,
`kernel` what the kernel works with, `nodes` the device nodes, `doomed` those ueventd has yet
to remove: `Target` is the cell a write really goes to. `dirty` cells are not wholly on the
platter; file systems are mounted `MS_SYNCHRONOUS`, so only direct writes make cells dirty.
GUIDs are tagged with the run that generated them. `found` is history: table and cells at the start of the run.

Errors that the code ignores go on in the model as they do in the code. `BLKRRPART` may fail (`kernel` stays).
`mount_partition_device` takes `EBUSY` for success: then nothing is mounted, and what the plugin writes goes to the directory below
(`OnMounted`). A partition is in use in this way only when the disk was in use as the table was written, so `Mount` has that branch
where the kernel has kept the old table. `delete_cb` does not look at `remove()`, nor gummiboot.c:157 at `nftw`: `RemoveTree` removes one
file after the other and may stop at any point; `left` is history, the files that stayed. `loader.conf` and `install.prop` are opened without
`O_TRUNC`; where an old file is there (which of these only `loader.conf` can be: `factory` is formatted before) its end may stay
(`KeepsEnd`). Other files are opened with `O_TRUNC`.

### DiskLabel

The writes of `config_mbr` go into `wr_lst` at its head, as in the code, so they are
committed in reverse; `checked` keeps those of the first pass. `Turns(d)` is the state of the loops after each
turn. Lengths, sizes and sectors are `uint32_t` and wrap at `Word`, and `REST` is the -1 of the source. The operators under "How a
kernel reads the table" are the kernel's side and are not translated from this
repository. `Fail` is an error of `open`, `fstat`, `lseek64` or `write`, or a kill. An image size of 0 says that a partition has no
image; an image file that is empty is not modelled. Images are copied in the order of the partitions (the tool: of the command line).

### Preinit

`present` changes under the scan (`Plug`); `readdir` may or may not return a disk that came or
went after `opendir`; `steady` is history: the disks that were there all along. `mounted`
is the stack of mounts; `mount(2)` of what is on top already is refused. `main` ends in three ways: Android's init ("init"),
the message that no media was found ("panic"), and an `execl` that fails after the media was found ("exited"), upon which the kernel
panics too, but nobody has said that the media is missing.

### DiskChoice

preinit ends with `execl`: only the mounts and `ro.iago.media` (`prop`) outlive it, and
`DiskChoice` adds what iagod does beside further devices that come and go. `stage` is where iagod
is, `read` and `there` the `readdir` loop of `partitioner_prepare`, `stayed` the disks that were
there throughout (history), `offered` the list `base:disks`. `DISK_MATCH_REGEX` of partitioner.c rejects
optical drives, that of preinit does not (`Optical`). `select` is `ui_option_get`'s variable, an unsigned int of
`UintWidth` values that keeps what was typed while the question is asked again; `Walk` is its `while (1)`
round a ring of the options and the list head. The list head has no option in it: a
walk that ends there is undefined in the code and ends the program here.

## 3. Runs

Passing runs:

| run | instance | distinct states | question |
|---|---|---|---|
| `GptDisk_kill` | 3 tables, 3 runs, kills | 1.2 M | crash consistency under process death, and refinement of `GptStore` |
| `GptDisk_faults` | 3 tables (symmetric), 1 run, power loss, short writes | 33 k | durability after sync, and what a power loss can leave |
| `Partitioner` | disk of 11 MiB, 4 sectors per MiB, about 500 layouts, all three modes | 54 k | the table that is written, what is kept, when promised space is there |
| `DiskChoice` | 4 disks (2 with media), 2 plug events, 2 scans by preinit and 2 by iagod | 331 k | from the search for the media to the disk that is written; liveness |
| `ImageWriter` | volumes of 0 to 9 blocks, images of 0 to 8, chunks of 3, every mode | 11 k | the copying loops, and refinement of `CellWrite` |
| `Installer_single` | 7 partitions with all modes, 3 disks, both loaders, power loss, `BLKRRPART` may fail | 48 k | one installation of each kind; liveness |
| `Installer_rerun` | 5 partitions, a disk with Windows, gummiboot, two installations | 794 k | an installation over another, dead or complete: menu, boot entry, command |
| `DiskLabel` | up to 8 partitions, four sizes of the disk, new and used files | 98 k | table and images |

**Bounds.** Three tables tell apart what was there, what an earlier run wrote and what this one
writes; with three runs two of them can be killed before the third completes, which is
what it takes to have a backup older than the table in use. `GptDisk_faults` has one run: its properties
look at one `gpt_write`. The layouts of `Partitioner` place Windows, its recovery partition and an old Android
on and off MiB boundaries and leave between no and several MiB free, around every threshold of
the space checks; blank disks have every size around the smallest that fits. 4 sectors per
MiB leave room for each remainder. `Installer`'s short partition lists have each mode and file
system once; `MaxWait` of 1 lets the loop go round and run out. `Installer_rerun` starts from Windows: it is the
second installation that meets an old Android, in whatever state the first one left it. It has gummiboot only, whose
files, entries and boot entry are what can be stale; SYSLINUX is in `Installer_single`, and an installation without a loader in
the theorems, which are about every loader, any list of partitions and any disks. Layouts of editdisklbl go
to 8 partitions: three primary, the extended one, and chains of up to five boot records.
`DiskChoice` has a stick with the media on its second partition, an optical drive that is the media
as a whole (so both may be mounted in one run, and the second regular expression matters; if it is the media, the stick is
the second disk of the list), a disk with Windows and one that has no name in sysfs; two plug events take a disk away and bring it back. `Count` = 1 and `Attempts` = 2
(15 and 6 in the code) let both retry loops go round and run out. `UintWidth` = 16 only has to be larger
than the list. Volumes and images of `ImageWriter` are no multiples of the chunk, larger and
smaller than each other and empty; footers go up to more than the volume; `KB` = 2 gives odd sizes to round.
`MaxRuns`, `MaxPlugs` are the only caps on counters that the program does not have.
Deadlock is not checked: all these programs end.

**Properties.**

* `GptDisk`: `OldOrNew` (a killed `gpt_write` leaves the old or the new table), `SingleSwitch`
  (readers change over at one write), `WrittenHeals` (a completed one is read
  back from both copies, whatever earlier runs left), `Durable` (after `sync()`),
  `PowerLossOutcome` (old, new or none, never a third), `ImplementsStore`.
* `Partitioner`: `NewTableIsSound`, `ForeignKept`, `NtfsFits` (at every moment), `AndroidComplete`
  (every partition once, of its size, and no other Android), `AcceptedFits` (what the questions promise, execution
  finds; for a dual boot on tidy disks, see section 6), `GapIsLargest` (against a reference definition).
* `Installer`: `ForeignUntouched`, `CompleteIsInstalled`, `NoWriteUnderMount`, `Ends` (one installation);
  `CommandHasPackage`, `EntryLeadsToAndroid`, `NoStaleEntries` (one over another). The last two except, by name, what `remove()` failed on: the
  end of an old `loader.conf`, and old entries of images that are no boot images now (those of the boot images are
  written over). `Installer_rerun` has no power loss: that a power loss does not bring the command before its package rests on the
  theorem `CommandSafe`.
* `DiskLabel`: `ReadBackIsLayout`, `NothingShared`, `KilledIsPartOfNew`,
  `AppliesWhatItChecked`, `ImagesInPlace`.
* `ImageWriter`: `WrittenInOrder` (nothing skipped, repeated or out of place, wherever it stops),
  `FileSystemFits` (footer kept), `ImplementsCell` (until a read is interrupted).
* `Preinit`, in the composition: `InitHasMedia`, `PanicOnlyIfMissed`.
* `DiskChoice`: `MediaSpared`, `EveryDiskOffered`, `TargetAsAsked`, `ComesToAnEnd`.

Each is stated beside its module's specification with the code it is about, and for each there is
a plausible bug (operators such as `WriteOrderHeadersFirst`, defined next to the ones they
would replace) that the run finds.

**Fairness.** `Installer`: weak fairness of iagod, of ueventd, and of failing where an
operation cannot but fail (`CannotProceed`). iagod is one thread that is
blocked by nothing but the `stat()` loop, which sleeps and counts; ueventd works off a queue.
No fairness for failures that need not happen, for power loss or for the user. `DiskChoice`
(`BootSpec`): weak fairness of preinit's process and of `partitioner_prepare`, each one thread whose
loops over `readdir` and over the retries are bounded by what they count; none for devices that come and go, nor for the
user, so `ComesToAnEnd` ends at the question. `GptDisk` and `ImageWriter` have none: their
properties are about safety.

Runs that are violated, each a disagreement of the code with what it says:

| run | what it shows |
|---|---|
| `GptDisk_short_violation` | `robust_write` (gpt.c:231) does not advance its buffer: `gpt_write` succeeds and the table cannot be read (in TLC's trace the MBR is spoilt) |
| `Partitioner_wrap_violation` | the unsigned difference at partitioner.c:739 wraps in a free region without a MiB boundary; the check "Insufficient disk space" passes and overlapping partitions are laid out |
| `Installer_busy_violation` | `gpt_sync_ptable`'s result is ignored (partitioner.c:940): "Installation complete!" with partitions never written |
| `Preinit_found_violation` | a failure on `/default.prop` (preinit.c:328) leaves the media mounted, each retry gets EBUSY (or fails before the mount), and the machine panics with "Couldn't find installation media!" |

## 4. Proofs

Eight modules of theorems, each about every value of the constants its component's assumptions allow.

| module | theorem | under | says |
|---|---|---|---|
| `GptDiskProofs` | `TypeCorrect` | all faults | `[]TypeOK` |
| | `KilledWriteIsOldOrNew` | no power loss, no short writes | `[]OldOrNew` |
| | `CompletedWriteIsRead` | the same | `[]WrittenIsRead` and `[]WrittenHeals` |
| | `SwitchedOnce` | the same | `SingleSwitch` |
| | `KilledWritesRefineStore` | the same | `ImplementsStore` |
| | `SyncedIsDurable` | all faults | `[]Durable` |
| | `NeverAThirdTable` | all faults | `[]PowerLossOutcome` |
| `PartitionerProofs` | `ForeignStays` | any table, ini file and answer | `[]ForeignKept` |
| | `VolumeFits` | the same | `[]NtfsFits` |
| | `TypeCorrect` | the same | `[]TypeOK` |
| | `NewTableSound` | the same | `[]NewTableIsSound` |
| | `AndroidIsComplete` | the same | `[]AndroidComplete` |
| | `AcceptedHasRoom` | the same | `[]AcceptedFits` |
| | `GapFound` | the same | `[]GapIsLargest` |
| `GptTableProofs` | `WalkFindsLargest` | any sound table | `gpt_find_contiguous_free_space` returns a longest run of free sectors |
| `PreinitProofs` | `PreinitTypeCorrect`, `InitIsOnMedia`, `PanicMeansMissed` | any devices, any number of retries and plug events | `[]TypeOK`, `[]InitHasMedia`, `[]PanicOnlyIfMissed` |
| `DiskChoiceProofs` | `ChoiceTypeCorrect`, `BootInitIsOnMedia` | the same, finitely many disks | `[]ChoiceTypeOK`, `[]InitHasMedia` of the composition |
| | `MediaIsSpared`, `NoDiskMissing`, `TargetIsAsked` | the same | `[]MediaSpared`, `[]EveryDiskOffered`, `[]TargetAsAsked` |
| `ImageWriterProofs` | `TypeCorrect`, `CopiesInOrder`, `FootersKept` | any image, volume, footer and chunk | `[]TypeOK`, `[]WrittenInOrder`, `[]FileSystemFits` |
| | `ImageWriterImplementsCell` | the same | `ImplementsCell`, which excepts what follows a read taken for the end of the image |
| `InstallerProofs` | `TypeCorrect` | any partition list, disk and configuration, any number of runs; power loss, failures, a kernel that keeps the old table | `[]TypeOK` |
| | `ForeignSafe` | the same | `[]ForeignUntouched` |
| | `CommandSafe` | the same | `[]CommandHasPackage` |
| | `MountsExclude` | the same | `[]NoWriteUnderMount` |
| | `CompleteMeansInstalled` | the same | `[]CompleteIsInstalled` |
| | `EntryComesLast`, `MenuIsFresh` | the same, whatever `remove()` fails on | `[]EntryLeadsToAndroid`, `[]NoStaleEntries`, which except the files that could not be removed |
| `DiskLabelProofs` | `TypeCorrect` | any layout, images, disk and sector size | `[]TypeOK` |
| | `AppliesTheChecked` | the same | `[]AppliesWhatItChecked` |
| | `ImagesLieInPlace` | the same | `[](InRange => ImagesInPlace)` |
| | `ReadsBack`, `NothingIsShared` | the same | `[](InRange => ReadBackIsLayout)`, `[](InRange => NothingShared)` |
| | `KilledLeavesPart` | the same, killed at any write | `[](InRange => KilledIsPartOfNew)` |

Assumptions, all evaluated by TLC on the instances: the contents of `GptDisk` are distinct; a device
of `Preinit` is on one disk, and only a file system holds the cookie; `UintWidth` exceeds the list;
a volume, and a footer with a kilobyte added, are below `Word`. For `Partitioner` (`SizesAssumption`, `PartListAssumption`,
`DisksAssumption`): a MiB holds the header and entries of a table, the shifted counters fit their word, the names of the partition list are
distinct, its bootloader is an ESP, at most one of its lengths is negative, and only the two bootloaders have a name that begins as
theirs do (`sumsizes_cb` compares ten characters, `Prefixed`; a third such name would not be counted); a table that is found has its partitions
in the usable range and apart from each other and fits the disk, an ESP in it has no name of Android's but `android_bootloader`, and an NTFS volume is
no larger than its partition. For `Installer`: names of the partition list are
distinct, the three partitions the plugins mount are in it and are formatted, the boot images are of the list, and
the tables found have no two entries on one cell (the disk may hold anything else, but for a recovery command without its package).
For `DiskLabel` (`LayoutsAssumption`): what `load_diskconfig` accepts, i.e. numbers of 32 bits and a start that is not 0.

*GptDisk.* `OldOrNew` and `WrittenIsRead` are not inductive: they do not say what has been
written so far. The strengthening `IInv` says that the page cache is what this `gpt_write` found,
except that the first `step` structures of `WriteOrder` hold the image of the target (`Progressed`). Each
action keeps it, and the properties follow from it by cases on `step`. The
refinement uses the same invariant: the primary header loses the table (`FallBack`), its
entries publish the new one, the backup's header and entries break and settle the
fallback, and the MBR makes both visible on a disk that had none. Durability needs another
strengthening (`SyncInv`: as long as `durable` is set, both cache and platter have it and agree), and
the outcome of a power loss a third (`LossInv`: every structure, in the cache and on the platter, is as
found, as targeted, or garbage).

*Partitioner.* There are three invariants, each resting on those before it.

`IInv` is for `ForeignKept` and `NtfsFits`. Both are about what is on the disk, but what is written is the table in memory, which
nothing in them mentions. The invariant says of that table, at every stage between reading and
writing, that it still holds all foreign entries (`Kept`) and that the NTFS volume fits the entry it has there (`Holds`);
of the options, that the indices in them are those of entries in use; and of the disk, that it holds the
old table or one of which the same can be said. The lemmas it needs are about `GptTable`:
a new entry goes to an index nobody has (`NextIndexFree`, `Created`), deleting Android's entries
(`Deleted`), naming the ESP (`Named`) and shortening Windows (`LastSet`) leave every other entry alone.

`LInv` is for `TypeOK`, `NewTableIsSound`, `AndroidComplete` and `GapIsLargest`. While partitions are made it says (`Layout`) that the next one starts at the sum of
the lengths of those before it (`RunningSums(Planned)`), that no entry in use reaches into what is left of the
region (`Room`), and that every partition made so far is in its entry, of its length, and the only one of its name (`Progress`).
That the last one still fits is `PlannedFits`: the planned lengths, with what the growing partition takes, sum up to no more than the
region, so no counter wraps and none of the shifts loses a bit. Sums are reasoned about by least counterexamples
(`SumsStep`, `SumsGrow`, `SumsAdd`, `SumsOne`), as induction is not available. `~Wrapped`, in the properties, is needed: in a region
without a MiB boundary the check for space lets anything pass (the run `Partitioner_wrap_violation`).

`Promise` is for `AcceptedFits`, and follows the sums from the questions to the execution: what was compared with what
(`Questioned`), what the answer leaves behind Windows (`Answered`), that the table in memory has it there, from one MiB boundary on
(`Granted`), and that nothing but Android has gone (`Cleared`). The questions add sectors, the execution MiB rounded down;
that they agree rests on everything in the sum being whole MiB (`NeedSettled`, `ResizeLeaves`), on the free region behind Windows being the largest once
Android is deleted (`AllBehind`, `DualFits`), and for a wipe on the two MiB that are shaved off (`WipeFits`). The proof showed that the layouts
the code reckons with have to be described more closely than by MiB boundaries alone; `Tidy` says what it takes.

*Preinit.* `PanicOnlyIfMissed` looks at the end of the last scan; the invariant (`Missed`) says at every
step of a scan that, if nothing has failed, no disk already looked at holds the cookie, with the partitions still to do
as the exception; `Mounts` says that only media are left mounted, and which disk is at hand while they are.

*DiskChoice.* Its steps are preinit's steps or leave preinit's variables alone (`BootStepIsPreinitStep`), so
preinit's invariant holds of the composition. With it, and as `prop` does not change once init
runs, the list never holds the media; a disk chosen is in the list; and a dual boot only executes on a
disk that is. `TargetAsAsked` rests on `WalkEnds`: for a number of the list the walk neither wraps nor reaches the list head.

*ImageWriter.* `WrittenInOrder` is inductive only with `Level`: what `xwrite` still has to write is what separates the two
offsets, and its pointer is at the block that follows the last one written. The refinement then needs that a
finished copy has reached the end of the image unless it was cut short.

*Installer.* None of the properties is inductive, since none says how far the program is. The invariant `Invariant` is proved for
has a part for each thing that one operation establishes and a later one relies on, with `Past(call, op)` for
"this operation is done":

* `BeforeOK`: until the partitioner writes, the disk is as it was found, and no boot entry is of this run;
* `WiringOK`: afterwards the kernel has the new table or the one that was found; in both, different indices are different
  cells; `partition.X:index` is the entry of X, and never that of a foreign partition (but for the shared ESP);
* `MountsOK`: what is mounted is what the position in the program says, and holds a file system;
* `ForeignOK`, `PackageOK`, `ImagesOK`, `FilesOK`, `GummibootOK`: what has been written so far, where;
* `EndOK`: nothing is dirty after `sync()`, and nothing but `sync()` comes before "complete".

The lemmas come in three layers. That the n-th partition to be made gets the n-th free index makes `dev` well
defined and injective (ranks in sets of numbers; proved with least counterexamples, as induction is not
available). The position determines the operation (`Places`): a case analysis of the routines, done once. What an
operation does to cells, files and mounts (`Does`, `CellSteps`, `FileSteps`, `MountSteps`) then says for each part of the invariant which few
operations concern it. That nothing written is overwritten later comes from `WiringOK`: the later operations are on other
partitions, and other partitions are other cells whichever table the kernel has.

*DiskLabel.* The first pass changes the `struct disk_info` the second one works from: it numbers the sectors and replaces the
length of a logical partition that takes the rest. So `IInv` has to say, while `apply_disk_config` is to come, that `dinfo` and `checked` are
what `config_mbr` makes of some disk, and `SecondPass` that `config_mbr` of its own result has similar writes.
Turn by turn (`TurnByTurn` is induction over the turns, by a least counterexample), a pass keeps the number of partitions and the lengths but for the
one it replaces (`TurnsKeep`), and two passes agree on where a partition begins, and but for the last on where it ends (`TurnsAgree`). That the
last one only becomes shorter is `KeptFits`: sectors to kilobytes, rounded down, and back, rounded up, is no more than before, also where 32
bits wrap or the new length happens to be `REST`.

The other properties need `InRange`: what gets an image ends below 2^32 bytes, since editdisklbl.c:183 computes an offset in 32 bits,
and what has a partition behind it below 2^32 sectors (two sectors below, so that an EBR still fits). The run satisfies it in
every state. Beyond it sums wrap, and partitions may come to lie on each other or on the MBR.

For `ImagesInPlace`, `CopyInv` says that the partitions the second pass has left begin where the one
before ends, but for an EBR (`Chained`), and that a partition has the length of its image in kilobytes (`ImagesMeasured`). Then they lie apart, one behind the other (`Apart`), an
image fits into its own (`ImageFits`, `EndsBelow`), and copying it touches no image copied before (`CopyKeeps`).

`ReadBackIsLayout`, `NothingShared` and `KilledIsPartOfNew` are about what is read, and none says what is still to be written. `TableInv` does,
counting the writes from the end of the list, as `wlist_add` does: the r-th from the end is slot r of the MBR for r up to
4, then come the EBRs and last the empty MBR (`IsWrite`). With m of them to do, slots 1 to m are empty, and the other slots and the
EBRs from the (m-1)-th partition on are what the layout wants (`TableOf`). `LayoutWrites` says that the second pass makes such a list
(turn by turn: `TurnsWrite`), `CommitKeeps` that a write adds its part without harming another, as no two EBRs are in one sector, and
`CopyKeepsTable` that no image goes over the MBR or an EBR. What a kernel reads follows from `TableOf` alone: the extended
partition is seen when slot 4 is there, and by then all EBRs are (`ExtStartIs`); the chain goes through them in
the order of the layout (`ChainIs`); the numbers in use are those of the partitions listed (`NumbersAre`). `ChainLba` is a recursive function; that it
is one, and what it computes, is proved by least counterexamples (`ChainFollows`).

Every invariant and refinement that the passing runs check is stated by a theorem. Only model-checked, as out of the prover's reach: liveness (`Ends`,
`ComesToAnEnd`).

## 5. Plan

Done: the modules above. What is left, in the order of what it would add:

1. A composition in which `Partitioner` refines the `Partition` step of `Installer`, as `ImageWriter` does
   for its writes.
2. `GptDisk`'s two fault actions derived from a module of gpt.c's own `robust_write`, as `ImageWriter`
   does for `xwrite`.
3. The ini file and the hash of options (`util.c`): which value wins when `iago.ini`, `iago-default.ini` and the answers
   set the same key; `ui_get_value` and its 32 bits.
4. editdisklbl on a block device, and runs with layouts above 4 GiB and lengths of zero.

## 6. Known limits and divergences

Abstractions to be aware of:

* Names, GUIDs, messages, configuration text and byte orders are values, not bytes. CRCs are ideal.
* `Partitioner` and `Installer` have one disk, which exists; which one it is, and whether it is
  still there, is the matter of `DiskChoice`, where in turn a table is not looked into. Devices keep their names in
  `DiskChoice`: one that is pulled out and comes back under another name is not modelled.
* In `Partitioner` a `die()` over an ini file that is not well-formed (a name of more than 27 characters, an unknown type or flag, a missing
  key) and for want of memory does not occur.
* `ImageWriter` leaves out the wait for the device node, which `Installer` has, and moving blocks in `resize2fs`.
* A reserved partition in the last entry of a table (out-of-bounds read at partitioner.c:331) does not occur. That `msdata_index` may
  name a wrong entry does, but no property is against it: `ForeignKept` exempts the entry it names.
* Answers above 2^32 MiB, which `ui_get_value` truncates, are beyond the bounds.
* In `Installer`, the table is laid out in any run of free cells that is long enough. Power loss
  turns a whole dirty cell to junk; the EFI boot entry is durable at once, the images it leads
  to only at `sync()`, so `EntryLeadsToAndroid` speaks of the page cache. SYSLINUX
  writes to a shared ESP directly, and power loss before `sync()` may take it along: the exception
  in `ForeignUntouched`.
* For a dual boot `AcceptedFits` speaks of tidy disks (`Tidy`): Windows from one MiB boundary to another, an old Android and nothing
  else behind it, no free MiB in front of it, and a volume whose smallest size is at least a MiB, as that of NTFS is. On others the sums of
  the questions and of the execution
  differ, as the code's own comment (partitioner.c:535) expects; below a MiB the default of the question would be
  0, which the execution takes for "leave Windows as it is".
* editdisklbl on a block device (reachable through `path` in the layout file), and its test mode
  are not modelled; no run has a layout above 4 GiB.
* Which magic numbers make a file system recognised by preinit is one predicate (`HasFs`).

Things met while reading that no run checks:

* gummiboot.c:161 writes `default boot`, whichever image is first in the list; `include/iago.h:94` says the
  first item is the default.
* config_mbr.c:261 rounds before it scales, so the check for space lets pass a partition that
  ends behind the last sector; the comment at diskconfig.c:267 says such a layout will fail later, and for a file it does not.
* diskconfig.c:56: suffix `K` multiplies by 1024 and is not brought down to kilobytes, so it
  means the same as `M`.
* diskconfig.c:357: the branch that refuses a length of zero cannot be reached.
  Its message "Zero-size partition '%s' is invalid." is never seen and the partition gets an empty entry.
* editdisklbl.c:183 computes the offset of an image in 32 bits.
* installer/util.c:240 lacks the blank between the path of fsck_msdos and `-p`, so the shell finds no such program and
  every check of a vfat image is fatal (`Check` of `ImageWriter`). The recheck at util.c:251 is
  a `continue` in a `do ... while (0)` and would not check again.
* util.c:869 lets the answer 0 pass; the walk then goes round the ring 2^32 - 1 entries far
  (`TargetAsAsked` excepts it). After an invalid answer the stale number stays the default, so Enter is invalid too.
* util.c:112: see `cut` above; `read(2)` of a regular file is not interrupted on Linux, so this is listed here and not as a finding. The zeroing at
  imagewriter.c:103 gives up on EINTR, where `xwrite` repeats.
* partitioner.c:907: provisioning wipes `install_disk` of its ini file, also if that is the media it runs from.
* preinit.c:328: if `/default.prop` fails on one media and another turns up, the second is mounted on top of the first.

## 7. Not modelled

* `newfs_msdos.c`: third party, one operation here.
* `gptdump`, `dump_diskconfig`: they print what the libraries have read.
* `plugins/userfastboot`: its plugin has no functions.
* `tools/`, the make files, `init*.rc`, `loader/`, `isolinux.cfg`, pictures: they build the media
  or are static.
* In modelled components: texts and logging, GUID generation, byte orders and UTF-16 names, `get_bus_name` and the model of a
  disk, the parsers of `util.c`, the questions of the boot loader plugins, the test mode of editdisklbl.
