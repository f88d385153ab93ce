----------------------------- MODULE Installer ------------------------------
(***************************************************************************)
(* iagod from the combined ini file to "iago.state = complete": main.c and *)
(* the execution phase of its plugins, in the order main() adds them:      *)
(* partitioner, imagewriter, ota, a bootloader (gummiboot or syslinux) and *)
(* finalizer.  Beside it run ueventd, which makes and removes the device   *)
(* nodes, the kernel, which may refuse to read the new partition table,    *)
(* and whoever switches the machine off and on again.                      *)
(*                                                                         *)
(* A partition is one cell of the disk; where partitions may lie and how   *)
(* the table gets onto the disk is the matter of Partitioner and GptDisk.  *)
(* The execute functions are straight-line code, called one after the      *)
(* other: each is given as the sequence of its operations, and the actions *)
(* say what an operation does.                                             *)
(***************************************************************************)
EXTENDS Integers, SequencesExt

CONSTANTS
    PartList,    \* base:partitions: name, type and mode of each
    NumEntries,  \* entries of a partition table
    NumCells,    \* cells of the disk
    Layouts,     \* what may be on the disk: a table and the cells
    Loaders,     \* values of base:bootloader
    Otas,        \* whether base:ota may be, or may not be, given
    BootLists,   \* values of base:bootimages
    MaxWait,     \* the count of the stat() loop (90)
    MaxRuns,     \* bound: how often the machine is started from the media
    PowerLoss,   \* whether power may be lost
    BusyDisk     \* whether BLKRRPART may fail

ASSUME InstallerAssumption ==
    /\ NumEntries \in Nat /\ NumCells \in Nat
    /\ MaxWait \in Nat /\ MaxRuns \in Nat \ {0}
    /\ Otas \subseteq BOOLEAN /\ PowerLoss \in BOOLEAN /\ BusyDisk \in BOOLEAN
    /\ Loaders \subseteq {"gummiboot", "syslinux", "none"}

VARIABLES
    state,    \* iago.state; "dead" after die(), "off" without power
    conf,     \* the combined ini with the user's answers
    table,    \* the partition table on the disk
    kernel,   \* the partition table the kernel works with
    nodes,    \* the indices that have a device node
    doomed,   \* those of them that ueventd has yet to remove
    cells,    \* what a read of each cell returns
    dirty,    \* the cells that are not wholly on the platter
    dev,      \* partition.X:index and :device
    mounted,  \* the indices that are mounted
    call,     \* the call of execution_phase that is being executed
    pc,       \* the operation of it that is next
    busy,     \* ... and whether it is half done
    waited,   \* seconds the stat() loop has waited
    boot,     \* the run that made the EFI boot entry, and the MBR code
    target,   \* base:reboot_target
    run,      \* number of this run: tags the GUIDs it generates
    found,    \* history: table and cells as the run found them
    left      \* history: the files under /loader that remove() failed on

setup == <<conf, dev, run, found, left>>
disk == <<table, cells, dirty>>
devices == <<kernel, nodes, doomed>>
process == <<call, pc, busy, waited>>
booting == <<boot, target>>
vars == <<state, setup, disk, devices, mounted, process, booting>>

Names == {PartList[k].name : k \in DOMAIN PartList}
Indices == 1 .. NumEntries

\* The sections of the ini files: a name stands for one partition ("esp" is the
\* name of an ESP without NAME_MAGIC), and the plugins mount three of them.
ASSUME PartListAssumption ==
    /\ PartList \in Seq([name : STRING, type : STRING, mode : STRING])
    /\ \A j, k \in DOMAIN PartList : PartList[j].name = PartList[k].name => j = k
    /\ "esp" \notin Names
    /\ {"bootloader", "cache", "factory"} \subseteq Names
    /\ \A k \in DOMAIN PartList :
         PartList[k].name \in {"bootloader", "cache", "factory"} => PartList[k].mode = "format"

\* The boot images are partitions of the list.
ASSUME BootListsAssumption == BootLists \subseteq Seq(Names)

-----------------------------------------------------------------------------
(* Tables and cells *)

NoPart == [cell |-> 0, name |-> "none", guid |-> 0]

Used(t) == {i \in Indices : t[i].cell # 0}

\* The ESP is there under its own name or that of an earlier installation.
Esp(t) == {i \in Used(t) : t[i].name \in {"esp", "bootloader"}}

\* The partitions delete_android removes.
AndroidEntries(t) == {i \in Used(t) : t[i].name \in Names \ {"bootloader"}}

Content(kind, of) == [kind |-> kind, of |-> of, files |-> {}]
Junk == Content("junk", "none")

File(name, part, guid, whole) ==
    [name |-> name, part |-> part, guid |-> guid, whole |-> whole]

\* The file system of a cell after a file was written.
WithFile(c, f) ==
    [c EXCEPT !.files = {g \in @ : g.name # f.name \/ g.part # f.part} \cup {f}]

HasWhole(c, name) == \E f \in c.files : f.name = name /\ f.whole

HasCommand(c) == \E f \in c.files : f.name = "recovery/command"

Tables == [Indices -> [cell : 0 .. NumCells, name : Names \cup {"none", "esp", "windows"},
                       guid : 0 .. MaxRuns]]

\* No two entries of a table share a cell.
NoneShared(t) == \A i, j \in Used(t) : t[i].cell = t[j].cell => i = j

\* The files of the plugins; "windows" stands for those of others.
FileNames == {"ota.zip", "recovery/command", "gummiboot.efi", "shim.efi", "EFI/Boot",
              "loader.conf", "entry", "ldlinux.sys", "vesamenu.c32", "android.c32",
              "syslinux.cfg", "install.prop", "windows"}

Files == [name : FileNames, part : Names \cup {"none", "boot"}, guid : 0 .. MaxRuns,
          whole : BOOLEAN]

Cells == [kind : {"fs", "image", "zero", "junk", "windows"},
          of : Names \cup {"none", "windows"}, files : SUBSET Files]

\* The disks: any table in which no two partitions share a cell, with anything
\* in the cells but a command without its package.
ASSUME LayoutsAssumption ==
    \A l \in Layouts :
        /\ l.table \in Tables /\ NoneShared(l.table)
        /\ l.cells \in [1 .. NumCells -> Cells]
        /\ \A c \in 1 .. NumCells : HasCommand(l.cells[c]) => HasWhole(l.cells[c], "ota.zip")

-----------------------------------------------------------------------------
(* The programs *)

Op(do, part)           == [do |-> do, part |-> part, file |-> "none", of |-> "none"]
Write(part, file)      == [do |-> "file", part |-> part, file |-> file, of |-> "none"]
WriteFor(part, file, p) == [do |-> "file", part |-> part, file |-> file, of |-> p]

\* The mode of the ini file, whatever execute_dual_boot does.
ModeKept(c, p) == p.mode

\* execute_dual_boot has set the mode of the ESP.
ModeOf(c, p) == IF c.dual /\ p.name = "bootloader" THEN "skip" ELSE p.mode

\* execute_cb of imagewriter.c; the checks of a vfat image do not come to an end
\* (see ImageWriter).
WritePartition(c, p) ==
    LET mode  == ModeOf(c, p)
        do(x) == Op(x, p.name)
    IN  CASE mode = "format" -> <<do("wait"), do("mkfs")>>
          [] mode = "image"  -> CASE p.type = "ext4" -> <<do("wait"), do("dd"), do("fsck")>>
                                  [] p.type = "vfat" -> <<do("wait"), do("dd"), do("stop")>>
                                  [] OTHER           -> <<do("wait"), do("dd")>>
          [] mode = "zero"   -> <<do("wait"), do("zero")>>
          [] mode = "skip"   -> <<do("wait")>>
          [] OTHER           -> <<do("wait"), do("stop")>>

\* The command file before the package it names.
OtaCommandFirst(c) ==
    IF ~c.ota THEN << >>
    ELSE <<Op("mount", "cache"), Write("cache", "recovery/command"),
           Write("cache", "ota.zip"), Op("umount", "cache"), Op("reboot", "recovery")>>

ota_execute(c) ==
    IF ~c.ota THEN << >>
    ELSE <<Op("mount", "cache"), Write("cache", "ota.zip"),
           Write("cache", "recovery/command"), Op("umount", "cache"),
           Op("reboot", "recovery")>>

BootEntries(c) == [k \in DOMAIN c.boots |-> WriteFor("bootloader", "entry", c.boots[k])]

\* gummiboot_execute with the entries of earlier installations kept.
GummibootKeepsEntries(c) ==
    <<Op("mount", "bootloader"), Write("bootloader", "gummiboot.efi"),
      Write("bootloader", "shim.efi"), Write("bootloader", "EFI/Boot"),
      WriteFor("bootloader", "loader.conf", "boot")>>
    \o BootEntries(c)
    \o <<Op("efibootmgr", "bootloader"), Op("umount", "bootloader")>>

\* gummiboot_execute with efibootmgr called before the files are there.
GummibootEntryFirst(c) ==
    <<Op("efibootmgr", "bootloader"), Op("mount", "bootloader"),
      Write("bootloader", "gummiboot.efi"),
      Write("bootloader", "shim.efi"), Write("bootloader", "EFI/Boot"),
      Op("rmtree", "bootloader"), WriteFor("bootloader", "loader.conf", "boot")>>
    \o BootEntries(c)
    \o <<Op("umount", "bootloader")>>

\* gummiboot_execute; loader.conf says "default boot".
gummiboot_execute(c) ==
    <<Op("mount", "bootloader"), Write("bootloader", "gummiboot.efi"),
      Write("bootloader", "shim.efi"), Write("bootloader", "EFI/Boot"),
      Op("rmtree", "bootloader"), WriteFor("bootloader", "loader.conf", "boot")>>
    \o BootEntries(c)
    \o <<Op("efibootmgr", "bootloader"), Op("umount", "bootloader")>>

\* syslinux_execute with the installer of SYSLINUX run on a mounted ESP.
SyslinuxMountFirst ==
    <<Op("mbr", "bootloader"), Op("mount", "bootloader"), Op("ldlinux", "bootloader"),
      Write("bootloader", "vesamenu.c32"), Write("bootloader", "android.c32"),
      Write("bootloader", "syslinux.cfg"), Op("umount", "bootloader")>>

\* syslinux_execute; syslinux.cfg names the boot images by their index.
syslinux_execute ==
    <<Op("mbr", "bootloader"), Op("ldlinux", "bootloader"), Op("mount", "bootloader"),
      Write("bootloader", "vesamenu.c32"), Write("bootloader", "android.c32"),
      Write("bootloader", "syslinux.cfg"), Op("umount", "bootloader")>>

Bootloader(c) == CASE c.loader = "gummiboot" -> gummiboot_execute(c)
                   [] c.loader = "syslinux"  -> syslinux_execute
                   [] c.loader = "none"      -> << >>

finalizer_execute ==
    <<Op("mount", "factory"), Write("factory", "install.prop"), Op("umount", "factory")>>

EndingUnsynced == <<Op("complete", "none")>>

\* The end of execution_phase: sync(), then iago.state.
Ending == <<Op("sync", "none"), Op("complete", "none")>>

\* The combined ini file with the answers of the user.
Confs == [dual : BOOLEAN, loader : Loaders, ota : Otas, boots : BootLists]

\* The calls that execution_phase makes of the plugins; the imagewriter calls
\* execute_cb for each partition of the list.
Calls == Len(PartList) + 5

Routine(c, k) ==
    CASE k = 1                        -> <<Op("partition", "none")>>
      [] k \in 2 .. Len(PartList) + 1 -> WritePartition(c, PartList[k - 1])
      [] k = Len(PartList) + 2        -> ota_execute(c)
      [] k = Len(PartList) + 3        -> Bootloader(c)
      [] k = Len(PartList) + 4        -> finalizer_execute
      [] k = Calls                    -> Ending

Code == Append(Routine(conf, call), Op("return", "none"))
Now == Code[pc]

Doing(ops) == state = "executing" /\ Now.do \in ops

-----------------------------------------------------------------------------
(* Starting *)

Init ==
    /\ \E l \in Layouts : /\ table = l.table
                          /\ cells = l.cells
    /\ state = "preparing"
    /\ conf \in Confs
    /\ kernel = table
    /\ nodes = Used(table)
    /\ doomed = {}
    /\ dirty = {}
    /\ dev = [p \in Names |-> 0]
    /\ mounted = {}
    /\ call = 1
    /\ pc = 1
    /\ busy = FALSE
    /\ waited = 0
    /\ boot = [efi |-> 0, mbr |-> FALSE]
    /\ target = "none"
    /\ run = 1
    /\ found = [table |-> table, cells |-> cells]
    /\ left = {}

NextOp == pc' = pc + 1 /\ UNCHANGED call

\* The preparation phase and the questions end with a complete configuration.
Configure ==
    /\ state = "preparing"
    /\ state' = "executing"
    /\ UNCHANGED <<setup, disk, devices, process, booting, mounted>>

\* An execute function returns, and the next one is called.
Return ==
    /\ Doing({"return"})
    /\ call' = call + 1
    /\ pc' = 1
    /\ UNCHANGED <<setup, disk, devices, booting, state, mounted, busy, waited>>

-----------------------------------------------------------------------------
(* The partitioner *)

\* The entries that stay in the table create_android_partitions starts from.
Kept == IF conf.dual THEN Used(table) \ AndroidEntries(table) ELSE {}

Free == Indices \ Kept

\* The partitions that mkpart_cb makes.
Made == {k \in DOMAIN PartList : ~(conf.dual /\ PartList[k].name = "bootloader")}

\* How many elements of a set of numbers are up to n.
Rank(S, n) == Cardinality({m \in S : m <= n})

\* The partition that gets the index: gpt_next_index gives the n-th one that
\* is made the n-th free index.
MadeAt(i) == {k \in Made : i \in Free /\ Rank(Made, k) = Rank(Free, i)}

\* The table with the new partitions in the free cells from c on; the shared
\* ESP gets its name.
NewTable(c) ==
    [i \in Indices |->
       IF MadeAt(i) # {}
       THEN LET k == CHOOSE k \in MadeAt(i) : TRUE
            IN  [cell |-> c + Rank(Made, k) - 1, name |-> PartList[k].name, guid |-> run]
       ELSE IF i \notin Kept THEN NoPart
       ELSE IF i = Min(Esp(table)) THEN [table[i] EXCEPT !.name = "bootloader"]
       ELSE table[i]]

\* What partitioner_execute may write: nothing without an ESP to share or
\* without a free region that is big enough.
NewTables ==
    LET count  == Cardinality(Made)
        taken  == {table[i].cell : i \in Kept}
        starts == {c \in 1 .. NumCells : /\ c + count - 1 <= NumCells
                                         /\ (c .. c + count - 1) \cap taken = {}}
    IN  IF (conf.dual /\ Esp(table) = {}) \/ Cardinality(Free) < count
        THEN {} ELSE {NewTable(c) : c \in starts}

\* The index that partition.X:index and :device get: that of the ESP, or that
\* which gpt_entry_create returned.
NewIndex(p, t) ==
    IF conf.dual /\ p = "bootloader" THEN Min(Esp(table))
    ELSE CHOOSE i \in Used(t) : t[i].name = p

\* partitioner_execute: gpt_write, then gpt_sync_ptable, the result of which
\* is not looked at.  If the kernel does read the table again, ueventd has
\* to remove every device node and to make the new ones.
Partition ==
    /\ Doing({"partition"})
    /\ table' \in NewTables
    /\ dev' = [p \in Names |-> NewIndex(p, table')]
    /\ \/ /\ kernel' = table'
          /\ doomed' = nodes
       \/ /\ BusyDisk
          /\ UNCHANGED <<kernel, doomed>>
    /\ NextOp
    /\ UNCHANGED <<booting, state, conf, cells, dirty, nodes, mounted, busy, waited,
                   run, found, left>>

\* die() in the partitioner, which may have written the table by then.
PartitionFails ==
    /\ Doing({"partition"})
    /\ state' = "dead"
    /\ table' \in NewTables \cup {table}
    /\ UNCHANGED <<setup, devices, process, booting, cells, dirty, mounted>>

\* ueventd works off the kernel's events: the removals, then the additions
\* (after the execution phase nobody looks at the nodes again).
Uevent ==
    /\ state = "executing"
    /\ \/ /\ doomed # {}
          /\ nodes' = nodes \ {Min(doomed)}
          /\ doomed' = doomed \ {Min(doomed)}
       \/ /\ doomed = {}
          /\ Used(kernel) \ nodes # {}
          /\ nodes' = nodes \cup {Min(Used(kernel) \ nodes)}
          /\ UNCHANGED doomed
    /\ UNCHANGED <<setup, disk, process, booting, state, kernel, mounted>>

-----------------------------------------------------------------------------
(* The operations of the other plugins *)

\* The cell the kernel takes for that of the partition.
Target(op) == kernel[dev[op.part]].cell

Openable(op) == dev[op.part] \in nodes /\ Target(op) # 0

\* while (stat(device, &sb)), without an end.
WaitMoreForever == waited' = waited

\* ... or with one more round.
WaitMoreLate == waited <= MaxWait /\ waited' = waited + 1

\* if (!count--) die()
WaitMore == waited < MaxWait /\ waited' = waited + 1

WaitForDevice ==
    /\ Doing({"wait"})
    /\ \/ /\ dev[Now.part] \in nodes
          /\ NextOp
          /\ waited' = 0
       \/ /\ dev[Now.part] \notin nodes
          /\ WaitMore
          /\ UNCHANGED <<call, pc>>
    /\ UNCHANGED <<setup, disk, devices, booting, state, mounted, busy>>

BlockWrites == {"mkfs", "dd", "fsck", "zero", "ldlinux"}

\* make_ext4fs, newfs_msdos, dd, the checks, the zeroing and SYSLINUX begin to
\* write to the device.
BeginWrite ==
    /\ Doing(BlockWrites) /\ ~busy
    /\ Openable(Now)
    /\ cells' = [cells EXCEPT ![Target(Now)] =
                   IF Now.do = "ldlinux" THEN @ ELSE Junk]
    /\ dirty' = dirty \cup {Target(Now)}
    /\ busy' = TRUE
    /\ UNCHANGED <<setup, devices, booting, state, table, mounted, call, pc, waited>>

Written(op) ==
    CASE op.do = "mkfs"            -> Content("fs", op.part)
      [] op.do \in {"dd", "fsck"}  -> Content("image", op.part)
      [] op.do = "zero"            -> Content("zero", "none")
      [] op.do = "ldlinux"         -> WithFile(cells[Target(op)],
                                               File("ldlinux.sys", "none", run, TRUE))

FinishWrite ==
    /\ Doing(BlockWrites) /\ busy
    /\ cells' = [cells EXCEPT ![Target(Now)] = Written(Now)]
    /\ busy' = FALSE
    /\ NextOp
    /\ UNCHANGED <<setup, devices, booting, state, table, dirty, mounted, waited>>

\* mount_partition_device; all mounts are synchronous.  EBUSY is no error to it:
\* a partition that is in use, which is one that has made BLKRRPART fail, is not
\* mounted, and the plugin works on the empty directory instead.
Mount ==
    /\ Doing({"mount"})
    /\ Openable(Now)
    /\ \/ /\ cells[Target(Now)].kind = "fs"
          /\ mounted' = mounted \cup {dev[Now.part]}
       \/ /\ kernel # table
          /\ UNCHANGED mounted
    /\ NextOp
    /\ UNCHANGED <<setup, disk, devices, booting, state, busy, waited>>

FileOf(whole) ==
    File(Now.file, Now.of, IF Now.of \in Names THEN table[dev[Now.of]].guid ELSE run, whole)

\* What is done to the mountpoint is done to the partition if that is mounted.
OnMounted(c) ==
    cells' = IF dev[Now.part] \in mounted THEN [cells EXCEPT ![Target(Now)] = c] ELSE cells

\* copy_file or xopen opens the file, which is not what it is to be ...
OpenFile ==
    /\ Doing({"file"}) /\ ~busy
    /\ OnMounted(WithFile(cells[Target(Now)], FileOf(FALSE)))
    /\ busy' = TRUE
    /\ UNCHANGED <<setup, devices, booting, state, table, dirty, mounted, call, pc, waited>>

\* loader.conf alone may be there before and is opened without O_TRUNC: the end
\* of a longer one stays.
KeepsEnd == Now.file = "loader.conf" /\ \E f \in left : f.name = "loader.conf"

\* ... and it is filled.
CloseFile ==
    /\ Doing({"file"}) /\ busy
    /\ \E whole \in BOOLEAN : /\ whole \/ KeepsEnd
                              /\ OnMounted(WithFile(cells[Target(Now)], FileOf(whole)))
    /\ busy' = FALSE
    /\ NextOp
    /\ UNCHANGED <<setup, devices, booting, state, table, dirty, mounted, waited>>

\* The files under /loader.
Tree == IF dev[Now.part] \in mounted
        THEN {f \in cells[Target(Now)].files : f.name \in {"loader.conf", "entry"}}
        ELSE {}

\* nftw over /loader with delete_cb: one file after the other is removed, or is
\* not; the results of remove() and of nftw are not looked at.
RemoveTree ==
    /\ Doing({"rmtree"})
    /\ \/ /\ \E f \in Tree : cells' = [cells EXCEPT ![Target(Now)].files = @ \ {f}]
          /\ UNCHANGED <<call, pc, left>>
       \/ /\ left' = Tree
          /\ NextOp
          /\ UNCHANGED cells
    /\ UNCHANGED <<conf, dev, run, found, devices, booting, state, table, dirty, mounted,
                   busy, waited>>

\* The short operations: umount, efibootmgr, dd of the MBR code, the reboot
\* target and sync().
Umount ==
    /\ Doing({"umount"})
    /\ mounted' = mounted \ {dev[Now.part]}
    /\ NextOp
    /\ UNCHANGED <<setup, disk, devices, booting, state, busy, waited>>

InstallBootCode ==
    /\ Doing({"efibootmgr", "mbr"})
    /\ boot' = IF Now.do = "mbr" THEN [boot EXCEPT !.mbr = TRUE]
                                 ELSE [boot EXCEPT !.efi = run]
    /\ NextOp
    /\ UNCHANGED <<setup, disk, devices, state, mounted, busy, waited, target>>

SetReboot ==
    /\ Doing({"reboot"})
    /\ target' = Now.part
    /\ NextOp
    /\ UNCHANGED <<setup, disk, devices, state, mounted, busy, waited, boot>>

Sync ==
    /\ Doing({"sync"})
    /\ dirty' = {}
    /\ NextOp
    /\ UNCHANGED <<setup, devices, booting, state, table, cells, mounted, busy, waited>>

Complete ==
    /\ Doing({"complete"})
    /\ state' = "complete"
    /\ UNCHANGED <<setup, disk, devices, process, booting, mounted>>

\* die() in an operation, at its start or in its middle; the bootloader plugins
\* handle the SIGABRT it raises and unmount the ESP.
Die ==
    /\ Doing({"wait", "stop", "mount", "file", "rmtree", "efibootmgr", "mbr"} \cup BlockWrites)
    /\ state' = "dead"
    /\ mounted' = mounted \ {dev["bootloader"]}
    /\ UNCHANGED <<setup, disk, devices, process, booting>>

\* The operations that cannot but fail: no table can be made, the node did not
\* appear, the device cannot be opened or holds no file system.
CannotProceed ==
    /\ state = "executing"
    /\ CASE Now.do = "partition" -> NewTables = {}
         [] Now.do = "wait"      -> dev[Now.part] \notin nodes /\ waited = MaxWait
         [] Now.do = "stop"      -> TRUE
         [] Now.do \in BlockWrites -> ~busy /\ ~Openable(Now)
         [] Now.do = "mount"     -> ~Openable(Now) \/ cells[Target(Now)].kind # "fs"
         [] OTHER                -> FALSE

-----------------------------------------------------------------------------
(* The machine *)

\* Whatever was not written back is lost, in whole cells here, and all that is
\* in memory.
LosePower ==
    /\ PowerLoss
    /\ state # "off"
    /\ state' = "off"
    /\ \E lost \in SUBSET {c \in dirty : cells[c] # Junk} :
          cells' = [c \in 1 .. NumCells |-> IF c \in lost THEN Junk ELSE cells[c]]
    /\ dirty' = {}
    /\ kernel' = table
    /\ nodes' = {}
    /\ doomed' = {}
    /\ mounted' = {}
    /\ call' = 1
    /\ pc' = 1
    /\ busy' = FALSE
    /\ waited' = 0
    /\ UNCHANGED <<setup, booting, table>>

\* The machine is started from the installation media again.
Restart ==
    /\ state \in {"complete", "dead", "off"}
    /\ run < MaxRuns
    /\ run' = run + 1
    /\ state' = "preparing"
    /\ conf' \in Confs
    /\ kernel' = table
    /\ nodes' = Used(table)
    /\ doomed' = {}
    /\ dirty' = {}
    /\ dev' = [p \in Names |-> 0]
    /\ mounted' = {}
    /\ call' = 1
    /\ pc' = 1
    /\ busy' = FALSE
    /\ waited' = 0
    /\ target' = "none"
    /\ found' = [table |-> table, cells |-> cells]
    /\ left' = {}
    /\ UNCHANGED <<table, cells, boot>>

Iagod ==
    \/ Configure
    \/ Return
    \/ Partition
    \/ WaitForDevice
    \/ BeginWrite
    \/ FinishWrite
    \/ Mount
    \/ OpenFile
    \/ CloseFile
    \/ RemoveTree
    \/ Umount
    \/ InstallBootCode
    \/ SetReboot
    \/ Sync
    \/ Complete

Fail == PartitionFails \/ Die

Next ==
    \/ Iagod
    \/ Fail
    \/ Uevent
    \/ LosePower
    \/ Restart

\* The process and ueventd are scheduled; nothing has to fail unless it must.
Fairness ==
    /\ WF_vars(Iagod)
    /\ WF_vars(CannotProceed /\ Fail)
    /\ WF_vars(Uevent)

Spec == Init /\ [][Next]_vars /\ Fairness

-----------------------------------------------------------------------------
(* What makes it correct *)

\* The indices, nodes and cells that the parts share are of the disk, and the
\* program counter is within the code.
TypeOK ==
    /\ state \in {"preparing", "executing", "complete", "dead", "off"}
    /\ conf \in Confs
    /\ table \in Tables /\ kernel \in Tables
    /\ nodes \subseteq Indices /\ doomed \subseteq nodes
    /\ cells \in [1 .. NumCells -> Cells] /\ dirty \subseteq 1 .. NumCells
    /\ dev \in [Names -> 0 .. NumEntries]
    /\ mounted \subseteq Indices
    /\ call \in 1 .. Calls /\ pc \in 1 .. Len(Code)
    /\ busy \in BOOLEAN /\ waited \in 0 .. MaxWait
    /\ boot \in [efi : 0 .. run, mbr : BOOLEAN]
    /\ run \in 1 .. MaxRuns /\ left \subseteq Files
    /\ found \in [table : Tables, cells : [1 .. NumCells -> Cells]]

\* A dual boot installation changes nothing in the partitions of others, even
\* while the kernel works with the table of before and the new indices
\* lead to the cells of old partitions; of the ESP it keeps the others' files.
\* (SYSLINUX writes to the ESP past its file system and syncs nothing: power
\* lost after that may take the ESP with it.)
ForeignUntouched ==
    conf.dual =>
        \A i \in Used(found.table) \ AndroidEntries(found.table) :
            LET c == found.table[i].cell
            IN  /\ table[i].cell = c
                /\ \/ cells[c] = found.cells[c]
                   \/ /\ i = Min(Esp(found.table))
                      /\ \/ \A f \in found.cells[c].files :
                              f.name = "windows" => f \in cells[c].files
                         \/ conf.loader = "syslinux" /\ state = "off"

CellOf(p) == cells[table[dev[p]].cell]

\* What the imagewriter leaves in the cell of a partition.
Holds(p) ==
    CASE ModeOf(conf, p) = "format" -> CellOf(p.name).kind = "fs" /\ CellOf(p.name).of = p.name
      [] ModeOf(conf, p) = "image"  -> CellOf(p.name) = Content("image", p.name)
      [] ModeOf(conf, p) = "zero"   -> CellOf(p.name) = Content("zero", "none")
      [] ModeOf(conf, p) = "skip"   -> TRUE

\* The boot entry of this installation is made when what it leads to is there:
\* the loader, its configuration (if it was not written over one that could not be
\* removed), an entry for each boot image with the GUID the partition has
\* in the table, and the images.  (In the page cache: the firmware has the entry
\* before sync(), and power lost in between leaves an entry to nothing.)
EntryLeadsToAndroid ==
    boot.efi = run /\ kernel = table /\ state # "off" =>
        LET esp == CellOf("bootloader")
        IN  /\ \A f \in {"shim.efi", "gummiboot.efi"} : HasWhole(esp, f)
            /\ \/ HasWhole(esp, "loader.conf")
               \/ \E f \in left : f.name = "loader.conf"
            /\ \A k \in DOMAIN conf.boots :
                 File("entry", conf.boots[k], table[dev[conf.boots[k]]].guid, TRUE) \in esp.files
            /\ \A k \in DOMAIN PartList : Holds(PartList[k])

\* A recovery console that finds a command finds the whole package it is to
\* install, wherever the installer died or the power failed.
CommandHasPackage ==
    \A c \in 1 .. NumCells :
        HasCommand(cells[c]) => HasWhole(cells[c], "ota.zip")

\* "Installation complete!": each partition of the table holds what the ini
\* file says, the plugins' files are whole, and all of it is on the platter.
Installed ==
    /\ \A k \in DOMAIN PartList : Holds(PartList[k])
    /\ HasWhole(CellOf("factory"), "install.prop")
    /\ conf.ota => target = "recovery" /\ HasWhole(CellOf("cache"), "recovery/command")
    /\ conf.loader = "gummiboot" => boot.efi = run
    /\ conf.loader = "syslinux" => /\ boot.mbr
                                   /\ HasWhole(CellOf("bootloader"), "syslinux.cfg")
                                   /\ HasWhole(CellOf("bootloader"), "ldlinux.sys")

\* If the kernel took over the new table, "complete" means installed and
\* synced, whatever earlier runs left on the disk.
CompleteIsInstalled ==
    state = "complete" /\ kernel = table => Installed /\ dirty = {}

\* "Installation complete!" (main.c) whatever became of BLKRRPART.
CompleteAnyway == state = "complete" => Installed

\* After an installation with gummiboot each entry of the boot menu names a
\* partition that is in the table, of no earlier installation, or it is one that
\* remove() failed on, and of no boot image: an old entry of a boot image is
\* written over even then.
NoStaleEntries ==
    state = "complete" /\ conf.loader = "gummiboot" /\ kernel = table =>
        \A f \in CellOf("bootloader").files :
            f.name = "entry" =>
                \/ \E i \in Used(table) : table[i].name = f.part /\ table[i].guid = f.guid
                \/ f \in left /\ f.part \notin ToSet(conf.boots)

\* The device of a file system that is mounted is never written to directly.
NoWriteUnderMount ==
    Doing(BlockWrites) /\ busy =>
        Target(Now) \notin {kernel[i].cell : i \in mounted}

\* Without power loss or user, an execution phase that starts also ends: the
\* only loop that waits for somebody else counts.
Ends == state = "executing" ~> state # "executing"
=============================================================================
