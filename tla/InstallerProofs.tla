-------------------------- MODULE InstallerProofs ---------------------------
(***************************************************************************)
(* Proofs about Installer, for every partition list, disk, configuration   *)
(* and number of runs: what an installation writes lands in its own        *)
(* partitions, whatever table the kernel works with, and when it says that *)
(* it is complete, everything is there.                                    *)
(*                                                                         *)
(* The program counter carries the argument: each part of the invariant    *)
(* says what holds once some operation is done, and that nothing after it  *)
(* undoes it, because different partitions are different cells.            *)
(***************************************************************************)
EXTENDS Installer, FiniteSetTheorems, SequenceTheorems, WellFoundedInduction, TLAPS

-----------------------------------------------------------------------------
(* The invariant *)

OtaCall    == Len(PartList) + 2
LoaderCall == Len(PartList) + 3
FinalCall  == Len(PartList) + 4

\* The operation of a call is done.
Past(k, op) == call > k \/ (call = k /\ pc > op)

\* partitioner_execute is done (and the power did not fail since).
Partitioned == Past(1, 1)

\* The partitions of others.
Foreign == Used(found.table) \ AndroidEntries(found.table)

\* Until the partitioner writes it, the disk is as it was found.
BeforeOK ==
    /\ state = "preparing" => ~Partitioned
    /\ state \in {"preparing", "executing"} /\ ~Partitioned =>
         /\ table = found.table /\ cells = found.cells
         /\ kernel = found.table
         /\ mounted = {} /\ ~busy
    /\ state # "off" /\ ~Partitioned => boot.efi < run

\* The partitions of the installation, in the table of the disk and in that of
\* the kernel, which is the new one or the one of before.
WiringOK ==
    /\ NoneShared(table) /\ NoneShared(kernel) /\ NoneShared(found.table)
    /\ conf.dual => \A i \in Foreign : table[i].cell = found.table[i].cell
    /\ Partitioned =>
         /\ kernel \in {table, found.table}
         /\ \A p \in Names : dev[p] \in Used(table) /\ table[dev[p]].name = p
         /\ conf.dual => /\ Esp(found.table) # {}
                         /\ dev["bootloader"] = Min(Esp(found.table))
                         /\ \A p \in Names \ {"bootloader"} : dev[p] \notin Foreign

\* The partition that is mounted at this point of the program.
MountedParts ==
    CASE call = OtaCall /\ conf.ota /\ pc \in 2 .. 4 -> {"cache"}
      [] call = LoaderCall /\ conf.loader = "gummiboot" /\ pc \in 2 .. Len(conf.boots) + 8
            -> {"bootloader"}
      [] call = LoaderCall /\ conf.loader = "syslinux" /\ pc \in 4 .. 7 -> {"bootloader"}
      [] call = FinalCall /\ pc \in 2 .. 3 -> {"factory"}
      [] OTHER -> {}

\* The cell that the kernel takes for that of a partition.
CellAt(p) == kernel[dev[p]].cell

\* A mount fails silently only where the kernel has kept the table of before.
MountsOK ==
    state = "executing" =>
        /\ mounted \subseteq {dev[p] : p \in MountedParts}
        /\ kernel = table => \A p \in MountedParts : dev[p] \in mounted
        /\ \A p \in MountedParts : /\ CellAt(p) # 0
                                   /\ dev[p] \in mounted => cells[CellAt(p)].kind = "fs"
        /\ busy => /\ Now.do \in BlockWrites \cup {"file"}
                   /\ CellAt(Now.part) # 0

\* Of the foreign cells, only the shared ESP is ever written back late, and that
\* by SYSLINUX.
ForeignOK ==
    /\ ForeignUntouched
    /\ conf.dual => \A i \in Foreign : found.table[i].cell \in dirty =>
                        i = Min(Esp(found.table)) /\ conf.loader = "syslinux"

\* Between the formatting of the cache partition and the command, it holds no
\* command; when the command is to be written to it, the package is there.
PackageOK ==
    /\ CommandHasPackage
    /\ state = "executing" =>
         /\ \A k \in DOMAIN PartList :
              PartList[k].name = "cache" /\ Past(k + 1, 2) =>
                /\ CellAt("cache") # 0
                /\ ~Past(OtaCall, 3) /\ ~(call = OtaCall /\ pc = 3 /\ busy) =>
                     ~HasCommand(cells[CellAt("cache")])
         /\ call = OtaCall /\ pc = 3 /\ dev["cache"] \in mounted =>
              HasWhole(cells[CellAt("cache")], "ota.zip")

\* The partitions that the imagewriter is done with.
ImagesOK ==
    Partitioned /\ kernel = table =>
        \A k \in DOMAIN PartList :
            Past(k + 1, Len(WritePartition(conf, PartList[k]))) => Holds(PartList[k])

\* The package, the properties and the files of SYSLINUX.
FilesOK ==
    Partitioned =>
        /\ conf.ota /\ Past(OtaCall, 5) => target = "recovery"
        /\ conf.loader = "syslinux" /\ Past(LoaderCall, 1) => boot.mbr
        /\ kernel = table =>
             /\ conf.ota /\ Past(OtaCall, 3) => HasWhole(CellOf("cache"), "recovery/command")
             /\ conf.loader = "syslinux" =>
                  /\ Past(LoaderCall, 2) => HasWhole(CellOf("bootloader"), "ldlinux.sys")
                  /\ Past(LoaderCall, 6) => HasWhole(CellOf("bootloader"), "syslinux.cfg")
             /\ Past(FinalCall, 2) => HasWhole(CellOf("factory"), "install.prop")

\* An entry of the boot menu for one of the boot images.
Entry(p, whole) == File("entry", p, table[dev[p]].guid, whole)

\* remove() failed on a loader.conf.
ConfLeft == \E f \in left : f.name = "loader.conf"

\* An entry that remove() failed on stays until it is written over.
StaysBehind(f) ==
    /\ f \in left
    /\ \A k \in DOMAIN conf.boots : Past(LoaderCall, 6 + k) => f.part # conf.boots[k]

\* What gummiboot_execute has put on the ESP, and the boot entry.
GummibootOK ==
    Partitioned =>
        /\ boot.efi = run <=> /\ conf.loader = "gummiboot"
                              /\ Past(LoaderCall, Len(conf.boots) + 7)
        /\ conf.loader = "gummiboot" /\ kernel = table =>
             LET esp == CellOf("bootloader")
             IN  /\ Past(LoaderCall, 2) => HasWhole(esp, "gummiboot.efi")
                 /\ Past(LoaderCall, 3) => HasWhole(esp, "shim.efi")
                 /\ Past(LoaderCall, 6) => HasWhole(esp, "loader.conf") \/ ConfLeft
                 /\ \A k \in DOMAIN conf.boots :
                      /\ Past(LoaderCall, 6 + k)
                      /\ ~(call = LoaderCall /\ busy /\ Now.do = "file" /\ Now.of = conf.boots[k])
                      => Entry(conf.boots[k], TRUE) \in esp.files
                 /\ Past(LoaderCall, 5) =>
                      \A f \in esp.files : f.name = "entry" =>
                         \/ f.part \in Names /\ f.guid = table[dev[f.part]].guid
                         \/ StaysBehind(f)

\* The end of the program.
EndOK ==
    /\ call = Calls => pc <= 2
    /\ Past(Calls, 1) => dirty = {}
    /\ state = "complete" => call = Calls /\ pc = 2

IInv ==
    /\ TypeOK
    /\ BeforeOK
    /\ WiringOK
    /\ MountsOK
    /\ ForeignOK
    /\ PackageOK
    /\ ImagesOK
    /\ FilesOK
    /\ GummibootOK
    /\ EndOK

-----------------------------------------------------------------------------
(* Sets of numbers *)

\* A set of positive numbers has a least one, so Min is one of them.
LEMMA MinIsElement ==
    ASSUME NEW S, S \subseteq Nat, S # {}
    PROVE  Min(S) \in S /\ \A y \in S : Min(S) <= y
  <1> DEFINE below == {ss \in Nat \X Nat : ss[1] < ss[2]}
  <1>1. OpToRel(<, Nat) = below
    BY DEF OpToRel
  <1>2. PICK x \in S : \A y \in S : ~(<<y, x>> \in below)
    BY <1>1, NatLessThanWellFounded, WFMin
  <1>3. ASSUME NEW y \in S
        PROVE  x <= y
    <2>1. x \in Nat /\ y \in Nat
      OBVIOUS
    <2>2. y < x => <<y, x>> \in below
      BY <2>1
    <2> QED BY <1>2, <2>1, <2>2
  <1> QED BY <1>3 DEF Min

\* Ranks are numbers, and do not fall.
LEMMA RankType ==
    ASSUME NEW S, IsFiniteSet(S), S \subseteq Nat, NEW m \in Nat, NEW n \in Nat, m <= n
    PROVE  /\ Rank(S, m) \in Nat /\ Rank(S, n) \in Nat
           /\ Rank(S, m) <= Rank(S, n) /\ Rank(S, n) <= Cardinality(S)
  <1> DEFINE upto(k) == {x \in S : x <= k}
  <1>1. upto(n) \in SUBSET S /\ upto(m) \in SUBSET upto(n)
    <2>1. \A x \in S : x \in Nat /\ (x <= m => x <= n)
      OBVIOUS
    <2> QED BY <2>1
  <1>2. IsFiniteSet(upto(n)) /\ Cardinality(upto(n)) <= Cardinality(S)
    BY <1>1, FS_Subset
  <1>3. IsFiniteSet(upto(m)) /\ Cardinality(upto(m)) <= Cardinality(upto(n))
    BY <1>1, <1>2, FS_Subset
  <1>4. Cardinality(upto(n)) \in Nat /\ Cardinality(upto(m)) \in Nat
    BY <1>2, <1>3, FS_CardinalityType
  <1> QED BY <1>2, <1>3, <1>4 DEF Rank

\* An element's rank is above that of what lies before it.
LEMMA RankStep ==
    ASSUME NEW S, IsFiniteSet(S), S \subseteq Nat, NEW a \in S, NEW m \in Nat, m < a
    PROVE  Rank(S, m) + 1 <= Rank(S, a)
  <1> DEFINE upto(k) == {x \in S : x <= k}
  <1>1. upto(a) \in SUBSET S /\ upto(m) \in SUBSET (upto(a) \ {a}) /\ a \in upto(a)
    <2>1. a \in Nat /\ a <= a /\ \A x \in S : x \in Nat
      OBVIOUS
    <2>2. \A x \in S : x <= m => x <= a /\ x # a
      BY <2>1
    <2>3. a \in upto(a)
      BY <2>1
    <2> QED BY <2>2, <2>3
  <1>2. IsFiniteSet(upto(a))
    BY <1>1, FS_Subset
  <1>3. IsFiniteSet(upto(a) \ {a}) /\ Cardinality(upto(a) \ {a}) = Cardinality(upto(a)) - 1
    BY <1>1, <1>2, FS_RemoveElement
  <1>4. IsFiniteSet(upto(m)) /\ Cardinality(upto(m)) <= Cardinality(upto(a) \ {a})
    BY <1>1, <1>3, FS_Subset
  <1>5. Cardinality(upto(a)) \in Nat /\ Cardinality(upto(m)) \in Nat
    BY <1>2, <1>4, FS_CardinalityType
  <1> QED BY <1>3, <1>4, <1>5 DEF Rank

\* Different elements have different ranks, from 1 on.
LEMMA RankInjective ==
    ASSUME NEW S, IsFiniteSet(S), S \subseteq Nat \ {0}, NEW a \in S, NEW b \in S
    PROVE  /\ Rank(S, a) \in 1 .. Cardinality(S)
           /\ Rank(S, a) = Rank(S, b) => a = b
  <1>0. S \subseteq Nat /\ a \in Nat /\ b \in Nat /\ 0 < a /\ 0 <= a /\ a <= a /\ b <= b
    OBVIOUS
  <1>1. /\ Rank(S, 0) \in Nat /\ Rank(S, a) \in Nat /\ Rank(S, b) \in Nat
        /\ Rank(S, a) <= Cardinality(S)
    BY <1>0, RankType
  <1>2. Rank(S, 0) + 1 <= Rank(S, a)
    BY <1>0, RankStep
  <1>3. a < b => Rank(S, a) + 1 <= Rank(S, b)
    BY <1>0, RankStep
  <1>4. b < a => Rank(S, b) + 1 <= Rank(S, a)
    BY <1>0, RankStep
  <1>5. Cardinality(S) \in Nat
    BY FS_CardinalityType
  <1> QED BY <1>0, <1>1, <1>2, <1>3, <1>4, <1>5

\* Each number up to the size of the set is the rank of an element.
LEMMA RankOnto ==
    ASSUME NEW N \in Nat, NEW S, S \subseteq 1 .. N, NEW r \in 1 .. Cardinality(S)
    PROVE  \E i \in S : Rank(S, i) = r
  <1> DEFINE reach == {m \in Nat : r <= Rank(S, m)}
             i == Min(reach)
  <1>1. IsFiniteSet(S) /\ S \subseteq Nat /\ \A x \in S : x \in Nat /\ 1 <= x /\ x <= N
    <2>1. IsFiniteSet(1 .. N)
      BY FS_Interval
    <2>2. S \in SUBSET (1 .. N)
      OBVIOUS
    <2>3. IsFiniteSet(S)
      BY <2>1, <2>2, FS_Subset
    <2> QED BY <2>3
  <1>2. N \in reach
    <2>1. {x \in S : x <= N} = S
      BY <1>1
    <2> QED BY <2>1 DEF Rank
  <1>3. i \in Nat /\ r <= Rank(S, i) /\ \A m \in Nat : r <= Rank(S, m) => i <= m
    BY <1>2, MinIsElement
  <1>4. Rank(S, 0) = 0
    <2>1. \A x \in S : ~(x <= 0)
      BY <1>1
    <2>2. {x \in S : x <= 0} = {}
      BY <2>1
    <2> QED BY <2>2, FS_EmptySet DEF Rank
  <1>5. i # 0 /\ i - 1 \in Nat
    BY <1>3, <1>4
  <1>6. /\ Rank(S, i - 1) \in Nat /\ Rank(S, i) \in Nat
        /\ Rank(S, i - 1) <= r - 1
    <2>1. Rank(S, i - 1) \in Nat /\ Rank(S, i) \in Nat
      BY <1>1, <1>3, <1>5, i <= i, i - 1 <= i - 1, RankType
    <2>2. ~(r <= Rank(S, i - 1))
      BY <1>3, <1>5
    <2> QED BY <2>1, <2>2
  <1> DEFINE before == {x \in S : x <= i - 1}
  <1>7. CASE i \in S
    <2>1. {x \in S : x <= i} = before \cup {i}
      <3>1. \A x \in S : x <= i <=> (x <= i - 1 \/ x = i)
        BY <1>1, <1>3
      <3> QED BY <1>7, <3>1
    <2>2. IsFiniteSet(before)
      BY <1>1, FS_Subset, before \in SUBSET S
    <2>3. Rank(S, i) <= Rank(S, i - 1) + 1
      <3>1. Rank(S, i - 1) = Cardinality(before) /\ Rank(S, i) = Cardinality(before \cup {i})
        BY <2>1 DEF Rank
      <3>2. Cardinality(before \cup {i}) = IF i \in before THEN Cardinality(before)
                                            ELSE Cardinality(before) + 1
        BY <2>2, FS_AddElement
      <3> QED BY <1>6, <3>1, <3>2
    <2> QED BY <1>3, <1>6, <1>7, <2>3
  <1>8. CASE i \notin S
    <2>1. {x \in S : x <= i} = before
      <3>1. \A x \in S : x <= i <=> x <= i - 1
        BY <1>1, <1>3, <1>8
      <3> QED BY <3>1
    <2>2. Rank(S, i) = Rank(S, i - 1)
      BY <2>1 DEF Rank
    <2> QED BY <1>3, <1>6, <2>2
  <1> QED BY <1>7, <1>8

-----------------------------------------------------------------------------
(* The code *)

Operations == [do : {"partition", "wait", "mkfs", "dd", "fsck", "zero", "stop", "mount", "file",
                     "umount", "reboot", "rmtree", "efibootmgr", "mbr", "ldlinux", "sync",
                     "complete", "return"},
               part : Names \cup {"none", "recovery"},
               file : FileNames \cup {"none"},
               of : Names \cup {"none", "boot"}]

Returned == Op("return", "none")

\* What execute_cb may do once the device is there.
Makes(mode) == CASE mode = "format" -> {"mkfs"}
                 [] mode = "image"  -> {"dd", "fsck", "stop"}
                 [] mode = "zero"   -> {"zero"}
                 [] mode = "skip"   -> {}
                 [] OTHER           -> {"stop"}

AtPartitioner == call = 1 /\ pc = 1 /\ Now = Op("partition", "none")

AtImage(k) ==
    LET p == PartList[k]
    IN  /\ call = k + 1 /\ pc \in 1 .. Len(WritePartition(conf, p))
        /\ Now.part = p.name
        /\ IF pc = 1 THEN Now.do = "wait" ELSE Now.do \in Makes(ModeOf(conf, p))

AtOta ==
    /\ call = OtaCall /\ conf.ota
    /\ \/ pc = 1 /\ Now = Op("mount", "cache")
       \/ pc = 2 /\ Now = Write("cache", "ota.zip")
       \/ pc = 3 /\ Now = Write("cache", "recovery/command")
       \/ pc = 4 /\ Now = Op("umount", "cache")
       \/ pc = 5 /\ Now = Op("reboot", "recovery")

AtGummiboot ==
    /\ call = LoaderCall /\ conf.loader = "gummiboot"
    /\ \/ pc = 1 /\ Now = Op("mount", "bootloader")
       \/ pc = 2 /\ Now = Write("bootloader", "gummiboot.efi")
       \/ pc = 3 /\ Now = Write("bootloader", "shim.efi")
       \/ pc = 4 /\ Now = Write("bootloader", "EFI/Boot")
       \/ pc = 5 /\ Now = Op("rmtree", "bootloader")
       \/ pc = 6 /\ Now = WriteFor("bootloader", "loader.conf", "boot")
       \/ /\ pc \in 7 .. Len(conf.boots) + 6
          /\ Now = WriteFor("bootloader", "entry", conf.boots[pc - 6])
       \/ pc = Len(conf.boots) + 7 /\ Now = Op("efibootmgr", "bootloader")
       \/ pc = Len(conf.boots) + 8 /\ Now = Op("umount", "bootloader")

AtSyslinux ==
    /\ call = LoaderCall /\ conf.loader = "syslinux"
    /\ \/ pc = 1 /\ Now = Op("mbr", "bootloader")
       \/ pc = 2 /\ Now = Op("ldlinux", "bootloader")
       \/ pc = 3 /\ Now = Op("mount", "bootloader")
       \/ pc = 4 /\ Now = Write("bootloader", "vesamenu.c32")
       \/ pc = 5 /\ Now = Write("bootloader", "android.c32")
       \/ pc = 6 /\ Now = Write("bootloader", "syslinux.cfg")
       \/ pc = 7 /\ Now = Op("umount", "bootloader")

AtFinalizer ==
    /\ call = FinalCall
    /\ \/ pc = 1 /\ Now = Op("mount", "factory")
       \/ pc = 2 /\ Now = Write("factory", "install.prop")
       \/ pc = 3 /\ Now = Op("umount", "factory")

AtEnding ==
    /\ call = Calls
    /\ \/ pc = 1 /\ Now = Op("sync", "none")
       \/ pc = 2 /\ Now = Op("complete", "none")

\* The last operation of a call has been done.
AtReturn ==
    /\ Now = Returned
    /\ call = 1 => pc = 2
    /\ \A k \in DOMAIN PartList : call = k + 1 => pc = Len(WritePartition(conf, PartList[k])) + 1
    /\ call = OtaCall => pc = IF conf.ota THEN 6 ELSE 1
    /\ call = LoaderCall => pc = CASE conf.loader = "gummiboot" -> Len(conf.boots) + 9
                                   [] conf.loader = "syslinux"  -> 8
                                   [] conf.loader = "none"      -> 1
    /\ call = FinalCall => pc = 4
    /\ call = Calls => pc = 3

\* Where in the code the program counter can be.
Where ==
    \/ AtPartitioner
    \/ \E k \in DOMAIN PartList : AtImage(k)
    \/ AtOta
    \/ AtGummiboot
    \/ AtSyslinux
    \/ AtFinalizer
    \/ AtEnding
    \/ AtReturn

\* execute_cb waits for the device and then makes what the mode says.
LEMMA PartitionCode ==
    ASSUME NEW c, NEW p, p.name \in Names
    PROVE  LET w == WritePartition(c, p)
           IN  /\ Len(w) \in 1 .. 3 /\ w[1] = Op("wait", p.name)
               /\ \A i \in 2 .. Len(w) : w[i].part = p.name /\ w[i].do \in Makes(ModeOf(c, p))
               /\ w \in Seq(Operations)
               /\ ModeOf(c, p) = "format" => Len(w) = 2
               /\ ModeOf(c, p) = "skip" <=> Len(w) = 1
  <1> DEFINE mode == ModeOf(c, p)
             w == WritePartition(c, p)
  <1>1. CASE mode = "format"
    BY <1>1 DEF WritePartition, Makes, Op, Operations
  <1>2. CASE mode = "image"
    <2>1. CASE p.type = "ext4"
      BY <1>2, <2>1 DEF WritePartition, Makes, Op, Operations
    <2>2. CASE p.type = "vfat"
      BY <1>2, <2>2 DEF WritePartition, Makes, Op, Operations
    <2>3. CASE p.type \notin {"ext4", "vfat"}
      <3>1. w = <<Op("wait", p.name), Op("dd", p.name)>>
        BY <1>2, <2>3 DEF WritePartition
      <3> QED BY <1>2, <3>1 DEF Makes, Op, Operations
    <2> QED BY <2>1, <2>2, <2>3
  <1>3. CASE mode = "zero"
    BY <1>3 DEF WritePartition, Makes, Op, Operations
  <1>4. CASE mode = "skip"
    BY <1>4 DEF WritePartition, Makes, Op, Operations
  <1>5. CASE mode \notin {"format", "image", "zero", "skip"}
    <2>1. w = <<Op("wait", p.name), Op("stop", p.name)>>
      BY <1>5 DEF WritePartition
    <2>2. Makes(mode) = {"stop"}
      BY <1>5 DEF Makes
    <2> QED BY <1>5, <2>1, <2>2 DEF Op, Operations
  <1> QED BY <1>1, <1>2, <1>3, <1>4, <1>5

\* The operations of gummiboot_execute, one by one.
LEMMA GummibootCode ==
    ASSUME NEW c, c.boots \in Seq(Names)
    PROVE  LET g == gummiboot_execute(c)
               m == Len(c.boots)
           IN  /\ g \in Seq(Operations) /\ Len(g) = m + 8
               /\ g[1] = Op("mount", "bootloader")
               /\ g[2] = Write("bootloader", "gummiboot.efi")
               /\ g[3] = Write("bootloader", "shim.efi")
               /\ g[4] = Write("bootloader", "EFI/Boot")
               /\ g[5] = Op("rmtree", "bootloader")
               /\ g[6] = WriteFor("bootloader", "loader.conf", "boot")
               /\ \A i \in 7 .. m + 6 : g[i] = WriteFor("bootloader", "entry", c.boots[i - 6])
               /\ g[m + 7] = Op("efibootmgr", "bootloader")
               /\ g[m + 8] = Op("umount", "bootloader")
  <1> DEFINE head == <<Op("mount", "bootloader"), Write("bootloader", "gummiboot.efi"),
                       Write("bootloader", "shim.efi"), Write("bootloader", "EFI/Boot"),
                       Op("rmtree", "bootloader"), WriteFor("bootloader", "loader.conf", "boot")>>
             mid == BootEntries(c)
             tail == <<Op("efibootmgr", "bootloader"), Op("umount", "bootloader")>>
             m == Len(c.boots)
  <1>1. head \in Seq(Operations) /\ Len(head) = 6
    BY PartListAssumption DEF Op, Write, WriteFor, Operations, FileNames
  <1>2. mid \in Seq(Operations) /\ Len(mid) = m /\ m \in Nat
    <2>1. mid \in [1 .. m -> Operations] /\ m \in Nat
      BY PartListAssumption DEF BootEntries, WriteFor, Operations, FileNames
    <2> QED BY <2>1
  <1>3. tail \in Seq(Operations) /\ Len(tail) = 2
    BY PartListAssumption DEF Op, Operations
  <1>4. /\ head \o mid \in Seq(Operations) /\ Len(head \o mid) = m + 6
        /\ \A i \in 1 .. 6 : (head \o mid)[i] = head[i]
        /\ \A i \in 7 .. m + 6 : (head \o mid)[i] = mid[i - 6]
    BY <1>1, <1>2
  <1> DEFINE hm == head \o mid
             g == hm \o tail
  <1> HIDE DEF head, mid, tail, hm
  <1>5. /\ g \in Seq(Operations) /\ Len(g) = m + 8
        /\ \A i \in 1 .. m + 6 : g[i] = hm[i]
        /\ g[m + 7] = tail[1] /\ g[m + 8] = tail[2]
    <2>1. hm \in Seq(Operations) /\ Len(hm) = m + 6
      BY <1>4 DEF hm
    <2>2. m + 7 = Len(hm) + 1 /\ m + 8 = Len(hm) + 2 /\ m + 8 = Len(hm) + Len(tail)
      BY <1>2, <1>3, <2>1
    <2>3. /\ g \in Seq(Operations) /\ Len(g) = Len(hm) + Len(tail)
          /\ \A i \in 1 .. Len(hm) + Len(tail) :
               g[i] = IF i <= Len(hm) THEN hm[i] ELSE tail[i - Len(hm)]
      BY <1>3, <2>1, ConcatProperties
    <2> HIDE DEF g
    <2>4. Len(g) = m + 8
      BY <2>2, <2>3
    <2>5. ASSUME NEW i \in 1 .. m + 6
          PROVE  g[i] = hm[i]
      <3>1. i <= Len(hm) /\ i \in 1 .. Len(hm) + Len(tail)
        BY <1>2, <1>3, <2>1
      <3> QED BY <2>3, <3>1
    <2>6. g[m + 7] = tail[1]
      <3>1. /\ m + 7 \in 1 .. Len(hm) + Len(tail) /\ ~(m + 7 <= Len(hm))
            /\ (m + 7) - Len(hm) = 1
        BY <1>2, <1>3, <2>1
      <3> QED BY <2>3, <3>1
    <2>7. g[m + 8] = tail[2]
      <3>1. /\ m + 8 \in 1 .. Len(hm) + Len(tail) /\ ~(m + 8 <= Len(hm))
            /\ (m + 8) - Len(hm) = 2
        BY <1>2, <1>3, <2>1
      <3> QED BY <2>3, <3>1
    <2> QED BY <2>3, <2>4, <2>5, <2>6, <2>7
  <1>6. g = gummiboot_execute(c)
    BY DEF g, hm, head, mid, tail, gummiboot_execute
  <1>7. \A i \in 1 .. 6 : g[i] = head[i]
    BY <1>2, <1>4, <1>5 DEF hm
  <1>8. \A i \in 7 .. m + 6 : g[i] = mid[i - 6]
    BY <1>2, <1>4, <1>5 DEF hm
  <1>9. \A i \in 1 .. m : mid[i] = WriteFor("bootloader", "entry", c.boots[i])
    BY DEF mid, BootEntries
  <1>10. \A i \in 7 .. m + 6 : g[i] = WriteFor("bootloader", "entry", c.boots[i - 6])
    <2>1. \A i \in 7 .. m + 6 : i - 6 \in 1 .. m
      BY <1>2
    <2> QED BY <1>8, <1>9, <2>1
  <1>11. /\ head[1] = Op("mount", "bootloader")
         /\ head[2] = Write("bootloader", "gummiboot.efi")
         /\ head[3] = Write("bootloader", "shim.efi")
         /\ head[4] = Write("bootloader", "EFI/Boot")
         /\ head[5] = Op("rmtree", "bootloader")
         /\ head[6] = WriteFor("bootloader", "loader.conf", "boot")
         /\ tail[1] = Op("efibootmgr", "bootloader") /\ tail[2] = Op("umount", "bootloader")
    BY DEF head, tail
  <1> HIDE DEF g
  <1> QED BY <1>5, <1>6, <1>7, <1>10, <1>11

\* The code of a call: its routine, and the return.
LEMMA CodeOf ==
    ASSUME Routine(conf, call) \in Seq(Operations)
    PROVE  LET r == Routine(conf, call)
           IN  /\ Len(Code) = Len(r) + 1 /\ Len(r) \in Nat
               /\ \A i \in 1 .. Len(r) : Code[i] = r[i]
               /\ Code[Len(r) + 1] = Returned
  <1>1. Returned \in Operations
    BY DEF Returned, Op, Operations
  <1>2. Code = Append(Routine(conf, call), Returned)
    BY DEF Code, Returned
  <1> QED BY <1>1, <1>2, AppendProperties, LenProperties

\* iagod is always at one of the places: in the code of exactly one plugin, or at
\* the return from one.
LEMMA WhereIs == TypeOK => Where
  <1> SUFFICES ASSUME TypeOK
               PROVE  Where
    OBVIOUS
  <1> DEFINE n == Len(PartList)
             r == Routine(conf, call)
  <1>0. /\ n \in Nat /\ DOMAIN PartList = 1 .. n
        /\ call \in 1 .. n + 5 /\ pc \in 1 .. Len(Code) /\ Calls = n + 5
        /\ conf.ota \in BOOLEAN /\ conf.boots \in Seq(Names)
        /\ conf.loader \in {"gummiboot", "syslinux", "none"}
    <2>1. conf.ota \in Otas /\ conf.boots \in BootLists /\ conf.loader \in Loaders
      BY DEF TypeOK, Confs
    <2>2. n \in Nat /\ DOMAIN PartList = 1 .. n
      BY PartListAssumption, LenProperties
    <2>3. call \in 1 .. n + 5 /\ pc \in 1 .. Len(Code) /\ Calls = n + 5
      BY DEF TypeOK, Calls
    <2> QED BY <2>1, <2>2, <2>3, InstallerAssumption, BootListsAssumption
  <1>1. CASE call = 1
    <2>1. r = <<Op("partition", "none")>>
      BY <1>0, <1>1 DEF Routine
    <2>2. Op("partition", "none") \in Operations
      BY DEF Op, Operations
    <2>2a. r \in Seq(Operations) /\ Len(r) = 1 /\ r[1] = Op("partition", "none")
      BY <2>1, <2>2
    <2>2b. Len(Code) = 2 /\ Code[1] = Op("partition", "none") /\ Code[2] = Returned
      BY <2>2a, CodeOf
    <2>3. pc = 1 \/ pc = 2
      BY <1>0, <2>2b
    <2>4. pc = 1 => AtPartitioner
      BY <1>1, <2>2b DEF AtPartitioner, Now
    <2>5. pc = 2 => AtReturn
      BY <1>0, <1>1, <2>2b DEF AtReturn, Now, OtaCall, LoaderCall, FinalCall
    <2> QED BY <2>3, <2>4, <2>5 DEF Where
  <1>2. CASE call \in 2 .. n + 1
    <2> DEFINE k == call - 1
               p == PartList[k]
    <2>1. k \in DOMAIN PartList /\ p.name \in Names /\ call = k + 1
      <3>1. k \in DOMAIN PartList /\ call = k + 1
        BY <1>0, <1>2
      <3> QED BY <3>1 DEF Names
    <2>2. r = WritePartition(conf, p)
      BY <1>0, <1>2 DEF Routine
    <2> HIDE DEF p
    <2>3. /\ Len(r) \in 1 .. 3 /\ r[1] = Op("wait", p.name)
          /\ \A i \in 2 .. Len(r) : r[i].part = p.name /\ r[i].do \in Makes(ModeOf(conf, p))
          /\ r \in Seq(Operations)
      BY <2>1, <2>2, PartitionCode
    <2>4. /\ Len(Code) = Len(r) + 1
          /\ \A i \in 1 .. Len(r) : Code[i] = r[i]
          /\ Code[Len(r) + 1] = Returned
      BY <2>3, CodeOf
    <2>5. CASE pc = Len(r) + 1
      BY <1>0, <1>2, <2>2, <2>4, <2>5 DEF AtReturn, Now, OtaCall, LoaderCall, FinalCall, Where, p
    <2>6. CASE pc # Len(r) + 1
      <3>1. pc \in 1 .. Len(r)
        BY <1>0, <2>3, <2>4, <2>6
      <3>2. Now = r[pc]
        BY <2>4, <3>1 DEF Now
      <3>3. Now.part = p.name /\ IF pc = 1 THEN Now.do = "wait" ELSE Now.do \in Makes(ModeOf(conf, p))
        <4>1. CASE pc = 1
          BY <2>3, <3>2, <4>1 DEF Op
        <4>2. CASE pc # 1
          <5>1. pc \in 2 .. Len(r)
            BY <2>3, <3>1, <4>2
          <5> QED BY <2>3, <3>2, <4>2, <5>1
        <4> QED BY <4>1, <4>2
      <3>4. AtImage(k)
        BY <2>1, <2>2, <3>1, <3>3 DEF AtImage, p
      <3> QED BY <2>1, <3>4 DEF Where
    <2> QED BY <2>5, <2>6
  <1>3. CASE call = n + 2
    <2>1. r = ota_execute(conf)
      BY <1>0, <1>3 DEF Routine
    <2>2. CASE conf.ota
      <3>1. /\ r = <<Op("mount", "cache"), Write("cache", "ota.zip"),
                     Write("cache", "recovery/command"), Op("umount", "cache"),
                     Op("reboot", "recovery")>>
            /\ r \in Seq(Operations)
        BY <2>1, <2>2, PartListAssumption DEF ota_execute, Op, Write, Operations, FileNames
      <3>1a. /\ Len(r) = 5
             /\ r[1] = Op("mount", "cache") /\ r[2] = Write("cache", "ota.zip")
             /\ r[3] = Write("cache", "recovery/command")
             /\ r[4] = Op("umount", "cache") /\ r[5] = Op("reboot", "recovery")
        BY <3>1
      <3>2. /\ Len(Code) = 6
            /\ Code[1] = Op("mount", "cache") /\ Code[2] = Write("cache", "ota.zip")
            /\ Code[3] = Write("cache", "recovery/command")
            /\ Code[4] = Op("umount", "cache") /\ Code[5] = Op("reboot", "recovery")
            /\ Code[6] = Returned
        BY <3>1, <3>1a, CodeOf
      <3>3. pc = 6 \/ pc \in 1 .. 5
        BY <1>0, <3>2
      <3>4. pc = 6 => AtReturn
        BY <1>0, <1>3, <2>2, <3>2 DEF AtReturn, Now, OtaCall, LoaderCall, FinalCall
      <3>5. pc \in 1 .. 5 => AtOta
        BY <1>3, <2>2, <3>2 DEF AtOta, Now, OtaCall
      <3> QED BY <3>3, <3>4, <3>5 DEF Where
    <2>3. CASE ~conf.ota
      <3>1. r \in Seq(Operations) /\ Len(r) = 0
        BY <2>1, <2>3 DEF ota_execute
      <3>2. Len(Code) = 1 /\ Code[1] = Returned
        BY <3>1, CodeOf
      <3> QED BY <1>0, <1>3, <2>3, <3>2 DEF Where, AtReturn, Now, OtaCall, LoaderCall, FinalCall
    <2> QED BY <2>2, <2>3
  <1>4. CASE call = n + 3
    <2>1. r = Bootloader(conf)
      BY <1>0, <1>4 DEF Routine
    <2>2. CASE conf.loader = "gummiboot"
      <3> DEFINE m == Len(conf.boots)
      <3>1. r = gummiboot_execute(conf) /\ m \in Nat
        BY <1>0, <2>1, <2>2 DEF Bootloader
      <3>2. /\ r \in Seq(Operations) /\ Len(r) = m + 8
            /\ r[1] = Op("mount", "bootloader")
            /\ r[2] = Write("bootloader", "gummiboot.efi")
            /\ r[3] = Write("bootloader", "shim.efi")
            /\ r[4] = Write("bootloader", "EFI/Boot")
            /\ r[5] = Op("rmtree", "bootloader")
            /\ r[6] = WriteFor("bootloader", "loader.conf", "boot")
            /\ \A i \in 7 .. m + 6 : r[i] = WriteFor("bootloader", "entry", conf.boots[i - 6])
            /\ r[m + 7] = Op("efibootmgr", "bootloader")
            /\ r[m + 8] = Op("umount", "bootloader")
        BY <1>0, <3>1, GummibootCode
      <3>3. /\ Len(Code) = m + 9 /\ Code[m + 9] = Returned
            /\ \A i \in 1 .. m + 8 : Code[i] = r[i]
        BY <3>1, <3>2, CodeOf
      <3>4. CASE pc = m + 9
        BY <1>0, <1>4, <2>2, <3>1, <3>3, <3>4
           DEF Where, AtReturn, Now, OtaCall, LoaderCall, FinalCall
      <3>5. CASE pc # m + 9
        <4>1. pc \in 1 .. m + 8 /\ Now = r[pc]
          BY <1>0, <3>1, <3>3, <3>5 DEF Now
        <4>2. pc \in 1 .. 6 \/ pc \in 7 .. m + 6 \/ pc = m + 7 \/ pc = m + 8
          BY <3>1, <4>1
        <4>3. AtGummiboot
          BY <1>4, <2>2, <3>2, <4>1, <4>2 DEF AtGummiboot, LoaderCall
        <4> QED BY <4>3 DEF Where
      <3> QED BY <3>4, <3>5
    <2>3. CASE conf.loader = "syslinux"
      <3>1. r = syslinux_execute /\ r \in Seq(Operations)
        BY <2>1, <2>3, PartListAssumption
           DEF Bootloader, syslinux_execute, Op, Write, Operations, FileNames
      <3>1a. /\ Len(r) = 7
             /\ r[1] = Op("mbr", "bootloader") /\ r[2] = Op("ldlinux", "bootloader")
             /\ r[3] = Op("mount", "bootloader")
             /\ r[4] = Write("bootloader", "vesamenu.c32")
             /\ r[5] = Write("bootloader", "android.c32")
             /\ r[6] = Write("bootloader", "syslinux.cfg")
             /\ r[7] = Op("umount", "bootloader")
        BY <3>1 DEF syslinux_execute
      <3>2. /\ Len(Code) = 8
            /\ Code[1] = Op("mbr", "bootloader") /\ Code[2] = Op("ldlinux", "bootloader")
            /\ Code[3] = Op("mount", "bootloader")
            /\ Code[4] = Write("bootloader", "vesamenu.c32")
            /\ Code[5] = Write("bootloader", "android.c32")
            /\ Code[6] = Write("bootloader", "syslinux.cfg")
            /\ Code[7] = Op("umount", "bootloader") /\ Code[8] = Returned
        BY <3>1, <3>1a, CodeOf
      <3>3. pc = 8 \/ pc \in 1 .. 7
        BY <1>0, <3>2
      <3>4. pc = 8 => AtReturn
        BY <1>0, <1>4, <2>3, <3>2 DEF AtReturn, Now, OtaCall, LoaderCall, FinalCall
      <3>5. pc \in 1 .. 7 => AtSyslinux
        BY <1>4, <2>3, <3>2 DEF AtSyslinux, Now, LoaderCall
      <3> QED BY <3>3, <3>4, <3>5 DEF Where
    <2>4. CASE conf.loader = "none"
      <3>1. r \in Seq(Operations) /\ Len(r) = 0
        BY <2>1, <2>4 DEF Bootloader
      <3>2. Len(Code) = 1 /\ Code[1] = Returned
        BY <3>1, CodeOf
      <3> QED BY <1>0, <1>4, <2>4, <3>2 DEF Where, AtReturn, Now, OtaCall, LoaderCall, FinalCall
    <2> QED BY <1>0, <2>2, <2>3, <2>4
  <1>5. CASE call = n + 4
    <2>1. r = finalizer_execute
      BY <1>0, <1>5 DEF Routine
    <2>1a. /\ r \in Seq(Operations) /\ Len(r) = 3
           /\ r[1] = Op("mount", "factory") /\ r[2] = Write("factory", "install.prop")
           /\ r[3] = Op("umount", "factory")
      BY <2>1, PartListAssumption DEF finalizer_execute, Op, Write, Operations, FileNames
    <2>2. /\ Len(Code) = 4
          /\ Code[1] = Op("mount", "factory") /\ Code[2] = Write("factory", "install.prop")
          /\ Code[3] = Op("umount", "factory") /\ Code[4] = Returned
      BY <2>1a, CodeOf
    <2>3. pc = 4 \/ pc \in 1 .. 3
      BY <1>0, <2>2
    <2>4. pc = 4 => AtReturn
      BY <1>0, <1>5, <2>2 DEF AtReturn, Now, OtaCall, LoaderCall, FinalCall
    <2>5. pc \in 1 .. 3 => AtFinalizer
      BY <1>5, <2>2 DEF AtFinalizer, Now, FinalCall
    <2> QED BY <2>3, <2>4, <2>5 DEF Where
  <1>6. CASE call = n + 5
    <2>1. r = Ending
      BY <1>0, <1>6 DEF Routine
    <2>1a. /\ r \in Seq(Operations) /\ Len(r) = 2
           /\ r[1] = Op("sync", "none") /\ r[2] = Op("complete", "none")
      BY <2>1 DEF Ending, Op, Operations
    <2>2. /\ Len(Code) = 3 /\ Code[1] = Op("sync", "none") /\ Code[2] = Op("complete", "none")
          /\ Code[3] = Returned
      BY <2>1a, CodeOf
    <2>3. pc = 3 \/ pc \in 1 .. 2
      BY <1>0, <2>2
    <2>4. pc = 3 => AtReturn
      BY <1>0, <1>6, <2>2 DEF AtReturn, Now, OtaCall, LoaderCall, FinalCall
    <2>5. pc \in 1 .. 2 => AtEnding
      BY <1>0, <1>6, <2>2 DEF AtEnding, Now
    <2> QED BY <2>3, <2>4, <2>5 DEF Where
  <1> QED BY <1>0, <1>1, <1>2, <1>3, <1>4, <1>5, <1>6

-----------------------------------------------------------------------------
(* The partition table *)

\* What the constants are.
LEMMA ConstantTypes ==
    /\ NumEntries \in Nat /\ NumCells \in Nat /\ MaxRuns \in Nat \ {0} /\ MaxWait \in Nat
    /\ Len(PartList) \in Nat /\ DOMAIN PartList = 1 .. Len(PartList)
    /\ Indices \subseteq Nat \ {0} /\ IsFiniteSet(Indices)
    /\ Calls = Len(PartList) + 5
  <1>1. Len(PartList) \in Nat /\ DOMAIN PartList = 1 .. Len(PartList)
    BY PartListAssumption, LenProperties
  <1>2. IsFiniteSet(Indices)
    BY FS_Interval, InstallerAssumption DEF Indices
  <1> QED BY <1>1, <1>2, InstallerAssumption DEF Indices, Calls

\* The partitions that are made and the indices that are free can be counted.
LEMMA Countable ==
    /\ Made \subseteq 1 .. Len(PartList) /\ Made \subseteq Nat \ {0} /\ IsFiniteSet(Made)
    /\ Free \subseteq 1 .. NumEntries /\ Free \subseteq Nat \ {0} /\ IsFiniteSet(Free)
    /\ Cardinality(Made) \in Nat /\ Cardinality(Free) \in Nat
  <1>1. Made \in SUBSET (1 .. Len(PartList)) /\ IsFiniteSet(1 .. Len(PartList))
    BY ConstantTypes, FS_Interval DEF Made
  <1>2. Free \in SUBSET Indices
    BY DEF Free
  <1>3. IsFiniteSet(Made) /\ IsFiniteSet(Free)
    BY <1>1, <1>2, ConstantTypes, FS_Subset
  <1>4. Made \subseteq Nat \ {0} /\ Free \subseteq Nat \ {0}
    BY <1>1, <1>2, ConstantTypes
  <1> QED BY <1>1, <1>2, <1>3, <1>4, FS_CardinalityType DEF Indices

PartAt(i) == CHOOSE k \in MadeAt(i) : TRUE

\* At most one partition gets an index.
LEMMA OneAt ==
    ASSUME NEW i, NEW k \in MadeAt(i)
    PROVE  k \in Made /\ i \in Free /\ PartAt(i) = k
  <1>1. PartAt(i) \in MadeAt(i)
    BY DEF PartAt
  <1>2. /\ PartAt(i) \in Made /\ k \in Made /\ i \in Free
        /\ Rank(Made, PartAt(i)) = Rank(Made, k)
    BY <1>1 DEF MadeAt
  <1> QED BY <1>2, Countable, RankInjective

\* The index of the shared ESP is that of a partition that stays.
LEMMA EspStays ==
    ASSUME NEW t, Esp(t) # {}
    PROVE  Min(Esp(t)) \in Used(t) \ AndroidEntries(t)
  <1>1. Esp(t) \subseteq Nat
    BY ConstantTypes DEF Esp, Used
  <1>2. Min(Esp(t)) \in Esp(t)
    BY <1>1, MinIsElement
  <1> QED BY <1>2, PartListAssumption DEF Esp, AndroidEntries

\* What partitioner_execute makes of the table: the new partitions share no
\* cell with each other or with those that stay, and each has the index
\* that is noted for it.
LEMMA Partitioning ==
    ASSUME TypeOK, NoneShared(table), NEW t \in NewTables
    PROVE  /\ t \in Tables /\ NoneShared(t)
           /\ \A i \in Kept : t[i].cell = table[i].cell
           /\ conf.dual => Esp(table) # {}
           /\ \A p \in Names :
                /\ NewIndex(p, t) \in Used(t) /\ t[NewIndex(p, t)].name = p
                /\ ~(conf.dual /\ p = "bootloader") => NewIndex(p, t) \notin Kept
  <1> DEFINE count == Cardinality(Made)
             taken == {table[i].cell : i \in Kept}
  <1>1. PICK c \in 1 .. NumCells :
          /\ c + count - 1 <= NumCells
          /\ (c .. c + count - 1) \cap taken = {}
          /\ t = NewTable(c)
    BY DEF NewTables
  <1>2. count <= Cardinality(Free) /\ (conf.dual => Esp(table) # {})
    <2>1. NewTables # {}
      OBVIOUS
    <2>2. ~((conf.dual /\ Esp(table) = {}) \/ Cardinality(Free) < count)
      BY <2>1 DEF NewTables
    <2> QED BY <2>2, Countable
  <1>3. \A k \in Made : Rank(Made, k) \in 1 .. count
    BY Countable, RankInjective
  <1>4. Kept \subseteq Used(table) /\ Kept \subseteq Indices /\ Free = Indices \ Kept
    BY DEF Kept, Free, Used
  <1>5. /\ table \in [Indices -> [cell : 0 .. NumCells, guid : 0 .. MaxRuns,
                                  name : Names \cup {"none", "esp", "windows"}]]
        /\ run \in 1 .. MaxRuns /\ conf.dual \in BOOLEAN
    BY DEF TypeOK, Tables, Confs
  <1>6. DOMAIN t = Indices /\ t = [i \in Indices |-> t[i]]
    BY <1>1 DEF NewTable
  <1>7. ASSUME NEW i \in Indices, MadeAt(i) # {}
        PROVE  /\ PartAt(i) \in Made /\ i \in Free /\ Rank(Made, PartAt(i)) = Rank(Free, i)
               /\ t[i] = [cell |-> c + Rank(Made, PartAt(i)) - 1,
                          name |-> PartList[PartAt(i)].name, guid |-> run]
               /\ t[i].cell = c + Rank(Made, PartAt(i)) - 1
               /\ t[i].name = PartList[PartAt(i)].name
    <2>1. PartAt(i) \in MadeAt(i)
      BY <1>7 DEF PartAt
    <2>2. t[i] = [cell |-> c + Rank(Made, PartAt(i)) - 1,
                  name |-> PartList[PartAt(i)].name, guid |-> run]
      BY <1>1, <1>7 DEF NewTable, PartAt
    <2> QED BY <2>1, <2>2 DEF MadeAt
  <1>8. ASSUME NEW i \in Indices, MadeAt(i) = {}, i \notin Kept
        PROVE  t[i] = NoPart
    BY <1>1, <1>8 DEF NewTable
  <1>9. ASSUME NEW i \in Kept
        PROVE  /\ MadeAt(i) = {}
               /\ t[i] = IF i = Min(Esp(table)) THEN [table[i] EXCEPT !.name = "bootloader"]
                         ELSE table[i]
    <2>1. MadeAt(i) = {} /\ i \in Indices
      BY <1>4 DEF MadeAt
    <2> QED BY <1>1, <2>1 DEF NewTable
  <1>10. ASSUME NEW i \in Indices, MadeAt(i) # {}
         PROVE  t[i].cell \in c .. c + count - 1 /\ t[i].cell \in 1 .. NumCells
    <2>1. Rank(Made, PartAt(i)) \in 1 .. count /\ t[i].cell = c + Rank(Made, PartAt(i)) - 1
      BY <1>3, <1>7, <1>10
    <2> HIDE DEF count
    <2> QED BY <1>1, <2>1, Countable, ConstantTypes DEF count
  <1>11. ASSUME NEW i \in Kept
         PROVE  /\ t[i].cell = table[i].cell /\ t[i].cell # 0
                /\ t[i].cell \in taken
                /\ t[i] \in [cell : 0 .. NumCells, guid : 0 .. MaxRuns,
                             name : Names \cup {"none", "esp", "windows"}]
    <2>1. i \in Indices /\ table[i].cell # 0
      BY <1>4 DEF Used
    <2> QED BY <1>5, <1>9, <2>1, PartListAssumption
  <1>12. t \in Tables
    <2>1. ASSUME NEW i \in Indices
          PROVE  t[i] \in [cell : 0 .. NumCells, guid : 0 .. MaxRuns,
                           name : Names \cup {"none", "esp", "windows"}]
      <3>1. CASE MadeAt(i) # {}
        <4>1. PartAt(i) \in DOMAIN PartList
          BY <1>7, <3>1 DEF Made
        <4>2. t[i].cell \in 0 .. NumCells /\ PartList[PartAt(i)].name \in Names
          BY <1>10, <3>1, <4>1, ConstantTypes DEF Names
        <4>3. /\ t[i] = [cell |-> t[i].cell, name |-> PartList[PartAt(i)].name, guid |-> run]
              /\ run \in 0 .. MaxRuns
          <5>1. t[i] = [cell |-> c + Rank(Made, PartAt(i)) - 1,
                        name |-> PartList[PartAt(i)].name, guid |-> run]
            BY <1>7, <3>1
          <5>2. t[i].cell = c + Rank(Made, PartAt(i)) - 1
            BY <1>7, <3>1
          <5> QED BY <1>5, <5>1, <5>2, ConstantTypes
        <4> QED BY <4>2, <4>3
      <3>2. CASE MadeAt(i) = {} /\ i \notin Kept
        BY <1>8, <3>2, ConstantTypes DEF NoPart
      <3> QED BY <1>11, <3>1, <3>2
    <2> QED BY <1>6, <2>1 DEF Tables
  <1>13. NoneShared(t)
    <2> SUFFICES ASSUME NEW i \in Used(t), NEW j \in Used(t), t[i].cell = t[j].cell
                 PROVE  i = j
      BY DEF NoneShared
    <2>1. i \in Indices /\ j \in Indices /\ t[i].cell # 0 /\ t[j].cell # 0
      BY DEF Used
    <2>2. (MadeAt(i) # {} \/ i \in Kept) /\ (MadeAt(j) # {} \/ j \in Kept)
      BY <1>8, <2>1 DEF NoPart
    <2>3. CASE MadeAt(i) # {} /\ MadeAt(j) # {}
      <3>1. /\ PartAt(i) \in Made /\ PartAt(j) \in Made /\ i \in Free /\ j \in Free
            /\ Rank(Made, PartAt(i)) = Rank(Free, i) /\ Rank(Made, PartAt(j)) = Rank(Free, j)
            /\ t[i].cell = c + Rank(Made, PartAt(i)) - 1 /\ t[j].cell = c + Rank(Made, PartAt(j)) - 1
        BY <1>7, <2>1, <2>3
      <3>2. Rank(Made, PartAt(i)) \in Int /\ Rank(Made, PartAt(j)) \in Int /\ c \in Int
        BY <1>3, <3>1
      <3>3. Rank(Made, PartAt(i)) = Rank(Made, PartAt(j))
        <4>1. c + Rank(Made, PartAt(i)) - 1 = c + Rank(Made, PartAt(j)) - 1
          BY <3>1
        <4> HIDE DEF count
        <4> QED BY <3>2, <4>1
      <3>4. Rank(Free, i) = Rank(Free, j)
        BY <3>1, <3>3
      <3> QED BY <3>1, <3>4, Countable, RankInjective
    <2>4. CASE i \in Kept /\ j \in Kept
      BY <1>4, <1>11, <2>4 DEF NoneShared
    <2>5. ~(MadeAt(i) # {} /\ j \in Kept) /\ ~(MadeAt(j) # {} /\ i \in Kept)
      BY <1>1, <1>10, <1>11, <2>1
    <2> QED BY <2>2, <2>3, <2>4, <2>5
  <1>14. ASSUME NEW p \in Names, ~(conf.dual /\ p = "bootloader")
         PROVE  /\ NewIndex(p, t) \in Used(t) /\ t[NewIndex(p, t)].name = p
                /\ NewIndex(p, t) \notin Kept
    <2>1. PICK k \in DOMAIN PartList : PartList[k].name = p
      BY DEF Names
    <2>2. k \in Made
      BY <1>14, <2>1 DEF Made
    <2>3. Rank(Made, k) \in 1 .. Cardinality(Free)
      BY <1>2, <1>3, <2>2, Countable
    <2>4. PICK i \in Free : Rank(Free, i) = Rank(Made, k)
      BY <2>3, Countable, ConstantTypes, RankOnto
    <2>5. k \in MadeAt(i) /\ i \in Indices
      BY <1>4, <2>2, <2>4 DEF MadeAt
    <2>6. PartAt(i) = k
      BY <2>5, OneAt
    <2>7. i \in Used(t) /\ t[i].name = p
      <3>1. t[i].name = p
        BY <1>7, <2>1, <2>5, <2>6
      <3>2. t[i].cell \in 1 .. NumCells
        BY <1>10, <2>5
      <3> QED BY <2>5, <3>1, <3>2 DEF Used
    <2> DEFINE j == CHOOSE j \in Used(t) : t[j].name = p
    <2>8. NewIndex(p, t) = j
      BY <1>14 DEF NewIndex
    <2>9. j \in Used(t) /\ t[j].name = p
      BY <2>7
    <2>10. ASSUME j \in Kept
           PROVE  FALSE
      <3>1. conf.dual /\ p # "bootloader" /\ j \in Used(table) \ AndroidEntries(table)
        BY <1>14, <2>10 DEF Kept
      <3> HIDE DEF j
      <3>2. t[j].name = "bootloader" \/ t[j].name = table[j].name
        <4>1. table[j] \in [cell : 0 .. NumCells, guid : 0 .. MaxRuns,
                            name : Names \cup {"none", "esp", "windows"}]
          BY <1>4, <1>5, <2>10
        <4> QED BY <1>9, <2>10, <4>1
      <3> QED BY <2>9, <3>1, <3>2 DEF AndroidEntries
    <2> QED BY <2>8, <2>9, <2>10
  <1>15. ASSUME conf.dual
         PROVE  /\ NewIndex("bootloader", t) \in Used(t)
                /\ t[NewIndex("bootloader", t)].name = "bootloader"
    <2> DEFINE i == Min(Esp(table))
    <2>1. NewIndex("bootloader", t) = i
      BY <1>15 DEF NewIndex
    <2>2. i \in Kept
      BY <1>2, <1>15, EspStays DEF Kept
    <2> HIDE DEF i
    <2>3. table[i] \in [cell : 0 .. NumCells, guid : 0 .. MaxRuns,
                        name : Names \cup {"none", "esp", "windows"}]
      BY <1>4, <1>5, <2>2
    <2>4. t[i].name = "bootloader"
      BY <1>9, <2>2, <2>3 DEF i
    <2> QED BY <1>4, <1>11, <2>1, <2>2, <2>4 DEF Used
  <1> QED BY <1>2, <1>11, <1>12, <1>13, <1>14, <1>15

-----------------------------------------------------------------------------
(* Steps through the code *)

\* Each call has operations of the programs.
LEMMA RoutineType ==
    ASSUME NEW c \in Confs, NEW k \in 1 .. Calls
    PROVE  Routine(c, k) \in Seq(Operations)
  <1> DEFINE n == Len(PartList)
  <1>1. /\ n \in Nat /\ DOMAIN PartList = 1 .. n /\ Calls = n + 5
        /\ c.boots \in Seq(Names) /\ c.loader \in {"gummiboot", "syslinux", "none"}
        /\ c.ota \in BOOLEAN
    BY ConstantTypes, InstallerAssumption, BootListsAssumption DEF Confs
  <1>2. CASE k = 1
    <2>1. Routine(c, k) = <<Op("partition", "none")>>
      BY <1>1, <1>2 DEF Routine
    <2> QED BY <2>1 DEF Op, Operations
  <1>3. CASE k \in 2 .. n + 1
    <2>1. PartList[k - 1].name \in Names
      BY <1>1, <1>3 DEF Names
    <2>2. Routine(c, k) = WritePartition(c, PartList[k - 1])
      BY <1>1, <1>3 DEF Routine
    <2> QED BY <2>1, <2>2, PartitionCode
  <1>4. CASE k = n + 2
    <2>1. Routine(c, k) = ota_execute(c)
      BY <1>1, <1>4 DEF Routine
    <2>2. CASE c.ota
      <3>1. Routine(c, k) = <<Op("mount", "cache"), Write("cache", "ota.zip"),
                              Write("cache", "recovery/command"), Op("umount", "cache"),
                              Op("reboot", "recovery")>>
        BY <2>1, <2>2 DEF ota_execute
      <3> QED BY <3>1, PartListAssumption DEF Op, Write, Operations, FileNames
    <2>3. CASE ~c.ota
      BY <2>1, <2>3 DEF ota_execute
    <2> QED BY <2>2, <2>3
  <1>5. CASE k = n + 3
    <2>1. Routine(c, k) = Bootloader(c)
      BY <1>1, <1>5 DEF Routine
    <2>2. gummiboot_execute(c) \in Seq(Operations)
      BY <1>1, GummibootCode
    <2>3. syslinux_execute \in Seq(Operations)
      BY PartListAssumption DEF syslinux_execute, Op, Write, Operations, FileNames
    <2> QED BY <1>1, <2>1, <2>2, <2>3 DEF Bootloader
  <1>6. CASE k = n + 4
    <2>1. Routine(c, k) = finalizer_execute
      BY <1>1, <1>6 DEF Routine
    <2> QED BY <2>1, PartListAssumption DEF finalizer_execute, Op, Write, Operations, FileNames
  <1>7. CASE k = n + 5
    <2>1. Routine(c, k) = Ending
      BY <1>1, <1>7 DEF Routine
    <2> QED BY <2>1 DEF Ending, Op, Operations
  <1> QED BY <1>1, <1>2, <1>3, <1>4, <1>5, <1>6, <1>7

\* An operation of the program is followed by another one or by the return.
LEMMA CodeType ==
    ASSUME TypeOK
    PROVE  /\ Len(Code) \in Nat /\ Now \in Operations
           /\ Now.do # "return" => pc + 1 \in 1 .. Len(Code)
  <1>1. conf \in Confs /\ call \in 1 .. Calls /\ pc \in 1 .. Len(Code)
    BY DEF TypeOK
  <1> DEFINE r == Routine(conf, call)
  <1>2. r \in Seq(Operations)
    BY <1>1, RoutineType
  <1>3. /\ Len(Code) = Len(r) + 1 /\ Len(r) \in Nat
        /\ \A i \in 1 .. Len(r) : Code[i] = r[i] /\ r[i] \in Operations
        /\ Code[Len(r) + 1] = Returned
    BY <1>2, CodeOf, ElementOfSeq
  <1>4. Returned \in Operations /\ Returned.do = "return"
    BY DEF Returned, Op, Operations
  <1> HIDE DEF r
  <1>5. CASE pc = Len(r) + 1
    BY <1>1, <1>3, <1>4, <1>5 DEF Now
  <1>6. CASE pc # Len(r) + 1
    <2>1. pc \in 1 .. Len(r)
      BY <1>1, <1>3, <1>6
    <2> QED BY <1>3, <2>1 DEF Now
  <1> QED BY <1>5, <1>6

\* A call starts with an operation or returns at once.
LEMMA CodeStarts ==
    ASSUME conf' \in Confs, call' \in 1 .. Calls, pc' = 1
    PROVE  pc' \in 1 .. Len(Code')
  <1> DEFINE r == Routine(conf', call')
  <1>1. r \in Seq(Operations)
    BY RoutineType
  <1>2. Code' = Append(r, Op("return", "none"))
    BY DEF Code
  <1>3. Op("return", "none") \in Operations
    BY DEF Op, Operations
  <1> HIDE DEF r
  <1>4. Len(Code') = Len(r) + 1 /\ Len(r) \in Nat
    BY <1>1, <1>2, <1>3, AppendProperties, LenProperties
  <1> QED BY <1>4

\* The code changes with the call and the configuration only.
LEMMA CodeStays ==
    ASSUME call' = call, conf' = conf
    PROVE  Code' = Code /\ (pc' = pc => Now' = Now)
  <1>1. Code' = Code
    BY DEF Code
  <1> QED BY <1>1 DEF Now

\* Where the operations of each kind are.
LEMMA Places ==
    ASSUME TypeOK
    PROVE  /\ Now.do = "partition" => AtPartitioner
           /\ Now.do \in {"wait", "mkfs", "dd", "fsck", "zero", "stop"} =>
                \E k \in DOMAIN PartList : AtImage(k)
           /\ Now.do \in {"mount", "file", "umount", "reboot", "rmtree", "efibootmgr", "mbr",
                          "ldlinux"} =>
                AtOta \/ AtGummiboot \/ AtSyslinux \/ AtFinalizer
           /\ Now.do \in {"sync", "complete"} => AtEnding
           /\ Now.do = "return" => AtReturn
  <1>1. Where
    BY WhereIs
  <1>2. AtPartitioner => Now.do = "partition"
    BY DEF AtPartitioner, Op
  <1>3. ASSUME NEW k \in DOMAIN PartList, AtImage(k)
        PROVE  Now.do \in {"wait", "mkfs", "dd", "fsck", "zero", "stop"}
    <2>1. \A mode : Makes(mode) \subseteq {"mkfs", "dd", "fsck", "zero", "stop"}
      BY DEF Makes
    <2> QED BY <1>3, <2>1 DEF AtImage
  <1>4. AtOta => Now.do \in {"mount", "file", "umount", "reboot"}
    BY DEF AtOta, Op, Write
  <1>5. AtGummiboot => Now.do \in {"mount", "file", "rmtree", "efibootmgr", "umount"}
    BY DEF AtGummiboot, Op, Write, WriteFor
  <1>6. AtSyslinux => Now.do \in {"mbr", "ldlinux", "mount", "file", "umount"}
    BY DEF AtSyslinux, Op, Write
  <1>7. AtFinalizer => Now.do \in {"mount", "file", "umount"}
    BY DEF AtFinalizer, Op, Write
  <1>8. AtEnding => Now.do \in {"sync", "complete"}
    BY DEF AtEnding, Op
  <1>9. AtReturn => Now.do = "return"
    BY DEF AtReturn, Returned, Op
  <1> QED BY <1>1, <1>2, <1>3, <1>4, <1>5, <1>6, <1>7, <1>8, <1>9 DEF Where

\* Only the partitioner is run before there is a table.
LEMMA AfterPartitioner ==
    ASSUME TypeOK
    PROVE  /\ Now.do \notin {"partition", "return"} => call > 1
           /\ Now.do # "partition" => Partitioned
           /\ Now.do = "partition" => ~Partitioned
           /\ Partitioned <=> call # 1 \/ pc # 1
  <1>1. /\ Len(PartList) \in Nat /\ DOMAIN PartList = 1 .. Len(PartList)
        /\ call \in 1 .. Calls /\ Calls = Len(PartList) + 5 /\ Len(Code) \in Nat
    BY ConstantTypes, CodeType DEF TypeOK
  <1>1a. call \in Nat /\ 1 <= call
    BY <1>1
  <1>2. pc \in 1 .. Len(Code)
    BY DEF TypeOK
  <1>2a. pc \in Nat /\ 1 <= pc
    BY <1>1, <1>2
  <1>3. AtOta \/ AtGummiboot \/ AtSyslinux \/ AtFinalizer \/ AtEnding => call > 1
    BY <1>1 DEF AtOta, AtGummiboot, AtSyslinux, AtFinalizer, AtEnding, OtaCall, LoaderCall,
                FinalCall
  <1>4. ASSUME NEW k \in DOMAIN PartList, AtImage(k)
        PROVE  call > 1
    BY <1>1, <1>4 DEF AtImage
  <1>5. AtReturn => call > 1 \/ pc = 2
    BY <1>1a DEF AtReturn
  <1>6. AtPartitioner <=> call = 1 /\ pc = 1
    <2>1. call = 1 /\ pc = 1 => AtPartitioner
      BY <1>3, <1>4, <1>5, WhereIs DEF Where
    <2> QED BY <2>1 DEF AtPartitioner
  <1>7. Partitioned <=> call # 1 \/ pc # 1
    BY <1>1a, <1>2a DEF Partitioned, Past
  <1>8. Now.do = "partition" <=> AtPartitioner
    BY Places DEF AtPartitioner, Op
  <1>9. Now.do \notin {"partition", "return"} => call > 1
    <2>1. Where
      BY WhereIs
    <2>2. AtReturn => Now.do = "return"
      BY DEF AtReturn, Returned, Op
    <2> QED BY <1>3, <1>4, <1>8, <2>1, <2>2 DEF Where
  <1> QED BY <1>6, <1>7, <1>8, <1>9

\* What is written to a file system.
LEMMA FileTypes ==
    ASSUME NEW c \in Cells, NEW f \in Files
    PROVE  /\ WithFile(c, f) \in Cells
           /\ WithFile(c, f).kind = c.kind /\ WithFile(c, f).of = c.of
           /\ f \in WithFile(c, f).files
           /\ \A g \in c.files : g.name # f.name \/ g.part # f.part => g \in WithFile(c, f).files
           /\ \A g \in WithFile(c, f).files :
                g = f \/ (g \in c.files /\ (g.name # f.name \/ g.part # f.part))
  BY DEF WithFile, Cells

\* The plugins' operations concern the three partitions they mount.
LEMMA PluginParts ==
    ASSUME TypeOK, AtOta \/ AtGummiboot \/ AtSyslinux \/ AtFinalizer
    PROVE  /\ Now.do # "reboot" => Now.part \in {"cache", "bootloader", "factory"}
           /\ Now.do = "file" => Now.file \in FileNames \ {"windows", "ldlinux.sys"}
           /\ Now.of \in Names \cup {"none", "boot"}
  <1>1. conf.boots \in Seq(Names)
    BY BootListsAssumption DEF TypeOK, Confs
  <1>2. AtOta \/ AtSyslinux \/ AtFinalizer =>
          /\ Now.do # "reboot" => Now.part \in {"cache", "bootloader", "factory"}
          /\ Now.do = "file" => Now.file \in FileNames \ {"windows", "ldlinux.sys"}
          /\ Now.of \in Names \cup {"none", "boot"}
    BY DEF AtOta, AtSyslinux, AtFinalizer, Op, Write, FileNames
  <1>3. ASSUME AtGummiboot
        PROVE  /\ Now.part = "bootloader"
               /\ Now.do = "file" => Now.file \in FileNames \ {"windows", "ldlinux.sys"}
               /\ Now.of \in Names \cup {"none", "boot"}
    <2>1. ASSUME pc \in 7 .. Len(conf.boots) + 6
          PROVE  conf.boots[pc - 6] \in Names
      <3>1. pc - 6 \in 1 .. Len(conf.boots)
        BY <1>1, <2>1
      <3> QED BY <1>1, <3>1
    <2> QED BY <1>3, <2>1 DEF AtGummiboot, Op, Write, WriteFor, FileNames
  <1> QED BY <1>2, <1>3

\* The files and the contents that are written.
LEMMA WrittenTypes ==
    ASSUME TypeOK, WiringOK
    PROVE  /\ Now.do = "file" => \A whole \in BOOLEAN : FileOf(whole) \in Files
           /\ Now.do \in BlockWrites /\ Target(Now) \in 1 .. NumCells => Written(Now) \in Cells
           /\ Junk \in Cells
           /\ \A c \in Cells, whole \in BOOLEAN :
                Now.do = "file" => WithFile(c, FileOf(whole)) \in Cells
  <1>1. run \in 0 .. MaxRuns /\ cells \in [1 .. NumCells -> Cells] /\ run \in 1 .. MaxRuns
    BY ConstantTypes DEF TypeOK
  <1>2. ASSUME Now.do = "file", NEW whole \in BOOLEAN
        PROVE  FileOf(whole) \in Files
    <2>1. AtOta \/ AtGummiboot \/ AtSyslinux \/ AtFinalizer
      BY <1>2, Places
    <2>2. Now.file \in FileNames /\ Now.of \in Names \cup {"none", "boot"}
      BY <1>2, <2>1, PluginParts
    <2>3. Partitioned
      BY <1>2, AfterPartitioner
    <2>4. Now.of \in Names => table[dev[Now.of]].guid \in 0 .. MaxRuns
      <3>1. ASSUME NEW p \in Names
            PROVE  dev[p] \in Indices
        BY <2>3 DEF WiringOK, Used
      <3>2. \A i \in Indices : table[i].guid \in 0 .. MaxRuns
        BY DEF TypeOK, Tables
      <3> QED BY <3>1, <3>2
    <2> QED BY <1>1, <2>2, <2>4 DEF FileOf, File, Files
  <1>3. ASSUME Now.do \in BlockWrites, Target(Now) \in 1 .. NumCells
        PROVE  Written(Now) \in Cells
    <2>1. CASE Now.do = "ldlinux"
      <3>1. File("ldlinux.sys", "none", run, TRUE) \in Files
        BY <1>1 DEF File, Files, FileNames
      <3>2. Written(Now) = WithFile(cells[Target(Now)], File("ldlinux.sys", "none", run, TRUE))
        BY <2>1 DEF Written
      <3>3. cells[Target(Now)] \in Cells
        BY <1>1, <1>3
      <3> QED BY <3>1, <3>2, <3>3, FileTypes
    <2>2. CASE Now.do \in {"mkfs", "dd", "fsck", "zero"}
      <3>1. PICK k \in DOMAIN PartList : AtImage(k)
        BY <2>2, Places
      <3>2. Now.part \in Names
        BY <3>1 DEF AtImage, Names
      <3>3. Written(Now) \in {Content("fs", Now.part), Content("image", Now.part),
                              Content("zero", "none")}
        BY <2>2 DEF Written
      <3>4. \A kind \in {"fs", "image", "zero"}, p \in Names \cup {"none"} :
              Content(kind, p) \in Cells
        BY DEF Content, Cells
      <3> QED BY <3>2, <3>3, <3>4
    <2> QED BY <1>3, <2>1, <2>2 DEF BlockWrites
  <1>4. Junk \in Cells
    BY DEF Junk, Content, Cells
  <1> QED BY <1>2, <1>3, <1>4, FileTypes

-----------------------------------------------------------------------------
(* Type correctness *)

\* main() starts with what it finds on the disk, and at the first call.
LEMMA TypeInit == Init => TypeOK
  <1> SUFFICES ASSUME Init
               PROVE  TypeOK
    OBVIOUS
  <1>1. PICK l \in Layouts : table = l.table /\ cells = l.cells
    BY DEF Init
  <1>2. table \in Tables /\ cells \in [1 .. NumCells -> Cells]
    BY <1>1, LayoutsAssumption
  <1>3. 1 \in 1 .. Calls
    BY ConstantTypes
  <1>4. conf \in Confs /\ call = 1 /\ pc = 1
    BY DEF Init
  <1>5. pc \in 1 .. Len(Code)
    <2>1. Code = Append(Routine(conf, call), Returned) /\ Returned \in Operations
      BY DEF Code, Returned, Op, Operations
    <2>2. Len(Code) = Len(Routine(conf, call)) + 1 /\ Len(Routine(conf, call)) \in Nat
      BY <1>3, <1>4, <2>1, RoutineType, AppendProperties, LenProperties
    <2> QED BY <1>4, <2>2
  <1>6. dev \in [Names -> 0 .. NumEntries] /\ waited \in 0 .. MaxWait /\ run \in 1 .. MaxRuns
    BY ConstantTypes DEF Init
  <1>7. boot \in [efi : 0 .. run, mbr : BOOLEAN]
    BY DEF Init
  <1>8. /\ nodes \subseteq Indices /\ doomed \subseteq nodes /\ mounted \subseteq Indices
        /\ left \subseteq Files
    BY DEF Init, Used
  <1> QED BY <1>2, <1>3, <1>4, <1>5, <1>6, <1>7, <1>8 DEF Init, TypeOK

\* The next operation of a call.
LEMMA NextOpType ==
    ASSUME TypeOK, NextOp, conf' = conf, Now.do # "return"
    PROVE  call' \in 1 .. Calls /\ pc' \in 1 .. Len(Code') /\ Code' = Code
  BY CodeType, CodeStays DEF NextOp, TypeOK

\* What an action does to the disk and the devices is of their types.
LEMMA TypeStep ==
    ASSUME TypeOK, WiringOK, MountsOK, EndOK, [Next]_vars
    PROVE  TypeOK'
  <1> USE DEF Doing
  <1>0. /\ NumEntries \in Nat /\ MaxRuns \in Nat /\ MaxWait \in Nat
        /\ run \in 0 .. MaxRuns
        /\ \A t \in Tables : Used(t) \subseteq Indices
    BY ConstantTypes DEF TypeOK, Used
  <1>1. CASE Configure
    <2>1. Code' = Code
      BY <1>1, CodeStays DEF Configure, setup, process
    <2> QED BY <1>1, <2>1 DEF Configure, TypeOK, setup, disk, devices, process, booting
  <1>2. CASE Return
    <2>1. call + 1 \in 1 .. Calls
      <3>1. call # Calls
        BY <1>2, Places, AfterPartitioner DEF Return, AtReturn, EndOK
      <3> QED BY <3>1, ConstantTypes DEF TypeOK
    <2>2. pc' \in 1 .. Len(Code')
      BY <1>2, <2>1, CodeStarts DEF Return, TypeOK, setup
    <2> QED BY <1>2, <2>1, <2>2 DEF Return, TypeOK, setup, disk, devices, booting
  <1>3. CASE Partition
    <2>1. table' \in Tables /\ \A p \in Names : NewIndex(p, table') \in Used(table')
      BY <1>3, Partitioning DEF Partition, WiringOK
    <2>2. call' \in 1 .. Calls /\ pc' \in 1 .. Len(Code')
      BY <1>3, NextOpType DEF Partition
    <2>3. dev' \in [Names -> 0 .. NumEntries]
      <3>1. \A p \in Names : NewIndex(p, table') \in 0 .. NumEntries
        BY <1>0, <2>1 DEF Indices
      <3> QED BY <1>3, <3>1 DEF Partition
    <2> QED BY <1>3, <2>1, <2>2, <2>3 DEF Partition, TypeOK, booting
  <1>4. CASE PartitionFails
    <2>1. table' \in Tables
      BY <1>4, Partitioning DEF PartitionFails, WiringOK, TypeOK
    <2>2. Code' = Code
      BY <1>4, CodeStays DEF PartitionFails, setup, process
    <2> QED BY <1>4, <2>1, <2>2 DEF PartitionFails, TypeOK, setup, devices, process, booting
  <1>5. CASE Uevent
    <2>1. Code' = Code
      BY <1>5, CodeStays DEF Uevent, setup, process
    <2>2. nodes' \subseteq Indices /\ doomed' \subseteq nodes'
      <3>1. Used(kernel) \ nodes # {} => Min(Used(kernel) \ nodes) \in Indices
        <4>1. Used(kernel) \ nodes \subseteq Nat /\ Used(kernel) \subseteq Indices
          BY <1>0, ConstantTypes DEF TypeOK
        <4> QED BY <4>1, MinIsElement
      <3> QED BY <1>5, <3>1 DEF Uevent, TypeOK
    <2> QED BY <1>5, <2>1, <2>2 DEF Uevent, TypeOK, setup, disk, process, booting
  <1>6. CASE WaitForDevice
    <2>1. call' \in 1 .. Calls /\ pc' \in 1 .. Len(Code')
      BY <1>6, NextOpType, CodeStays DEF WaitForDevice, TypeOK, setup
    <2>2. waited' \in 0 .. MaxWait
      BY <1>0, <1>6 DEF WaitForDevice, WaitMore, TypeOK
    <2> QED BY <1>6, <2>1, <2>2 DEF WaitForDevice, TypeOK, setup, disk, devices, booting
  <1>7. CASE BeginWrite
    <2>1. Code' = Code
      BY <1>7, CodeStays DEF BeginWrite, setup
    <2>2. Target(Now) \in 1 .. NumCells
      <3>1. dev[Now.part] \in Indices /\ Target(Now) # 0
        BY <1>7 DEF BeginWrite, Openable, TypeOK
      <3>2. kernel[dev[Now.part]].cell \in 0 .. NumCells
        BY <3>1 DEF TypeOK, Tables
      <3> QED BY <3>1, <3>2, ConstantTypes DEF Target
    <2>3. cells' \in [1 .. NumCells -> Cells] /\ dirty' \subseteq 1 .. NumCells
      BY <1>7, <2>2, WrittenTypes DEF BeginWrite, TypeOK
    <2> QED BY <1>7, <2>1, <2>3 DEF BeginWrite, TypeOK, setup, devices, booting
  <1>8. CASE FinishWrite
    <2>1. call' \in 1 .. Calls /\ pc' \in 1 .. Len(Code')
      BY <1>8, NextOpType DEF FinishWrite, BlockWrites, setup
    <2>2. cells' \in [1 .. NumCells -> Cells]
      BY <1>8, WrittenTypes DEF FinishWrite, TypeOK
    <2> QED BY <1>8, <2>1, <2>2 DEF FinishWrite, TypeOK, setup, devices, booting
  <1>9. CASE Mount
    <2>1. call' \in 1 .. Calls /\ pc' \in 1 .. Len(Code')
      BY <1>9, NextOpType DEF Mount, setup
    <2>2. mounted' \subseteq Indices
      BY <1>9 DEF Mount, Openable, TypeOK
    <2> QED BY <1>9, <2>1, <2>2 DEF Mount, TypeOK, setup, disk, devices, booting
  <1>10. CASE OpenFile
    <2>1. Code' = Code
      BY <1>10, CodeStays DEF OpenFile, setup
    <2>2. cells' \in [1 .. NumCells -> Cells]
      BY <1>10, WrittenTypes DEF OpenFile, OnMounted, TypeOK
    <2> QED BY <1>10, <2>1, <2>2 DEF OpenFile, TypeOK, setup, devices, booting
  <1>11. CASE CloseFile
    <2>1. call' \in 1 .. Calls /\ pc' \in 1 .. Len(Code')
      BY <1>11, NextOpType DEF CloseFile, setup
    <2>2. cells' \in [1 .. NumCells -> Cells]
      <3>1. PICK whole \in BOOLEAN : OnMounted(WithFile(cells[Target(Now)], FileOf(whole)))
        BY <1>11 DEF CloseFile
      <3>2. \A c \in Cells : WithFile(c, FileOf(whole)) \in Cells
        BY <1>11, WrittenTypes DEF CloseFile
      <3> QED BY <3>1, <3>2 DEF OnMounted, TypeOK
    <2> QED BY <1>11, <2>1, <2>2 DEF CloseFile, TypeOK, setup, devices, booting
  <1>12. CASE RemoveTree
    <2>1. call' \in 1 .. Calls /\ pc' \in 1 .. Len(Code')
      BY <1>12, NextOpType, CodeStays DEF RemoveTree, TypeOK
    <2>2. cells' \in [1 .. NumCells -> Cells]
      <3>1. CASE cells' = cells
        BY <3>1 DEF TypeOK
      <3>2. CASE cells' # cells
        <4>1. PICK f : cells' = [cells EXCEPT ![Target(Now)].files = @ \ {f}]
          BY <1>12, <3>2 DEF RemoveTree
        <4>2. \A c \in Cells : [c EXCEPT !.files = @ \ {f}] \in Cells
          BY DEF Cells
        <4>3. cells \in [1 .. NumCells -> Cells]
          BY DEF TypeOK
        <4>4. \A c \in 1 .. NumCells :
                cells'[c] = IF c = Target(Now) THEN [cells[c] EXCEPT !.files = @ \ {f}]
                            ELSE cells[c]
          BY <4>1, <4>3
        <4>5. DOMAIN cells' = 1 .. NumCells /\ cells' = [c \in DOMAIN cells' |-> cells'[c]]
          BY <4>1, <4>3
        <4> QED BY <4>2, <4>3, <4>4, <4>5
      <3> QED BY <3>1, <3>2
    <2>3. left' \subseteq Files
      <3>1. Tree \subseteq Files
        <4> SUFFICES ASSUME dev[Now.part] \in mounted
                     PROVE  cells[Target(Now)].files \subseteq Files
          BY DEF Tree
        <4>1. AtGummiboot /\ pc = 5 /\ Now.part = "bootloader"
          <5>1. Len(conf.boots) \in Nat
            BY BootListsAssumption, LenProperties DEF TypeOK, Confs
          <5>2. AtGummiboot
            BY <1>12, Places DEF RemoveTree, AtOta, AtSyslinux, AtFinalizer, Op, Write
          <5> QED BY <1>12, <5>1, <5>2 DEF RemoveTree, AtGummiboot, Op, Write, WriteFor
        <4>2. "bootloader" \in MountedParts
          <5>1. 5 \in 2 .. Len(conf.boots) + 8
            BY BootListsAssumption, LenProperties DEF TypeOK, Confs
          <5>2. OtaCall # LoaderCall
            BY ConstantTypes DEF OtaCall, LoaderCall
          <5> QED BY <4>1, <5>1, <5>2 DEF AtGummiboot, MountedParts
        <4>3. Target(Now) # 0
          BY <1>12, <4>1, <4>2 DEF RemoveTree, MountsOK, Target, CellAt
        <4>4. Target(Now) \in 1 .. NumCells
          <5>1. dev[Now.part] \in Indices
            BY DEF TypeOK
          <5>2. kernel[dev[Now.part]].cell \in 0 .. NumCells
            BY <5>1 DEF TypeOK, Tables
          <5> QED BY <4>3, <5>2, ConstantTypes DEF Target
        <4> QED BY <4>4 DEF TypeOK, Cells
      <3> QED BY <1>12, <3>1 DEF RemoveTree, TypeOK
    <2> QED BY <1>12, <2>1, <2>2, <2>3 DEF RemoveTree, TypeOK, devices, booting
  <1>13. CASE Umount
    <2>1. call' \in 1 .. Calls /\ pc' \in 1 .. Len(Code')
      BY <1>13, NextOpType DEF Umount, setup
    <2> QED BY <1>13, <2>1 DEF Umount, TypeOK, setup, disk, devices, booting
  <1>14. CASE InstallBootCode
    <2>1. call' \in 1 .. Calls /\ pc' \in 1 .. Len(Code')
      BY <1>14, NextOpType DEF InstallBootCode, setup
    <2>2. boot' \in [efi : 0 .. run, mbr : BOOLEAN]
      <3>1. boot \in [efi : 0 .. run, mbr : BOOLEAN] /\ run \in 0 .. run
        BY <1>0 DEF TypeOK
      <3>2. \/ boot' = [boot EXCEPT !.mbr = TRUE]
            \/ boot' = [boot EXCEPT !.efi = run]
        BY <1>14 DEF InstallBootCode
      <3> QED BY <3>1, <3>2
    <2> QED BY <1>14, <2>1, <2>2 DEF InstallBootCode, TypeOK, setup, disk, devices
  <1>15. CASE SetReboot
    <2>1. call' \in 1 .. Calls /\ pc' \in 1 .. Len(Code')
      BY <1>15, NextOpType DEF SetReboot, setup
    <2> QED BY <1>15, <2>1 DEF SetReboot, TypeOK, setup, disk, devices
  <1>16. CASE Sync
    <2>1. call' \in 1 .. Calls /\ pc' \in 1 .. Len(Code')
      BY <1>16, NextOpType DEF Sync, setup
    <2> QED BY <1>16, <2>1 DEF Sync, TypeOK, setup, devices, booting
  <1>17. CASE Complete
    <2>1. Code' = Code
      BY <1>17, CodeStays DEF Complete, setup, process
    <2> QED BY <1>17, <2>1 DEF Complete, TypeOK, setup, disk, devices, process, booting
  <1>18. CASE Die
    <2>1. Code' = Code
      BY <1>18, CodeStays DEF Die, setup, process
    <2> QED BY <1>18, <2>1 DEF Die, TypeOK, setup, disk, devices, process, booting
  <1>19. CASE LosePower
    <2>1. 1 \in 1 .. Calls /\ 0 \in 0 .. MaxWait
      BY <1>0, ConstantTypes
    <2>2. pc' \in 1 .. Len(Code')
      BY <1>19, <2>1, CodeStarts DEF LosePower, TypeOK, setup
    <2>3. cells' \in [1 .. NumCells -> Cells]
      BY <1>19, WrittenTypes DEF LosePower, TypeOK
    <2> QED BY <1>19, <2>1, <2>2, <2>3 DEF LosePower, TypeOK, setup, booting
  <1>20. CASE Restart
    <2>1. 1 \in 1 .. Calls /\ 0 \in 0 .. MaxWait
      BY <1>0, ConstantTypes
    <2>2. pc' \in 1 .. Len(Code')
      BY <1>20, <2>1, CodeStarts DEF Restart
    <2>3. run' \in 1 .. MaxRuns /\ boot' \in [efi : 0 .. run', mbr : BOOLEAN]
      BY <1>0, <1>20 DEF Restart, TypeOK
    <2>4. dev' \in [Names -> 0 .. NumEntries] /\ nodes' \subseteq Indices
      BY <1>0, <1>20 DEF Restart, TypeOK
    <2> QED BY <1>20, <2>1, <2>2, <2>3, <2>4 DEF Restart, TypeOK
  <1>21. CASE UNCHANGED vars
    <2>1. Code' = Code
      BY <1>21, CodeStays DEF vars, setup, process
    <2> QED BY <1>21, <2>1 DEF vars, TypeOK, setup, disk, devices, process, booting
  <1> QED BY <1>1, <1>2, <1>3, <1>4, <1>5, <1>6, <1>7, <1>8, <1>9, <1>10, <1>11, <1>12, <1>13,
             <1>14, <1>15, <1>16, <1>17, <1>18, <1>19, <1>20, <1>21 DEF Next, Iagod, Fail

-----------------------------------------------------------------------------
(* The kinds of steps *)

\* Steps that leave the program, the disk and the kernel's table where they are.
Quiet ==
    /\ UNCHANGED <<setup, disk, kernel, call, pc, busy, booting>>
    /\ \/ state' = state /\ mounted' = mounted
       \/ state = "preparing" /\ state' = "executing" /\ mounted' = mounted
       \/ state = "executing" /\ state' = "complete" /\ AtEnding /\ pc = 2
       \/ state = "executing" /\ state' = "dead" /\ Partitioned

\* Steps of the plugins after the partitioner.
Ahead ==
    /\ state = "executing" /\ state' = state
    /\ UNCHANGED <<conf, dev, run, found, table, kernel>>
    /\ Now.do # "rmtree" => left' = left
    /\ Partitioned /\ Partitioned' /\ Now.do # "partition"
    /\ \/ Return
       \/ WaitForDevice /\ NextOp
       \/ BeginWrite
       \/ FinishWrite
       \/ Mount
       \/ OpenFile
       \/ CloseFile
       \/ RemoveTree
       \/ Umount
       \/ InstallBootCode
       \/ SetReboot
       \/ Sync

\* The kinds of steps: those that leave alone what the invariant is about, those of
\* iagod that come after the partitioner, the partitioner's, and the machine's.
LEMMA StepKinds ==
    ASSUME TypeOK, [Next]_vars
    PROVE  Quiet \/ Ahead \/ Partition \/ PartitionFails \/ LosePower \/ Restart
  <1>1. /\ call \in Nat /\ 1 <= call /\ pc \in Nat /\ 1 <= pc
        /\ Partitioned <=> call > 1 \/ (call = 1 /\ pc > 1)
    BY CodeType, ConstantTypes DEF TypeOK, Partitioned, Past
  <1>2. /\ Now.do \notin {"partition", "return"} => call > 1
        /\ Now.do # "partition" => Partitioned
    BY AfterPartitioner
  <1>3. ASSUME NextOp, Now.do # "partition"
        PROVE  Partitioned'
    BY <1>1, <1>2, <1>3 DEF NextOp, Partitioned, Past
  <1>4. ASSUME call' = call, pc' = pc, Now.do # "partition"
        PROVE  Partitioned'
    BY <1>1, <1>2, <1>4 DEF Partitioned, Past
  <1>5. Configure => Quiet
    BY DEF Configure, Quiet, devices, process
  <1>6. Return => Ahead
    BY <1>1, <1>2 DEF Return, Ahead, Doing, setup, disk, devices, Partitioned, Past
  <1>7. Uevent => Quiet
    BY DEF Uevent, Quiet, process
  <1>8. WaitForDevice => Quiet \/ Ahead
    <2>1. WaitForDevice /\ NextOp => Ahead
      BY <1>2, <1>3 DEF WaitForDevice, Ahead, Doing, setup, disk, devices
    <2> QED BY <2>1 DEF WaitForDevice, Quiet, devices
  <1>9. BeginWrite \/ OpenFile => Ahead
    BY <1>2, <1>4 DEF BeginWrite, OpenFile, Ahead, Doing, setup, BlockWrites, devices
  <1>10. FinishWrite \/ CloseFile => Ahead
    BY <1>2, <1>3 DEF FinishWrite, CloseFile, Ahead, Doing, setup, BlockWrites, devices
  <1>11. Mount \/ Umount \/ InstallBootCode \/ SetReboot => Ahead
    BY <1>2, <1>3 DEF Mount, Umount, InstallBootCode, SetReboot, Ahead, Doing, setup, disk, devices
  <1>12. RemoveTree => Ahead
    BY <1>2, <1>3, <1>4 DEF RemoveTree, Ahead, Doing, devices
  <1>13. Sync => Ahead
    BY <1>2, <1>3 DEF Sync, Ahead, Doing, setup, devices
  <1>14. Complete => Quiet
    <2>1. Now.do = "complete" => AtEnding /\ pc = 2
      BY Places DEF AtEnding, Op
    <2> QED BY <2>1 DEF Complete, Quiet, Doing, devices, process
  <1>15. Die => Quiet
    BY <1>2 DEF Die, Quiet, Doing, BlockWrites, devices, process
  <1>16. UNCHANGED vars => Quiet
    BY DEF vars, Quiet, devices, process
  <1> QED BY <1>5, <1>6, <1>7, <1>8, <1>9, <1>10, <1>11, <1>12, <1>13, <1>14, <1>15, <1>16
          DEF Next, Iagod, Fail

\* A quiet step leaves the program counter; a step ahead moves it by one
\* operation at most.
LEMMA Counting ==
    ASSUME TypeOK, Quiet \/ Ahead
    PROVE  /\ call \in Nat /\ pc \in Nat /\ 1 <= call /\ 1 <= pc
           /\ call' \in Nat /\ pc' \in Nat
           /\ conf' = conf /\ dev' = dev /\ run' = run /\ found' = found
           /\ table' = table /\ kernel' = kernel
           /\ \/ call' = call /\ pc' = pc
              \/ call' = call /\ pc' = pc + 1 /\ Ahead /\ Now.do # "return"
              \/ call' = call + 1 /\ pc' = 1 /\ Ahead /\ AtReturn
  <1>1. call \in Nat /\ pc \in Nat /\ 1 <= call /\ 1 <= pc
    BY CodeType, ConstantTypes DEF TypeOK
  <1>2. CASE Quiet
    BY <1>1, <1>2 DEF Quiet, setup, disk
  <1>3. CASE Ahead
    <2>1. CASE Return
      BY <1>1, <1>3, <2>1, Places DEF Ahead, Return, Doing, setup
    <2>2. CASE ~Return
      <3>1. (call' = call /\ pc' = pc) \/ (call' = call /\ pc' = pc + 1)
        BY <1>3, <2>2 DEF Ahead, NextOp, BeginWrite, FinishWrite, Mount, OpenFile, CloseFile,
                          RemoveTree, Umount, InstallBootCode, SetReboot, Sync
      <3>2. Now.do # "return"
        BY <1>3, <2>2 DEF Ahead, Doing, BlockWrites, WaitForDevice, BeginWrite, FinishWrite,
                          Mount, OpenFile, CloseFile, RemoveTree, Umount, InstallBootCode,
                          SetReboot, Sync
      <3> QED BY <1>1, <1>3, <3>1, <3>2 DEF Ahead, setup
    <2> QED BY <2>1, <2>2
  <1> QED BY <1>2, <1>3

\* The operation that is next tells which step ahead it is.
LEMMA Does ==
    ASSUME Ahead
    PROVE  /\ Now.do = "return" => Return
           /\ Now.do = "wait" => WaitForDevice /\ NextOp
           /\ Now.do \in BlockWrites => BeginWrite \/ FinishWrite
           /\ Now.do = "mount" => Mount
           /\ Now.do = "file" => OpenFile \/ CloseFile
           /\ Now.do = "rmtree" => RemoveTree
           /\ Now.do = "umount" => Umount
           /\ Now.do \in {"efibootmgr", "mbr"} => InstallBootCode
           /\ Now.do = "reboot" => SetReboot
           /\ Now.do = "sync" => Sync
           /\ Now.do \in {"return", "wait", "mount", "file", "rmtree", "umount", "efibootmgr",
                           "mbr", "reboot", "sync"} \cup BlockWrites
  <1>1. Return => Now.do = "return"
    BY DEF Return, Doing
  <1>2. WaitForDevice => Now.do = "wait"
    BY DEF WaitForDevice, Doing
  <1>3. BeginWrite \/ FinishWrite => Now.do \in BlockWrites
    BY DEF BeginWrite, FinishWrite, Doing
  <1>4. Mount => Now.do = "mount"
    BY DEF Mount, Doing
  <1>5. OpenFile \/ CloseFile => Now.do = "file"
    BY DEF OpenFile, CloseFile, Doing
  <1>6. RemoveTree => Now.do = "rmtree"
    BY DEF RemoveTree, Doing
  <1>7. Umount => Now.do = "umount"
    BY DEF Umount, Doing
  <1>8. InstallBootCode => Now.do \in {"efibootmgr", "mbr"}
    BY DEF InstallBootCode, Doing
  <1>9. SetReboot => Now.do = "reboot"
    BY DEF SetReboot, Doing
  <1>10. Sync => Now.do = "sync"
    BY DEF Sync, Doing
  <1> QED BY <1>1, <1>2, <1>3, <1>4, <1>5, <1>6, <1>7, <1>8, <1>9, <1>10 DEF Ahead, BlockWrites

-----------------------------------------------------------------------------
(* Before the partitioner, the wiring and the end *)

\* Nothing but the partitioner ends the time in which the disk is as it was found.
LEMMA BeforeStep ==
    ASSUME TypeOK, BeforeOK, [Next]_vars
    PROVE  BeforeOK'
  <1>1. CASE Quiet
    <2>1. Partitioned' = Partitioned /\ boot' = boot /\ run' = run
      BY <1>1 DEF Quiet, Partitioned, Past, setup, booting
    <2> QED BY <1>1, <2>1 DEF Quiet, BeforeOK, setup, disk
  <1>2. CASE Ahead
    BY <1>2 DEF Ahead, BeforeOK
  <1>3. CASE Partition
    <2>1. Partitioned' /\ state' = "executing"
      BY <1>3, Places DEF Partition, Doing, NextOp, Partitioned, Past, AtPartitioner
    <2> QED BY <2>1 DEF BeforeOK
  <1>4. CASE PartitionFails
    <2>1. ~Partitioned /\ state = "executing" /\ boot.efi < run
      BY <1>4, AfterPartitioner DEF PartitionFails, Doing, BeforeOK
    <2> QED BY <1>4, <2>1 DEF PartitionFails, BeforeOK, setup, booting
  <1>5. CASE LosePower
    BY <1>5 DEF LosePower, BeforeOK
  <1>6. CASE Restart
    <2>1. ~Partitioned'
      BY <1>6 DEF Restart, Partitioned, Past
    <2>2. boot'.efi < run'
      BY <1>6, ConstantTypes DEF Restart, TypeOK
    <2> QED BY <1>6, <2>1, <2>2 DEF Restart, BeforeOK
  <1> QED BY <1>1, <1>2, <1>3, <1>4, <1>5, <1>6, StepKinds

\* What the partitioner leaves alone is foreign, if the user wants to keep it.
LEMMA KeptIsForeign ==
    ASSUME TypeOK, BeforeOK, Doing({"partition"})
    PROVE  /\ table = found.table /\ kernel = found.table /\ cells = found.cells
           /\ conf.dual => Kept = Foreign
  BY AfterPartitioner DEF Doing, BeforeOK, Kept, Foreign

\* The partitioner wires names, indices and cells; nothing after it rewires them.
LEMMA WiringStep ==
    ASSUME TypeOK, BeforeOK, WiringOK, [Next]_vars
    PROVE  WiringOK'
  <1>0. ASSUME found' = found
        PROVE  Foreign' = Foreign /\ Used(found.table)' = Used(found.table)
    BY <1>0 DEF Foreign, Used, AndroidEntries
  <1>1. CASE Quiet \/ Ahead
    <2>1. /\ conf' = conf /\ dev' = dev /\ found' = found /\ table' = table /\ kernel' = kernel
          /\ Partitioned' => Partitioned
      BY <1>1, Counting DEF Partitioned, Past, Quiet, Ahead
    <2> QED BY <1>0, <2>1 DEF WiringOK, NoneShared, Used, Esp
  <1>2. CASE Partition
    <2>1. /\ table = found.table /\ kernel = found.table /\ (conf.dual => Kept = Foreign)
          /\ conf' = conf /\ found' = found
          /\ dev' = [p \in Names |-> NewIndex(p, table')]
          /\ kernel' \in {table', kernel}
      BY <1>2, KeptIsForeign DEF Partition
    <2>2. /\ NoneShared(table')
          /\ \A i \in Kept : table'[i].cell = table[i].cell
          /\ conf.dual => Esp(table) # {}
          /\ \A p \in Names :
               /\ NewIndex(p, table') \in Used(table') /\ table'[NewIndex(p, table')].name = p
               /\ ~(conf.dual /\ p = "bootloader") => NewIndex(p, table') \notin Kept
      BY <1>2, Partitioning DEF Partition, WiringOK
    <2>3. conf.dual => dev'["bootloader"] = Min(Esp(found.table))
      BY <2>1, PartListAssumption DEF NewIndex
    <2> QED BY <1>0, <2>1, <2>2, <2>3 DEF WiringOK
  <1>3. CASE PartitionFails
    <2>1. /\ table = found.table /\ kernel = found.table /\ (conf.dual => Kept = Foreign)
          /\ conf' = conf /\ found' = found /\ kernel' = kernel
      BY <1>3, KeptIsForeign DEF PartitionFails, setup, devices
    <2>2. NoneShared(table') /\ \A i \in Kept : table'[i].cell = table[i].cell
      BY <1>3, Partitioning DEF PartitionFails, WiringOK
    <2>3. ~Partitioned'
      BY <1>3, AfterPartitioner DEF PartitionFails, Doing, process, Partitioned, Past
    <2> QED BY <1>0, <2>1, <2>2, <2>3 DEF WiringOK
  <1>4. CASE LosePower
    <2>1. ~Partitioned' /\ found' = found /\ conf' = conf /\ table' = table /\ kernel' = table
      BY <1>4 DEF LosePower, Partitioned, Past, setup
    <2> QED BY <1>0, <2>1 DEF WiringOK
  <1>5. CASE Restart
    <2>1. ~Partitioned' /\ found'.table = table /\ table' = table /\ kernel' = table
      BY <1>5 DEF Restart, Partitioned, Past
    <2> QED BY <2>1 DEF WiringOK
  <1> QED BY <1>1, <1>2, <1>3, <1>4, <1>5, StepKinds

\* execution_phase sets iago.state to complete after its sync(), and writes nothing after it.
LEMMA EndStep ==
    ASSUME TypeOK, EndOK, [Next]_vars
    PROVE  EndOK'
  <1>1. /\ Calls \in Nat /\ Calls > 1
        /\ call \in 1 .. Calls /\ pc \in 1 .. Len(Code) /\ Len(Code) \in Nat
    BY ConstantTypes, CodeType DEF TypeOK
  <1>2. CASE Quiet
    BY <1>2 DEF Quiet, EndOK, Past, AtEnding, disk
  <1>3. CASE Ahead
    <2>1. state' # "complete"
      BY <1>3 DEF Ahead
    <2>2. CASE call = Calls
      <3>1. AtEnding
        <4>1. ~AtReturn
          BY <1>1, <2>2 DEF AtReturn, EndOK
        <4> QED BY <2>2, <4>1, ConstantTypes, WhereIs
                DEF Where, AtPartitioner, AtImage, AtOta, AtGummiboot, AtSyslinux, AtFinalizer,
                    OtaCall, LoaderCall, FinalCall
      <3>2. Sync /\ pc = 1
        BY <1>3, <3>1, Does DEF AtEnding, Op, BlockWrites
      <3> QED BY <2>1, <2>2, <3>2 DEF Sync, NextOp, EndOK
    <2>3. CASE call # Calls
      <3>1. call' = Calls => pc' = 1
        BY <1>3, <2>3, Counting
      <3>2. call' <= Calls /\ call' \in Nat
        BY <1>1, <1>3, <2>3, Counting
      <3> QED BY <1>1, <2>1, <3>1, <3>2 DEF EndOK, Past
    <2> QED BY <2>2, <2>3
  <1>4. CASE Partition \/ PartitionFails
    <2>1. call' = 1 /\ state' # "complete"
      BY <1>4, Places DEF Partition, PartitionFails, Doing, NextOp, process, AtPartitioner
    <2> QED BY <1>1, <2>1 DEF EndOK, Past
  <1>5. CASE LosePower \/ Restart
    <2>1. call' = 1 /\ state' # "complete"
      BY <1>5 DEF LosePower, Restart
    <2> QED BY <1>1, <2>1 DEF EndOK, Past
  <1> QED BY <1>2, <1>3, <1>4, <1>5, StepKinds

-----------------------------------------------------------------------------
(* Cells *)

\* Different partitions are different cells, also for a kernel that works with
\* the table of before; and none but the shared ESP is in a foreign cell.
LEMMA Targets ==
    ASSUME TypeOK, WiringOK, Partitioned
    PROVE  /\ \A p \in Names : dev[p] \in Indices /\ CellAt(p) \in 0 .. NumCells
           /\ \A p, q \in Names :
                p # q => dev[p] # dev[q] /\ (CellAt(p) # 0 => CellAt(p) # CellAt(q))
           /\ conf.dual =>
                /\ \A p \in Names \ {"bootloader"}, i \in Foreign :
                     CellAt(p) # 0 => CellAt(p) # found.table[i].cell
                /\ Min(Esp(found.table)) \in Foreign
                /\ CellAt("bootloader") = found.table[Min(Esp(found.table))].cell
                /\ \A i, j \in Foreign :
                     /\ found.table[i].cell \in 1 .. NumCells
                     /\ found.table[i].cell = found.table[j].cell => i = j
  <1>1. ASSUME NEW p \in Names
        PROVE  dev[p] \in Indices /\ table[dev[p]].name = p
    BY DEF WiringOK, Used
  <1>2. ASSUME NEW p \in Names
        PROVE  CellAt(p) \in 0 .. NumCells
    BY <1>1 DEF TypeOK, Tables, CellAt
  <1>3. ASSUME NEW p \in Names, NEW i \in Indices, i # dev[p], CellAt(p) # 0
        PROVE  CellAt(p) # kernel[i].cell
    BY <1>1, <1>3 DEF WiringOK, NoneShared, Used, CellAt
  <1>4. ASSUME NEW p \in Names, NEW q \in Names, p # q
        PROVE  dev[p] # dev[q] /\ (CellAt(p) # 0 => CellAt(p) # CellAt(q))
    BY <1>1, <1>3, <1>4 DEF CellAt
  <1>5. ASSUME conf.dual
        PROVE  /\ \A i \in Foreign :
                    /\ i \in Indices /\ i \in Used(found.table)
                    /\ kernel[i].cell = found.table[i].cell
                    /\ found.table[i].cell \in 1 .. NumCells
               /\ \A p \in Names \ {"bootloader"} : dev[p] \notin Foreign
               /\ Min(Esp(found.table)) \in Foreign
               /\ dev["bootloader"] = Min(Esp(found.table))
    <2>1. Esp(found.table) # {} /\ dev["bootloader"] = Min(Esp(found.table))
      BY <1>5 DEF WiringOK
    <2>2. Min(Esp(found.table)) \in Foreign
      BY <2>1, EspStays DEF Foreign
    <2>3. ASSUME NEW i \in Foreign
          PROVE  /\ i \in Indices /\ i \in Used(found.table)
                 /\ kernel[i].cell = found.table[i].cell
                 /\ found.table[i].cell \in 1 .. NumCells
      <3>1. i \in Indices /\ i \in Used(found.table) /\ found.table[i].cell # 0
        BY DEF Foreign, Used
      <3>2. found.table[i].cell \in 0 .. NumCells
        BY <3>1 DEF TypeOK, Tables
      <3>3. kernel[i].cell = found.table[i].cell
        BY <1>5 DEF WiringOK
      <3> QED BY <3>1, <3>2, <3>3, ConstantTypes
    <2> QED BY <1>5, <2>1, <2>2, <2>3 DEF WiringOK
  <1>6. ASSUME conf.dual, NEW p \in Names \ {"bootloader"}, NEW i \in Foreign, CellAt(p) # 0
        PROVE  CellAt(p) # found.table[i].cell
    BY <1>3, <1>5, <1>6
  <1>7. ASSUME conf.dual
        PROVE  CellAt("bootloader") = found.table[Min(Esp(found.table))].cell
    BY <1>5, <1>7 DEF CellAt
  <1>8. ASSUME conf.dual, NEW i \in Foreign, NEW j \in Foreign,
               found.table[i].cell = found.table[j].cell
        PROVE  i = j
    BY <1>5, <1>8 DEF WiringOK, NoneShared
  <1> QED BY <1>1, <1>2, <1>4, <1>5, <1>6, <1>7, <1>8

\* Only the cell of the operation's partition is written.
LEMMA CellSteps ==
    ASSUME TypeOK, Ahead
    PROVE  /\ \A c \in 1 .. NumCells : c # CellAt(Now.part) => cells'[c] = cells[c]
           /\ Now.do \notin BlockWrites \cup {"file", "rmtree"} => cells' = cells
  <1>0. /\ cells \in [1 .. NumCells -> Cells]
        /\ Target(Now) = CellAt(Now.part)
    BY DEF TypeOK, Target, CellAt
  <1>1. Return \/ Mount \/ Umount \/ InstallBootCode \/ SetReboot \/ Sync \/ WaitForDevice
        => cells' = cells
    BY DEF Return, Mount, Umount, InstallBootCode, SetReboot, Sync, WaitForDevice, disk
  <1>2. BeginWrite \/ FinishWrite \/ OpenFile \/ CloseFile \/ RemoveTree
        => \A c \in 1 .. NumCells : c # CellAt(Now.part) => cells'[c] = cells[c]
    BY <1>0 DEF BeginWrite, FinishWrite, OpenFile, CloseFile, OnMounted, RemoveTree
  <1>3. BeginWrite \/ FinishWrite \/ OpenFile \/ CloseFile \/ RemoveTree
        => Now.do \in BlockWrites \cup {"file", "rmtree"}
    BY DEF BeginWrite, FinishWrite, OpenFile, CloseFile, RemoveTree, Doing
  <1> QED BY <1>1, <1>2, <1>3 DEF Ahead

\* The names of the files that an operation makes or removes.
NamesIn(op) ==
    CASE op.do = "file"    -> {op.file}
      [] op.do = "rmtree"  -> {"loader.conf", "entry"}
      [] op.do = "ldlinux" -> {"ldlinux.sys"}

\* Operations on files leave the file system and its other files.
LEMMA FileSteps ==
    ASSUME TypeOK, WiringOK, Ahead, Now.do \in {"file", "rmtree", "ldlinux"},
           NEW c \in 1 .. NumCells
    PROVE  /\ cells'[c].kind = cells[c].kind /\ cells'[c].of = cells[c].of
           /\ \A f : f.name \notin NamesIn(Now) => (f \in cells'[c].files <=> f \in cells[c].files)
  <1>0. /\ cells \in [1 .. NumCells -> Cells] /\ cells[c] \in Cells /\ run \in 0 .. MaxRuns
        /\ Target(Now) = CellAt(Now.part)
    BY ConstantTypes DEF TypeOK, Target, CellAt
  <1>1. CASE c # CellAt(Now.part)
    BY <1>1, CellSteps
  <1>2. ASSUME NEW f \in Files, f.name \in NamesIn(Now), cells'[c] = WithFile(cells[c], f)
        PROVE  /\ cells'[c].kind = cells[c].kind /\ cells'[c].of = cells[c].of
               /\ \A g : g.name \notin NamesIn(Now) =>
                           (g \in cells'[c].files <=> g \in cells[c].files)
    BY <1>0, <1>2, FileTypes
  <1>3. CASE c = CellAt(Now.part) /\ Now.do = "file"
    <2>1. PICK whole \in BOOLEAN : OnMounted(WithFile(cells[Target(Now)], FileOf(whole)))
      BY <1>3, Does DEF OpenFile, CloseFile, BlockWrites
    <2>2. cells'[c] = cells[c] \/ cells'[c] = WithFile(cells[c], FileOf(whole))
      BY <1>0, <1>3, <2>1 DEF OnMounted
    <2>3. FileOf(whole) \in Files /\ FileOf(whole).name = Now.file
      BY <1>3, WrittenTypes DEF FileOf, File
    <2> QED BY <1>2, <1>3, <2>2, <2>3 DEF NamesIn
  <1>4. CASE c = CellAt(Now.part) /\ Now.do = "ldlinux"
    <2> DEFINE f == File("ldlinux.sys", "none", run, TRUE)
    <2>1. f \in Files /\ f.name \in NamesIn(Now)
      BY <1>0, <1>4 DEF File, Files, FileNames, NamesIn
    <2>2. cells'[c] = cells[c] \/ cells'[c] = WithFile(cells[c], f)
      BY <1>0, <1>4, Does DEF BeginWrite, FinishWrite, Written, BlockWrites
    <2> QED BY <1>2, <2>1, <2>2
  <1>5. CASE c = CellAt(Now.part) /\ Now.do = "rmtree"
    <2>1. CASE cells' = cells
      BY <2>1
    <2>2. CASE cells' # cells
      <3>1. PICK f \in cells[Target(Now)].files :
              /\ f.name \in {"loader.conf", "entry"}
              /\ cells' = [cells EXCEPT ![Target(Now)].files = @ \ {f}]
        BY <1>5, <2>2, Does DEF RemoveTree, Tree, BlockWrites
      <3>2. cells'[c] = [cells[c] EXCEPT !.files = @ \ {f}]
        BY <1>0, <1>5, <3>1
      <3>3. NamesIn(Now) = {"loader.conf", "entry"}
        BY <1>5 DEF NamesIn
      <3> QED BY <1>0, <3>1, <3>2, <3>3 DEF Cells
    <2> QED BY <2>1, <2>2
  <1> QED BY <1>1, <1>3, <1>4, <1>5

-----------------------------------------------------------------------------
(* What is mounted *)

\* The partition that is mounted, by the place in the code.
LEMMA MountedAt ==
    ASSUME TypeOK
    PROVE  /\ call = OtaCall => MountedParts = IF conf.ota /\ pc \in 2 .. 4 THEN {"cache"} ELSE {}
           /\ call = LoaderCall /\ conf.loader = "gummiboot" =>
                MountedParts = IF pc \in 2 .. Len(conf.boots) + 8 THEN {"bootloader"} ELSE {}
           /\ call = LoaderCall /\ conf.loader = "syslinux" =>
                MountedParts = IF pc \in 4 .. 7 THEN {"bootloader"} ELSE {}
           /\ call = LoaderCall /\ conf.loader = "none" => MountedParts = {}
           /\ call = FinalCall => MountedParts = IF pc \in 2 .. 3 THEN {"factory"} ELSE {}
           /\ call \notin {OtaCall, LoaderCall, FinalCall} => MountedParts = {}
           /\ pc = 1 => MountedParts = {}
           /\ conf.loader \in {"gummiboot", "syslinux", "none"}
           /\ Len(conf.boots) \in Nat
  <1>1. OtaCall # LoaderCall /\ OtaCall # FinalCall /\ LoaderCall # FinalCall
    BY ConstantTypes DEF OtaCall, LoaderCall, FinalCall
  <1>2. conf.loader \in {"gummiboot", "syslinux", "none"} /\ Len(conf.boots) \in Nat
    <2>1. conf.boots \in Seq(Names) /\ conf.loader \in Loaders
      BY BootListsAssumption DEF TypeOK, Confs
    <2> QED BY <2>1, InstallerAssumption, LenProperties
  <1> QED BY <1>1, <1>2 DEF MountedParts

\* What mount and umount in the execute functions do to the set of parts that are
\* mounted, and that files are written where a part is, and devices where none is.
LEMMA MountSteps ==
    ASSUME TypeOK, Ahead
    PROVE  /\ Now.do = "mount" => MountedParts = {} /\ MountedParts' = {Now.part}
           /\ Now.do = "umount" => MountedParts = {Now.part} /\ MountedParts' = {}
           /\ Now.do \in {"file", "rmtree"} => MountedParts = {Now.part}
           /\ Now.do \notin {"mount", "umount"} => MountedParts' = MountedParts
           /\ Now.do \in BlockWrites => MountedParts = {}
  <1>1. /\ \/ call' = call /\ pc' = pc
           \/ call' = call /\ pc' = pc + 1 /\ Now.do # "return"
           \/ call' = call + 1 /\ pc' = 1 /\ AtReturn
        /\ conf' = conf /\ pc \in Nat /\ 1 <= pc
    BY Counting
  <1>2. OtaCall # LoaderCall /\ OtaCall # FinalCall /\ LoaderCall # FinalCall
    BY ConstantTypes DEF OtaCall, LoaderCall, FinalCall
  <1>3. ASSUME Now.do \in {"mount", "umount"}
        PROVE  call' = call /\ pc' = pc + 1
    BY <1>3, Does DEF Mount, Umount, NextOp, BlockWrites
  <1>4. CASE AtPartitioner \/ \E k \in DOMAIN PartList : AtImage(k)
    <2>1. call \notin {OtaCall, LoaderCall, FinalCall}
      BY <1>4, ConstantTypes DEF AtPartitioner, AtImage, OtaCall, LoaderCall, FinalCall
    <2>2. Now.do \notin {"mount", "umount", "file", "rmtree", "return"}
      <3>1. \A mode : Makes(mode) \subseteq {"mkfs", "dd", "fsck", "zero", "stop"}
        BY DEF Makes
      <3> QED BY <1>4, <3>1 DEF AtPartitioner, AtImage, Op
    <2>3. call' = call
      BY <1>1, <2>2 DEF AtReturn, Returned, Op
    <2> QED BY <1>1, <2>1, <2>2, <2>3 DEF MountedParts
  <1>5. CASE AtOta
    <2>1. call' = call /\ (pc' = pc \/ pc' = pc + 1)
      BY <1>1, <1>5 DEF AtOta, AtReturn, Returned, Op, Write
    <2>2. MountedParts = IF pc \in 2 .. 4 THEN {"cache"} ELSE {}
      BY <1>5, MountedAt DEF AtOta
    <2>3. MountedParts' = IF pc' \in 2 .. 4 THEN {"cache"} ELSE {}
      BY <1>1, <1>2, <1>5, <2>1 DEF AtOta, MountedParts
    <2>4. /\ Now.do = "mount" <=> pc = 1
          /\ Now.do = "umount" <=> pc = 4
          /\ Now.do \in {"file", "rmtree"} => pc \in 1 + 1 .. 4 - 1
          /\ Now.do \in {"mount", "file", "umount"} => Now.part = "cache"
          /\ Now.do \notin {"return", "rmtree"}
          /\ Now.do \in BlockWrites => pc < 1
      BY <1>5 DEF AtOta, Op, Write, BlockWrites
    <2>5. CASE pc \in {1, 4}
      BY <1>3, <2>2, <2>3, <2>4, <2>5
    <2>6. CASE pc \notin {1, 4}
      BY <1>1, <2>1, <2>2, <2>3, <2>4, <2>6
    <2> QED BY <2>5, <2>6
  <1>6. CASE AtGummiboot
    <2> DEFINE m == Len(conf.boots)
    <2>1. call' = call /\ (pc' = pc \/ pc' = pc + 1) /\ m \in Nat
      BY <1>1, <1>6, MountedAt DEF AtGummiboot, AtReturn, Returned, Op, Write, WriteFor
    <2>2. MountedParts = IF pc \in 2 .. m + 8 THEN {"bootloader"} ELSE {}
      BY <1>6, MountedAt DEF AtGummiboot
    <2>3. MountedParts' = IF pc' \in 2 .. m + 8 THEN {"bootloader"} ELSE {}
      BY <1>1, <1>2, <1>6, <2>1 DEF AtGummiboot, MountedParts
    <2>4. Now.do = "mount" <=> pc = 1
      BY <1>6, <2>1 DEF AtGummiboot, Op, Write, WriteFor
    <2>5. Now.do = "umount" <=> pc = m + 8
      BY <1>6, <2>1 DEF AtGummiboot, Op, Write, WriteFor
    <2>6. Now.part = "bootloader" /\ Now.do \notin BlockWrites /\ pc \in 1 .. m + 8
      BY <1>1, <1>6, <2>1 DEF AtGummiboot, Op, Write, WriteFor, BlockWrites
    <2>7. CASE pc = 1 \/ pc = m + 8
      BY <1>3, <2>1, <2>2, <2>3, <2>4, <2>5, <2>6, <2>7
    <2>8. CASE pc # 1 /\ pc # m + 8
      BY <1>1, <2>1, <2>2, <2>3, <2>4, <2>5, <2>6, <2>8
    <2> QED BY <2>7, <2>8
  <1>7. CASE AtSyslinux
    <2>1. call' = call /\ (pc' = pc \/ pc' = pc + 1)
      BY <1>1, <1>7 DEF AtSyslinux, AtReturn, Returned, Op, Write
    <2>2. MountedParts = IF pc \in 4 .. 7 THEN {"bootloader"} ELSE {}
      BY <1>7, MountedAt DEF AtSyslinux
    <2>3. MountedParts' = IF pc' \in 4 .. 7 THEN {"bootloader"} ELSE {}
      BY <1>1, <1>2, <1>7, <2>1 DEF AtSyslinux, MountedParts
    <2>4. /\ Now.do = "mount" <=> pc = 3
          /\ Now.do = "umount" <=> pc = 7
          /\ Now.do \in {"file", "rmtree"} => pc \in 3 + 1 .. 7 - 1
          /\ Now.do \in {"mount", "file", "umount"} => Now.part = "bootloader"
          /\ Now.do \notin {"return", "rmtree"}
          /\ Now.do \in BlockWrites => pc < 3
      BY <1>7 DEF AtSyslinux, Op, Write, BlockWrites
    <2>5. CASE pc \in {3, 7}
      BY <1>3, <2>2, <2>3, <2>4, <2>5
    <2>6. CASE pc \notin {3, 7}
      BY <1>1, <2>1, <2>2, <2>3, <2>4, <2>6
    <2> QED BY <2>5, <2>6
  <1>8. CASE AtFinalizer
    <2>1. call' = call /\ (pc' = pc \/ pc' = pc + 1)
      BY <1>1, <1>8 DEF AtFinalizer, AtReturn, Returned, Op, Write
    <2>2. MountedParts = IF pc \in 2 .. 3 THEN {"factory"} ELSE {}
      BY <1>8, MountedAt DEF AtFinalizer
    <2>3. MountedParts' = IF pc' \in 2 .. 3 THEN {"factory"} ELSE {}
      BY <1>1, <1>2, <1>8, <2>1 DEF AtFinalizer, MountedParts
    <2>4. /\ Now.do = "mount" <=> pc = 1
          /\ Now.do = "umount" <=> pc = 3
          /\ Now.do \in {"file", "rmtree"} => pc \in 1 + 1 .. 3 - 1
          /\ Now.do \in {"mount", "file", "umount"} => Now.part = "factory"
          /\ Now.do \notin {"return", "rmtree"}
          /\ Now.do \in BlockWrites => pc < 1
      BY <1>8 DEF AtFinalizer, Op, Write, BlockWrites
    <2>5. CASE pc \in {1, 3}
      BY <1>3, <2>2, <2>3, <2>4, <2>5
    <2>6. CASE pc \notin {1, 3}
      BY <1>1, <2>1, <2>2, <2>3, <2>4, <2>6
    <2> QED BY <2>5, <2>6
  <1>9. CASE AtEnding
    <2>1. call \notin {OtaCall, LoaderCall, FinalCall}
      BY <1>9, ConstantTypes DEF AtEnding, OtaCall, LoaderCall, FinalCall
    <2>2. call' = call /\ Now.do \in {"sync", "complete"}
      BY <1>1, <1>9 DEF AtEnding, AtReturn, Returned, Op
    <2> QED BY <1>1, <2>1, <2>2 DEF MountedParts, BlockWrites
  <1>10. CASE AtReturn
    <2>1. Now.do = "return" /\ pc' = 1
      BY <1>10, Does DEF AtReturn, Returned, Op, Return
    <2>2. MountedParts' = {}
      BY <2>1 DEF MountedParts
    <2>3. MountedParts = {}
      <3>1. pc = (IF conf.ota THEN 6 ELSE 1) => ~(conf.ota /\ pc \in 2 .. 4)
        OBVIOUS
      <3> QED BY <1>10, <3>1, MountedAt DEF AtReturn
    <2> QED BY <2>1, <2>2, <2>3 DEF BlockWrites
  <1> QED BY <1>4, <1>5, <1>6, <1>7, <1>8, <1>9, <1>10, WhereIs DEF Where

\* What is mounted is what the place in the program says, with a file system in it.
LEMMA MountsStep ==
    ASSUME TypeOK, BeforeOK, WiringOK, MountsOK, [Next]_vars
    PROVE  MountsOK'
  <1> SUFFICES ASSUME state' = "executing"
               PROVE  MountsOK'
    BY DEF MountsOK
  <1>1. CASE Quiet
    <2>1. /\ MountedParts' = MountedParts /\ mounted' = mounted /\ busy' = busy
          /\ Now' = Now /\ \A p : CellAt(p)' = CellAt(p)
          /\ cells' = cells /\ dev' = dev /\ kernel' = kernel /\ table' = table
      BY <1>1, CodeStays DEF Quiet, MountedParts, CellAt, setup, disk
    <2>2. CASE state = "executing"
      BY <2>1, <2>2 DEF MountsOK
    <2>3. CASE state # "executing"
      <3>1. ~Partitioned /\ mounted = {} /\ ~busy
        BY <1>1, <2>3 DEF Quiet, BeforeOK
      <3>2. MountedParts = {}
        BY <3>1, AfterPartitioner, MountedAt
      <3> QED BY <2>1, <3>1, <3>2 DEF MountsOK
    <2> QED BY <2>2, <2>3
  <1>2. CASE Ahead
    <2>1. /\ dev' = dev /\ kernel' = kernel /\ conf' = conf /\ table' = table
          /\ \A p : CellAt(p)' = CellAt(p)
      BY <1>2 DEF Ahead, CellAt
    <2>2. /\ mounted \subseteq {dev[p] : p \in MountedParts}
          /\ kernel = table => \A p \in MountedParts : dev[p] \in mounted
          /\ \A p \in MountedParts : /\ CellAt(p) # 0
                                     /\ dev[p] \in mounted => cells[CellAt(p)].kind = "fs"
          /\ busy => Now.do \in BlockWrites \cup {"file"} /\ CellAt(Now.part) # 0
      BY <1>2 DEF Ahead, MountsOK
    <2>3. /\ mounted' \subseteq {dev[p] : p \in MountedParts'}
          /\ kernel = table => \A p \in MountedParts' : dev[p] \in mounted'
      <3>1. CASE Now.do = "mount"
        <4>1. MountedParts = {} /\ MountedParts' = {Now.part} /\ Mount
          BY <1>2, <3>1, Does, MountSteps DEF BlockWrites
        <4>2. mounted = {}
          BY <2>2, <4>1
        <4> QED BY <4>1, <4>2 DEF Mount
      <3>2. CASE Now.do = "umount"
        <4>1. MountedParts = {Now.part} /\ MountedParts' = {} /\ Umount
          BY <1>2, <3>2, Does, MountSteps DEF BlockWrites
        <4> QED BY <2>2, <4>1 DEF Umount
      <3>3. CASE Now.do \notin {"mount", "umount"}
        <4>1. mounted' = mounted
          BY <1>2, <3>3, Does DEF Return, WaitForDevice, BeginWrite, FinishWrite, OpenFile,
                                  CloseFile, RemoveTree, InstallBootCode, SetReboot, Sync
        <4> QED BY <1>2, <2>2, <3>3, <4>1, MountSteps
      <3> QED BY <3>1, <3>2, <3>3
    <2>4. \A p \in MountedParts' : /\ CellAt(p) # 0
                                   /\ dev[p] \in mounted' => cells'[CellAt(p)].kind = "fs"
      <3>1. CASE Now.do = "mount"
        <4>1. MountedParts = {} /\ MountedParts' = {Now.part} /\ Mount
          BY <1>2, <3>1, Does, MountSteps DEF BlockWrites
        <4>2. mounted = {}
          BY <2>2, <4>1
        <4>3. dev[Now.part] \in mounted' => cells[Target(Now)].kind = "fs"
          BY <4>1, <4>2 DEF Mount
        <4>4. cells' = cells /\ Target(Now) # 0 /\ Target(Now) = CellAt(Now.part)
          BY <4>1 DEF Mount, Openable, Target, CellAt, disk
        <4> QED BY <4>1, <4>3, <4>4
      <3>2. CASE Now.do = "umount"
        BY <1>2, <3>2, MountSteps
      <3>3. CASE Now.do \notin {"mount", "umount"}
        <4>0. mounted' = mounted
          BY <1>2, <3>3, Does DEF Return, WaitForDevice, BeginWrite, FinishWrite, OpenFile,
                                  CloseFile, RemoveTree, InstallBootCode, SetReboot, Sync
        <4> SUFFICES ASSUME NEW p \in MountedParts
                     PROVE  /\ CellAt(p) # 0
                            /\ dev[p] \in mounted => cells'[CellAt(p)].kind = "fs"
          BY <1>2, <3>3, <4>0, MountSteps
        <4>1. CASE Now.do \in {"file", "rmtree"}
          <5>1. CellAt(p) \in 1 .. NumCells
            <6>1. p \in Names
              BY PartListAssumption DEF MountedParts
            <6>2. CellAt(p) \in 0 .. NumCells
              BY <1>2, <6>1, Targets DEF Ahead
            <6> QED BY <2>2, <6>2, ConstantTypes
          <5> QED BY <1>2, <2>2, <4>1, <5>1, FileSteps
        <4>2. CASE Now.do \in BlockWrites
          BY <1>2, <4>2, MountSteps
        <4>3. CASE Now.do \notin BlockWrites \cup {"file", "rmtree"}
          BY <1>2, <2>2, <4>3, CellSteps
        <4> QED BY <4>1, <4>2, <4>3
      <3> QED BY <3>1, <3>2, <3>3
    <2>5. busy' => Now'.do \in BlockWrites \cup {"file"} /\ CellAt(Now'.part) # 0
      <3>1. CASE BeginWrite \/ OpenFile
        <4>1. Now' = Now
          BY <2>1, <3>1, CodeStays DEF BeginWrite, OpenFile
        <4>2. BeginWrite => CellAt(Now.part) # 0 /\ Now.do \in BlockWrites
          BY DEF BeginWrite, Openable, Target, CellAt, Doing
        <4>3. OpenFile => CellAt(Now.part) # 0 /\ Now.do = "file"
          BY <1>2, <2>2, MountSteps DEF OpenFile, Doing
        <4> QED BY <3>1, <4>1, <4>2, <4>3
      <3>2. CASE FinishWrite \/ CloseFile
        BY <3>2 DEF FinishWrite, CloseFile
      <3>3. CASE ~(BeginWrite \/ OpenFile \/ FinishWrite \/ CloseFile)
        <4>1. busy' = busy
          BY <1>2, <3>3 DEF Ahead, Return, WaitForDevice, Mount, RemoveTree, Umount,
                            InstallBootCode, SetReboot, Sync
        <4>2. ~busy
          BY <1>2, <2>2, <3>3, Does
        <4> QED BY <4>1, <4>2
      <3> QED BY <3>1, <3>2, <3>3
    <2> QED BY <2>1, <2>3, <2>4, <2>5 DEF MountsOK
  <1>3. CASE Partition
    <2>1. call' = 1 /\ mounted' = mounted /\ mounted = {} /\ busy' = busy /\ ~busy
      BY <1>3, AfterPartitioner, Places
         DEF Partition, Doing, NextOp, AtPartitioner, BeforeOK
    <2>2. MountedParts' = {}
      BY <2>1, ConstantTypes DEF MountedParts, OtaCall, LoaderCall, FinalCall
    <2> QED BY <2>1, <2>2 DEF MountsOK
  <1>4. CASE PartitionFails \/ LosePower \/ Restart
    BY <1>4 DEF PartitionFails, LosePower, Restart
  <1> QED BY <1>1, <1>2, <1>3, <1>4, StepKinds

-----------------------------------------------------------------------------
(* The partitions of others *)

\* What is written is a partition of the list; a shared ESP is mounted, or is
\* written by SYSLINUX.
LEMMA WrittenParts ==
    ASSUME TypeOK
    PROVE  /\ Now.do \in BlockWrites \cup {"file", "rmtree"} => Now.part \in Names
           /\ Now.do = "ldlinux" => AtSyslinux /\ Now.part = "bootloader" /\ pc = 2
           /\ Now.do \in {"mkfs", "dd", "fsck", "zero"} =>
                \E k \in DOMAIN PartList :
                    /\ AtImage(k) /\ pc # 1
                    /\ ~(conf.dual /\ Now.part = "bootloader")
  <1>1. ASSUME Now.do \in {"mkfs", "dd", "fsck", "zero"}
        PROVE  \E k \in DOMAIN PartList :
                  /\ AtImage(k) /\ pc # 1 /\ Now.part \in Names
                  /\ ~(conf.dual /\ Now.part = "bootloader")
    <2>1. PICK k \in DOMAIN PartList : AtImage(k)
      BY <1>1, Places
    <2>2. pc # 1 /\ Now.do \in Makes(ModeOf(conf, PartList[k])) /\ Now.part = PartList[k].name
      BY <1>1, <2>1 DEF AtImage
    <2>3. ModeOf(conf, PartList[k]) # "skip"
      BY <2>2 DEF Makes
    <2> QED BY <2>1, <2>2, <2>3 DEF ModeOf, Names
  <1>2. Now.do \in {"file", "rmtree", "ldlinux"} => Now.part \in Names
    BY Places, PluginParts, PartListAssumption
  <1>3. Now.do = "ldlinux" => AtSyslinux /\ Now.part = "bootloader" /\ pc = 2
    BY Places DEF AtOta, AtGummiboot, AtSyslinux, AtFinalizer, Op, Write, WriteFor
  <1> QED BY <1>1, <1>2, <1>3 DEF BlockWrites

\* No operation of a plugin writes to the cell of a foreign partition, but for the
\* files on the shared ESP.
LEMMA ForeignStep ==
    ASSUME TypeOK, BeforeOK, WiringOK, ForeignOK, [Next]_vars, WiringOK'
    PROVE  ForeignOK'
  <1> DEFINE esp == Min(Esp(found.table))
             at(i) == found.table[i].cell
  <1> SUFFICES ASSUME conf'.dual, NEW i \in Foreign'
               PROVE  LET c == found'.table[i].cell
                      IN  /\ \/ cells'[c] = found'.cells[c]
                             \/ /\ i = Min(Esp(found'.table))
                                /\ \/ \A f \in found'.cells[c].files :
                                        f.name = "windows" => f \in cells'[c].files
                                   \/ conf'.loader = "syslinux" /\ state' = "off"
                          /\ c \in dirty' => i = Min(Esp(found'.table))
                                             /\ conf'.loader = "syslinux"
    BY DEF ForeignOK, ForeignUntouched, WiringOK, Foreign, Used, AndroidEntries, Esp
  <1>0. ASSUME found' = found, conf' = conf
        PROVE  /\ i \in Foreign /\ conf.dual
               /\ at(i) \in 1 .. NumCells
               /\ \/ cells[at(i)] = found.cells[at(i)]
                  \/ /\ i = esp
                     /\ \/ \A f \in found.cells[at(i)].files :
                             f.name = "windows" => f \in cells[at(i)].files
                        \/ conf.loader = "syslinux" /\ state = "off"
               /\ at(i) \in dirty => i = esp /\ conf.loader = "syslinux"
    <2>1. i \in Foreign /\ conf.dual
      BY <1>0 DEF Foreign, Used, AndroidEntries
    <2>2. at(i) \in 0 .. NumCells /\ at(i) # 0
      BY <2>1 DEF Foreign, Used, TypeOK, Tables
    <2> QED BY <2>1, <2>2, ConstantTypes DEF ForeignOK, ForeignUntouched, Foreign
  <1>1. CASE Quiet
    <2>1. /\ found' = found /\ conf' = conf /\ cells' = cells /\ dirty' = dirty
          /\ state = "off" => state' = "off"
      BY <1>1 DEF Quiet, setup, disk
    <2> QED BY <1>0, <2>1
  <1>2. CASE Ahead
    <2>1. found' = found /\ conf' = conf /\ state' = "executing" /\ state = "executing"
      BY <1>2 DEF Ahead, setup
    <2> DEFINE c == at(i)
    <2>2. i \in Foreign /\ conf.dual /\ c \in 1 .. NumCells
      BY <1>0, <2>1
    <2>3. CASE Now.do \notin BlockWrites \cup {"file", "rmtree"}
      <3>1. cells' = cells
        BY <1>2, <2>3, CellSteps
      <3>2. dirty' \subseteq dirty
        BY <1>2, <2>3, Does DEF Return, WaitForDevice, Mount, Umount, InstallBootCode,
                                SetReboot, Sync, disk
      <3> QED BY <1>0, <2>1, <3>1, <3>2
    <2>4. CASE Now.do \in BlockWrites \cup {"file", "rmtree"}
      <3>1. /\ dirty' \subseteq dirty \cup {CellAt(Now.part)}
            /\ Now.do \notin {"ldlinux", "mkfs", "dd", "fsck", "zero"} => dirty' = dirty
        BY <1>2, <2>4, Does DEF BeginWrite, FinishWrite, OpenFile, CloseFile, RemoveTree,
                                Target, CellAt, BlockWrites
      <3>2. CASE c # CellAt(Now.part)
        <4>1. cells'[c] = cells[c]
          BY <1>2, <2>2, <3>2, CellSteps
        <4> QED BY <1>0, <2>1, <3>1, <3>2, <4>1
      <3>3. CASE c = CellAt(Now.part)
        <4>1. Now.part \in Names /\ Partitioned
          BY <1>2, <2>4, WrittenParts DEF Ahead
        <4>2. Now.part = "bootloader"
          BY <2>2, <3>3, <4>1, Targets, ConstantTypes
        <4>3. i = esp
          BY <2>2, <3>3, <4>1, <4>2, Targets
        <4>4. Now.do \in {"file", "rmtree", "ldlinux"}
          BY <2>2, <2>4, <4>2, WrittenParts DEF BlockWrites
        <4>5. "windows" \notin NamesIn(Now)
          BY <4>4, Places, PluginParts DEF NamesIn
        <4>6. \A f : f.name = "windows" => (f \in cells'[c].files <=> f \in cells[c].files)
          BY <1>2, <2>2, <4>4, <4>5, FileSteps
        <4>7. c \in dirty' => conf.loader = "syslinux"
          BY <1>0, <2>1, <3>1, <4>4, WrittenParts DEF AtSyslinux
        <4> QED BY <1>0, <2>1, <4>3, <4>6, <4>7
      <3> QED BY <3>2, <3>3
    <2> QED BY <2>3, <2>4
  <1>3. CASE Partition \/ PartitionFails
    <2>1. /\ found' = found /\ conf' = conf /\ cells' = cells /\ dirty' = dirty
          /\ state = "executing"
      BY <1>3 DEF Partition, PartitionFails, Doing, setup
    <2> QED BY <1>0, <2>1
  <1>4. CASE LosePower
    <2>1. /\ found' = found /\ conf' = conf /\ dirty' = {} /\ state # "off" /\ state' = "off"
      BY <1>4 DEF LosePower, setup
    <2>2. \A c \in 1 .. NumCells : cells'[c] = cells[c] \/ c \in dirty
      BY <1>4 DEF LosePower
    <2> QED BY <1>0, <2>1, <2>2
  <1>5. CASE Restart
    BY <1>5 DEF Restart
  <1> QED BY <1>1, <1>2, <1>3, <1>4, <1>5, StepKinds

-----------------------------------------------------------------------------
(* The package and the command *)

\* The places in a call.
LEMMA CallPlaces ==
    ASSUME TypeOK
    PROVE  /\ call = 1 => AtPartitioner \/ AtReturn
           /\ \A k \in DOMAIN PartList : call = k + 1 => AtImage(k) \/ AtReturn
           /\ call = OtaCall => AtOta \/ AtReturn
           /\ call = LoaderCall => AtGummiboot \/ AtSyslinux \/ AtReturn
           /\ call = FinalCall => AtFinalizer \/ AtReturn
           /\ call = Calls => AtEnding \/ AtReturn
           /\ \A k \in DOMAIN PartList : k \in Nat /\ k + 1 > 1 /\ k + 1 < OtaCall
           /\ OtaCall \in Nat /\ LoaderCall = OtaCall + 1 /\ FinalCall = OtaCall + 2
           /\ Calls = OtaCall + 3 /\ OtaCall > 1
  <1>1. /\ \A k \in DOMAIN PartList : k \in Nat /\ k + 1 > 1 /\ k + 1 < OtaCall
        /\ OtaCall \in Nat /\ LoaderCall = OtaCall + 1 /\ FinalCall = OtaCall + 2
        /\ Calls = OtaCall + 3 /\ OtaCall > 1
    BY ConstantTypes DEF OtaCall, LoaderCall, FinalCall
  <1>2. Where
    BY WhereIs
  <1>3. ASSUME NEW k \in DOMAIN PartList, call = k + 1
        PROVE  AtImage(k) \/ AtReturn
    <2>1. \A j \in DOMAIN PartList : AtImage(j) => j = k
      BY <1>1, <1>3 DEF AtImage
    <2> QED BY <1>1, <1>2, <1>3, <2>1
            DEF Where, AtPartitioner, AtOta, AtGummiboot, AtSyslinux, AtFinalizer, AtEnding
  <1>4. ASSUME NEW j \in DOMAIN PartList, AtImage(j)
        PROVE  call \notin {1, OtaCall, LoaderCall, FinalCall, Calls}
    BY <1>1, <1>4 DEF AtImage
  <1> QED BY <1>1, <1>2, <1>3, <1>4
          DEF Where, AtPartitioner, AtOta, AtGummiboot, AtSyslinux, AtFinalizer, AtEnding

\* What is done stays done.
LEMMA PastStays ==
    ASSUME TypeOK, Quiet \/ Ahead, NEW k \in Nat, NEW op \in Nat \ {0}
    PROVE  /\ Past(k, op) => Past(k, op)'
           /\ Quiet => (Past(k, op) <=> Past(k, op)')
           /\ Past(k, op)' /\ ~Past(k, op) =>
                /\ Ahead
                /\ \/ call = k /\ pc = op /\ call' = call /\ pc' = pc + 1 /\ Now.do # "return"
                   \/ call = k /\ pc <= op /\ call' = call + 1 /\ AtReturn
  <1>1. /\ call \in Nat /\ pc \in Nat /\ 1 <= call /\ 1 <= pc
        /\ \/ call' = call /\ pc' = pc
           \/ call' = call /\ pc' = pc + 1 /\ Ahead /\ Now.do # "return"
           \/ call' = call + 1 /\ pc' = 1 /\ Ahead /\ AtReturn
        /\ Quiet => call' = call /\ pc' = pc
    BY Counting DEF Quiet
  <1>2. CASE call' = call /\ pc' = pc
    BY <1>1, <1>2 DEF Past
  <1>3. CASE call' = call /\ pc' = pc + 1 /\ Ahead /\ Now.do # "return"
    BY <1>1, <1>3 DEF Past
  <1>4. CASE call' = call + 1 /\ pc' = 1 /\ Ahead /\ AtReturn
    BY <1>1, <1>4 DEF Past
  <1> QED BY <1>1, <1>2, <1>3, <1>4

\* Files of other names do not matter to what a file system has.
LEMMA HasSteps ==
    ASSUME TypeOK, WiringOK, Ahead, NEW c \in 1 .. NumCells,
           Now.do \in {"file", "rmtree", "ldlinux"} \/ c # CellAt(Now.part)
                      \/ Now.do \notin BlockWrites
    PROVE  /\ \A name : ~(Now.do \in {"file", "rmtree", "ldlinux"} /\ name \in NamesIn(Now))
                        => HasWhole(cells'[c], name) = HasWhole(cells[c], name)
           /\ ~(Now.do = "file" /\ Now.file = "recovery/command")
                => HasCommand(cells'[c]) = HasCommand(cells[c])
  <1>1. CASE Now.do \in {"file", "rmtree", "ldlinux"}
    <2>1. \A f : f.name \notin NamesIn(Now) => (f \in cells'[c].files <=> f \in cells[c].files)
      BY <1>1, FileSteps
    <2>2. ASSUME NEW name, name \notin NamesIn(Now)
          PROVE  HasWhole(cells'[c], name) = HasWhole(cells[c], name)
      BY <2>1, <2>2 DEF HasWhole
    <2>3. ~(Now.do = "file" /\ Now.file = "recovery/command") => "recovery/command" \notin NamesIn(Now)
      BY <1>1 DEF NamesIn
    <2>4. "recovery/command" \notin NamesIn(Now) => HasCommand(cells'[c]) = HasCommand(cells[c])
      BY <2>1 DEF HasCommand
    <2> QED BY <1>1, <2>2, <2>3, <2>4
  <1>2. CASE Now.do \notin {"file", "rmtree", "ldlinux"}
    <2>1. cells'[c] = cells[c]
      BY <1>2, CellSteps DEF BlockWrites
    <2> QED BY <1>2, <2>1
  <1> QED BY <1>1, <1>2

\* A block write leaves no files, but for that of SYSLINUX.
LEMMA BlockSteps ==
    ASSUME TypeOK, Ahead, Now.do \in {"mkfs", "dd", "fsck", "zero"}, CellAt(Now.part) \in 1 .. NumCells
    PROVE  LET c == CellAt(Now.part)
           IN  /\ BeginWrite => cells'[c] = Junk
               /\ FinishWrite => /\ cells'[c] = Written(Now)
                                 /\ Now.do = "mkfs" => cells'[c] = Content("fs", Now.part)
                                 /\ Now.do \in {"dd", "fsck"} => cells'[c] = Content("image", Now.part)
                                 /\ Now.do = "zero" => cells'[c] = Content("zero", "none")
               /\ BeginWrite \/ FinishWrite
               /\ cells'[c].files = {}
  <1>1. cells \in [1 .. NumCells -> Cells] /\ Target(Now) = CellAt(Now.part)
    BY DEF TypeOK, Target, CellAt
  <1>2. BeginWrite \/ FinishWrite
    BY Does DEF BlockWrites
  <1>3. BeginWrite => cells'[CellAt(Now.part)] = Junk
    BY <1>1 DEF BeginWrite
  <1>4. FinishWrite => cells'[CellAt(Now.part)] = Written(Now)
    BY <1>1 DEF FinishWrite
  <1>5. /\ Now.do = "mkfs" => Written(Now) = Content("fs", Now.part)
        /\ Now.do \in {"dd", "fsck"} => Written(Now) = Content("image", Now.part)
        /\ Now.do = "zero" => Written(Now) = Content("zero", "none")
    BY DEF Written
  <1> QED BY <1>2, <1>3, <1>4, <1>5 DEF Junk, Content

\* ota_execute writes the command when the package is whole, and no other operation
\* takes the package away from it.
LEMMA PackageStep ==
    ASSUME TypeOK, BeforeOK, WiringOK, MountsOK, PackageOK, [Next]_vars, TypeOK'
    PROVE  PackageOK'
  <1> DEFINE x == CellAt("cache")
             noCommand == /\ ~Past(OtaCall, 3) /\ ~(call = OtaCall /\ pc = 3 /\ busy)
  <1>0. /\ cells \in [1 .. NumCells -> Cells] /\ "cache" \in Names
        /\ \E k \in DOMAIN PartList : PartList[k].name = "cache"
        /\ OtaCall \in Nat /\ 3 \in Nat \ {0} /\ 2 \in Nat \ {0}
        /\ \A k \in DOMAIN PartList : k + 1 \in Nat /\ k + 1 > 1 /\ k + 1 < OtaCall
        /\ Partitioned => x \in 0 .. NumCells
    <2>1. \E k \in DOMAIN PartList : PartList[k].name = "cache"
      BY PartListAssumption DEF Names
    <2>2. /\ OtaCall \in Nat
          /\ \A k \in DOMAIN PartList : k + 1 \in Nat /\ k + 1 > 1 /\ k + 1 < OtaCall
      BY CallPlaces
    <2>3. "cache" \in Names /\ (Partitioned => x \in 0 .. NumCells)
      BY Targets, PartListAssumption
    <2>4. cells \in [1 .. NumCells -> Cells]
      BY DEF TypeOK
    <2> QED BY <2>1, <2>2, <2>3, <2>4
  <1>1. ASSUME cells' = cells
        PROVE  CommandHasPackage'
    BY <1>1 DEF PackageOK, CommandHasPackage
  <1>2. CASE Quiet
    <2>1. /\ cells' = cells /\ busy' = busy /\ call' = call /\ pc' = pc /\ CellAt("cache")' = x
          /\ dev' = dev /\ (state' = "executing" => mounted' = mounted)
      BY <1>2 DEF Quiet, CellAt, setup, disk
    <2>2. CASE state = "executing"
      BY <1>1, <2>1, <2>2 DEF PackageOK, Past
    <2>3. CASE state # "executing"
      <3> SUFFICES ASSUME state' = "executing"
                   PROVE  /\ \A k \in DOMAIN PartList : ~Past(k + 1, 2)'
                          /\ call' # OtaCall
        BY <1>1, <2>1 DEF PackageOK
      <3>1. ~Partitioned
        BY <1>2, <2>3 DEF Quiet, BeforeOK
      <3>2. call = 1 /\ pc = 1
        BY <3>1, AfterPartitioner
      <3> QED BY <1>0, <2>1, <3>2, CallPlaces DEF Past
    <2> QED BY <2>2, <2>3
  <1>3. CASE Ahead
    <2>1. /\ state = "executing" /\ state' = "executing" /\ CellAt("cache")' = x /\ Partitioned
          /\ x \in 0 .. NumCells /\ conf' = conf /\ dev' = dev
      BY <1>0, <1>3 DEF Ahead, CellAt, setup
    <2>2. /\ \A k \in DOMAIN PartList : PartList[k].name = "cache" /\ Past(k + 1, 2) =>
                x # 0 /\ (noCommand => ~HasCommand(cells[x]))
          /\ call = OtaCall /\ pc = 3 /\ dev["cache"] \in mounted => HasWhole(cells[x], "ota.zip")
      BY <2>1 DEF PackageOK
    <2>3. ASSUME call = OtaCall
          PROVE  x \in 1 .. NumCells /\ (noCommand => ~HasCommand(cells[x]))
      <3>1. PICK k \in DOMAIN PartList : PartList[k].name = "cache"
        BY <1>0
      <3>2. Past(k + 1, 2)
        BY <1>0, <2>3, <3>1 DEF Past
      <3> QED BY <2>1, <2>2, <3>1, <3>2, ConstantTypes
    <2>4. ASSUME Now.do = "file", Now.file \in {"ota.zip", "recovery/command"}
          PROVE  /\ call = OtaCall /\ Now.part = "cache"
                 /\ Now.file = "ota.zip" => pc = 2
                 /\ Now.file = "recovery/command" => pc = 3
      BY <2>4, Places DEF AtOta, AtGummiboot, AtSyslinux, AtFinalizer, Op, Write, WriteFor
    <2>5. ASSUME NEW c \in 1 .. NumCells, HasCommand(cells'[c])
          PROVE  HasWhole(cells'[c], "ota.zip")
      <3>1. HasCommand(cells[c]) => HasWhole(cells[c], "ota.zip")
        BY DEF PackageOK, CommandHasPackage
      <3>2. CASE Now.do \in {"mkfs", "dd", "fsck", "zero"} /\ c = CellAt(Now.part)
        <4>1. cells'[c].files = {}
          BY <1>3, <3>2, BlockSteps
        <4> QED BY <2>5, <4>1 DEF HasCommand
      <3>3. CASE ~(Now.do \in {"mkfs", "dd", "fsck", "zero"} /\ c = CellAt(Now.part))
        <4>1. Now.do \in {"file", "rmtree", "ldlinux"} \/ c # CellAt(Now.part)
                      \/ Now.do \notin BlockWrites
          BY <3>3 DEF BlockWrites
        <4>2. CASE Now.do = "file" /\ Now.file = "ota.zip" /\ c = CellAt(Now.part)
          <5>1. HasCommand(cells[c])
            BY <1>3, <2>5, <4>1, <4>2, HasSteps
          <5>2. c = x /\ call = OtaCall /\ pc = 2
            BY <2>4, <4>2
          <5>3. noCommand
            BY <1>0, <5>2 DEF Past
          <5> QED BY <2>3, <5>1, <5>2, <5>3
        <4>3. CASE Now.do = "file" /\ Now.file = "recovery/command" /\ c = CellAt(Now.part)
          <5>1. c = x /\ call = OtaCall /\ pc = 3 /\ Now.part = "cache"
            BY <2>4, <4>3
          <5>2. CASE dev["cache"] \in mounted
            <6>1. HasWhole(cells[c], "ota.zip")
              BY <2>2, <5>1, <5>2
            <6>2. "ota.zip" \notin NamesIn(Now)
              BY <4>3 DEF NamesIn
            <6> QED BY <1>3, <4>1, <6>1, <6>2, HasSteps
          <5>3. CASE dev["cache"] \notin mounted
            <6>1. cells' = cells
              BY <1>3, <4>3, <5>1, <5>3, Does DEF OpenFile, CloseFile, OnMounted, BlockWrites
            <6> QED BY <2>5, <3>1, <6>1
          <5> QED BY <5>2, <5>3
        <4>4. CASE c # CellAt(Now.part)
          <5>1. cells'[c] = cells[c]
            BY <1>3, <4>4, CellSteps
          <5> QED BY <2>5, <3>1, <5>1
        <4>5. CASE ~(Now.do = "file" /\ Now.file \in {"ota.zip", "recovery/command"})
          <5>1. Now.do \in {"file", "rmtree", "ldlinux"} => "ota.zip" \notin NamesIn(Now)
            BY <4>5 DEF NamesIn
          <5> QED BY <1>3, <2>5, <3>1, <4>1, <4>5, <5>1, HasSteps
        <4> QED BY <4>2, <4>3, <4>4, <4>5
      <3> QED BY <3>2, <3>3
    <2>6. ASSUME NEW k \in DOMAIN PartList, PartList[k].name = "cache", Past(k + 1, 2)',
                 ~Past(k + 1, 2)
          PROVE  x # 0 /\ ~HasCommand(cells'[x])
      <3>1. /\ call = k + 1 /\ pc <= 2
            /\ AtReturn \/ (pc = 2 /\ pc' = pc + 1 /\ Now.do # "return")
        BY <1>0, <1>3, <2>6, PastStays
      <3>2. /\ Len(WritePartition(conf, PartList[k])) = 2
            /\ ModeOf(conf, PartList[k]) = "format"
        <4>1. ModeOf(conf, PartList[k]) = "format"
          BY <2>6, PartListAssumption DEF ModeOf
        <4> QED BY <1>0, <2>6, <4>1, PartitionCode
      <3>3. pc = 2 /\ pc' = pc + 1 /\ Now.do # "return"
        BY <3>1, <3>2 DEF AtReturn
      <3>4. AtImage(k)
        BY <3>1, <3>3, CallPlaces DEF AtReturn, Returned, Op
      <3>5. Now.do = "mkfs" /\ Now.part = "cache"
        BY <2>6, <3>2, <3>3, <3>4 DEF AtImage, Makes
      <3>6. FinishWrite
        BY <1>3, <3>3, <3>5, CodeType, Does DEF BeginWrite, BlockWrites, TypeOK
      <3>7. x # 0
        BY <2>1, <3>5, <3>6 DEF FinishWrite, MountsOK
      <3>8. cells'[x].files = {}
        BY <1>3, <2>1, <3>5, <3>7, BlockSteps, ConstantTypes
      <3> QED BY <3>7, <3>8 DEF HasCommand
    <2>7. ASSUME NEW k \in DOMAIN PartList, PartList[k].name = "cache", Past(k + 1, 2),
                 ~Past(OtaCall, 3)', ~(call' = OtaCall /\ pc' = 3 /\ busy')
          PROVE  ~HasCommand(cells'[x])
      <3>1. ~Past(OtaCall, 3)
        BY <1>0, <1>3, <2>7, PastStays
      <3>2. ~(call = OtaCall /\ pc = 3)
        <4> SUFFICES ASSUME call = OtaCall, pc = 3
                     PROVE  FALSE
          OBVIOUS
        <4>1. AtOta /\ Now = Write("cache", "recovery/command")
          BY CallPlaces DEF AtReturn, AtOta
        <4>2. OpenFile \/ CloseFile
          BY <1>3, <4>1, Does DEF Write, BlockWrites
        <4>3. OpenFile => call' = OtaCall /\ pc' = 3 /\ busy'
          BY DEF OpenFile
        <4>4. CloseFile => call' = OtaCall /\ pc' = 4
          BY DEF CloseFile, NextOp
        <4> QED BY <1>0, <2>7, <4>2, <4>3, <4>4 DEF Past
      <3>3. x \in 1 .. NumCells /\ ~HasCommand(cells[x])
        BY <2>1, <2>2, <2>7, <3>1, <3>2, ConstantTypes
      <3>4. ~(Now.do = "file" /\ Now.file = "recovery/command")
        BY <2>4, <3>2
      <3>5. CASE Now.do \in {"mkfs", "dd", "fsck", "zero"} /\ x = CellAt(Now.part)
        <4>1. cells'[x].files = {}
          BY <1>3, <3>3, <3>5, BlockSteps
        <4> QED BY <4>1 DEF HasCommand
      <3>6. CASE ~(Now.do \in {"mkfs", "dd", "fsck", "zero"} /\ x = CellAt(Now.part))
        <4>1. Now.do \in {"file", "rmtree", "ldlinux"} \/ x # CellAt(Now.part)
                      \/ Now.do \notin BlockWrites
          BY <3>6 DEF BlockWrites
        <4> QED BY <1>3, <3>3, <3>4, <4>1, HasSteps
      <3> QED BY <3>5, <3>6
    <2>8. ASSUME call' = OtaCall, pc' = 3, dev["cache"] \in mounted'
          PROVE  HasWhole(cells'[x], "ota.zip")
      <3>1. call = OtaCall /\ (pc = 3 \/ (pc = 2 /\ pc' = pc + 1 /\ Now.do # "return"))
        BY <1>3, <2>8, Counting
      <3>2. AtOta /\ x \in 1 .. NumCells
        BY <2>3, <3>1, CallPlaces DEF AtReturn, Returned, Op
      <3>3. CASE pc = 3
        <4>1. Now = Write("cache", "recovery/command")
          BY <3>2, <3>3 DEF AtOta
        <4>2. "ota.zip" \notin NamesIn(Now) /\ Now.do = "file"
          BY <4>1 DEF NamesIn, Write
        <4>3. mounted' = mounted
          BY <1>3, <4>2, Does DEF OpenFile, CloseFile, BlockWrites
        <4> QED BY <1>3, <2>2, <2>8, <3>1, <3>2, <3>3, <4>2, <4>3, HasSteps
      <3>4. CASE pc = 2
        <4>1. Now = Write("cache", "ota.zip") /\ Now.do = "file" /\ Now.part = "cache"
          BY <3>2, <3>4 DEF AtOta, Write
        <4>2. CloseFile
          BY <1>3, <3>1, <3>4, <4>1, Does DEF OpenFile, BlockWrites
        <4>3. cells'[x] = WithFile(cells[x], FileOf(TRUE))
          <5>1. ~KeepsEnd /\ dev[Now.part] \in mounted /\ Target(Now) = x
            BY <2>8, <4>1, <4>2 DEF CloseFile, KeepsEnd, Write, Target, CellAt
          <5>2. cells' = [cells EXCEPT ![x] = WithFile(cells[x], FileOf(TRUE))]
            BY <4>2, <5>1 DEF CloseFile, OnMounted
          <5> QED BY <1>0, <3>2, <5>2
        <4>4. FileOf(TRUE).name = "ota.zip" /\ FileOf(TRUE).whole /\ FileOf(TRUE) \in cells'[x].files
          BY <4>1, <4>3 DEF FileOf, File, Write, WithFile
        <4> QED BY <4>4 DEF HasWhole
      <3> QED BY <3>1, <3>3, <3>4
    <2>9. CommandHasPackage'
      BY <2>5 DEF CommandHasPackage
    <2>10. ASSUME NEW k \in DOMAIN PartList, PartList[k].name = "cache", Past(k + 1, 2)'
           PROVE  /\ x # 0
                  /\ ~Past(OtaCall, 3)' /\ ~(call' = OtaCall /\ pc' = 3 /\ busy')
                       => ~HasCommand(cells'[x])
      BY <2>2, <2>6, <2>7, <2>10
    <2> QED BY <2>1, <2>8, <2>9, <2>10 DEF PackageOK
  <1>4. CASE Partition
    <2>1. cells' = cells /\ call' = 1 /\ pc' = 2
      BY <1>4, Places DEF Partition, NextOp, Doing, AtPartitioner
    <2> QED BY <1>0, <1>1, <2>1 DEF PackageOK, Past
  <1>5. CASE PartitionFails \/ Restart
    BY <1>1, <1>5 DEF PartitionFails, Restart, PackageOK
  <1>6. CASE LosePower
    <2>1. \A c \in 1 .. NumCells : cells'[c] = cells[c] \/ cells'[c] = Junk
      BY <1>6 DEF LosePower
    <2>2. ~HasCommand(Junk)
      BY DEF HasCommand, Junk, Content
    <2>3. CommandHasPackage'
      BY <2>1, <2>2 DEF PackageOK, CommandHasPackage
    <2> QED BY <1>6, <2>3 DEF LosePower, PackageOK
  <1> QED BY <1>2, <1>3, <1>4, <1>5, <1>6, StepKinds

-----------------------------------------------------------------------------
(* The images *)

\* With the kernel at the table of the disk, each partition has a cell.
LEMMA CellsOf ==
    ASSUME TypeOK, WiringOK, Partitioned, kernel = table, NEW p \in Names
    PROVE  CellOf(p) = cells[CellAt(p)] /\ CellAt(p) \in 1 .. NumCells /\ CellOf(p) \in Cells
  <1>1. dev[p] \in Used(table) /\ CellAt(p) \in 0 .. NumCells
    BY Targets DEF WiringOK
  <1>2. CellAt(p) \in 1 .. NumCells
    BY <1>1, ConstantTypes DEF Used, CellAt
  <1>3. CellOf(p) = cells[CellAt(p)]
    BY DEF CellOf, CellAt
  <1> QED BY <1>2, <1>3 DEF TypeOK

\* What execute_cb has written stays, for files do not change the kind of a
\* file system and only formatted partitions are mounted.
LEMMA HoldsStays ==
    ASSUME TypeOK, WiringOK, Ahead, kernel = table, NEW k \in DOMAIN PartList,
           Holds(PartList[k]), Past(k + 1, Len(WritePartition(conf, PartList[k])))
    PROVE  Holds(PartList[k])'
  <1> DEFINE p == PartList[k]
             c == CellAt(p.name)
  <1>1. /\ p.name \in Names /\ Partitioned
        /\ conf' = conf /\ kernel' = kernel /\ table' = table /\ dev' = dev
    BY DEF Names, Ahead, setup
  <1>2. CellOf(p.name) = cells[c] /\ c \in 1 .. NumCells
    BY <1>1, CellsOf
  <1>3. CellOf(p.name)' = cells'[c]
    BY <1>1 DEF CellOf, CellAt
  <1>4. CASE Now.do \notin BlockWrites \cup {"file", "rmtree"} \/ c # CellAt(Now.part)
    <2>1. cells'[c] = cells[c]
      BY <1>2, <1>4, CellSteps
    <2> QED BY <1>1, <1>2, <1>3, <2>1 DEF Holds
  <1>5. CASE Now.do \in {"file", "rmtree", "ldlinux"} /\ c = CellAt(Now.part)
    <2>1. Now.part = p.name
      <3>1. Now.part \in Names
        BY <1>5, WrittenParts DEF BlockWrites
      <3> QED BY <1>1, <1>2, <1>5, <3>1, Targets
    <2>2. Now.part \in {"cache", "bootloader", "factory"}
      BY <1>5, Places, PluginParts
    <2>3. ModeOf(conf, p) \in {"format", "skip"}
      BY <2>1, <2>2, PartListAssumption DEF ModeOf
    <2>4. cells'[c].kind = cells[c].kind /\ cells'[c].of = cells[c].of
      BY <1>2, <1>5, FileSteps
    <2> QED BY <1>1, <1>2, <1>3, <2>3, <2>4 DEF Holds
  <1>6. CASE Now.do \in {"mkfs", "dd", "fsck", "zero"} /\ c = CellAt(Now.part)
    <2>1. PICK j \in DOMAIN PartList : AtImage(j)
      BY <1>6, WrittenParts
    <2>2. Now.part = PartList[j].name /\ Now.part \in Names
      BY <2>1 DEF AtImage, Names
    <2>3. j = k
      BY <1>1, <1>2, <1>6, <2>2, Targets, PartListAssumption
    <2>4. call = k + 1 /\ pc <= Len(WritePartition(conf, p))
      <3>1. Len(WritePartition(conf, p)) \in Nat
        BY <1>1, PartitionCode
      <3> QED BY <2>1, <2>3, <3>1 DEF AtImage
    <2>5. /\ Len(WritePartition(conf, p)) \in Nat /\ pc \in Nat /\ call \in Nat
      BY <1>1, PartitionCode, Counting
    <2> QED BY <2>4, <2>5 DEF Past
  <1> QED BY <1>4, <1>5, <1>6 DEF BlockWrites

\* What the imagewriter has written stays: the files that come later do not change
\* what a partition holds, and other partitions are other cells.
LEMMA ImagesStep ==
    ASSUME TypeOK, WiringOK, ImagesOK, [Next]_vars
    PROVE  ImagesOK'
  <1> SUFFICES ASSUME Partitioned', kernel' = table', NEW k \in DOMAIN PartList,
                      Past(k + 1, Len(WritePartition(conf, PartList[k])))'
               PROVE  Holds(PartList[k])'
    BY DEF ImagesOK
  <1> DEFINE p == PartList[k]
             w == WritePartition(conf, p)
  <1>0. /\ p.name \in Names /\ k + 1 \in Nat /\ k + 1 > 1
        /\ Len(w) \in Nat \ {0} /\ Len(WritePartition(conf', p)) \in Nat
    <2>1. p.name \in Names /\ k + 1 \in Nat /\ k + 1 > 1
      BY CallPlaces DEF Names
    <2>2. Len(w) \in 1 .. 3 /\ Len(WritePartition(conf', p)) \in 1 .. 3
      BY <2>1, PartitionCode
    <2>3. \A n \in 1 .. 3 : n \in Nat /\ n # 0
      OBVIOUS
    <2> HIDE DEF w
    <2> QED BY <2>1, <2>2, <2>3
  <1>1. CASE Quiet
    <2>1. /\ Partitioned /\ kernel = table /\ Past(k + 1, Len(w))
          /\ cells' = cells /\ conf' = conf /\ table' = table /\ dev' = dev
      BY <1>0, <1>1 DEF Quiet, setup, disk, Past, Partitioned
    <2> QED BY <2>1 DEF ImagesOK, Holds, CellOf
  <1>2. CASE Ahead
    <2>1. /\ Partitioned /\ kernel = table /\ conf' = conf /\ table' = table /\ dev' = dev
      BY <1>2 DEF Ahead, setup
    <2>2. Past(k + 1, Len(w))'
      BY <2>1
    <2>3. CASE Past(k + 1, Len(w))
      BY <1>2, <2>1, <2>3, HoldsStays DEF ImagesOK
    <2>4. CASE ~Past(k + 1, Len(w))
      <3>1. /\ call = k + 1 /\ pc <= Len(w)
            /\ AtReturn \/ (pc = Len(w) /\ pc' = pc + 1 /\ Now.do # "return")
        <4>1. PICK n \in Nat \ {0} : n = Len(w)
          BY <1>0
        <4>2. n = Len(w)'
          BY <2>1, <4>1
        <4>3. Past(k + 1, n)' /\ ~Past(k + 1, n)
          BY <2>4, <4>1, <4>2 DEF Past
        <4> HIDE DEF w
        <4> QED BY <1>0, <1>2, <4>1, <4>3, PastStays
      <3>2. pc = Len(w) /\ pc' = pc + 1 /\ Now.do # "return"
        BY <1>0, <3>1 DEF AtReturn
      <3>3. AtImage(k)
        BY <3>1, <3>2, CallPlaces DEF AtReturn, Returned, Op
      <3>4. CASE pc = 1
        <4>1. ModeOf(conf, p) = "skip"
          BY <1>0, <3>2, <3>4, PartitionCode
        <4> QED BY <2>1, <4>1 DEF Holds
      <3>5. CASE pc # 1
        <4>1. Now.part = p.name /\ Now.do \in Makes(ModeOf(conf, p))
          BY <3>3, <3>5 DEF AtImage
        <4>2. Now.do # "stop"
          BY <1>2, Does DEF BlockWrites
        <4>3. \/ ModeOf(conf, p) = "format" /\ Now.do = "mkfs"
              \/ ModeOf(conf, p) = "image" /\ Now.do \in {"dd", "fsck"}
              \/ ModeOf(conf, p) = "zero" /\ Now.do = "zero"
          BY <4>1, <4>2 DEF Makes
        <4>4. FinishWrite
          <5>1. pc' # pc
            BY <1>2, <3>2, Counting
          <5>2. BeginWrite \/ FinishWrite
            BY <1>2, <4>3, Does DEF BlockWrites
          <5> QED BY <5>1, <5>2 DEF BeginWrite
        <4>5. CellAt(p.name) \in 1 .. NumCells /\ CellOf(p.name)' = cells'[CellAt(p.name)]
          BY <1>0, <2>1, CellsOf DEF CellOf, CellAt
        <4>6. /\ Now.do = "mkfs" => CellOf(p.name)' = Content("fs", p.name)
              /\ Now.do \in {"dd", "fsck"} => CellOf(p.name)' = Content("image", p.name)
              /\ Now.do = "zero" => CellOf(p.name)' = Content("zero", "none")
          BY <1>2, <4>1, <4>3, <4>4, <4>5, BlockSteps
        <4>7. CASE ModeOf(conf, p) = "format" /\ Now.do = "mkfs"
          BY <2>1, <4>6, <4>7 DEF Holds, Content
        <4>8. CASE ModeOf(conf, p) = "image" /\ Now.do \in {"dd", "fsck"}
          BY <2>1, <4>6, <4>8 DEF Holds
        <4>9. CASE ModeOf(conf, p) = "zero" /\ Now.do = "zero"
          BY <2>1, <4>6, <4>9 DEF Holds
        <4> QED BY <4>3, <4>7, <4>8, <4>9
      <3> QED BY <3>4, <3>5
    <2> QED BY <2>3, <2>4
  <1>3. CASE Partition
    <2>1. call' = 1
      BY <1>3, Places DEF Partition, Doing, NextOp, AtPartitioner
    <2> QED BY <1>0, <2>1 DEF Past
  <1>4. CASE PartitionFails
    <2>1. ~Partitioned'
      BY <1>4, AfterPartitioner DEF PartitionFails, Doing, process, Partitioned, Past
    <2> QED BY <2>1
  <1>5. CASE LosePower \/ Restart
    BY <1>5 DEF LosePower, Restart, Partitioned, Past
  <1> QED BY <1>1, <1>2, <1>3, <1>4, <1>5, StepKinds

-----------------------------------------------------------------------------
(* The files of the plugins *)

\* A whole file stays, if it is not the one that is written.
LEMMA WholeStays ==
    ASSUME TypeOK, WiringOK, Ahead, kernel = table, NEW p \in Names, NEW name,
           HasWhole(CellOf(p), name), call >= OtaCall,
           ~(Now.do \in {"file", "rmtree", "ldlinux"} /\ name \in NamesIn(Now))
    PROVE  HasWhole(CellOf(p)', name)
  <1> DEFINE c == CellAt(p)
  <1>1. Partitioned /\ dev' = dev /\ kernel' = kernel /\ table' = table
    BY DEF Ahead, setup
  <1>2. CellOf(p) = cells[c] /\ c \in 1 .. NumCells
    BY <1>1, CellsOf
  <1>3. CellOf(p)' = cells'[c]
    BY <1>1 DEF CellOf, CellAt
  <1>4. Now.do \notin {"mkfs", "dd", "fsck", "zero"}
    <2> SUFFICES ASSUME Now.do \in {"mkfs", "dd", "fsck", "zero"}
                 PROVE  FALSE
      OBVIOUS
    <2>1. PICK k \in DOMAIN PartList : call = k + 1
      BY WrittenParts DEF AtImage
    <2>2. k \in Nat /\ k + 1 < OtaCall /\ OtaCall \in Nat
      BY CallPlaces
    <2> QED BY <2>1, <2>2
  <1>5. Now.do \in {"file", "rmtree", "ldlinux"} \/ c # CellAt(Now.part)
                      \/ Now.do \notin BlockWrites
    BY <1>4 DEF BlockWrites
  <1> QED BY <1>2, <1>3, <1>5, HasSteps

\* A file that is closed is whole, but for a loader.conf that was there before.
LEMMA FileClosed ==
    ASSUME TypeOK, WiringOK, MountsOK, Ahead, kernel = table, Now.do = "file", pc' # pc,
           NEW p \in Names, Now.part = p, Now.file # "loader.conf" \/ ~ConfLeft
    PROVE  /\ CellOf(p)' = WithFile(CellOf(p), FileOf(TRUE))
           /\ CellOf(p) \in Cells /\ FileOf(TRUE) \in Files
           /\ HasWhole(CellOf(p)', Now.file)
  <1> DEFINE c == CellAt(p)
  <1>1. Partitioned /\ dev' = dev /\ kernel' = kernel /\ table' = table
    BY DEF Ahead, setup
  <1>2. CellOf(p) = cells[c] /\ c \in 1 .. NumCells /\ cells[c] \in Cells
    BY <1>1, CellsOf
  <1>3. CellOf(p)' = cells'[c]
    BY <1>1 DEF CellOf, CellAt
  <1>4. CloseFile /\ ~KeepsEnd
    BY Does DEF OpenFile, BlockWrites, KeepsEnd, ConfLeft
  <1>5. cells'[c] = WithFile(cells[c], FileOf(TRUE))
    <2>1. dev[p] \in mounted
      BY MountSteps DEF MountsOK, Ahead
    <2>2. cells' = [cells EXCEPT ![c] = WithFile(cells[c], FileOf(TRUE))]
      BY <1>4, <2>1 DEF CloseFile, OnMounted, Target, CellAt
    <2> QED BY <1>2, <2>2 DEF TypeOK
  <1>6. FileOf(TRUE) \in Files /\ FileOf(TRUE).name = Now.file /\ FileOf(TRUE).whole
    BY WrittenTypes DEF FileOf, File
  <1>7. FileOf(TRUE) \in cells'[c].files
    BY <1>2, <1>5, <1>6, FileTypes
  <1> QED BY <1>2, <1>3, <1>5, <1>6, <1>7 DEF HasWhole

\* What is new in a step ahead was done by the operation at this place.
LEMMA NewlyPast ==
    ASSUME TypeOK, Ahead
    PROVE  /\ \A n \in 1 .. 6 : conf.ota /\ n <= 5 /\ Past(OtaCall, n)' /\ ~Past(OtaCall, n)
                => AtOta /\ pc = n /\ pc' # pc
           /\ \A n \in 1 .. 6 : conf.loader = "syslinux" /\ Past(LoaderCall, n)'
                                /\ ~Past(LoaderCall, n)
                => AtSyslinux /\ pc = n /\ pc' # pc
           /\ \A n \in 1 .. 2 : Past(FinalCall, n)' /\ ~Past(FinalCall, n)
                => AtFinalizer /\ pc = n /\ pc' # pc
  <1>1. /\ OtaCall \in Nat /\ LoaderCall \in Nat /\ FinalCall \in Nat
        /\ pc \in Nat
        /\ Now.do = "return" <=> AtReturn
    <2>1. AtReturn => Now.do = "return"
      BY DEF AtReturn, Returned, Op
    <2>2. Now.do = "return" => AtReturn
      BY Places
    <2> QED BY <2>1, <2>2, CallPlaces, Counting
  <1>2. ASSUME NEW k \in Nat, NEW n \in 1 .. 6, Past(k, n)', ~Past(k, n)
        PROVE  /\ call = k /\ pc <= n
               /\ AtReturn \/ (pc = n /\ pc' # pc /\ ~AtReturn)
    <2>1. n \in Nat \ {0}
      OBVIOUS
    <2> QED BY <1>1, <1>2, <2>1, PastStays
  <1>3. ASSUME NEW n \in 1 .. 6, conf.ota, n <= 5, Past(OtaCall, n)', ~Past(OtaCall, n)
        PROVE  AtOta /\ pc = n /\ pc' # pc
    <2>1. call = OtaCall /\ pc <= n /\ (AtReturn \/ (pc = n /\ pc' # pc /\ ~AtReturn))
      BY <1>1, <1>2, <1>3
    <2>2. ~AtReturn
      BY <1>3, <2>1 DEF AtReturn
    <2> QED BY <2>1, <2>2, CallPlaces
  <1>4. ASSUME NEW n \in 1 .. 6, conf.loader = "syslinux", Past(LoaderCall, n)',
               ~Past(LoaderCall, n)
        PROVE  AtSyslinux /\ pc = n /\ pc' # pc
    <2>1. call = LoaderCall /\ pc <= n /\ (AtReturn \/ (pc = n /\ pc' # pc /\ ~AtReturn))
      BY <1>1, <1>2, <1>4
    <2>2. ~AtReturn
      BY <1>4, <2>1 DEF AtReturn
    <2> QED BY <1>4, <2>1, <2>2, CallPlaces DEF AtGummiboot
  <1>5. ASSUME NEW n \in 1 .. 2, Past(FinalCall, n)', ~Past(FinalCall, n)
        PROVE  AtFinalizer /\ pc = n /\ pc' # pc
    <2>1. call = FinalCall /\ pc <= n /\ (AtReturn \/ (pc = n /\ pc' # pc /\ ~AtReturn))
      BY <1>1, <1>2, <1>5
    <2>2. ~AtReturn
      BY <2>1 DEF AtReturn
    <2> QED BY <2>1, <2>2, CallPlaces
  <1> QED BY <1>3, <1>4, <1>5

\* The files of ota, syslinux and finalizer stay whole once they are closed.
LEMMA FilesStep ==
    ASSUME TypeOK, WiringOK, MountsOK, FilesOK, [Next]_vars
    PROVE  FilesOK'
  <1>0. /\ {"cache", "bootloader", "factory"} \subseteq Names
        /\ OtaCall \in Nat /\ LoaderCall = OtaCall + 1 /\ FinalCall = OtaCall + 2 /\ OtaCall > 1
    BY PartListAssumption, CallPlaces
  <1>1. CASE Quiet
    <2>1. /\ \A k, op : Past(k, op)' = Past(k, op) /\ Partitioned' = Partitioned
          /\ cells' = cells /\ conf' = conf /\ table' = table /\ dev' = dev /\ kernel' = kernel
          /\ target' = target /\ boot' = boot
      BY <1>1 DEF Quiet, setup, disk, booting, Past, Partitioned
    <2> QED BY <2>1 DEF FilesOK, CellOf
  <1>2. CASE Ahead
    <2>1. /\ Partitioned /\ conf' = conf /\ table' = table /\ dev' = dev /\ kernel' = kernel
          /\ call \in Nat /\ pc \in Nat
      BY <1>2, Counting DEF Ahead
    <2>2. target' = target \/ (Now = Op("reboot", "recovery") /\ target' = "recovery")
      <3>1. CASE SetReboot
        <4>1. AtOta
          BY <3>1, Places DEF SetReboot, Doing, AtOta, AtGummiboot, AtSyslinux, AtFinalizer, Op,
                              Write, WriteFor
        <4>2. Now = Op("reboot", "recovery")
          BY <3>1, <4>1 DEF SetReboot, Doing, AtOta, Op, Write
        <4> QED BY <3>1, <4>2 DEF SetReboot, Op
      <3>2. CASE ~SetReboot
        BY <1>2, <3>2 DEF Ahead, Return, WaitForDevice, BeginWrite, FinishWrite, Mount, OpenFile,
                          CloseFile, RemoveTree, Umount, InstallBootCode, Sync, booting
      <3> QED BY <3>1, <3>2
    <2>3. boot.mbr => boot'.mbr
      <3>1. CASE InstallBootCode
        BY <3>1 DEF InstallBootCode, TypeOK
      <3>2. CASE ~InstallBootCode
        BY <1>2, <3>2 DEF Ahead, Return, WaitForDevice, BeginWrite, FinishWrite, Mount, OpenFile,
                          CloseFile, RemoveTree, Umount, SetReboot, Sync, booting
      <3> QED BY <3>1, <3>2
    <2>4. conf.ota /\ Past(OtaCall, 5)' => target' = "recovery"
      <3>1. CASE Past(OtaCall, 5)
        BY <2>1, <2>2, <3>1 DEF FilesOK
      <3>2. ASSUME conf.ota, Past(OtaCall, 5)', ~Past(OtaCall, 5)
            PROVE  target' = "recovery"
        <4>1. AtOta /\ pc = 5
          BY <1>2, <3>2, NewlyPast
        <4> QED BY <1>2, <4>1, Does DEF AtOta, SetReboot, Op, BlockWrites
      <3> QED BY <3>1, <3>2
    <2>5. conf.loader = "syslinux" /\ Past(LoaderCall, 1)' => boot'.mbr
      <3>1. CASE Past(LoaderCall, 1)
        BY <2>1, <2>3, <3>1 DEF FilesOK
      <3>2. ASSUME conf.loader = "syslinux", Past(LoaderCall, 1)', ~Past(LoaderCall, 1)
            PROVE  boot'.mbr
        <4>1. AtSyslinux /\ pc = 1
          BY <1>2, <3>2, NewlyPast
        <4>2. InstallBootCode /\ Now.do = "mbr"
          BY <1>2, <4>1, Does DEF AtSyslinux, Op
        <4> QED BY <4>2 DEF InstallBootCode, TypeOK
      <3> QED BY <3>1, <3>2
    <2>6. ASSUME kernel = table, conf.ota, Past(OtaCall, 3)'
          PROVE  HasWhole(CellOf("cache")', "recovery/command")
      <3>1. CASE Past(OtaCall, 3)
        <4>1. HasWhole(CellOf("cache"), "recovery/command") /\ call >= OtaCall
          BY <1>0, <2>1, <2>6, <3>1 DEF FilesOK, Past
        <4>2. ~(Now.do \in {"file", "rmtree", "ldlinux"} /\ "recovery/command" \in NamesIn(Now))
          <5>1. ~AtOta \/ pc > 3
            BY <1>0, <2>1, <3>1 DEF Past, AtOta
          <5>2. ~(Now.do = "file" /\ Now.file = "recovery/command")
            BY <5>1, Places DEF AtOta, AtGummiboot, AtSyslinux, AtFinalizer, Op, Write, WriteFor
          <5> QED BY <5>2 DEF NamesIn
        <4> QED BY <1>0, <1>2, <2>6, <4>1, <4>2, WholeStays
      <3>2. CASE ~Past(OtaCall, 3)
        <4>1. AtOta /\ pc = 3 /\ pc' # pc
          BY <1>2, <2>6, <3>2, NewlyPast
        <4>2. Now.do = "file" /\ Now.part = "cache" /\ Now.file = "recovery/command"
          BY <4>1 DEF AtOta, Write
        <4> QED BY <1>0, <1>2, <2>6, <4>1, <4>2, FileClosed
      <3> QED BY <3>1, <3>2
    <2>7. ASSUME kernel = table, conf.loader = "syslinux", Past(LoaderCall, 2)'
          PROVE  HasWhole(CellOf("bootloader")', "ldlinux.sys")
      <3>1. CASE Past(LoaderCall, 2)
        <4>1. HasWhole(CellOf("bootloader"), "ldlinux.sys") /\ call >= OtaCall
          BY <1>0, <2>1, <2>7, <3>1 DEF FilesOK, Past
        <4>2. ~(Now.do \in {"file", "rmtree", "ldlinux"} /\ "ldlinux.sys" \in NamesIn(Now))
          <5>1. Now.do # "ldlinux"
            BY <1>0, <2>1, <3>1, WrittenParts DEF Past, AtSyslinux
          <5>2. Now.do = "file" => Now.file # "ldlinux.sys"
            BY Places, PluginParts
          <5> QED BY <5>1, <5>2 DEF NamesIn
        <4> QED BY <1>0, <1>2, <2>7, <4>1, <4>2, WholeStays
      <3>2. CASE ~Past(LoaderCall, 2)
        <4>1. AtSyslinux /\ pc = 2 /\ pc' # pc
          BY <1>2, <2>7, <3>2, NewlyPast
        <4>2. Now.do = "ldlinux" /\ Now.part = "bootloader"
          BY <4>1 DEF AtSyslinux, Op
        <4>3. FinishWrite
          BY <1>2, <4>1, <4>2, Does DEF BeginWrite, BlockWrites
        <4> DEFINE c == CellAt("bootloader")
        <4>4. /\ CellOf("bootloader") = cells[c] /\ c \in 1 .. NumCells /\ cells[c] \in Cells
              /\ CellOf("bootloader")' = cells'[c]
          <5>1. CellOf("bootloader")' = cells'[c]
            BY <2>1, <2>7 DEF CellOf, CellAt
          <5> QED BY <1>0, <2>1, <2>7, <5>1, CellsOf
        <4> DEFINE f == File("ldlinux.sys", "none", run, TRUE)
        <4>5. cells'[c] = WithFile(cells[c], f)
          BY <4>2, <4>3, <4>4 DEF FinishWrite, Written, Target, CellAt, TypeOK
        <4>6. f.name = "ldlinux.sys" /\ f.whole /\ f \in cells'[c].files
          BY <4>5 DEF WithFile, File
        <4> QED BY <4>4, <4>6 DEF HasWhole
      <3> QED BY <3>1, <3>2
    <2>8. ASSUME kernel = table, conf.loader = "syslinux", Past(LoaderCall, 6)'
          PROVE  HasWhole(CellOf("bootloader")', "syslinux.cfg")
      <3>1. CASE Past(LoaderCall, 6)
        <4>1. HasWhole(CellOf("bootloader"), "syslinux.cfg") /\ call >= OtaCall
          BY <1>0, <2>1, <2>8, <3>1 DEF FilesOK, Past
        <4>2. ~(Now.do \in {"file", "rmtree", "ldlinux"} /\ "syslinux.cfg" \in NamesIn(Now))
          <5>1. ~AtSyslinux \/ pc > 6
            BY <1>0, <2>1, <3>1 DEF Past, AtSyslinux
          <5>2. ~(Now.do = "file" /\ Now.file = "syslinux.cfg")
            BY <5>1, Places DEF AtOta, AtGummiboot, AtSyslinux, AtFinalizer, Op, Write, WriteFor
          <5> QED BY <5>2 DEF NamesIn
        <4> QED BY <1>0, <1>2, <2>8, <4>1, <4>2, WholeStays
      <3>2. CASE ~Past(LoaderCall, 6)
        <4>1. AtSyslinux /\ pc = 6 /\ pc' # pc
          BY <1>2, <2>8, <3>2, NewlyPast
        <4>2. Now.do = "file" /\ Now.part = "bootloader" /\ Now.file = "syslinux.cfg"
          BY <4>1 DEF AtSyslinux, Write
        <4> QED BY <1>0, <1>2, <2>8, <4>1, <4>2, FileClosed
      <3> QED BY <3>1, <3>2
    <2>9. ASSUME kernel = table, Past(FinalCall, 2)'
          PROVE  HasWhole(CellOf("factory")', "install.prop")
      <3>1. CASE Past(FinalCall, 2)
        <4>1. HasWhole(CellOf("factory"), "install.prop") /\ call >= OtaCall
          BY <1>0, <2>1, <2>9, <3>1 DEF FilesOK, Past
        <4>2. ~(Now.do \in {"file", "rmtree", "ldlinux"} /\ "install.prop" \in NamesIn(Now))
          <5>1. ~AtFinalizer \/ pc > 2
            BY <1>0, <2>1, <3>1 DEF Past, AtFinalizer
          <5>2. ~(Now.do = "file" /\ Now.file = "install.prop")
            BY <5>1, Places DEF AtOta, AtGummiboot, AtSyslinux, AtFinalizer, Op, Write, WriteFor
          <5> QED BY <5>2 DEF NamesIn
        <4> QED BY <1>0, <1>2, <2>9, <4>1, <4>2, WholeStays
      <3>2. CASE ~Past(FinalCall, 2)
        <4>1. AtFinalizer /\ pc = 2 /\ pc' # pc
          BY <1>2, <2>9, <3>2, NewlyPast
        <4>2. Now.do = "file" /\ Now.part = "factory" /\ Now.file = "install.prop"
          BY <4>1 DEF AtFinalizer, Write
        <4> QED BY <1>0, <1>2, <2>9, <4>1, <4>2, FileClosed
      <3> QED BY <3>1, <3>2
    <2> QED BY <2>1, <2>4, <2>5, <2>6, <2>7, <2>8, <2>9 DEF FilesOK
  <1>3. CASE Partition
    <2>1. call' = 1
      BY <1>3, Places DEF Partition, Doing, NextOp, AtPartitioner
    <2> QED BY <1>0, <2>1 DEF FilesOK, Past
  <1>4. CASE PartitionFails
    <2>1. ~Partitioned'
      BY <1>4, AfterPartitioner DEF PartitionFails, Doing, process, Partitioned, Past
    <2> QED BY <2>1 DEF FilesOK
  <1>5. CASE LosePower \/ Restart
    BY <1>5 DEF LosePower, Restart, FilesOK, Partitioned, Past
  <1> QED BY <1>1, <1>2, <1>3, <1>4, <1>5, StepKinds

-----------------------------------------------------------------------------
(* The boot menu *)

\* The files of a partition after a step of the plugins: those of before, but
\* for the one that is written or removed.
LEMMA OtherFiles ==
    ASSUME TypeOK, WiringOK, Ahead, kernel = table, call >= OtaCall, NEW p \in Names
    PROVE  /\ \A g \in CellOf(p).files :
                /\ ~(Now.do = "file" /\ g.name = Now.file /\ g.part = Now.of)
                /\ Now.do = "rmtree" => g.name \notin {"loader.conf", "entry"}
                /\ Now.do = "ldlinux" => g.name # "ldlinux.sys"
                => g \in CellOf(p)'.files
           /\ \A g \in CellOf(p)'.files :
                \/ g \in CellOf(p).files
                \/ Now.do = "file" /\ Now.part = p /\ \E whole \in BOOLEAN : g = FileOf(whole)
                \/ Now.do = "ldlinux" /\ g.name = "ldlinux.sys"
  <1> DEFINE c == CellAt(p)
  <1>1. Partitioned /\ dev' = dev /\ kernel' = kernel /\ table' = table
    BY DEF Ahead, setup
  <1>2. CellOf(p) = cells[c] /\ c \in 1 .. NumCells /\ cells[c] \in Cells
    BY <1>1, CellsOf
  <1>3. CellOf(p)' = cells'[c]
    BY <1>1 DEF CellOf, CellAt
  <1>4. Now.do \notin {"mkfs", "dd", "fsck", "zero"}
    <2> SUFFICES ASSUME Now.do \in {"mkfs", "dd", "fsck", "zero"}
                 PROVE  FALSE
      OBVIOUS
    <2>1. PICK k \in DOMAIN PartList : call = k + 1
      BY WrittenParts DEF AtImage
    <2>2. k \in Nat /\ k + 1 < OtaCall /\ OtaCall \in Nat
      BY CallPlaces
    <2> QED BY <2>1, <2>2
  <1>5. CASE Now.do \notin {"file", "rmtree", "ldlinux"} \/ c # CellAt(Now.part)
    <2>1. cells'[c] = cells[c]
      BY <1>2, <1>4, <1>5, CellSteps DEF BlockWrites
    <2> QED BY <1>2, <1>3, <2>1
  <1>6. CASE Now.do \in {"rmtree", "ldlinux"}
    <2>1. \A f : f.name \notin NamesIn(Now) => (f \in cells'[c].files <=> f \in cells[c].files)
      BY <1>2, <1>6, FileSteps
    <2>2. CASE Now.do = "ldlinux"
      BY <1>2, <1>3, <2>1, <2>2 DEF NamesIn
    <2>3. CASE Now.do = "rmtree"
      <3>1. RemoveTree
        BY <2>3, Does DEF BlockWrites
      <3>2. cells'[c].files \subseteq cells[c].files
        <4>1. CASE cells' = cells
          BY <4>1
        <4>2. CASE cells' # cells
          <5>1. PICK f : cells' = [cells EXCEPT ![Target(Now)].files = @ \ {f}]
            BY <3>1, <4>2 DEF RemoveTree
          <5> QED BY <1>2, <5>1 DEF TypeOK, Cells
        <4> QED BY <4>1, <4>2
      <3> QED BY <1>2, <1>3, <2>1, <2>3, <3>2 DEF NamesIn
    <2> QED BY <1>6, <2>2, <2>3
  <1>7. CASE Now.do = "file" /\ c = CellAt(Now.part)
    <2>1. Now.part = p
      BY <1>1, <1>2, <1>7, WrittenParts, Targets
    <2>2. PICK whole \in BOOLEAN : OnMounted(WithFile(cells[Target(Now)], FileOf(whole)))
      BY <1>7, Does DEF OpenFile, CloseFile, BlockWrites
    <2>3. cells'[c] = cells[c] \/ cells'[c] = WithFile(cells[c], FileOf(whole))
      BY <1>2, <1>7, <2>2 DEF OnMounted, Target, CellAt, TypeOK
    <2>4. /\ FileOf(whole) \in Files /\ FileOf(whole).name = Now.file
          /\ FileOf(whole).part = Now.of
      BY <1>7, WrittenTypes DEF FileOf, File
    <2> QED BY <1>2, <1>3, <1>7, <2>1, <2>3, <2>4, FileTypes
  <1> QED BY <1>5, <1>6, <1>7

\* The operations of gummiboot_execute.
LEMMA GummibootPlaces ==
    ASSUME TypeOK, Ahead, conf.loader = "gummiboot"
    PROVE  LET m == Len(conf.boots)
           IN  /\ m \in Nat /\ DOMAIN conf.boots = 1 .. m
               /\ \A i \in 1 .. m : conf.boots[i] \in Names
               /\ \A n \in Nat \ {0} :
                    n <= m + 8 /\ Past(LoaderCall, n)' /\ ~Past(LoaderCall, n)
                    => AtGummiboot /\ pc = n /\ pc' # pc
               /\ AtGummiboot /\ pc \in 7 .. m + 6 =>
                    Now = WriteFor("bootloader", "entry", conf.boots[pc - 6])
               /\ Now.do = "file" /\ Now.file = "entry" => AtGummiboot /\ pc \in 7 .. m + 6
               /\ Now.do = "file" /\ Now.file = "gummiboot.efi" => AtGummiboot /\ pc = 2
               /\ Now.do = "file" /\ Now.file = "shim.efi" => AtGummiboot /\ pc = 3
               /\ Now.do = "rmtree" => AtGummiboot /\ pc = 5
               /\ Now.do = "file" /\ Now.file = "loader.conf" => AtGummiboot /\ pc = 6
               /\ Now.do = "efibootmgr" => AtGummiboot /\ pc = m + 7
  <1> DEFINE m == Len(conf.boots)
  <1>1. m \in Nat /\ DOMAIN conf.boots = 1 .. m /\ \A i \in 1 .. m : conf.boots[i] \in Names
    <2>1. conf.boots \in Seq(Names)
      BY BootListsAssumption DEF TypeOK, Confs
    <2> QED BY <2>1, LenProperties, ElementOfSeq
  <1>2. ASSUME NEW n \in Nat \ {0}, n <= m + 8, Past(LoaderCall, n)', ~Past(LoaderCall, n)
        PROVE  AtGummiboot /\ pc = n /\ pc' # pc
    <2>1. /\ call = LoaderCall /\ pc <= n
          /\ AtReturn \/ (pc = n /\ pc' = pc + 1 /\ Now.do # "return")
      BY <1>2, CallPlaces, PastStays
    <2>2. pc \in Nat
      BY Counting
    <2>3. ~AtReturn
      BY <1>1, <1>2, <2>1, <2>2 DEF AtReturn
    <2> QED BY <2>1, <2>2, <2>3, CallPlaces DEF AtSyslinux
  <1>3. AtGummiboot /\ pc \in 7 .. m + 6 =>
          Now = WriteFor("bootloader", "entry", conf.boots[pc - 6])
    BY <1>1 DEF AtGummiboot
  <1>4. /\ Now.do = "file" /\ Now.file \in {"entry", "gummiboot.efi", "shim.efi", "loader.conf"}
           => AtGummiboot
        /\ Now.do \in {"rmtree", "efibootmgr"} => AtGummiboot
    BY Places DEF AtOta, AtSyslinux, AtFinalizer, Op, Write
  <1>5. AtGummiboot =>
          /\ Now.do = "file" /\ Now.file = "entry" => pc \in 7 .. m + 6
          /\ Now.do = "file" /\ Now.file = "gummiboot.efi" => pc = 2
          /\ Now.do = "file" /\ Now.file = "shim.efi" => pc = 3
          /\ Now.do = "rmtree" => pc = 5
          /\ Now.do = "file" /\ Now.file = "loader.conf" => pc = 6
          /\ Now.do = "efibootmgr" => pc = m + 7
    BY DEF AtGummiboot, Op, Write, WriteFor
  <1> QED BY <1>1, <1>2, <1>3, <1>4, <1>5

\* A file of gummiboot is on the ESP from the operation on that makes it; loader.conf
\* is if it was not written over an old one.
LEMMA GummibootFile ==
    ASSUME TypeOK, WiringOK, MountsOK, Ahead, kernel = table, conf.loader = "gummiboot",
           NEW n \in {2, 3, 6}, NEW name, Past(LoaderCall, n)',
           name = CASE n = 2 -> "gummiboot.efi" [] n = 3 -> "shim.efi" [] n = 6 -> "loader.conf",
           Past(LoaderCall, n) => HasWhole(CellOf("bootloader"), name) \/ (n = 6 /\ ConfLeft)
    PROVE  HasWhole(CellOf("bootloader")', name) \/ (n = 6 /\ ConfLeft')
  <1>1. /\ "bootloader" \in Names /\ n \in Nat \ {0} /\ OtaCall \in Nat
        /\ LoaderCall = OtaCall + 1 /\ call \in Nat /\ pc \in Nat
    BY PartListAssumption, CallPlaces, Counting
  <1>2. CASE Past(LoaderCall, n)
    <2>1. call >= OtaCall
      BY <1>1, <1>2 DEF Past
    <2>2. ~(AtGummiboot /\ pc <= n)
      BY <1>1, <1>2 DEF Past, AtGummiboot
    <2>3. ~(Now.do \in {"file", "rmtree", "ldlinux"} /\ name \in NamesIn(Now))
      <3>1. ~(Now.do = "file" /\ Now.file = name)
        BY <1>1, <2>2, GummibootPlaces
      <3>2. n = 6 => Now.do # "rmtree"
        BY <1>1, <2>2, GummibootPlaces
      <3> QED BY <3>1, <3>2 DEF NamesIn
    <2>4. n = 6 /\ ConfLeft => ConfLeft'
      <3>1. n = 6 => Now.do # "rmtree"
        BY <1>1, <2>2, GummibootPlaces
      <3> QED BY <3>1 DEF Ahead, ConfLeft
    <2> QED BY <1>1, <1>2, <2>1, <2>3, <2>4, WholeStays
  <1>3. CASE ~Past(LoaderCall, n)
    <2>1. n <= Len(conf.boots) + 8
      BY GummibootPlaces
    <2>2. AtGummiboot /\ pc = n /\ pc' # pc
      BY <1>1, <1>3, <2>1, GummibootPlaces
    <2>3. Now.do = "file" /\ Now.part = "bootloader" /\ Now.file = name
      <3>1. Len(conf.boots) \in Nat
        BY GummibootPlaces
      <3> QED BY <2>2, <3>1 DEF AtGummiboot, Write, WriteFor
    <2>4. CASE n = 6 /\ ConfLeft
      BY <2>3, <2>4 DEF Ahead, ConfLeft
    <2>5. CASE ~(n = 6 /\ ConfLeft)
      <3>1. Now.file # "loader.conf" \/ ~ConfLeft
        BY <2>3, <2>5
      <3> QED BY <1>1, <2>2, <2>3, <3>1, FileClosed
    <2> QED BY <2>4, <2>5
  <1> QED BY <1>2, <1>3

\* The files and entries of gummiboot stay once they are closed, and of an earlier
\* installation only those that remove() failed on.
LEMMA GummibootStep ==
    ASSUME TypeOK, BeforeOK, WiringOK, MountsOK, GummibootOK, [Next]_vars
    PROVE  GummibootOK'
  <1>0. /\ "bootloader" \in Names /\ OtaCall \in Nat /\ LoaderCall = OtaCall + 1 /\ OtaCall > 1
    BY PartListAssumption, CallPlaces
  <1>1. CASE Quiet
    <2>1. /\ \A k, op : Past(k, op)' = Past(k, op) /\ Partitioned' = Partitioned
          /\ cells' = cells /\ conf' = conf /\ table' = table /\ dev' = dev /\ kernel' = kernel
          /\ boot' = boot /\ run' = run /\ call' = call /\ busy' = busy /\ Now' = Now
          /\ left' = left
      BY <1>1, CodeStays DEF Quiet, setup, disk, booting, Past, Partitioned
    <2> QED BY <2>1 DEF GummibootOK, CellOf, Entry, ConfLeft, StaysBehind
  <1>2. CASE Ahead
    <2> DEFINE m == Len(conf.boots)
               esp == CellOf("bootloader")
    <2>1. /\ Partitioned /\ conf' = conf /\ table' = table /\ dev' = dev /\ kernel' = kernel
          /\ run' = run /\ state = "executing"
          /\ call \in Nat /\ pc \in Nat /\ m \in Nat
      <3>1. m \in Nat
        BY MountedAt
      <3> QED BY <1>2, <3>1, Counting DEF Ahead
    <2>2. boot'.efi = run <=> conf.loader = "gummiboot" /\ Past(LoaderCall, m + 7)'
      <3>1. PICK n \in Nat \ {0} : n = m + 7
        BY <2>1
      <3>2. boot.efi = run <=> conf.loader = "gummiboot" /\ Past(LoaderCall, n)
        BY <2>1, <3>1 DEF GummibootOK
      <3>3. Past(LoaderCall, m + 7)' <=> Past(LoaderCall, n)'
        BY <2>1, <3>1
      <3>4. CASE Now.do = "efibootmgr"
        <4>1. AtGummiboot
          BY <3>4, Places DEF AtOta, AtSyslinux, AtFinalizer, Op, Write
        <4>2. pc = n /\ conf.loader = "gummiboot" /\ call = LoaderCall
          BY <1>2, <3>1, <3>4, <4>1, GummibootPlaces DEF AtGummiboot
        <4>3. InstallBootCode
          BY <1>2, <3>4, Does DEF BlockWrites
        <4>4. boot'.efi = run
          BY <3>4, <4>3 DEF InstallBootCode, TypeOK
        <4>5. Past(LoaderCall, n)'
          BY <3>1, <4>2, <4>3, <2>1 DEF InstallBootCode, NextOp, Past
        <4> QED BY <3>3, <4>2, <4>4, <4>5
      <3>5. CASE Now.do # "efibootmgr"
        <4>1. boot'.efi = boot.efi
          <5>1. CASE InstallBootCode
            <6>1. boot' = [boot EXCEPT !.mbr = TRUE]
              BY <3>5, <5>1 DEF InstallBootCode, Doing
            <6> QED BY <6>1 DEF TypeOK
          <5>2. CASE ~InstallBootCode
            <6>1. boot' = boot
              BY <1>2, <5>2 DEF Ahead, Return, WaitForDevice, BeginWrite, FinishWrite, Mount,
                    OpenFile, CloseFile, RemoveTree, Umount, SetReboot, Sync, booting
            <6> QED BY <6>1
          <5> QED BY <5>1, <5>2
        <4>2. conf.loader = "gummiboot" /\ Past(LoaderCall, n)' => Past(LoaderCall, n)
          <5> SUFFICES ASSUME conf.loader = "gummiboot", Past(LoaderCall, n)',
                              ~Past(LoaderCall, n)
                       PROVE  FALSE
            OBVIOUS
          <5>1. AtGummiboot /\ pc = m + 7
            BY <1>2, <2>1, <3>1, GummibootPlaces
          <5>2. Now = Op("efibootmgr", "bootloader")
            BY <2>1, <5>1 DEF AtGummiboot
          <5> QED BY <3>5, <5>2 DEF Op
        <4>3. Past(LoaderCall, n) => Past(LoaderCall, n)'
          BY <1>0, <1>2, PastStays
        <4> QED BY <3>2, <3>3, <4>1, <4>2, <4>3
      <3> QED BY <3>4, <3>5
    <2>3. ASSUME conf.loader = "gummiboot", kernel = table
          PROVE  /\ Past(LoaderCall, 2)' => HasWhole(esp', "gummiboot.efi")
                 /\ Past(LoaderCall, 3)' => HasWhole(esp', "shim.efi")
                 /\ Past(LoaderCall, 6)' => HasWhole(esp', "loader.conf") \/ ConfLeft'
      <3>1. /\ Past(LoaderCall, 2) => HasWhole(esp, "gummiboot.efi")
            /\ Past(LoaderCall, 3) => HasWhole(esp, "shim.efi")
            /\ Past(LoaderCall, 6) => HasWhole(esp, "loader.conf") \/ ConfLeft
        BY <2>1, <2>3 DEF GummibootOK
      <3>2. Past(LoaderCall, 2)' => HasWhole(esp', "gummiboot.efi")
        BY <1>2, <2>3, <3>1, GummibootFile
      <3>3. Past(LoaderCall, 3)' => HasWhole(esp', "shim.efi")
        BY <1>2, <2>3, <3>1, GummibootFile
      <3>4. Past(LoaderCall, 6)' => HasWhole(esp', "loader.conf") \/ ConfLeft'
        BY <1>2, <2>3, <3>1, GummibootFile
      <3> QED BY <3>2, <3>3, <3>4
    <2>4. ASSUME conf.loader = "gummiboot", kernel = table, NEW k \in DOMAIN conf.boots,
                 Past(LoaderCall, 6 + k)',
                 ~(call' = LoaderCall /\ busy' /\ Now'.do = "file" /\ Now'.of = conf.boots[k])
          PROVE  Entry(conf.boots[k], TRUE) \in esp'.files
      <3> DEFINE p == conf.boots[k]
                 e == Entry(p, TRUE)
      <3>1. /\ k \in 1 .. m /\ p \in Names /\ 6 + k \in Nat \ {0} /\ 6 + k <= m + 8
        BY <1>2, <2>1, <2>4, GummibootPlaces
      <3>2. e.name = "entry" /\ e.part = p
        BY DEF Entry, File
      <3>3. CASE Now.do = "file" /\ Now.file = "entry" /\ Now.of = p
        <4>1. AtGummiboot /\ pc \in 7 .. m + 6
          BY <1>2, <2>4, <3>3, GummibootPlaces
        <4>2. ~OpenFile
          <5> SUFFICES ASSUME OpenFile
                       PROVE  FALSE
            OBVIOUS
          <5>1. Now' = Now /\ call' = LoaderCall /\ busy'
            BY <2>1, <4>1, CodeStays DEF OpenFile, AtGummiboot
          <5> QED BY <2>4, <3>3, <5>1
        <4>3. CloseFile
          BY <1>2, <3>3, <4>2, Does DEF BlockWrites
        <4>4. pc' # pc /\ Now.part = "bootloader"
          BY <2>1, <4>1, <4>3 DEF CloseFile, NextOp, AtGummiboot, Op, Write, WriteFor
        <4>5. FileOf(TRUE) = e
          BY <3>1, <3>3 DEF FileOf, Entry
        <4>6. esp' = WithFile(esp, FileOf(TRUE))
          BY <1>0, <1>2, <2>4, <3>3, <4>4, FileClosed
        <4>7. FileOf(TRUE) \in WithFile(esp, FileOf(TRUE)).files
          <5>1. esp \in Cells /\ FileOf(TRUE) \in Files
            BY <1>0, <1>2, <2>4, <3>3, <4>4, FileClosed
          <5> QED BY <5>1, FileTypes
        <4> QED BY <4>5, <4>6, <4>7
      <3>4. CASE ~(Now.do = "file" /\ Now.file = "entry" /\ Now.of = p)
        <4>1. Past(LoaderCall, 6 + k)
          <5> SUFFICES ASSUME ~Past(LoaderCall, 6 + k)
                       PROVE  FALSE
            OBVIOUS
          <5>1. AtGummiboot /\ pc = 6 + k
            BY <1>2, <2>4, <3>1, GummibootPlaces
          <5>2. Now = WriteFor("bootloader", "entry", conf.boots[pc - 6])
            BY <1>2, <2>1, <2>4, <3>1, <5>1, GummibootPlaces
          <5>3. pc - 6 = k
            BY <3>1, <5>1
          <5> QED BY <3>4, <5>2, <5>3 DEF WriteFor
        <4>2. ~(call = LoaderCall /\ Now.do = "file" /\ Now.of = p)
          <5> SUFFICES ASSUME call = LoaderCall, Now.do = "file", Now.of = p
                       PROVE  FALSE
            OBVIOUS
          <5>1. AtGummiboot
            BY <2>4, CallPlaces DEF AtSyslinux, AtReturn, Returned, Op
          <5>2. pc > 6 + k
            BY <1>0, <2>1, <3>1, <4>1 DEF Past
          <5>3. Now.file = "entry"
            BY <2>1, <3>1, <5>1, <5>2 DEF AtGummiboot, Op, Write, WriteFor
          <5> QED BY <3>4, <5>3
        <4>3. e \in esp.files
          BY <2>1, <2>4, <4>1, <4>2 DEF GummibootOK
        <4>4. Now.do # "rmtree"
          <5> SUFFICES ASSUME Now.do = "rmtree"
                       PROVE  FALSE
            OBVIOUS
          <5>1. call = LoaderCall /\ pc = 5
            BY <1>2, <2>4, GummibootPlaces DEF AtGummiboot
          <5> QED BY <1>0, <3>1, <4>1, <5>1 DEF Past
        <4>5. call >= OtaCall
          BY <1>0, <2>1, <4>1 DEF Past
        <4> QED BY <1>0, <1>2, <2>4, <3>2, <3>4, <4>3, <4>4, <4>5, OtherFiles
      <3> QED BY <3>3, <3>4
    <2>5. ASSUME conf.loader = "gummiboot", kernel = table, Past(LoaderCall, 5)',
                 NEW f \in esp'.files, f.name = "entry"
          PROVE  (f.part \in Names /\ f.guid = table[dev[f.part]].guid) \/ StaysBehind(f)'
      <3>1. CASE Past(LoaderCall, 5)
        <4>1. call >= OtaCall
          BY <1>0, <2>1, <3>1 DEF Past
        <4>2. \/ f \in esp.files
              \/ Now.do = "file" /\ \E whole \in BOOLEAN : f = FileOf(whole)
          BY <1>0, <1>2, <2>5, <4>1, OtherFiles
        <4>3. CASE f \in esp.files
          <5>1. (f.part \in Names /\ f.guid = table[dev[f.part]].guid) \/ StaysBehind(f)
            BY <2>1, <2>5, <3>1, <4>3 DEF GummibootOK
          <5>2. ASSUME f.part \notin Names \/ f.guid # table[dev[f.part]].guid, StaysBehind(f)
                PROVE  StaysBehind(f)'
            <6>1. left' = left
              <7>1. Now.do # "rmtree"
                BY <1>0, <1>2, <2>1, <2>5, <3>1, GummibootPlaces DEF Past, AtGummiboot
              <7> QED BY <1>2, <7>1 DEF Ahead
            <6>2. ASSUME NEW k \in DOMAIN conf.boots, Past(LoaderCall, 6 + k)',
                         f.part = conf.boots[k]
                  PROVE  FALSE
              <7>1. /\ k \in 1 .. m /\ conf.boots[k] \in Names
                    /\ 6 + k \in Nat \ {0} /\ 6 + k <= m + 8
                BY <1>2, <2>1, <2>5, <6>2, GummibootPlaces
              <7>2. ~Past(LoaderCall, 6 + k)
                BY <5>2, <6>2 DEF StaysBehind
              <7>3. AtGummiboot /\ pc = 6 + k /\ pc' # pc
                BY <1>2, <2>5, <6>2, <7>1, <7>2, GummibootPlaces
              <7>4. Now = WriteFor("bootloader", "entry", conf.boots[k])
                <8>1. pc \in 7 .. m + 6 /\ pc - 6 = k
                  BY <2>1, <7>1, <7>3
                <8> QED BY <1>2, <2>5, <7>3, <8>1, GummibootPlaces
              <7>5. /\ Now.do = "file" /\ Now.part = "bootloader" /\ Now.file = "entry"
                    /\ Now.of = conf.boots[k]
                BY <7>4 DEF WriteFor
              <7>6. esp' = WithFile(esp, FileOf(TRUE)) /\ esp \in Cells /\ FileOf(TRUE) \in Files
                BY <1>0, <1>2, <2>5, <7>3, <7>5, FileClosed
              <7>7. /\ FileOf(TRUE).name = "entry" /\ FileOf(TRUE).part = conf.boots[k]
                    /\ FileOf(TRUE).guid = table[dev[conf.boots[k]]].guid
                BY <7>1, <7>5 DEF FileOf, File
              <7>8. f = FileOf(TRUE)
                BY <2>5, <6>2, <7>6, <7>7, FileTypes
              <7> QED BY <5>2, <6>2, <7>1, <7>7, <7>8
            <6> QED BY <2>1, <5>2, <6>1, <6>2 DEF StaysBehind
          <5> QED BY <5>1, <5>2
        <4>4. CASE f \notin esp.files
          <5>1. PICK whole \in BOOLEAN : f = FileOf(whole)
            BY <4>2, <4>4
          <5>2. Now.do = "file" /\ Now.file = "entry"
            BY <2>5, <4>2, <4>4, <5>1 DEF FileOf, File
          <5>3. AtGummiboot /\ pc \in 7 .. m + 6
            BY <1>2, <2>5, <5>2, GummibootPlaces
          <5>4. Now.of \in Names
            <6>1. pc - 6 \in 1 .. m
              BY <2>1, <5>3
            <6>2. conf.boots[pc - 6] \in Names
              BY <1>2, <2>5, <6>1, GummibootPlaces
            <6>3. Now = WriteFor("bootloader", "entry", conf.boots[pc - 6])
              BY <1>2, <2>5, <5>3, GummibootPlaces
            <6> QED BY <6>2, <6>3 DEF WriteFor
          <5> QED BY <5>1, <5>4 DEF FileOf, File
        <4> QED BY <4>3, <4>4
      <3>2. CASE ~Past(LoaderCall, 5)
        <4>1. AtGummiboot /\ pc = 5 /\ pc' # pc
          <5>1. 5 \in Nat \ {0} /\ 5 <= m + 8
            BY <2>1
          <5> QED BY <1>2, <2>5, <3>2, <5>1, GummibootPlaces
        <4>2. Now = Op("rmtree", "bootloader") /\ Now.do = "rmtree" /\ Now.part = "bootloader"
          BY <2>1, <4>1 DEF AtGummiboot, Op
        <4>3. RemoveTree
          BY <1>2, <4>2, Does DEF BlockWrites
        <4>4. cells' = cells /\ left' = Tree /\ NextOp
          BY <4>1, <4>3 DEF RemoveTree
        <4>5. dev[Now.part] \in mounted
          BY <1>2, <2>1, <2>5, <4>2, MountSteps DEF MountsOK
        <4>6. esp' = cells[Target(Now)]
          BY <2>1, <2>5, <4>2, <4>4 DEF CellOf, Target
        <4>7. f \in left'
          BY <2>5, <4>4, <4>5, <4>6 DEF Tree
        <4>8. ASSUME NEW k \in DOMAIN conf.boots
              PROVE  ~Past(LoaderCall, 6 + k)'
          <5>1. k \in Nat /\ 1 <= k
            BY <1>2, <2>5, GummibootPlaces
          <5>2. call' = LoaderCall /\ pc' = 6
            BY <4>1, <4>4 DEF NextOp, AtGummiboot
          <5> QED BY <1>0, <5>1, <5>2 DEF Past
        <4> QED BY <2>1, <4>7, <4>8 DEF StaysBehind
      <3> QED BY <3>1, <3>2
    <2>6. ASSUME conf.loader = "gummiboot", kernel = table
          PROVE  /\ \A k \in DOMAIN conf.boots :
                      /\ Past(LoaderCall, 6 + k)'
                      /\ ~(call' = LoaderCall /\ busy' /\ Now'.do = "file"
                                           /\ Now'.of = conf.boots[k])
                      => Entry(conf.boots[k], TRUE) \in esp'.files
                 /\ Past(LoaderCall, 5)' =>
                      \A f \in esp'.files : f.name = "entry" =>
                         (f.part \in Names /\ f.guid = table[dev[f.part]].guid)
                            \/ StaysBehind(f)'
      BY <2>4, <2>5, <2>6
    <2> QED BY <2>1, <2>2, <2>3, <2>6 DEF GummibootOK, Entry
  <1>3. CASE Partition
    <2>1. /\ call' = 1 /\ boot' = boot /\ run' = run /\ boot.efi < run
          /\ boot.efi \in Nat /\ run \in Nat
      BY <1>3, AfterPartitioner, Places
         DEF Partition, Doing, NextOp, AtPartitioner, BeforeOK, booting, TypeOK
    <2>2. ~(call' > LoaderCall) /\ call' # LoaderCall /\ boot'.efi # run'
      BY <1>0, <2>1
    <2>3. ~(boot.efi = run)'
      BY <2>2
    <2> QED BY <2>2, <2>3 DEF GummibootOK, Past
  <1>4. CASE PartitionFails
    <2>1. ~Partitioned'
      BY <1>4, AfterPartitioner DEF PartitionFails, Doing, process, Partitioned, Past
    <2> QED BY <2>1 DEF GummibootOK
  <1>5. CASE LosePower \/ Restart
    BY <1>5 DEF LosePower, Restart, GummibootOK, Partitioned, Past
  <1> QED BY <1>1, <1>2, <1>3, <1>4, <1>5, StepKinds

-----------------------------------------------------------------------------
(* The invariant *)

\* An installation starts in the invariant ...
LEMMA InvInit == Init => IInv
  <1> SUFFICES ASSUME Init
               PROVE  IInv
    OBVIOUS
  <1>1. TypeOK
    BY TypeInit
  <1>2. ~Partitioned /\ call = 1 /\ pc = 1
    BY DEF Init, Partitioned, Past
  <1>3. PICK l \in Layouts : table = l.table /\ cells = l.cells
    BY DEF Init
  <1>4. /\ NoneShared(table)
        /\ \A c \in 1 .. NumCells : HasCommand(cells[c]) => HasWhole(cells[c], "ota.zip")
    BY <1>3, LayoutsAssumption
  <1>5. /\ state = "preparing" /\ kernel = table /\ found = [table |-> table, cells |-> cells]
        /\ dirty = {} /\ mounted = {} /\ ~busy /\ boot.efi = 0 /\ run = 1
    BY DEF Init
  <1>6. BeforeOK
    BY <1>2, <1>5 DEF BeforeOK
  <1>7. WiringOK
    BY <1>2, <1>4, <1>5 DEF WiringOK
  <1>8. MountsOK
    BY <1>5 DEF MountsOK
  <1>9. ForeignOK
    BY <1>5 DEF ForeignOK, ForeignUntouched
  <1>10. PackageOK
    BY <1>4, <1>5 DEF PackageOK, CommandHasPackage
  <1>11. ImagesOK /\ FilesOK /\ GummibootOK
    BY <1>2 DEF ImagesOK, FilesOK, GummibootOK
  <1>12. EndOK
    <2>1. Calls \in Nat /\ Calls > 1
      BY ConstantTypes
    <2> QED BY <1>2, <1>5, <2>1 DEF EndOK, Past
  <1> QED BY <1>1, <1>6, <1>7, <1>8, <1>9, <1>10, <1>11, <1>12 DEF IInv

\* ... and no step of iagod, ueventd, the kernel or the power switch leaves it.
LEMMA InvStep == IInv /\ [Next]_vars => IInv'
  <1> SUFFICES ASSUME IInv, [Next]_vars
               PROVE  IInv'
    OBVIOUS
  <1> USE DEF IInv
  <1>1. TypeOK'
    BY TypeStep
  <1>2. BeforeOK' /\ WiringOK' /\ EndOK'
    BY BeforeStep, WiringStep, EndStep
  <1>3. MountsOK'
    BY MountsStep
  <1>4. ForeignOK'
    BY <1>2, ForeignStep
  <1>5. PackageOK'
    BY <1>1, PackageStep
  <1>6. ImagesOK' /\ FilesOK' /\ GummibootOK'
    BY ImagesStep, FilesStep, GummibootStep
  <1> QED BY <1>1, <1>2, <1>3, <1>4, <1>5, <1>6

\* The inductive invariant of execution_phase and of what runs beside it.
THEOREM Invariant == Spec => []IInv
  BY InvInit, InvStep, PTL DEF Spec

-----------------------------------------------------------------------------
(* What follows from it *)

\* The indices, nodes and cells that the plugins, the kernel and ueventd pass
\* to each other are of the disk, and iagod is at an operation of its plugins.
THEOREM TypeCorrect == Spec => []TypeOK
  <1>1. IInv => TypeOK
    BY DEF IInv
  <1> QED BY <1>1, Invariant, PTL

\* A dual boot installation changes no partition of others, whichever table the
\* kernel works with, and keeps their files on the shared ESP.
THEOREM ForeignSafe == Spec => []ForeignUntouched
  <1>1. IInv => ForeignUntouched
    BY DEF IInv, ForeignOK
  <1> QED BY <1>1, Invariant, PTL

\* A command for the recovery console is never without its package.
THEOREM CommandSafe == Spec => []CommandHasPackage
  <1>1. IInv => CommandHasPackage
    BY DEF IInv, PackageOK
  <1> QED BY <1>1, Invariant, PTL

\* mkfs, dd, the checks and SYSLINUX never write to a mounted device.
THEOREM MountsExclude == Spec => []NoWriteUnderMount
  <1>1. IInv => NoWriteUnderMount
    <2> SUFFICES ASSUME IInv, Doing(BlockWrites)
                 PROVE  Target(Now) \notin {kernel[i].cell : i \in mounted}
      BY DEF NoWriteUnderMount
    <2>1. TypeOK /\ MountsOK /\ state = "executing" /\ Now.do \in BlockWrites
      BY DEF IInv, Doing
    <2>2. MountedParts = {}
      <3>1. CASE Now.do = "ldlinux"
        <4>1. call = LoaderCall /\ conf.loader = "syslinux" /\ pc = 2
          BY <2>1, <3>1, WrittenParts DEF AtSyslinux
        <4> QED BY <2>1, <4>1, MountedAt
      <3>2. CASE Now.do \in {"mkfs", "dd", "fsck", "zero"}
        <4>1. PICK k \in DOMAIN PartList : call = k + 1
          BY <2>1, <3>2, WrittenParts DEF AtImage
        <4>2. call \notin {OtaCall, LoaderCall, FinalCall}
          BY <2>1, <4>1, CallPlaces
        <4> QED BY <2>1, <4>2, MountedAt
      <3> QED BY <2>1, <3>1, <3>2 DEF BlockWrites
    <2>3. mounted = {}
      BY <2>1, <2>2 DEF MountsOK
    <2> QED BY <2>3
  <1> QED BY <1>1, Invariant, PTL

\* When iagod says "Installation complete!" and the kernel has taken over the
\* table, all plugins have done what the configuration asks for, and it is on the platter.
THEOREM CompleteMeansInstalled == Spec => []CompleteIsInstalled
  <1>1. IInv => CompleteIsInstalled
    <2> SUFFICES ASSUME IInv, state = "complete", kernel = table
                 PROVE  Installed /\ dirty = {}
      BY DEF CompleteIsInstalled
    <2>1. /\ TypeOK /\ call = Calls /\ pc = 2
      BY DEF IInv, EndOK
    <2>2. /\ \A k \in DOMAIN PartList : k + 1 \in Nat /\ call > k + 1
          /\ call > OtaCall /\ call > LoaderCall /\ call > FinalCall /\ call > 1
      BY <2>1, CallPlaces
    <2>3. Partitioned
      BY <2>2 DEF Partitioned, Past
    <2>4. \A k \in DOMAIN PartList : Holds(PartList[k])
      BY <2>2, <2>3 DEF IInv, ImagesOK, Past
    <2>5. /\ HasWhole(CellOf("factory"), "install.prop")
          /\ conf.ota => target = "recovery" /\ HasWhole(CellOf("cache"), "recovery/command")
          /\ conf.loader = "syslinux" => /\ boot.mbr
                                         /\ HasWhole(CellOf("bootloader"), "syslinux.cfg")
                                         /\ HasWhole(CellOf("bootloader"), "ldlinux.sys")
      BY <2>2, <2>3 DEF IInv, FilesOK, Past
    <2>6. conf.loader = "gummiboot" => boot.efi = run
      BY <2>2, <2>3 DEF IInv, GummibootOK, Past
    <2>7. dirty = {}
      BY <2>1 DEF IInv, EndOK, Past
    <2> QED BY <2>4, <2>5, <2>6, <2>7 DEF Installed
  <1> QED BY <1>1, Invariant, PTL

\* When the boot entry of this installation is made, the loader, its entries and
\* the images they lead to are there.
THEOREM EntryComesLast == Spec => []EntryLeadsToAndroid
  <1>1. IInv => EntryLeadsToAndroid
    <2> SUFFICES ASSUME IInv, boot.efi = run, kernel = table, state # "off"
                 PROVE  LET esp == CellOf("bootloader")
                        IN  /\ \A f \in {"shim.efi", "gummiboot.efi"} : HasWhole(esp, f)
                            /\ HasWhole(esp, "loader.conf") \/ ConfLeft
                            /\ \A k \in DOMAIN conf.boots :
                                 File("entry", conf.boots[k], table[dev[conf.boots[k]]].guid, TRUE)
                                   \in esp.files
                            /\ \A k \in DOMAIN PartList : Holds(PartList[k])
      BY DEF EntryLeadsToAndroid, ConfLeft
    <2> DEFINE m == Len(conf.boots)
    <2>1. /\ TypeOK /\ call \in Nat /\ pc \in Nat /\ run \in Nat
          /\ m \in Nat /\ DOMAIN conf.boots = 1 .. m
      <3>1. TypeOK
        BY DEF IInv
      <3>2. conf.boots \in Seq(Names)
        BY <3>1, BootListsAssumption DEF TypeOK, Confs
      <3>3. call \in Nat /\ pc \in Nat /\ run \in Nat
        BY <3>1, CodeType, ConstantTypes DEF TypeOK
      <3> QED BY <3>1, <3>2, <3>3, LenProperties
    <2>2. Partitioned
      BY <2>1 DEF IInv, BeforeOK
    <2>3. conf.loader = "gummiboot" /\ Past(LoaderCall, m + 7)
      BY <2>2 DEF IInv, GummibootOK
    <2>4. \A n \in Nat : n <= m + 7 => Past(LoaderCall, n)
      BY <2>1, <2>3 DEF Past
    <2>5. /\ HasWhole(CellOf("bootloader"), "gummiboot.efi")
          /\ HasWhole(CellOf("bootloader"), "shim.efi")
          /\ HasWhole(CellOf("bootloader"), "loader.conf") \/ ConfLeft
      <3>1. Past(LoaderCall, 2) /\ Past(LoaderCall, 3) /\ Past(LoaderCall, 6)
        BY <2>1, <2>4
      <3> QED BY <2>2, <2>3, <3>1 DEF IInv, GummibootOK
    <2>6. ~(call = LoaderCall /\ Now.do = "file")
      <3>1. call = LoaderCall => pc > m + 7
        BY <2>1, <2>3, CallPlaces DEF Past
      <3>2. call = LoaderCall => AtGummiboot \/ AtReturn
        BY <2>1, <2>3, CallPlaces DEF AtSyslinux
      <3>3. AtReturn => Now.do # "file"
        BY DEF AtReturn, Returned, Op
      <3>4. AtGummiboot /\ pc > m + 7 => Now.do # "file"
        BY <2>1 DEF AtGummiboot, Op
      <3> QED BY <3>1, <3>2, <3>3, <3>4
    <2>7. ASSUME NEW k \in DOMAIN conf.boots
          PROVE  Entry(conf.boots[k], TRUE) \in CellOf("bootloader").files
      <3>1. Past(LoaderCall, 6 + k)
        BY <2>1, <2>4
      <3> QED BY <2>2, <2>3, <2>6, <3>1 DEF IInv, GummibootOK
    <2>8. \A k \in DOMAIN PartList : Holds(PartList[k])
      <3>1. \A k \in DOMAIN PartList : call > k + 1
        BY <2>1, <2>3, CallPlaces DEF Past
      <3> QED BY <2>2, <3>1 DEF IInv, ImagesOK, Past
    <2> QED BY <2>5, <2>7, <2>8 DEF Entry
  <1> QED BY <1>1, Invariant, PTL

\* After an installation with gummiboot no entry of the boot menu is one of an
\* earlier installation, but those that remove() failed on; and none of those is
\* for a boot image of this installation.
THEOREM MenuIsFresh == Spec => []NoStaleEntries
  <1>1. IInv => NoStaleEntries
    <2> SUFFICES ASSUME IInv, state = "complete", conf.loader = "gummiboot", kernel = table,
                        NEW f \in CellOf("bootloader").files, f.name = "entry"
                 PROVE  \/ \E i \in Used(table) : table[i].name = f.part /\ table[i].guid = f.guid
                        \/ f \in left /\ f.part \notin ToSet(conf.boots)
      BY DEF NoStaleEntries
    <2>1. TypeOK /\ call = Calls
      BY DEF IInv, EndOK
    <2>2. call > LoaderCall /\ call > 1
      BY <2>1, CallPlaces
    <2>3. Partitioned /\ \A n : Past(LoaderCall, n)
      BY <2>2 DEF Partitioned, Past
    <2>4. (f.part \in Names /\ f.guid = table[dev[f.part]].guid) \/ StaysBehind(f)
      BY <2>3 DEF IInv, GummibootOK
    <2>5. CASE f.part \in Names /\ f.guid = table[dev[f.part]].guid
      <3>1. dev[f.part] \in Used(table) /\ table[dev[f.part]].name = f.part
        BY <2>3, <2>5 DEF IInv, WiringOK
      <3> QED BY <2>5, <3>1
    <2>6. CASE StaysBehind(f)
      BY <2>3, <2>6 DEF StaysBehind, ToSet
    <2> QED BY <2>4, <2>5, <2>6
  <1> QED BY <1>1, Invariant, PTL
=============================================================================
