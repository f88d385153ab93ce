-------------------------- MODULE PartitionerProofs -------------------------
(***************************************************************************)
(* Proofs about Partitioner, for every disk, table, partition list and     *)
(* size.  Three invariants, each of which uses those before it:            *)
(*   IInv     everybody else's partitions, and Windows' volume within its  *)
(*            partition, at every moment;                                  *)
(*   LInv     the table in memory and the partitions laid out in it;       *)
(*   Promise  the sums of the questions and those of the execution.        *)
(***************************************************************************)
EXTENDS Partitioner, GptTableProofs

-----------------------------------------------------------------------------
(* Entries of a table *)

\* check_for_ptn finds a partition of the type, or none.
LEMMA CheckForPtn ==
    ASSUME NEW t, IsTable(t), NEW type, check_for_ptn(t, type) # 0
    PROVE  /\ check_for_ptn(t, type) \in InUse(t)
           /\ t.entries[check_for_ptn(t, type)].type = type
  <1> DEFINE found == {i \in InUse(t) : t.entries[i].type = type}
  <1>1. found \subseteq Nat /\ found # {}
    BY DEF IsTable, IsShape, InUse, check_for_ptn
  <1>2. Min(found) \in found
    BY <1>1, MinIsElement
  <1> QED BY <1>1, <1>2 DEF check_for_ptn

-----------------------------------------------------------------------------
(* MiB and sectors *)

\* to_mib rounds up, ...
LEMMA ToMib ==
    ASSUME NEW n \in Nat
    PROVE  /\ to_mib(n) \in Nat
           /\ n <= to_mib(n) * SectorsPerMiB
           /\ to_mib(n) * SectorsPerMiB < n + SectorsPerMiB
           /\ n # 0 => to_mib(n) # 0
  <1>1. SectorsPerMiB \in Nat \ {0} /\ n + SectorsPerMiB - 1 \in Nat
    BY SizesAssumption
  <1>2. /\ to_mib(n) \in Nat
        /\ to_mib(n) * SectorsPerMiB <= n + SectorsPerMiB - 1
        /\ n + SectorsPerMiB - 1 < to_mib(n) * SectorsPerMiB + SectorsPerMiB
    BY <1>1 DEF to_mib
  <1>3. to_mib(n) * SectorsPerMiB \in Nat
    BY <1>1, <1>2
  <1>4. n # 0 => to_mib(n) # 0
    BY <1>1, <1>2, <1>3
  <1> QED BY <1>1, <1>2, <1>3, <1>4

\* ... is exact for a whole number of MiB, ...
LEMMA ToMibExact ==
    ASSUME NEW n \in Int
    PROVE  to_mib(n * SectorsPerMiB) = n
  BY SizesAssumption DEF to_mib

\* ... and to_mib_floor rounds down.
LEMMA ToMibFloor ==
    ASSUME NEW n \in Int
    PROVE  /\ to_mib_floor(n) \in Int
           /\ to_mib_floor(n) * SectorsPerMiB <= n
           /\ n < to_mib_floor(n) * SectorsPerMiB + SectorsPerMiB
           /\ n \in Nat => to_mib_floor(n) \in Nat /\ to_mib_floor(n) <= n
  <1>1. SectorsPerMiB \in Nat \ {0}
    BY SizesAssumption
  <1> QED BY <1>1 DEF to_mib_floor

\* The products that mib << 20 makes keep the order of the MiB.
LEMMA MibOrder ==
    ASSUME NEW a \in Int, NEW b \in Int
    PROVE  /\ a * SectorsPerMiB \in Int
           /\ a <= b => a * SectorsPerMiB <= b * SectorsPerMiB
           /\ a < b => a * SectorsPerMiB + SectorsPerMiB <= b * SectorsPerMiB
           /\ (a + b) * SectorsPerMiB = a * SectorsPerMiB + b * SectorsPerMiB
           /\ a \in Nat => a * SectorsPerMiB \in Nat /\ a <= a * SectorsPerMiB
  <1>1. SectorsPerMiB \in Nat \ {0}
    BY SizesAssumption
  <1> QED BY <1>1

\* mib_to_lba multiplies, up to the size of the shifted word, and never leaves that word.
LEMMA MibToLba ==
    ASSUME NEW n \in Int
    PROVE  /\ mib_to_lba(n) \in 0 .. Word
           /\ n \in Nat /\ n < MibWord => mib_to_lba(n) = n * SectorsPerMiB
           /\ n < MibWord => n * SectorsPerMiB <= Word
  <1>1. SectorsPerMiB \in Nat \ {0} /\ MibWord \in Nat \ {0} /\ Word \in Nat
        /\ MibWord * SectorsPerMiB <= Word
    BY SizesAssumption
  <1>2. n % MibWord \in 0 .. MibWord - 1 /\ (n \in Nat /\ n < MibWord => n % MibWord = n)
    BY <1>1
  <1>3. /\ (n % MibWord) * SectorsPerMiB <= MibWord * SectorsPerMiB
        /\ (n % MibWord) * SectorsPerMiB \in Nat
        /\ MibWord * SectorsPerMiB \in Nat
    BY <1>1, <1>2
  <1>4. n < MibWord => n * SectorsPerMiB <= MibWord * SectorsPerMiB /\ n * SectorsPerMiB \in Int
    BY <1>1
  <1> QED BY <1>1, <1>2, <1>3, <1>4 DEF mib_to_lba

-----------------------------------------------------------------------------
(* The inductive invariant *)

OptNames == {"dualboot", "esp_index", "esp_size", "msdata_index", "msdata_size", "msdata_minsize",
             "android_size", "free_size", "windows_resize", "bootloader_len"}

\* The disk and its NTFS volume as they were found: a volume may only have shrunk.
Found ==
    /\ orig # NoTable => IsTable(orig)
    /\ ntfs \in [index : Nat, size : Nat, min : Nat]
    /\ ntfs.index # 0 =>
          /\ orig # NoTable /\ ntfs.index \in InUse(orig)
          /\ ~OldAndroid(orig.entries[ntfs.index])
          /\ ntfs.size <= gpt_entry_get_size(orig.entries[ntfs.index])

\* What the scan and the questions put into ictx.opts: only the NTFS volume is
\* ever to be resized.
Options ==
    /\ opts = [x \in OptNames |-> opts[x]]
    /\ opts.esp_index # 0 => orig # NoTable
    /\ opts.msdata_minsize # 0 => ntfs.index # 0 /\ opts.msdata_index = ntfs.index
    /\ pc = "prepare" => opts.windows_resize = 0
    /\ opts.windows_resize # 0 =>
          ntfs.index # 0 /\ opts.msdata_index = ntfs.index /\ opts.windows_resize \in Nat

\* A partition in table t as the installation may leave one of somebody else.
KeptEntry(t, i) ==
    LET old == orig.entries[i]
        new == t.entries[i]
    IN  /\ i \in DOMAIN t.entries
        /\ new.first_lba = old.first_lba
        /\ new.type = old.type
        /\ \/ new.last_lba = old.last_lba
           \/ /\ i = opts.msdata_index
              /\ opts.windows_resize # 0
              /\ new.last_lba <= old.last_lba
        /\ \/ new.name = old.name
           \/ i = opts.esp_index

Kept(t) == \A i \in InUse(orig) : ~OldAndroid(orig.entries[i]) => KeptEntry(t, i)

Holds(t) == ntfs.index # 0 => ntfs.size <= gpt_entry_get_size(t.entries[ntfs.index])

\* The table in memory, once a dual boot has begun.
Edited ==
    /\ pc \in {"resize", "delete"} => opts.dualboot
    /\ pc \in {"resize", "delete", "space", "mkpart", "write"} /\ opts.dualboot => orig # NoTable
    /\ pc = "resize" => mem = orig /\ opts.windows_resize # 0
    /\ pc \in {"delete", "space", "mkpart", "write"} /\ opts.dualboot =>
          IsShape(mem) /\ Kept(mem) /\ Holds(mem)
    /\ pc = "delete" => \A i \in InUse(orig) : mem.entries[i].name = orig.entries[i].name

\* The table on the disk: the old one until it is written.
OnDisk ==
    /\ pc \notin {"done", "dead"} => ondisk = orig
    /\ ondisk = orig \/ (opts.dualboot /\ orig # NoTable => Kept(ondisk) /\ Holds(ondisk))

IInv == Found /\ Options /\ Edited /\ OnDisk

-----------------------------------------------------------------------------
(* Steps *)

\* Before the scan the disk is as it was found.
LEMMA InitIInv == Init => IInv
  <1> SUFFICES ASSUME Init
               PROVE  IInv
    OBVIOUS
  <1>1. PICK d \in Disks : sectors = d.sectors /\ orig = d.table /\ ntfs = d.ntfs
    BY DEF Init
  <1>2. Found
    BY <1>1, DisksAssumption DEF Found, OldAndroid, NAME_MAGIC, IsSound
  <1>3. opts = [NoOpts EXCEPT !.dualboot = (mode = "default")]
    BY DEF Init
  <1>4. Options
    BY <1>3 DEF Options, NoOpts, OptNames
  <1>5. Edited /\ OnDisk
    BY DEF Init, Edited, OnDisk
  <1> QED BY <1>2, <1>4, <1>5 DEF IInv

\* An unchanged disk has every partition where it was.
LEMMA OrigKept ==
    ASSUME Found, orig # NoTable
    PROVE  IsShape(orig) /\ Kept(orig) /\ Holds(orig)
  BY DEF Found, Kept, KeptEntry, Holds, IsTable, InUse

\* The scan: get_ntfs_min_size only answers for an NTFS volume.
LEMMA PrepareIInv == IInv /\ Prepare => IInv'
  <1> SUFFICES ASSUME IInv, Prepare
               PROVE  IInv'
    OBVIOUS
  <1>1. /\ pc = "prepare" /\ pc' \in {"cli", "execute"} /\ ondisk = orig
        /\ UNCHANGED <<orig, ondisk, ntfs, mem>>
    BY DEF Prepare, IInv, OnDisk
  <1>2. Found' /\ Edited' /\ OnDisk'
    BY <1>1 DEF IInv, Found, Edited, OnDisk, OldAndroid
  <1>3. CASE ondisk = NoTable
    BY <1>1, <1>2, <1>3 DEF Prepare, IInv, Options
  <1>4. CASE ondisk # NoTable
    <2> DEFINE reserved == check_for_ptn(ondisk, "ms_reserved")
               data     == reserved + 1
    <2>1. PICK minsize \in IF reserved # 0 /\ mode = "interactive"
                           THEN get_ntfs_min_size(data, ondisk) ELSE {0} :
            opts' = [opts EXCEPT
                !.msdata_index   = IF reserved = 0 THEN 0 ELSE data,
                !.msdata_size    = IF reserved = 0 THEN 0
                                   ELSE gpt_entry_get_size(ondisk.entries[data]),
                !.msdata_minsize = minsize,
                !.esp_index      = check_for_ptn(ondisk, "esp"),
                !.esp_size       = IF check_for_ptn(ondisk, "esp") = 0 THEN 0 ELSE
                                   mib_align(gpt_entry_get_size(
                                               ondisk.entries[check_for_ptn(ondisk, "esp")])),
                !.android_size   = check_for_android(ondisk),
                !.free_size      = gpt_find_contiguous_free_space(ondisk).size]
      BY <1>4 DEF Prepare
    <2>2. minsize # 0 => reserved # 0 /\ data = ntfs.index /\ data # 0
      BY <1>1, <1>4 DEF get_ntfs_min_size, ValidIndex, IInv, Found, IsTable, IsShape
    <2> HIDE DEF reserved, data
    <2>3. /\ opts' = [x \in OptNames |-> opts'[x]]
          /\ opts'.windows_resize = opts.windows_resize
          /\ opts'.msdata_minsize = minsize
          /\ opts'.msdata_index = IF reserved = 0 THEN 0 ELSE data
      BY <2>1 DEF IInv, Options, OptNames
    <2>4. opts.windows_resize = 0
      BY <1>1 DEF IInv, Options
    <2> QED BY <1>1, <1>2, <1>4, <2>2, <2>3, <2>4 DEF IInv, Options
  <1> QED BY <1>3, <1>4

\* The questions: what Windows is to be resized to is a size the user may type.
LEMMA CliIInv == IInv /\ (CliDualBoot \/ CliWipe) => IInv'
  <1> SUFFICES ASSUME IInv, CliDualBoot \/ CliWipe
               PROVE  IInv'
    OBVIOUS
  <1>1. /\ pc = "cli" /\ pc' \in {"execute", "dead"} /\ ondisk = orig
        /\ UNCHANGED <<orig, ondisk, ntfs, mem>>
    BY DEF CliDualBoot, CliWipe, Dies, IInv, OnDisk
  <1>2. Found' /\ Edited' /\ OnDisk'
    BY <1>1 DEF IInv, Found, Edited, OnDisk, OldAndroid
  <1>3. CASE UNCHANGED opts
    BY <1>1, <1>2, <1>3 DEF IInv, Options
  <1>4. CASE CanResize /\ \E mib \in NewWindowsSizes :
                opts' = [opts EXCEPT !.windows_resize = mib * SectorsPerMiB, !.dualboot = TRUE]
    <2>1. PICK mib \in NewWindowsSizes :
            opts' = [opts EXCEPT !.windows_resize = mib * SectorsPerMiB, !.dualboot = TRUE]
      BY <1>4
    <2>2. mib * SectorsPerMiB \in Nat
      <3>1. mib \in Nat
        BY DEF NewWindowsSizes
      <3> QED BY <3>1, SizesAssumption
    <2>3. ntfs.index # 0 /\ opts.msdata_index = ntfs.index
      BY <1>4 DEF CanResize, IInv, Options
    <2> HIDE DEF NewWindowsSizes
    <2>4. /\ opts' = [x \in OptNames |-> opts'[x]]
          /\ opts'.windows_resize = mib * SectorsPerMiB
          /\ opts'.msdata_index = opts.msdata_index
          /\ opts'.msdata_minsize = opts.msdata_minsize
          /\ opts'.esp_index = opts.esp_index
      BY <2>1 DEF IInv, Options, OptNames
    <2> QED BY <1>1, <1>2, <2>2, <2>3, <2>4 DEF IInv, Options
  <1>5. CASE opts' = [opts EXCEPT !.dualboot = TRUE]
    <2>1. /\ opts' = [x \in OptNames |-> opts'[x]]
          /\ opts'.windows_resize = opts.windows_resize
          /\ opts'.msdata_index = opts.msdata_index
          /\ opts'.msdata_minsize = opts.msdata_minsize
          /\ opts'.esp_index = opts.esp_index
      BY <1>5 DEF IInv, Options, OptNames
    <2> QED BY <1>1, <1>2, <2>1 DEF IInv, Options
  <1> QED BY <1>3, <1>4, <1>5 DEF CliDualBoot, CliWipe

\* Until the table on the disk changes, an end of the installer leaves what was there.
LEMMA EndsIInv ==
    ASSUME IInv, ondisk = orig, pc' = "dead", UNCHANGED <<orig, ondisk, ntfs, opts>>
    PROVE  IInv'
  BY DEF IInv, Found, Options, Edited, OnDisk, OldAndroid

\* The table is read for a dual boot, or made for a wipe.
LEMMA ExecuteIInv == IInv /\ (ExecuteDualBoot \/ ExecuteWipe) => IInv'
  <1> SUFFICES ASSUME IInv, ExecuteDualBoot \/ ExecuteWipe
               PROVE  IInv'
    OBVIOUS
  <1>1. pc = "execute" /\ ondisk = orig /\ UNCHANGED <<orig, ondisk, ntfs, opts>>
    BY DEF ExecuteDualBoot, ExecuteWipe, IInv, OnDisk
  <1>2. CASE pc' = "dead"
    BY <1>1, <1>2, EndsIInv
  <1>3. CASE ExecuteDualBoot /\ pc' # "dead"
    <2>1. /\ opts.dualboot /\ opts.esp_index # 0 /\ mem' = orig
          /\ pc' = IF opts.windows_resize # 0 THEN "resize" ELSE "delete"
      BY <1>1, <1>3 DEF ExecuteDualBoot, Dies
    <2>2. orig # NoTable
      BY <2>1 DEF IInv, Options
    <2>3. IsShape(orig) /\ Kept(orig) /\ Holds(orig)
      BY <2>2, OrigKept DEF IInv
    <2>4. Edited'
      BY <1>1, <2>1, <2>2, <2>3 DEF Edited, Kept, KeptEntry, Holds, OldAndroid
    <2> QED BY <1>1, <2>1, <2>4 DEF IInv, Found, Options, OnDisk, OldAndroid
  <1>4. CASE ExecuteWipe /\ pc' # "dead"
    <2>1. ~opts.dualboot /\ pc' = "space"
      BY <1>4 DEF ExecuteWipe, Dies
    <2> QED BY <1>1, <2>1 DEF IInv, Found, Options, Edited, OnDisk, OldAndroid
  <1> QED BY <1>2, <1>3, <1>4

\* The volume shrinks, then its entry in memory.
LEMMA ResizeIInv == IInv /\ ResizeNtfs => IInv'
  <1> SUFFICES ASSUME IInv, ResizeNtfs
               PROVE  IInv'
    OBVIOUS
  <1> DEFINE new == opts.windows_resize
             n   == opts.msdata_index
  <1>1. /\ pc = "resize" /\ ondisk = orig /\ mem = orig /\ opts.dualboot
        /\ orig # NoTable /\ new # 0
        /\ UNCHANGED <<orig, ondisk, opts>>
    BY DEF ResizeNtfs, IInv, OnDisk, Edited
  <1>2. ntfs.index # 0 /\ n = ntfs.index /\ new \in Nat
    BY <1>1 DEF IInv, Options
  <1>3. CASE UNCHANGED ntfs /\ pc' = "dead"
    BY <1>1, <1>3, EndsIInv
  <1>4. CASE /\ new <= gpt_entry_get_size(orig.entries[n])
             /\ ntfs' = [ntfs EXCEPT !.size = new]
    <2>1. /\ ntfs' \in [index : Nat, size : Nat, min : Nat]
          /\ ntfs'.index = ntfs.index /\ ntfs'.size = new
      BY <1>2, <1>4 DEF IInv, Found
    <2>2. Found'
      BY <1>1, <1>2, <1>4, <2>1 DEF IInv, Found, OldAndroid
    <2>3. Options'
      BY <1>1, <2>1 DEF IInv, Options, ResizeNtfs, Dies
    <2>4. CASE pc' = "dead"
      BY <1>1, <2>2, <2>3, <2>4 DEF IInv, Edited, OnDisk
    <2>5. CASE /\ mem' = [mem EXCEPT !.entries[n].last_lba =
                              ShrunkLast(mem.entries[n].first_lba, new)]
               /\ pc' = "delete"
      <3>1. IsShape(orig) /\ Kept(orig) /\ n \in DOMAIN orig.entries
        BY <1>1, <1>2, OrigKept DEF IInv, Found, InUse
      <3>2. orig.entries[n].first_lba \in Nat /\ orig.entries[n].last_lba \in Nat
        BY <1>1, <3>1 DEF IInv, Found, IsTable
      <3>3. /\ IsShape(mem')
            /\ mem'.entries[n].last_lba = orig.entries[n].first_lba + new - 1
            /\ \A i \in DOMAIN orig.entries :
                    /\ i \in DOMAIN mem'.entries
                    /\ mem'.entries[i].first_lba = orig.entries[i].first_lba
                    /\ i # n => mem'.entries[i].last_lba = orig.entries[i].last_lba
                    /\ mem'.entries[i].type = orig.entries[i].type
                    /\ mem'.entries[i].name = orig.entries[i].name
        <4>1. mem' = WithLast(orig, n, orig.entries[n].first_lba + new - 1)
          BY <1>1, <2>5 DEF ShrunkLast, WithLast
        <4> QED BY <3>1, <4>1, LastSet DEF SameFrame
      <3>4. mem'.entries[n].last_lba <= orig.entries[n].last_lba
        BY <1>2, <1>4, <3>2, <3>3 DEF gpt_entry_get_size
      <3>5. Kept(mem)'
        BY <1>1, <3>1, <3>3, <3>4 DEF Kept, KeptEntry, OldAndroid, InUse
      <3>6. Holds(mem)'
        <4>1. mem'.entries[n].first_lba = orig.entries[n].first_lba
          BY <3>1, <3>3
        <4>2. gpt_entry_get_size(mem'.entries[n]) = new
          BY <1>2, <3>2, <3>3, <4>1 DEF gpt_entry_get_size
        <4> QED BY <1>2, <2>1, <4>2 DEF Holds, gpt_entry_get_size
      <3>7. Edited'
        BY <1>1, <2>5, <3>3, <3>5, <3>6 DEF Edited
      <3> QED BY <1>1, <2>2, <2>3, <2>5, <3>7 DEF IInv, OnDisk
    <2> QED BY <1>1, <1>3, <1>4, <2>4, <2>5 DEF ResizeNtfs, Dies
  <1> QED BY <1>1, <1>3, <1>4 DEF ResizeNtfs, Dies

\* delete_android leaves the entries of everybody else.
LEMMA DeleteIInv == IInv /\ DeleteAndroid => IInv'
  <1> SUFFICES ASSUME IInv, DeleteAndroid
               PROVE  IInv'
    OBVIOUS
  <1>1. /\ pc = "delete" /\ pc' = "space" /\ ondisk = orig /\ opts.dualboot /\ orig # NoTable
        /\ IsShape(mem) /\ Kept(mem) /\ Holds(mem)
        /\ UNCHANGED <<orig, ondisk, ntfs>>
    BY DEF DeleteAndroid, IInv, OnDisk, Edited
  <1>2. opts' = [opts EXCEPT !.bootloader_len = to_mib(opts.esp_size)]
    BY DEF DeleteAndroid
  <1>3. /\ opts' = [x \in OptNames |-> opts'[x]]
        /\ opts'.esp_index = opts.esp_index
        /\ opts'.msdata_index = opts.msdata_index
        /\ opts'.msdata_minsize = opts.msdata_minsize
        /\ opts'.windows_resize = opts.windows_resize
    BY <1>2 DEF IInv, Options, OptNames
  <1>4. Found' /\ Options' /\ OnDisk'
    BY <1>1, <1>3 DEF IInv, Found, Options, OnDisk, OldAndroid
  <1>5. CASE mem' = mem
    BY <1>1, <1>3, <1>4, <1>5 DEF IInv, Edited, Kept, KeptEntry, Holds, OldAndroid
  <1>6. CASE mem' = delete_android(mem)
    <2>1. /\ IsShape(mem')
          /\ \A i \in DOMAIN mem.entries \ AndroidEntries(mem) :
                i \in DOMAIN mem'.entries /\ mem'.entries[i] = mem.entries[i]
      BY <1>1, <1>6, Deleted DEF delete_android, SameFrame
    <2>2. ASSUME NEW i \in InUse(orig), ~OldAndroid(orig.entries[i]),
                 KeptEntry(mem, i)
          PROVE  i \notin AndroidEntries(mem) /\ i \in DOMAIN mem.entries
      <3>1. mem.entries[i].name = orig.entries[i].name
        BY <1>1 DEF IInv, Edited
      <3> QED BY <2>2, <3>1 DEF AndroidEntries, IsAndroid, OldAndroid, KeptEntry
    <2>3. Kept(mem)'
      <3> SUFFICES ASSUME NEW i \in InUse(orig), ~OldAndroid(orig.entries[i])
                   PROVE  KeptEntry(mem, i)'
        BY <1>1 DEF Kept, OldAndroid
      <3>1. KeptEntry(mem, i)
        BY <1>1 DEF Kept
      <3>2. i \in DOMAIN mem'.entries /\ mem'.entries[i] = mem.entries[i]
        BY <2>1, <2>2, <3>1
      <3> QED BY <1>1, <1>3, <3>1, <3>2 DEF KeptEntry
    <2>4. Holds(mem)'
      <3> SUFFICES ASSUME ntfs.index # 0
                   PROVE  ntfs.size <= gpt_entry_get_size(mem'.entries[ntfs.index])
        BY <1>1 DEF Holds
      <3>1. ntfs.index \in InUse(orig) /\ ~OldAndroid(orig.entries[ntfs.index])
        BY DEF IInv, Found
      <3>2. KeptEntry(mem, ntfs.index)
        BY <1>1, <3>1 DEF Kept
      <3>3. mem'.entries[ntfs.index] = mem.entries[ntfs.index]
        BY <2>1, <2>2, <3>1, <3>2
      <3> QED BY <1>1, <3>3 DEF Holds
    <2>5. Edited'
      BY <1>1, <2>1, <2>3, <2>4 DEF Edited
    <2> QED BY <1>4, <2>5 DEF IInv
  <1> QED BY <1>5, <1>6 DEF DeleteAndroid

\* create_android_partitions: space is looked for, and each new partition gets an
\* entry that is free.
LEMMA CreateIInv == IInv /\ (PlanSpace \/ MkPart) => IInv'
  <1> SUFFICES ASSUME IInv, PlanSpace \/ MkPart
               PROVE  IInv'
    OBVIOUS
  <1>1. /\ pc \in {"space", "mkpart"} /\ ondisk = orig
        /\ UNCHANGED <<orig, ondisk, ntfs, opts>>
    BY DEF PlanSpace, MkPart, IInv, OnDisk
  <1>2. CASE pc' = "dead"
    BY <1>1, <1>2, EndsIInv
  <1>3. CASE UNCHANGED mem /\ pc' = "mkpart"
    BY <1>1, <1>3 DEF IInv, Found, Options, Edited, OnDisk, Kept, KeptEntry, Holds, OldAndroid
  <1>4. CASE /\ gpt_next_index(mem) # 0 /\ pc' = "mkpart"
             /\ \E name, type, first, last :
                   mem' = gpt_entry_create(mem, name, type, first, last)
    <2>1. Found' /\ Options' /\ OnDisk'
      BY <1>1, <1>4 DEF IInv, Found, Options, OnDisk, OldAndroid
    <2>2. CASE ~opts.dualboot
      BY <1>1, <1>4, <2>1, <2>2 DEF IInv, Edited
    <2>3. CASE opts.dualboot
      <3>1. orig # NoTable /\ IsShape(mem) /\ Kept(mem) /\ Holds(mem)
        BY <1>1, <2>3 DEF IInv, Edited
      <3> DEFINE n == gpt_next_index(mem)
      <3>2. n \in DOMAIN mem.entries /\ n \notin InUse(mem)
        BY <1>4, <3>1, NextIndexFree
      <3>3. /\ IsShape(mem')
            /\ \A i \in DOMAIN mem.entries \ {n} :
                  i \in DOMAIN mem'.entries /\ mem'.entries[i] = mem.entries[i]
        <4>1. PICK name, type, first, last :
                mem' = gpt_entry_create(mem, name, type, first, last)
          BY <1>4
        <4> DEFINE u == gpt_entry_create(mem, name, type, first, last)
        <4>2. /\ SameFrame(u, mem)
              /\ \A i \in DOMAIN mem.entries : i # n => u.entries[i] = mem.entries[i]
          BY <1>4, <3>1, Created
        <4> QED BY <4>1, <4>2 DEF SameFrame
      <3> HIDE DEF n
      <3>4. ASSUME NEW i \in InUse(orig), KeptEntry(mem, i)
            PROVE  i \in DOMAIN mem'.entries /\ mem'.entries[i] = mem.entries[i]
        <4>1. i \in DOMAIN mem.entries /\ mem.entries[i].first_lba # 0
          BY <3>4 DEF KeptEntry, InUse
        <4> QED BY <3>2, <3>3, <4>1 DEF InUse
      <3>5. Kept(mem)'
        <4> SUFFICES ASSUME NEW i \in InUse(orig), ~OldAndroid(orig.entries[i])
                     PROVE  KeptEntry(mem, i)'
          BY <1>1 DEF Kept, OldAndroid
        <4>1. KeptEntry(mem, i)
          BY <3>1 DEF Kept
        <4> QED BY <1>1, <3>4, <4>1 DEF KeptEntry
      <3>6. Holds(mem)'
        <4> SUFFICES ASSUME ntfs.index # 0
                     PROVE  ntfs.size <= gpt_entry_get_size(mem'.entries[ntfs.index])
          BY <1>1 DEF Holds
        <4>1. ntfs.index \in InUse(orig) /\ ~OldAndroid(orig.entries[ntfs.index])
          BY DEF IInv, Found
        <4>2. KeptEntry(mem, ntfs.index)
          BY <3>1, <4>1 DEF Kept
        <4> QED BY <3>1, <3>4, <4>1, <4>2 DEF Holds
      <3> QED BY <1>1, <1>4, <2>1, <3>1, <3>3, <3>5, <3>6 DEF IInv, Edited
    <2> QED BY <2>2, <2>3
  <1>5. CASE PlanSpace
    BY <1>2, <1>3, <1>5 DEF PlanSpace, Dies
  <1>6. CASE MkPart
    BY <1>2, <1>3, <1>4, <1>6 DEF MkPart, Dies
  <1> QED BY <1>5, <1>6

\* The ESP gets its name, and the table is written.
LEMMA WriteIInv == IInv /\ (FinishTable \/ WriteTable) => IInv'
  <1> SUFFICES ASSUME IInv, FinishTable \/ WriteTable
               PROVE  IInv'
    OBVIOUS
  <1>1. ondisk = orig /\ UNCHANGED <<orig, ntfs, opts>> /\ pc \in {"mkpart", "write"}
    BY DEF FinishTable, WriteTable, IInv, OnDisk
  <1>2. Found' /\ (pc' # "prepare" => Options')
    BY <1>1 DEF IInv, Found, Options, OldAndroid
  <1>3. opts.dualboot => orig # NoTable /\ IsShape(mem) /\ Kept(mem) /\ Holds(mem)
    BY <1>1 DEF IInv, Edited
  <1>4. CASE FinishTable
    <2>1. pc' = "write" /\ UNCHANGED ondisk
      BY <1>4 DEF FinishTable
    <2>2. CASE ~opts.dualboot
      BY <1>1, <1>2, <2>1, <2>2 DEF IInv, Edited, OnDisk
    <2>3. CASE opts.dualboot
      <3>1. mem' = gpt_entry_set_name(mem, opts.esp_index, AndroidName("bootloader"))
        BY <1>4, <2>3 DEF FinishTable
      <3>2. /\ IsShape(mem')
            /\ \A i \in DOMAIN mem.entries :
                 /\ i \in DOMAIN mem'.entries
                 /\ mem'.entries[i].first_lba = mem.entries[i].first_lba
                 /\ mem'.entries[i].last_lba = mem.entries[i].last_lba
                 /\ mem'.entries[i].type = mem.entries[i].type
                 /\ i # opts.esp_index => mem'.entries[i].name = mem.entries[i].name
        BY <1>3, <2>3, <3>1, Named DEF SameFrame
      <3>3. Kept(mem)'
        <4> SUFFICES ASSUME NEW i \in InUse(orig), ~OldAndroid(orig.entries[i])
                     PROVE  KeptEntry(mem, i)'
          BY <1>1 DEF Kept, OldAndroid
        <4>1. KeptEntry(mem, i)
          BY <1>3, <2>3 DEF Kept
        <4> QED BY <1>1, <3>2, <4>1 DEF KeptEntry
      <3>4. Holds(mem)'
        <4> SUFFICES ASSUME ntfs.index # 0
                     PROVE  ntfs.size <= gpt_entry_get_size(mem'.entries[ntfs.index])
          BY <1>1 DEF Holds
        <4>1. ntfs.index \in InUse(orig) /\ ~OldAndroid(orig.entries[ntfs.index])
          BY DEF IInv, Found
        <4>2. ntfs.index \in DOMAIN mem.entries
          BY <1>3, <2>3, <4>1 DEF Kept, KeptEntry
        <4> QED BY <1>3, <2>3, <3>2, <4>2 DEF Holds, gpt_entry_get_size
      <3> QED BY <1>1, <1>2, <1>3, <2>1, <2>3, <3>2, <3>3, <3>4 DEF IInv, Edited, OnDisk
    <2> QED BY <2>2, <2>3
  <1>5. CASE WriteTable
    <2>1. pc' \in {"done", "dead"} /\ UNCHANGED mem /\ ondisk' \in {orig, mem}
      BY <1>1, <1>5 DEF WriteTable, Dies
    <2>2. Options' /\ Edited'
      BY <1>2, <2>1 DEF Edited
    <2>3. opts.dualboot => Kept(mem)' /\ Holds(mem)'
      BY <1>1, <1>3, <2>1 DEF Kept, KeptEntry, Holds, OldAndroid
    <2>4. OnDisk'
      BY <1>1, <2>1, <2>3 DEF OnDisk, Kept, KeptEntry, Holds, OldAndroid
    <2> QED BY <1>2, <2>2, <2>4 DEF IInv
  <1> QED BY <1>4, <1>5

\* No step breaks the invariant, ...
LEMMA NextIInv == IInv /\ [Next]_vars => IInv'
  <1> SUFFICES ASSUME IInv, [Next]_vars
               PROVE  IInv'
    OBVIOUS
  <1>1. CASE UNCHANGED vars
    BY <1>1 DEF vars, IInv, Found, Options, Edited, OnDisk, Kept, KeptEntry, Holds, OldAndroid
  <1>2. CASE Next
    BY <1>2, PrepareIInv, CliIInv, ExecuteIInv, ResizeIInv, DeleteIInv, CreateIInv, WriteIInv
    DEF Next
  <1> QED BY <1>1, <1>2

\* ... so it holds of every behaviour.
LEMMA Inductive == Spec => []IInv
  BY InitIInv, NextIInv, PTL DEF Spec

-----------------------------------------------------------------------------
(* What the partitions of the list take *)

\* What each partition of the list gets, in MiB.
Planned ==
    [j \in DOMAIN PartList |->
        IF SkipsBootloader(PartList[j]) THEN 0 ELSE PartMb(PartList[j])]

\* What is settled before the first partition is made: the bootloaders of a dual boot
\* are as long as the ESP, and there is room for all that is needed.
Settled ==
    /\ opts.dualboot \in BOOLEAN
    /\ opts.bootloader_len \in Nat \ {0}
    /\ IF opts.dualboot THEN opts.esp_size = opts.bootloader_len * SectorsPerMiB
       ELSE opts.bootloader_len = BootloaderLen

Reckoned ==
    /\ mk.disk_mb \in Nat /\ mk.disk_mb < Word
    /\ mk.ptn_mb = SpaceNeededMb
    /\ mk.ptn_mb + MIN_DATA_PART_SIZE <= mk.disk_mb

\* The partition list is a sequence of partitions with lengths, a bootloader among them.
LEMMA PartListFacts ==
    /\ Len(PartList) \in Nat
    /\ DOMAIN PartList = 1 .. Len(PartList)
    /\ \A j \in 1 .. Len(PartList) :
          /\ PartList[j].len \in Int \ {0}
          /\ PartList[j].name \in PartNames
    /\ "bootloader" \in PartNames
  <1> DEFINE K == DOMAIN PartList
             P == [name : {PartList[k].name : k \in K}, type : {PartList[k].type : k \in K},
                   len : Int \ {0}]
  <1>1. PartList \in Seq(P) /\ \E k \in K : PartList[k].name = "bootloader"
    BY PartListAssumption
  <1>2. \A p \in P : p.len \in Int \ {0}
    OBVIOUS
  <1> HIDE DEF P
  <1>3. Len(PartList) \in Nat /\ K = 1 .. Len(PartList) /\ \A j \in K : PartList[j] \in P
    BY <1>1
  <1> QED BY <1>1, <1>2, <1>3 DEF PartNames

\* Only the two bootloaders are taken for one.
LEMMA PrefixedFacts ==
    \A j \in 1 .. Len(PartList) : PartList[j].name \in Prefixed <=> PartList[j].name \in Bootloaders
  BY PartListFacts, PartListAssumption DEF Bootloaders

\* The sum of the fixed lengths is a sum of unsigned numbers.
LEMMA FixedMbFacts ==
    /\ FixedLens \in [1 .. Len(PartList) -> Nat]
    /\ FixedMb \in Nat
  <1>1. FixedLens \in [1 .. Len(PartList) -> Nat]
    BY PartListFacts DEF FixedLens
  <1>2. RunningSums(FixedLens) \in [0 .. Len(PartList) -> Nat]
    BY <1>1, PartListFacts, SumsGrow
  <1>3. Len(PartList) \in 0 .. Len(PartList)
    BY PartListFacts
  <1> QED BY <1>1, <1>2, <1>3 DEF FixedMb

\* What is needed besides the data partition is the fixed lengths and the bootloaders.
LEMMA NeededMb ==
    ASSUME Settled
    PROVE  /\ SpaceNeededMb = FixedMb + (IF opts.dualboot THEN opts.bootloader_len
                                         ELSE 2 * opts.bootloader_len)
           /\ SpaceNeededMb \in Nat
  <1>1. FixedMb \in Nat /\ SectorsPerMiB \in Nat /\ BootloaderLen \in Nat
    BY FixedMbFacts, SizesAssumption
  <1>2. CASE opts.dualboot
    <2>1. opts.bootloader_len \in Nat
      BY DEF Settled
    <2>2. FixedMb * SectorsPerMiB + opts.esp_size = (FixedMb + opts.bootloader_len) * SectorsPerMiB
      BY <1>1, <1>2, <2>1, MibOrder DEF Settled
    <2>3. to_mib((FixedMb + opts.bootloader_len) * SectorsPerMiB) = FixedMb + opts.bootloader_len
      BY <1>1, <2>1, ToMibExact
    <2> QED BY <1>1, <1>2, <2>1, <2>2, <2>3 DEF SpaceNeededMb, get_partial_space_required
  <1>3. CASE ~opts.dualboot
    <2>1. opts.bootloader_len = BootloaderLen /\ 2 * BootloaderLen \in Nat
      BY <1>1, <1>3 DEF Settled
    <2>2. FixedMb * SectorsPerMiB + 2 * BootloaderLen * SectorsPerMiB
            = (FixedMb + 2 * BootloaderLen) * SectorsPerMiB
      BY <1>1, <2>1, MibOrder
    <2>3. to_mib((FixedMb + 2 * BootloaderLen) * SectorsPerMiB) = FixedMb + 2 * BootloaderLen
      BY <1>1, <2>1, ToMibExact
    <2> QED BY <1>1, <1>3, <2>1, <2>2, <2>3 DEF SpaceNeededMb, get_partial_space_required
  <1> QED BY <1>2, <1>3 DEF Settled

\* Every partition gets something, the growing one at least the minimum, and all of them
\* together no more than there is: the loop of create_android_partitions stays in its region.
LEMMA PlannedFits ==
    ASSUME Settled, Reckoned
    PROVE  /\ Planned \in [1 .. Len(PartList) -> Nat]
           /\ RunningSums(Planned)[Len(PartList)] <= mk.disk_mb
           /\ \A j \in 1 .. Len(PartList) :
                LET p == PartList[j]
                IN  ~SkipsBootloader(p) =>
                      /\ Planned[j] = PartMb(p)
                      /\ Planned[j] # 0
                      /\ p.name \in Bootloaders => Planned[j] = opts.bootloader_len
                      /\ p.name \notin Bootloaders /\ p.len > 0 => Planned[j] = p.len
                      /\ p.name \notin Bootloaders /\ p.len < 0 => Planned[j] >= MIN_DATA_PART_SIZE
  <1> DEFINE n    == Len(PartList)
             bl   == opts.bootloader_len
             left == mk.disk_mb - mk.ptn_mb
  <1>0. /\ n \in Nat /\ DOMAIN PartList = 1 .. n
        /\ \A j \in 1 .. n : PartList[j].len \in Int \ {0}
        /\ \A i, j \in 1 .. n : PartList[i].name = PartList[j].name => i = j
        /\ \A i, j \in 1 .. n : PartList[i].len < 0 /\ PartList[j].len < 0 => i = j
    <2>1. n \in Nat /\ DOMAIN PartList = 1 .. n /\ \A j \in 1 .. n : PartList[j].len \in Int \ {0}
      BY PartListFacts
    <2> QED BY <2>1, PartListAssumption
  <1>1. /\ bl \in Nat \ {0} /\ opts.dualboot \in BOOLEAN
        /\ MIN_DATA_PART_SIZE \in Nat \ {0} /\ Word \in Nat
        /\ mk.disk_mb \in Nat /\ mk.ptn_mb \in Nat
        /\ left \in Nat /\ left < Word /\ left >= MIN_DATA_PART_SIZE
        /\ mk.ptn_mb = FixedMb + (IF opts.dualboot THEN bl ELSE 2 * bl)
    BY NeededMb, SizesAssumption DEF Settled, Reckoned
  <1>2. left % Word = left
    BY <1>1
  <1> HIDE DEF n, bl, left
  <1> DEFINE F  == FixedLens
             B1 == [j \in 1 .. n |-> IF PartList[j].name = "bootloader" /\ ~opts.dualboot
                                     THEN bl ELSE 0]
             B2 == [j \in 1 .. n |-> IF PartList[j].name = "bootloader2" THEN bl ELSE 0]
             G  == [j \in 1 .. n |-> IF PartList[j].name \notin Bootloaders /\ PartList[j].len < 0
                                     THEN left ELSE 0]
             V1 == [j \in 1 .. n |-> F[j] + B1[j]]
             V2 == [j \in 1 .. n |-> V1[j] + B2[j]]
  <1>3. \A j \in 1 .. n : F[j] = IF PartList[j].name \notin Bootloaders /\ PartList[j].len > 0
                                 THEN PartList[j].len ELSE 0
    BY <1>0, PrefixedFacts DEF FixedLens
  <1>4. F \in [1 .. n -> Nat]
    BY FixedMbFacts DEF n
  <1> HIDE DEF F
  <1>5. /\ B1 \in [1 .. n -> Nat] /\ B2 \in [1 .. n -> Nat] /\ G \in [1 .. n -> Nat]
        /\ V1 \in [1 .. n -> Nat] /\ V2 \in [1 .. n -> Nat]
    <2>1. B1 \in [1 .. n -> Nat] /\ B2 \in [1 .. n -> Nat] /\ G \in [1 .. n -> Nat]
      BY <1>1
    <2>2. V1 \in [1 .. n -> Nat]
      BY <1>4, <2>1
    <2> HIDE DEF B1, B2, G, V1
    <2> QED BY <2>1, <2>2
  <1>6. ASSUME NEW j \in 1 .. n
        PROVE  /\ Planned[j] = V2[j] + G[j]
               /\ ~SkipsBootloader(PartList[j]) =>
                      /\ Planned[j] = PartMb(PartList[j])
                      /\ Planned[j] # 0
                      /\ PartList[j].name \in Bootloaders => Planned[j] = bl
                      /\ PartList[j].name \notin Bootloaders /\ PartList[j].len > 0
                           => Planned[j] = PartList[j].len
                      /\ PartList[j].name \notin Bootloaders /\ PartList[j].len < 0
                           => Planned[j] >= MIN_DATA_PART_SIZE
    <2>1. Planned[j] = IF SkipsBootloader(PartList[j]) THEN 0 ELSE PartMb(PartList[j])
      BY <1>0 DEF Planned
    <2>2. PartMb(PartList[j]) = IF PartList[j].name \in Bootloaders THEN bl
                                ELSE IF PartList[j].len < 0 THEN left ELSE PartList[j].len
      BY <1>2 DEF PartMb, bl, left
    <2>3. V2[j] = (F[j] + B1[j]) + B2[j]
      OBVIOUS
    <2> DEFINE nm == PartList[j].name
               ln == PartList[j].len
    <2>4. ln \in Int \ {0}
      BY <1>0
    <2>5. /\ F[j] = (IF nm \notin Bootloaders /\ ln > 0 THEN ln ELSE 0)
          /\ B1[j] = (IF nm = "bootloader" /\ ~opts.dualboot THEN bl ELSE 0)
          /\ B2[j] = (IF nm = "bootloader2" THEN bl ELSE 0)
          /\ G[j] = (IF nm \notin Bootloaders /\ ln < 0 THEN left ELSE 0)
      BY <1>3
    <2>6. SkipsBootloader(PartList[j]) <=> (opts.dualboot /\ nm = "bootloader")
      BY DEF SkipsBootloader
    <2> HIDE DEF B1, B2, G, V2, nm, ln
    <2>7. CASE nm = "bootloader"
      BY <1>1, <2>1, <2>2, <2>3, <2>4, <2>5, <2>6, <2>7 DEF Bootloaders, nm, ln
    <2>8. CASE nm = "bootloader2"
      BY <1>1, <2>1, <2>2, <2>3, <2>4, <2>5, <2>6, <2>8 DEF Bootloaders, nm, ln
    <2>9. CASE nm \notin Bootloaders
      BY <1>1, <2>1, <2>2, <2>3, <2>4, <2>5, <2>6, <2>9 DEF Bootloaders, nm, ln
    <2> QED BY <2>7, <2>8, <2>9 DEF Bootloaders
  <1>7. RunningSums(B1)[n] <= (IF opts.dualboot THEN 0 ELSE bl)
    <2>1. /\ \A i \in 1 .. n : B1[i] <= (IF opts.dualboot THEN 0 ELSE bl)
          /\ \A i, j \in 1 .. n : B1[i] # 0 /\ B1[j] # 0 => i = j
          /\ (IF opts.dualboot THEN 0 ELSE bl) \in Nat
      BY <1>0, <1>1
    <2> HIDE DEF B1
    <2> QED BY <1>0, <1>5, <2>1, SumsOne
  <1>8. RunningSums(B2)[n] <= bl
    <2>1. /\ \A i \in 1 .. n : B2[i] <= bl
          /\ \A i, j \in 1 .. n : B2[i] # 0 /\ B2[j] # 0 => i = j
      BY <1>0, <1>1
    <2> HIDE DEF B2
    <2> QED BY <1>0, <1>1, <1>5, <2>1, SumsOne
  <1>9. RunningSums(G)[n] <= left
    <2>1. /\ \A i \in 1 .. n : G[i] <= left
          /\ \A i, j \in 1 .. n : G[i] # 0 /\ G[j] # 0 => i = j
      BY <1>0, <1>1
    <2> HIDE DEF G
    <2> QED BY <1>0, <1>1, <1>5, <2>1, SumsOne
  <1>10. \A j \in 1 .. n : V1[j] = F[j] + B1[j] /\ V2[j] = V1[j] + B2[j]
    OBVIOUS
  <1> HIDE DEF B1, B2, G, V1, V2
  <1>11. Planned \in [1 .. n -> Nat]
    <2>1. \A j \in 1 .. n : Planned[j] \in Nat
      BY <1>5, <1>6
    <2> QED BY <1>0, <2>1 DEF Planned
  <1>12. RunningSums(Planned)[n] <= mk.disk_mb
    <2>0. /\ n \in Nat /\ n \in 0 .. n
          /\ F \in [1 .. n -> Int] /\ B1 \in [1 .. n -> Int] /\ B2 \in [1 .. n -> Int]
          /\ G \in [1 .. n -> Int] /\ V1 \in [1 .. n -> Int] /\ V2 \in [1 .. n -> Int]
          /\ Planned \in [1 .. n -> Int]
      BY <1>0, <1>4, <1>5, <1>11
    <2>1. RunningSums(Planned)[n] = RunningSums(V2)[n] + RunningSums(G)[n]
      <3>1. \A j \in 1 .. n : Planned[j] = V2[j] + G[j]
        BY <1>6
      <3>2. /\ n \in Nat /\ Planned \in [1 .. n -> Int]
            /\ V2 \in [1 .. n -> Int] /\ G \in [1 .. n -> Int]
        BY <2>0
      <3>3. \A j \in 0 .. n : RunningSums(Planned)[j] = RunningSums(V2)[j] + RunningSums(G)[j]
        BY <3>1, <3>2, SumsAdd
      <3> QED BY <2>0, <3>3
    <2>2. RunningSums(V2)[n] = RunningSums(V1)[n] + RunningSums(B2)[n]
      <3>1. \A j \in 1 .. n : V2[j] = V1[j] + B2[j]
        BY <1>10
      <3>2. /\ n \in Nat /\ V2 \in [1 .. n -> Int]
            /\ V1 \in [1 .. n -> Int] /\ B2 \in [1 .. n -> Int]
        BY <2>0
      <3>3. \A j \in 0 .. n : RunningSums(V2)[j] = RunningSums(V1)[j] + RunningSums(B2)[j]
        BY <3>1, <3>2, SumsAdd
      <3> QED BY <2>0, <3>3
    <2>3. RunningSums(V1)[n] = RunningSums(F)[n] + RunningSums(B1)[n]
      <3>1. \A j \in 1 .. n : V1[j] = F[j] + B1[j]
        BY <1>10
      <3>2. /\ n \in Nat /\ V1 \in [1 .. n -> Int]
            /\ F \in [1 .. n -> Int] /\ B1 \in [1 .. n -> Int]
        BY <2>0
      <3>3. \A j \in 0 .. n : RunningSums(V1)[j] = RunningSums(F)[j] + RunningSums(B1)[j]
        BY <3>1, <3>2, SumsAdd
      <3> QED BY <2>0, <3>3
    <2>4. RunningSums(F)[n] = FixedMb
      BY DEF F, FixedMb, n
    <2>5. /\ RunningSums(B1)[n] \in Nat /\ RunningSums(B2)[n] \in Nat /\ RunningSums(G)[n] \in Nat
          /\ FixedMb \in Nat
      <3>1. /\ RunningSums(B1) \in [0 .. n -> Nat] /\ RunningSums(B2) \in [0 .. n -> Nat]
            /\ RunningSums(G) \in [0 .. n -> Nat]
        BY <1>0, <1>5, SumsGrow
      <3> QED BY <2>0, <3>1, FixedMbFacts
    <2>6. left = mk.disk_mb - mk.ptn_mb
      BY DEF left
    <2> QED BY <1>1, <1>7, <1>8, <1>9, <2>1, <2>2, <2>3, <2>4, <2>5, <2>6
  <1> QED BY <1>6, <1>11, <1>12 DEF n, bl

-----------------------------------------------------------------------------
(* The inductive invariant of the layout *)

Early   == {"prepare", "cli", "execute", "resize", "delete"}
Laying  == {"space", "mkpart", "write", "done"}
Editing == {"resize", "delete", "space", "mkpart", "write", "done"}

Control ==
    /\ pc \in Early \cup Laying \cup {"dead"}
    /\ why \in Reasons
    /\ (pc = "dead") = (why # "none")

\* A table that fits the disk.
Fit(t) == IsSound(t) /\ t.last_usable_lba < sectors

\* What the scan reads off the disk, and what the options say of the bootloaders.
Scanned ==
    /\ sectors \in Nat /\ sectors < MibWord
    /\ opts.dualboot \in BOOLEAN
    /\ orig # NoTable =>
          /\ Fit(orig)
          /\ \A i \in DOMAIN orig.entries : orig.entries[i].last_lba <= Word
          /\ \A i \in InUse(orig) : orig.entries[i].type = "esp" => ~OldAndroid(orig.entries[i])
    /\ opts.esp_index # 0 =>
          /\ orig # NoTable /\ opts.esp_index \in InUse(orig)
          /\ orig.entries[opts.esp_index].type = "esp"
          /\ opts.esp_size = mib_align(gpt_entry_get_size(orig.entries[opts.esp_index]))
    /\ pc # "prepare" /\ orig # NoTable => opts.android_size = check_for_android(orig)
    /\ pc \in {"resize", "delete"} \cup Laying /\ opts.dualboot => opts.esp_index # 0
    /\ pc \in Early => opts.bootloader_len = BootloaderLen
    /\ pc \in Laying =>
          opts.bootloader_len = IF opts.dualboot THEN to_mib(opts.esp_size) ELSE BootloaderLen

Indexed(i) == i \in IF Wrapped THEN DOMAIN mem.entries ELSE InUse(mem)

\* The table in memory is a table, and an index that is set points into it.
Sane ==
    /\ IsShape(mem)
    /\ \A i \in DOMAIN mem.entries : /\ mem.entries[i].first_lba \in 0 .. Word
                                     /\ mem.entries[i].last_lba \in 0 .. Word
    /\ \A p \in PartNames : index[p] # 0 => Indexed(index[p])

Memory ==
    /\ index \in [PartNames -> Nat]
    /\ pc \in Early => \A p \in PartNames : index[p] = 0
    /\ pc \in Editing \/ mem # NoTable => Sane
    /\ pc \in {"resize", "delete", "space"} => Fit(mem)
    /\ pc = "delete" => InUse(mem) \subseteq InUse(orig)
    /\ pc = "space" => \A i \in InUse(mem) : ~OldAndroid(mem.entries[i])
    /\ pc \in Laying /\ opts.dualboot => index["bootloader"] = opts.esp_index

PlanNames == {"k", "start_mb", "end_mb", "next_mb", "ptn_mb", "disk_mb"}

\* The position in the list, and the numbers that go with it.
Position ==
    /\ mk = [x \in PlanNames |-> mk[x]]
    /\ mk.k \in 1 .. Len(PartList) + 1
    /\ mk.next_mb \in Int /\ mk.ptn_mb \in Int /\ mk.disk_mb \in Int
    /\ pc \in Early \cup {"space"} => mk = NoPlan

\* The region in which the partitions are laid out, from one MiB boundary to another.
Spread ==
    /\ mk.start_mb \in Nat \ {0} /\ mk.end_mb \in Nat
    /\ mk.start_mb <= mk.end_mb /\ mk.end_mb < MibWord
    /\ mem.first_usable_lba <= mk.start_mb * SectorsPerMiB
    /\ mk.end_mb * SectorsPerMiB <= mem.last_usable_lba + 1
    /\ mk.disk_mb = mk.end_mb - mk.start_mb

\* What of it is not given away yet.
Room ==
    \A i \in InUse(mem) :
        \/ mem.entries[i].last_lba < mk.next_mb * SectorsPerMiB
        \/ mk.end_mb * SectorsPerMiB <= mem.entries[i].first_lba

\* A partition of the list that has been made.
MadeEntry(j) ==
    LET i == index[PartList[j].name]
        e == mem.entries[i]
    IN  /\ i \in InUse(mem)
        /\ e.name = AndroidName(PartList[j].name)
        /\ e.type = PartList[j].type
        /\ gpt_entry_get_size(e) = Planned[j] * SectorsPerMiB
        /\ opts.dualboot => i # opts.esp_index

\* The partitions in front of position k have been made, one behind the other, and
\* there is no other partition with a name of Android's.
Progress ==
    /\ mk.next_mb = mk.start_mb + RunningSums(Planned)[mk.k - 1]
    /\ \A j \in 1 .. mk.k - 1 : ~SkipsBootloader(PartList[j]) => MadeEntry(j)
    /\ \A i \in InUse(mem) : OldAndroid(mem.entries[i]) =>
          \E j \in 1 .. mk.k - 1 : i = index[PartList[j].name]

Layout ==
    pc \in {"mkpart", "write", "done"} /\ ~Wrapped =>
        /\ Fit(mem)
        /\ Reckoned
        /\ Spread
        /\ Progress
        /\ pc = "mkpart" => Room
        /\ pc \in {"write", "done"} =>
              /\ mk.k = Len(PartList) + 1
              /\ opts.dualboot =>
                    mem.entries[opts.esp_index].name = AndroidName("bootloader")

Written ==
    /\ pc = "done" => ondisk = mem
    /\ ondisk = orig \/ (ondisk = mem /\ (~Wrapped => IsSound(mem)))

LInv == Control /\ Scanned /\ Memory /\ Position /\ Layout /\ Written

\* A shifted counter of MiB has no more values than the counter.
LEMMA WordFacts == Word \in Nat \ {0} /\ MibWord \in Nat \ {0} /\ MibWord <= Word
  <1>1. MibWord \in Nat \ {0} /\ Word \in Nat /\ MibWord * SectorsPerMiB <= Word
    BY SizesAssumption
  <1>2. MibWord <= MibWord * SectorsPerMiB /\ MibWord * SectorsPerMiB \in Nat
    BY <1>1, MibOrder
  <1> QED BY <1>1, <1>2

\* Before the scan nothing is laid out.
LEMMA InitLInv == Init => LInv
  <1> SUFFICES ASSUME Init
               PROVE  LInv
    OBVIOUS
  <1>1. PICK d \in Disks : sectors = d.sectors /\ orig = d.table /\ ntfs = d.ntfs
    BY DEF Init
  <1>2. opts = [NoOpts EXCEPT !.dualboot = (mode = "default")]
    BY DEF Init
  <1>3. opts.dualboot \in BOOLEAN /\ opts.esp_index = 0 /\ opts.bootloader_len = BootloaderLen
    BY <1>2 DEF NoOpts
  <1>4. Control
    BY DEF Init, Control, Early, Reasons
  <1>5. Scanned
    BY <1>1, <1>3, DisksAssumption
    DEF Init, Scanned, Fit, Early, Laying, OldAndroid, AndroidName, NAME_MAGIC
  <1>6. Memory
    BY DEF Init, Memory, Editing, Laying
  <1>7. Position
    <2>1. mk = NoPlan
      BY DEF Init
    <2>2. NoPlan = [x \in PlanNames |-> NoPlan[x]] /\ NoPlan.k = 1
          /\ NoPlan.next_mb = 0 /\ NoPlan.ptn_mb = 0 /\ NoPlan.disk_mb = 0
      BY DEF NoPlan, PlanNames
    <2>3. 1 \in 1 .. Len(PartList) + 1
      BY PartListFacts
    <2> QED BY <2>1, <2>2, <2>3 DEF Position
  <1>8. Layout /\ Written
    BY DEF Init, Layout, Written
  <1> QED BY <1>4, <1>5, <1>6, <1>7, <1>8 DEF LInv

\* Every step leads to a stage of the plugin, and only die() sets a reason.
LEMMA ControlStep == Control /\ [Next]_vars => Control'
  <1> SUFFICES ASSUME Control, [Next]_vars
               PROVE  Control'
    OBVIOUS
  <1> USE DEF Control, Early, Laying, Reasons, Dies
  <1>1. CASE UNCHANGED vars
    BY <1>1 DEF vars
  <1>2. CASE Prepare
    BY <1>2 DEF Prepare
  <1>3. CASE CliDualBoot
    BY <1>3 DEF CliDualBoot
  <1>4. CASE CliWipe
    BY <1>4 DEF CliWipe
  <1>5. CASE ExecuteDualBoot \/ ExecuteWipe
    BY <1>5 DEF ExecuteDualBoot, ExecuteWipe
  <1>6. CASE ResizeNtfs
    BY <1>6 DEF ResizeNtfs
  <1>7. CASE DeleteAndroid \/ PlanSpace
    BY <1>7 DEF DeleteAndroid, PlanSpace
  <1>8. CASE MkPart
    BY <1>8 DEF MkPart
  <1>9. CASE FinishTable \/ WriteTable
    BY <1>9 DEF FinishTable, WriteTable
  <1> QED BY <1>1, <1>2, <1>3, <1>4, <1>5, <1>6, <1>7, <1>8, <1>9 DEF Next

\* What was found stays; the scan and the questions fill in the options.
LEMMA ScannedStep == IInv /\ LInv /\ [Next]_vars => Scanned'
  <1> SUFFICES ASSUME IInv, LInv, [Next]_vars
               PROVE  Scanned'
    OBVIOUS
  <1>0. Scanned /\ opts = [x \in OptNames |-> opts[x]]
    BY DEF LInv, IInv, Options
  <1>1. UNCHANGED <<orig, sectors>>
    BY DEF Next, vars, Prepare, CliDualBoot, CliWipe, ExecuteDualBoot, ExecuteWipe, ResizeNtfs,
           DeleteAndroid, PlanSpace, MkPart, FinishTable, WriteTable
  <1>2. CASE Prepare
    <2>1. pc = "prepare" /\ pc' \in {"cli", "execute"} /\ ondisk = orig
      BY <1>2 DEF Prepare, IInv, OnDisk
    <2>2. CASE ondisk = NoTable
      BY <1>0, <1>1, <1>2, <2>1, <2>2 DEF Prepare, Scanned, Fit, OldAndroid, Early, Laying
    <2>3. CASE ondisk # NoTable
      <3> DEFINE esp == check_for_ptn(orig, "esp")
      <3>1. /\ opts'.dualboot = opts.dualboot
            /\ opts'.bootloader_len = opts.bootloader_len
            /\ opts'.esp_index = esp
            /\ opts'.android_size = check_for_android(orig)
            /\ esp # 0 => opts'.esp_size = mib_align(gpt_entry_get_size(orig.entries[esp]))
        BY <1>0, <1>2, <2>1, <2>3 DEF Prepare, OptNames
      <3>2. IsTable(orig)
        BY <1>0, <2>1, <2>3 DEF Scanned, Fit, IsSound
      <3>3. esp # 0 => esp \in InUse(orig) /\ orig.entries[esp].type = "esp"
        BY <3>2, CheckForPtn
      <3> HIDE DEF esp
      <3> QED BY <1>0, <1>1, <2>1, <2>3, <3>1, <3>3 DEF Scanned, Fit, OldAndroid, Early, Laying
    <2> QED BY <2>2, <2>3
  <1>3. CASE CliDualBoot \/ CliWipe
    <2>1. /\ pc = "cli" /\ pc' \in {"execute", "dead"}
          /\ opts'.dualboot \in {opts.dualboot, TRUE}
          /\ opts'.bootloader_len = opts.bootloader_len
          /\ opts'.esp_index = opts.esp_index
          /\ opts'.esp_size = opts.esp_size
          /\ opts'.android_size = opts.android_size
      BY <1>0, <1>3 DEF CliDualBoot, CliWipe, Dies, OptNames
    <2> QED BY <1>0, <1>1, <2>1 DEF Scanned, Fit, OldAndroid, Early, Laying
  <1>4. CASE DeleteAndroid
    <2>1. /\ pc = "delete" /\ pc' = "space" /\ opts.dualboot
          /\ opts'.dualboot = opts.dualboot
          /\ opts'.bootloader_len = to_mib(opts.esp_size)
          /\ opts'.esp_index = opts.esp_index
          /\ opts'.esp_size = opts.esp_size
          /\ opts'.android_size = opts.android_size
      BY <1>0, <1>4 DEF DeleteAndroid, OptNames, IInv, Edited
    <2> QED BY <1>0, <1>1, <2>1 DEF Scanned, Fit, OldAndroid, Early, Laying
  <1>5. ASSUME UNCHANGED opts, pc # "prepare",
               \/ pc' = pc
               \/ pc' = "dead"
               \/ pc' \in {"resize", "delete"} /\ pc \in Early /\ (opts.dualboot => opts.esp_index # 0)
               \/ pc' = "space" /\ pc = "execute" /\ ~opts.dualboot
               \/ pc' \in Laying /\ pc \in Laying
        PROVE  Scanned'
    BY <1>0, <1>1, <1>5 DEF Scanned, Fit, OldAndroid, Early, Laying
  <1>6. CASE ExecuteDualBoot \/ ExecuteWipe \/ ResizeNtfs
    <2>1. opts.dualboot => pc' = "dead" \/ opts.esp_index # 0
      BY <1>0, <1>6 DEF ExecuteDualBoot, ExecuteWipe, ResizeNtfs, Scanned, Dies
    <2> QED BY <1>5, <1>6, <2>1 DEF ExecuteDualBoot, ExecuteWipe, ResizeNtfs, Early, Dies
  <1>7. CASE PlanSpace \/ MkPart \/ FinishTable \/ WriteTable
    BY <1>5, <1>7 DEF PlanSpace, MkPart, FinishTable, WriteTable, Laying, Dies
  <1>8. CASE UNCHANGED vars
    BY <1>0, <1>8 DEF vars, Scanned, Fit, OldAndroid
  <1> QED BY <1>2, <1>3, <1>4, <1>6, <1>7, <1>8 DEF Next

\* A LBA of the disk is far from the end of the word that holds it.
LEMMA FitInWord ==
    ASSUME Scanned, NEW t, Fit(t), NEW i \in InUse(t)
    PROVE  /\ t.entries[i].first_lba \in 1 .. Word /\ t.entries[i].last_lba \in 0 .. Word
           /\ gpt_entry_get_size(t.entries[i]) \in Nat \ {0}
  <1>1. /\ t.entries[i].first_lba \in Nat /\ t.entries[i].first_lba # 0
        /\ t.entries[i].last_lba \in Nat
        /\ t.entries[i].first_lba <= t.entries[i].last_lba
        /\ t.entries[i].last_lba <= t.last_usable_lba
        /\ t.last_usable_lba \in Int /\ t.last_usable_lba < sectors
    BY DEF Fit, IsSound, IsTable, InRange, InUse
  <1>2. sectors \in Nat /\ sectors < MibWord /\ MibWord \in Nat /\ Word \in Nat
        /\ MibWord * SectorsPerMiB <= Word
    BY SizesAssumption DEF Scanned
  <1>3. MibWord <= MibWord * SectorsPerMiB /\ MibWord * SectorsPerMiB \in Nat
    BY <1>2, MibOrder
  <1> QED BY <1>1, <1>2, <1>3 DEF gpt_entry_get_size

\* No size, no Android: check_for_android adds up what is there.
LEMMA NoAndroid ==
    ASSUME Scanned, orig # NoTable, check_for_android(orig) = 0
    PROVE  AndroidEntries(orig) = {}
  <1> DEFINE n == num_pentries(orig)
             v == [i \in DOMAIN orig.entries |->
                     IF i \in AndroidEntries(orig) THEN gpt_entry_get_size(orig.entries[i]) ELSE 0]
  <1>1. Fit(orig) /\ n \in Nat /\ DOMAIN orig.entries = 1 .. n
    BY DEF Scanned, Fit, IsSound, IsTable, IsShape
  <1>2. AndroidEntries(orig) \subseteq InUse(orig) /\ InUse(orig) \subseteq 1 .. n
    BY <1>1 DEF AndroidEntries, InUse
  <1>3. \A i \in AndroidEntries(orig) : gpt_entry_get_size(orig.entries[i]) \in Nat \ {0}
    BY <1>1, <1>2, FitInWord
  <1>4. check_for_android(orig) = RunningSums(v)[Len(v)]
    BY DEF check_for_android
  <1> HIDE DEF n
  <1>5. v \in [1 .. n -> Nat]
    BY <1>1, <1>3
  <1>6. \A i \in AndroidEntries(orig) : v[i] \in Nat \ {0}
    BY <1>1, <1>2, <1>3
  <1> HIDE DEF v
  <1>7. Len(v) = n
    BY <1>1, <1>5
  <1>8. \A i \in 1 .. n : v[i] <= RunningSums(v)[n]
    BY <1>1, <1>5, SumsGrow
  <1> QED BY <1>2, <1>4, <1>6, <1>7, <1>8

\* The bootloaders of a dual boot are as long as the ESP, in whole MiB.
LEMMA SettledIn ==
    ASSUME Scanned, pc \in Laying
    PROVE  Settled
  <1>1. CASE opts.dualboot
    <2> DEFINE size == gpt_entry_get_size(orig.entries[opts.esp_index])
    <2>1. /\ opts.esp_index \in InUse(orig) /\ Fit(orig)
          /\ opts.esp_size = mib_align(size)
          /\ opts.bootloader_len = to_mib(opts.esp_size)
      BY <1>1 DEF Scanned
    <2>2. size \in Nat \ {0}
      BY <2>1, FitInWord
    <2> HIDE DEF size
    <2>3. to_mib(size) \in Nat \ {0} /\ opts.esp_size = to_mib(size) * SectorsPerMiB
      BY <2>1, <2>2, ToMib DEF mib_align
    <2>4. opts.bootloader_len = to_mib(size)
      BY <2>1, <2>3, ToMibExact
    <2> QED BY <1>1, <2>3, <2>4 DEF Settled, Scanned
  <1>2. CASE ~opts.dualboot
    BY <1>2, SizesAssumption DEF Settled, Scanned
  <1> QED BY <1>1, <1>2

\* The length of a partition is a number, whatever was miscounted.
LEMMA PartMbInt ==
    ASSUME LInv, pc = "mkpart", mk.k \in 1 .. Len(PartList)
    PROVE  PartMb(PartList[mk.k]) \in Int
  <1>1. opts.bootloader_len \in Int
    BY SettledIn DEF LInv, Laying, Settled
  <1>2. mk.ptn_mb \in Int /\ mk.disk_mb \in Int
    BY DEF LInv, Position
  <1>3. ((mk.disk_mb - mk.ptn_mb) % Word) \in Int
    BY <1>2, WordFacts
  <1>4. PartList[mk.k].len \in Int
    BY PartListFacts
  <1> QED BY <1>1, <1>3, <1>4 DEF PartMb

\* The next partition of the list, when there was room: where mkpart_cb puts it, and that no
\* counter wraps on the way.
LEMMA NextPart ==
    ASSUME LInv, pc = "mkpart", ~Wrapped, mk.k <= Len(PartList)
    PROVE  LET p  == PartList[mk.k]
               mb == Planned[mk.k]
           IN  /\ mk.k \in 1 .. Len(PartList)
               /\ mk.next_mb \in Nat \ {0} /\ mb \in Nat
               /\ mk.start_mb <= mk.next_mb
               /\ mk.next_mb + mb <= mk.end_mb
               /\ mk.next_mb + mb = mk.start_mb + RunningSums(Planned)[mk.k]
               /\ (mk.next_mb + mb) % Word = mk.next_mb + mb
               /\ mib_to_lba(mk.next_mb) = mk.next_mb * SectorsPerMiB
               /\ (mib_to_lba(mk.next_mb + mb) - 1) % Word = (mk.next_mb + mb) * SectorsPerMiB - 1
               /\ SkipsBootloader(p) => mb = 0
               /\ ~SkipsBootloader(p) => mb # 0 /\ PartMb(p) = mb
  <1> DEFINE n  == Len(PartList)
             k  == mk.k
             mb == Planned[mk.k]
             r  == RunningSums(Planned)
  <1>1. n \in Nat /\ k \in 1 .. n /\ k - 1 \in 0 .. n /\ k \in 0 .. n /\ n \in 0 .. n
    BY PartListFacts DEF LInv, Position
  <1>2. /\ mk.start_mb \in Nat \ {0} /\ mk.end_mb \in Nat
        /\ mk.end_mb < MibWord
        /\ mk.disk_mb = mk.end_mb - mk.start_mb
        /\ mk.next_mb = mk.start_mb + r[k - 1]
        /\ Reckoned
    BY DEF LInv, Layout, Spread, Progress
  <1>3. Settled
    BY SettledIn DEF LInv, Laying
  <1>4. /\ Planned \in [1 .. n -> Nat]
        /\ r[n] <= mk.disk_mb
        /\ SkipsBootloader(PartList[k]) => mb = 0
        /\ ~SkipsBootloader(PartList[k]) => mb # 0 /\ PartMb(PartList[k]) = mb
    <2>1. DOMAIN PartList = 1 .. n
      BY PartListFacts
    <2> QED BY <1>1, <1>2, <1>3, <2>1, PlannedFits DEF Planned
  <1>5. r \in [0 .. n -> Nat] /\ r[k] <= r[n]
    BY <1>1, <1>4, SumsGrow
  <1>6. Planned \in [1 .. n -> Int]
    BY <1>4
  <1>7. r[k] = r[k - 1] + mb
    BY <1>1, <1>6, SumsStep
  <1>8. mb \in Nat /\ r[k - 1] \in Nat /\ r[k] \in Nat /\ r[n] \in Nat
    BY <1>1, <1>4, <1>5
  <1> HIDE DEF mb, r, k, n
  <1>9. /\ mk.next_mb \in Nat \ {0} /\ mk.start_mb <= mk.next_mb
        /\ mk.next_mb + mb \in Nat \ {0}
        /\ mk.next_mb + mb = mk.start_mb + r[k]
        /\ mk.next_mb + mb <= mk.end_mb
        /\ mk.next_mb < MibWord /\ mk.next_mb + mb < MibWord
    <2>1. MibWord \in Nat
      BY SizesAssumption
    <2>2. mk.next_mb = mk.start_mb + r[k - 1] /\ mk.next_mb + mb = mk.start_mb + r[k]
      BY <1>2, <1>7, <1>8
    <2>3. r[k] <= mk.end_mb - mk.start_mb
      BY <1>2, <1>4, <1>5, <1>8
    <2> QED BY <1>2, <1>8, <2>1, <2>2, <2>3
  <1> DEFINE top == mk.next_mb + mb
  <1>10. /\ mib_to_lba(mk.next_mb) = mk.next_mb * SectorsPerMiB
         /\ mib_to_lba(top) = top * SectorsPerMiB
         /\ top * SectorsPerMiB <= Word
    BY <1>9, MibToLba
  <1>11. top \in Nat \ {0} /\ top <= top * SectorsPerMiB /\ top * SectorsPerMiB \in Nat
    BY <1>9, MibOrder
  <1>12. Word \in Nat \ {0}
    BY WordFacts
  <1>13. MibWord \in Nat /\ MibWord <= Word
    BY WordFacts
  <1>14. top % Word = top
    BY <1>9, <1>11, <1>12, <1>13
  <1> DEFINE last == top * SectorsPerMiB - 1
  <1>15. last \in Nat /\ last < Word
    BY <1>10, <1>11, <1>12
  <1> HIDE DEF last
  <1>16. last % Word = last
    BY <1>12, <1>15
  <1> QED BY <1>1, <1>4, <1>8, <1>9, <1>10, <1>14, <1>16 DEF mb, r, k, n, last

\* Steps that leave the table, the indices and the position alone.
LEMMA MemoryKept ==
    ASSUME Memory, UNCHANGED <<index, mem, mk, sectors, orig>>,
           \/ pc' \in {pc, "dead"} /\ UNCHANGED opts
           \/ pc \in Early /\ pc' \in {"cli", "execute", "dead"}
           \/ pc = "write" /\ pc' = "done" /\ UNCHANGED opts
    PROVE  Memory'
  BY DEF Memory, Sane, Indexed, Wrapped, Fit, Early, Laying, Editing, OldAndroid

\* The table is read, or made.
LEMMA ExecuteMemory ==
    ASSUME IInv, LInv, ExecuteDualBoot \/ ExecuteWipe
    PROVE  Memory'
  <1>1. /\ pc = "execute" /\ UNCHANGED <<index, mk, sectors, orig, opts>> /\ ondisk = orig
        /\ Memory /\ Scanned
    BY DEF ExecuteDualBoot, ExecuteWipe, IInv, OnDisk, LInv
  <1>2. index' \in [PartNames -> Nat] /\ \A p \in PartNames : index'[p] = 0
    BY <1>1 DEF Memory, Early
  <1>3. CASE UNCHANGED mem /\ pc' = "dead"
    BY <1>1, <1>3, MemoryKept
  <1>4. CASE ExecuteDualBoot /\ mem' = ondisk /\ opts.esp_index # 0 /\ pc' \in {"resize", "delete"}
    <2>1. orig # NoTable /\ Fit(orig) /\ mem' = orig
      BY <1>1, <1>4 DEF Scanned
    <2>2. Fit(mem)'
      BY <1>1, <2>1 DEF Fit
    <2>3. ASSUME NEW i \in DOMAIN orig.entries
          PROVE  /\ orig.entries[i].first_lba \in 0 .. Word
                 /\ orig.entries[i].last_lba \in 0 .. Word
      <3>1. orig.entries[i].first_lba \in Nat /\ orig.entries[i].last_lba \in Nat
            /\ orig.entries[i].last_lba <= Word /\ Word \in Nat
        BY <1>1, <2>1, SizesAssumption DEF Scanned, Fit, IsSound, IsTable
      <3>2. CASE i \in InUse(orig)
        BY <1>1, <2>1, <3>1, <3>2, FitInWord
      <3>3. CASE i \notin InUse(orig)
        BY <3>1, <3>3 DEF InUse
      <3> QED BY <3>1, <3>2, <3>3
    <2>4. IsShape(orig)
      BY <2>1 DEF Fit, IsSound, IsTable
    <2>5. Sane'
      BY <1>2, <2>1, <2>3, <2>4 DEF Sane
    <2>6. pc' \notin Laying /\ pc' # "space"
      BY <1>4 DEF Laying
    <2>7. (pc = "delete" => InUse(mem) \subseteq InUse(orig))'
      BY <1>1, <2>1
    <2> QED BY <1>2, <2>2, <2>5, <2>6, <2>7 DEF Memory
  <1>5. CASE ExecuteWipe /\ mem' = gpt_new(sectors, TableSectors, NewEntries) /\ pc' = "space"
    <2>1. /\ ~opts'.dualboot /\ pc' = "space"
          /\ mem' = gpt_new(sectors, TableSectors, NewEntries)
          /\ sectors \in Nat /\ TableSectors \in Nat /\ NewEntries \in Nat
      BY <1>1, <1>5, SizesAssumption DEF ExecuteWipe, Scanned
    <2>2. /\ IsSound(mem') /\ InUse(mem') = {} /\ mem'.last_usable_lba < sectors
          /\ \A i \in DOMAIN mem'.entries :
                mem'.entries[i].first_lba = 0 /\ mem'.entries[i].last_lba = 0
      BY <2>1, NewIsSound
    <2>3. Fit(mem)'
      BY <1>1, <2>2 DEF Fit
    <2>4. 0 \in 0 .. Word
      BY SizesAssumption
    <2>5. Sane'
      BY <1>2, <2>2, <2>4 DEF Sane, IsSound, IsTable
    <2>6. pc' \notin Early /\ pc' # "delete" /\ pc' \in Editing
      BY <2>1 DEF Early, Editing
    <2>7. ~(pc \in Laying /\ opts.dualboot)'
      BY <2>1
    <2>8. (pc = "space" => \A i \in InUse(mem) : ~OldAndroid(mem.entries[i]))'
      BY <2>2
    <2> QED BY <1>2, <2>3, <2>5, <2>6, <2>7, <2>8 DEF Memory
  <1> QED BY <1>3, <1>4, <1>5 DEF ExecuteDualBoot, ExecuteWipe, Dies

\* The entry of Windows gets shorter, and keeps at least one sector.
LEMMA ResizeMemory ==
    ASSUME IInv, LInv, ResizeNtfs
    PROVE  Memory'
  <1> DEFINE new == opts.windows_resize
             n   == opts.msdata_index
             last == ShrunkLast(mem.entries[n].first_lba, new)
  <1>1. /\ pc = "resize" /\ mem = orig /\ orig # NoTable /\ ondisk = orig
        /\ UNCHANGED <<index, mk, sectors, orig, opts>> /\ Memory /\ Scanned
    BY DEF ResizeNtfs, IInv, OnDisk, Edited, LInv
  <1>2. new \in Nat \ {0} /\ n \in InUse(orig)
    BY <1>1 DEF IInv, Options, Edited, Found
  <1>3. CASE UNCHANGED mem /\ pc' = "dead"
    BY <1>1, <1>3, MemoryKept
  <1>4. CASE /\ new <= gpt_entry_get_size(orig.entries[n])
             /\ mem' = [mem EXCEPT !.entries[n].last_lba = last]
             /\ pc' = "delete"
    <2>1. Fit(orig) /\ IsSound(orig) /\ IsShape(orig) /\ n \in DOMAIN orig.entries
          /\ orig.entries[n].first_lba \in Nat \ {0} /\ orig.entries[n].last_lba \in Nat
          /\ orig.entries[n].last_lba \in 0 .. Word
      <3>1. Fit(orig)
        BY <1>1 DEF Scanned
      <3> QED BY <1>1, <1>2, <3>1, FitInWord DEF Fit, IsSound, IsTable, InUse
    <2>2. /\ last \in Nat /\ orig.entries[n].first_lba <= last
          /\ last <= orig.entries[n].last_lba
      <3>1. last = orig.entries[n].first_lba + new - 1
        BY <1>1 DEF ShrunkLast
      <3>2. new <= gpt_entry_get_size(orig.entries[n])
        BY <1>4
      <3>3. gpt_entry_get_size(orig.entries[n])
              = (orig.entries[n].last_lba + 1) - orig.entries[n].first_lba
        BY DEF gpt_entry_get_size
      <3> HIDE DEF last, new
      <3> QED BY <1>2, <2>1, <3>1, <3>2, <3>3
    <2>3. mem' = WithLast(orig, n, last)
      BY <1>1, <1>4 DEF WithLast
    <2> HIDE DEF last
    <2>4. /\ SameFrame(mem', orig)
          /\ mem'.entries[n].last_lba = last
          /\ \A i \in DOMAIN orig.entries :
                  /\ mem'.entries[i].first_lba = orig.entries[i].first_lba
                  /\ i # n => mem'.entries[i].last_lba = orig.entries[i].last_lba
      BY <2>1, <2>3, LastSet
    <2>5. InUse(mem') = InUse(orig)
      BY <2>4 DEF InUse, SameFrame
    <2>6. \A i \in DOMAIN orig.entries :
              mem'.entries[i].first_lba \in Nat /\ mem'.entries[i].last_lba \in Nat
      BY <2>1, <2>2, <2>4 DEF IsSound, IsTable
    <2>7. ASSUME NEW i \in InUse(mem')
          PROVE  /\ i \in InUse(orig)
                 /\ mem'.entries[i].first_lba = orig.entries[i].first_lba
                 /\ mem'.entries[i].first_lba <= mem'.entries[i].last_lba
                 /\ mem'.entries[i].last_lba <= orig.entries[i].last_lba
      <3>1. i \in InUse(orig) /\ i \in DOMAIN orig.entries
            /\ orig.entries[i].first_lba <= orig.entries[i].last_lba
            /\ orig.entries[i].last_lba \in Nat
        BY <2>1, <2>5 DEF InUse, IsSound, InRange, IsTable
      <3>2. CASE i = n
        BY <2>2, <2>4, <3>1, <3>2
      <3>3. CASE i # n
        BY <2>4, <3>1, <3>3
      <3> QED BY <3>2, <3>3
    <2>8. IsSound(mem')
      BY <2>1, <2>4, <2>6, <2>7, Thinned
    <2>9. Fit(mem)'
      BY <1>1, <2>1, <2>4, <2>8 DEF Fit, SameFrame
    <2>10. Sane'
      <3>1. \A p \in PartNames : index'[p] = 0
        BY <1>1 DEF Memory, Early
      <3>2. ASSUME NEW i \in DOMAIN orig.entries
            PROVE  /\ mem'.entries[i].first_lba \in 0 .. Word
                   /\ mem'.entries[i].last_lba \in 0 .. Word
        <4>1. orig.entries[i].first_lba \in 0 .. Word /\ orig.entries[i].last_lba \in 0 .. Word
          BY <1>1 DEF Memory, Sane, Editing
        <4>2. CASE i = n
          <5>1. last \in 0 .. Word
            BY <2>1, <2>2, SizesAssumption
          <5> QED BY <2>4, <4>1, <4>2, <5>1
        <4>3. CASE i # n
          BY <2>4, <4>1, <4>3
        <4> QED BY <4>2, <4>3
      <3> QED BY <2>4, <3>1, <3>2 DEF Sane, SameFrame
    <2> QED BY <1>1, <1>4, <2>5, <2>9, <2>10 DEF Memory, Early, Laying, Editing
  <1> QED BY <1>1, <1>3, <1>4 DEF ResizeNtfs, Dies

\* Nothing with a name of Android's is left, and the ESP is at the index recorded for it.
LEMMA DeleteMemory ==
    ASSUME IInv, IInv', LInv, DeleteAndroid
    PROVE  Memory'
  <1> DEFINE esp == opts.esp_index
  <1>1. /\ pc = "delete" /\ pc' = "space" /\ opts.dualboot /\ orig # NoTable
        /\ UNCHANGED <<mk, sectors, orig>> /\ Memory /\ Scanned
        /\ Fit(mem) /\ Sane /\ InUse(mem) \subseteq InUse(orig)
        /\ \A i \in InUse(orig) : mem.entries[i].name = orig.entries[i].name
    BY DEF DeleteAndroid, IInv, Edited, LInv, Memory, Editing
  <1>2. opts'.esp_index = esp /\ opts'.dualboot = opts.dualboot
    BY DEF DeleteAndroid, IInv, Options, OptNames
  <1>3. esp # 0 /\ esp \in InUse(orig) /\ ~OldAndroid(orig.entries[esp])
        /\ opts.android_size = check_for_android(orig)
    BY <1>1 DEF Scanned
  <1>4. index' = [index EXCEPT !["bootloader"] = esp] /\ index \in [PartNames -> Nat]
        /\ \A p \in PartNames : index[p] = 0
    BY <1>1 DEF DeleteAndroid, Memory, Early
  <1>5. esp \in Nat
    BY <1>1, <1>3 DEF Scanned, Fit, IsSound, IsTable, IsShape, InUse
  <1>6. /\ index' \in [PartNames -> Nat] /\ index'["bootloader"] = esp
        /\ \A p \in PartNames : index'[p] # 0 => index'[p] = esp
    BY <1>4, <1>5, PartListFacts
  <1>7. KeptEntry(mem, esp)'
    BY <1>1, <1>2, <1>3 DEF IInv, Edited, Kept, OldAndroid
  <1>8. esp \in InUse(mem')
    <2>1. orig.entries[esp].first_lba # 0
      BY <1>3 DEF InUse
    <2>2. esp \in DOMAIN mem'.entries /\ mem'.entries[esp].first_lba = orig.entries[esp].first_lba
      BY <1>1, <1>2, <1>7 DEF KeptEntry
    <2> QED BY <2>1, <2>2 DEF InUse
  <1>9. /\ SameFrame(mem', mem)
        /\ \A i \in DOMAIN mem.entries :
              \/ mem'.entries[i] = mem.entries[i]
              \/ mem'.entries[i].first_lba = 0 /\ mem'.entries[i].last_lba = 0
    <2>1. IsShape(mem)
      BY <1>1 DEF Sane
    <2>2. CASE mem' = mem
      BY <2>1, <2>2 DEF SameFrame
    <2>3. CASE mem' = delete_android(mem)
      <3>1. /\ SameFrame(mem', mem)
            /\ \A i \in DOMAIN mem.entries :
                  mem'.entries[i] = mem.entries[i] \/ mem'.entries[i] = ZeroEntry
        BY <2>1, <2>3, Deleted DEF delete_android
      <3>2. ZeroEntry.first_lba = 0 /\ ZeroEntry.last_lba = 0
        BY DEF ZeroEntry
      <3> QED BY <3>1, <3>2
    <2> QED BY <2>2, <2>3 DEF DeleteAndroid
  <1>10. \A i \in InUse(mem') : i \in InUse(mem) /\ mem'.entries[i] = mem.entries[i]
    BY <1>9 DEF InUse, SameFrame
  <1>11. Fit(mem)'
    <2>1. \A i \in DOMAIN mem.entries :
             mem'.entries[i].first_lba \in Nat /\ mem'.entries[i].last_lba \in Nat
      <3>1. \A i \in DOMAIN mem.entries :
               mem.entries[i].first_lba \in Nat /\ mem.entries[i].last_lba \in Nat
        BY <1>1 DEF Fit, IsSound, IsTable
      <3> QED BY <1>9, <3>1
    <2>2. IsSound(mem)
      BY <1>1 DEF Fit
    <2>3. \A i \in InUse(mem') :
             /\ mem.entries[i].first_lba <= mem.entries[i].last_lba
             /\ mem.entries[i].last_lba <= mem.entries[i].last_lba
      BY <1>10, <2>2 DEF IsSound, InRange, IsTable, InUse
    <2>4. IsSound(mem')
      BY <1>9, <1>10, <2>1, <2>2, <2>3, Thinned
    <2> QED BY <1>1, <1>9, <2>4 DEF Fit, SameFrame
  <1>12. \A i \in InUse(mem') : ~OldAndroid(mem'.entries[i])
    <2> SUFFICES ASSUME NEW i \in InUse(mem'), OldAndroid(mem'.entries[i])
                 PROVE  FALSE
      OBVIOUS
    <2>1. i \in InUse(mem) /\ mem'.entries[i] = mem.entries[i] /\ i \in InUse(orig)
          /\ mem.entries[i].name = orig.entries[i].name
      BY <1>1, <1>10
    <2>2. i \in AndroidEntries(mem) /\ i \in AndroidEntries(orig)
      BY <2>1 DEF AndroidEntries, IsAndroid, OldAndroid
    <2>3. CASE opts.android_size = 0
      BY <1>1, <1>3, <2>2, <2>3, NoAndroid
    <2>4. CASE mem' = delete_android(mem)
      <3>1. IsShape(mem) /\ i \in DOMAIN mem.entries
        BY <1>1, <2>1 DEF Sane, InUse
      <3>2. mem'.entries[i] = ZeroEntry
        BY <2>2, <2>4, <3>1, Deleted DEF delete_android
      <3>3. ZeroEntry.first_lba = 0
        BY DEF ZeroEntry
      <3> QED BY <3>2, <3>3 DEF InUse
    <2> QED BY <2>3, <2>4 DEF DeleteAndroid
  <1>13. Sane'
    <2>1. IsShape(mem') /\ \A p \in PartNames : index'[p] # 0 => Indexed(index[p])'
      BY <1>6, <1>8, <1>9 DEF SameFrame, Indexed, InUse
    <2>2. ASSUME NEW i \in DOMAIN mem'.entries
          PROVE  mem'.entries[i].first_lba \in 0 .. Word /\ mem'.entries[i].last_lba \in 0 .. Word
      <3>1. /\ mem.entries[i].first_lba \in 0 .. Word /\ mem.entries[i].last_lba \in 0 .. Word
            /\ 0 \in 0 .. Word /\ i \in DOMAIN mem.entries
        BY <1>1, <1>9, SizesAssumption DEF Sane, SameFrame
      <3> QED BY <1>9, <3>1
    <2> QED BY <2>1, <2>2 DEF Sane
  <1>14. pc' \notin Early /\ pc' # "delete"
    BY <1>1 DEF Early
  <1> QED BY <1>1, <1>2, <1>6, <1>11, <1>12, <1>13, <1>14 DEF Memory, OldAndroid

\* The position is set where the space is planned, and goes forward one partition at a time.
LEMMA PositionStep == LInv /\ [Next]_vars => Position'
  <1> SUFFICES ASSUME LInv, [Next]_vars
               PROVE  Position'
    OBVIOUS
  <1>1. Position /\ Control
    BY DEF LInv
  <1>2. CASE UNCHANGED mk /\ (pc' \in Early \cup {"space"} => pc \in Early)
    BY <1>1, <1>2 DEF Position
  <1>3. CASE PlanSpace
    <2>1. CASE UNCHANGED mk /\ pc' = "dead"
      BY <1>2, <2>1 DEF Early
    <2>2. ASSUME NEW a \in Int, NEW b, NEW c \in Int, NEW d \in Int, pc' = "mkpart",
                 mk' = [k |-> 1, start_mb |-> a, end_mb |-> b, next_mb |-> a, ptn_mb |-> c,
                        disk_mb |-> d]
          PROVE  Position'
      <3>1. /\ mk' = [x \in PlanNames |-> mk'[x]] /\ mk'.k = 1
            /\ mk'.next_mb = a /\ mk'.ptn_mb = c /\ mk'.disk_mb = d
        BY <2>2 DEF PlanNames
      <3>2. 1 \in 1 .. Len(PartList) + 1
        BY PartListFacts
      <3> QED BY <2>2, <3>1, <3>2 DEF Position, Early
    <2> DEFINE gap == gpt_find_contiguous_free_space(mem)
    <2>3. gap.start \in Nat /\ gap.end \in Int
      <3>1. IsSound(mem)
        BY <1>3 DEF LInv, Memory, Fit, PlanSpace
      <3> QED BY <3>1, FreeSpaceFound
    <2>4. /\ to_mib(gap.start) \in Int
          /\ ((to_mib_floor(gap.end + 1) - to_mib(gap.start)) % Word) \in Int
      <3>1. to_mib(gap.start) \in Int /\ to_mib_floor(gap.end + 1) \in Int
        BY <2>3, ToMib, ToMibFloor
      <3> QED BY <3>1, WordFacts
    <2>5. SpaceNeededMb \in Int
      BY <1>3, SettledIn, NeededMb DEF LInv, PlanSpace, Laying
    <2> QED BY <1>3, <2>1, <2>2, <2>4, <2>5 DEF PlanSpace, Dies
  <1>4. CASE MkPart
    <2>1. mk.k \in 1 .. Len(PartList) /\ mk.k + 1 \in 1 .. Len(PartList) + 1
      BY <1>1, <1>4, PartListFacts DEF MkPart, Position
    <2>2. CASE UNCHANGED mk /\ pc' = "dead"
      BY <1>2, <2>2 DEF Early
    <2>3. CASE mk' = [mk EXCEPT !.k = mk.k + 1] /\ UNCHANGED pc
      <3>1. /\ mk' = [x \in PlanNames |-> mk'[x]] /\ mk'.k = mk.k + 1
            /\ mk'.next_mb = mk.next_mb /\ mk'.ptn_mb = mk.ptn_mb /\ mk'.disk_mb = mk.disk_mb
        BY <1>1, <2>3 DEF Position, PlanNames
      <3> QED BY <1>1, <1>4, <2>1, <2>3, <3>1 DEF Position, MkPart, Early
    <2>4. ASSUME NEW b \in Int, UNCHANGED pc,
                 mk' = [mk EXCEPT !.k = mk.k + 1, !.next_mb = b]
          PROVE  Position'
      <3>1. /\ mk' = [x \in PlanNames |-> mk'[x]] /\ mk'.k = mk.k + 1
            /\ mk'.next_mb = b /\ mk'.ptn_mb = mk.ptn_mb /\ mk'.disk_mb = mk.disk_mb
        BY <1>1, <2>4 DEF Position, PlanNames
      <3> QED BY <1>1, <1>4, <2>1, <2>4, <3>1 DEF Position, MkPart, Early
    <2>5. ((mk.next_mb + PartMb(PartList[mk.k])) % Word) \in Int
      <3>1. PartMb(PartList[mk.k]) \in Int
        BY <1>4, <2>1, PartMbInt DEF MkPart
      <3> QED BY <1>1, <3>1, WordFacts DEF Position
    <2> QED BY <1>4, <2>2, <2>3, <2>4, <2>5 DEF MkPart, Dies
  <1>5. CASE Prepare \/ CliDualBoot \/ CliWipe \/ ExecuteDualBoot \/ ExecuteWipe \/ ResizeNtfs
    BY <1>2, <1>5 DEF Prepare, CliDualBoot, CliWipe, ExecuteDualBoot, ExecuteWipe, ResizeNtfs,
       Early, Dies
  <1>6. CASE DeleteAndroid \/ FinishTable \/ WriteTable
    BY <1>2, <1>6 DEF DeleteAndroid, FinishTable, WriteTable, Early, Dies
  <1>7. CASE UNCHANGED vars
    BY <1>1, <1>7 DEF Position, vars
  <1> QED BY <1>3, <1>4, <1>5, <1>6, <1>7 DEF Next

\* create_android_partitions finds room: from here on the loop has its region.
LEMMA PlanLayout ==
    ASSUME IInv, LInv, PlanSpace
    PROVE  Memory' /\ Layout'
  <1> DEFINE gap       == gpt_find_contiguous_free_space(mem)
             start_mb  == to_mib(gap.start)
             end_mb    == to_mib_floor(gap.end + 1)
             available == (end_mb - start_mb) % Word
  <1>1. /\ pc = "space" /\ UNCHANGED <<index, mem, sectors, orig, opts>> /\ Memory /\ Scanned
        /\ Fit(mem) /\ Sane /\ mk = NoPlan /\ ~Wrapped
        /\ \A i \in InUse(mem) : ~OldAndroid(mem.entries[i])
    BY DEF PlanSpace, LInv, Memory, Editing, Position, Wrapped, NoPlan
  <1>2. CASE UNCHANGED mk /\ pc' = "dead"
    BY <1>1, <1>2, MemoryKept DEF Layout
  <1>3. CASE /\ gap.size # 0 /\ available >= SpaceNeededMb + MIN_DATA_PART_SIZE
             /\ mk' = [k |-> 1, start_mb |-> start_mb, end_mb |-> end_mb, next_mb |-> start_mb,
                       ptn_mb |-> SpaceNeededMb, disk_mb |-> available]
             /\ pc' = "mkpart"
    <2>1. /\ mk'.k = 1 /\ mk'.start_mb = start_mb /\ mk'.end_mb = end_mb
          /\ mk'.next_mb = start_mb /\ mk'.ptn_mb = SpaceNeededMb /\ mk'.disk_mb = available
      BY <1>3
    <2>2. /\ gap.start \in Nat /\ gap.end \in Int /\ gap.size \in Nat \ {0}
          /\ gap.size = (gap.end + 1) - gap.start
          /\ mem.first_usable_lba <= gap.start
          /\ gap.end <= mem.last_usable_lba
          /\ \A i \in InUse(mem) : mem.entries[i].last_lba < gap.start
                                   \/ gap.end < mem.entries[i].first_lba
      <3>1. IsSound(mem)
        BY <1>1 DEF Fit
      <3> QED BY <1>3, <3>1, FreeSpaceFound
    <2>3. /\ mem.first_usable_lba \in Nat \ {0} /\ mem.last_usable_lba \in Int
          /\ mem.last_usable_lba < sectors /\ sectors \in Nat /\ sectors < MibWord
          /\ \A i \in InUse(mem) : mem.entries[i].last_lba \in Nat /\ mem.entries[i].first_lba \in Nat
      BY <1>1 DEF Fit, IsSound, IsTable, InUse, Scanned
    <2> HIDE DEF gap
    <2>4. gap.start \in Nat \ {0} /\ gap.end + 1 \in Nat
      BY <2>2, <2>3
    <2>5. /\ start_mb \in Nat \ {0} /\ gap.start <= start_mb * SectorsPerMiB
          /\ end_mb \in Nat /\ end_mb <= gap.end + 1
          /\ end_mb * SectorsPerMiB <= gap.end + 1
      BY <2>4, ToMib, ToMibFloor
    <2> HIDE DEF start_mb, end_mb
    <2>6. start_mb * SectorsPerMiB \in Nat /\ end_mb * SectorsPerMiB \in Nat
      BY <2>5, MibOrder
    <2>7. Memory'
      <3>1. Sane'
        BY <1>1 DEF Sane, Indexed, InUse
      <3>2. pc' \notin Early /\ pc' \notin {"resize", "delete", "space"}
        BY <1>3 DEF Early
      <3> QED BY <1>1, <3>1, <3>2 DEF Memory, Laying
    <2>8. ASSUME ~Wrapped'
          PROVE  /\ Fit(mem)' /\ Reckoned' /\ Spread' /\ Progress' /\ Room'
      <3>1. start_mb <= end_mb
        BY <2>1, <2>5, <2>8 DEF Wrapped
      <3>2. MibWord \in Nat /\ Word \in Nat \ {0} /\ MibWord <= Word
        BY WordFacts
      <3>3. end_mb < MibWord
        BY <2>2, <2>3, <2>5, <3>2
      <3>4. end_mb - start_mb \in Nat /\ end_mb - start_mb < Word
        BY <2>5, <3>1, <3>2, <3>3
      <3>5. available = end_mb - start_mb
        BY <3>2, <3>4
      <3> HIDE DEF available
      <3>6. Fit(mem)'
        BY <1>1 DEF Fit
      <3>7. Reckoned'
        <4>1. SpaceNeededMb' = SpaceNeededMb
          BY <1>1 DEF SpaceNeededMb
        <4>2. SpaceNeededMb \in Nat /\ MIN_DATA_PART_SIZE \in Nat
          BY <1>1, SettledIn, NeededMb, SizesAssumption DEF Laying
        <4> QED BY <1>3, <2>1, <3>4, <3>5, <4>1, <4>2 DEF Reckoned
      <3>8. Spread'
        <4>1. /\ mem.first_usable_lba <= start_mb * SectorsPerMiB
              /\ end_mb * SectorsPerMiB <= mem.last_usable_lba + 1
          BY <2>2, <2>3, <2>5, <2>6
        <4> QED BY <1>1, <2>1, <2>5, <3>1, <3>3, <3>5, <4>1 DEF Spread
      <3>9. Progress'
        <4>1. DOMAIN PartList = 1 .. Len(PartList) /\ Len(PartList) \in Nat
          BY PartListFacts
        <4>2. Planned' \in [1 .. Len(PartList) -> Int]
          <5>1. opts.bootloader_len \in Int
            BY <1>1, SettledIn DEF Laying, Settled
          <5>2. ((mk'.disk_mb - mk'.ptn_mb) % Word) \in Int
            <6>1. mk'.disk_mb \in Int /\ mk'.ptn_mb \in Int
              BY <1>1, <2>1, <3>4, <3>5, SettledIn, NeededMb DEF Laying
            <6> QED BY <3>2, <6>1
          <5>3. \A p : PartMb(p)' = IF p.name \in Bootloaders THEN opts.bootloader_len
                                    ELSE IF p.len < 0 THEN (mk'.disk_mb - mk'.ptn_mb) % Word
                                    ELSE p.len
            BY <1>1 DEF PartMb
          <5>4. \A j \in 1 .. Len(PartList) : PartMb(PartList[j])' \in Int
            BY <5>1, <5>2, <5>3, PartListFacts
          <5> QED BY <1>1, <4>1, <5>4 DEF Planned, SkipsBootloader
        <4>3. RunningSums(Planned')[0] = 0
          BY <4>1, <4>2, SumsStep
        <4>4. mk'.k - 1 = 0 /\ 1 .. mk'.k - 1 = {}
          BY <2>1
        <4>5. mk'.next_mb = mk'.start_mb + RunningSums(Planned')[mk'.k - 1]
          BY <2>1, <2>5, <4>3, <4>4
        <4>6. \A i \in InUse(mem') : ~OldAndroid(mem'.entries[i])
          BY <1>1
        <4> QED BY <4>4, <4>5, <4>6 DEF Progress, OldAndroid
      <3>10. Room'
        <4>1. ASSUME NEW i \in InUse(mem)
              PROVE  \/ mem.entries[i].last_lba < start_mb * SectorsPerMiB
                     \/ end_mb * SectorsPerMiB <= mem.entries[i].first_lba
          BY <2>2, <2>3, <2>5, <2>6
        <4> QED BY <1>1, <2>1, <4>1 DEF Room
      <3> QED BY <3>6, <3>7, <3>8, <3>9, <3>10
    <2>9. Layout'
      BY <1>3, <2>8 DEF Layout
    <2> QED BY <2>7, <2>9
  <1> QED BY <1>2, <1>3 DEF PlanSpace, Dies

\* A bootloader that is not made, because the ESP is kept: the position goes forward.
LEMMA SkipLayout ==
    ASSUME IInv, LInv, pc = "mkpart", mk.k <= Len(PartList),
           SkipsBootloader(PartList[mk.k]), mk' = [mk EXCEPT !.k = mk.k + 1],
           UNCHANGED <<mem, index, sectors, orig, opts, pc>>
    PROVE  Memory' /\ Layout'
  <1>1. Memory /\ Position /\ Layout
    BY DEF LInv
  <1>2. /\ mk'.k = mk.k + 1 /\ mk'.start_mb = mk.start_mb /\ mk'.end_mb = mk.end_mb
        /\ mk'.next_mb = mk.next_mb /\ mk'.ptn_mb = mk.ptn_mb /\ mk'.disk_mb = mk.disk_mb
    BY <1>1 DEF Position, PlanNames
  <1>3. Memory'
    BY <1>1, <1>2 DEF Memory, Sane, Indexed, Wrapped, Fit, OldAndroid
  <1>4. ASSUME ~Wrapped'
        PROVE  Fit(mem)' /\ Reckoned' /\ Spread' /\ Progress' /\ Room'
    <2>1. ~Wrapped
      BY <1>2, <1>4 DEF Wrapped
    <2>2. Fit(mem) /\ Reckoned /\ Spread /\ Progress /\ Room
      BY <1>1, <2>1 DEF Layout
    <2>3. Fit(mem)' /\ Spread' /\ Room'
      BY <1>2, <2>2 DEF Fit, Spread, Room
    <2>4. Reckoned'
      BY <1>2, <2>2 DEF Reckoned, SpaceNeededMb
    <2>5. Planned' = Planned
      BY <1>2 DEF Planned, SkipsBootloader, PartMb
    <2>6. /\ mk.k \in 1 .. Len(PartList)
          /\ mk.next_mb + Planned[mk.k] = mk.start_mb + RunningSums(Planned)[mk.k]
          /\ Planned[mk.k] = 0 /\ mk.next_mb \in Nat
      BY <2>1, NextPart
    <2>7. mk'.next_mb = mk'.start_mb + RunningSums(Planned')[mk'.k - 1]
      BY <1>2, <2>5, <2>6
    <2>8. ASSUME NEW j \in 1 .. mk'.k - 1, ~SkipsBootloader(PartList[j])
          PROVE  MadeEntry(j)'
      <3>1. j \in 1 .. mk.k - 1
        BY <1>2, <2>6, <2>8
      <3>2. MadeEntry(j)
        BY <2>2, <2>8, <3>1 DEF Progress
      <3> QED BY <2>5, <3>2 DEF MadeEntry
    <2>9. ASSUME NEW i \in InUse(mem), OldAndroid(mem.entries[i])
          PROVE  \E j \in 1 .. mk'.k - 1 : i = index'[PartList[j].name]
      <3>1. PICK j \in 1 .. mk.k - 1 : i = index[PartList[j].name]
        BY <2>2, <2>9 DEF Progress
      <3>2. j \in 1 .. mk'.k - 1
        BY <1>2, <2>6
      <3> QED BY <3>1, <3>2
    <2> QED BY <2>3, <2>4, <2>7, <2>8, <2>9 DEF Progress, SkipsBootloader, OldAndroid
  <1> QED BY <1>3, <1>4 DEF Layout

\* A partition that is made: its entry was free, its sectors are behind those made before
\* and in front of the end of the region.
LEMMA MakeLayout ==
    ASSUME IInv, LInv, pc = "mkpart", mk.k <= Len(PartList),
           ~SkipsBootloader(PartList[mk.k]), gpt_next_index(mem) # 0,
           LET p     == PartList[mk.k]
               mb    == PartMb(p)
               first == mib_to_lba(mk.next_mb)
               last  == (mib_to_lba((mk.next_mb + mb) % Word) - 1) % Word
           IN  /\ mem' = gpt_entry_create(mem, AndroidName(p.name), p.type, first, last)
               /\ index' = [index EXCEPT ![p.name] = gpt_next_index(mem)]
               /\ mk' = [mk EXCEPT !.k = mk.k + 1, !.next_mb = (mk.next_mb + mb) % Word],
           UNCHANGED <<sectors, orig, opts, pc>>
    PROVE  Memory' /\ Layout'
  <1> DEFINE p     == PartList[mk.k]
             mb    == PartMb(p)
             first == mib_to_lba(mk.next_mb)
             last  == (mib_to_lba((mk.next_mb + mb) % Word) - 1) % Word
             n     == gpt_next_index(mem)
  <1>1. Memory /\ Position /\ Layout /\ Scanned /\ Sane
    BY DEF LInv, Memory, Editing
  <1>2. /\ mk'.k = mk.k + 1 /\ mk'.start_mb = mk.start_mb /\ mk'.end_mb = mk.end_mb
        /\ mk'.ptn_mb = mk.ptn_mb /\ mk'.disk_mb = mk.disk_mb
        /\ mk'.next_mb = (mk.next_mb + mb) % Word
    BY <1>1 DEF Position, PlanNames
  <1>3. mk.k \in 1 .. Len(PartList) /\ p.name \in PartNames
    BY <1>1, PartListFacts DEF Position
  <1>4. first \in 0 .. Word /\ last \in 0 .. Word
    <2>1. mb \in Int /\ mk.next_mb \in Int
      BY <1>1, <1>3, PartMbInt DEF Position
    <2>2. ((mk.next_mb + mb) % Word) \in Int
      BY <2>1, WordFacts
    <2>3. mib_to_lba((mk.next_mb + mb) % Word) \in 0 .. Word
      BY <2>2, MibToLba
    <2>4. first \in 0 .. Word
      BY <2>1, MibToLba
    <2> QED BY <2>3, <2>4, WordFacts
  <1>5. /\ SameFrame(mem', mem)
        /\ n \in DOMAIN mem.entries /\ n \notin InUse(mem)
        /\ mem'.entries[n].first_lba = first /\ mem'.entries[n].last_lba = last
        /\ mem'.entries[n].type = p.type /\ mem'.entries[n].name = AndroidName(p.name)
        /\ \A i \in DOMAIN mem.entries : i # n => mem'.entries[i] = mem.entries[i]
    <2>1. IsShape(mem)
      BY <1>1 DEF Sane
    <2> DEFINE u == gpt_entry_create(mem, AndroidName(p.name), p.type, first, last)
    <2>2. mem' = u
      OBVIOUS
    <2> HIDE DEF p, first, last
    <2>3. /\ SameFrame(u, mem)
          /\ n \in DOMAIN mem.entries /\ n \notin InUse(mem)
          /\ u.entries[n].first_lba = first /\ u.entries[n].last_lba = last
          /\ u.entries[n].type = p.type /\ u.entries[n].name = AndroidName(p.name)
          /\ \A i \in DOMAIN mem.entries : i # n => u.entries[i] = mem.entries[i]
      BY <2>1, Created
    <2> HIDE DEF u, n
    <2> QED BY <2>2, <2>3
  <1>6. /\ index' = [index EXCEPT ![p.name] = n] /\ index \in [PartNames -> Nat] /\ n \in Nat
    <2>1. index' = [index EXCEPT ![p.name] = n]
      OBVIOUS
    <2>2. index \in [PartNames -> Nat]
      BY <1>1 DEF Memory
    <2>3. num_pentries(mem) \in Nat /\ DOMAIN mem.entries = 1 .. num_pentries(mem)
      BY <1>1 DEF Sane, IsShape
    <2> HIDE DEF n
    <2>4. n \in Nat
      <3>1. n \in DOMAIN mem.entries
        BY <1>5
      <3>2. n \in 1 .. num_pentries(mem)
        BY <2>3, <3>1
      <3> HIDE DEF n
      <3> QED BY <2>3, <3>2
    <2> QED BY <2>1, <2>2, <2>4
  <1>7. /\ index' \in [PartNames -> Nat] /\ index'[p.name] = n
        /\ \A q \in PartNames : q # p.name => index'[q] = index[q]
    BY <1>3, <1>6
  <1>8. opts.dualboot => p.name # "bootloader"
    BY DEF SkipsBootloader
  <1> HIDE DEF p, mb, first, last, n
  <1>9. \A i \in InUse(mem) : i \in InUse(mem') /\ mem'.entries[i] = mem.entries[i]
    BY <1>5 DEF InUse, SameFrame
  <1>10. ~Wrapped => n \in InUse(mem')
    <2> SUFFICES ASSUME ~Wrapped
                 PROVE  first # 0
      BY <1>5 DEF InUse, SameFrame
    <2>1. mk.next_mb \in Nat \ {0} /\ mib_to_lba(mk.next_mb) = mk.next_mb * SectorsPerMiB
      BY NextPart
    <2>2. mk.next_mb <= mk.next_mb * SectorsPerMiB /\ mk.next_mb * SectorsPerMiB \in Nat
      BY <2>1, MibOrder
    <2> QED BY <2>1, <2>2 DEF first
  <1>11. Wrapped' <=> Wrapped
    BY <1>2 DEF Wrapped
  <1>12. Memory'
    <2>1. ASSUME NEW q \in PartNames, index'[q] # 0
          PROVE  Indexed(index[q])'
      <3>1. CASE q = p.name
        BY <1>5, <1>7, <1>10, <1>11, <3>1 DEF Indexed, SameFrame
      <3>2. CASE q # p.name
        <4>1. index'[q] = index[q] /\ Indexed(index[q])
          BY <1>1, <1>7, <2>1, <3>2 DEF Sane
        <4> QED BY <1>5, <1>9, <1>11, <4>1 DEF Indexed, SameFrame
      <3> QED BY <3>1, <3>2
    <2>2. ASSUME NEW i \in DOMAIN mem'.entries
          PROVE  mem'.entries[i].first_lba \in 0 .. Word /\ mem'.entries[i].last_lba \in 0 .. Word
      <3>1. i \in DOMAIN mem.entries
        BY <1>5 DEF SameFrame
      <3>2. CASE i = n
        BY <1>4, <1>5, <3>2
      <3>3. CASE i # n
        BY <1>1, <1>5, <3>1, <3>3 DEF Sane
      <3> QED BY <3>2, <3>3
    <2>3. Sane'
      BY <1>5, <2>1, <2>2 DEF Sane, SameFrame
    <2>4. opts.dualboot => index'["bootloader"] = opts.esp_index
      BY <1>1, <1>7, <1>8, PartListFacts DEF Memory, Laying
    <2> QED BY <1>7, <2>3, <2>4 DEF Memory, Early
  <1>13. ASSUME ~Wrapped'
         PROVE  Fit(mem)' /\ Reckoned' /\ Spread' /\ Progress' /\ Room'
    <2>0. ~Wrapped
      BY <1>11, <1>13
    <2> DEFINE low  == mk.next_mb * SectorsPerMiB
               high == (mk.next_mb + mb) * SectorsPerMiB
    <2>1. Fit(mem) /\ Reckoned /\ Spread /\ Progress /\ Room
      BY <1>1, <2>0 DEF Layout
    <2>2. /\ mb = Planned[mk.k] /\ mk.next_mb \in Nat \ {0} /\ mb \in Nat \ {0}
          /\ mk.start_mb <= mk.next_mb
          /\ mk.next_mb + mb <= mk.end_mb
          /\ mk.next_mb + mb = mk.start_mb + RunningSums(Planned)[mk.k]
          /\ (mk.next_mb + mb) % Word = mk.next_mb + mb
          /\ first = low /\ last = high - 1
      <3>1. Planned[mk.k] = mb
        BY <2>0, NextPart DEF mb, p
      <3> QED BY <2>0, <3>1, NextPart DEF first, last, p
    <2>3. mk'.next_mb = mk.next_mb + mb
      BY <1>2, <2>2
    <2>4. mk.start_mb \in Nat /\ mk.end_mb \in Nat /\ mk.next_mb + mb \in Nat
      BY <2>1, <2>2 DEF Spread
    <2>5. /\ low \in Nat /\ high \in Nat
          /\ mk.start_mb * SectorsPerMiB \in Nat /\ mk.end_mb * SectorsPerMiB \in Nat
          /\ mk.start_mb * SectorsPerMiB <= low
          /\ low + SectorsPerMiB <= high
          /\ high <= mk.end_mb * SectorsPerMiB
          /\ high = low + mb * SectorsPerMiB
          /\ mb * SectorsPerMiB \in Nat
      <3> DEFINE a == mk.start_mb
                 b == mk.next_mb
                 c == mk.next_mb + mb
                 d == mk.end_mb
      <3>1. a \in Nat /\ b \in Nat /\ c \in Nat /\ d \in Nat /\ mb \in Nat
            /\ a <= b /\ b < c /\ c <= d /\ c = b + mb
        BY <2>2, <2>4
      <3> HIDE DEF a, b, c, d
      <3>2. /\ a * SectorsPerMiB \in Nat /\ b * SectorsPerMiB \in Nat
            /\ c * SectorsPerMiB \in Nat /\ d * SectorsPerMiB \in Nat
            /\ mb * SectorsPerMiB \in Nat
        BY <3>1, MibOrder
      <3>3. a * SectorsPerMiB <= b * SectorsPerMiB
        BY <3>1, MibOrder
      <3>4. b * SectorsPerMiB + SectorsPerMiB <= c * SectorsPerMiB
        BY <3>1, MibOrder
      <3>5. c * SectorsPerMiB <= d * SectorsPerMiB
        BY <3>1, MibOrder
      <3>6. (b + mb) * SectorsPerMiB = b * SectorsPerMiB + mb * SectorsPerMiB
        BY <3>1, MibOrder
      <3>7. c * SectorsPerMiB = b * SectorsPerMiB + mb * SectorsPerMiB
        BY <3>1, <3>6
      <3> QED BY <3>2, <3>3, <3>4, <3>5, <3>7 DEF a, b, c, d
    <2> HIDE DEF low, high
    <2>6. /\ SectorsPerMiB \in Nat \ {0}
          /\ mem.first_usable_lba <= mk.start_mb * SectorsPerMiB
          /\ mk.end_mb * SectorsPerMiB <= mem.last_usable_lba + 1
          /\ mem.first_usable_lba \in Nat /\ mem.last_usable_lba \in Int
          /\ IsSound(mem)
      BY <2>1, SizesAssumption DEF Spread, Fit, IsSound
    <2>7. /\ first \in Nat /\ last \in Nat /\ first <= last
          /\ mem.first_usable_lba <= first /\ last <= mem.last_usable_lba
      <3> DEFINE top == mk.end_mb * SectorsPerMiB
                 bot == mk.start_mb * SectorsPerMiB
      <3>1. /\ first = low /\ last = high - 1 /\ low \in Nat /\ high \in Nat
            /\ bot \in Nat /\ top \in Nat /\ bot <= low /\ high <= top
            /\ low + SectorsPerMiB <= high
        BY <2>2, <2>5
      <3>2. /\ mem.first_usable_lba <= bot /\ top <= mem.last_usable_lba + 1
            /\ SectorsPerMiB \in Nat \ {0}
        BY <2>6
      <3> HIDE DEF top, bot
      <3> QED BY <2>6, <3>1, <3>2
    <2>8. \A i \in InUse(mem) : /\ mem.entries[i].last_lba \in Nat
                                /\ mem.entries[i].first_lba \in Nat
                                /\ mem.entries[i].last_lba < low
                                     \/ mk.end_mb * SectorsPerMiB <= mem.entries[i].first_lba
      BY <2>1, <2>6 DEF Room, low, IsSound, IsTable, InUse
    <2>9. \A i \in InUse(mem) : mem.entries[i].last_lba < first \/ last < mem.entries[i].first_lba
      BY <2>2, <2>5, <2>8
    <2>10. IsSound(mem') /\ InUse(mem') = InUse(mem) \cup {n}
      <3> DEFINE u == gpt_entry_create(mem, AndroidName(p.name), p.type, first, last)
      <3>1. mem' = u
        BY DEF p, mb, first, last
      <3>2. IsSound(u) /\ InUse(u) = InUse(mem) \cup {gpt_next_index(mem)}
        BY <2>6, <2>7, <2>9, Placed
      <3> HIDE DEF u
      <3> QED BY <3>1, <3>2 DEF n
    <2>11. Fit(mem)'
      BY <1>5, <2>1, <2>10 DEF Fit, SameFrame
    <2>12. Spread'
      BY <1>2, <1>5, <2>1 DEF Spread, SameFrame
    <2>13. Reckoned'
      BY <1>2, <2>1 DEF Reckoned, SpaceNeededMb
    <2>14. Planned' = Planned
      BY <1>2 DEF Planned, SkipsBootloader, PartMb
    <2>15. Room'
      <3> DEFINE low2 == mk'.next_mb * SectorsPerMiB
      <3>1. low2 = high
        BY <2>3 DEF high
      <3>2. ASSUME NEW i \in InUse(mem')
            PROVE  \/ mem'.entries[i].last_lba < high
                   \/ mk.end_mb * SectorsPerMiB <= mem'.entries[i].first_lba
        <4>1. CASE i = n
          <5>1. mem'.entries[i].last_lba = high - 1 /\ high \in Nat
            BY <1>5, <2>2, <2>5, <4>1
          <5> QED BY <5>1
        <4>2. CASE i \in InUse(mem)
          <5>1. mem'.entries[i] = mem.entries[i]
            BY <1>9, <4>2
          <5>2. mem.entries[i].last_lba < low \/ mk.end_mb * SectorsPerMiB <= mem.entries[i].first_lba
            BY <2>8, <4>2
          <5>3. mem.entries[i].last_lba \in Nat
            BY <2>8, <4>2
          <5>4. low \in Nat /\ high \in Nat /\ low <= high
            BY <2>5, <2>6
          <5> QED BY <5>1, <5>2, <5>3, <5>4
        <4> QED BY <2>10, <4>1, <4>2
      <3> QED BY <1>2, <3>1, <3>2 DEF Room
    <2>16. mk'.next_mb = mk'.start_mb + RunningSums(Planned')[mk'.k - 1]
      BY <1>2, <1>3, <2>2, <2>3, <2>14
    <2>17. ASSUME NEW j \in 1 .. mk'.k - 1, ~SkipsBootloader(PartList[j])
           PROVE  MadeEntry(j)'
      <3>1. CASE j = mk.k
        <4>1. index'[PartList[j].name] = n /\ PartList[j].type = p.type /\ PartList[j].name = p.name
          BY <1>7, <3>1 DEF p
        <4>2. gpt_entry_get_size(mem'.entries[n]) = mb * SectorsPerMiB
          <5>1. gpt_entry_get_size(mem'.entries[n]) = (last + 1) - first
            BY <1>5 DEF gpt_entry_get_size
          <5>2. last = high - 1 /\ first = low
            BY <2>2
          <5>3. high = low + mb * SectorsPerMiB /\ low \in Nat /\ mb * SectorsPerMiB \in Nat
            BY <2>5
          <5> HIDE DEF first, last
          <5> QED BY <5>1, <5>2, <5>3
        <4>3. opts.dualboot => n # opts.esp_index
          <5> SUFFICES ASSUME opts.dualboot
                       PROVE  opts.esp_index \in InUse(mem)
            BY <1>5
          <5>1. index["bootloader"] = opts.esp_index /\ opts.esp_index # 0
            BY <1>1 DEF Memory, Scanned, Laying
          <5> QED BY <1>1, <2>0, <5>1, PartListFacts DEF Sane, Indexed
        <4>4. n \in InUse(mem')
          BY <2>10
        <4> QED BY <1>5, <2>2, <2>14, <3>1, <4>1, <4>2, <4>3, <4>4 DEF MadeEntry
      <3>2. CASE j # mk.k
        <4>1. j \in 1 .. mk.k - 1 /\ j \in DOMAIN PartList /\ mk.k \in DOMAIN PartList
          BY <1>2, <1>3, <2>17, <3>2, PartListFacts
        <4>2. MadeEntry(j)
          BY <2>1, <2>17, <4>1 DEF Progress
        <4>3. PartList[j].name # p.name
          BY <3>2, <4>1, PartListAssumption DEF p
        <4>4. PartList[j].name \in PartNames
          BY <4>1 DEF PartNames
        <4>5. index'[PartList[j].name] = index[PartList[j].name]
          BY <1>7, <4>3, <4>4
        <4> QED BY <1>9, <2>14, <4>2, <4>5 DEF MadeEntry
      <3> QED BY <3>1, <3>2
    <2>18. ASSUME NEW i \in InUse(mem'), OldAndroid(mem'.entries[i])
           PROVE  \E j \in 1 .. mk'.k - 1 : i = index'[PartList[j].name]
      <3>1. CASE i = n
        <4>1. mk.k \in 1 .. mk'.k - 1 /\ i = index'[PartList[mk.k].name]
          BY <1>2, <1>3, <1>7, <3>1 DEF p
        <4> QED BY <4>1
      <3>2. CASE i \in InUse(mem)
        <4>1. PICK j \in 1 .. mk.k - 1 : i = index[PartList[j].name]
          BY <1>9, <2>1, <2>18, <3>2 DEF Progress
        <4>2. j \in 1 .. mk'.k - 1 /\ j \in DOMAIN PartList /\ mk.k \in DOMAIN PartList /\ j # mk.k
          BY <1>2, <1>3, PartListFacts
        <4>3. PartList[j].name # p.name /\ PartList[j].name \in PartNames
          BY <4>2, PartListAssumption DEF p, PartNames
        <4> QED BY <1>7, <4>1, <4>2, <4>3
      <3> QED BY <2>10, <3>1, <3>2
    <2>19. Progress'
      BY <2>16, <2>17, <2>18 DEF Progress, SkipsBootloader, OldAndroid
    <2> QED BY <2>11, <2>12, <2>13, <2>15, <2>19
  <1> QED BY <1>12, <1>13 DEF Layout

\* The loop is over, and the ESP of a dual boot gets its name.
LEMMA FinishLayout ==
    ASSUME IInv, LInv, FinishTable
    PROVE  Memory' /\ Layout'
  <1>1. /\ Memory /\ Position /\ Layout /\ Scanned /\ Sane
        /\ pc = "mkpart" /\ pc' = "write" /\ UNCHANGED <<sectors, opts, orig, index, mk>>
        /\ mk.k > Len(PartList)
    BY DEF LInv, Memory, Editing, FinishTable
  <1>2. mk.k = Len(PartList) + 1
    BY <1>1, PartListFacts DEF Position
  <1>3. Wrapped' <=> Wrapped
    BY <1>1 DEF Wrapped
  <1>4. IsShape(mem)
    BY <1>1 DEF Sane
  <1>5. /\ SameFrame(mem', mem)
        /\ \A i \in DOMAIN mem.entries :
              /\ i \in DOMAIN mem'.entries
              /\ mem'.entries[i].first_lba = mem.entries[i].first_lba
              /\ mem'.entries[i].last_lba = mem.entries[i].last_lba
              /\ mem'.entries[i].type = mem.entries[i].type
              /\ mem'.entries[i].name = IF opts.dualboot /\ i = opts.esp_index
                                        THEN AndroidName("bootloader") ELSE mem.entries[i].name
    <2>1. CASE opts.dualboot
      <3>1. mem' = gpt_entry_set_name(mem, opts.esp_index, AndroidName("bootloader"))
        BY <2>1 DEF FinishTable
      <3> QED BY <1>4, <2>1, <3>1, Named
    <2>2. CASE ~opts.dualboot
      BY <1>4, <2>2 DEF FinishTable, SameFrame
    <2> QED BY <2>1, <2>2
  <1>6. InUse(mem') = InUse(mem)
    BY <1>5 DEF InUse, SameFrame
  <1>7. Memory'
    <2>1. ASSUME NEW q \in PartNames, index'[q] # 0
          PROVE  Indexed(index[q])'
      BY <1>1, <1>3, <1>5, <1>6, <2>1 DEF Sane, Indexed, SameFrame
    <2>2. ASSUME NEW i \in DOMAIN mem'.entries
          PROVE  mem'.entries[i].first_lba \in 0 .. Word /\ mem'.entries[i].last_lba \in 0 .. Word
      <3>1. i \in DOMAIN mem.entries
        BY <1>5 DEF SameFrame
      <3> QED BY <1>1, <1>5, <3>1 DEF Sane
    <2>3. Sane'
      BY <1>5, <2>1, <2>2 DEF Sane, SameFrame
    <2>4. opts.dualboot => index'["bootloader"] = opts.esp_index
      BY <1>1 DEF Memory, Laying
    <2> QED BY <1>1, <2>3, <2>4 DEF Memory, Early
  <1>8. ASSUME ~Wrapped'
        PROVE  Layout'
    <2>1. Fit(mem) /\ Reckoned /\ Spread /\ Progress /\ ~Wrapped
      BY <1>1, <1>3, <1>8 DEF Layout
    <2>2. opts.dualboot => opts.esp_index \in InUse(mem)
      <3>1. opts.dualboot => index["bootloader"] = opts.esp_index /\ opts.esp_index # 0
        BY <1>1 DEF Memory, Scanned, Laying
      <3> QED BY <1>1, <2>1, <3>1, PartListFacts DEF Sane, Indexed
    <2>3. Fit(mem)'
      <3>1. IsSound(mem)
        BY <2>1 DEF Fit
      <3>2. \A i \in DOMAIN mem.entries :
               mem'.entries[i].first_lba \in Nat /\ mem'.entries[i].last_lba \in Nat
        BY <1>5, <3>1 DEF IsSound, IsTable
      <3>3. \A i \in InUse(mem') :
               /\ i \in InUse(mem)
               /\ mem'.entries[i].first_lba = mem.entries[i].first_lba
               /\ mem'.entries[i].first_lba <= mem'.entries[i].last_lba
               /\ mem'.entries[i].last_lba <= mem.entries[i].last_lba
        <4> SUFFICES ASSUME NEW i \in InUse(mem)
                     PROVE  /\ mem'.entries[i].first_lba = mem.entries[i].first_lba
                            /\ mem'.entries[i].first_lba <= mem'.entries[i].last_lba
                            /\ mem'.entries[i].last_lba <= mem.entries[i].last_lba
          BY <1>6
        <4>1. i \in DOMAIN mem.entries
          BY DEF InUse
        <4>2. mem.entries[i].first_lba <= mem.entries[i].last_lba /\ mem.entries[i].last_lba \in Nat
          BY <3>1, <4>1 DEF IsSound, InRange, IsTable
        <4> QED BY <1>5, <4>1, <4>2
      <3>4. IsSound(mem')
        BY <1>5, <3>1, <3>2, <3>3, Thinned
      <3> QED BY <1>1, <1>5, <2>1, <3>4 DEF Fit, SameFrame
    <2>4. Reckoned'
      BY <1>1, <2>1 DEF Reckoned, SpaceNeededMb
    <2>5. Spread'
      BY <1>1, <1>5, <2>1 DEF Spread, SameFrame
    <2>6. Planned' = Planned
      BY <1>1 DEF Planned, SkipsBootloader, PartMb
    <2>7. ASSUME NEW j \in 1 .. mk.k - 1, ~SkipsBootloader(PartList[j])
          PROVE  MadeEntry(j)'
      <3> DEFINE i == index[PartList[j].name]
      <3>1. MadeEntry(j) /\ index' = index
        BY <1>1, <2>1, <2>7 DEF Progress
      <3>2. /\ i \in InUse(mem) /\ i \in DOMAIN mem.entries
            /\ mem.entries[i].name = AndroidName(PartList[j].name)
            /\ mem.entries[i].type = PartList[j].type
            /\ gpt_entry_get_size(mem.entries[i]) = Planned[j] * SectorsPerMiB
            /\ opts.dualboot => i # opts.esp_index
        BY <3>1 DEF MadeEntry, InUse
      <3> HIDE DEF i
      <3>3. /\ i \in InUse(mem')
            /\ mem'.entries[i].name = AndroidName(PartList[j].name)
            /\ mem'.entries[i].type = PartList[j].type
            /\ gpt_entry_get_size(mem'.entries[i]) = Planned[j] * SectorsPerMiB
        BY <1>5, <1>6, <3>2 DEF gpt_entry_get_size
      <3> QED BY <1>1, <2>6, <3>1, <3>2, <3>3 DEF MadeEntry, i
    <2>8. ASSUME NEW i \in InUse(mem'), OldAndroid(mem'.entries[i])
          PROVE  \E j \in 1 .. mk.k - 1 : i = index[PartList[j].name]
      <3>1. i \in InUse(mem) /\ i \in DOMAIN mem.entries
        BY <1>6 DEF InUse
      <3>2. OldAndroid(mem.entries[i])
        BY <1>5, <2>8, <3>1 DEF OldAndroid
      <3> QED BY <2>1, <3>1, <3>2 DEF Progress
    <2>9. Progress'
      BY <1>1, <2>1, <2>6, <2>7, <2>8 DEF Progress, SkipsBootloader, OldAndroid
    <2>10. opts.dualboot => mem'.entries[opts.esp_index].name = AndroidName("bootloader")
      BY <1>5, <2>2 DEF InUse
    <2> QED BY <1>1, <1>2, <2>3, <2>4, <2>5, <2>9, <2>10 DEF Layout, AndroidName
  <1> QED BY <1>7, <1>8 DEF Layout

\* Steps that leave all the layout is about alone.
LEMMA LayoutKept ==
    ASSUME Layout, UNCHANGED <<sectors, opts, index, mk, mem>>,
           pc' \in {pc, "dead"} \/ (pc = "write" /\ pc' = "done")
    PROVE  Layout'
  <1> SUFFICES ASSUME pc' \in {"mkpart", "write", "done"}, ~Wrapped'
               PROVE  Layout'
    BY DEF Layout
  <1>1. Fit(mem) /\ Reckoned /\ Spread /\ Progress /\ (pc = "mkpart" => Room)
        /\ (pc' = "mkpart" => pc = "mkpart")
    BY DEF Layout, Wrapped
  <1>2. /\ Fit(mem)' /\ Spread' /\ (pc' = "mkpart" => Room')
    BY <1>1 DEF Fit, Spread, Room
  <1>3. Reckoned'
    BY <1>1 DEF Reckoned, SpaceNeededMb
  <1>4. Planned' = Planned
    BY DEF Planned, PartMb, SkipsBootloader
  <1>5. \A j \in 1 .. mk.k - 1 : MadeEntry(j) => MadeEntry(j)'
    BY <1>4 DEF MadeEntry
  <1>6. Progress'
    BY <1>1, <1>4, <1>5 DEF Progress, SkipsBootloader, OldAndroid
  <1> QED BY <1>2, <1>3, <1>6 DEF Layout, Wrapped, AndroidName

\* gpt_write leaves the table in memory as it is.
LEMMA WriteLayout ==
    ASSUME LInv, WriteTable
    PROVE  Memory' /\ Layout'
  <1>1. /\ Memory /\ Layout /\ pc = "write" /\ pc' \in {"done", "dead"}
        /\ UNCHANGED <<sectors, opts, orig, index, mk, mem>>
    BY DEF LInv, WriteTable, Dies
  <1>2. Memory'
    BY <1>1, MemoryKept
  <1>3. Layout'
    BY <1>1, LayoutKept
  <1> QED BY <1>2, <1>3

\* Every step keeps the table in memory and the layout that is made in it.
LEMMA LayoutStep == IInv /\ LInv /\ [Next]_vars => Memory' /\ Layout'
  <1> SUFFICES ASSUME IInv, LInv, [Next]_vars
               PROVE  Memory' /\ Layout'
    OBVIOUS
  <1>1. Memory
    BY DEF LInv
  <1>2. CASE Prepare \/ CliDualBoot \/ CliWipe
    <2>1. /\ UNCHANGED <<index, mem, mk, sectors, orig>>
          /\ pc \in Early /\ pc' \in {"cli", "execute", "dead"}
      BY <1>2 DEF Prepare, CliDualBoot, CliWipe, Dies, Early
    <2> QED BY <1>1, <2>1, MemoryKept DEF Layout
  <1>3. CASE ExecuteDualBoot \/ ExecuteWipe
    <2>1. pc' \in {"resize", "delete", "space", "dead"}
      BY <1>3 DEF ExecuteDualBoot, ExecuteWipe, Dies
    <2> QED BY <1>3, <2>1, ExecuteMemory DEF Layout
  <1>4. CASE ResizeNtfs
    <2>1. pc' \in {"delete", "dead"}
      BY <1>4 DEF ResizeNtfs, Dies
    <2> QED BY <1>4, <2>1, ResizeMemory DEF Layout
  <1>5. CASE DeleteAndroid
    <2>1. pc' = "space"
      BY <1>5 DEF DeleteAndroid
    <2>2. Memory'
      BY <1>5, NextIInv, DeleteMemory
    <2> QED BY <2>1, <2>2 DEF Layout
  <1>6. CASE MkPart
    <2>1. pc = "mkpart" /\ mk.k <= Len(PartList) /\ UNCHANGED <<sectors, orig, opts>>
      BY <1>6 DEF MkPart
    <2>2. CASE /\ SkipsBootloader(PartList[mk.k])
               /\ mk' = [mk EXCEPT !.k = mk.k + 1]
               /\ UNCHANGED <<mem, index, pc>>
      BY <2>1, <2>2, SkipLayout
    <2>3. CASE pc' = "dead" /\ UNCHANGED <<mem, index, mk>>
      BY <1>1, <2>1, <2>3, MemoryKept DEF Layout
    <2>4. CASE /\ ~SkipsBootloader(PartList[mk.k])
               /\ gpt_next_index(mem) # 0
               /\ LET p     == PartList[mk.k]
                      mb    == PartMb(p)
                      first == mib_to_lba(mk.next_mb)
                      last  == (mib_to_lba((mk.next_mb + mb) % Word) - 1) % Word
                  IN  /\ mem' = gpt_entry_create(mem, AndroidName(p.name), p.type, first, last)
                      /\ index' = [index EXCEPT ![p.name] = gpt_next_index(mem)]
                      /\ mk' = [mk EXCEPT !.k = mk.k + 1, !.next_mb = (mk.next_mb + mb) % Word]
               /\ UNCHANGED pc
      BY <2>1, <2>4, MakeLayout
    <2> QED BY <1>6, <2>2, <2>3, <2>4 DEF MkPart, Dies
  <1>7. CASE PlanSpace \/ FinishTable \/ WriteTable
    BY <1>7, PlanLayout, FinishLayout, WriteLayout
  <1>8. CASE UNCHANGED vars
    <2>1. UNCHANGED <<index, mem, mk, sectors, orig, opts, pc>> /\ Layout
      BY <1>8 DEF vars, LInv
    <2>2. Layout'
      BY <2>1, LayoutKept
    <2> QED BY <1>1, <2>1, <2>2, MemoryKept
  <1> QED BY <1>2, <1>3, <1>4, <1>5, <1>6, <1>7, <1>8 DEF Next

\* What is on the disk is the table that was found or the one that was laid out.
LEMMA WrittenStep == IInv /\ LInv /\ [Next]_vars => Written'
  <1> SUFFICES ASSUME IInv, LInv, [Next]_vars
               PROVE  Written'
    OBVIOUS
  <1>1. CASE WriteTable
    <2>1. /\ ondisk = orig /\ pc = "write" /\ pc' \in {"done", "dead"}
          /\ UNCHANGED <<orig, mem, mk>> /\ ondisk' \in {ondisk, mem}
          /\ pc' = "done" => ondisk' = mem
      BY <1>1 DEF WriteTable, Dies, IInv, OnDisk
    <2>2. ~Wrapped => IsSound(mem)
      BY <2>1 DEF LInv, Layout, Fit
    <2>3. ~Wrapped' => IsSound(mem')
      BY <2>1, <2>2 DEF Wrapped
    <2> QED BY <2>1, <2>3 DEF Written
  <1>2. CASE Next /\ ~WriteTable
    <2>1. ondisk = orig /\ UNCHANGED <<orig, ondisk>> /\ pc' # "done"
      BY <1>2 DEF Next, Prepare, CliDualBoot, CliWipe, ExecuteDualBoot, ExecuteWipe, ResizeNtfs,
         DeleteAndroid, PlanSpace, MkPart, FinishTable, Dies, IInv, OnDisk
    <2> QED BY <2>1 DEF Written
  <1>3. CASE UNCHANGED vars
    <2>1. UNCHANGED <<pc, orig, ondisk, mem, mk>> /\ Written
      BY <1>3 DEF vars, LInv
    <2> QED BY <2>1 DEF Written, Wrapped
  <1> QED BY <1>1, <1>2, <1>3

\* Both invariants together are inductive.
LEMMA InductiveLayout == Spec => [](IInv /\ LInv)
  <1>1. IInv /\ LInv /\ [Next]_vars => LInv'
    BY ControlStep, ScannedStep, PositionStep, LayoutStep, WrittenStep DEF LInv
  <1> QED BY <1>1, InitIInv, InitLInv, NextIInv, PTL DEF Spec

-----------------------------------------------------------------------------
(* The questions and the execution *)

\* What the installation needs, in sectors, and what is behind Windows.
Need == get_all_space_required(opts.dualboot)

Behind(t) == t.last_usable_lba - t.entries[opts.msdata_index].last_lba

\* What the questions reckon with.
Questioned ==
    /\ opts.msdata_minsize \in Nat
    /\ orig = NoTable => opts.msdata_size = 0
    /\ orig # NoTable => opts.free_size = gpt_find_contiguous_free_space(orig).size
    /\ opts.msdata_size # 0 =>
          opts.msdata_size = gpt_entry_get_size(orig.entries[opts.msdata_index])

\* The answer leaves enough behind Windows, ...
Answered ==
    LET new == opts.windows_resize
        old == gpt_entry_get_size(orig.entries[opts.msdata_index])
    IN  IF new = 0 THEN Behind(orig) >= Need
        ELSE new \in Nat /\ new % SectorsPerMiB = 0 /\ Behind(orig) + (old - new) >= Need

\* ... the table in memory has it, ...
Granted ==
    /\ mem.first_usable_lba = orig.first_usable_lba
    /\ mem.last_usable_lba = orig.last_usable_lba
    /\ (mem.entries[opts.msdata_index].last_lba + 1) % SectorsPerMiB = 0
    /\ Behind(mem) >= Need

\* ... and nothing but Android has been removed.
Cleared ==
    \A i \in InUse(mem) : i \in InUse(orig) /\ ~OldAndroid(orig.entries[i])

\* At every stage of an interactive session, what the stages before it have settled.
Promise ==
    mode = "interactive" =>
        /\ pc \in {"prepare", "cli"} => ~opts.dualboot /\ opts.windows_resize = 0
        /\ pc = "prepare" => opts.msdata_size = 0 /\ opts.msdata_minsize = 0
        /\ pc = "cli" => Questioned
        /\ opts.dualboot => orig # NoTable
        /\ (opts.dualboot => Tidy(orig)) =>
              /\ why # "space"
              /\ pc \in {"execute", "space"} /\ ~opts.dualboot => UsableForWipe >= Need
              /\ pc = "space" /\ ~opts.dualboot => mem = gpt_new(sectors, TableSectors, NewEntries)
              /\ pc \in {"execute", "resize"} /\ opts.dualboot /\ opts.esp_index # 0 => Answered
              /\ pc \in {"delete", "space"} /\ opts.dualboot => Granted
              /\ pc = "space" /\ opts.dualboot => Cleared

\* MiB add up.
LEMMA ThreeMib ==
    ASSUME NEW a \in Int, NEW b \in Int, NEW c \in Int
    PROVE  (a + b + c) * SectorsPerMiB
             = a * SectorsPerMiB + b * SectorsPerMiB + c * SectorsPerMiB
  <1>1. SectorsPerMiB \in Int
    BY SizesAssumption
  <1> QED BY <1>1

\* What the installation needs is a whole number of MiB.
LEMMA NeedDual ==
    ASSUME Scanned, opts.esp_index # 0
    PROVE  \E k \in Nat \ {0} : get_all_space_required(TRUE) = k * SectorsPerMiB
  <1> DEFINE size == gpt_entry_get_size(orig.entries[opts.esp_index])
             k    == FixedMb + to_mib(size) + MIN_DATA_PART_SIZE
  <1>1. size \in Nat \ {0}
    BY FitInWord DEF Scanned
  <1>2. opts.esp_size = to_mib(size) * SectorsPerMiB
    BY DEF Scanned, mib_align
  <1> HIDE DEF size
  <1>3. to_mib(size) \in Nat /\ FixedMb \in Nat /\ MIN_DATA_PART_SIZE \in Nat \ {0}
        /\ SectorsPerMiB \in Nat \ {0}
    BY <1>1, ToMib, FixedMbFacts, SizesAssumption
  <1>4. k * SectorsPerMiB
          = FixedMb * SectorsPerMiB + to_mib(size) * SectorsPerMiB + MIN_DATA_PART_SIZE * SectorsPerMiB
    BY <1>3, ThreeMib
  <1>5. get_all_space_required(TRUE) = k * SectorsPerMiB
    BY <1>2, <1>4 DEF get_all_space_required, get_partial_space_required
  <1>6. k \in Nat \ {0}
    BY <1>3
  <1> HIDE DEF k
  <1> QED BY <1>5, <1>6

\* The questions count, in sectors, what create_android_partitions counts in MiB.
LEMMA NeedSettled ==
    ASSUME Settled
    PROVE  /\ SpaceNeededMb + MIN_DATA_PART_SIZE \in Nat \ {0}
           /\ Need = (SpaceNeededMb + MIN_DATA_PART_SIZE) * SectorsPerMiB
  <1>1. /\ MIN_DATA_PART_SIZE \in Nat \ {0} /\ FixedMb \in Nat /\ BootloaderLen \in Nat
        /\ opts.bootloader_len \in Nat /\ SpaceNeededMb \in Nat
        /\ 2 * BootloaderLen \in Nat
    BY SizesAssumption, FixedMbFacts, NeededMb DEF Settled
  <1>2. CASE opts.dualboot
    <2>1. SpaceNeededMb = FixedMb + opts.bootloader_len
          /\ opts.esp_size = opts.bootloader_len * SectorsPerMiB
      BY <1>2, NeededMb DEF Settled
    <2>2. (FixedMb + opts.bootloader_len + MIN_DATA_PART_SIZE) * SectorsPerMiB
            = FixedMb * SectorsPerMiB + opts.bootloader_len * SectorsPerMiB
                + MIN_DATA_PART_SIZE * SectorsPerMiB
      <3>1. FixedMb \in Int /\ opts.bootloader_len \in Int /\ MIN_DATA_PART_SIZE \in Int
        BY <1>1
      <3> QED BY <3>1, ThreeMib
    <2> QED BY <1>1, <1>2, <2>1, <2>2 DEF Need, get_all_space_required, get_partial_space_required
  <1>3. CASE ~opts.dualboot
    <2>1. SpaceNeededMb = FixedMb + 2 * BootloaderLen
      BY <1>3, NeededMb DEF Settled
    <2>2. (FixedMb + 2 * BootloaderLen + MIN_DATA_PART_SIZE) * SectorsPerMiB
            = FixedMb * SectorsPerMiB + 2 * BootloaderLen * SectorsPerMiB
                + MIN_DATA_PART_SIZE * SectorsPerMiB
      BY <1>1, ThreeMib
    <2> QED BY <1>1, <1>3, <2>1, <2>2 DEF Need, get_all_space_required, get_partial_space_required
  <1> QED BY <1>2, <1>3

\* Windows on a tidy disk.
LEMMA TidyWindows ==
    ASSUME Scanned, orig # NoTable, Tidy(orig)
    PROVE  LET w == orig.entries[opts.msdata_index]
           IN  /\ opts.msdata_index \in InUse(orig)
               /\ w.first_lba \in Nat \ {0} /\ w.last_lba \in Nat
               /\ w.first_lba <= w.last_lba /\ w.last_lba <= orig.last_usable_lba
               /\ orig.last_usable_lba \in Nat /\ orig.last_usable_lba < sectors
               /\ \E c \in Nat : w.first_lba = c * SectorsPerMiB
               /\ \E c \in Nat : w.last_lba + 1 = c * SectorsPerMiB
               /\ \E c \in Nat : gpt_entry_get_size(w) = c * SectorsPerMiB
               /\ Behind(orig) \in Nat
  <1> DEFINE w == orig.entries[opts.msdata_index]
  <1>1. IsSound(orig) /\ orig.last_usable_lba < sectors /\ opts.msdata_index \in InUse(orig)
    BY DEF Scanned, Fit, Tidy
  <1>2. /\ w.first_lba \in Nat \ {0} /\ w.last_lba \in Nat
        /\ w.first_lba <= w.last_lba /\ w.last_lba <= orig.last_usable_lba
        /\ orig.last_usable_lba \in Int
    BY <1>1 DEF IsSound, IsTable, InRange, InUse
  <1>3. w.first_lba % SectorsPerMiB = 0 /\ (w.last_lba + 1) % SectorsPerMiB = 0
    BY DEF Tidy
  <1>4. gpt_entry_get_size(w) = (w.last_lba + 1) - w.first_lba
        /\ Behind(orig) = orig.last_usable_lba - w.last_lba
    BY DEF gpt_entry_get_size, Behind
  <1> HIDE DEF w
  <1>5. ASSUME NEW n \in Nat, n % SectorsPerMiB = 0
        PROVE  \E c \in Nat : n = c * SectorsPerMiB
    BY <1>5, SizesAssumption
  <1>6. PICK b \in Nat : w.first_lba = b * SectorsPerMiB
    BY <1>2, <1>3, <1>5
  <1>7. PICK c \in Nat : w.last_lba + 1 = c * SectorsPerMiB
    <2>1. w.last_lba + 1 \in Nat
      BY <1>2
    <2> QED BY <1>3, <1>5, <2>1
  <1>8. b <= c
    <2>1. b * SectorsPerMiB <= c * SectorsPerMiB
      BY <1>2, <1>6, <1>7
    <2> QED BY <2>1, SizesAssumption
  <1>9. c - b \in Nat /\ (c - b) * SectorsPerMiB = c * SectorsPerMiB - b * SectorsPerMiB
    BY <1>8, SizesAssumption
  <1>10. gpt_entry_get_size(w) = (c - b) * SectorsPerMiB
    BY <1>4, <1>6, <1>7, <1>9
  <1>11. orig.last_usable_lba \in Nat /\ Behind(orig) \in Nat
    BY <1>2, <1>4
  <1>12. \E x \in Nat : gpt_entry_get_size(w) = x * SectorsPerMiB
    BY <1>9, <1>10
  <1> QED BY <1>1, <1>2, <1>6, <1>7, <1>11, <1>12 DEF w

\* The space counted on is behind Windows, or it is less than a MiB.
LEMMA CountedOn ==
    ASSUME Scanned, orig # NoTable, pc # "prepare", Tidy(orig),
           opts.free_size = gpt_find_contiguous_free_space(orig).size
    PROVE  /\ TotalFree \in Int
           /\ TotalFree <= Behind(orig) \/ TotalFree < SectorsPerMiB
  <1> DEFINE w == orig.entries[opts.msdata_index]
             n == num_pentries(orig)
             v == [i \in DOMAIN orig.entries |->
                     IF i \in AndroidEntries(orig) THEN gpt_entry_get_size(orig.entries[i]) ELSE 0]
  <1>1. /\ opts.msdata_index \in InUse(orig) /\ w.first_lba \in Nat /\ w.last_lba \in Nat
        /\ w.last_lba <= orig.last_usable_lba /\ orig.last_usable_lba \in Nat
        /\ IsSound(orig) /\ SectorsPerMiB \in Nat \ {0}
    BY TidyWindows, SizesAssumption DEF Scanned, Fit
  <1>2. n \in Nat /\ DOMAIN orig.entries = 1 .. n
    BY <1>1 DEF IsSound, IsTable, IsShape
  <1>3. \A i \in InUse(orig) : gpt_entry_get_size(orig.entries[i]) \in Nat \ {0}
    BY FitInWord DEF Scanned
  <1>4. opts.android_size = RunningSums(v)[Len(v)]
    BY DEF Scanned, check_for_android
  <1>5. AndroidEntries(orig) \subseteq InUse(orig) /\ InUse(orig) \subseteq 1 .. n
    BY <1>2 DEF AndroidEntries, InUse
  <1>6. \A i \in AndroidEntries(orig) :
            /\ w.last_lba + 1 <= orig.entries[i].first_lba
            /\ orig.entries[i].last_lba <= orig.last_usable_lba
    <2> SUFFICES ASSUME NEW i \in AndroidEntries(orig)
                 PROVE  /\ w.last_lba + 1 <= orig.entries[i].first_lba
                        /\ orig.entries[i].last_lba <= orig.last_usable_lba
      OBVIOUS
    <2>1. i \in InUse(orig) /\ orig.entries[i].first_lba > w.first_lba
      BY <1>5 DEF Tidy, AndroidEntries
    <2>2. orig.entries[i].first_lba \in Nat /\ orig.entries[i].last_lba <= orig.last_usable_lba
      BY <1>1, <2>1 DEF IsSound, IsTable, InRange, InUse
    <2>3. i # opts.msdata_index /\ w.first_lba <= orig.entries[i].first_lba
      BY <1>1, <2>1, <2>2
    <2>4. w.last_lba < orig.entries[i].first_lba
      BY <1>1, <2>1, <2>3, InOrder
    <2> QED BY <1>1, <2>2, <2>4
  <1>7. CASE opts.android_size # 0
    <2>1. v \in [1 .. n -> Int]
      BY <1>2, <1>3, <1>5
    <2>2. \A i \in 1 .. n :
            v[i] = IF i \in AndroidEntries(orig) THEN gpt_entry_get_size(orig.entries[i]) ELSE 0
      BY <1>2
    <2>3. Len(v) = n
      BY <1>2, <2>1
    <2> HIDE DEF v
    <2>4. w.last_lba + 1 \in Nat /\ w.last_lba + 1 <= orig.last_usable_lba + 1
      BY <1>1
    <2>5. RunningSums(v)[n] <= (orig.last_usable_lba + 1) - (w.last_lba + 1)
      <3>1. orig.last_usable_lba \in Int /\ AndroidEntries(orig) \subseteq InUse(orig)
        BY <1>1, <1>5
      <3> HIDE DEF w
      <3> QED BY <1>1, <1>6, <2>1, <2>2, <2>4, <3>1, SizesFit
    <2>6. RunningSums(v)[n] \in Int
      BY <1>2, <2>1, SumsStep DEF n
    <2>7. Behind(orig) = orig.last_usable_lba - w.last_lba
      BY DEF Behind
    <2>8. TotalFree = RunningSums(v)[n]
      BY <1>4, <1>7, <2>3 DEF TotalFree
    <2> HIDE DEF w
    <2> QED BY <1>1, <2>5, <2>6, <2>7, <2>8
  <1>8. CASE opts.android_size = 0
    <2> DEFINE g == gpt_find_contiguous_free_space(orig)
    <2>1. TotalFree = g.size
      BY <1>8 DEF TotalFree
    <2>2. \A a \in FreeSectors(orig) :
              (a .. a + SectorsPerMiB - 1) \subseteq FreeSectors(orig) => a > w.first_lba
      BY DEF Tidy
    <2>3. g.size < SectorsPerMiB \/ g.size <= orig.last_usable_lba - w.last_lba
      BY <1>1, <2>2, BehindOrSmall
    <2>4. g.size \in Nat
      BY <1>1, FreeSpaceFound
    <2> QED BY <2>1, <2>3, <2>4 DEF Behind
  <1> QED BY <1>7, <1>8

\* What windows_max_size leaves behind Windows is enough, also when the space counted on is
\* less than a MiB in front of it: all sizes are whole numbers of MiB then.
LEMMA ResizeLeaves ==
    ASSUME NEW behind \in Nat, NEW free \in Int, NEW k \in Nat \ {0}, NEW c \in Nat, NEW m \in Nat,
           free <= behind \/ free < SectorsPerMiB,
           IF k * SectorsPerMiB - free > 0
           THEN m * SectorsPerMiB <= c * SectorsPerMiB - (k * SectorsPerMiB - free)
           ELSE m * SectorsPerMiB <= c * SectorsPerMiB
    PROVE  behind + (c * SectorsPerMiB - m * SectorsPerMiB) >= k * SectorsPerMiB
  <1>1. SectorsPerMiB \in Nat \ {0}
    BY SizesAssumption
  <1>2. /\ k * SectorsPerMiB \in Nat /\ c * SectorsPerMiB \in Nat /\ m * SectorsPerMiB \in Nat
        /\ SectorsPerMiB <= k * SectorsPerMiB
    BY <1>1
  <1>3. CASE free <= behind
    BY <1>2, <1>3
  <1>4. CASE free < SectorsPerMiB
    <2>1. m * SectorsPerMiB <= c * SectorsPerMiB - (k * SectorsPerMiB - free)
      BY <1>1, <1>2, <1>4
    <2>2. m * SectorsPerMiB + k * SectorsPerMiB < c * SectorsPerMiB + SectorsPerMiB
      BY <1>1, <1>2, <1>4, <2>1
    <2>3. (m + k) * SectorsPerMiB < (c + 1) * SectorsPerMiB
      BY <1>1, <2>2
    <2>4. m + k < c + 1
      BY <1>1, <2>3
    <2>5. (m + k) * SectorsPerMiB <= c * SectorsPerMiB
      BY <1>1, <2>4
    <2>6. m * SectorsPerMiB + k * SectorsPerMiB <= c * SectorsPerMiB
      BY <1>1, <2>5
    <2> QED BY <1>2, <2>6
  <1> QED BY <1>3, <1>4

\* Steps after which nothing is promised, or the same.
LEMMA PromiseKept ==
    ASSUME Promise, UNCHANGED <<mode, sectors, orig, opts>>, pc \notin {"prepare", "cli"},
           \/ pc' \in {"dead", "mkpart", "write", "done"} /\ why' # "space"
           \/ pc' = pc /\ UNCHANGED <<mem, why>>
           \/ pc' \in {"dead", "mkpart", "write", "done"} /\ UNCHANGED why
    PROVE  Promise'
  BY DEF Promise, Tidy, UsableForWipe, Need, get_all_space_required, get_partial_space_required,
         Answered, Granted, Behind, Cleared, OldAndroid

\* Before the scan nothing has been asked.
LEMMA InitPromise == Init => Promise
  BY DEF Init, Promise, NoOpts

\* The scan.
LEMMA PreparePromise == IInv /\ LInv /\ Promise /\ Prepare => Promise'
  <1> SUFFICES ASSUME IInv, LInv, Promise, Prepare, mode = "interactive"
               PROVE  Promise'
    BY DEF Promise, Prepare
  <1>1. /\ pc = "prepare" /\ pc' = "cli" /\ ondisk = orig /\ why = "none" /\ ~opts.dualboot
        /\ opts.windows_resize = 0 /\ UNCHANGED <<mode, orig, why>>
        /\ opts = [x \in OptNames |-> opts[x]]
    BY DEF Prepare, IInv, OnDisk, Options, LInv, Control, Promise
  <1>2. CASE orig = NoTable
    <2>1. UNCHANGED opts
      BY <1>1, <1>2 DEF Prepare
    <2>2. opts.msdata_size = 0 /\ opts.msdata_minsize = 0
      BY <1>1, <1>2 DEF Promise
    <2>3. Questioned'
      BY <1>1, <1>2, <2>1, <2>2 DEF Questioned
    <2> QED BY <1>1, <2>1, <2>3 DEF Promise
  <1>3. CASE orig # NoTable
    <2> DEFINE reserved == check_for_ptn(orig, "ms_reserved")
               data     == reserved + 1
    <2>1. PICK minsize \in IF reserved # 0 /\ mode = "interactive"
                           THEN get_ntfs_min_size(data, orig) ELSE {0} :
            opts' = [opts EXCEPT
                !.msdata_index   = IF reserved = 0 THEN 0 ELSE data,
                !.msdata_size    = IF reserved = 0 THEN 0
                                   ELSE gpt_entry_get_size(orig.entries[data]),
                !.msdata_minsize = minsize,
                !.esp_index      = check_for_ptn(orig, "esp"),
                !.esp_size       = IF check_for_ptn(orig, "esp") = 0 THEN 0 ELSE
                                   mib_align(gpt_entry_get_size(
                                               orig.entries[check_for_ptn(orig, "esp")])),
                !.android_size   = check_for_android(orig),
                !.free_size      = gpt_find_contiguous_free_space(orig).size]
      BY <1>1, <1>3 DEF Prepare
    <2>2. minsize \in {0, ntfs.min}
      BY DEF get_ntfs_min_size
    <2> HIDE DEF reserved, data
    <2>3. /\ opts'.dualboot = opts.dualboot
          /\ opts'.windows_resize = opts.windows_resize
          /\ opts'.free_size = gpt_find_contiguous_free_space(orig).size
          /\ opts'.msdata_minsize = minsize
          /\ opts'.msdata_size = IF reserved = 0 THEN 0 ELSE gpt_entry_get_size(orig.entries[data])
          /\ opts'.msdata_index = IF reserved = 0 THEN 0 ELSE data
      BY <1>1, <2>1 DEF OptNames
    <2>4. Questioned'
      BY <1>1, <1>3, <2>2, <2>3 DEF Questioned, IInv, Found
    <2> QED BY <1>1, <1>3, <2>3, <2>4 DEF Promise
  <1> QED BY <1>2, <1>3

\* The answers of the user: a wipe is compared with what is needed, and Windows is not left
\* larger than windows_max_size.
LEMMA CliPromise == IInv /\ LInv /\ Promise /\ (CliDualBoot \/ CliWipe) => Promise'
  <1> SUFFICES ASSUME IInv, LInv, Promise, CliDualBoot \/ CliWipe, mode = "interactive"
               PROVE  Promise'
    BY DEF Promise, CliDualBoot, CliWipe
  <1>1. /\ pc = "cli" /\ ~opts.dualboot /\ opts.windows_resize = 0 /\ Questioned
        /\ UNCHANGED <<mode, sectors, orig>> /\ pc' \in {"execute", "dead"} /\ why' # "space"
        /\ opts = [x \in OptNames |-> opts[x]] /\ Scanned
    BY DEF CliDualBoot, CliWipe, Dies, Promise, LInv, Control, IInv, Options
  <1>2. CASE pc' = "dead" /\ UNCHANGED opts
    BY <1>1, <1>2 DEF Promise
  <1>3. CASE CliWipe /\ pc' = "execute"
    <2>1. UNCHANGED opts /\ UsableForWipe >= get_all_space_required(FALSE)
      BY <1>3 DEF CliWipe, Dies
    <2>2. UsableForWipe' >= Need'
      BY <1>1, <2>1
      DEF Need, UsableForWipe, get_all_space_required, get_partial_space_required
    <2> QED BY <1>1, <1>3, <2>1, <2>2 DEF Promise
  <1>4. CASE CliDualBoot /\ pc' = "execute"
    <2>1. /\ opts'.dualboot /\ opts'.esp_index = opts.esp_index /\ opts'.esp_size = opts.esp_size
          /\ opts'.msdata_index = opts.msdata_index /\ opts'.msdata_minsize = opts.msdata_minsize
          /\ opts.msdata_size # 0
          /\ ~must_resize \/ (CanResize /\ windows_max_size >= opts.msdata_minsize)
          /\ \/ CanResize /\ \E mib \in NewWindowsSizes :
                                opts'.windows_resize = mib * SectorsPerMiB
             \/ ~must_resize /\ opts'.windows_resize = 0
      BY <1>1, <1>4 DEF CliDualBoot, Dies, OptNames
    <2>2. /\ orig # NoTable
          /\ opts.msdata_size = gpt_entry_get_size(orig.entries[opts.msdata_index])
          /\ opts.free_size = gpt_find_contiguous_free_space(orig).size
      BY <1>1, <2>1 DEF Questioned
    <2>3. ASSUME Tidy(orig), opts.esp_index # 0
          PROVE  LET new == opts'.windows_resize
                 IN  IF new = 0 THEN Behind(orig) >= get_all_space_required(TRUE)
                     ELSE /\ new \in Nat /\ new % SectorsPerMiB = 0
                          /\ Behind(orig) + (opts.msdata_size - new) >= get_all_space_required(TRUE)
      <3>1. PICK k \in Nat \ {0} : get_all_space_required(TRUE) = k * SectorsPerMiB
        BY <1>1, <2>3, NeedDual
      <3>2. Behind(orig) \in Nat /\ \E c \in Nat : opts.msdata_size = c * SectorsPerMiB
        BY <1>1, <2>2, <2>3, TidyWindows
      <3>3. PICK c \in Nat : opts.msdata_size = c * SectorsPerMiB
        BY <3>2
      <3>4. TotalFree \in Int /\ (TotalFree <= Behind(orig) \/ TotalFree < SectorsPerMiB)
        BY <1>1, <2>2, <2>3, CountedOn
      <3>5. /\ must_resize <=> k * SectorsPerMiB - TotalFree > 0
            /\ windows_max_size = IF must_resize
                                  THEN c * SectorsPerMiB - (k * SectorsPerMiB - TotalFree)
                                  ELSE c * SectorsPerMiB
        <4>1. c * SectorsPerMiB - 0 = c * SectorsPerMiB
          BY SizesAssumption
        <4> QED BY <3>1, <3>3, <4>1 DEF must_resize, windows_max_size, Shortage
      <3>6. k * SectorsPerMiB \in Nat /\ SectorsPerMiB <= k * SectorsPerMiB
            /\ c * SectorsPerMiB \in Nat
        BY SizesAssumption
      <3>7. windows_max_size \in Int
        BY <3>4, <3>5, <3>6
      <3>8. ASSUME opts'.windows_resize = 0, ~must_resize
            PROVE  Behind(orig) >= k * SectorsPerMiB
        <4>1. ~(k * SectorsPerMiB - TotalFree > 0)
          BY <3>5, <3>8
        <4>2. TotalFree >= k * SectorsPerMiB
          BY <3>4, <3>6, <4>1
        <4>3. TotalFree <= Behind(orig)
          BY <3>4, <3>6, <4>2, SizesAssumption
        <4> QED BY <3>2, <3>4, <3>6, <4>2, <4>3
      <3>9. CASE ~must_resize /\ opts'.windows_resize = 0
        BY <3>1, <3>8, <3>9
      <3>10. CASE CanResize /\ \E mib \in NewWindowsSizes :
                                 opts'.windows_resize = mib * SectorsPerMiB
        <4>1. PICK mib \in NewWindowsSizes : opts'.windows_resize = mib * SectorsPerMiB
          BY <3>10
        <4>2. /\ mib \in 0 .. to_mib_floor(windows_max_size)
              /\ mib >= to_mib(opts.msdata_minsize) \/ mib = to_mib_floor(windows_max_size)
          BY DEF NewWindowsSizes
        <4>3. /\ to_mib_floor(windows_max_size) \in Int
              /\ to_mib_floor(windows_max_size) * SectorsPerMiB <= windows_max_size
              /\ windows_max_size < to_mib_floor(windows_max_size) * SectorsPerMiB + SectorsPerMiB
          BY <3>7, ToMibFloor
        <4>4. mib \in Nat /\ mib <= to_mib_floor(windows_max_size)
          BY <4>2, <4>3
        <4>5. mib * SectorsPerMiB \in Nat /\ mib * SectorsPerMiB <= windows_max_size
          <5>1. mib * SectorsPerMiB <= to_mib_floor(windows_max_size) * SectorsPerMiB
                /\ mib * SectorsPerMiB \in Nat
                /\ to_mib_floor(windows_max_size) * SectorsPerMiB \in Int
            BY <4>3, <4>4, MibOrder
          <5> QED BY <3>7, <4>3, <5>1
        <4>6. Behind(orig) + (c * SectorsPerMiB - mib * SectorsPerMiB) >= k * SectorsPerMiB
          <5>1. IF k * SectorsPerMiB - TotalFree > 0
                THEN mib * SectorsPerMiB <= c * SectorsPerMiB - (k * SectorsPerMiB - TotalFree)
                ELSE mib * SectorsPerMiB <= c * SectorsPerMiB
            BY <3>5, <4>5
          <5> HIDE DEF must_resize, windows_max_size
          <5> QED BY <3>2, <3>4, <4>4, <5>1, ResizeLeaves
        <4>7. (mib * SectorsPerMiB) % SectorsPerMiB = 0
          BY <4>4, SizesAssumption
        <4>8. CASE opts'.windows_resize = 0
          <5>1. ~must_resize
            <6> SUFFICES ASSUME must_resize
                         PROVE  FALSE
              OBVIOUS
            <6>1. opts.msdata_minsize \in Nat /\ opts.msdata_minsize >= SectorsPerMiB
              <7>1. opts.msdata_minsize >= SectorsPerMiB
                BY <2>3, <3>10 DEF CanResize, Tidy
              <7>2. opts.msdata_minsize \in Nat
                BY <1>1 DEF Questioned
              <7> QED BY <7>1, <7>2
            <6>2. windows_max_size >= SectorsPerMiB
              BY <2>1, <3>7, <6>1, SizesAssumption
            <6>3. mib = 0
              BY <4>1, <4>4, <4>8, SizesAssumption
            <6>4. to_mib(opts.msdata_minsize) # 0
              BY <6>1, ToMib, SizesAssumption
            <6>5. to_mib_floor(windows_max_size) # 0
              BY <3>7, <4>3, <6>2, SizesAssumption
            <6>6. to_mib(opts.msdata_minsize) \in Nat
              BY <6>1, ToMib
            <6> QED BY <4>2, <6>3, <6>4, <6>5, <6>6
          <5> QED BY <3>1, <3>8, <4>8, <5>1
        <4>9. CASE opts'.windows_resize # 0
          BY <3>1, <3>3, <4>1, <4>5, <4>6, <4>7, <4>9
        <4> QED BY <4>8, <4>9
      <3> QED BY <2>1, <3>9, <3>10
    <2>4. Tidy(orig)' => Tidy(orig)
      BY <1>1, <2>1 DEF Tidy
    <2>5. Need' = get_all_space_required(TRUE)
      BY <2>1 DEF Need, get_all_space_required, get_partial_space_required
    <2>6. Behind(orig)' = Behind(orig)
      BY <1>1, <2>1 DEF Behind
    <2>7. ASSUME Tidy(orig)', opts'.esp_index # 0
          PROVE  Answered'
      BY <1>1, <2>1, <2>2, <2>3, <2>4, <2>5, <2>6, <2>7 DEF Answered
    <2> QED BY <1>1, <1>4, <2>1, <2>2, <2>7 DEF Promise
  <1> QED BY <1>2, <1>3, <1>4 DEF CliDualBoot, CliWipe, Dies

\* Whole numbers of MiB add up to one.
LEMMA WholeSum ==
    ASSUME NEW a \in Nat, NEW b \in Nat, a % SectorsPerMiB = 0, b % SectorsPerMiB = 0
    PROVE  (a + b) % SectorsPerMiB = 0
  <1>1. SectorsPerMiB \in Nat \ {0}
    BY SizesAssumption
  <1>2. PICK x \in Nat : a = x * SectorsPerMiB
    BY <1>1
  <1>3. PICK y \in Nat : b = y * SectorsPerMiB
    BY <1>1
  <1>4. a + b = (x + y) * SectorsPerMiB
    BY <1>1, <1>2, <1>3
  <1>5. x + y \in Nat /\ ((x + y) * SectorsPerMiB) % SectorsPerMiB = 0
    BY <1>1
  <1> QED BY <1>4, <1>5

\* The table is read, or made; the entry of Windows gets what the user allowed.
LEMMA ExecutePromise ==
    IInv /\ LInv /\ Promise /\ (ExecuteDualBoot \/ ExecuteWipe \/ ResizeNtfs) => Promise'
  <1> SUFFICES ASSUME IInv, LInv, Promise, mode = "interactive",
                      ExecuteDualBoot \/ ExecuteWipe \/ ResizeNtfs
               PROVE  Promise'
    BY DEF Promise, ExecuteDualBoot, ExecuteWipe, ResizeNtfs
  <1> DEFINE n == opts.msdata_index
             w == orig.entries[n]
  <1>1. /\ pc \in {"execute", "resize"} /\ ondisk = orig /\ Scanned
        /\ UNCHANGED <<mode, sectors, orig, opts>>
        /\ opts.dualboot => orig # NoTable
    BY DEF ExecuteDualBoot, ExecuteWipe, ResizeNtfs, IInv, OnDisk, LInv, Promise
  <1>2. CASE pc' = "dead"
    <2>1. why' # "space"
      BY <1>1, <1>2 DEF ExecuteDualBoot, ExecuteWipe, ResizeNtfs, Dies, LInv, Control
    <2> QED BY <1>1, <1>2, <2>1, PromiseKept
  <1>3. CASE ExecuteWipe /\ pc' # "dead"
    <2>1. /\ pc = "execute" /\ ~opts.dualboot /\ pc' = "space" /\ UNCHANGED why
          /\ mem' = gpt_new(sectors, TableSectors, NewEntries)
      BY <1>3 DEF ExecuteWipe, Dies
    <2>2. UsableForWipe' = UsableForWipe /\ Need' = Need
      BY <1>1 DEF UsableForWipe, Need, get_all_space_required, get_partial_space_required
    <2> QED BY <1>1, <2>1, <2>2 DEF Promise
  <1>4. /\ (Tidy(orig)' => Tidy(orig)) /\ Need' = Need /\ Behind(orig)' = Behind(orig)
        /\ (Answered => Answered')
    BY <1>1 DEF Tidy, Need, get_all_space_required, get_partial_space_required, Behind, Answered
  <1>5. ASSUME opts.dualboot, opts.esp_index # 0, Tidy(orig)
        PROVE  Answered /\ why # "space"
    BY <1>1, <1>5 DEF Promise
  <1>6. CASE ExecuteDualBoot /\ pc' = "resize"
    <2>1. opts.dualboot /\ opts.esp_index # 0 /\ UNCHANGED why
      BY <1>6 DEF ExecuteDualBoot, Dies
    <2> QED BY <1>1, <1>4, <1>5, <1>6, <2>1 DEF Promise
  <1>7. ASSUME opts.dualboot, opts.esp_index # 0, pc' = "delete", UNCHANGED why,
               Tidy(orig) => Granted'
        PROVE  Promise'
    BY <1>1, <1>4, <1>5, <1>7 DEF Promise
  <1>8. CASE ExecuteDualBoot /\ pc' = "delete"
    <2>1. opts.dualboot /\ opts.esp_index # 0 /\ UNCHANGED why /\ mem' = orig
          /\ opts.windows_resize = 0
      BY <1>1, <1>8 DEF ExecuteDualBoot, Dies
    <2>2. ASSUME Tidy(orig)
          PROVE  Granted'
      <3>1. (w.last_lba + 1) % SectorsPerMiB = 0
        BY <2>2 DEF Tidy
      <3>2. Behind(orig) >= Need
        BY <1>5, <2>1, <2>2 DEF Answered
      <3>3. Behind(mem)' = Behind(orig)
        BY <1>1, <2>1 DEF Behind
      <3> QED BY <1>1, <1>4, <2>1, <3>1, <3>2, <3>3 DEF Granted
    <2> QED BY <1>7, <1>8, <2>1, <2>2
  <1>9. CASE ResizeNtfs /\ pc' = "delete"
    <2> DEFINE new  == opts.windows_resize
               last == ShrunkLast(mem.entries[n].first_lba, new)
    <2>1. /\ opts.dualboot /\ mem = orig /\ orig # NoTable /\ new # 0
          /\ mem' = [mem EXCEPT !.entries[n].last_lba = last] /\ UNCHANGED why
          /\ opts.esp_index # 0
      BY <1>1, <1>9 DEF ResizeNtfs, Dies, IInv, Edited, Scanned
    <2>2. ASSUME Tidy(orig)
          PROVE  Granted'
      <3>1. /\ n \in DOMAIN orig.entries /\ IsShape(orig) /\ w.first_lba \in Nat /\ w.last_lba \in Nat
            /\ w.first_lba % SectorsPerMiB = 0 /\ orig.last_usable_lba \in Nat
            /\ gpt_entry_get_size(w) = (w.last_lba + 1) - w.first_lba
        BY <1>1, <2>1, <2>2, TidyWindows
        DEF Scanned, Fit, IsSound, IsTable, InUse, Tidy, gpt_entry_get_size
      <3>2. /\ new \in Nat /\ new % SectorsPerMiB = 0
            /\ Behind(orig) + (gpt_entry_get_size(w) - new) >= Need
        BY <1>5, <2>1, <2>2 DEF Answered
      <3>3. mem' = WithLast(orig, n, last)
        BY <2>1 DEF WithLast
      <3>4. last = w.first_lba + new - 1
        BY <2>1 DEF ShrunkLast
      <3> HIDE DEF last
      <3>5. SameFrame(mem', orig) /\ mem'.entries[n].last_lba = last
        BY <3>1, <3>3, LastSet
      <3>6. Behind(mem)' = orig.last_usable_lba - last
        BY <1>1, <3>5 DEF Behind, SameFrame
      <3>7. Behind(orig) = orig.last_usable_lba - w.last_lba
        BY DEF Behind
      <3> HIDE DEF w, new, n
      <3>8. Behind(mem)' = Behind(orig) + (gpt_entry_get_size(w) - new)
        BY <3>1, <3>2, <3>4, <3>6, <3>7
      <3>9. last + 1 = w.first_lba + new
        BY <3>1, <3>2, <3>4
      <3>10. (last + 1) % SectorsPerMiB = 0
        <4>1. (w.first_lba + new) % SectorsPerMiB = 0
          BY <3>1, <3>2, WholeSum
        <4> QED BY <3>9, <4>1
      <3>11. /\ mem'.first_usable_lba = orig.first_usable_lba
             /\ mem'.last_usable_lba = orig.last_usable_lba
        BY <3>5 DEF SameFrame
      <3> QED BY <1>1, <1>4, <3>2, <3>5, <3>8, <3>10, <3>11 DEF Granted, n
    <2> QED BY <1>7, <1>9, <2>1, <2>2
  <1> QED BY <1>2, <1>3, <1>6, <1>8, <1>9 DEF ExecuteDualBoot, ResizeNtfs, Dies

\* The old Android goes, and with it all that was behind Windows.
LEMMA DeletePromise == IInv /\ LInv /\ Memory' /\ Promise /\ DeleteAndroid => Promise'
  <1> SUFFICES ASSUME IInv, LInv, Memory', Promise, mode = "interactive", DeleteAndroid
               PROVE  Promise'
    BY DEF Promise, DeleteAndroid
  <1> DEFINE n == opts.msdata_index
  <1>1. /\ pc = "delete" /\ pc' = "space" /\ opts.dualboot /\ orig # NoTable
        /\ UNCHANGED <<mode, sectors, orig, why>> /\ Scanned
        /\ \A i \in InUse(orig) : mem.entries[i].name = orig.entries[i].name
        /\ IsShape(mem) /\ Kept(mem) /\ InUse(mem) \subseteq InUse(orig)
        /\ opts.esp_index # 0
    BY DEF DeleteAndroid, IInv, Edited, LInv, Scanned, Memory
  <1>2. /\ opts'.dualboot /\ opts'.msdata_index = n /\ opts'.esp_size = opts.esp_size
        /\ opts'.msdata_minsize = opts.msdata_minsize
    BY <1>1 DEF DeleteAndroid, IInv, Options, OptNames
  <1>3. mem' = mem \/ mem' = delete_android(mem)
    BY DEF DeleteAndroid
  <1>4. /\ SameFrame(mem', mem)
        /\ \A i \in DOMAIN mem.entries \ AndroidEntries(mem) : mem'.entries[i] = mem.entries[i]
        /\ \A i \in InUse(mem') : i \in InUse(mem) /\ mem'.entries[i] = mem.entries[i]
    <2>1. CASE mem' = mem
      BY <1>1, <2>1 DEF SameFrame
    <2>2. CASE mem' = delete_android(mem)
      <3>1. /\ SameFrame(mem', mem)
            /\ \A i \in DOMAIN mem.entries :
                  IF i \in AndroidEntries(mem) THEN mem'.entries[i] = ZeroEntry
                  ELSE mem'.entries[i] = mem.entries[i]
        BY <1>1, <2>2, Deleted DEF delete_android
      <3> QED BY <3>1 DEF InUse, SameFrame, ZeroEntry
    <2> QED BY <1>3, <2>1, <2>2
  <1>5. ASSUME Tidy(orig)
        PROVE  Granted' /\ Cleared'
    <2>1. n \in InUse(orig) /\ ~IsAndroid(orig.entries[n].name)
          /\ orig.entries[n].first_lba \in Nat
      BY <1>1, <1>5, TidyWindows DEF Tidy
    <2>2. n \in DOMAIN mem.entries /\ n \notin AndroidEntries(mem)
      <3>1. n \in DOMAIN mem.entries
        BY <1>1, <2>1 DEF Kept, KeptEntry, OldAndroid, IsAndroid
      <3> QED BY <1>1, <2>1, <3>1 DEF AndroidEntries
    <2>3. mem'.entries[n] = mem.entries[n]
      BY <1>4, <2>2
    <2>4. Need' = Need
      BY <1>1, <1>2 DEF Need, get_all_space_required, get_partial_space_required
    <2>5. Granted
      BY <1>1, <1>5 DEF Promise
    <2>6. Granted'
      BY <1>1, <1>2, <1>4, <2>3, <2>4, <2>5 DEF Granted, Behind, SameFrame
    <2>7. ASSUME NEW i \in InUse(mem')
          PROVE  i \in InUse(orig) /\ ~OldAndroid(orig.entries[i])
      <3>1. i \in InUse(orig) /\ mem'.entries[i].name = orig.entries[i].name
        BY <1>1, <1>4, <2>7
      <3>2. ~OldAndroid(mem'.entries[i])
        BY <1>1, <2>7 DEF Memory
      <3> QED BY <3>1, <3>2 DEF OldAndroid
    <2>8. Cleared'
      BY <1>1, <2>7 DEF Cleared, OldAndroid
    <2> QED BY <2>6, <2>8
  <1>6. Tidy(orig)' => Tidy(orig) /\ why # "space"
    BY <1>1, <1>2 DEF Tidy, Promise
  <1> QED BY <1>1, <1>2, <1>5, <1>6 DEF Promise

\* In the region that a table of the wipe leaves there is what was reckoned with.
LEMMA WipeFits ==
    ASSUME Scanned, NEW need \in Nat, UsableForWipe >= need * SectorsPerMiB, need # 0
    PROVE  LET g == gpt_find_contiguous_free_space(gpt_new(sectors, TableSectors, NewEntries))
           IN  g.size # 0 /\ to_mib_floor(g.end + 1) - to_mib(g.start) >= need
  <1> DEFINE t    == gpt_new(sectors, TableSectors, NewEntries)
             g    == gpt_find_contiguous_free_space(t)
             last == LastGap(t)
  <1>1. /\ sectors \in Nat /\ TableSectors \in Nat /\ NewEntries \in Nat
        /\ SectorsPerMiB \in Nat \ {0} /\ TableSectors + 2 <= SectorsPerMiB
    BY SizesAssumption DEF Scanned
  <1>2. IsSound(t) /\ InUse(t) = {}
    BY <1>1, NewIsSound
  <1>3. /\ t.first_usable_lba = 2 + TableSectors
        /\ t.last_usable_lba = sectors - (2 + TableSectors)
    BY <1>1 DEF gpt_new
  <1>4. last.size = (t.last_usable_lba + 1) - t.first_usable_lba
    BY <1>2 DEF LastGap, Base, Region
  <1> HIDE DEF t
  <1>5. need * SectorsPerMiB \in Nat /\ SectorsPerMiB <= need * SectorsPerMiB
    BY <1>1
  <1>6. sectors - 2 * SectorsPerMiB >= need * SectorsPerMiB
    BY DEF UsableForWipe
  <1>7. last.size > 0
    BY <1>1, <1>3, <1>4, <1>5, <1>6
  <1>8. /\ g.start \in Nat /\ g.end \in Int /\ g.size \in Nat
        /\ g.size # 0 => /\ g.size = (g.end + 1) - g.start
                         /\ t.first_usable_lba <= g.start
                         /\ g.end <= t.last_usable_lba
        /\ last.size <= g.size
    BY <1>2, FreeSpaceFound
  <1> HIDE DEF g, last
  <1>9. /\ g.size # 0 /\ g.start = 2 + TableSectors
        /\ g.end + 1 = sectors - (1 + TableSectors)
    BY <1>1, <1>3, <1>4, <1>7, <1>8
  <1>10. to_mib(g.start) = 1
    <2>1. to_mib(g.start) = (g.start + SectorsPerMiB - 1) \div SectorsPerMiB
      BY DEF to_mib
    <2>2. SectorsPerMiB <= g.start + SectorsPerMiB - 1
          /\ g.start + SectorsPerMiB - 1 < SectorsPerMiB + SectorsPerMiB
      BY <1>1, <1>9
    <2> QED BY <1>1, <1>8, <2>1, <2>2
  <1>11. to_mib_floor(g.end + 1) >= need + 1
    <2>1. (need + 1) * SectorsPerMiB = need * SectorsPerMiB + SectorsPerMiB
      BY <1>1
    <2>2. (need + 1) * SectorsPerMiB <= g.end + 1
      BY <1>1, <1>5, <1>6, <1>9, <2>1
    <2>3. g.end + 1 \in Int
      BY <1>8
    <2>4. /\ to_mib_floor(g.end + 1) \in Int
          /\ g.end + 1 < to_mib_floor(g.end + 1) * SectorsPerMiB + SectorsPerMiB
      BY <2>3, ToMibFloor
    <2>5. need + 1 <= to_mib_floor(g.end + 1)
      <3> SUFFICES ASSUME to_mib_floor(g.end + 1) <= need
                   PROVE  FALSE
        BY <2>4
      <3>1. to_mib_floor(g.end + 1) * SectorsPerMiB <= need * SectorsPerMiB
            /\ to_mib_floor(g.end + 1) * SectorsPerMiB \in Int
        BY <2>4, MibOrder
      <3> QED BY <1>1, <1>5, <2>1, <2>2, <2>3, <2>4, <3>1
    <2> QED BY <2>4, <2>5
  <1>12. to_mib_floor(g.end + 1) \in Int
    BY <1>8, ToMibFloor
  <1> QED BY <1>9, <1>10, <1>11, <1>12 DEF g, t

\* In the region behind Windows, once it is cleared, there is what was reckoned with.
LEMMA DualFits ==
    ASSUME IInv, LInv, pc = "space", opts.dualboot, Tidy(orig), Granted, Cleared,
           NEW need \in Nat, Need = need * SectorsPerMiB, need # 0
    PROVE  LET g == gpt_find_contiguous_free_space(mem)
           IN  g.size # 0 /\ to_mib_floor(g.end + 1) - to_mib(g.start) >= need
  <1> DEFINE n     == opts.msdata_index
             first == orig.entries[n].first_lba
             last  == mem.entries[n].last_lba
             to    == mem.last_usable_lba
             g     == gpt_find_contiguous_free_space(mem)
  <1>1. /\ orig # NoTable /\ Kept(mem) /\ Scanned /\ IsSound(mem) /\ IsSound(orig)
        /\ SectorsPerMiB \in Nat \ {0}
    BY SizesAssumption DEF IInv, Edited, LInv, Scanned, Memory, Fit
  <1>2. /\ n \in InUse(orig) /\ first \in Nat \ {0} /\ ~OldAndroid(orig.entries[n])
        /\ ~IsAndroid(orig.entries[n].name)
    BY <1>1, TidyWindows DEF Tidy, IsAndroid, OldAndroid
  <1>3. \A i \in InUse(orig) :
            ~OldAndroid(orig.entries[i]) =>
                /\ i \in DOMAIN mem.entries
                /\ mem.entries[i].first_lba = orig.entries[i].first_lba
                /\ i # n => mem.entries[i].last_lba = orig.entries[i].last_lba
    BY <1>1 DEF Kept, KeptEntry
  <1>4. n \in InUse(mem) /\ mem.entries[n].first_lba = first
    BY <1>2, <1>3 DEF InUse
  <1>5. /\ last \in Nat /\ first <= last /\ last <= to /\ to \in Int
        /\ mem.first_usable_lba \in Nat
    BY <1>1, <1>2, <1>4 DEF IsSound, IsTable, InRange, InUse
  <1>6. ASSUME NEW a \in FreeSectors(mem), (a .. a + SectorsPerMiB - 1) \subseteq FreeSectors(mem)
        PROVE  a > mem.entries[n].first_lba
    <2> SUFFICES ASSUME a <= first
                 PROVE  FALSE
      <3>1. a \in Int
        BY <1>5 DEF FreeSectors
      <3> QED BY <1>2, <1>4, <3>1
    <2>1. a \in Int /\ mem.first_usable_lba <= a
      BY <1>5 DEF FreeSectors
    <2>2. first \notin FreeSectors(mem)
      <3>1. first \in Sectors(mem.entries[n])
        BY <1>2, <1>4, <1>5 DEF Sectors
      <3> QED BY <1>4, <3>1 DEF FreeSectors
    <2>3. \A x \in a .. a + SectorsPerMiB - 1 : x < first
      <3> SUFFICES ASSUME NEW x \in a .. a + SectorsPerMiB - 1, x >= first
                   PROVE  FALSE
        BY <1>2, <2>1
      <3>1. first \in a .. a + SectorsPerMiB - 1
        BY <1>1, <1>2, <2>1
      <3> QED BY <1>6, <2>2, <3>1
    <2>4. ASSUME NEW x \in a .. a + SectorsPerMiB - 1
          PROVE  x \in FreeSectors(orig)
      <3>1. x \in FreeSectors(mem) /\ x \in Int /\ x < first
        BY <1>1, <1>6, <2>1, <2>3
      <3>2. x \in orig.first_usable_lba .. orig.last_usable_lba
        BY <3>1 DEF FreeSectors, Granted
      <3>3. ASSUME NEW i \in InUse(orig), x \in Sectors(orig.entries[i])
            PROVE  FALSE
        <4>1. orig.entries[i].first_lba \in Nat /\ orig.entries[i].last_lba \in Nat
              /\ orig.entries[i].first_lba <= x /\ x <= orig.entries[i].last_lba
              /\ orig.entries[i].first_lba # 0
          BY <1>1, <3>1, <3>3 DEF IsSound, IsTable, InUse, Sectors
        <4>2. i # n /\ ~(orig.entries[i].first_lba > first)
          BY <1>2, <3>1, <4>1
        <4>3. ~OldAndroid(orig.entries[i])
          BY <4>2 DEF Tidy, IsAndroid, OldAndroid
        <4>4. i \in InUse(mem) /\ x \in Sectors(mem.entries[i])
          BY <1>3, <3>1, <3>3, <4>1, <4>2, <4>3 DEF InUse, Sectors
        <4> QED BY <3>1, <4>4 DEF FreeSectors
      <3> QED BY <3>2, <3>3 DEF FreeSectors
    <2>5. a \in a .. a + SectorsPerMiB - 1
      BY <1>1, <2>1
    <2>6. a \in FreeSectors(orig) /\ (a .. a + SectorsPerMiB - 1) \subseteq FreeSectors(orig)
      BY <2>4, <2>5
    <2>7. a > first
      BY <2>6 DEF Tidy
    <2> QED BY <2>3, <2>5, <2>7, <1>2, <2>1
  <1>7. \A i \in InUse(mem) : mem.entries[i].first_lba <= mem.entries[n].first_lba
    <2> SUFFICES ASSUME NEW i \in InUse(mem)
                 PROVE  mem.entries[i].first_lba <= first
      BY <1>4
    <2>1. i \in InUse(orig) /\ ~OldAndroid(orig.entries[i])
      BY DEF Cleared
    <2>2. mem.entries[i].first_lba = orig.entries[i].first_lba
      BY <1>3, <2>1
    <2>3. ~(orig.entries[i].first_lba > first)
      BY <2>1 DEF Tidy, IsAndroid, OldAndroid
    <2>4. orig.entries[i].first_lba \in Nat
      BY <1>1, <2>1 DEF IsSound, IsTable, InUse
    <2> QED BY <1>2, <2>2, <2>3, <2>4
  <1>8. need * SectorsPerMiB \in Nat /\ SectorsPerMiB <= need * SectorsPerMiB
    BY <1>1
  <1>9. to - last >= need * SectorsPerMiB
    BY DEF Granted, Behind
  <1>10. SectorsPerMiB <= to - last
    BY <1>1, <1>5, <1>8, <1>9
  <1>11. g.start = last + 1 /\ g.end = to /\ g.size = to - last
    <2> HIDE DEF n
    <2> QED BY <1>1, <1>4, <1>6, <1>7, <1>10, AllBehind
  <1>12. PICK c \in Nat : last + 1 = c * SectorsPerMiB
    <2>1. (last + 1) % SectorsPerMiB = 0
      BY DEF Granted
    <2> HIDE DEF last
    <2> QED BY <1>1, <1>5, <2>1
  <1> HIDE DEF g, to, last
  <1>13. to_mib(g.start) = c
    BY <1>11, <1>12, ToMibExact
  <1>14. to_mib_floor(g.end + 1) \in Int /\ to_mib_floor(g.end + 1) >= c + need
    <2>1. g.end + 1 \in Int
      BY <1>5, <1>11
    <2>2. /\ to_mib_floor(g.end + 1) \in Int
          /\ g.end + 1 < to_mib_floor(g.end + 1) * SectorsPerMiB + SectorsPerMiB
      BY <2>1, ToMibFloor
    <2>3. (c + need) * SectorsPerMiB = c * SectorsPerMiB + need * SectorsPerMiB
          /\ c * SectorsPerMiB \in Int
      <3>1. c \in Int /\ need \in Int
        OBVIOUS
      <3> QED BY <3>1, MibOrder
    <2>4. (c + need) * SectorsPerMiB <= g.end + 1
      BY <1>5, <1>8, <1>9, <1>11, <1>12, <2>3
    <2> SUFFICES ASSUME to_mib_floor(g.end + 1) < c + need
                 PROVE  FALSE
      BY <2>2
    <2>5. to_mib_floor(g.end + 1) * SectorsPerMiB + SectorsPerMiB <= (c + need) * SectorsPerMiB
          /\ to_mib_floor(g.end + 1) * SectorsPerMiB \in Int /\ (c + need) * SectorsPerMiB \in Int
      BY <2>2, MibOrder
    <2> QED BY <1>1, <2>1, <2>2, <2>4, <2>5
  <1>15. g.size # 0
    BY <1>1, <1>5, <1>8, <1>9, <1>11
  <1> QED BY <1>13, <1>14, <1>15 DEF g

\* What was accepted is not refused: create_android_partitions finds what was reckoned with.
LEMMA SpacePromise == IInv /\ LInv /\ Promise /\ PlanSpace => Promise'
  <1> SUFFICES ASSUME IInv, LInv, Promise, PlanSpace
               PROVE  Promise'
    OBVIOUS
  <1> DEFINE g         == gpt_find_contiguous_free_space(mem)
             start_mb  == to_mib(g.start)
             end_mb    == to_mib_floor(g.end + 1)
             available == (end_mb - start_mb) % Word
             need      == SpaceNeededMb + MIN_DATA_PART_SIZE
  <1>1. /\ pc = "space" /\ UNCHANGED <<mode, sectors, orig, opts>> /\ Scanned /\ why = "none"
        /\ IsSound(mem) /\ mem.last_usable_lba < sectors
    BY DEF PlanSpace, LInv, Memory, Fit, Control
  <1>2. CASE why' # "space" /\ pc' \in {"dead", "mkpart"}
    BY <1>1, <1>2, PromiseKept
  <1>3. CASE ~(mode = "interactive" /\ (opts.dualboot => Tidy(orig)))
    BY <1>1, <1>3 DEF PlanSpace, Promise, Tidy, Dies
  <1>4. CASE mode = "interactive" /\ (opts.dualboot => Tidy(orig))
    <2>1. need \in Nat \ {0} /\ Need = need * SectorsPerMiB
      BY <1>1, SettledIn, NeedSettled DEF Laying
    <2> HIDE DEF need
    <2>2. g.size # 0 /\ end_mb - start_mb >= need
      <3>1. CASE opts.dualboot
        BY <1>1, <1>4, <2>1, <3>1, DualFits DEF Promise
      <3>2. CASE ~opts.dualboot
        <4>1. mem = gpt_new(sectors, TableSectors, NewEntries) /\ UsableForWipe >= Need
          BY <1>1, <1>4, <3>2 DEF Promise
        <4> QED BY <1>1, <2>1, <4>1, WipeFits
      <3> QED BY <3>1, <3>2
    <2>3. available >= need
      <3>1. /\ g.start \in Nat /\ g.end \in Int /\ g.size \in Nat
            /\ g.size # 0 => g.size = (g.end + 1) - g.start /\ g.end <= mem.last_usable_lba
        BY <1>1, FreeSpaceFound
      <3>2. mem.last_usable_lba \in Int /\ sectors \in Nat /\ sectors < MibWord
        BY <1>1 DEF IsSound, Scanned
      <3> HIDE DEF g
      <3>3. start_mb \in Nat
        BY <3>1, ToMib
      <3>4. g.end + 1 \in Nat /\ g.end + 1 <= MibWord /\ g.end + 1 < MibWord + 1
        BY <1>1, <2>2, <3>1, <3>2, WordFacts
      <3>5. end_mb \in Nat /\ end_mb <= g.end + 1
        BY <3>4, ToMibFloor
      <3> HIDE DEF start_mb, end_mb
      <3>6. end_mb < Word
        BY <1>1, <2>2, <3>1, <3>2, <3>5, WordFacts
      <3>7. end_mb - start_mb \in Nat /\ end_mb - start_mb < Word
        BY <2>1, <2>2, <3>3, <3>5, <3>6, WordFacts
      <3>8. (end_mb - start_mb) % Word = end_mb - start_mb
        BY <3>7, WordFacts
      <3> QED BY <2>2, <3>8
    <2>4. why' = why /\ pc' = "mkpart"
      <3>1. ~(g.size = 0) /\ ~(available < need)
        <4>1. available \in Int
          <5>1. end_mb \in Int /\ start_mb \in Int
            <6>1. g.start \in Nat /\ g.end \in Int
              BY <1>1, FreeSpaceFound
            <6> HIDE DEF g
            <6> QED BY <6>1, ToMib, ToMibFloor
          <5> HIDE DEF start_mb, end_mb
          <5> QED BY <5>1, WordFacts
        <4> HIDE DEF available
        <4> QED BY <2>1, <2>2, <2>3, <4>1
      <3> QED BY <3>1 DEF PlanSpace, need
    <2> QED BY <1>1, <1>2, <2>4
  <1> QED BY <1>3, <1>4

\* All three invariants together are inductive.
LEMMA InductivePromise == Spec => [](IInv /\ LInv /\ Promise)
  <1>1. ASSUME IInv, LInv, Promise, [Next]_vars
        PROVE  Promise'
    <2>1. CASE Prepare
      BY <1>1, <2>1, PreparePromise
    <2>2. CASE CliDualBoot \/ CliWipe
      BY <1>1, <2>2, CliPromise
    <2>3. CASE ExecuteDualBoot \/ ExecuteWipe \/ ResizeNtfs
      BY <1>1, <2>3, ExecutePromise
    <2>4. CASE DeleteAndroid
      BY <1>1, <2>4, LayoutStep, DeletePromise
    <2>5. CASE PlanSpace
      BY <1>1, <2>5, SpacePromise
    <2>6. CASE MkPart
      <3>1. /\ pc = "mkpart" /\ UNCHANGED <<mode, sectors, orig, opts>> /\ why = "none"
            /\ pc' \in {"mkpart", "dead"} /\ why' # "space"
        BY <1>1, <2>6 DEF MkPart, Dies, LInv, Control
      <3> QED BY <1>1, <3>1, PromiseKept
    <2>7. CASE FinishTable \/ WriteTable
      <3>1. /\ pc \in {"mkpart", "write"} /\ UNCHANGED <<mode, sectors, orig, opts>> /\ why = "none"
            /\ pc' \in {"write", "done", "dead"} /\ why' # "space"
        BY <1>1, <2>7 DEF FinishTable, WriteTable, Dies, LInv, Control
      <3> QED BY <1>1, <3>1, PromiseKept
    <2>8. CASE UNCHANGED vars
      BY <1>1, <2>8
      DEF vars, Promise, Tidy, UsableForWipe, Need, get_all_space_required,
          get_partial_space_required, Questioned, Answered, Granted, Behind, Cleared, OldAndroid
    <2> QED BY <1>1, <2>1, <2>2, <2>3, <2>4, <2>5, <2>6, <2>7, <2>8 DEF Next
  <1>2. IInv /\ LInv /\ [Next]_vars => LInv'
    BY ControlStep, ScannedStep, PositionStep, LayoutStep, WrittenStep DEF LInv
  <1> QED BY <1>1, <1>2, InitIInv, InitLInv, InitPromise, NextIInv, PTL DEF Spec

-----------------------------------------------------------------------------
(* The theorems *)

\* A dual boot moves, retypes or renames nobody else's partition, and only ever
\* shortens the one of Windows.
THEOREM ForeignStays == Spec => []ForeignKept
  <1>1. IInv => ForeignKept
    <2> SUFFICES ASSUME IInv, opts.dualboot, orig # NoTable
                 PROVE  Kept(ondisk)
      BY DEF ForeignKept, Kept, KeptEntry
    <2>1. Kept(orig)
      BY OrigKept DEF IInv
    <2> QED BY <2>1 DEF IInv, OnDisk
  <1> QED BY <1>1, Inductive, PTL

\* Whatever fails between ntfsresize and gpt_write, the volume fits its partition.
THEOREM VolumeFits == Spec => []NtfsFits
  <1>1. IInv => NtfsFits
    <2> SUFFICES ASSUME IInv, ntfs.index # 0, opts.dualboot \/ ondisk = orig
                 PROVE  ntfs.size <= gpt_entry_get_size(ondisk.entries[ntfs.index])
      BY DEF NtfsFits
    <2> QED BY DEF IInv, Found, OnDisk, Holds
  <1> QED BY <1>1, Inductive, PTL

\* The counters, the reasons and the indices are what they should be: the table in memory
\* holds unsigned numbers of the word they have in the source, and an index that is recorded
\* for a partition is one of an entry, in use unless the space was miscounted.
THEOREM TypeCorrect == Spec => []TypeOK
  <1>1. LInv => TypeOK
    BY DEF LInv, Control, Early, Laying, Position, Memory, Sane, Indexed, TypeOK
  <1> QED BY <1>1, InductiveLayout, PTL

\* The free space that create_android_partitions starts from is the largest there is,
\* whatever partitions the walk of gpt_find_contiguous_free_space meets.
THEOREM GapFound == Spec => []GapIsLargest
  <1>1. LInv => GapIsLargest
    <2> SUFFICES ASSUME LInv, pc = "space"
                 PROVE  IsLargestGap(gpt_find_contiguous_free_space(mem), mem)
      BY DEF GapIsLargest
    <2>1. IsSound(mem)
      BY DEF LInv, Memory, Fit
    <2> QED BY <2>1, WalkFindsLargest
  <1> QED BY <1>1, InductiveLayout, PTL

\* Although gpt_entry_create compares a partition with nothing, the table that gpt_write puts
\* on the disk has no two partitions on one sector and none outside the usable range.
THEOREM NewTableSound == Spec => []NewTableIsSound
  <1>1. LInv => NewTableIsSound
    BY DEF LInv, Written, NewTableIsSound, IsSound
  <1> QED BY <1>1, InductiveLayout, PTL

\* An installation that completes has laid out every partition of the list.
THEOREM AndroidIsComplete == Spec => []AndroidComplete
  <1>1. ASSUME IInv, LInv, pc = "done", ~Wrapped
        PROVE  /\ \A k \in DOMAIN PartList :
                     LET p == PartList[k]
                         e == mem.entries[index[p.name]]
                     IN  /\ index[p.name] \in InUse(mem)
                         /\ e.name = AndroidName(p.name)
                         /\ p.name \notin Bootloaders =>
                              IF p.len < 0
                              THEN gpt_entry_get_size(e) >= MIN_DATA_PART_SIZE * SectorsPerMiB
                              ELSE gpt_entry_get_size(e) = p.len * SectorsPerMiB
                         /\ p.name = "bootloader" => e.type = "esp"
                         /\ p.name = "bootloader2" =>
                              gpt_entry_get_size(e) >=
                                gpt_entry_get_size(mem.entries[index["bootloader"]])
               /\ {i \in InUse(mem) : OldAndroid(mem.entries[i])}
                     \subseteq {index[p] : p \in PartNames}
    <2> DEFINE n    == Len(PartList)
               bl   == opts.bootloader_len
               esp  == opts.esp_index
    <2>1. /\ n \in Nat /\ DOMAIN PartList = 1 .. n
          /\ \A j \in 1 .. n : PartList[j].len \in Int \ {0} /\ PartList[j].name \in PartNames
      BY PartListFacts
    <2>2. /\ Fit(mem) /\ Reckoned /\ Progress /\ mk.k = n + 1 /\ mk.k - 1 = n
          /\ opts.dualboot => mem.entries[esp].name = AndroidName("bootloader")
      BY <1>1, <2>1 DEF LInv, Layout
    <2>3. Settled
      BY <1>1, SettledIn DEF LInv, Laying
    <2>4. ASSUME NEW j \in 1 .. n, ~SkipsBootloader(PartList[j])
          PROVE  MadeEntry(j)
      BY <2>2, <2>4 DEF Progress
    <2>5. ASSUME NEW j \in 1 .. n, PartList[j].name = "bootloader"
          PROVE  PartList[j].type = "esp"
      <3>1. PICK k \in 1 .. n : PartList[k].name = "bootloader" /\ PartList[k].type = "esp"
        BY <2>1, PartListAssumption
      <3>2. k = j
        BY <2>1, <2>5, <3>1, PartListAssumption
      <3> QED BY <3>1, <3>2
    \* The bootloader of a dual boot is the ESP, which is where it was and no longer.
    <2>6. ASSUME opts.dualboot
          PROVE  /\ esp \in InUse(mem) /\ index["bootloader"] = esp
                 /\ mem.entries[esp].type = "esp"
                 /\ gpt_entry_get_size(mem.entries[esp]) <= bl * SectorsPerMiB
      <3>1. /\ index["bootloader"] = esp /\ esp # 0 /\ orig # NoTable /\ esp \in InUse(orig)
            /\ orig.entries[esp].type = "esp" /\ ~OldAndroid(orig.entries[esp])
            /\ opts.esp_size = mib_align(gpt_entry_get_size(orig.entries[esp]))
            /\ Fit(orig)
        BY <1>1, <2>6 DEF LInv, Memory, Scanned, Laying
      <3>2. esp \in InUse(mem)
        <4>1. Sane
          BY <1>1 DEF LInv, Memory, Editing
        <4> QED BY <1>1, <3>1, <4>1, PartListFacts DEF Sane, Indexed
      <3>3. KeptEntry(mem, esp)
        <4>1. Kept(mem)
          <5>1. ondisk = mem /\ (ondisk = orig \/ Kept(ondisk))
            BY <1>1, <2>6, <3>1 DEF LInv, Written, IInv, OnDisk
          <5>2. Kept(orig)
            BY <1>1, <3>1, OrigKept DEF IInv
          <5> QED BY <5>1, <5>2
        <4> QED BY <3>1, <4>1 DEF Kept
      <3> DEFINE size == gpt_entry_get_size(orig.entries[esp])
      <3>4. size \in Nat \ {0}
        BY <1>1, <3>1, FitInWord DEF LInv
      <3>5. gpt_entry_get_size(mem.entries[esp]) <= size
        <4>1. /\ mem.entries[esp].first_lba = orig.entries[esp].first_lba
              /\ mem.entries[esp].last_lba <= orig.entries[esp].last_lba
                   \/ mem.entries[esp].last_lba = orig.entries[esp].last_lba
          BY <3>3 DEF KeptEntry
        <4>2. /\ mem.entries[esp].last_lba \in Nat
              /\ orig.entries[esp].first_lba \in Nat /\ orig.entries[esp].last_lba \in Nat
          BY <2>2, <3>1, <3>2 DEF Fit, IsSound, IsTable, InUse
        <4> QED BY <4>1, <4>2 DEF gpt_entry_get_size
      <3> HIDE DEF size
      <3>6. gpt_entry_get_size(mem.entries[esp]) \in Nat
        BY <1>1, <2>2, <3>2, FitInWord DEF LInv
      <3>7. bl * SectorsPerMiB = to_mib(size) * SectorsPerMiB
        BY <2>3, <2>6, <3>1 DEF Settled, mib_align, size
      <3>8. size <= to_mib(size) * SectorsPerMiB /\ to_mib(size) * SectorsPerMiB \in Nat
        BY <3>4, ToMib, MibOrder
      <3> QED BY <3>1, <3>2, <3>3, <3>4, <3>5, <3>6, <3>7, <3>8 DEF KeptEntry
    <2>7. ASSUME NEW j \in 1 .. n, SkipsBootloader(PartList[j])
          PROVE  /\ PartList[j].name = "bootloader" /\ opts.dualboot
                 /\ index["bootloader"] \in InUse(mem)
                 /\ mem.entries[index["bootloader"]].name = AndroidName("bootloader")
                 /\ mem.entries[index["bootloader"]].type = "esp"
      BY <2>2, <2>6, <2>7 DEF SkipsBootloader
    <2>8. /\ bl \in Nat /\ MIN_DATA_PART_SIZE \in Nat
          /\ \A j \in 1 .. n : Planned[j] \in Nat
          /\ \A j \in 1 .. n :
                LET p == PartList[j]
                IN  ~SkipsBootloader(p) =>
                      /\ p.name \in Bootloaders => Planned[j] = bl
                      /\ p.name \notin Bootloaders /\ p.len > 0 => Planned[j] = p.len
                      /\ p.name \notin Bootloaders /\ p.len < 0 => Planned[j] >= MIN_DATA_PART_SIZE
      <3>1. Planned \in [1 .. n -> Nat]
        BY <2>2, <2>3, PlannedFits
      <3>2. bl \in Nat /\ MIN_DATA_PART_SIZE \in Nat
        BY <2>3, SizesAssumption DEF Settled
      <3>3. \A j \in 1 .. n :
                LET p == PartList[j]
                IN  ~SkipsBootloader(p) =>
                      /\ p.name \in Bootloaders => Planned[j] = bl
                      /\ p.name \notin Bootloaders /\ p.len > 0 => Planned[j] = p.len
                      /\ p.name \notin Bootloaders /\ p.len < 0 => Planned[j] >= MIN_DATA_PART_SIZE
        BY <2>2, <2>3, PlannedFits
      <3> QED BY <3>1, <3>2, <3>3
    <2>9. gpt_entry_get_size(mem.entries[index["bootloader"]]) <= bl * SectorsPerMiB
      <3>1. CASE opts.dualboot
        BY <2>6, <3>1
      <3>2. CASE ~opts.dualboot
        <4>1. PICK j \in 1 .. n : PartList[j].name = "bootloader"
          BY <2>1, PartListAssumption
        <4>2. ~SkipsBootloader(PartList[j])
          BY <3>2 DEF SkipsBootloader
        <4>3. gpt_entry_get_size(mem.entries[index["bootloader"]]) = Planned[j] * SectorsPerMiB
          BY <2>4, <4>1, <4>2 DEF MadeEntry
        <4>4. Planned[j] = bl
          BY <2>8, <4>1, <4>2 DEF Bootloaders
        <4>5. bl * SectorsPerMiB \in Int
          <5>1. bl \in Int
            BY <2>8
          <5> QED BY <5>1, MibOrder
        <4> QED BY <4>3, <4>4, <4>5
      <3> QED BY <3>1, <3>2
    <2>10. ASSUME NEW j \in 1 .. n
           PROVE  LET p == PartList[j]
                      e == mem.entries[index[p.name]]
                  IN  /\ index[p.name] \in InUse(mem)
                      /\ e.name = AndroidName(p.name)
                      /\ p.name \notin Bootloaders =>
                           IF p.len < 0
                           THEN gpt_entry_get_size(e) >= MIN_DATA_PART_SIZE * SectorsPerMiB
                           ELSE gpt_entry_get_size(e) = p.len * SectorsPerMiB
                      /\ p.name = "bootloader" => e.type = "esp"
                      /\ p.name = "bootloader2" =>
                           gpt_entry_get_size(e) >=
                             gpt_entry_get_size(mem.entries[index["bootloader"]])
      <3> DEFINE p    == PartList[j]
                 e    == mem.entries[index[p.name]]
                 size == gpt_entry_get_size(e)
                 boot == gpt_entry_get_size(mem.entries[index["bootloader"]])
      <3>1. CASE SkipsBootloader(p)
        <4>1. p.name = "bootloader" /\ p.name \in Bootloaders /\ p.name # "bootloader2"
          BY <2>7, <3>1 DEF Bootloaders
        <4> QED BY <2>7, <3>1, <4>1
      <3>2. CASE ~SkipsBootloader(p)
        <4>1. /\ index[p.name] \in InUse(mem) /\ e.name = AndroidName(p.name)
              /\ e.type = p.type /\ size = Planned[j] * SectorsPerMiB
          BY <2>4, <3>2 DEF MadeEntry
        <4>2. p.name = "bootloader" => p.type = "esp"
          BY <2>5
        <4>3. p.len \in Int \ {0}
          BY <2>1
        <4>4. ASSUME p.name \notin Bootloaders
              PROVE  IF p.len < 0 THEN size >= MIN_DATA_PART_SIZE * SectorsPerMiB
                                  ELSE size = p.len * SectorsPerMiB
          <5>1. CASE p.len < 0
            <6>1. Planned[j] >= MIN_DATA_PART_SIZE /\ Planned[j] \in Nat
              BY <2>8, <3>2, <4>4, <5>1
            <6>2. MIN_DATA_PART_SIZE * SectorsPerMiB <= Planned[j] * SectorsPerMiB
              <7>1. MIN_DATA_PART_SIZE \in Int /\ Planned[j] \in Int
                BY <2>8, <6>1
              <7> QED BY <6>1, <7>1, MibOrder
            <6>3. MIN_DATA_PART_SIZE * SectorsPerMiB \in Int /\ Planned[j] * SectorsPerMiB \in Int
              <7>1. MIN_DATA_PART_SIZE \in Int /\ Planned[j] \in Int
                BY <2>8, <6>1
              <7> QED BY <7>1, MibOrder
            <6> QED BY <4>1, <5>1, <6>2, <6>3
          <5>2. CASE ~(p.len < 0)
            <6>1. p.len > 0
              BY <4>3, <5>2
            <6>2. Planned[j] = p.len
              BY <2>8, <3>2, <4>4, <6>1
            <6> QED BY <4>1, <5>2, <6>2
          <5> QED BY <5>1, <5>2
        <4>5. ASSUME p.name = "bootloader2"
              PROVE  size >= boot
          <5>1. Planned[j] = bl
            BY <2>8, <3>2, <4>5 DEF Bootloaders
          <5>2. size = bl * SectorsPerMiB
            BY <4>1, <5>1
          <5>3. boot <= bl * SectorsPerMiB
            BY <2>9
          <5> QED BY <5>2, <5>3
        <4> QED BY <4>1, <4>2, <4>4, <4>5
      <3> QED BY <3>1, <3>2
    <2>11. {i \in InUse(mem) : OldAndroid(mem.entries[i])} \subseteq {index[p] : p \in PartNames}
      <3> SUFFICES ASSUME NEW i \in InUse(mem), OldAndroid(mem.entries[i])
                   PROVE  \E p \in PartNames : i = index[p]
        OBVIOUS
      <3>1. PICK j \in 1 .. n : i = index[PartList[j].name]
        BY <2>2 DEF Progress
      <3> QED BY <2>1, <3>1
    <2> QED BY <2>1, <2>10, <2>11
  <1>2. IInv /\ LInv => AndroidComplete
    <2> SUFFICES ASSUME IInv, LInv, pc = "done", ~Wrapped
                 PROVE  AndroidComplete
      BY DEF AndroidComplete
    <2>1. ondisk = mem
      BY DEF LInv, Written
    <2> QED BY <1>1, <2>1 DEF AndroidComplete
  <1> QED BY <1>2, InductiveLayout, PTL

\* What the user was asked and granted is not refused after Windows has been shrunk: the sums
\* of the questions agree with those of the execution, on every tidy disk and for every wipe.
THEOREM AcceptedHasRoom == Spec => []AcceptedFits
  <1>1. Promise => AcceptedFits
    BY DEF Promise, AcceptedFits
  <1> QED BY <1>1, InductivePromise, PTL

=============================================================================
