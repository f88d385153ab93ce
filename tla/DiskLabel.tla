----------------------------- MODULE DiskLabel ------------------------------
(***************************************************************************)
(* editdisklbl: the host tool that puts an MBR partition table and the     *)
(* partitions' images into a disk image file.  diskconfig.c checks the     *)
(* layout, config_mbr.c turns it into a list of writes (four partitions in *)
(* the MBR, or three and a chain of extended boot records), write_lst.c    *)
(* performs the writes and editdisklbl.c copies the images.                *)
(*                                                                         *)
(* A length of REST (the (uint32_t)-1 of the source) takes what is left.   *)
(***************************************************************************)
EXTENDS Integers, SequencesExt

CONSTANTS
    SectSize,   \* bytes of a sector
    KB,         \* 1024
    Word,       \* 2^32
    Layouts     \* the layout files and the images given for their partitions

ASSUME SectorsAssumption ==
    SectSize \in Nat \ {0} /\ KB \in Nat \ {0} /\ Word \in Nat \ {0, 1}

REST == Word - 1

VARIABLES
    dinfo,    \* struct disk_info: skip_lba, num_lba, parts (len_kb, start_lba)
    images,   \* the partitions that get an image, with its size in sectors
    mbr,      \* the four entries of the MBR of the image file
    ebr,      \* the EBR in each sector that holds one
    data,     \* the partition whose image was copied to a sector, 0 for none
    wr_lst,   \* the writes that are still to be done
    checked,  \* the writes of process_disk_config
    k,        \* the number of the image to copy next
    pc

vars == <<dinfo, images, mbr, ebr, data, wr_lst, checked, k, pc>>

Num(d) == Len(d.parts)

-----------------------------------------------------------------------------
(* Lengths *)

\* parse_len: the length in KB that "n", "nK" or "nM" gives, where n may be REST.
\* The multiple of K is not more than 1024, so it is not brought down.
parse_len(n, suffix) ==
    LET multiple == CASE suffix = "" -> 1
                      [] suffix = "K" -> KB
                      [] suffix = "M" -> KB * KB
    IN  n * (IF multiple > KB THEN multiple \div KB ELSE multiple)

kb_to_lba(len_kb) == ((len_kb * KB + SectSize - 1) \div SectSize) % Word

\* The length in KB of a partition that an image is for, rounded down.
ImageKbDown(sectors) == ((sectors * SectSize) \div KB) % Word

\* parse_args: pinfo->len_kb from the size of the image.
ImageKb(sectors) == ((sectors * SectSize + KB - 1) \div KB) % Word

-----------------------------------------------------------------------------
(* config_mbr *)

Entry(type, start, len) == [type |-> type, start |-> start, len |-> len]
NoEntry == Entry("none", 0, 0)

NoEbr == [logical |-> NoEntry, next |-> NoEntry]

\* An entry of a boot record: sectors are numbered in 32 bits.
Entries == [type : {"none", "part", "ext"}, start : 0 .. Word - 1, len : 0 .. Word - 1]

WriteEmpty           == [to |-> "mbr", at |-> 0, what |-> NoEbr]
WriteEntry(slot, e)  == [to |-> "mbr", at |-> slot, what |-> [NoEbr EXCEPT !.logical = e]]
WriteEbr(lba, b)     == [to |-> "ebr", at |-> lba, what |-> b]

NUM_BOOT_RECORD_PARTS == 4

\* wlist_add at the other end.
WlistAppend(lst, item) == Append(lst, item)

\* wlist_add
wlist_add(lst, item) == <<item>> \o lst

\* sz_lba of the check for space: the rounding comes before the scaling.
CheckedSize(len_kb) == ((len_kb \div SectSize) * KB) % Word

\* "Not enough space to add partition": `extended' is 1 if an EBR is needed.
NoSpace(d, len_kb, lba, extended) ==
    /\ d.num_lba # 0
    /\ \/ (lba + extended) % Word >= d.num_lba
       \/ len_kb # REST /\ (lba + CheckedSize(len_kb) + extended) % Word > d.num_lba

\* The rest of the disk without the wrap of uint32_t.
PartLenSigned(d, p, lba) ==
    IF p.len_kb # REST THEN kb_to_lba(p.len_kb) ELSE d.num_lba - lba

\* mk_pri_pentry and mk_ext_pentry: the length of a partition, in sectors.
PartLen(d, p, lba) ==
    IF p.len_kb # REST THEN kb_to_lba(p.len_kb) ELSE (d.num_lba - lba) % Word

\* The data of a logical partition on top of its EBR.
DataLbaOnEbr(lba, extended) == lba

\* The sector behind the EBR, if there is one.
DataLba(lba, extended) == (lba + extended) % Word

\* next_start_lba, from the start of the disk.
NextStartAbsolute(lba, ext_lba) == lba

\* next_start_lba counts from the start of the extended partition.
NextStart(lba, ext_lba) == (lba - ext_lba) % Word

\* mk_ext_pentry's bookkeeping, with the size rounded up.
KeptKbUp(len) == ((len * SectSize + KB - 1) \div KB) % Word

\* "update the pinfo structure to reflect the new size"
KeptKb(len) == ((len * SectSize) \div KB) % Word

\* `extended', 1 from the fourth of more than four partitions on.
Extended(d, i) == IF Num(d) > NUM_BOOT_RECORD_PARTS /\ i >= NUM_BOOT_RECORD_PARTS THEN 1 ELSE 0

\* The extended partition is made in front of the first partition in it.
Opens(d, i) == i = NUM_BOOT_RECORD_PARTS /\ i < Num(d)

\* No space for a partition, or (mk_ext_pentry) one that follows what takes the rest.
Refuses(acc, i) ==
    LET d == acc.d
        p == d.parts[i]
    IN  \/ NoSpace(d, p.len_kb, acc.lba, Extended(d, i))
        \/ Extended(d, i) = 1 /\ p.len_kb = REST /\ i < Num(d)

\* What an EBR says of the next one.
NextEntry(d, i, after, ext_lba) ==
    IF i = Num(d) THEN NoEntry
    ELSE Entry("ext", NextStart(after, ext_lba),
               IF d.parts[i + 1].len_kb # REST
               THEN (1 + kb_to_lba(d.parts[i + 1].len_kb)) % Word
               ELSE (d.num_lba - after) % Word)

\* One turn of config_mbr's loop: acc has the next free sector, the start of the
\* extended partition, the writes, the partitions and whether all went well.
AddPartition(acc, i) ==
    LET d       == acc.d
        p       == d.parts[i]
        ext     == Extended(d, i)
        ext_lba == IF Opens(d, i) THEN acc.lba ELSE acc.ext_lba
        lst     == IF Opens(d, i)
                   THEN wlist_add(acc.lst, WriteEntry(i, Entry("ext", acc.lba,
                                                               (d.num_lba - acc.lba) % Word)))
                   ELSE acc.lst
        start   == DataLba(acc.lba, ext)
        len     == PartLen(d, p, start)
        after   == (start + len) % Word
        write   == IF ext = 0 THEN WriteEntry(i, Entry("part", start, len))
                   ELSE WriteEbr(acc.lba, [logical |-> Entry("part", 1, len),
                                           next |-> NextEntry(d, i, after, ext_lba)])
        kept    == IF ext = 1 /\ p.len_kb = REST THEN KeptKb(len) ELSE p.len_kb
    IN  IF ~acc.ok \/ Refuses(acc, i)
        THEN [acc EXCEPT !.ok = FALSE]
        ELSE [ok |-> TRUE, lba |-> after, ext_lba |-> ext_lba, lst |-> wlist_add(lst, write),
              d |-> [d EXCEPT !.parts[i].start_lba = start, !.parts[i].len_kb = kept]]

\* A blank entry, as far as the fourth.
AddBlank(acc, i) == [acc EXCEPT !.lst = wlist_add(acc.lst, WriteEntry(i, NoEntry))]

\* Up to four entries of the MBR are always written.
LastTurn(d) == IF Num(d) > NUM_BOOT_RECORD_PARTS THEN Num(d) ELSE NUM_BOOT_RECORD_PARTS

\* The two loops of config_mbr, turn by turn.
Turns(d) ==
    LET start == [ok |-> TRUE, lba |-> d.skip_lba, ext_lba |-> 0, lst |-> << >>, d |-> d]
        turn[i \in 0 .. LastTurn(d)] ==
            IF i = 0 THEN start
            ELSE IF i <= Num(d) THEN AddPartition(turn[i - 1], i)
            ELSE AddBlank(turn[i - 1], i)
    IN  turn

\* config_mbr: the loops, and in front of it all the empty table.
config_mbr(d) ==
    LET made == Turns(d)[LastTurn(d)]
    IN  [made EXCEPT !.lst = wlist_add(made.lst, WriteEmpty)]

\* validate, for the regular file that parse_args insists on: no limit to the
\* sizes, and a length of zero passes (the branch that refuses it is under
\* len_kb == REST).
validate(d) ==
    \A i \in 1 .. Num(d) : d.parts[i].len_kb = REST => i = Num(d)

-----------------------------------------------------------------------------
(* The program *)

\* What load_diskconfig accepts: a start that is not 0 and lengths of 32 bits (0 where
\* the file gives none).  An image size of 0 says that the partition gets no image: a file
\* of length 0, which would make the length of its partition 0, is left out.
ASSUME LayoutsAssumption ==
    \A l \in Layouts :
        /\ l.skip_lba \in 1 .. Word - 1 /\ l.num_lba \in 0 .. Word - 1
        /\ l.file_lba \in 0 .. Word - 1
        /\ l.parts \in Seq([n : Nat, suffix : {"", "K", "M"}])
        /\ \A i \in DOMAIN l.parts : parse_len(l.parts[i].n, l.parts[i].suffix) < Word
        /\ l.images \in [DOMAIN l.parts -> Nat]
        /\ l.mbr \in [1 .. NUM_BOOT_RECORD_PARTS -> Entries]

\* load_diskconfig and parse_args: the size of an image, in KB, replaces the
\* length of its partition.
Loaded(l) ==
    [skip_lba |-> l.skip_lba,
     num_lba  |-> l.num_lba,
     parts    |-> [i \in DOMAIN l.parts |->
                     [start_lba |-> 0,
                      len_kb |-> IF l.images[i] # 0
                                 THEN ImageKb(l.images[i])
                                 ELSE parse_len(l.parts[i].n, l.parts[i].suffix)]]]

Init ==
    /\ \E l \in Layouts :
          /\ dinfo = [Loaded(l) EXCEPT !.num_lba = IF @ = 0 THEN l.file_lba ELSE @]
          /\ images = l.images
          /\ mbr = l.mbr
          /\ ebr = l.ebr
    /\ data = [s \in {} |-> 0]
    /\ wr_lst = << >>
    /\ checked = << >>
    /\ k = 1
    /\ pc = "process"

\* process_disk_config; what it works out stays in the struct disk_info.
Process ==
    /\ pc = "process"
    /\ LET made == config_mbr(dinfo)
           good == validate(dinfo) /\ made.ok
       IN  /\ dinfo' = IF validate(dinfo) THEN made.d ELSE dinfo
           /\ checked' = IF good THEN made.lst ELSE << >>
           /\ pc' = IF good THEN "apply" ELSE "failed"
    /\ UNCHANGED <<images, mbr, ebr, data, wr_lst, k>>

\* apply_disk_config up to wlist_commit: the same again, on the struct that the
\* first pass has left.
Apply ==
    /\ pc = "apply"
    /\ LET made == config_mbr(dinfo)
           good == validate(dinfo) /\ made.ok
       IN  /\ dinfo' = IF validate(dinfo) THEN made.d ELSE dinfo
           /\ wr_lst' = IF good THEN made.lst ELSE << >>
           /\ pc' = IF good THEN "commit" ELSE "failed"
    /\ UNCHANGED <<images, mbr, ebr, data, checked, k>>

\* One lseek64 and write of wlist_commit.
Commit ==
    /\ pc = "commit"
    /\ wr_lst # << >>
    /\ LET w == Head(wr_lst)
       IN  /\ mbr' = IF w.to # "mbr" THEN mbr
                     ELSE IF w.at = 0 THEN [i \in 1 .. NUM_BOOT_RECORD_PARTS |-> NoEntry]
                     ELSE [mbr EXCEPT ![w.at] = w.what.logical]
           /\ ebr' = IF w.to # "ebr" THEN ebr
                     ELSE [s \in {w.at} \cup DOMAIN ebr |-> IF s = w.at THEN w.what ELSE ebr[s]]
    /\ wr_lst' = Tail(wr_lst)
    /\ UNCHANGED <<dinfo, images, data, checked, k, pc>>

Committed ==
    /\ pc = "commit"
    /\ wr_lst = << >>
    /\ pc' = "copy"
    /\ UNCHANGED <<dinfo, images, mbr, ebr, data, wr_lst, checked, k>>

\* offs: uint32_t times int is 32 bits wide.
ImageLba(i) == ((dinfo.parts[i].start_lba * SectSize) % Word) \div SectSize

\* write_raw_image for the next image: it goes over whatever the sectors hold.
CopyImage ==
    /\ pc = "copy"
    /\ k <= Len(images)
    /\ LET at == ImageLba(k) .. ImageLba(k) + images[k] - 1
       IN  /\ data' = [s \in at \cup DOMAIN data |-> IF s \in at THEN k ELSE data[s]]
           /\ ebr' = [s \in DOMAIN ebr \ at |-> ebr[s]]
           /\ mbr' = IF 0 \in at THEN [i \in 1 .. NUM_BOOT_RECORD_PARTS |-> NoEntry] ELSE mbr
    /\ k' = k + 1
    /\ UNCHANGED <<dinfo, images, wr_lst, checked, pc>>

Finish ==
    /\ pc = "copy"
    /\ k > Len(images)
    /\ pc' = "done"
    /\ UNCHANGED <<dinfo, images, mbr, ebr, data, wr_lst, checked, k>>

\* validate cannot open or fstat the device, a seek or a write fails, or the tool is
\* killed.
Fail ==
    /\ pc \in {"process", "apply", "commit", "copy"}
    /\ pc' = "failed"
    /\ UNCHANGED <<dinfo, images, mbr, ebr, data, wr_lst, checked, k>>

Next ==
    \/ Process
    \/ Apply
    \/ Commit
    \/ Committed
    \/ CopyImage
    \/ Finish
    \/ Fail

Spec == Init /\ [][Next]_vars

-----------------------------------------------------------------------------
(* How a kernel reads the table: the primary partitions by slot, and the     *)
(* logical ones along the chain, the pointers of which are relative to the   *)
(* extended partition.                                                       *)

ExtStart == LET slots == {i \in DOMAIN mbr : mbr[i].type = "ext"}
            IN  IF slots = {} THEN 0 ELSE mbr[Min(slots)].start

EbrAt(lba) == IF lba \in DOMAIN ebr THEN ebr[lba] ELSE NoEbr

\* The sector of the n-th EBR, 0 behind the end of the chain.
ChainLba(depth) ==
    LET at[n \in 1 .. depth] ==
            IF n = 1 THEN ExtStart
            ELSE IF at[n - 1] = 0 \/ EbrAt(at[n - 1]).next.type = "none" THEN 0
            ELSE (ExtStart + EbrAt(at[n - 1]).next.start) % Word
    IN  at

\* The partition with device number n (n > 4: logical), as start and length.
Partition(n) ==
    IF n <= NUM_BOOT_RECORD_PARTS
    THEN [start |-> mbr[n].start, len |-> mbr[n].len, type |-> mbr[n].type]
    ELSE LET at == ChainLba(n - NUM_BOOT_RECORD_PARTS)[n - NUM_BOOT_RECORD_PARTS]
         IN  IF at = 0 THEN NoEntry
             ELSE [start |-> (at + EbrAt(at).logical.start) % Word,
                   len |-> EbrAt(at).logical.len, type |-> EbrAt(at).logical.type]

\* The numbers in use, looked for beyond the last one of the layout.
Numbers == {n \in 1 .. Num(dinfo) + NUM_BOOT_RECORD_PARTS : Partition(n).type = "part"}

\* The position in the list.
NumberPlain(i) == i

\* find_mbr_part: the number in the device name of the i-th partition.
find_mbr_part(i) ==
    IF Num(dinfo) > NUM_BOOT_RECORD_PARTS /\ i >= NUM_BOOT_RECORD_PARTS THEN i + 1 ELSE i

-----------------------------------------------------------------------------
(* What makes it correct *)

Sectors(start, len) == start .. start + len - 1

\* The program counter and the numbers of sectors are in range.
TypeOK ==
    /\ pc \in {"process", "apply", "commit", "copy", "done", "failed"}
    /\ k \in 1 .. Num(dinfo) + 1
    /\ DOMAIN mbr = 1 .. NUM_BOOT_RECORD_PARTS
    /\ \A i \in DOMAIN mbr : mbr[i].start \in 0 .. Word - 1 /\ mbr[i].len \in 0 .. Word - 1

\* The table that is written, read back along its chain, has exactly the
\* partitions of the layout, each under the number find_mbr_part gives it and
\* at the sector its image goes to.
ReadBackIsLayout ==
    pc \in {"copy", "done"} /\ dinfo.num_lba # 0 =>
        /\ Numbers = {find_mbr_part(i) : i \in 1 .. Num(dinfo)}
        /\ \A i \in 1 .. Num(dinfo) :
             /\ Partition(find_mbr_part(i)).start = dinfo.parts[i].start_lba
             /\ dinfo.parts[i].len_kb # REST =>
                  Partition(find_mbr_part(i)).len = kb_to_lba(dinfo.parts[i].len_kb)

\* Neither two partitions nor a partition and an EBR or the MBR share a sector.
NothingShared ==
    pc \in {"copy", "done"} /\ dinfo.num_lba # 0 =>
        LET part(n) == Sectors(Partition(n).start, Partition(n).len)
            depth   == Num(dinfo) + 1
            chain   == {ChainLba(depth)[d] : d \in 1 .. depth}
        IN  /\ \A m, n \in Numbers : m # n => part(m) \cap part(n) = {}
            /\ \A n \in Numbers : part(n) \cap ({0} \cup chain) = {}

\* A tool killed between two writes leaves no table that mixes the old layout
\* with the new one: it lists partitions of the new layout, and leads into
\* the chain only once the whole chain is there.
KilledIsPartOfNew ==
    pc \in {"commit", "failed"} /\ checked # << >> /\ Len(wr_lst) \notin {0, Len(checked)} =>
        /\ Numbers \subseteq {find_mbr_part(i) : i \in 1 .. Num(dinfo)}
        /\ \A i \in 1 .. Num(dinfo) : find_mbr_part(i) \in Numbers =>
             Partition(find_mbr_part(i)).start = dinfo.parts[i].start_lba
        /\ ExtStart # 0 => \A i \in NUM_BOOT_RECORD_PARTS .. Num(dinfo) :
                              find_mbr_part(i) \in Numbers

\* What is written is what was checked: the second pass lays the partitions out
\* on the same sectors.
AppliesWhatItChecked ==
    pc = "commit" /\ Len(wr_lst) = Len(checked) =>
        \A j \in DOMAIN checked :
            /\ wr_lst[j].to = checked[j].to /\ wr_lst[j].at = checked[j].at
            /\ wr_lst[j].what.logical.start = checked[j].what.logical.start
            /\ wr_lst[j].what.logical.len <= checked[j].what.logical.len

\* "now copy the images to their appropriate locations on disk" (editdisklbl.c):
\* every image is there as a whole, from the start of the partition it is for,
\* and every sector that was copied lies in that partition.
ImagesInPlace ==
    pc = "done" =>
        /\ \A i \in DOMAIN images :
             \A s \in Sectors(dinfo.parts[i].start_lba, images[i]) :
               s \in DOMAIN data /\ data[s] = i
        /\ \A s \in DOMAIN data :
             LET p == dinfo.parts[data[s]]
             IN  s \in Sectors(p.start_lba, kb_to_lba(p.len_kb))
=============================================================================
