---------------------------- MODULE ImageWriter -----------------------------
(***************************************************************************)
(* imagewriter.c for one partition, with the loops of util.c it goes       *)
(* through: dd (robust_read and xwrite, either of which may do less than   *)
(* it is asked for), the zeroing, the file system makers and the checks.   *)
(*                                                                         *)
(* Sizes are in blocks, KB of which are a kilobyte.  A write(2) that is    *)
(* interrupted is repeated and changes nothing.  The tools, the kernel's   *)
(* read(2) and write(2) and libext4_utils are outside of the repository.   *)
(***************************************************************************)
EXTENDS Integers

CONSTANTS
    Jobs,   \* the partitions: mode, type, volume, length of the image, footer, clean
    Chunk,  \* what one read asks for (CHUNK)
    KB,     \* blocks in a kilobyte
    Word    \* values of an uint64_t

ASSUME WriterAssumption ==
    /\ Jobs \subseteq [mode : STRING, type : STRING, volume : Nat, length : Nat,
                       footer : Nat, clean : BOOLEAN]
    /\ Chunk \in Nat \ {0} /\ KB \in Nat \ {0} /\ Word \in Nat \ {0}
    /\ \A j \in Jobs : j.volume < Word /\ j.footer + KB <= Word

\* Block i of an image is i.
Old == 0
Zero == -1
Fs == -2

VARIABLES
    job,
    stage,
    device,  \* the blocks of the partition (before resize2fs moves some of them)
    rpos,    \* offset in the source
    wpos,    \* offset in the partition
    pos,     \* the block of the source at the pointer of xwrite
    left,    \* what xwrite still has to write
    cut,     \* history: an interrupted read was taken for the end of the image
    fs       \* size of the file system in blocks

copying == <<rpos, wpos, pos, left, cut>>
vars == <<job, stage, device, copying, fs>>

Blocks == 1 .. job.volume

Init ==
    /\ job \in Jobs
    /\ stage = "start"
    /\ device = [i \in Blocks |-> Old]
    /\ rpos = 0 /\ wpos = 0 /\ pos = 0 /\ left = 0
    /\ cut = FALSE
    /\ fs = 0

\* die()
Die ==
    /\ stage \notin {"done", "dead"}
    /\ stage' = "dead"
    /\ UNCHANGED <<job, device, copying, fs>>

Formats == (job.mode = "format" /\ job.type \in {"ext4", "vfat", "esp"})

\* execute_cb when the device node is there; modes and types it does not know
\* are fatal.
execute_cb ==
    /\ stage = "start"
    /\ \/ /\ Formats
          /\ stage' = "format"
          /\ device' = [i \in Blocks |-> Fs]
       \/ /\ \/ job.mode = "image" /\ stage' = "read"
             \/ job.mode = "zero"  /\ stage' = "zero"
             \/ job.mode = "skip"  /\ stage' = "done"
          /\ UNCHANGED device
    /\ UNCHANGED <<job, copying, fs>>

\* make_ext4fs_nowipe with a length of 0 - footer leaves the footer alone,
\* newfs_msdos takes the whole device.
FormatEnds ==
    /\ stage = "format"
    /\ \/ /\ job.type = "ext4"
          /\ job.footer < job.volume
          /\ fs' \in 1 .. job.volume - job.footer
       \/ /\ job.type # "ext4"
          /\ fs' = job.volume
    /\ stage' = "done"
    /\ UNCHANGED <<job, device, copying>>

-----------------------------------------------------------------------------
(* dd *)

\* What a read may return, whatever is left of the image.
FullChunk == 1 .. Chunk

Readable == {n \in 1 .. Chunk : rpos + n <= job.length}

\* robust_read with short_ok: one read(2).
Read ==
    /\ stage = "read"
    /\ \E n \in Readable :
          /\ rpos' = rpos + n
          /\ pos' = rpos + 1
          /\ left' = n
    /\ stage' = "write"
    /\ UNCHANGED <<job, device, wpos, cut, fs>>

\* read(2) returns 0 at the end of the image, and robust_read returns 0 after an
\* EINTR too: its continue comes to count && !short_ok.
ReadNothing ==
    /\ stage = "read"
    /\ \/ /\ rpos = job.length
          /\ UNCHANGED cut
       \/ /\ rpos < job.length
          /\ cut' = TRUE
    /\ stage' = IF job.type \in {"ext4", "vfat"} THEN "check" ELSE "done"
    /\ UNCHANGED <<job, device, rpos, wpos, pos, left, fs>>

\* xwrite without pos += written.
PosStays(n) == pos' = pos

PosMoves(n) == pos' = pos + n

\* One write(2) of xwrite, which may write less than is left; behind the end of the
\* device it fails with ENOSPC, which is left to Die.
Write ==
    /\ stage = "write"
    /\ \E n \in 1 .. left :
          /\ wpos + n <= job.volume
          /\ device' = [i \in Blocks |-> IF i \in wpos + 1 .. wpos + n
                                         THEN pos + (i - wpos - 1) ELSE device[i]]
          /\ wpos' = wpos + n
          /\ PosMoves(n)
          /\ left' = left - n
          /\ stage' = IF left = n THEN "read" ELSE "write"
    /\ UNCHANGED <<job, rpos, cut, fs>>

\* The zeroing left at the first write that is short.
ShortIsEnd == wpos = job.volume \/ wpos % Chunk # 0

\* ret == 0 or ENOSPC
AtEnd == wpos = job.volume

\* One turn of the zeroing loop.
WriteZero ==
    /\ stage = "zero"
    /\ \/ /\ \E n \in 1 .. Chunk :
                /\ wpos + n <= job.volume
                /\ device' = [i \in Blocks |-> IF i \in wpos + 1 .. wpos + n
                                               THEN Zero ELSE device[i]]
                /\ wpos' = wpos + n
          /\ UNCHANGED stage
       \/ /\ AtEnd
          /\ stage' = "done"
          /\ UNCHANGED <<device, wpos>>
    /\ UNCHANGED <<job, rpos, pos, left, cut, fs>>

-----------------------------------------------------------------------------
(* The checks *)

\* ext4_filesystem_checks: e2fsck -fn returns 0 for a file system without errors;
\* in one that was cut short it may overlook them.  (vfat_filesystem_checks runs
\* "/system/bin/fsck_msdos-p", the blank in front of -p being missing: the
\* shell returns 127, which is fatal.)
Check ==
    /\ stage = "check" /\ job.type = "ext4"
    /\ job.clean \/ cut
    /\ stage' = "resize"
    /\ UNCHANGED <<job, device, copying, fs>>

\* The footer forgotten.
WholeVolume == job.volume

\* get_volume_size(device) - footer
NewLength == (job.volume - job.footer) % Word

\* resize2fs to length >> 10 kilobytes fails if the device is smaller.
Resize ==
    /\ stage = "resize"
    /\ (NewLength \div KB) * KB <= job.volume
    /\ fs' = (NewLength \div KB) * KB
    /\ stage' = "tune"
    /\ UNCHANGED <<job, device, copying>>

\* tune2fs -C 1
Tune ==
    /\ stage = "tune"
    /\ stage' = "done"
    /\ UNCHANGED <<job, device, copying, fs>>

Next ==
    \/ execute_cb
    \/ FormatEnds
    \/ Read
    \/ ReadNothing
    \/ Write
    \/ WriteZero
    \/ Check
    \/ Resize
    \/ Tune
    \/ Die

Spec == Init /\ [][Next]_vars

-----------------------------------------------------------------------------
(* What makes it correct *)

\* Offsets and counts stay within the image, the chunk and the device.
TypeOK ==
    /\ job \in Jobs
    /\ stage \in {"start", "format", "read", "write", "zero", "check", "resize", "tune",
                  "done", "dead"}
    /\ device \in [Blocks -> Int]
    /\ rpos \in 0 .. job.length
    /\ wpos \in 0 .. job.volume
    /\ pos \in 0 .. job.length + 1
    /\ left \in 0 .. Chunk
    /\ cut \in BOOLEAN
    /\ fs \in Int

\* Wherever reads and writes are short and wherever it stops, what dd and the zeroing
\* have written is the image, or zeros, from its start and without a gap, and the
\* blocks behind it are untouched.
WrittenInOrder ==
    ~Formats =>
        \A i \in Blocks :
            device[i] = IF i > wpos THEN Old ELSE IF job.mode = "zero" THEN Zero ELSE i

\* The partition holds what its mode asks for.
Holds ==
    CASE Formats            -> \A i \in Blocks : device[i] = Fs
      [] job.mode = "image" -> /\ job.length <= job.volume
                               /\ \A i \in 1 .. job.length : device[i] = i
      [] job.mode = "zero"  -> \A i \in Blocks : device[i] = Zero
      [] OTHER              -> \A i \in Blocks : device[i] = Old

Contents ==
    IF stage = "done" /\ Holds THEN "result"
    ELSE IF \A i \in Blocks : device[i] = Old THEN "old" ELSE "junk"

\* execute_cb returned, the process died, or neither yet.
Outcome == IF stage \in {"done", "dead"} THEN stage ELSE "running"

Cell == INSTANCE CellWrite WITH cell <- Contents, outcome <- Outcome

\* execute_cb goes through the steps Installer has for it, and goes on to the next
\* partition only with the whole contents in this one, unless and until robust_read
\* takes an interrupted read for the end of the image.
ImplementsCell ==
    Cell!Init /\ [][cut' \/ Cell!Next]_<<Contents, Outcome>>

\* An ext4 file system ends in front of the footer, where the encryption of the
\* data keeps its metadata; an image goes on only with a file system that
\* has no errors.
FileSystemFits ==
    stage = "done" /\ job.type = "ext4" /\ job.mode \in {"format", "image"} =>
        /\ fs >= 0 /\ fs + job.footer <= job.volume
        /\ job.mode = "image" => job.clean \/ cut
=============================================================================
