------------------------- MODULE ImageWriterProofs --------------------------
(***************************************************************************)
(* Proofs about ImageWriter, for all sizes of image, partition, footer and *)
(* chunk, however short the reads and writes are.                          *)
(***************************************************************************)
EXTENDS ImageWriter, TLAPS

-----------------------------------------------------------------------------
(* The inductive invariant *)

\* What the program counter says about the job.
StageOfJob ==
    /\ stage = "format" => Formats
    /\ stage \in {"read", "write", "check", "resize", "tune"} => job.mode = "image"
    /\ stage = "zero" => job.mode = "zero"
    /\ stage \in {"resize", "tune"} => job.type = "ext4"
    /\ stage = "done" => Formats \/ job.mode \in {"image", "zero", "skip"}
    /\ cut => job.mode = "image" /\ rpos < job.length /\ stage \notin {"start", "read", "write"}

\* The loop invariant of dd: source and destination are level but for what xwrite
\* still has to write, and its pointer is at the block that comes next.
Level ==
    job.mode = "image" =>
        /\ wpos + left = rpos
        /\ stage = "write" => pos = wpos + 1
        /\ stage \notin {"write", "dead"} => left = 0

\* Nothing is written before the loops, or to a partition that is skipped.
Untouched ==
    /\ stage = "start" => wpos = 0 /\ \A i \in Blocks : device[i] = Old
    /\ job.mode \notin {"image", "zero"} => wpos = 0
    /\ Formats /\ stage \in {"format", "done"} => \A i \in Blocks : device[i] = Fs
    /\ Formats => \/ \A i \in Blocks : device[i] = Old
                  \/ \A i \in Blocks : device[i] = Fs

\* What is behind the program once the loops have been left.
Ended ==
    /\ job.mode = "image" /\ stage \in {"check", "resize", "tune", "done"} =>
          rpos = job.length \/ cut
    /\ job.mode = "zero" /\ stage = "done" => wpos = job.volume

\* What is known of the file system.
FsBound ==
    LET fits == fs >= 0 /\ fs + job.footer <= job.volume
        checked == job.mode = "image" => job.clean \/ cut
    IN  /\ stage = "resize" => checked
        /\ stage = "tune" => fits /\ checked
        /\ stage = "done" /\ job.type = "ext4" /\ job.mode \in {"format", "image"} =>
              fits /\ checked

IInv == TypeOK /\ StageOfJob /\ Level /\ Untouched /\ WrittenInOrder /\ Ended /\ FsBound

-----------------------------------------------------------------------------
(* Arithmetic *)

\* Rounded down to kilobytes, the length of the file system leaves the footer alone
\* if it fits on the device at all: a wrapped difference does not.
LEMMA ResizedFits ==
    ASSUME NEW v \in Nat, NEW f \in Nat, NEW k \in Nat \ {0}, NEW w \in Nat,
           v < w, f + k <= w,
           ((((v - f) % w) \div k) * k) <= v
    PROVE  ((((v - f) % w) \div k) * k) >= 0 /\ ((((v - f) % w) \div k) * k) + f <= v
  <1> DEFINE m == (v - f) % w
  <1> DEFINE r == (m \div k) * k
  <1>1. m \in Nat /\ (f <= v => m = v - f) /\ (f > v => m = v - f + w)
    <2>1. CASE f <= v
      <3>1. v - f \in 0 .. w - 1
        BY <2>1
      <3> QED BY <3>1, <2>1, SMTT(30)
    <2>2. CASE f > v
      <3>1. v - f + w \in 0 .. w - 1
        BY <2>2
      <3>2. (v - f) % w = v - f + w
        BY <3>1, <2>2, SMTT(30)
      <3> QED BY <3>1, <3>2, <2>2
    <2> QED BY <2>1, <2>2
  <1>2. r \in Nat /\ r <= m /\ m < r + k
    BY <1>1, SMTT(30)
  <1> HIDE DEF m, r
  <1>3. r <= v
    BY DEF m, r
  <1>4. f <= v
    BY <1>1, <1>2, <1>3
  <1>5. r >= 0 /\ r + f <= v
    BY <1>1, <1>2, <1>4
  <1> QED BY <1>5 DEF m, r

-----------------------------------------------------------------------------
(* The invariant holds *)

\* What the assumptions say of the job at hand.
LEMMA JobFacts ==
    ASSUME job \in Jobs
    PROVE  /\ job.volume \in Nat /\ job.length \in Nat /\ job.footer \in Nat
           /\ job.volume < Word /\ job.footer + KB <= Word
           /\ job.clean \in BOOLEAN
  BY WriterAssumption

\* A partition nobody has touched.
LEMMA InitIInv == Init => IInv
  <1> SUFFICES ASSUME Init
               PROVE  IInv
    OBVIOUS
  <1> USE DEF Init
  <1>1. job.volume \in Nat /\ job.length \in Nat
    BY JobFacts
  <1>2. TypeOK
    <2>1. device \in [Blocks -> Int]
      BY DEF Old
    <2>2. rpos \in 0 .. job.length /\ wpos \in 0 .. job.volume /\ left \in 0 .. Chunk
      BY <1>1, WriterAssumption
    <2>3. pos \in 0 .. job.length + 1 /\ fs \in Int
      BY <1>1
    <2>4. cut \in BOOLEAN
      BY Zenon
    <2> QED BY <2>1, <2>2, <2>3, <2>4 DEF TypeOK
  <1>3. StageOfJob /\ Level /\ Ended /\ FsBound
    BY <1>1 DEF StageOfJob, Level, Ended, FsBound
  <1>4. Untouched
    BY DEF Untouched
  <1>5. WrittenInOrder
    BY <1>1 DEF WrittenInOrder, Blocks
  <1> QED BY <1>2, <1>3, <1>4, <1>5 DEF IInv

\* The steps that copy and zero keep offsets and counts in their ranges.
LEMMA CopyTypeOK ==
    ASSUME IInv, Read \/ ReadNothing \/ Write \/ WriteZero
    PROVE  TypeOK'
  <1> USE JobFacts, WriterAssumption DEF IInv, TypeOK, vars, copying, Blocks, Old, Zero
  <1>1. CASE Read
    <2>1. PICK n \in Readable : rpos' = rpos + n /\ pos' = rpos + 1 /\ left' = n
      BY <1>1 DEF Read
    <2>2. n \in 1 .. Chunk /\ rpos + n <= job.length
      BY <2>1 DEF Readable
    <2> QED BY <1>1, <2>1, <2>2 DEF Read
  <1>2. CASE ReadNothing
    BY <1>2 DEF ReadNothing
  <1>3. CASE Write
    <2>1. PICK n \in 1 .. left :
            /\ wpos + n <= job.volume
            /\ device' = [i \in Blocks |-> IF i \in wpos + 1 .. wpos + n
                                           THEN pos + (i - wpos - 1) ELSE device[i]]
            /\ wpos' = wpos + n
            /\ PosMoves(n)
            /\ left' = left - n
            /\ stage' = IF left = n THEN "read" ELSE "write"
      BY <1>3 DEF Write
    <2>2. job.mode = "image" /\ wpos + left = rpos /\ pos = wpos + 1
      BY <1>3 DEF Write, StageOfJob, Level
    <2>3. job' = job /\ rpos' = rpos /\ cut' = cut /\ fs' = fs
      BY <1>3 DEF Write
    <2>4. pos' \in 0 .. job.length + 1 /\ left' \in 0 .. Chunk /\ wpos' \in 0 .. job.volume
      BY <2>1, <2>2 DEF PosMoves
    <2>5. device' \in [Blocks -> Int]
      BY <2>1
    <2> QED BY <2>1, <2>3, <2>4, <2>5
  <1>4. CASE WriteZero
    <2>1. device' \in [Blocks -> Int] /\ wpos' \in 0 .. job.volume
      BY <1>4 DEF WriteZero
    <2> QED BY <1>4, <2>1 DEF WriteZero
  <1> QED BY <1>1, <1>2, <1>3, <1>4

\* The steps before and after the loops keep them too.
LEMMA OtherTypeOK ==
    ASSUME IInv, execute_cb \/ FormatEnds \/ Check \/ Resize \/ Tune \/ Die
    PROVE  TypeOK'
  <1> USE JobFacts, WriterAssumption DEF IInv, TypeOK, copying, Blocks, Fs
  <1>1. CASE execute_cb
    BY <1>1 DEF execute_cb
  <1>2. CASE FormatEnds
    BY <1>2 DEF FormatEnds
  <1>3. CASE Check
    BY <1>3 DEF Check
  <1>4. CASE Resize
    <2>1. NewLength \in Nat
      BY SMTT(30) DEF NewLength
    <2>2. fs' \in Int
      BY <1>4, <2>1, SMTT(30) DEF Resize
    <2> QED BY <1>4, <2>2 DEF Resize
  <1>5. CASE Tune \/ Die
    BY <1>5 DEF Tune, Die
  <1> QED BY <1>1, <1>2, <1>3, <1>4, <1>5

\* The image and the zeros grow from the start of the partition.
LEMMA StepInOrder ==
    ASSUME IInv, Next
    PROVE  WrittenInOrder'
  <1> USE JobFacts, WriterAssumption DEF IInv, TypeOK, copying, Blocks, Formats
  <1>1. CASE execute_cb
    BY <1>1 DEF execute_cb, WrittenInOrder
  <1>2. CASE FormatEnds \/ Read \/ ReadNothing \/ Check \/ Resize \/ Tune \/ Die
    BY <1>2 DEF FormatEnds, Read, ReadNothing, Check, Resize, Tune, Die, WrittenInOrder
  <1>3. CASE Write
    <2>1. job.mode = "image" /\ wpos + left = rpos /\ pos = wpos + 1
      BY <1>3 DEF Write, StageOfJob, Level
    <2>2. PICK n \in 1 .. left :
            /\ device' = [i \in Blocks |-> IF i \in wpos + 1 .. wpos + n
                                           THEN pos + (i - wpos - 1) ELSE device[i]]
            /\ wpos' = wpos + n
      BY <1>3 DEF Write
    <2>3. job' = job
      BY <1>3 DEF Write
    <2>4. \A i \in Blocks : device'[i] = IF i > wpos' THEN Old ELSE i
      BY <2>1, <2>2 DEF WrittenInOrder
    <2> QED BY <2>1, <2>3, <2>4 DEF WrittenInOrder
  <1>4. CASE WriteZero
    <2>1. job.mode = "zero" /\ job' = job
      BY <1>4 DEF WriteZero, StageOfJob
    <2>2. CASE UNCHANGED <<device, wpos>>
      BY <2>1, <2>2 DEF WrittenInOrder
    <2>3. CASE \E n \in 1 .. Chunk :
                 /\ device' = [i \in Blocks |-> IF i \in wpos + 1 .. wpos + n
                                                THEN Zero ELSE device[i]]
                 /\ wpos' = wpos + n
      <3>1. PICK n \in 1 .. Chunk :
              /\ device' = [i \in Blocks |-> IF i \in wpos + 1 .. wpos + n
                                             THEN Zero ELSE device[i]]
              /\ wpos' = wpos + n
        BY <2>3
      <3>2. \A i \in Blocks : device'[i] = IF i > wpos' THEN Old ELSE Zero
        BY <2>1, <3>1 DEF WrittenInOrder
      <3> QED BY <2>1, <3>2 DEF WrittenInOrder
    <2> QED BY <1>4, <2>2, <2>3 DEF WriteZero
  <1> QED BY <1>1, <1>2, <1>3, <1>4 DEF Next

\* Each step leaves the bookkeeping right.
LEMMA StepLevel ==
    ASSUME IInv, Next
    PROVE  StageOfJob' /\ Level' /\ Untouched'
  <1> USE JobFacts, WriterAssumption DEF IInv, TypeOK, copying, Blocks, Formats
  <1>1. CASE execute_cb
    BY <1>1 DEF execute_cb, StageOfJob, Level, Untouched
  <1>2. CASE FormatEnds
    BY <1>2 DEF FormatEnds, StageOfJob, Level, Untouched
  <1>3. CASE Read
    <2>1. PICK n \in Readable : rpos' = rpos + n /\ pos' = rpos + 1 /\ left' = n
      BY <1>3 DEF Read
    <2>2. n \in 1 .. Chunk
      BY <2>1 DEF Readable
    <2> QED BY <1>3, <2>1, <2>2 DEF Read, StageOfJob, Level, Untouched
  <1>4. CASE ReadNothing
    BY <1>4 DEF ReadNothing, StageOfJob, Level, Untouched
  <1>5. CASE Write
    <2>1. job.mode = "image" /\ wpos + left = rpos /\ pos = wpos + 1
      BY <1>5 DEF Write, StageOfJob, Level
    <2>2. PICK n \in 1 .. left :
            /\ wpos' = wpos + n
            /\ PosMoves(n)
            /\ left' = left - n
            /\ stage' = IF left = n THEN "read" ELSE "write"
      BY <1>5 DEF Write
    <2>3. stage = "write" /\ job' = job /\ rpos' = rpos /\ cut' = cut
      BY <1>5 DEF Write
    <2>4. Level'
      BY <2>1, <2>2, <2>3 DEF Level, PosMoves
    <2>5. StageOfJob' /\ Untouched'
      BY <2>1, <2>2, <2>3 DEF StageOfJob, Untouched
    <2> QED BY <2>4, <2>5
  <1>6. CASE WriteZero
    <2>1. job.mode = "zero" /\ job' = job /\ cut' = cut /\ stage' \in {"zero", "done"}
      BY <1>6 DEF WriteZero, StageOfJob
    <2> QED BY <2>1 DEF StageOfJob, Level, Untouched
  <1>7. CASE Check \/ Resize \/ Tune
    BY <1>7 DEF Check, Resize, Tune, StageOfJob, Level, Untouched
  <1>8. CASE Die
    BY <1>8 DEF Die, StageOfJob, Level, Untouched
  <1> QED BY <1>1, <1>2, <1>3, <1>4, <1>5, <1>6, <1>7, <1>8 DEF Next

\* A loop is left at its end, and the file system leaves room for the footer.
LEMMA StepEnded ==
    ASSUME IInv, Next
    PROVE  Ended' /\ FsBound'
  <1> USE JobFacts, WriterAssumption DEF IInv, TypeOK, StageOfJob, copying, Formats
  <1>1. CASE execute_cb
    BY <1>1 DEF execute_cb, Ended, FsBound
  <1>2. CASE FormatEnds
    BY <1>2 DEF FormatEnds, Ended, FsBound
  <1>3. CASE Read \/ Write \/ Die
    BY <1>3 DEF Read, Write, Die, Ended, FsBound
  <1>4. CASE ReadNothing
    BY <1>4 DEF ReadNothing, Ended, FsBound
  <1>5. CASE WriteZero
    BY <1>5 DEF WriteZero, AtEnd, Ended, FsBound
  <1>6. CASE Check
    BY <1>6 DEF Check, Ended, FsBound
  <1>7. CASE Resize
    <2>1. fs' >= 0 /\ fs' + job.footer <= job.volume
      BY <1>7, ResizedFits DEF Resize, NewLength
    <2> QED BY <1>7, <2>1 DEF Resize, Ended, FsBound
  <1>8. CASE Tune
    BY <1>8 DEF Tune, Ended, FsBound
  <1> QED BY <1>1, <1>2, <1>3, <1>4, <1>5, <1>6, <1>7, <1>8 DEF Next

LEMMA NextIInv == IInv /\ [Next]_vars => IInv'
  <1> SUFFICES ASSUME IInv, [Next]_vars
               PROVE  IInv'
    OBVIOUS
  <1>1. CASE Next
    <2>1. TypeOK'
      BY <1>1, CopyTypeOK, OtherTypeOK DEF Next
    <2> QED BY <1>1, <2>1, StepLevel, StepInOrder, StepEnded DEF IInv
  <1>2. CASE UNCHANGED vars
    BY <1>2 DEF vars, copying, IInv, TypeOK, StageOfJob, Level, Untouched, WrittenInOrder,
                Ended, FsBound, Formats, Blocks
  <1> QED BY <1>1, <1>2

\* The inductive invariant holds throughout.
LEMMA Inductive == Spec => []IInv
  BY InitIInv, NextIInv, PTL DEF Spec

-----------------------------------------------------------------------------
(* The theorems *)

\* execute_cb keeps its offsets within the image, the chunk and the partition.
THEOREM TypeCorrect == Spec => []TypeOK
  <1>1. IInv => TypeOK
    BY DEF IInv
  <1> QED BY <1>1, Inductive, PTL

\* robust_read, xwrite and the zeroing loop write from the start and without a gap, for
\* every length of image and partition and every way reads and writes are short.
THEOREM CopiesInOrder == Spec => []WrittenInOrder
  <1>1. IInv => WrittenInOrder
    BY DEF IInv
  <1> QED BY <1>1, Inductive, PTL

\* The file system that make_ext4fs or ext4_filesystem_checks leaves ends before the
\* footer, also when the footer is larger than the partition.
THEOREM FootersKept == Spec => []FileSystemFits
  <1>1. IInv => FileSystemFits
    BY DEF IInv, FsBound, FileSystemFits
  <1> QED BY <1>1, Inductive, PTL

-----------------------------------------------------------------------------
(* Refinement *)

\* Whoever finishes, uninterrupted, has written all of it.
LEMMA DoneHolds == IInv /\ stage = "done" /\ ~cut => Holds
  <1> SUFFICES ASSUME IInv, stage = "done", ~cut
               PROVE  Holds
    OBVIOUS
  <1> USE JobFacts DEF IInv, TypeOK, Blocks
  <1>1. CASE Formats
    <2>1. \A i \in Blocks : device[i] = Fs
      BY <1>1 DEF Untouched
    <2> QED BY <1>1, <2>1 DEF Holds, Formats
  <1>2. CASE job.mode = "image"
    <2>1. wpos = job.length
      BY <1>2 DEF Level, Ended
    <2>2. job.length <= job.volume /\ \A i \in 1 .. job.length : device[i] = i
      BY <1>2, <2>1 DEF WrittenInOrder, Formats
    <2> QED BY <1>2, <2>2 DEF Holds, Formats
  <1>3. CASE job.mode = "zero"
    BY <1>3 DEF Ended, WrittenInOrder, Formats, Holds
  <1>4. CASE job.mode = "skip"
    BY <1>4 DEF Untouched, WrittenInOrder, Formats, Holds
  <1> QED BY <1>1, <1>2, <1>3, <1>4 DEF StageOfJob

\* A write does not bring the old contents back.
LEMMA StaysTouched ==
    ASSUME IInv, Next, ~\A i \in Blocks : device[i] = Old
    PROVE  ~(\A i \in Blocks : device[i] = Old)'
  <1> USE JobFacts, WriterAssumption DEF IInv, TypeOK, copying, Blocks
  <1>1. PICK i \in Blocks : device[i] # Old
    OBVIOUS
  <1>2. job' = job
    BY DEF Next, execute_cb, FormatEnds, Read, ReadNothing, Write, WriteZero, Check, Resize,
           Tune, Die
  <1>3. device'[i] # Old
    <2>1. CASE execute_cb
      BY <1>1, <2>1 DEF execute_cb, Fs, Old
    <2>2. CASE Write
      <3>1. pos = wpos + 1
        BY <2>2 DEF Write, StageOfJob, Level
      <3> QED BY <1>1, <2>2, <3>1 DEF Write, Old
    <2>3. CASE WriteZero
      BY <1>1, <2>3 DEF WriteZero, Old, Zero
    <2>4. CASE FormatEnds \/ Read \/ ReadNothing \/ Check \/ Resize \/ Tune \/ Die
      BY <1>1, <2>4 DEF FormatEnds, Read, ReadNothing, Check, Resize, Tune, Die
    <2> QED BY <2>1, <2>2, <2>3, <2>4 DEF Next
  <1> QED BY <1>2, <1>3

\* A step of execute_cb is a step Installer knows, or none, or behind a cut.
LEMMA StepRefines ==
    ASSUME IInv, IInv', [Next]_vars
    PROVE  [cut' \/ Cell!Next]_<<Contents, Outcome>>
  <1> DEFINE Clean == \A i \in Blocks : device[i] = Old
  <1>1. CASE UNCHANGED vars
    BY <1>1 DEF vars, copying, Contents, Outcome, Holds, Formats, Blocks
  <1>2. CASE Next /\ ~cut'
    <2>1. stage \notin {"done", "dead"} /\ (~Clean => ~Clean')
      BY <1>2, StaysTouched
         DEF Next, execute_cb, FormatEnds, Read, ReadNothing, Write, WriteZero, Check, Resize,
             Tune, Die
    <2>2. Contents = (IF Clean THEN "old" ELSE "junk") /\ Outcome = "running"
      BY <2>1 DEF Contents, Outcome
    <2>3. CASE stage' = "done"
      <3>1. (IInv /\ stage = "done" /\ ~cut)'
        BY <1>2, <2>3
      <3>2. Contents' = "result" /\ Outcome' = "done"
        <4>1. Holds'
          BY <3>1, DoneHolds, PTL
        <4> QED BY <2>3, <4>1 DEF Contents, Outcome
      <3> QED BY <2>2, <3>2 DEF Cell!Next, Cell!Finish
    <2>4. CASE stage' = "dead"
      <3>1. Clean' = Clean
        BY <1>2, <2>4 DEF Next, execute_cb, FormatEnds, Read, ReadNothing, Write, WriteZero,
                          Check, Resize, Tune, Die, Blocks
      <3>2. Contents' = Contents /\ Outcome' = "dead"
        BY <2>2, <2>4, <3>1 DEF Contents, Outcome
      <3> QED BY <2>2, <3>2 DEF Cell!Next, Cell!Die
    <2>5. CASE stage' \notin {"done", "dead"}
      <3>1. Contents' = (IF Clean' THEN "old" ELSE "junk") /\ Outcome' = "running"
        BY <2>5 DEF Contents, Outcome
      <3> HIDE DEF Clean
      <3> QED BY <2>1, <2>2, <3>1 DEF Cell!Next, Cell!Spoil
    <2> QED BY <2>3, <2>4, <2>5
  <1>3. CASE cut'
    BY <1>3
  <1> QED BY <1>1, <1>2, <1>3

LEMMA InitRefines == Init => Cell!Init
  BY DEF Init, Cell!Init, Contents, Outcome

\* What Installer says of one partition is true of execute_cb as long as no copy has
\* been cut short: the contents are old or junk until it goes on, and then they are what
\* the ini file asks for.
THEOREM ImageWriterImplementsCell == Spec => ImplementsCell
  <1>1. IInv /\ IInv' /\ [Next]_vars => [cut' \/ Cell!Next]_<<Contents, Outcome>>
    BY StepRefines
  <1> QED BY <1>1, InitRefines, Inductive, PTL DEF Spec, ImplementsCell
=============================================================================
