-------------------------- MODULE DiskChoiceProofs --------------------------
(***************************************************************************)
(* Proofs about DiskChoice, for every set of disks, any number of them     *)
(* coming and going, and whatever is typed: what PreinitProofs shows of    *)
(* preinit holds of the composition, and the media is never written to     *)
(* except by provisioning.                                                 *)
(***************************************************************************)
EXTENDS DiskChoice, PreinitProofs, FiniteSetTheorems

-----------------------------------------------------------------------------
(* preinit within the composition *)

\* Every step of the composition is one of preinit's, or leaves preinit alone.
LEMMA BootStepIsPreinitStep == [BootNext]_bootvars => [Next]_vars
  BY DEF BootNext, bootvars, Preinits, Prepare, StartIagod, OpenBlock, ScanDisk, EndOfScan,
         Answer, OnlyOption, Questions, Execute

LEMMA BootPreinit == BootSpec => []IInv
  <1>1. BootInit => Init
    BY DEF BootInit
  <1> QED BY <1>1, InitIInv, BootStepIsPreinitStep, NextIInv, PTL DEF BootSpec

-----------------------------------------------------------------------------
(* The inductive invariant *)

Offered == {offered[i] : i \in DOMAIN offered}

\* Types; iagod runs once preinit is through, and while it scans it has tries left.
Stages ==
    /\ stage \in {"off", "opendir", "scan", "none", "ask", "questions", "execute",
                  "done", "dead"}
    /\ stage # "off" => pc = "init"
    /\ tries \in 0 .. Attempts
    /\ stage \in {"off", "opendir", "scan"} => tries < Attempts
    /\ dual \in BOOLEAN
    /\ read \subseteq Disks /\ there \subseteq Disks

\* base:disks grows with the scan, which starts with none, and leaves out the media.
List ==
    /\ offered \in Seq(Disks)
    /\ stage \in {"off", "opendir"} => offered = << >>
    /\ stage # "off" => \A i \in DOMAIN offered : offered[i] \in read /\ offered[i] # prop
    /\ \A i, j \in DOMAIN offered : offered[i] = offered[j] => i = j
    /\ stage \in {"scan", "none", "ask", "questions", "execute"} =>
          \A d \in read : Skipped(d) \/ d \in Offered
    /\ stage \in {"none", "ask", "questions", "execute"} => stayed \subseteq read

\* Until a number in range is typed, select is the default or out of range.
Selects ==
    /\ select \in 0 .. UintWidth - 1
    /\ stage \in {"off", "opendir", "scan", "none"} => select = 1
    /\ stage = "ask" => select = 1 \/ select > Len(offered)

Asked == answer = 0 \/ install = offered[IF answer = Enter THEN 1 ELSE answer]

\* The disk to install on comes from the list, or from iago-default.ini.
Installs ==
    /\ install \in Disks \cup {NoDisk}
    /\ mode = "automatic" => dual
    /\ mode = "cli" /\ stage \in {"questions", "execute"} =>
          /\ install \in Offered
          /\ Len(offered) > 1 => Asked

\* One disk is written, at the end.
Writes ==
    /\ written \subseteq Disks
    /\ written # {} => stage \in {"done", "dead"} /\ written = {install}
    /\ mode # "provision" => written \subseteq Offered
    /\ mode = "cli" /\ written # {} /\ Len(offered) > 1 => Asked

Modes == mode \in {"cli", "automatic", "provision"}

CInv == Stages /\ List /\ Selects /\ Installs /\ Writes /\ Modes

-----------------------------------------------------------------------------
(* Steps *)

LEMMA BootInitCInv == BootInit => CInv
  <1> SUFFICES ASSUME BootInit
               PROVE  CInv
    OBVIOUS
  <1>1. Cardinality(Disks) \in Nat
    BY ChoiceAssumption, FS_CardinalityType
  <1>2. dual = (mode = "automatic")
    BY DEF BootInit
  <1>3. dual \in BOOLEAN /\ (mode = "automatic" => dual)
    BY <1>2, Zenon
  <1>4. Stages /\ Selects
    BY <1>1, <1>3, ChoiceAssumption DEF BootInit, Stages, Selects
  <1>5. List
    BY DEF BootInit, List
  <1>6. install \in Disks \cup {NoDisk}
    BY ChoiceAssumption DEF BootInit
  <1> QED BY <1>3, <1>4, <1>5, <1>6 DEF BootInit, CInv, Installs, Writes, Modes

\* Once iagod runs, preinit does nothing, and a disk that leaves has not stayed.
LEMMA PreinitsCInv == IInv /\ CInv /\ Preinits => CInv'
  <1> SUFFICES ASSUME IInv, CInv, Preinits
               PROVE  CInv'
    OBVIOUS
  <1>1. UNCHANGED <<mode, stage, read, there, offered, tries, select, answer, install, dual, written>>
    BY DEF Preinits, choice
  <1>2. stayed' \subseteq stayed
    BY DEF Preinits
  <1>3. stage # "off" => UNCHANGED <<pc, prop>>
    BY DEF Preinits, Next, Process, OpenScan, NextDisk, EndScan, OpenDisk, NextPart, EndParts,
           Success, Retry, Plug, CInv, Stages
  <1>4. Offered' = Offered
    BY <1>1 DEF Offered
  <1> QED BY <1>1, <1>2, <1>3, <1>4
          DEF CInv, Stages, List, Selects, Installs, Writes, Modes, Skipped, Asked

\* Appending to the list keeps what is in it in its place.
LEMMA Appended ==
    ASSUME NEW s \in Seq(Disks), NEW d \in Disks
    PROVE  /\ Append(s, d) \in Seq(Disks)
           /\ DOMAIN Append(s, d) = DOMAIN s \cup {Len(s) + 1}
           /\ Len(s) + 1 \notin DOMAIN s
           /\ Append(s, d)[Len(s) + 1] = d
           /\ \A i \in DOMAIN s : Append(s, d)[i] = s[i]
  OBVIOUS

\* A turn of partitioner_prepare's loop.
LEMMA ScanDiskCInv == IInv /\ CInv /\ ScanDisk => CInv'
  <1> SUFFICES ASSUME IInv, CInv, ScanDisk
               PROVE  CInv'
    OBVIOUS
  <1>1. /\ stage = "scan"
        /\ UNCHANGED <<pc, prop, mode, there, stayed, tries, select, answer, install, dual, written>>
    BY DEF ScanDisk, vars, choice
  <1>2. PICK d \in (present \cup there) \ read :
          /\ read' = read \cup {d}
          /\ \/ /\ Skipped(d)
                /\ UNCHANGED <<stage, offered>>
             \/ /\ ~Skipped(d)
                /\ d \in present /\ d \notin Unnamed
                /\ offered' = Append(offered, d)
                /\ UNCHANGED stage
             \/ /\ ~Skipped(d)
                /\ d \notin present \/ d \in Unnamed
                /\ stage' = "dead"
                /\ UNCHANGED offered
    BY DEF ScanDisk
  <1>3. d \in Disks /\ d \notin read /\ written = {}
    BY <1>1 DEF IInv, AtHand, CInv, Stages, Writes
  <1>4. CASE Skipped(d)
    <2>1. UNCHANGED <<stage, offered>> /\ Offered' = Offered
      BY <1>2, <1>4 DEF Offered
    <2> QED BY <1>1, <1>2, <1>3, <1>4, <2>1
            DEF CInv, Stages, List, Selects, Installs, Writes, Modes, Skipped
  <1>5. CASE ~Skipped(d) /\ stage' = "dead" /\ UNCHANGED offered
    <2>1. Offered' = Offered
      BY <1>5 DEF Offered
    <2> QED BY <1>1, <1>2, <1>3, <1>5, <2>1
            DEF CInv, Stages, List, Selects, Installs, Writes, Modes, Skipped
  <1>6. CASE ~Skipped(d) /\ offered' = Append(offered, d) /\ UNCHANGED stage
    <2>1. /\ offered' \in Seq(Disks)
          /\ DOMAIN offered' = DOMAIN offered \cup {Len(offered) + 1}
          /\ Len(offered) + 1 \notin DOMAIN offered
          /\ offered'[Len(offered) + 1] = d
          /\ \A i \in DOMAIN offered : offered'[i] = offered[i]
      BY <1>3, <1>6, Appended DEF CInv, List
    <2>2. Offered' = Offered \cup {d}
      BY <2>1 DEF Offered
    <2>3. \A i \in DOMAIN offered : offered[i] \in read /\ offered[i] # prop
      BY <1>1 DEF CInv, List
    <2>4. \A i \in DOMAIN offered' : offered'[i] \in read' /\ offered'[i] # prop'
      BY <1>1, <1>2, <1>6, <2>1, <2>3 DEF Skipped
    <2>5. \A i, j \in DOMAIN offered' : offered'[i] = offered'[j] => i = j
      BY <1>3, <2>1, <2>3 DEF CInv, List
    <2>6. \A e \in read' : Skipped(e)' \/ e \in Offered'
      BY <1>1, <1>2, <2>2 DEF CInv, List, Skipped
    <2>7. List'
      BY <1>1, <1>6, <2>1, <2>4, <2>5, <2>6 DEF List
    <2> QED BY <1>1, <1>2, <1>3, <1>6, <2>7
            DEF CInv, Stages, Selects, Installs, Writes, Modes
  <1> QED BY <1>2, <1>4, <1>5, <1>6

\* The other steps of partitioner_prepare.
LEMMA PrepareCInv == IInv /\ CInv /\ Prepare => CInv'
  <1> SUFFICES ASSUME IInv, CInv, Prepare
               PROVE  CInv'
    OBVIOUS
  <1>1. CASE StartIagod
    <2>1. Offered' = Offered
      BY <1>1 DEF StartIagod, scan, Offered
    <2> QED BY <1>1, <2>1 DEF StartIagod, scan, vars, choice, CInv, Stages, List, Selects,
                              Installs, Writes, Modes
  <1>2. CASE OpenBlock
    <2>1. Offered' = Offered
      BY <1>2 DEF OpenBlock, Offered
    <2> QED BY <1>2, <2>1 DEF OpenBlock, vars, choice, IInv, AtHand, CInv, Stages, List, Selects,
                              Installs, Writes, Modes
  <1>3. CASE EndOfScan
    <2>1. Offered' = Offered
      BY <1>3 DEF EndOfScan, Offered
    <2> QED BY <1>3, <2>1, ChoiceAssumption
            DEF EndOfScan, TryAgain, AllRead, vars, choice, CInv, Stages, List, Selects,
                Installs, Writes, Modes, Skipped
  <1> QED BY <1>1, <1>2, <1>3, ScanDiskCInv DEF Prepare

\* On a number in range the walk ends at that place.
LEMMA WalkEnds ==
    ASSUME NEW n \in Nat, NEW sel \in 1 .. n, sel < UintWidth
    PROVE  Walk(sel, n) = sel - 1
  <1>1. \A x \in Nat, m \in Nat : x < m => x % m = x
    OBVIOUS
  <1>2. (sel - 1) % UintWidth = sel - 1
    BY <1>1, ChoiceAssumption
  <1>3. (sel - 1) % (n + 1) = sel - 1
    BY <1>1
  <1> QED BY <1>2, <1>3 DEF Walk

\* ui_option_get
LEMMA AnswerCInv == CInv /\ Answer => CInv'
  <1> SUFFICES ASSUME CInv, Answer
               PROVE  CInv'
    OBVIOUS
  <1>1. /\ stage = "ask" /\ Len(offered) > 1
        /\ UNCHANGED <<pc, prop, mode, read, there, stayed, offered, tries, dual, written>>
    BY DEF Answer, vars, scan
  <1> DEFINE sel(l) == IF l = Enter THEN select ELSE l
             place(l) == Walk(sel(l), Len(offered)) + 1
  <1>2. PICK line \in Lines :
          /\ answer' = line
          /\ select' = sel(line)
          /\ \/ /\ sel(line) > Len(offered)
                /\ UNCHANGED <<stage, install>>
             \/ /\ sel(line) <= Len(offered) /\ place(line) \in DOMAIN offered
                /\ install' = offered[place(line)]
                /\ stage' = "questions"
             \/ /\ sel(line) <= Len(offered) /\ place(line) \notin DOMAIN offered
                /\ stage' = "dead"
                /\ UNCHANGED install
    BY DEF Answer
  <1>3. Offered' = Offered /\ written = {}
    BY <1>1 DEF Offered, CInv, Writes
  <1>4. sel(line) \in 0 .. UintWidth - 1
    <2>1. Cardinality(Disks) \in Nat
      BY ChoiceAssumption, FS_CardinalityType
    <2> QED BY <1>2, <2>1, ChoiceAssumption DEF Lines, Enter, CInv, Selects
  <1>5. offered \in Seq(Disks) /\ Len(offered) \in Nat
    BY DEF CInv, List
  <1> HIDE DEF sel, place
  <1>6. CASE UNCHANGED <<stage, install>> /\ sel(line) > Len(offered)
    BY <1>1, <1>2, <1>3, <1>4, <1>6
    DEF CInv, Stages, List, Selects, Installs, Writes, Modes, Skipped
  <1>7. CASE /\ sel(line) <= Len(offered) /\ place(line) \in DOMAIN offered
             /\ install' = offered[place(line)]
             /\ stage' = "questions"
    <2>1. install' \in Offered /\ install' \in Disks
      BY <1>5, <1>7 DEF Offered
    <2>2. Asked'
      <3>1. CASE line = 0
        BY <1>2, <3>1 DEF Asked
      <3>2. CASE line # 0
        <4>1. line = Enter => select = 1 /\ sel(line) = 1
          BY <1>1, <1>5, <1>7 DEF CInv, Selects, sel
        <4>2. line # Enter => sel(line) = line /\ line # 0
          BY <3>2 DEF sel
        <4>3. sel(line) \in 1 .. Len(offered)
          BY <1>4, <1>5, <1>7, <4>1, <4>2
        <4>4. place(line) = sel(line)
          BY <1>4, <1>5, <4>3, WalkEnds, ChoiceAssumption DEF place
        <4> QED BY <1>1, <1>2, <1>7, <4>1, <4>2, <4>4 DEF Asked, Enter
      <3> QED BY <3>1, <3>2
    <2> QED BY <1>1, <1>2, <1>3, <1>4, <1>7, <2>1, <2>2
            DEF CInv, Stages, List, Selects, Installs, Writes, Modes, Skipped
  <1>8. CASE stage' = "dead" /\ UNCHANGED install
    BY <1>1, <1>2, <1>3, <1>4, <1>8
    DEF CInv, Stages, List, Selects, Installs, Writes, Modes, Skipped
  <1> QED BY <1>2, <1>6, <1>7, <1>8

\* The only disk, the questions, and partitioner_execute.
LEMMA WriteCInv == IInv /\ CInv /\ (OnlyOption \/ Questions \/ Execute) => CInv'
  <1> SUFFICES ASSUME IInv, CInv, OnlyOption \/ Questions \/ Execute
               PROVE  CInv'
    OBVIOUS
  <1>1. /\ UNCHANGED <<pc, prop, mode, read, there, stayed, offered, tries, select, answer>>
        /\ stage \in {"ask", "questions", "execute"} /\ written = {}
    BY DEF OnlyOption, Questions, Execute, vars, scan, choice, CInv, Writes
  <1>2. Offered' = Offered
    BY <1>1 DEF Offered
  <1>3. CASE OnlyOption
    <2>1. install' \in Offered /\ install' \in Disks /\ Len(offered) = 1
      BY <1>3 DEF OnlyOption, Offered, CInv, List
    <2> QED BY <1>1, <1>2, <1>3, <2>1
            DEF OnlyOption, CInv, Stages, List, Selects, Installs, Writes, Modes, Skipped
  <1>4. CASE Questions
    BY <1>1, <1>2, <1>4
    DEF Questions, CInv, Stages, List, Selects, Installs, Writes, Modes, Skipped, Asked
  <1>5. CASE Execute
    <2>1. UNCHANGED <<install, dual>> /\ stage = "execute" /\ stage' \in {"done", "dead"}
      BY <1>5 DEF Execute, choice
    <2>2. CASE written' = {}
      BY <1>1, <1>2, <2>1, <2>2
      DEF CInv, Stages, List, Selects, Installs, Writes, Modes, Skipped
    <2>3. CASE written' = {install} /\ install \in present /\ (dual => HasEspIndex(install))
      <3>1. install \in Disks
        BY <2>3 DEF IInv, AtHand
      <3>2. mode = "automatic" => install \in Offered
        BY <2>3 DEF HasEspIndex, Offered, CInv, Installs
      <3>3. mode = "cli" => install \in Offered
        BY <2>1 DEF CInv, Installs
      <3> QED BY <1>1, <1>2, <2>1, <2>3, <3>1, <3>2, <3>3
              DEF CInv, Stages, List, Selects, Installs, Writes, Modes, Skipped, Asked
    <2> QED BY <1>1, <1>5, <2>2, <2>3 DEF Execute
  <1> QED BY <1>3, <1>4, <1>5

LEMMA BootInvariant == BootSpec => [](IInv /\ CInv)
  <1>1. IInv /\ CInv /\ [BootNext]_bootvars => CInv'
    <2> SUFFICES ASSUME IInv, CInv, [BootNext]_bootvars
                 PROVE  CInv'
      OBVIOUS
    <2>1. CASE UNCHANGED bootvars
      <3>1. /\ UNCHANGED <<pc, prop, mode, stage, read, there, stayed, offered, tries, select,
                           answer, install, dual, written>>
        BY <2>1 DEF bootvars, vars, scan, choice
      <3>2. Offered' = Offered
        BY <3>1 DEF Offered
      <3> QED BY <3>1, <3>2
              DEF CInv, Stages, List, Selects, Installs, Writes, Modes, Skipped, Asked
    <2> QED BY <2>1, PreinitsCInv, PrepareCInv, AnswerCInv, WriteCInv DEF BootNext
  <1> QED BY <1>1, BootInitCInv, BootPreinit, PTL DEF BootSpec

-----------------------------------------------------------------------------
(* The theorems *)

\* base:disks holds disks, the counters stay in range, and iagod only runs on
\* the media.
THEOREM ChoiceTypeCorrect == BootSpec => []ChoiceTypeOK
  <1>1. IInv => TypeOK
    BY DEF IInv, AtHand, Mounts, Counts, TypeOK
  <1>2. IInv /\ CInv => ChoiceTypeOK
    BY <1>1 DEF CInv, Stages, List, Selects, Installs, Writes, ChoiceTypeOK
  <1> QED BY <1>2, BootInvariant, PTL

\* Neither a user's choice nor an automatic dual boot writes to the media.
THEOREM MediaIsSpared == BootSpec => []MediaSpared
  <1>1. IInv /\ CInv => MediaSpared
    <2> SUFFICES ASSUME IInv, CInv, mode # "provision", written # {}
                 PROVE  DiskOf(Head(mounted)) \notin written
      BY DEF MediaSpared
    <2>1. stage # "off" /\ pc = "init" /\ written \subseteq Offered
      BY DEF CInv, Writes, Stages
    <2>2. prop = DiskOf(Head(mounted))
      BY <2>1 DEF IInv, Mounts
    <2>3. prop \notin Offered
      BY <2>1 DEF CInv, List, Offered
    <2> QED BY <2>1, <2>2, <2>3
  <1> QED BY <1>1, BootInvariant, PTL

\* partitioner_prepare's list has every disk that was there throughout the scan, once.
THEOREM NoDiskMissing == BootSpec => []EveryDiskOffered
  <1>1. CInv => EveryDiskOffered
    BY DEF CInv, List, Offered, EveryDiskOffered
  <1> QED BY <1>1, BootInvariant, PTL

\* The disk that is written is the one whose number was typed last.
THEOREM TargetIsAsked == BootSpec => []TargetAsAsked
  <1>1. CInv => TargetAsAsked
    BY DEF CInv, Writes, Asked, TargetAsAsked
  <1> QED BY <1>1, BootInvariant, PTL

\* In the composition too, ro.iago.media names the disk of what is mounted.
THEOREM BootInitIsOnMedia == BootSpec => []InitHasMedia
  <1>1. IInv => InitHasMedia
    BY DEF IInv, Mounts, InitHasMedia
  <1> QED BY <1>1, BootInvariant, PTL
=============================================================================
