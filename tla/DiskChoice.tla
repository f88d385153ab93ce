----------------------------- MODULE DiskChoice -----------------------------
(***************************************************************************)
(* From the first process of the installation media to the disk that is    *)
(* written: preinit finds the media and leaves its name in ro.iago.media,  *)
(* Android's init starts iagod, partitioner_prepare scans the disks that   *)
(* are there by then, partitioner_cli asks for one of them, and            *)
(* partitioner_execute writes a table to it.  Devices come and go all the  *)
(* while.                                                                  *)
(*                                                                         *)
(* What is written to the disk is the matter of Partitioner; here it only  *)
(* matters which disk that is.                                             *)
(***************************************************************************)
EXTENDS Preinit

CONSTANTS
    Optical,      \* the disks DISK_MATCH_REGEX of partitioner.c rejects, but not preinit's
    Unnamed,      \* the disks without device/model and device/name in sysfs
    Windows,      \* the disks with a table that has an ESP and a Windows
    InstallDisk,  \* base:install_disk of iago-default.ini
    Attempts,     \* prep_counter gives up at this one (6)
    UintWidth     \* values of an unsigned int (2^32)

ASSUME ChoiceAssumption ==
    /\ IsFiniteSet(Disks)
    /\ Optical \subseteq Disks /\ Unnamed \subseteq Disks /\ Windows \subseteq Disks
    /\ InstallDisk \in Disks
    /\ Attempts \in Nat \ {0}
    /\ UintWidth \in Nat /\ UintWidth > Cardinality(Disks) + 1

VARIABLES
    mode,     \* the entry of the boot menu: "cli", "automatic" or "provision"
    stage,    \* where iagod is; "off" until init starts it
    read,     \* the disks this scan has been through
    there,    \* the disks that were there when it began
    stayed,   \* history: those of them that have been there ever since
    offered,  \* base:disks
    tries,    \* prep_counter
    select,   \* ui_option_get's variable: what was typed last, or the default
    answer,   \* history: the line typed last
    install,  \* base:install_disk
    dual,     \* base:dualboot
    written   \* the disks partitioner_execute has written to

scan == <<read, there, stayed, offered, tries>>
choice == <<select, answer, install, dual>>
bootvars == <<vars, mode, stage, scan, choice, written>>

\* An empty line, which is no unsigned int.
Enter == UintWidth

\* What may be typed at the prompt; atoi makes numbers of all lines but Enter.
Lines == {Enter} \cup 0 .. Cardinality(Disks) + 1 \cup {UintWidth - 1}

BootInit ==
    /\ Init
    /\ mode \in {"cli", "automatic", "provision"}
    /\ stage = "off"
    /\ read = {} /\ there = {} /\ stayed = {}
    /\ offered = << >>
    /\ tries = 0
    /\ select = 1
    /\ answer = Enter
    /\ install = IF mode = "cli" THEN NoDisk ELSE InstallDisk
    /\ dual = (mode = "automatic")
    /\ written = {}

\* preinit goes on, or a device comes or goes.
Preinits ==
    /\ Next
    /\ stayed' = stayed \cap present'
    /\ UNCHANGED <<mode, stage, read, there, offered, tries, choice, written>>

-----------------------------------------------------------------------------
(* partitioner_prepare *)

\* Android's init is up and starts the service iagod.
StartIagod ==
    /\ pc = "init" /\ stage = "off"
    /\ stage' = "opendir"
    /\ UNCHANGED <<vars, mode, scan, choice, written>>

\* opendir("/sys/block")
OpenBlock ==
    /\ stage = "opendir"
    /\ \/ /\ stage' = "scan"
          /\ there' = present /\ stayed' = present
       \/ /\ Errors
          /\ stage' = "dead"
          /\ UNCHANGED <<there, stayed>>
    /\ read' = {}
    /\ UNCHANGED <<vars, mode, offered, tries, choice, written>>

\* Skipped(d) without the comparison with ro.iago.media.
SkipsOptical(d) == d \in Optical

\* regexec, and strcmp with ro.iago.media.
Skipped(d) == d \in Optical \/ d = prop

\* One turn of the readdir loop: what cannot be read in sysfs is fatal, be it
\* that the disk is gone or that it has no name.
ScanDisk ==
    /\ stage = "scan"
    /\ \E d \in (present \cup there) \ read :
          /\ read' = read \cup {d}
          /\ \/ /\ Skipped(d)
                /\ UNCHANGED <<stage, offered>>
             \/ /\ ~Skipped(d)
                /\ d \in present /\ d \notin Unnamed
                /\ offered' = Append(offered, d)
                /\ UNCHANGED stage
             \/ /\ ~Skipped(d)
                /\ d \notin present \/ d \in Unnamed
                /\ stage' = "dead"
                /\ UNCHANGED offered
    /\ UNCHANGED <<vars, mode, there, stayed, tries, choice, written>>

\* The loop left at the first disk that was taken.
SomeRead == offered # << >> \/ stayed \subseteq read

\* readdir returns NULL when it has returned what was there all along.
AllRead == stayed \subseteq read

\* goto tryagain, without the limit.
TryForever == tries' = tries /\ stage' = "opendir"

\* prep_counter, die() or sleep and goto tryagain
TryAgain ==
    /\ tries' = tries + 1
    /\ stage' = IF tries + 1 = Attempts THEN "none" ELSE "opendir"

EndOfScan ==
    /\ stage = "scan"
    /\ AllRead
    /\ \/ /\ offered = << >>
          /\ TryAgain
       \/ /\ offered # << >>
          /\ stage' = IF mode = "cli" THEN "ask" ELSE "execute"
          /\ UNCHANGED tries
    /\ UNCHANGED <<vars, mode, read, there, stayed, offered, choice, written>>

Prepare == StartIagod \/ OpenBlock \/ ScanDisk \/ EndOfScan

-----------------------------------------------------------------------------
(* partitioner_cli *)

\* The entry a walk ends on that starts one too far.
WalkFromSecond(sel, n) == (sel % UintWidth) % (n + 1)

\* while (1) { if (!--select) ...; node = node->next; }: the place on the ring of
\* n entries and the list head, which comes last.
Walk(sel, n) == ((sel - 1) % UintWidth) % (n + 1)

\* ui_option_get with more than one entry: what was typed stays in select while
\* the question is asked again; on the list head the walk finds no option.
Answer ==
    /\ stage = "ask" /\ Len(offered) > 1
    /\ \E line \in Lines :
          LET sel   == IF line = Enter THEN select ELSE line
              place == Walk(sel, Len(offered)) + 1
          IN  /\ answer' = line
              /\ select' = sel
              /\ \/ /\ sel > Len(offered)
                    /\ UNCHANGED <<stage, install>>
                 \/ /\ sel <= Len(offered) /\ place \in DOMAIN offered
                    /\ install' = offered[place]
                    /\ stage' = "questions"
                 \/ /\ sel <= Len(offered) /\ place \notin DOMAIN offered
                    /\ stage' = "dead"
                    /\ UNCHANGED install
    /\ UNCHANGED <<vars, mode, scan, dual, written>>

\* ... and with one, which is not asked for.
OnlyOption ==
    /\ stage = "ask" /\ Len(offered) = 1
    /\ install' = offered[1]
    /\ stage' = "questions"
    /\ UNCHANGED <<vars, mode, scan, select, answer, dual, written>>

\* Dual boot is offered for a disk with Windows; anything else wipes the disk,
\* if the user agrees and there is room.
Questions ==
    /\ stage = "questions"
    /\ \/ /\ install \in Windows
          /\ dual' = TRUE
          /\ stage' = "execute"
       \/ /\ stage' = "execute"
          /\ UNCHANGED dual
       \/ /\ stage' = "dead"
          /\ UNCHANGED dual
    /\ UNCHANGED <<vars, mode, scan, select, answer, install, written>>

-----------------------------------------------------------------------------
(* partitioner_execute *)

\* disk.X:esp_index, which execute_dual_boot insists on.
HasEspIndex(d) ==
    \E i \in DOMAIN offered : offered[i] = d /\ d \in Windows

\* die() before the table is written, in the middle or behind it, or no die().
Execute ==
    /\ stage = "execute"
    /\ \/ /\ install \in present
          /\ dual => HasEspIndex(install)
          /\ written' = written \cup {install}
          /\ stage' \in {"done", "dead"}
       \/ /\ stage' = "dead"
          /\ UNCHANGED written
    /\ UNCHANGED <<vars, mode, scan, choice>>

BootNext ==
    \/ Preinits
    \/ Prepare
    \/ Answer
    \/ OnlyOption
    \/ Questions
    \/ Execute

BootSpec ==
    /\ BootInit /\ [][BootNext]_bootvars
    /\ WF_bootvars(Process /\ Preinits)
    /\ WF_bootvars(Prepare)

-----------------------------------------------------------------------------
(* What makes it correct *)

\* The lists hold disks, select is an unsigned int, and iagod runs on the media only.
ChoiceTypeOK ==
    /\ TypeOK
    /\ stage \in {"off", "opendir", "scan", "none", "ask", "questions", "execute",
                  "done", "dead"}
    /\ stage # "off" => pc = "init"
    /\ offered \in Seq(Disks)
    /\ tries \in 0 .. Attempts
    /\ select \in 0 .. UintWidth - 1
    /\ install \in Disks \cup {NoDisk} /\ dual \in BOOLEAN
    /\ written \subseteq Disks

\* The media that is mounted as /installmedia is never written to, neither by
\* who chooses a disk in the interactive installer nor by an automatic
\* dual boot, whatever it is called: what partitioner_prepare skips is the disk that
\* preinit found it on.
MediaSpared ==
    mode # "provision" /\ written # {} => DiskOf(Head(mounted)) \notin written

\* A disk that was there throughout the last scan is in the list, once, if it is neither
\* the media nor an optical drive, also when the installer gives up with
\* "No suitable device to install Android on found!".
EveryDiskOffered ==
    /\ \A i, j \in DOMAIN offered : offered[i] = offered[j] => i = j
    /\ stage \in {"none", "ask", "questions", "execute"} =>
          \A d \in stayed : Skipped(d) \/ \E i \in DOMAIN offered : offered[i] = d

\* What is written is the disk whose number was typed last or, if that was Enter,
\* the default.  (The answer 0 is accepted too and picks whatever entry the walk
\* round the list comes to.)
TargetAsAsked ==
    mode = "cli" /\ written # {} /\ Len(offered) > 1 =>
        \/ answer = 0
        \/ written = {offered[IF answer = Enter THEN 1 ELSE answer]}

\* Without the user, the machine comes to a question, an installation or a failure.
ComesToAnEnd ==
    <>(pc \in {"exited", "panic"} \/ stage \in {"none", "ask", "execute", "dead"})
=============================================================================
