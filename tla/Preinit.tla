------------------------------ MODULE Preinit -------------------------------
(***************************************************************************)
(* preinit.c, the first process of the installation media: it looks through*)
(* the disks and partitions the kernel has found so far for one that holds *)
(* the cookie of the media, again and again while devices are still being  *)
(* found, and starts Android's init when it is mounted.                    *)
(*                                                                         *)
(* Disks and partitions that match DISK_MATCH_REGEX (ram, loop, the boot   *)
(* areas of an MMC) are left out.                                          *)
(***************************************************************************)
EXTENDS Integers, Sequences, FiniteSets

CONSTANTS
    Disks,      \* the entries of /sys/block
    Parts,      \* the partitions of each disk
    HasFs,      \* the devices on which detect_fs finds a file system
    Cookies,    \* those that hold iago-cookie where it is looked for
    Count,      \* the count of main() (15)
    MaxPlugs,   \* bound: how many devices come and go
    Errors      \* whether system calls may fail

NoDisk == "none"

ASSUME DevicesAssumption ==
    /\ NoDisk \notin Disks
    /\ \A d \in Disks : Parts[d] \cap Disks = {}
    /\ \A d, e \in Disks : d # e => Parts[d] \cap Parts[e] = {}
    /\ HasFs \subseteq Disks \cup UNION {Parts[d] : d \in Disks}
    /\ Cookies \subseteq HasFs
    /\ Count \in Nat /\ MaxPlugs \in Nat /\ Errors \in BOOLEAN

VARIABLES
    present,  \* the disks the kernel has found
    seen,     \* the disks this scan has been through
    listed,   \* the disks that were there when the scan began
    steady,   \* history: those of them that have been there ever since
    erred,    \* history: something failed in this scan
    disk,     \* the disk being looked at
    todo,     \* its partitions that are still to be looked at
    mounted,  \* what is mounted on INSTALL_MOUNT and INSTALL_MEDIA, top first
    prop,     \* ro.iago.media
    count,
    plugs,
    pc

vars == <<present, seen, listed, steady, erred, disk, todo, mounted, prop, count, plugs, pc>>

Devices == Disks \cup UNION {Parts[d] : d \in Disks}

DiskOf(n) == CHOOSE d \in Disks : n = d \/ n \in Parts[d]

Init ==
    /\ present \in SUBSET Disks
    /\ seen = {}
    /\ listed = {}
    /\ steady = {}
    /\ erred = FALSE
    /\ disk = NoDisk
    /\ todo = {}
    /\ mounted = << >>
    /\ prop = NoDisk
    /\ count = Count
    /\ plugs = 0
    /\ pc = "scan"

\* The kernel finds a device, or one is pulled out.
Plug ==
    /\ plugs < MaxPlugs
    /\ plugs' = plugs + 1
    /\ \E d \in Disks : /\ present' = IF d \in present THEN present \ {d} ELSE present \cup {d}
                        /\ steady' = steady \ {d}
    /\ UNCHANGED <<seen, listed, erred, disk, todo, mounted, prop, count, pc>>

\* mount(2) of the device that is mounted on top already is refused (EBUSY).
Busy(n) == mounted # << >> /\ Head(mounted) = n

\* is_install_media on a device without the cookie, with the mounts left.
NotMediaLeft(n) == IF n \in HasFs THEN <<n>> \o mounted ELSE mounted

\* ... which it undoes.
NotMedia(n) == mounted

\* is_install_media: true if the file system can be mounted and has the cookie.
Examine(n, found) ==
    /\ DiskOf(n) \in present \/ ~found
    /\ \/ /\ found
          /\ n \in HasFs /\ n \in Cookies /\ ~Busy(n)
          /\ mounted' = <<n>> \o mounted
          /\ UNCHANGED erred
       \/ /\ ~found
          /\ n \notin Cookies \/ Busy(n) \/ Errors \/ DiskOf(n) \notin present
          /\ mounted' = IF n \in Cookies THEN mounted ELSE NotMedia(n)
          /\ erred' = IF n \in Cookies THEN TRUE ELSE erred

\* opendir("/sys/block")
OpenScan ==
    /\ pc = "scan"
    /\ seen' = {}
    /\ listed' = present
    /\ steady' = present
    /\ \/ /\ pc' = "disks"
          /\ erred' = FALSE
       \/ /\ Errors
          /\ pc' = "retry"
          /\ erred' = TRUE
    /\ UNCHANGED <<present, disk, todo, mounted, prop, count, plugs>>

\* readdir: a disk that comes or goes after opendir may or may not turn up.
NextDisk ==
    /\ pc = "disks"
    /\ \E d \in (present \cup listed) \ seen, found \in BOOLEAN :
          /\ seen' = seen \cup {d}
          /\ disk' = d
          /\ Examine(d, found)
          /\ pc' = IF found THEN "success" ELSE "opendir"
    /\ UNCHANGED <<present, listed, steady, todo, prop, count, plugs>>

EndScan ==
    /\ pc = "disks"
    /\ steady \subseteq seen
    /\ pc' = "retry"
    /\ UNCHANGED <<present, seen, listed, steady, erred, disk, todo, mounted, prop, count, plugs>>

\* opendir of the disk's directory: if it is gone, the whole scan is given up.
OpenDisk ==
    /\ pc = "opendir"
    /\ \/ /\ disk \in present
          /\ todo' = Parts[disk]
          /\ pc' = "parts"
          /\ UNCHANGED erred
       \/ /\ disk \notin present \/ Errors
          /\ pc' = "retry"
          /\ erred' = TRUE
          /\ UNCHANGED todo
    /\ UNCHANGED <<present, seen, listed, steady, disk, mounted, prop, count, plugs>>

NextPart ==
    /\ pc = "parts"
    /\ \E p \in todo, found \in BOOLEAN :
          /\ todo' = todo \ {p}
          /\ Examine(p, found)
          /\ pc' = IF found THEN "success" ELSE "parts"
    /\ UNCHANGED <<present, seen, listed, steady, disk, prop, count, plugs>>

\* The inner loop left as the outer one is, at the first entry that is no media.
AnyLeft == TRUE

NoneLeft == todo = {}

EndParts ==
    /\ pc = "parts"
    /\ NoneLeft
    /\ pc' = "disks"
    /\ UNCHANGED <<present, seen, listed, steady, erred, disk, todo, mounted, prop, count, plugs>>

\* The line for /default.prop; if it cannot be written, mount_device fails and main
\* tries again with the media mounted.  Otherwise main ends: execl makes Android's
\* init of preinit, with which all that is in its memory is gone, or fails and main
\* returns, which is a kernel panic too.
Success ==
    /\ pc = "success"
    /\ \/ /\ prop' = disk
          /\ pc' = "init" \/ (Errors /\ pc' = "exited")
          /\ seen' = {} /\ listed' = {} /\ steady' = {}
          /\ erred' = FALSE
          /\ disk' = NoDisk
          /\ count' = 0
       \/ /\ Errors
          /\ pc' = "retry"
          /\ erred' = TRUE
          /\ UNCHANGED <<seen, listed, steady, disk, prop, count>>
    /\ todo' = {}
    /\ UNCHANGED <<present, mounted, plugs>>

\* One more try at zero.
AgainAtZero == count >= 0

\* if (count--)
Again == count # 0

\* main's loop: sleep(2) and again, or exit(1), which is a kernel panic.
Retry ==
    /\ pc = "retry"
    /\ \/ /\ Again
          /\ count' = count - 1
          /\ pc' = "scan"
       \/ /\ ~Again
          /\ pc' = "panic"
          /\ UNCHANGED count
    /\ UNCHANGED <<present, seen, listed, steady, erred, disk, todo, mounted, prop, plugs>>

Process ==
    \/ OpenScan
    \/ NextDisk
    \/ EndScan
    \/ OpenDisk
    \/ NextPart
    \/ EndParts
    \/ Success
    \/ Retry

Next == Process \/ Plug

Spec == Init /\ [][Next]_vars /\ WF_vars(Process)

-----------------------------------------------------------------------------
(* What makes it correct *)

\* Only devices are mounted, the partitions to look at are of the disk at hand,
\* and the counters stay in their ranges.
TypeOK ==
    /\ pc \in {"scan", "disks", "opendir", "parts", "success", "retry", "init", "exited",
              "panic"}
    /\ present \subseteq Disks /\ seen \subseteq Disks
    /\ todo \subseteq (IF disk = NoDisk THEN {} ELSE Parts[disk])
    /\ mounted \in Seq(Devices)
    /\ count \in 0 .. Count

\* Android's init is started on the installation media and told the disk it is
\* on; nothing that was mounted to look at it is left behind.
InitHasMedia ==
    /\ \A i \in DOMAIN mounted : mounted[i] \in Cookies
    /\ pc = "init" => mounted # << >> /\ prop = DiskOf(Head(mounted))

\* The machine only panics if, in the last scan too, the media was not there
\* throughout or something failed: every disk and partition is looked at.
PanicOnlyIfMissed ==
    pc = "panic" =>
        \/ erred
        \/ \A d \in steady : (Parts[d] \cup {d}) \cap Cookies = {}

\* "Couldn't find installation media!" (preinit.c), whatever failed: not while it
\* is mounted.  ("panic" is where main prints this.)
PanicMeansNotFound == pc = "panic" => mounted = << >>
=============================================================================
