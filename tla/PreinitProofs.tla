---------------------------- MODULE PreinitProofs ---------------------------
(***************************************************************************)
(* Proofs about Preinit, for every set of disks and partitions, whatever   *)
(* comes, goes or fails while preinit looks for the media.                 *)
(***************************************************************************)
EXTENDS Preinit, TLAPS

-----------------------------------------------------------------------------
(* The inductive invariant *)

\* The disk at hand, and the partitions that are left of it, are what readdir gave.
AtHand ==
    /\ disk \in Disks \cup {NoDisk}
    /\ pc \in {"opendir", "parts", "success"} => disk \in Disks /\ disk \in seen
    /\ todo \subseteq (IF disk = NoDisk THEN {} ELSE Parts[disk])
    /\ seen \subseteq Disks /\ listed \subseteq Disks /\ present \subseteq Disks
    /\ steady \subseteq Disks
    /\ pc \notin {"parts", "success"} => todo = {}

\* What is mounted is media; what was mounted last is on the disk at hand.
Mounts ==
    /\ mounted \in Seq(Devices)
    /\ \A i \in DOMAIN mounted : mounted[i] \in Cookies
    /\ pc = "success" => mounted # << >> /\ disk = DiskOf(Head(mounted))
    /\ pc = "init" => mounted # << >> /\ prop = DiskOf(Head(mounted))

NoCookies(d) == (Parts[d] \cup {d}) \cap Cookies = {}

\* As long as nothing failed, what this scan has been through holds no media.
Missed ==
    /\ pc = "disks" => erred \/ \A d \in seen : NoCookies(d)
    /\ pc = "opendir" => erred \/ (disk \notin Cookies /\ \A d \in seen \ {disk} : NoCookies(d))
    /\ pc = "parts" => \/ erred
                       \/ /\ disk \notin Cookies
                          /\ (Parts[disk] \ todo) \cap Cookies = {}
                          /\ \A d \in seen \ {disk} : NoCookies(d)
    /\ pc \in {"retry", "panic"} => erred \/ \A d \in steady : NoCookies(d)

Counts ==
    /\ pc \in {"scan", "disks", "opendir", "parts", "success", "retry", "init", "exited",
              "panic"}
    /\ count \in 0 .. Count

IInv == AtHand /\ Mounts /\ Missed /\ Counts

-----------------------------------------------------------------------------
(* Steps *)

\* Each device is on one disk.
LEMMA DiskOfDevice ==
    ASSUME NEW d \in Disks, NEW n, n = d \/ n \in Parts[d]
    PROVE  n \in Devices /\ DiskOf(n) = d
  <1>1. \A e \in Disks : n = e \/ n \in Parts[e] => e = d
    BY DevicesAssumption
  <1> QED BY <1>1 DEF Devices, DiskOf

\* What is_install_media leaves behind.
LEMMA Examined ==
    ASSUME IInv, NEW d \in Disks, NEW n, n = d \/ n \in Parts[d],
           NEW found \in BOOLEAN, Examine(n, found)
    PROVE  /\ mounted' \in Seq(Devices)
           /\ \A i \in DOMAIN mounted' : mounted'[i] \in Cookies
           /\ found => mounted' # << >> /\ Head(mounted') = n /\ DiskOf(n) = d
           /\ ~found => erred' \/ n \notin Cookies
           /\ ~found /\ ~erred' => ~erred
  <1>1. n \in Devices /\ DiskOf(n) = d
    BY DiskOfDevice
  <1>2. CASE found
    <2>1. mounted' = <<n>> \o mounted /\ n \in Cookies
      BY <1>2 DEF Examine
    <2>2. /\ mounted' \in Seq(Devices) /\ mounted' # << >> /\ Head(mounted') = n
          /\ \A i \in DOMAIN mounted' : mounted'[i] \in Cookies
      BY <1>1, <2>1 DEF IInv, Mounts
    <2> QED BY <1>1, <1>2, <2>2
  <1>3. CASE ~found
    <2>1. mounted' = mounted
      BY <1>3 DEF Examine, NotMedia
    <2>2. erred' = IF n \in Cookies THEN TRUE ELSE erred
      BY <1>3 DEF Examine
    <2> QED BY <1>3, <2>1, <2>2 DEF IInv, Mounts
  <1> QED BY <1>2, <1>3

\* Nothing is known at the start, and nothing mounted.
LEMMA InitIInv == Init => IInv
  BY DevicesAssumption DEF Init, IInv, AtHand, Mounts, Missed, Counts

\* is_install_media on a whole disk, which becomes the disk at hand.
LEMMA NextDiskIInv == IInv /\ NextDisk => IInv'
  <1> SUFFICES ASSUME IInv, NextDisk
               PROVE  IInv'
    OBVIOUS
  <1>1. PICK d \in (present \cup listed) \ seen, found \in BOOLEAN :
          /\ seen' = seen \cup {d}
          /\ disk' = d
          /\ Examine(d, found)
          /\ pc' = IF found THEN "success" ELSE "opendir"
    BY DEF NextDisk
  <1>2. /\ pc = "disks"
        /\ UNCHANGED <<present, listed, steady, todo, prop, count, plugs>>
    BY DEF NextDisk
  <1>3. d \in Disks /\ d # NoDisk /\ d \notin seen /\ todo = {}
    BY <1>2, DevicesAssumption DEF IInv, AtHand
  <1>4. /\ mounted' \in Seq(Devices)
        /\ \A i \in DOMAIN mounted' : mounted'[i] \in Cookies
        /\ found => mounted' # << >> /\ Head(mounted') = d /\ DiskOf(d) = d
        /\ ~found => erred' \/ d \notin Cookies
        /\ ~found /\ ~erred' => ~erred
    BY <1>1, <1>3, Examined
  <1>5. AtHand'
    BY <1>1, <1>2, <1>3 DEF IInv, AtHand
  <1>6. Mounts'
    BY <1>1, <1>2, <1>4 DEF Mounts
  <1>7. Missed'
    <2>1. CASE found
      BY <1>1, <2>1 DEF Missed
    <2>2. CASE ~found
      <3>1. erred \/ \A e \in seen : NoCookies(e)
        BY <1>2 DEF IInv, Missed
      <3>2. seen' \ {d} = seen
        BY <1>1, <1>3
      <3>3. erred' \/ (d \notin Cookies /\ \A e \in seen' \ {d} : NoCookies(e))
        BY <1>4, <2>2, <3>1, <3>2
      <3> QED BY <1>1, <2>2, <3>3 DEF Missed, NoCookies
    <2> QED BY <2>1, <2>2
  <1>8. Counts'
    BY <1>1, <1>2 DEF IInv, Counts
  <1> QED BY <1>5, <1>6, <1>7, <1>8 DEF IInv

\* is_install_media on a partition of the disk at hand.
LEMMA NextPartIInv == IInv /\ NextPart => IInv'
  <1> SUFFICES ASSUME IInv, NextPart
               PROVE  IInv'
    OBVIOUS
  <1>1. PICK p \in todo, found \in BOOLEAN :
          /\ todo' = todo \ {p}
          /\ Examine(p, found)
          /\ pc' = IF found THEN "success" ELSE "parts"
    BY DEF NextPart
  <1>2. /\ pc = "parts"
        /\ UNCHANGED <<present, seen, listed, steady, disk, prop, count, plugs>>
    BY DEF NextPart
  <1>3. disk \in Disks /\ disk # NoDisk /\ disk \in seen /\ todo \subseteq Parts[disk]
    BY <1>2, DevicesAssumption DEF IInv, AtHand
  <1>4. /\ mounted' \in Seq(Devices)
        /\ \A i \in DOMAIN mounted' : mounted'[i] \in Cookies
        /\ found => mounted' # << >> /\ Head(mounted') = p /\ DiskOf(p) = disk
        /\ ~found => erred' \/ p \notin Cookies
        /\ ~found /\ ~erred' => ~erred
    BY <1>1, <1>3, Examined
  <1>5. AtHand'
    BY <1>1, <1>2, <1>3 DEF IInv, AtHand
  <1>6. Mounts'
    BY <1>1, <1>2, <1>4 DEF Mounts
  <1>7. Missed'
    <2>1. CASE found
      BY <1>1, <2>1 DEF Missed
    <2>2. CASE ~found
      <3>1. \/ erred
            \/ /\ disk \notin Cookies
               /\ (Parts[disk] \ todo) \cap Cookies = {}
               /\ \A d \in seen \ {disk} : NoCookies(d)
        BY <1>2 DEF IInv, Missed
      <3>2. p \notin Cookies /\ (Parts[disk] \ todo) \cap Cookies = {}
              => (Parts[disk] \ todo') \cap Cookies = {}
        BY <1>1
      <3> QED BY <1>1, <1>2, <1>4, <2>2, <3>1, <3>2 DEF Missed, NoCookies
    <2> QED BY <2>1, <2>2
  <1>8. Counts'
    BY <1>1, <1>2 DEF IInv, Counts
  <1> QED BY <1>5, <1>6, <1>7, <1>8 DEF IInv

\* The ends of the two loops: all partitions of a disk, all disks have been looked at.
LEMMA LoopEndIInv == IInv /\ (EndScan \/ EndParts) => IInv'
  <1> SUFFICES ASSUME IInv, EndScan \/ EndParts
               PROVE  IInv'
    OBVIOUS
  <1>1. UNCHANGED <<present, seen, listed, steady, erred, disk, todo, mounted, prop, count>>
    BY DEF EndScan, EndParts
  <1>2. todo = {}
    BY DEF EndScan, EndParts, NoneLeft, IInv, AtHand
  <1>3. AtHand' /\ Mounts' /\ Counts'
    BY <1>1, <1>2 DEF EndScan, EndParts, IInv, AtHand, Mounts, Counts
  <1>4. Missed'
    <2>1. CASE EndScan
      BY <1>1, <2>1 DEF EndScan, IInv, Missed, NoCookies
    <2>2. CASE EndParts
      <3>1. erred \/ (NoCookies(disk) /\ \A d \in seen \ {disk} : NoCookies(d))
        BY <1>2, <2>2 DEF EndParts, IInv, Missed, NoCookies
      <3>2. erred \/ \A d \in seen : NoCookies(d)
        BY <3>1
      <3> QED BY <1>1, <2>2, <3>2 DEF EndParts, Missed, NoCookies
    <2> QED BY <2>1, <2>2
  <1> QED BY <1>3, <1>4 DEF IInv

\* Opening directories, starting Android's init, trying again.
LEMMA OtherIInv == IInv /\ (OpenScan \/ OpenDisk \/ Success \/ Retry) => IInv'
  <1> SUFFICES ASSUME IInv, OpenScan \/ OpenDisk \/ Success \/ Retry
               PROVE  IInv'
    OBVIOUS
  <1> USE DEF IInv, AtHand, Mounts, Missed, Counts
  <1>1. CASE OpenScan
    BY <1>1 DEF OpenScan
  <1>2. CASE OpenDisk
    BY <1>2, DevicesAssumption DEF OpenDisk, NoCookies
  <1>3. CASE Success
    BY <1>3, DevicesAssumption DEF Success
  <1>4. CASE Retry
    BY <1>4, DevicesAssumption DEF Retry, Again, NoCookies
  <1> QED BY <1>1, <1>2, <1>3, <1>4

\* A device that comes or goes was not there throughout.
LEMMA PlugIInv == IInv /\ Plug => IInv'
  <1> SUFFICES ASSUME IInv, Plug
               PROVE  IInv'
    OBVIOUS
  <1>1. /\ present' \subseteq Disks /\ steady' \subseteq steady
        /\ UNCHANGED <<seen, listed, erred, disk, todo, mounted, prop, count, pc>>
    BY DEF Plug, IInv, AtHand
  <1> QED BY <1>1 DEF IInv, AtHand, Mounts, Missed, Counts, NoCookies

LEMMA NextIInv == IInv /\ [Next]_vars => IInv'
  <1> SUFFICES ASSUME IInv, [Next]_vars
               PROVE  IInv'
    OBVIOUS
  <1>1. CASE UNCHANGED vars
    BY <1>1 DEF vars, IInv, AtHand, Mounts, Missed, Counts, NoCookies
  <1>2. CASE Next
    BY <1>2, NextDiskIInv, NextPartIInv, LoopEndIInv, OtherIInv, PlugIInv DEF Next, Process
  <1> QED BY <1>1, <1>2

LEMMA Inductive == Spec => []IInv
  BY InitIInv, NextIInv, PTL DEF Spec

-----------------------------------------------------------------------------
(* The theorems *)

\* preinit looks at partitions of the disk at hand, mounts devices and counts down.
THEOREM PreinitTypeCorrect == Spec => []TypeOK
  <1>1. IInv => TypeOK
    BY DEF IInv, AtHand, Mounts, Counts, TypeOK
  <1> QED BY <1>1, Inductive, PTL

\* Android's init is only started with the media mounted, and ro.iago.media names
\* the disk it is on.
THEOREM InitIsOnMedia == Spec => []InitHasMedia
  <1>1. IInv => InitHasMedia
    BY DEF IInv, Mounts, InitHasMedia
  <1> QED BY <1>1, Inductive, PTL

\* preinit overlooks no media that is there all through a scan in which nothing fails.
THEOREM PanicMeansMissed == Spec => []PanicOnlyIfMissed
  <1>1. IInv => PanicOnlyIfMissed
    BY DEF IInv, Missed, NoCookies, PanicOnlyIfMissed
  <1> QED BY <1>1, Inductive, PTL
=============================================================================
