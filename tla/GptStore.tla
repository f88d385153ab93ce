------------------------------ MODULE GptStore ------------------------------
(***************************************************************************)
(* What libgpt promises to a program that reads the partition table of a   *)
(* disk while another run of the installer replaces it (or was killed      *)
(* while replacing it).                                                    *)
(*                                                                         *)
(* `seen' is the table a reader gets, `fallback' the table the backup copy *)
(* holds.  A reader sees a new table at once and whole; the only way back  *)
(* is to the fallback, and the fallback is given up only while the table   *)
(* in use does not depend on it.                                           *)
(***************************************************************************)

CONSTANTS Tables,     \* the tables that are ever written
          NoTable     \* "the disk has no readable table"

VARIABLES seen, fallback

vars == <<seen, fallback>>

Readable == Tables \cup {NoTable}

Init ==
    /\ seen \in Readable
    /\ fallback \in Readable

\* A reader starts to see the table t (and the backup may become t with it).
Publish(t) ==
    /\ seen' = t
    /\ fallback' \in {fallback, t}

\* The table in use is lost: readers are left with what the backup holds.
FallBack ==
    /\ seen' = fallback
    /\ UNCHANGED fallback

\* The backup becomes unreadable while the table in use is intact.
BreakBackup ==
    /\ seen # NoTable
    /\ fallback' = NoTable
    /\ UNCHANGED seen

\* The backup is brought up to the table in use.
Settle ==
    /\ seen # NoTable
    /\ fallback' = seen
    /\ UNCHANGED seen

Next ==
    \/ \E t \in Tables : Publish(t)
    \/ FallBack
    \/ BreakBackup
    \/ Settle

Spec == Init /\ [][Next]_vars
=============================================================================
