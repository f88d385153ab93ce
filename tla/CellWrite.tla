----------------------------- MODULE CellWrite ------------------------------
(***************************************************************************)
(* What the imagewriter promises about one partition, and all that         *)
(* Installer knows of it: the contents are spoilt, then they are what the  *)
(* ini file asks for, and only then it goes on to the next partition; it   *)
(* may die instead at any time.                                            *)
(***************************************************************************)

VARIABLES
    cell,     \* what a read of the partition returns
    outcome   \* of execute_cb for it

Init ==
    /\ cell = "old"
    /\ outcome = "running"

Spoil ==
    /\ outcome = "running" /\ cell = "old"
    /\ cell' = "junk"
    /\ UNCHANGED outcome

Finish ==
    /\ outcome = "running"
    /\ cell' = "result"
    /\ outcome' = "done"

Die ==
    /\ outcome = "running"
    /\ outcome' = "dead"
    /\ UNCHANGED cell

Next == Spoil \/ Finish \/ Die

Spec == Init /\ [][Next]_<<cell, outcome>>
=============================================================================
