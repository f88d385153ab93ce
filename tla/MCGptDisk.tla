----------------------------- MODULE MCGptDisk ------------------------------
(* GptDisk for TLC: tables are interchangeable.                             *)
EXTENDS GptDisk, TLC

TableSymmetry == Permutations(Tables)
=============================================================================
