---------------------------- MODULE MCDiskChoice ----------------------------
(***************************************************************************)
(* DiskChoice for TLC: a stick with the media on its partition, an optical *)
(* drive that is the media as a whole, a disk with Windows to install on   *)
(* and a disk the driver has no name for.                                  *)
(***************************************************************************)
EXTENDS DiskChoice, TLC

MCParts == ("sda" :> {"sda1", "sda2"}) @@ ("sr0" :> {}) @@ ("sdb" :> {"sdb1"})
             @@ ("vda" :> {})
=============================================================================
