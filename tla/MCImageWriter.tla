--------------------------- MODULE MCImageWriter ----------------------------
(***************************************************************************)
(* ImageWriter for TLC: every mode and type, images that are smaller and   *)
(* larger than the partition, footers up to more than all of it.           *)
(***************************************************************************)
EXTENDS ImageWriter

\* Fields that make no difference to a mode have one value.
MCJobs ==
    [mode : {"image"}, type : {"ext4", "vfat", "boot"}, volume : {0, 6, 7}, length : {0, 5, 7, 8},
     footer : {0, 2, 3, 9}, clean : BOOLEAN]
    \cup [mode : {"format"}, type : {"ext4", "esp", "boot"}, volume : {0, 7}, length : {0},
          footer : {0, 3, 7, 8}, clean : {TRUE}]
    \cup [mode : {"zero", "skip", "unknown"}, type : {"misc"}, volume : 0 .. 9, length : {0},
          footer : {0}, clean : {TRUE}]
=============================================================================
