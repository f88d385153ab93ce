---------------------------- MODULE MCInstaller -----------------------------
(***************************************************************************)
(* Installer for TLC: short forms of the partition list of                 *)
(* installer/iago.ini, and the disks it is run on.                         *)
(***************************************************************************)
EXTENDS Installer

P(name, type, mode) == [name |-> name, type |-> type, mode |-> mode]

\* With two boot images, for installations over one another.
TwoImages == << P("bootloader", "esp", "format"), P("boot", "boot", "image"),
                P("recovery", "recovery", "image"), P("cache", "ext4", "format"),
                P("factory", "ext4", "format") >>

\* With every mode of the imagewriter.
AllModes == << P("bootloader", "esp", "format"), P("bootloader2", "vfat", "skip"),
               P("boot", "boot", "image"), P("misc", "misc", "zero"),
               P("system", "ext4", "image"), P("cache", "ext4", "format"),
               P("factory", "ext4", "format") >>

Used1(cell, name) == [cell |-> cell, name |-> name, guid |-> 0]

Rows(rows) == [i \in Indices |-> IF i \in DOMAIN rows THEN rows[i] ELSE NoPart]

WindowsEsp == [Content("fs", "windows") EXCEPT !.files = {File("windows", "none", 0, TRUE)}]

Contents(esp, windows) ==
    [c \in 1 .. NumCells |-> IF c = esp THEN WindowsEsp
                             ELSE IF c \in windows THEN Content("windows", "none") ELSE Junk]

Blank == [table |-> Rows(<< >>), cells |-> Contents(0, {})]

Windows == [table |-> Rows(<<Used1(1, "esp"), Used1(2, "windows")>>),
            cells |-> Contents(1, {2})]

\* Windows, an older Android the cells of which are in another order, and a
\* recovery partition of Windows at the end of the disk.
WithAndroid ==
    [table |-> Rows(<<Used1(1, "bootloader"), Used1(2, "windows"), Used1(4, "boot"),
                      Used1(3, "cache"), Used1(NumCells, "windows")>>),
     cells |-> Contents(1, {2, NumCells})]

\* An Android alone, with as many partitions as AllModes.
Shifted ==
    [table |-> Rows(<<Used1(2, "bootloader"), Used1(3, "bootloader2"), Used1(4, "boot"),
                      Used1(5, "misc"), Used1(6, "system"), Used1(7, "cache"),
                      Used1(8, "factory")>>),
     cells |-> [c \in 1 .. NumCells |-> IF c = 2 THEN Content("fs", "bootloader") ELSE Junk]]

RerunLayouts == {Windows}
SingleLayouts == {Blank, Windows, WithAndroid}
AllLayouts == SingleLayouts \cup {Shifted}
OneBoot == {<<"boot">>}
TwoBoots == {<<"boot">>, <<"boot", "recovery">>}
=============================================================================
