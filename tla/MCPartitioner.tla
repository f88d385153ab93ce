--------------------------- MODULE MCPartitioner ----------------------------
(***************************************************************************)
(* Partitioner for TLC: a disk of 11 MiB with 4 sectors to the MiB, and    *)
(* the layouts an installer meets on it.                                   *)
(***************************************************************************)
EXTENDS Partitioner

Part(name, type, len) == [name |-> name, type |-> type, len |-> len]

\* A short form of the list of installer/iago.ini, in its order.
MCPartList == << Part("bootloader", "esp", 1), Part("bootloader2", "ms_data", 1),
                 Part("boot", "boot", 1), Part("data", "linux", -1),
                 Part("factory", "linux", 1) >>

E(name, type, first, last) ==
    [first_lba |-> first, last_lba |-> last, type |-> type, name |-> name]

Free == ZeroEntry

Table(entries) ==
    [first_usable_lba |-> 3, last_usable_lba |-> 41, entries |-> entries]

\* Windows: an ESP, the reserved partition, the data partition, possibly a
\* recovery partition behind it, and possibly an older Android (the entries
\* of which follow, in the space behind Windows).
Foreign(n) == <<"other", n>>

EspEntries == {E(Foreign("esp"), "esp", 4, 7),
               E(Foreign("esp"), "esp", 3, 5),
               E(AndroidName("bootloader"), "esp", 4, 7)}

WindowsEntries == {E(Foreign("win"), "ms_data", f, l) :
                      f \in {9, 12}, l \in {15, 18, 23, 29, 31, 34, 38, 39, 41}}

TailEntries == {<<Free, Free, Free, Free>>,
                <<E(Foreign("rec"), "other", 36, 37), Free, Free, Free>>,
                <<E(Foreign("rec"), "other", 24, 37), Free, Free, Free>>,
                <<E(Foreign("rec"), "other", 24, 27), Free, Free, Free>>,
                <<E(AndroidName("boot"), "boot", 24, 27),
                  E(AndroidName("data"), "linux", 28, 35),
                  E(AndroidName("factory"), "linux", 36, 39), Free>>,
                <<E(AndroidName("bootloader2"), "ms_data", 20, 23),
                  E(AndroidName("boot"), "boot", 24, 27),
                  E(AndroidName("data"), "linux", 28, 37),
                  E(AndroidName("factory"), "linux", 38, 41)>>}

WindowsTables ==
    {t \in {Table(<<esp, E(Foreign("msr"), "ms_reserved", 8, 8), win>> \o tail)
              : esp \in EspEntries, win \in WindowsEntries, tail \in TailEntries}
       : Disjoint(t)}

\* A disk without Windows, with and without an ESP, and one whose reserved
\* partition is followed by something else.
OtherTables ==
    {Table(<<Free, Free, Free, Free, Free, Free>>),
     Table(<<E(Foreign("esp"), "esp", 4, 7), Free, Free, Free, Free, Free>>),
     Table(<<E(AndroidName("bootloader"), "esp", 4, 7),
             E(AndroidName("bootloader2"), "ms_data", 8, 11),
             E(AndroidName("boot"), "boot", 12, 15),
             E(AndroidName("data"), "linux", 16, 35),
             E(AndroidName("factory"), "linux", 36, 39), Free, Free>>),
     Table(<<E(Foreign("esp"), "esp", 4, 7), E(Foreign("msr"), "ms_reserved", 8, 8),
             Free, E(Foreign("rec"), "other", 9, 15), Free, Free>>)}

\* Full disks: no free sector at all, and free regions within one MiB.
TightTables ==
    {t \in {Table(<<E(Foreign("esp"), "esp", 3, 7),
                    E(Foreign("msr"), "ms_reserved", 8, 8),
                    E(Foreign("win"), "ms_data", 9, l),
                    E(Foreign("rec"), "other", f, 41), Free, Free, Free, Free>>)
              : l \in 35 .. 39, f \in 37 .. 40}
       : Disjoint(t)}

NoNtfs == [index |-> 0, size |-> 0, min |-> 0]

\* Blank disks of every size around the smallest that can be installed on.
BlankDisks ==
    {[sectors |-> n, table |-> NoTable, ntfs |-> NoNtfs] : n \in 21 .. 37}

MCDisks ==
    BlankDisks
    \cup {[sectors |-> 44, table |-> t, ntfs |-> NoNtfs] : t \in OtherTables}
    \cup
    UNION {{[sectors |-> 44, table |-> t,
             ntfs |-> [index |-> 3, size |-> size, min |-> min]]
              : min \in {2, 5}, size \in {gpt_entry_get_size(t.entries[3]) - 1,
                                          gpt_entry_get_size(t.entries[3])}}
           : t \in WindowsTables \cup TightTables}
=============================================================================
