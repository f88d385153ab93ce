---------------------------- MODULE MCDiskLabel -----------------------------
(***************************************************************************)
(* DiskLabel for TLC: sectors of 2 bytes and a "KB" of 4.                  *)
(***************************************************************************)
EXTENDS DiskLabel

\* A partition of the layout file with, or without (0), an image.
Item(n, image) == [part |-> [n |-> n, suffix |-> ""], image |-> image]
ItemK(n) == [part |-> [n |-> n, suffix |-> "K"], image |-> 0]

Items == {Item(1, 0), Item(2, 0), Item(1, 3), Item(1, 2), ItemK(1)}
FewItems == {Item(1, 0), Item(1, 3)}
RestItem == Item(REST, 0)

SeqsOf(S, n) == [1 .. n -> S]

\* One to seven partitions, of which the last may take the rest.
Lists ==
    LET full == UNION {SeqsOf(Items, n) : n \in 1 .. 3}
                  \cup UNION {SeqsOf(FewItems, n) : n \in 4 .. 7}
    IN  full \cup {Append(l, RestItem) : l \in {f \in full : Len(f) <= 6}}

\* The table of an earlier use of the file: two primary partitions and an
\* extended one, with an EBR that is still there.
OldMbr == << Entry("part", 30, 1), Entry("none", 0, 0), Entry("part", 31, 1),
             Entry("ext", 5, 9) >>
OldEbr == (5 :> [logical |-> Entry("part", 1, 2), next |-> Entry("ext", 3, 3)])
            @@ (8 :> [logical |-> Entry("part", 1, 2), next |-> NoEntry])

NewMbr == [i \in 1 .. 4 |-> NoEntry]
NewEbr == [s \in {} |-> NoEbr]

Layout(l, skip, num, size, m, e) ==
    [skip_lba |-> skip, num_lba |-> num, file_lba |-> size,
     parts |-> [i \in DOMAIN l |-> l[i].part], images |-> [i \in DOMAIN l |-> l[i].image],
     mbr |-> m, ebr |-> e]

MCLayouts ==
    {Layout(l, skip, num, 19, OldMbr, OldEbr) : l \in Lists, skip \in {1, 3}, num \in {0, 16, 64}}
    \cup {Layout(l, 1, 0, 0, NewMbr, NewEbr) : l \in Lists}
=============================================================================
