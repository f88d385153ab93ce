------------------------------ MODULE GptTable ------------------------------
(***************************************************************************)
(* struct gpt in memory and the operations of libgpt/gpt.c on its entries. *)
(* A table is a record: the usable range of the disk and the entries, a    *)
(* function from 1 .. num_pentries.  An entry with first_lba = 0 is free.  *)
(* LBAs are numbers of sectors; sizes are in sectors too.                  *)
(***************************************************************************)
EXTENDS Integers, SequencesExt

num_pentries(t) == Cardinality(DOMAIN t.entries)

\* struct gpt with its struct gpt_entry, whatever is in them.
IsShape(t) ==
    /\ t = [x \in {"first_usable_lba", "last_usable_lba", "entries"} |-> t[x]]
    /\ t.entries = [i \in DOMAIN t.entries |-> t.entries[i]]
    /\ num_pentries(t) \in Nat /\ DOMAIN t.entries = 1 .. num_pentries(t)
    /\ \A i \in DOMAIN t.entries :
          t.entries[i] = [x \in {"first_lba", "last_lba", "type", "name"} |-> t.entries[i][x]]

\* ... with unsigned numbers in them.
IsTable(t) ==
    /\ IsShape(t)
    /\ \A i \in DOMAIN t.entries :
          t.entries[i].first_lba \in Nat /\ t.entries[i].last_lba \in Nat

\* memset(e, 0, sizeof(struct gpt_entry))
ZeroEntry == [first_lba |-> 0, last_lba |-> 0, type |-> "none", name |-> << >>]

\* A counter that runs along with a loop: what it is after each turn.
RunningSums(v) ==
    LET sum[i \in 0 .. Len(v)] == IF i = 0 THEN 0 ELSE sum[i - 1] + v[i]
    IN  sum

\* partition_for_each
InUse(t) == {i \in DOMAIN t.entries : t.entries[i].first_lba # 0}

\* gpt_entry_get succeeds
ValidIndex(i, t) == i \in DOMAIN t.entries

\* gpt_new: 128 entries of 128 bytes; ptable_sectors is what they take.
gpt_new(sectors, ptable_sectors, pentries) ==
    LET gpt_sz == 1 + ptable_sectors
    IN  [first_usable_lba |-> 1 + gpt_sz,
         last_usable_lba  |-> sectors - (1 + gpt_sz),
         entries          |-> [i \in 1 .. pentries |-> ZeroEntry]]

\* gpt_entry_get_size, in sectors
gpt_entry_get_size(e) == (e.last_lba + 1) - e.first_lba

\* gpt_next_index: the first free entry, 0 if the table is full.
gpt_next_index(t) ==
    LET free == DOMAIN t.entries \ InUse(t)
    IN  IF free = {} THEN 0 ELSE Min(free)

\* gpt_entry_create that forgets to set the first sector.
EntryCreateFree(t, name, type, first, last) ==
    [t EXCEPT !.entries[gpt_next_index(t)] =
        [first_lba |-> 0, last_lba |-> last, type |-> type, name |-> name]]

\* gpt_entry_create into the entry gpt_next_index found: it looks neither at
\* the usable range nor at the other entries (the TODO in the source).
gpt_entry_create(t, name, type, first, last) ==
    [t EXCEPT !.entries[gpt_next_index(t)] =
        [first_lba |-> first, last_lba |-> last, type |-> type, name |-> name]]

\* gpt_entry_delete for each of these entries
gpt_entry_delete(t, which) ==
    [t EXCEPT !.entries = [i \in DOMAIN t.entries |->
        IF i \in which THEN ZeroEntry ELSE t.entries[i]]]

\* gpt_entry_set_name
gpt_entry_set_name(t, i, name) == [t EXCEPT !.entries[i].name = name]

-----------------------------------------------------------------------------
(* gpt_find_contiguous_free_space *)

\* struct ptn_region, for the sectors from base up to start.
Region(base, start) == [start |-> base, end |-> start - 1, size |-> start - base]

NoRegion == [start |-> 0, end |-> 0, size |-> 0]

\* base in the walk over the sorted partitions, after those in done: behind the
\* one that starts last, which is the one the walk has come to.
Base(t, done) ==
    IF done = {} THEN t.first_usable_lba
    ELSE LET i == CHOOSE i \in done :
                    \A j \in done : t.entries[j].first_lba <= t.entries[i].first_lba
         IN  t.entries[i].last_lba + 1

\* The partitions that regioncmp sorts in front of one.
Before(i, t) == {j \in InUse(t) : t.entries[j].first_lba < t.entries[i].first_lba}

\* The regions in front of the partitions, and the one behind the last.
Gaps(t) == {Region(Base(t, Before(i, t)), t.entries[i].first_lba) : i \in InUse(t)}

LastGap(t) == Region(Base(t, InUse(t)), t.last_usable_lba + 1)

\* What largest_update makes of all of them: no gap unless start > base, and the
\* first of the largest.
Largest(regions) ==
    LET best == {g \in regions :
                   /\ g.size > 0
                   /\ \A h \in regions : h.size < g.size \/ (h.size = g.size /\ g.start <= h.start)}
    IN  IF best = {} THEN NoRegion ELSE CHOOSE g \in best : TRUE

\* The walk with the last gap, up to last_usable_lba, forgotten.
FreeSpaceNoLastGap(t) == Largest(Gaps(t))

\* gpt_find_contiguous_free_space; a size of 0 stands for the -1 of the source.
gpt_find_contiguous_free_space(t) == Largest(Gaps(t) \cup {LastGap(t)})

-----------------------------------------------------------------------------
(* Reference definitions *)

Sectors(e) == e.first_lba .. e.last_lba

\* No two partitions share a sector.
Disjoint(t) ==
    \A i, j \in InUse(t) : i # j => Sectors(t.entries[i]) \cap Sectors(t.entries[j]) = {}

\* Every partition is a non-empty range of usable sectors.
InRange(t) ==
    \A i \in InUse(t) :
        /\ t.first_usable_lba <= t.entries[i].first_lba
        /\ t.entries[i].first_lba <= t.entries[i].last_lba
        /\ t.entries[i].last_lba <= t.last_usable_lba

\* A table as the tools that write one leave it.
IsSound(t) ==
    /\ IsTable(t)
    /\ t.first_usable_lba \in Nat \ {0}
    /\ t.last_usable_lba \in Int
    /\ InRange(t)
    /\ Disjoint(t)

FreeSectors(t) ==
    (t.first_usable_lba .. t.last_usable_lba)
        \ UNION {Sectors(t.entries[i]) : i \in InUse(t)}

\* g is a run of free sectors that none is longer than, or there is none.
IsLargestGap(g, t) ==
    LET free == FreeSectors(t)
    IN  IF free = {} THEN g.size = 0
        ELSE /\ g.size > 0
             /\ g.size = (g.end + 1) - g.start
             /\ (g.start .. g.end) \subseteq free
             /\ \A a \in free : ~((a .. a + g.size) \subseteq free)
=============================================================================
