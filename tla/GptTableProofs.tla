--------------------------- MODULE GptTableProofs ---------------------------
(***************************************************************************)
(* Proofs about GptTable: what each operation on a table leaves alone, what*)
(* a counter in a loop adds up to, and that the walk over the sorted       *)
(* partitions finds the largest free region.                               *)
(***************************************************************************)
EXTENDS GptTable, FiniteSetTheorems, WellFoundedInduction, TLAPS

-----------------------------------------------------------------------------
(* Numbers *)

\* A set of numbers that is not empty has a least one, ...
LEMMA Least ==
    ASSUME NEW S, S \subseteq Nat, S # {}
    PROVE  \E x \in S : \A y \in S : x <= y
  <1> DEFINE below == {ss \in Nat \X Nat : ss[1] < ss[2]}
  <1>1. OpToRel(<, Nat) = below
    BY DEF OpToRel
  <1>2. PICK x \in S : \A y \in S : ~(<<y, x>> \in below)
    BY <1>1, NatLessThanWellFounded, WFMin
  <1>3. ASSUME NEW y \in S
        PROVE  x <= y
    <2>1. x \in Nat /\ y \in Nat
      OBVIOUS
    <2>2. y < x => <<y, x>> \in below
      BY <2>1
    <2> QED BY <1>2, <2>1, <2>2
  <1> QED BY <1>3

\* ... which is its Min, ...
LEMMA MinIsElement ==
    ASSUME NEW S, S \subseteq Nat, S # {}
    PROVE  Min(S) \in S
  BY Least DEF Min

\* ... one of integers with a lower bound a least one, ...
LEMMA LeastAbove ==
    ASSUME NEW S, S \subseteq Int, S # {}, NEW low \in Int, \A y \in S : low <= y
    PROVE  \E x \in S : \A y \in S : x <= y
  <1> DEFINE D == {y - low : y \in S}
  <1>1. D \subseteq Nat /\ D # {}
    <2>1. \A y \in S : y - low \in Nat
      OBVIOUS
    <2> QED BY <2>1
  <1>2. PICK d \in D : \A e \in D : d <= e
    BY <1>1, Least
  <1>3. PICK x \in S : d = x - low
    OBVIOUS
  <1>4. ASSUME NEW y \in S
        PROVE  x <= y
    <2>1. d <= y - low
      BY <1>2
    <2> QED BY <1>3, <2>1
  <1> QED BY <1>4

\* ... and one with an upper bound a greatest.
LEMMA GreatestBelow ==
    ASSUME NEW S, S \subseteq Int, S # {}, NEW high \in Int, \A y \in S : y <= high
    PROVE  \E x \in S : \A y \in S : y <= x
  <1> DEFINE D == {high - y : y \in S}
  <1>1. D \subseteq Nat /\ D # {}
    <2>1. \A y \in S : high - y \in Nat
      OBVIOUS
    <2> QED BY <2>1
  <1>2. PICK d \in D : \A e \in D : d <= e
    BY <1>1, Least
  <1>3. PICK x \in S : d = high - x
    OBVIOUS
  <1>4. ASSUME NEW y \in S
        PROVE  y <= x
    <2>1. d <= high - y
      BY <1>2
    <2> QED BY <1>3, <2>1
  <1> QED BY <1>4

\* What a counter comes to: it starts at 0, and each turn adds to it.
LEMMA SumsStep ==
    ASSUME NEW n \in Nat, NEW v \in [1 .. n -> Int]
    PROVE  /\ RunningSums(v) \in [0 .. n -> Int]
           /\ RunningSums(v)[0] = 0
           /\ \A i \in 1 .. n : RunningSums(v)[i] = RunningSums(v)[i - 1] + v[i]
  <1> DEFINE Sums(m, s) == s = [i \in 0 .. m |-> IF i = 0 THEN 0 ELSE s[i - 1] + v[i]]
             bad == {m \in 0 .. n : ~\E s \in [0 .. m -> Int] : Sums(m, s)}
  <1>1. bad = {}
    <2> SUFFICES ASSUME bad # {}
                 PROVE  FALSE
      OBVIOUS
    <2>1. PICK m \in bad : \A k \in bad : m <= k
      <3>1. bad \subseteq Nat
        OBVIOUS
      <3> HIDE DEF bad
      <3> QED BY <3>1, Least
    <2>2. m # 0
      <3>1. Sums(0, [i \in 0 .. 0 |-> 0])
        OBVIOUS
      <3>2. [i \in 0 .. 0 |-> 0] \in [0 .. 0 -> Int]
        OBVIOUS
      <3> QED BY <3>1, <3>2
    <2>3. m \in 1 .. n /\ m - 1 \in 0 .. n /\ m - 1 \notin bad
      <3>1. m \in 1 .. n
        BY <2>2
      <3>2. m - 1 \in 0 .. n /\ ~(m <= m - 1)
        BY <3>1
      <3>3. m - 1 \notin bad
        <4> HIDE DEF bad
        <4> QED BY <2>1, <3>2
      <3> QED BY <3>1, <3>2, <3>3
    <2>4. PICK s \in [0 .. m - 1 -> Int] : Sums(m - 1, s)
      BY <2>3
    <2> DEFINE u == [i \in 0 .. m |-> IF i < m THEN s[i] ELSE s[m - 1] + v[m]]
    <2>5. u \in [0 .. m -> Int]
      BY <2>3
    <2>6. ASSUME NEW i \in 0 .. m
          PROVE  u[i] = IF i = 0 THEN 0 ELSE u[i - 1] + v[i]
      <3>1. i < m => s[i] = IF i = 0 THEN 0 ELSE s[i - 1] + v[i]
        BY <2>3, <2>4
      <3> QED BY <2>3, <3>1
    <2>7. Sums(m, u)
      BY <2>5, <2>6
    <2> QED BY <2>5, <2>7
  <1>2. \E s \in [0 .. n -> Int] : Sums(n, s)
    <2>1. n \in 0 .. n
      OBVIOUS
    <2> QED BY <1>1, <2>1
  <1>3. Len(v) = n
    OBVIOUS
  <1>4. RunningSums(v) = CHOOSE s : Sums(n, s)
    BY <1>3 DEF RunningSums
  <1> DEFINE r == RunningSums(v)
  <1>5. Sums(n, r)
    BY <1>2, <1>4
  <1>6. r \in [0 .. n -> Int]
    <2>1. PICK s \in [0 .. n -> Int] : Sums(n, s)
      BY <1>2
    <2> DEFINE wrong == {i \in 0 .. n : r[i] # s[i]}
    <2>2. wrong = {}
      <3> SUFFICES ASSUME wrong # {}
                   PROVE  FALSE
        OBVIOUS
      <3>1. PICK i \in wrong : \A k \in wrong : i <= k
        <4>1. wrong \subseteq Nat
          OBVIOUS
        <4> HIDE DEF wrong
        <4> QED BY <4>1, Least
      <3>2. i # 0
        BY <1>5, <2>1
      <3>3. i - 1 \in 0 .. n /\ ~(i <= i - 1)
        BY <3>2
      <3>4. r[i - 1] = s[i - 1]
        BY <3>1, <3>3
      <3>5. r[i] = r[i - 1] + v[i] /\ s[i] = s[i - 1] + v[i]
        BY <1>5, <2>1, <3>2
      <3> QED BY <3>4, <3>5
    <2>3. DOMAIN r = 0 .. n /\ r = [i \in 0 .. n |-> r[i]]
      <3> HIDE DEF r
      <3> QED BY <1>5
    <2> HIDE DEF r
    <2>4. \A i \in 0 .. n : r[i] \in Int
      BY <2>2
    <2> QED BY <2>3, <2>4
  <1>7. r[0] = 0 /\ \A i \in 1 .. n : r[i] = r[i - 1] + v[i]
    <2> HIDE DEF r
    <2> QED BY <1>5
  <1> QED BY <1>6, <1>7

\* A counter that only grows is never more than what it comes to, and no turn adds more.
LEMMA SumsGrow ==
    ASSUME NEW n \in Nat, NEW v \in [1 .. n -> Nat]
    PROVE  /\ RunningSums(v) \in [0 .. n -> Nat]
           /\ \A j \in 0 .. n : \A i \in 0 .. j : RunningSums(v)[i] <= RunningSums(v)[j]
           /\ \A i \in 1 .. n : v[i] <= RunningSums(v)[n]
  <1> DEFINE r == RunningSums(v)
  <1>0. v \in [1 .. n -> Int]
    OBVIOUS
  <1>1. r \in [0 .. n -> Int] /\ r[0] = 0 /\ \A i \in 1 .. n : r[i] = r[i - 1] + v[i]
    BY <1>0, SumsStep
  <1> HIDE DEF r
  <1> DEFINE bad == {j \in 0 .. n : \E i \in 0 .. j : ~(r[i] <= r[j])}
  <1>2. bad = {}
    <2> SUFFICES ASSUME bad # {}
                 PROVE  FALSE
      OBVIOUS
    <2>1. PICK m \in bad : \A k \in bad : m <= k
      <3>1. bad \subseteq Nat
        OBVIOUS
      <3> HIDE DEF bad
      <3> QED BY <3>1, Least
    <2>2. PICK i \in 0 .. m : ~(r[i] <= r[m])
      OBVIOUS
    <2>3. m # 0
      BY <1>1, <2>2
    <2>4. m \in 1 .. n /\ m - 1 \in 0 .. n /\ ~(m <= m - 1)
      BY <2>3
    <2>5. m - 1 \notin bad
      <3> HIDE DEF bad
      <3> QED BY <2>1, <2>4
    <2>6. i # m /\ i \in 0 .. m - 1
      <3>1. r[m] \in Int
        BY <1>1, <2>4
      <3>2. i # m
        BY <2>2, <3>1
      <3> QED BY <2>4, <3>2
    <2>7. r[i] <= r[m - 1]
      BY <2>4, <2>5, <2>6
    <2>8. r[m] = r[m - 1] + v[m] /\ v[m] \in Nat /\ r[m - 1] \in Int /\ r[i] \in Int
      BY <1>1, <2>4, <2>6
    <2> QED BY <2>2, <2>7, <2>8
  <1>3. \A j \in 0 .. n : \A i \in 0 .. j : r[i] <= r[j]
    BY <1>2
  <1>4. r \in [0 .. n -> Nat]
    <2>1. \A i \in 0 .. n : r[i] \in Nat
      <3> SUFFICES ASSUME NEW i \in 0 .. n
                   PROVE  r[i] \in Nat
        OBVIOUS
      <3>1. r[0] <= r[i] /\ r[i] \in Int
        BY <1>1, <1>3
      <3> QED BY <1>1, <3>1
    <2> QED BY <1>1, <2>1
  <1>5. \A i \in 1 .. n : v[i] <= r[n]
    <2> SUFFICES ASSUME NEW i \in 1 .. n
                 PROVE  v[i] <= r[n]
      OBVIOUS
    <2>1. i \in 0 .. n /\ i - 1 \in 0 .. n /\ n \in 0 .. n
      OBVIOUS
    <2>2. r[i] = r[i - 1] + v[i] /\ r[i - 1] \in Nat /\ r[i] \in Nat /\ v[i] \in Nat
      BY <1>1, <1>4, <2>1
    <2>3. r[i] <= r[n] /\ r[n] \in Nat
      BY <1>3, <1>4, <2>1
    <2> QED BY <2>2, <2>3
  <1> QED BY <1>3, <1>4, <1>5 DEF r

\* Two counters of one loop come to what a counter of both does.
LEMMA SumsAdd ==
    ASSUME NEW n \in Nat, NEW v \in [1 .. n -> Int], NEW w \in [1 .. n -> Int],
           NEW u \in [1 .. n -> Int], \A i \in 1 .. n : u[i] = v[i] + w[i]
    PROVE  \A i \in 0 .. n : RunningSums(u)[i] = RunningSums(v)[i] + RunningSums(w)[i]
  <1> DEFINE a == RunningSums(u)
             b == RunningSums(v)
             c == RunningSums(w)
  <1>1. /\ a \in [0 .. n -> Int] /\ a[0] = 0 /\ \A i \in 1 .. n : a[i] = a[i - 1] + u[i]
        /\ b \in [0 .. n -> Int] /\ b[0] = 0 /\ \A i \in 1 .. n : b[i] = b[i - 1] + v[i]
        /\ c \in [0 .. n -> Int] /\ c[0] = 0 /\ \A i \in 1 .. n : c[i] = c[i - 1] + w[i]
    BY SumsStep
  <1> HIDE DEF a, b, c
  <1> DEFINE bad == {j \in 0 .. n : a[j] # b[j] + c[j]}
  <1>2. bad = {}
    <2> SUFFICES ASSUME bad # {}
                 PROVE  FALSE
      OBVIOUS
    <2>1. PICK m \in bad : \A k \in bad : m <= k
      <3>1. bad \subseteq Nat
        OBVIOUS
      <3> HIDE DEF bad
      <3> QED BY <3>1, Least
    <2>2. m # 0
      BY <1>1
    <2>3. m \in 1 .. n /\ m - 1 \in 0 .. n /\ ~(m <= m - 1)
      BY <2>2
    <2>4. m - 1 \notin bad
      <3> HIDE DEF bad
      <3> QED BY <2>1, <2>3
    <2>5. a[m - 1] = b[m - 1] + c[m - 1]
      BY <2>3, <2>4
    <2>6. /\ a[m] = a[m - 1] + u[m] /\ b[m] = b[m - 1] + v[m] /\ c[m] = c[m - 1] + w[m]
          /\ u[m] = v[m] + w[m] /\ v[m] \in Int /\ w[m] \in Int
          /\ b[m - 1] \in Int /\ c[m - 1] \in Int
      BY <1>1, <2>3
    <2>7. a[m] # b[m] + c[m]
      OBVIOUS
    <2> HIDE DEF bad
    <2>8. b[m - 1] + c[m - 1] + (v[m] + w[m]) = (b[m - 1] + v[m]) + (c[m - 1] + w[m])
      BY <2>6
    <2> QED BY <2>5, <2>6, <2>7, <2>8
  <1> QED BY <1>2 DEF a, b, c

\* A counter that one turn at most adds to.
LEMMA SumsOne ==
    ASSUME NEW n \in Nat, NEW v \in [1 .. n -> Nat], NEW c \in Nat,
           \A i \in 1 .. n : v[i] <= c,
           \A i, j \in 1 .. n : v[i] # 0 /\ v[j] # 0 => i = j
    PROVE  RunningSums(v)[n] <= c
  <1> DEFINE r == RunningSums(v)
             one(k) == \E i \in 1 .. k : v[i] # 0 /\ r[k] = v[i]
             bad == {k \in 0 .. n : ~(r[k] = 0 \/ one(k))}
  <1>0. v \in [1 .. n -> Int]
    OBVIOUS
  <1>1. r \in [0 .. n -> Int] /\ r[0] = 0 /\ \A i \in 1 .. n : r[i] = r[i - 1] + v[i]
    BY <1>0, SumsStep
  <1> HIDE DEF r
  <1>2. bad = {}
    <2> SUFFICES ASSUME bad # {}
                 PROVE  FALSE
      OBVIOUS
    <2>1. PICK m \in bad : \A k \in bad : m <= k
      <3>1. bad \subseteq Nat
        OBVIOUS
      <3> HIDE DEF bad
      <3> QED BY <3>1, Least
    <2>2. m # 0
      BY <1>1
    <2>3. m \in 1 .. n /\ m \in 1 .. m /\ m - 1 \in 0 .. n /\ ~(m <= m - 1)
      BY <2>2
    <2>4. m - 1 \notin bad
      <3> HIDE DEF bad
      <3> QED BY <2>1, <2>3
    <2>5. r[m] = r[m - 1] + v[m] /\ v[m] \in Nat /\ r[m - 1] \in Int
      BY <1>1, <2>3
    <2>6. CASE r[m - 1] = 0
      <3>1. r[m] = v[m]
        BY <2>5, <2>6
      <3> QED BY <2>3, <3>1
    <2>7. CASE one(m - 1)
      <3>1. PICK i \in 1 .. m - 1 : v[i] # 0 /\ r[m - 1] = v[i]
        BY <2>7
      <3>2. i \in 1 .. n /\ i # m /\ i \in 1 .. m
        BY <2>3
      <3>3. v[m] = 0
        BY <2>3, <3>1, <3>2
      <3>4. r[m] = v[i]
        BY <2>5, <3>1, <3>3
      <3> QED BY <3>1, <3>2, <3>4
    <2> QED BY <2>3, <2>4, <2>6, <2>7
  <1>3. n \in 0 .. n /\ n \notin bad
    BY <1>2
  <1>4. r[n] = 0 \/ \E i \in 1 .. n : r[n] = v[i]
    BY <1>3
  <1>5. r[n] <= c
    BY <1>4
  <1> QED BY <1>5 DEF r

-----------------------------------------------------------------------------
(* Entries of a table *)

\* gpt_next_index finds an entry that is free.
LEMMA NextIndexFree ==
    ASSUME NEW t, IsShape(t), gpt_next_index(t) # 0
    PROVE  gpt_next_index(t) \in DOMAIN t.entries \ InUse(t)
  <1> DEFINE free == DOMAIN t.entries \ InUse(t)
  <1>1. free \subseteq Nat /\ free # {}
    BY DEF IsShape, gpt_next_index
  <1>2. Min(free) \in free
    BY <1>1, MinIsElement
  <1> QED BY <1>1, <1>2 DEF gpt_next_index

\* What every operation on entries leaves alone.
SameFrame(u, t) ==
    /\ IsShape(u)
    /\ DOMAIN u.entries = DOMAIN t.entries
    /\ u.first_usable_lba = t.first_usable_lba
    /\ u.last_usable_lba = t.last_usable_lba

\* What gpt_entry_create does to the entries that were there.
LEMMA Created ==
    ASSUME NEW t, IsShape(t), gpt_next_index(t) # 0, NEW name, NEW type, NEW first, NEW last
    PROVE  LET u == gpt_entry_create(t, name, type, first, last)
               n == gpt_next_index(t)
           IN  /\ SameFrame(u, t)
               /\ n \in DOMAIN t.entries \ InUse(t)
               /\ u.entries[n].first_lba = first /\ u.entries[n].last_lba = last
               /\ u.entries[n].type = type /\ u.entries[n].name = name
               /\ \A i \in DOMAIN t.entries : i # n => u.entries[i] = t.entries[i]
  <1> DEFINE u == gpt_entry_create(t, name, type, first, last)
             n == gpt_next_index(t)
             e == [first_lba |-> first, last_lba |-> last, type |-> type, name |-> name]
  <1>0. n \in DOMAIN t.entries \ InUse(t)
    BY NextIndexFree
  <1>1. u.entries = [t.entries EXCEPT ![n] = e]
    BY DEF IsShape, gpt_entry_create
  <1>2. /\ u = [x \in {"first_usable_lba", "last_usable_lba", "entries"} |-> u[x]]
        /\ u.first_usable_lba = t.first_usable_lba /\ u.last_usable_lba = t.last_usable_lba
    BY DEF IsShape, gpt_entry_create
  <1>3. DOMAIN u.entries = DOMAIN t.entries /\ u.entries = [i \in DOMAIN u.entries |-> u.entries[i]]
    BY <1>0, <1>1 DEF IsShape
  <1>4. ASSUME NEW i \in DOMAIN t.entries
        PROVE  /\ u.entries[i] = [x \in {"first_lba", "last_lba", "type", "name"} |-> u.entries[i][x]]
               /\ u.entries[i] = IF i = n THEN e ELSE t.entries[i]
    BY <1>0, <1>1 DEF IsShape
  <1>5. num_pentries(u) = num_pentries(t)
    BY <1>3 DEF num_pentries
  <1>6. /\ u.entries[n].first_lba = first /\ u.entries[n].last_lba = last
        /\ u.entries[n].type = type /\ u.entries[n].name = name
    <2>1. u.entries[n] = e
      BY <1>0, <1>4
    <2> QED BY <2>1
  <1>7. \A i \in DOMAIN t.entries : i # n => u.entries[i] = t.entries[i]
    BY <1>4
  <1>8. SameFrame(u, t)
    BY <1>2, <1>3, <1>4, <1>5 DEF IsShape, SameFrame
  <1> HIDE DEF u, n
  <1> QED BY <1>0, <1>6, <1>7, <1>8 DEF u, n

\* ... and gpt_entry_delete to those that stay.
LEMMA Deleted ==
    ASSUME NEW t, IsShape(t), NEW which
    PROVE  LET u == gpt_entry_delete(t, which)
           IN  /\ SameFrame(u, t)
               /\ \A i \in DOMAIN t.entries :
                    IF i \in which THEN u.entries[i] = ZeroEntry ELSE u.entries[i] = t.entries[i]
  <1> DEFINE u == gpt_entry_delete(t, which)
  <1>1. u.entries = [i \in DOMAIN t.entries |-> IF i \in which THEN ZeroEntry ELSE t.entries[i]]
    BY DEF IsShape, gpt_entry_delete
  <1>2. /\ u = [x \in {"first_usable_lba", "last_usable_lba", "entries"} |-> u[x]]
        /\ u.first_usable_lba = t.first_usable_lba /\ u.last_usable_lba = t.last_usable_lba
    BY DEF IsShape, gpt_entry_delete
  <1>3. DOMAIN u.entries = DOMAIN t.entries /\ u.entries = [i \in DOMAIN u.entries |-> u.entries[i]]
    BY <1>1
  <1>4. ASSUME NEW i \in DOMAIN t.entries
        PROVE  /\ u.entries[i] = [x \in {"first_lba", "last_lba", "type", "name"} |-> u.entries[i][x]]
               /\ u.entries[i] = IF i \in which THEN ZeroEntry ELSE t.entries[i]
    BY <1>1 DEF IsShape, ZeroEntry
  <1>5. num_pentries(u) = num_pentries(t)
    BY <1>3 DEF num_pentries
  <1> QED BY <1>2, <1>3, <1>4, <1>5 DEF IsShape, SameFrame

\* ... and gpt_entry_set_name to all but the name.
LEMMA Named ==
    ASSUME NEW t, IsShape(t), NEW n, NEW name
    PROVE  LET u == gpt_entry_set_name(t, n, name)
           IN  /\ SameFrame(u, t)
               /\ \A i \in DOMAIN t.entries :
                    /\ i \in DOMAIN u.entries
                    /\ u.entries[i].first_lba = t.entries[i].first_lba
                    /\ u.entries[i].last_lba = t.entries[i].last_lba
                    /\ u.entries[i].type = t.entries[i].type
                    /\ u.entries[i].name = IF i = n THEN name ELSE t.entries[i].name
  <1> DEFINE u == gpt_entry_set_name(t, n, name)
  <1>1. u.entries = [t.entries EXCEPT ![n] = [t.entries[n] EXCEPT !.name = name]]
    BY DEF IsShape, gpt_entry_set_name
  <1>2. /\ u = [x \in {"first_usable_lba", "last_usable_lba", "entries"} |-> u[x]]
        /\ u.first_usable_lba = t.first_usable_lba /\ u.last_usable_lba = t.last_usable_lba
    BY DEF IsShape, gpt_entry_set_name
  <1>3. DOMAIN u.entries = DOMAIN t.entries /\ u.entries = [i \in DOMAIN u.entries |-> u.entries[i]]
    BY <1>1 DEF IsShape
  <1>4. ASSUME NEW i \in DOMAIN t.entries
        PROVE  /\ u.entries[i] = [x \in {"first_lba", "last_lba", "type", "name"} |-> u.entries[i][x]]
               /\ u.entries[i].first_lba = t.entries[i].first_lba
               /\ u.entries[i].last_lba = t.entries[i].last_lba
               /\ u.entries[i].type = t.entries[i].type
               /\ u.entries[i].name = IF i = n THEN name ELSE t.entries[i].name
    BY <1>1 DEF IsShape
  <1>5. num_pentries(u) = num_pentries(t)
    BY <1>3 DEF num_pentries
  <1> QED BY <1>2, <1>3, <1>4, <1>5 DEF IsShape, SameFrame

\* The table with another end of one partition.
WithLast(t, n, last) == [t EXCEPT !.entries[n].last_lba = last]

\* What resize_ntfs_partition does to an entry.
LEMMA LastSet ==
    ASSUME NEW t, IsShape(t), NEW n \in DOMAIN t.entries, NEW last
    PROVE  LET u == WithLast(t, n, last)
           IN  /\ SameFrame(u, t)
               /\ u.entries[n].last_lba = last
               /\ \A i \in DOMAIN t.entries :
                    /\ i \in DOMAIN u.entries
                    /\ u.entries[i].first_lba = t.entries[i].first_lba
                    /\ i # n => u.entries[i].last_lba = t.entries[i].last_lba
                    /\ u.entries[i].type = t.entries[i].type
                    /\ u.entries[i].name = t.entries[i].name
  <1> DEFINE u == WithLast(t, n, last)
  <1>1. u.entries = [t.entries EXCEPT ![n] = [t.entries[n] EXCEPT !.last_lba = last]]
    BY DEF IsShape, WithLast
  <1>2. /\ u = [x \in {"first_usable_lba", "last_usable_lba", "entries"} |-> u[x]]
        /\ u.first_usable_lba = t.first_usable_lba /\ u.last_usable_lba = t.last_usable_lba
    BY DEF IsShape, WithLast
  <1>3. DOMAIN u.entries = DOMAIN t.entries /\ u.entries = [i \in DOMAIN u.entries |-> u.entries[i]]
    BY <1>1 DEF IsShape
  <1>4. ASSUME NEW i \in DOMAIN t.entries
        PROVE  /\ u.entries[i] = [x \in {"first_lba", "last_lba", "type", "name"} |-> u.entries[i][x]]
               /\ u.entries[i].first_lba = t.entries[i].first_lba
               /\ u.entries[i].last_lba = IF i = n THEN last ELSE t.entries[i].last_lba
               /\ u.entries[i].type = t.entries[i].type
               /\ u.entries[i].name = t.entries[i].name
    <2> DEFINE e == t.entries[i]
    <2>1. e = [x \in {"first_lba", "last_lba", "type", "name"} |-> e[x]]
      BY DEF IsShape
    <2>2. u.entries[i] = IF i = n THEN [e EXCEPT !.last_lba = last] ELSE e
      BY <1>1 DEF IsShape
    <2>3. CASE i = n
      BY <2>1, <2>2, <2>3
    <2>4. CASE i # n
      BY <2>1, <2>2, <2>4
    <2> QED BY <2>3, <2>4
  <1>5. num_pentries(u) = num_pentries(t)
    BY <1>3 DEF num_pentries
  <1> QED BY <1>2, <1>3, <1>4, <1>5 DEF IsShape, SameFrame

\* A table whose partitions were sound, and whose partitions have gone or become shorter.
LEMMA Thinned ==
    ASSUME NEW t, IsSound(t), NEW u, SameFrame(u, t),
           \A i \in DOMAIN t.entries :
              u.entries[i].first_lba \in Nat /\ u.entries[i].last_lba \in Nat,
           \A i \in InUse(u) :
              /\ i \in InUse(t)
              /\ u.entries[i].first_lba = t.entries[i].first_lba
              /\ u.entries[i].first_lba <= u.entries[i].last_lba
              /\ u.entries[i].last_lba <= t.entries[i].last_lba
    PROVE  IsSound(u)
  <1>1. IsTable(u)
    BY DEF IsTable, SameFrame
  <1>2. \A i \in InUse(u) : /\ i \in InUse(t)
                            /\ u.entries[i].first_lba \in Nat /\ u.entries[i].last_lba \in Nat
                            /\ t.entries[i].last_lba \in Nat
    BY DEF IsSound, IsTable, SameFrame, InUse
  <1>3. InRange(u)
    BY <1>2 DEF IsSound, InRange, SameFrame
  <1>4. Disjoint(u)
    <2> SUFFICES ASSUME NEW i \in InUse(u), NEW j \in InUse(u), i # j
                 PROVE  Sectors(u.entries[i]) \cap Sectors(u.entries[j]) = {}
      BY DEF Disjoint
    <2>1. Sectors(u.entries[i]) \subseteq Sectors(t.entries[i])
      BY <1>2 DEF Sectors
    <2>2. Sectors(u.entries[j]) \subseteq Sectors(t.entries[j])
      BY <1>2 DEF Sectors
    <2>3. Sectors(t.entries[i]) \cap Sectors(t.entries[j]) = {}
      BY <1>2 DEF IsSound, Disjoint
    <2> QED BY <2>1, <2>2, <2>3
  <1> QED BY <1>1, <1>3, <1>4 DEF IsSound, SameFrame

\* A partition created on usable sectors that no other has any of.
LEMMA Placed ==
    ASSUME NEW t, IsSound(t), gpt_next_index(t) # 0, NEW name, NEW type,
           NEW first \in Nat, NEW last \in Nat,
           t.first_usable_lba <= first, first <= last, last <= t.last_usable_lba,
           \A i \in InUse(t) : t.entries[i].last_lba < first \/ last < t.entries[i].first_lba
    PROVE  LET u == gpt_entry_create(t, name, type, first, last)
           IN  IsSound(u) /\ InUse(u) = InUse(t) \cup {gpt_next_index(t)}
  <1> DEFINE u == gpt_entry_create(t, name, type, first, last)
             n == gpt_next_index(t)
  <1>1. IsShape(t) /\ t.first_usable_lba \in Nat \ {0} /\ t.last_usable_lba \in Int
    BY DEF IsSound, IsTable
  <1>2. /\ SameFrame(u, t)
        /\ n \in DOMAIN t.entries /\ n \notin InUse(t)
        /\ u.entries[n].first_lba = first /\ u.entries[n].last_lba = last
        /\ \A i \in DOMAIN t.entries : i # n => u.entries[i] = t.entries[i]
    BY <1>1, Created
  <1> HIDE DEF u, n
  <1>3. first # 0
    BY <1>1
  <1>4. InUse(u) = InUse(t) \cup {n}
    BY <1>2, <1>3 DEF InUse, SameFrame
  <1>5. \A i \in InUse(t) : /\ u.entries[i] = t.entries[i] /\ i # n
                            /\ t.entries[i].first_lba \in Nat /\ t.entries[i].last_lba \in Nat
    BY <1>2 DEF InUse, IsSound, IsTable
  <1>6. IsTable(u)
    <2> SUFFICES ASSUME NEW i \in DOMAIN t.entries
                 PROVE  u.entries[i].first_lba \in Nat /\ u.entries[i].last_lba \in Nat
      BY <1>2 DEF IsTable, SameFrame
    <2>1. CASE i = n
      BY <1>2, <2>1
    <2>2. CASE i # n
      BY <1>2, <2>2 DEF IsSound, IsTable
    <2> QED BY <2>1, <2>2
  <1>7. InRange(u)
    <2> SUFFICES ASSUME NEW i \in InUse(u)
                 PROVE  /\ t.first_usable_lba <= u.entries[i].first_lba
                        /\ u.entries[i].first_lba <= u.entries[i].last_lba
                        /\ u.entries[i].last_lba <= t.last_usable_lba
      BY <1>2 DEF InRange, SameFrame
    <2>1. CASE i = n
      BY <1>2, <2>1
    <2>2. CASE i \in InUse(t)
      BY <1>5, <2>2 DEF IsSound, InRange
    <2> QED BY <1>4, <2>1, <2>2
  <1>8. \A i \in InUse(t) : Sectors(u.entries[i]) \cap Sectors(u.entries[n]) = {}
    <2> SUFFICES ASSUME NEW i \in InUse(t)
                 PROVE  Sectors(u.entries[i]) \cap Sectors(u.entries[n]) = {}
      OBVIOUS
    <2>1. /\ u.entries[i] = t.entries[i]
          /\ t.entries[i].first_lba \in Nat /\ t.entries[i].last_lba \in Nat
          /\ t.entries[i].last_lba < first \/ last < t.entries[i].first_lba
      BY <1>5
    <2>2. /\ Sectors(u.entries[n]) = first .. last
          /\ Sectors(u.entries[i]) = t.entries[i].first_lba .. t.entries[i].last_lba
      BY <1>2, <2>1 DEF Sectors
    <2> QED BY <2>1, <2>2
  <1>9. Disjoint(u)
    <2> SUFFICES ASSUME NEW i \in InUse(u), NEW j \in InUse(u), i # j
                 PROVE  Sectors(u.entries[i]) \cap Sectors(u.entries[j]) = {}
      BY DEF Disjoint
    <2>1. CASE i = n \/ j = n
      BY <1>4, <1>8, <2>1
    <2>2. CASE i \in InUse(t) /\ j \in InUse(t)
      BY <1>5, <2>2 DEF IsSound, Disjoint
    <2> QED BY <1>4, <2>1, <2>2
  <1>10. IsSound(u)
    BY <1>1, <1>2, <1>6, <1>7, <1>9 DEF IsSound, SameFrame
  <1> QED BY <1>4, <1>10 DEF u, n

\* gpt_new makes an empty table.
LEMMA NewIsSound ==
    ASSUME NEW sectors \in Nat, NEW taken \in Nat, NEW pentries \in Nat
    PROVE  LET u == gpt_new(sectors, taken, pentries)
           IN  /\ IsSound(u) /\ InUse(u) = {} /\ u.last_usable_lba < sectors
               /\ \A i \in DOMAIN u.entries :
                     u.entries[i].first_lba = 0 /\ u.entries[i].last_lba = 0
  <1> DEFINE u == gpt_new(sectors, taken, pentries)
  <1>1. u = [first_usable_lba |-> 1 + (1 + taken), last_usable_lba |-> sectors - (1 + (1 + taken)),
             entries |-> [i \in 1 .. pentries |-> ZeroEntry]]
    BY DEF gpt_new
  <1>2. /\ u = [x \in {"first_usable_lba", "last_usable_lba", "entries"} |-> u[x]]
        /\ u.first_usable_lba \in Nat \ {0} /\ u.last_usable_lba \in Int
        /\ u.last_usable_lba < sectors
        /\ u.entries = [i \in 1 .. pentries |-> ZeroEntry]
    <2>1. /\ u.first_usable_lba = 1 + (1 + taken)
          /\ u.last_usable_lba = sectors - (1 + (1 + taken))
      BY <1>1
    <2>2. /\ u = [x \in {"first_usable_lba", "last_usable_lba", "entries"} |-> u[x]]
          /\ u.entries = [i \in 1 .. pentries |-> ZeroEntry]
      BY <1>1
    <2> HIDE DEF u
    <2> QED BY <2>1, <2>2
  <1> HIDE DEF u
  <1>3. DOMAIN u.entries = 1 .. pentries /\ \A i \in 1 .. pentries : u.entries[i] = ZeroEntry
    BY <1>2
  <1>4. /\ ZeroEntry = [x \in {"first_lba", "last_lba", "type", "name"} |-> ZeroEntry[x]]
        /\ ZeroEntry.first_lba = 0 /\ ZeroEntry.last_lba = 0
    BY DEF ZeroEntry
  <1>5. num_pentries(u) = pentries
    <2>1. Cardinality(1 .. pentries) = pentries
      BY FS_Interval
    <2> QED BY <1>3, <2>1 DEF num_pentries
  <1>6. IsTable(u)
    BY <1>2, <1>3, <1>4, <1>5 DEF IsTable, IsShape
  <1>7. InUse(u) = {}
    BY <1>3, <1>4 DEF InUse
  <1>8. InRange(u) /\ Disjoint(u)
    BY <1>7 DEF InRange, Disjoint
  <1>9. \A i \in DOMAIN u.entries : u.entries[i].first_lba = 0 /\ u.entries[i].last_lba = 0
    BY <1>3, <1>4
  <1> QED BY <1>2, <1>6, <1>7, <1>8, <1>9 DEF IsSound, u

-----------------------------------------------------------------------------
(* The largest free region *)

\* In a sound table a partition that starts later lies behind.
LEMMA InOrder ==
    ASSUME NEW t, IsSound(t), NEW i \in InUse(t), NEW j \in InUse(t), i # j,
           t.entries[j].first_lba <= t.entries[i].first_lba
    PROVE  t.entries[j].last_lba < t.entries[i].first_lba
  <1> DEFINE x == t.entries[i].first_lba
  <1>1. /\ x \in Nat /\ t.entries[i].last_lba \in Nat /\ x <= t.entries[i].last_lba
        /\ t.entries[j].first_lba \in Nat /\ t.entries[j].last_lba \in Nat
    BY DEF IsSound, IsTable, InRange, InUse
  <1>2. x \in Sectors(t.entries[i])
    BY <1>1 DEF Sectors
  <1>3. x \notin Sectors(t.entries[j])
    BY <1>2 DEF IsSound, Disjoint
  <1> QED BY <1>1, <1>3 DEF Sectors

\* base is behind all the partitions that the walk has passed.
LEMMA BaseIsBehind ==
    ASSUME NEW t, IsSound(t), NEW done, done \subseteq InUse(t)
    PROVE  /\ Base(t, done) \in Nat
           /\ t.first_usable_lba <= Base(t, done)
           /\ \A j \in done : t.entries[j].last_lba < Base(t, done)
           /\ done # {} => \E i \in done : Base(t, done) = t.entries[i].last_lba + 1
  <1>1. CASE done = {}
    BY <1>1 DEF Base, IsSound
  <1>2. CASE done # {}
    <2>1. \A j \in done : /\ t.entries[j].first_lba \in Nat /\ t.entries[j].last_lba \in Nat
                          /\ t.entries[j].first_lba <= t.entries[j].last_lba
                          /\ t.first_usable_lba <= t.entries[j].first_lba
                          /\ t.entries[j].last_lba <= t.last_usable_lba
                          /\ t.first_usable_lba \in Nat /\ t.last_usable_lba \in Int
      BY DEF IsSound, IsTable, InRange, InUse
    <2> DEFINE starts == {t.entries[j].first_lba : j \in done}
    <2>2. /\ starts \subseteq Int /\ starts # {} /\ t.last_usable_lba \in Int
          /\ \A x \in starts : x <= t.last_usable_lba
      <3>1. \A j \in done : t.entries[j].first_lba <= t.last_usable_lba
        BY <2>1
      <3>2. PICK j \in done : TRUE
        BY <1>2
      <3> QED BY <2>1, <3>1, <3>2
    <2>3. PICK x \in starts : \A y \in starts : y <= x
      <3> HIDE DEF starts
      <3> QED BY <2>2, GreatestBelow
    <2> DEFINE isLast(i) == \A j \in done : t.entries[j].first_lba <= t.entries[i].first_lba
               i == CHOOSE i \in done : isLast(i)
    <2>4. \E k \in done : isLast(k)
      <3>1. PICK k \in done : x = t.entries[k].first_lba
        OBVIOUS
      <3>2. isLast(k)
        BY <2>3, <3>1
      <3> QED BY <3>2
    <2>5. i \in done /\ isLast(i)
      <3> HIDE DEF isLast
      <3> QED BY <2>4
    <2>6. Base(t, done) = t.entries[i].last_lba + 1
      BY <1>2 DEF Base
    <2> HIDE DEF i
    <2>7. ASSUME NEW j \in done
          PROVE  t.entries[j].last_lba <= t.entries[i].last_lba
      <3>1. CASE j = i
        BY <2>1, <3>1
      <3>2. CASE j # i
        <4>1. t.entries[j].last_lba < t.entries[i].first_lba
          BY <2>5, <3>2, InOrder
        <4> QED BY <2>1, <2>5, <4>1
      <3> QED BY <3>1, <3>2
    <2> QED BY <2>1, <2>5, <2>6, <2>7
  <1> QED BY <1>1, <1>2

\* The regions of the walk: numbers, bounded, and free if there is anything in them.
LEMMA GapsAreFree ==
    ASSUME NEW t, IsSound(t), NEW g \in Gaps(t) \cup {LastGap(t)}
    PROVE  /\ g.start \in Nat /\ g.end \in Int /\ g.size \in Int
           /\ g.size = (g.end + 1) - g.start
           /\ t.first_usable_lba <= g.start
           /\ g.end <= t.last_usable_lba
           /\ g.size <= t.last_usable_lba + 1
           /\ \A i \in InUse(t) : t.entries[i].last_lba < g.start \/ g.end < t.entries[i].first_lba
  <1>0. /\ \A i \in InUse(t) : /\ t.entries[i].first_lba \in Nat /\ t.entries[i].last_lba \in Nat
                               /\ t.entries[i].first_lba <= t.entries[i].last_lba
                               /\ t.entries[i].last_lba <= t.last_usable_lba
        /\ t.first_usable_lba \in Nat /\ t.last_usable_lba \in Int
    BY DEF IsSound, IsTable, InRange, InUse
  <1>1. ASSUME NEW done, done \subseteq InUse(t), NEW start \in Int, start <= t.last_usable_lba + 1,
               g = Region(Base(t, done), start),
               \A i \in InUse(t) \ done : start <= t.entries[i].first_lba
        PROVE  /\ g.start \in Nat /\ g.end \in Int /\ g.size \in Int
               /\ g.size = (g.end + 1) - g.start
               /\ t.first_usable_lba <= g.start
               /\ g.end <= t.last_usable_lba
               /\ g.size <= t.last_usable_lba + 1
               /\ \A i \in InUse(t) :
                     t.entries[i].last_lba < g.start \/ g.end < t.entries[i].first_lba
    <2>1. /\ g.start = Base(t, done) /\ g.end = start - 1 /\ g.size = start - Base(t, done)
      BY <1>1 DEF Region
    <2>2. /\ Base(t, done) \in Nat /\ t.first_usable_lba <= Base(t, done)
          /\ \A j \in done : t.entries[j].last_lba < Base(t, done)
      BY <1>1, BaseIsBehind
    <2>3. ASSUME NEW i \in InUse(t)
          PROVE  t.entries[i].last_lba < g.start \/ g.end < t.entries[i].first_lba
      <3>1. CASE i \in done
        BY <2>1, <2>2, <3>1
      <3>2. CASE i \notin done
        BY <1>0, <1>1, <2>1, <3>2
      <3> QED BY <3>1, <3>2
    <2> QED BY <1>0, <1>1, <2>1, <2>2, <2>3
  <1>2. CASE g \in Gaps(t)
    <2>1. PICK i \in InUse(t) : g = Region(Base(t, Before(i, t)), t.entries[i].first_lba)
      BY <1>2 DEF Gaps
    <2>2. /\ Before(i, t) \subseteq InUse(t)
          /\ \A j \in InUse(t) \ Before(i, t) : t.entries[i].first_lba <= t.entries[j].first_lba
      BY <1>0 DEF Before
    <2>3. t.entries[i].first_lba \in Int /\ t.entries[i].first_lba <= t.last_usable_lba + 1
      BY <1>0
    <2> QED BY <1>1, <2>1, <2>2, <2>3
  <1>3. CASE g = LastGap(t)
    <2>1. g = Region(Base(t, InUse(t)), t.last_usable_lba + 1)
      BY <1>3 DEF LastGap
    <2>2. t.last_usable_lba + 1 \in Int /\ t.last_usable_lba + 1 <= t.last_usable_lba + 1
      BY <1>0
    <2> QED BY <1>1, <2>1, <2>2
  <1> QED BY <1>2, <1>3

\* A run of free sectors lies in one of the regions of the walk: the one in front of
\* the partition that comes next, or the one behind them all.
LEMMA RunInGap ==
    ASSUME NEW t, IsSound(t), NEW a \in FreeSectors(t), NEW n \in Nat,
           (a .. a + n) \subseteq FreeSectors(t)
    PROVE  \E g \in Gaps(t) \cup {LastGap(t)} : g.size > n
  <1>0. /\ \A i \in InUse(t) : /\ t.entries[i].first_lba \in Nat /\ t.entries[i].last_lba \in Nat
                               /\ t.entries[i].first_lba <= t.entries[i].last_lba
        /\ t.first_usable_lba \in Nat /\ t.last_usable_lba \in Int
    BY DEF IsSound, IsTable, InRange, InUse
  <1>1. a \in Int /\ t.first_usable_lba <= a
    BY <1>0 DEF FreeSectors
  <1>2. a + n <= t.last_usable_lba
    <2>1. a + n \in a .. a + n
      BY <1>1
    <2>2. a + n \in FreeSectors(t)
      BY <2>1
    <2> QED BY <1>0, <2>2 DEF FreeSectors
  <1>3. ASSUME NEW i \in InUse(t)
        PROVE  t.entries[i].last_lba < a \/ a + n < t.entries[i].first_lba
    <2>1. ASSUME NEW x \in a .. a + n
          PROVE  ~(t.entries[i].first_lba <= x /\ x <= t.entries[i].last_lba)
      <3>1. x \in FreeSectors(t) /\ x \in Int
        BY <1>1, <2>1
      <3>2. x \notin Sectors(t.entries[i])
        BY <3>1 DEF FreeSectors
      <3> QED BY <1>0, <3>1, <3>2 DEF Sectors
    <2>2. a \in a .. a + n
      BY <1>1
    <2>3. CASE t.entries[i].first_lba <= a
      BY <1>0, <1>1, <2>1, <2>2, <2>3
    <2>4. CASE a < t.entries[i].first_lba /\ t.entries[i].first_lba <= a + n
      BY <1>0, <1>1, <2>1, <2>4
    <2> QED BY <1>0, <1>1, <2>3, <2>4
  <1>4. ASSUME NEW done, done \subseteq InUse(t), \A j \in done : t.entries[j].last_lba < a,
               NEW start \in Int, a + n < start
        PROVE  Region(Base(t, done), start).size > n
    <2>1. /\ Base(t, done) \in Nat
          /\ done = {} => Base(t, done) = t.first_usable_lba
          /\ done # {} => \E i \in done : Base(t, done) = t.entries[i].last_lba + 1
      BY <1>4, BaseIsBehind DEF Base
    <2>2. Base(t, done) <= a
      BY <1>0, <1>1, <1>4, <2>1
    <2> QED BY <1>1, <1>4, <2>1, <2>2 DEF Region
  <1> DEFINE next == {i \in InUse(t) : a < t.entries[i].first_lba}
             starts == {t.entries[i].first_lba : i \in next}
  <1>5. CASE next = {}
    <2>1. \A j \in InUse(t) : t.entries[j].last_lba < a
      BY <1>0, <1>1, <1>3, <1>5
    <2>2. LastGap(t).size > n
      BY <1>0, <1>1, <1>2, <1>4, <2>1 DEF LastGap
    <2> QED BY <2>2
  <1>6. CASE next # {}
    <2>1. starts \subseteq Nat /\ starts # {}
      BY <1>0, <1>6
    <2>2. PICK x \in starts : \A y \in starts : x <= y
      <3> HIDE DEF starts
      <3> QED BY <2>1, Least
    <2>3. PICK i \in next : x = t.entries[i].first_lba
      OBVIOUS
    <2>4. i \in InUse(t) /\ a + n < t.entries[i].first_lba
      BY <1>0, <1>1, <1>3
    <2>5. Before(i, t) \subseteq InUse(t)
      BY DEF Before
    <2>6. ASSUME NEW j \in Before(i, t)
          PROVE  t.entries[j].last_lba < a
      <3>1. j \in InUse(t) /\ t.entries[j].first_lba < x
        BY <2>3 DEF Before
      <3>2. j \notin next
        <4>1. j \in next => x <= t.entries[j].first_lba
          BY <2>2
        <4> QED BY <1>0, <2>3, <2>4, <3>1, <4>1
      <3>3. t.entries[j].first_lba <= a
        BY <1>0, <1>1, <3>1, <3>2
      <3> QED BY <1>0, <1>1, <1>3, <3>1, <3>3
    <2>7. Region(Base(t, Before(i, t)), t.entries[i].first_lba).size > n
      BY <1>0, <1>4, <2>4, <2>5, <2>6
    <2> QED BY <2>4, <2>7 DEF Gaps
  <1> QED BY <1>5, <1>6

\* largest_update keeps a region that no other is larger than, unless all are empty.
LEMMA LargestIsLargest ==
    ASSUME NEW regions, NEW high \in Int,
           \A g \in regions : g.start \in Nat /\ g.size \in Int /\ g.size <= high
    PROVE  /\ \/ Largest(regions) \in regions /\ Largest(regions).size > 0
              \/ Largest(regions) = NoRegion
           /\ \A g \in regions : g.size <= Largest(regions).size \/ g.size <= 0
  <1> DEFINE better(h, g) == h.size < g.size \/ (h.size = g.size /\ g.start <= h.start)
             best == {g \in regions : g.size > 0 /\ \A h \in regions : better(h, g)}
  <1>1. Largest(regions) = IF best = {} THEN NoRegion ELSE CHOOSE g \in best : TRUE
    BY DEF Largest
  <1>2. CASE best # {}
    <2>1. Largest(regions) \in best
      <3> HIDE DEF best
      <3> QED BY <1>1, <1>2
    <2> QED BY <2>1
  <1>3. CASE best = {}
    <2>1. Largest(regions) = NoRegion
      BY <1>1, <1>3
    <2>2. ASSUME NEW r \in regions, r.size > 0
          PROVE  FALSE
      <3> DEFINE sizes == {g.size : g \in regions}
      <3>1. sizes \subseteq Int /\ sizes # {} /\ \A x \in sizes : x <= high
        OBVIOUS
      <3>2. PICK x \in sizes : \A y \in sizes : y <= x
        <4> HIDE DEF sizes
        <4> QED BY <3>1, GreatestBelow
      <3> DEFINE top == {g.start : g \in {f \in regions : f.size = x}}
      <3>3. top \subseteq Nat /\ top # {}
        OBVIOUS
      <3>4. PICK s \in top : \A y \in top : s <= y
        <4> HIDE DEF top
        <4> QED BY <3>3, Least
      <3>5. PICK g \in regions : g.size = x /\ g.start = s
        BY <3>4
      <3>6. ASSUME NEW h \in regions
            PROVE  better(h, g)
        <4>1. h.size \in Int /\ x \in Int /\ h.size <= x
          BY <3>2
        <4>2. h.size = x => s <= h.start
          BY <3>4
        <4> QED BY <3>5, <4>1, <4>2
      <3>7. g.size > 0
        <4>1. r.size <= x /\ r.size \in Int /\ x \in Int
          BY <3>2
        <4> QED BY <2>2, <3>5, <4>1
      <3>8. g \in best
        BY <3>6, <3>7
      <3> QED BY <1>3, <3>8
    <2>3. \A g \in regions : g.size <= 0
      BY <2>2
    <2> QED BY <2>1, <2>3
  <1> QED BY <1>2, <1>3

\* What gpt_find_contiguous_free_space returns: NoRegion, or a region of usable sectors that
\* no partition has any of; and no free sector is in a larger one.
LEMMA FreeSpaceFound ==
    ASSUME NEW t, IsSound(t)
    PROVE  LET g == gpt_find_contiguous_free_space(t)
           IN  /\ g.start \in Nat /\ g.end \in Int /\ g.size \in Nat
               /\ g.size # 0 =>
                    /\ g.size = (g.end + 1) - g.start
                    /\ t.first_usable_lba <= g.start
                    /\ g.end <= t.last_usable_lba
                    /\ \A i \in InUse(t) :
                          t.entries[i].last_lba < g.start \/ g.end < t.entries[i].first_lba
               /\ \A r \in Gaps(t) \cup {LastGap(t)} : r.size <= g.size
  <1> DEFINE regions == Gaps(t) \cup {LastGap(t)}
             g == Largest(regions)
  <1>1. gpt_find_contiguous_free_space(t) = g
    BY DEF gpt_find_contiguous_free_space
  <1>2. t.last_usable_lba + 1 \in Int
    BY DEF IsSound
  <1>3. \A r \in regions : /\ r.start \in Nat /\ r.end \in Int /\ r.size \in Int
                           /\ r.size <= t.last_usable_lba + 1
    BY GapsAreFree
  <1>4. /\ (g \in regions /\ g.size > 0) \/ g = NoRegion
        /\ \A r \in regions : r.size <= g.size \/ r.size <= 0
    <2> HIDE DEF regions
    <2> QED BY <1>2, <1>3, LargestIsLargest
  <1> HIDE DEF g
  <1>5. CASE g = NoRegion
    BY <1>1, <1>3, <1>4, <1>5 DEF NoRegion
  <1>6. CASE g \in regions /\ g.size > 0
    <2>1. /\ g.size = (g.end + 1) - g.start
          /\ t.first_usable_lba <= g.start
          /\ g.end <= t.last_usable_lba
          /\ \A i \in InUse(t) :
                t.entries[i].last_lba < g.start \/ g.end < t.entries[i].first_lba
      BY <1>6, GapsAreFree
    <2> QED BY <1>1, <1>3, <1>4, <1>6, <2>1
  <1> QED BY <1>4, <1>5, <1>6

\* The walk meets its reference definition: no run of free sectors is longer.
LEMMA WalkFindsLargest ==
    ASSUME NEW t, IsSound(t)
    PROVE  IsLargestGap(gpt_find_contiguous_free_space(t), t)
  <1> DEFINE g == gpt_find_contiguous_free_space(t)
  <1>1. /\ g.start \in Nat /\ g.end \in Int /\ g.size \in Nat
        /\ g.size # 0 =>
             /\ g.size = (g.end + 1) - g.start
             /\ t.first_usable_lba <= g.start
             /\ g.end <= t.last_usable_lba
             /\ \A i \in InUse(t) :
                   t.entries[i].last_lba < g.start \/ g.end < t.entries[i].first_lba
        /\ \A r \in Gaps(t) \cup {LastGap(t)} : r.size <= g.size
    BY FreeSpaceFound
  <1>2. \A r \in Gaps(t) \cup {LastGap(t)} : r.size \in Int
    BY GapsAreFree
  <1>3. /\ \A i \in InUse(t) : t.entries[i].first_lba \in Nat /\ t.entries[i].last_lba \in Nat
        /\ t.first_usable_lba \in Nat /\ t.last_usable_lba \in Int
    BY DEF IsSound, IsTable, InUse
  <1> HIDE DEF g
  <1>4. g.size # 0 => (g.start .. g.end) \subseteq FreeSectors(t)
    <2> SUFFICES ASSUME g.size # 0, NEW x \in g.start .. g.end
                 PROVE  x \in FreeSectors(t)
      OBVIOUS
    <2>1. x \in Int /\ g.start <= x /\ x <= g.end
      BY <1>1
    <2>2. x \in t.first_usable_lba .. t.last_usable_lba
      BY <1>1, <1>3, <2>1
    <2>3. \A i \in InUse(t) : x \notin Sectors(t.entries[i])
      BY <1>1, <1>3, <2>1 DEF Sectors
    <2> QED BY <2>2, <2>3 DEF FreeSectors
  <1>5. CASE FreeSectors(t) = {}
    <2>1. g.size # 0 => g.start \in g.start .. g.end
      BY <1>1
    <2>2. g.size = 0
      BY <1>4, <1>5, <2>1
    <2> QED BY <1>5, <2>2 DEF IsLargestGap, g
  <1>6. CASE FreeSectors(t) # {}
    <2>1. ASSUME NEW a \in FreeSectors(t), NEW n \in Nat, (a .. a + n) \subseteq FreeSectors(t)
          PROVE  g.size > n
      <3>1. PICK r \in Gaps(t) \cup {LastGap(t)} : r.size > n
        BY <2>1, RunInGap
      <3> QED BY <1>1, <1>2, <3>1
    <2>2. g.size > 0
      <3>1. PICK a \in FreeSectors(t) : TRUE
        BY <1>6
      <3>2. a \in Int /\ (a .. a + 0) \subseteq FreeSectors(t)
        BY <1>3, <3>1 DEF FreeSectors
      <3> QED BY <2>1, <3>2
    <2>3. \A a \in FreeSectors(t) : ~((a .. a + g.size) \subseteq FreeSectors(t))
      <3> SUFFICES ASSUME NEW a \in FreeSectors(t), (a .. a + g.size) \subseteq FreeSectors(t)
                   PROVE  FALSE
        OBVIOUS
      <3>1. g.size > g.size
        BY <1>1, <2>1
      <3> QED BY <1>1, <3>1
    <2> QED BY <1>1, <1>4, <1>6, <2>2, <2>3 DEF IsLargestGap, g
  <1> QED BY <1>5, <1>6

-----------------------------------------------------------------------------
(* What one partition leaves behind it *)

\* Partitions that lie in one stretch of the disk do not take more than it has.
LEMMA SizesFit ==
    ASSUME NEW t, IsSound(t), NEW A, A \subseteq InUse(t), NEW low \in Nat, NEW high \in Int,
           low <= high + 1,
           \A i \in A : low <= t.entries[i].first_lba /\ t.entries[i].last_lba <= high,
           NEW v \in [1 .. num_pentries(t) -> Int],
           \A i \in 1 .. num_pentries(t) :
              v[i] = IF i \in A THEN gpt_entry_get_size(t.entries[i]) ELSE 0
    PROVE  RunningSums(v)[num_pentries(t)] <= (high + 1) - low
  <1> DEFINE n    == num_pentries(t)
             r    == RunningSums(v)
             U(k) == UNION {Sectors(t.entries[i]) : i \in {j \in A : j <= k}}
  <1>1. /\ n \in Nat /\ InUse(t) \subseteq 1 .. n
        /\ \A i \in InUse(t) : /\ t.entries[i].first_lba \in Nat /\ t.entries[i].last_lba \in Nat
                               /\ t.entries[i].first_lba <= t.entries[i].last_lba
    BY DEF IsSound, IsTable, IsShape, InRange, InUse
  <1>2. /\ r \in [0 .. n -> Int] /\ r[0] = 0
        /\ \A i \in 1 .. n : r[i] = r[i - 1] + v[i]
    BY <1>1, SumsStep
  <1>3. \A j \in A : j \in Nat /\ 1 <= j /\ j <= n
    BY <1>1
  <1> HIDE DEF n, r
  <1> DEFINE bad == {k \in 0 .. n : ~(IsFiniteSet(U(k)) /\ Cardinality(U(k)) = r[k])}
  <1>4. bad = {}
    <2> SUFFICES ASSUME bad # {}
                 PROVE  FALSE
      OBVIOUS
    <2>1. PICK k \in bad : \A j \in bad : k <= j
      <3>1. bad \subseteq Nat
        BY <1>1
      <3> HIDE DEF bad
      <3> QED BY <3>1, Least
    <2>2. k # 0
      <3> SUFFICES ASSUME k = 0
                   PROVE  FALSE
        OBVIOUS
      <3>1. {j \in A : j <= 0} = {}
        BY <1>3
      <3>2. U(0) = {}
        BY <3>1
      <3> QED BY <1>2, <3>2, FS_EmptySet
    <2>3. k \in 1 .. n /\ k - 1 \in 0 .. n /\ ~(k <= k - 1)
      BY <1>1, <2>2
    <2>4. IsFiniteSet(U(k - 1)) /\ Cardinality(U(k - 1)) = r[k - 1]
      BY <2>1, <2>3
    <2>5. r[k] = r[k - 1] + v[k] /\ r[k - 1] \in Int
      BY <1>2, <2>3
    <2>6. CASE k \notin A
      <3>0. \A j \in A : j <= k <=> j <= k - 1
        BY <1>3, <2>3, <2>6
      <3>1. {j \in A : j <= k} = {j \in A : j <= k - 1}
        BY <3>0
      <3>2. U(k) = U(k - 1)
        BY <3>1
      <3>3. v[k] = 0
        BY <2>3, <2>6 DEF n
      <3> HIDE DEF U
      <3>4. r[k] = r[k - 1]
        BY <2>5, <3>3
      <3> QED BY <2>4, <3>2, <3>4
    <2>7. CASE k \in A
      <3> DEFINE s == Sectors(t.entries[k])
      <3>1. {j \in A : j <= k} = {j \in A : j <= k - 1} \cup {k}
        <4>1. \A j \in A : j <= k <=> j <= k - 1 \/ j = k
          BY <1>3, <2>3
        <4> QED BY <2>7, <4>1
      <3>2. U(k) = U(k - 1) \cup s
        BY <3>1
      <3>3. U(k - 1) \cap s = {}
        <4> SUFFICES ASSUME NEW i \in A, i <= k - 1, NEW x, x \in Sectors(t.entries[i]), x \in s
                     PROVE  FALSE
          OBVIOUS
        <4>1. i # k /\ i \in InUse(t) /\ k \in InUse(t)
          BY <2>3, <2>7
        <4> QED BY <4>1 DEF IsSound, Disjoint
      <3>4. IsFiniteSet(s) /\ Cardinality(s) = gpt_entry_get_size(t.entries[k])
        <4>1. /\ t.entries[k].first_lba \in Nat /\ t.entries[k].last_lba \in Nat
              /\ t.entries[k].first_lba <= t.entries[k].last_lba
          BY <1>1, <2>7
        <4> DEFINE a == t.entries[k].first_lba
                   b == t.entries[k].last_lba
        <4>2. s = a .. b /\ gpt_entry_get_size(t.entries[k]) = (b + 1) - a
          BY DEF Sectors, gpt_entry_get_size
        <4> HIDE DEF s, a, b
        <4>3. a \in Nat /\ b \in Nat /\ a <= b
          BY <4>1 DEF a, b
        <4>4. IsFiniteSet(a .. b) /\ Cardinality(a .. b) = IF a > b THEN 0 ELSE b - a + 1
          BY <4>3, FS_Interval
        <4>5. Cardinality(a .. b) = (b + 1) - a
          BY <4>3, <4>4
        <4> QED BY <4>2, <4>4, <4>5
      <3>5. v[k] = gpt_entry_get_size(t.entries[k])
        BY <2>3, <2>7 DEF n
      <3> HIDE DEF s, U
      <3>6. /\ IsFiniteSet(U(k - 1) \cup s)
            /\ Cardinality(U(k - 1) \cup s) = Cardinality(U(k - 1)) + Cardinality(s) - Cardinality({})
        <4> DEFINE V == U(k - 1)
        <4>1. IsFiniteSet(V) /\ IsFiniteSet(s) /\ V \cap s = {}
          BY <2>4, <3>3, <3>4
        <4> HIDE DEF V
        <4>2. /\ IsFiniteSet(V \cup s)
              /\ Cardinality(V \cup s) = Cardinality(V) + Cardinality(s) - Cardinality({})
          BY <4>1, FS_Union
        <4> QED BY <4>2 DEF V
      <3>7. Cardinality({}) = 0 /\ Cardinality(U(k - 1)) \in Nat /\ Cardinality(s) \in Nat
        BY <2>4, <3>4, FS_EmptySet, FS_CardinalityType
      <3>8. Cardinality(U(k)) = r[k - 1] + v[k]
        BY <2>4, <3>2, <3>4, <3>5, <3>6, <3>7
      <3>9. IsFiniteSet(U(k)) /\ Cardinality(U(k)) = r[k]
        BY <2>5, <3>2, <3>6, <3>8
      <3> QED BY <3>9
    <2> QED BY <2>6, <2>7
  <1>5. IsFiniteSet(U(n)) /\ Cardinality(U(n)) = r[n]
    <2> HIDE DEF U
    <2>1. n \in 0 .. n
      BY <1>1
    <2> QED BY <1>4, <2>1
  <1>6. U(n) \subseteq low .. high
    <2> SUFFICES ASSUME NEW i \in A, NEW x \in Sectors(t.entries[i])
                 PROVE  x \in low .. high
      OBVIOUS
    <2> QED BY <1>1 DEF Sectors
  <1>7. IsFiniteSet(low .. high) /\ Cardinality(low .. high) = (high + 1) - low
    BY FS_Interval
  <1> HIDE DEF U
  <1>8. Cardinality(U(n)) <= Cardinality(low .. high)
    BY <1>6, <1>7, FS_Subset
  <1> QED BY <1>5, <1>7, <1>8 DEF n, r

\* Where no run of n free sectors begins in front of a partition, the region that is found
\* lies behind it or is smaller than that.
LEMMA BehindOrSmall ==
    ASSUME NEW t, IsSound(t), NEW w \in InUse(t), NEW n \in Nat \ {0},
           \A a \in FreeSectors(t) :
              (a .. a + n - 1) \subseteq FreeSectors(t) => a > t.entries[w].first_lba
    PROVE  LET g == gpt_find_contiguous_free_space(t)
           IN  /\ g.size < n \/ t.entries[w].last_lba < g.start
               /\ g.size < n \/ g.size <= t.last_usable_lba - t.entries[w].last_lba
  <1> DEFINE g == gpt_find_contiguous_free_space(t)
  <1> SUFFICES ASSUME ~(g.size < n)
               PROVE  /\ t.entries[w].last_lba < g.start
                      /\ g.size <= t.last_usable_lba - t.entries[w].last_lba
    OBVIOUS
  <1>1. /\ g.start \in Nat /\ g.end \in Int /\ g.size \in Nat
        /\ g.size # 0 => g.size = (g.end + 1) - g.start /\ g.end <= t.last_usable_lba
    BY FreeSpaceFound
  <1>2. IsLargestGap(g, t)
    BY WalkFindsLargest
  <1>3. /\ t.entries[w].first_lba \in Nat /\ t.entries[w].last_lba \in Nat
        /\ t.last_usable_lba \in Int
    BY DEF IsSound, IsTable, InUse
  <1> HIDE DEF g
  <1>4. g.size # 0 /\ g.size >= n /\ g.size = (g.end + 1) - g.start /\ g.end <= t.last_usable_lba
    BY <1>1
  <1>5. (g.start .. g.end) \subseteq FreeSectors(t)
    BY <1>2, <1>4 DEF IsLargestGap
  <1>6. g.start \in g.start .. g.end /\ (g.start .. g.start + n - 1) \subseteq g.start .. g.end
    BY <1>1, <1>4
  <1>7. g.start > t.entries[w].first_lba
    BY <1>5, <1>6
  <1>8. g.start \notin Sectors(t.entries[w])
    BY <1>5, <1>6 DEF FreeSectors
  <1>9. t.entries[w].last_lba < g.start
    BY <1>1, <1>3, <1>7, <1>8 DEF Sectors
  <1> QED BY <1>1, <1>3, <1>4, <1>9

\* ... and if it is the last partition of the disk and leaves as much behind it, the region
\* is all that is behind it.
LEMMA AllBehind ==
    ASSUME NEW t, IsSound(t), NEW w \in InUse(t), NEW n \in Nat \ {0},
           \A a \in FreeSectors(t) :
              (a .. a + n - 1) \subseteq FreeSectors(t) => a > t.entries[w].first_lba,
           \A i \in InUse(t) : t.entries[i].first_lba <= t.entries[w].first_lba,
           n <= t.last_usable_lba - t.entries[w].last_lba
    PROVE  LET g == gpt_find_contiguous_free_space(t)
           IN  /\ g.start = t.entries[w].last_lba + 1
               /\ g.end = t.last_usable_lba
               /\ g.size = t.last_usable_lba - t.entries[w].last_lba
  <1> DEFINE g    == gpt_find_contiguous_free_space(t)
             from == t.entries[w].last_lba + 1
             to   == t.last_usable_lba
  <1>1. /\ g.start \in Nat /\ g.end \in Int /\ g.size \in Nat
        /\ g.size # 0 => g.size = (g.end + 1) - g.start /\ g.end <= to
    BY FreeSpaceFound
  <1>2. IsLargestGap(g, t)
    BY WalkFindsLargest
  <1>3. /\ from \in Nat /\ to \in Int /\ t.first_usable_lba \in Nat
        /\ t.first_usable_lba <= from /\ n <= (to + 1) - from /\ from <= to
    BY DEF IsSound, IsTable, InUse, InRange
  <1>4. (from .. to) \subseteq FreeSectors(t)
    <2> SUFFICES ASSUME NEW x \in from .. to, NEW i \in InUse(t), x \in Sectors(t.entries[i])
                 PROVE  FALSE
      BY <1>3 DEF FreeSectors
    <2>1. /\ t.entries[i].first_lba \in Nat /\ t.entries[i].last_lba \in Nat
          /\ t.entries[w].first_lba \in Nat /\ t.entries[w].last_lba \in Nat
          /\ t.entries[w].first_lba <= t.entries[w].last_lba
      BY DEF IsSound, IsTable, InUse, InRange
    <2>2. i = w \/ t.entries[i].last_lba < t.entries[w].first_lba
      BY InOrder
    <2> QED BY <1>3, <2>1, <2>2 DEF Sectors
  <1> HIDE DEF g, from
  <1>5. from \in FreeSectors(t)
    BY <1>3, <1>4
  <1>6. ~((from .. from + g.size) \subseteq FreeSectors(t)) /\ g.size > 0
    BY <1>2, <1>5 DEF IsLargestGap
  <1>7. ~(from + g.size <= to)
    BY <1>1, <1>3, <1>4, <1>6
  <1>8. g.size >= (to + 1) - from
    BY <1>1, <1>3, <1>7
  <1>9. t.entries[w].last_lba < g.start
    <2>1. ~(g.size < n)
      BY <1>1, <1>3, <1>8
    <2> QED BY <2>1, BehindOrSmall DEF g
  <1>10. from <= g.start
    <2>1. t.entries[w].last_lba \in Nat
      BY DEF IsSound, IsTable, InUse
    <2> QED BY <1>1, <1>9, <2>1 DEF from
  <1>11. g.start = from /\ g.end = to /\ g.size = (to + 1) - from
    BY <1>1, <1>3, <1>6, <1>8, <1>10
  <1>12. (to + 1) - from = to - t.entries[w].last_lba
    <2>1. t.entries[w].last_lba \in Nat
      BY DEF IsSound, IsTable, InUse
    <2> QED BY <1>3, <2>1 DEF from
  <1> QED BY <1>11, <1>12 DEF g, from
=============================================================================
