---------------------------- MODULE PageTableProofs ----------------------------
(***************************************************************************)
(* The page tables of mmu.c give every process a memory of its own, for    *)
(* every size of the tables, every number of processes and every layout    *)
(* that LayoutAssumption allows.                                           *)
(*                                                                         *)
(* What each operation of mmu.c does to a state s of the tables is stated  *)
(* once, in terms of Translate: the inductive invariant and the refinement *)
(* of AddressSpaces use nothing else.                                      *)
(***************************************************************************)
EXTENDS PageTable, TLAPS

-----------------------------------------------------------------------------
\* Addresses

LEMMA Multiples ==
    ASSUME NEW n \in Nat \ {0}, NEW q \in Int, NEW k \in Int, q < k
    PROVE  q * n + n <= k * n
<1>1. (k - q) * n >= n
  OBVIOUS
<1>2. (k - q) * n = k * n - q * n
  OBVIOUS
<1> QED
  BY <1>1, <1>2

\* Quotient and remainder are unique.
LEMMA DivModOf ==
    ASSUME NEW n \in Nat \ {0}, NEW q \in Int, NEW r \in 0 .. n - 1
    PROVE  (q * n + r) \div n = q /\ (q * n + r) % n = r
<1> DEFINE a == q * n + r
           k == a \div n
           t == a % n
<1>1. a \in Int
  OBVIOUS
<1> HIDE DEF a
<1>2. k \in Int /\ t \in 0 .. n - 1 /\ a = k * n + t
  BY <1>1
<1> HIDE DEF k, t
<1>3. q * n + r = k * n + t
  BY <1>2 DEF a
<1>4. ~(q < k)
  BY <1>2, <1>3, Multiples
<1>5. ~(k < q)
  BY <1>2, <1>3, Multiples
<1>6. q = k /\ r = t
  BY <1>2, <1>3, <1>4, <1>5
<1> QED
  BY <1>6 DEF a, k, t

\* The page of an entry.
LEMMA EntryPage ==
    ASSUME NEW i \in Int, NEW j \in L2Index
    PROVE  /\ PageAt(i, j) \in Int
           /\ l1pte_index(PageAt(i, j)) = i /\ PageAt(i, j) % TTB_L2_ENTRIES = j
BY DivModOf, PageTableAssumption DEF PageAt, l1pte_index, L2Index

\* The entry of a page.
LEMMA PageEntry ==
    ASSUME NEW v \in Page
    PROVE  /\ v \in Nat
           /\ l1pte_index(v) \in L1Index /\ v % TTB_L2_ENTRIES \in L2Index
           /\ v = PageAt(l1pte_index(v), v % TTB_L2_ENTRIES)
<1> DEFINE n == TTB_L2_ENTRIES
           m == TTB_L1_ENTRIES
           k == v \div n
           r == v % n
<1>1. n \in Nat \ {0} /\ m \in Nat /\ v \in Nat /\ v <= m * n - 1
  BY PageTableAssumption DEF Page
<1> HIDE DEF n, m
<1>2. k \in Nat /\ r \in 0 .. n - 1 /\ v = k * n + r
  BY <1>1
<1> HIDE DEF k, r
<1>3. k < m
  <2> SUFFICES ASSUME m <= k PROVE FALSE
    BY <1>1, <1>2
  <2>1. m * n <= k * n
    BY <1>1, <1>2, Multiples
  <2> QED
    BY <1>1, <1>2, <2>1
<1> QED
  BY <1>1, <1>2, <1>3 DEF n, m, k, r, l1pte_index, PageAt, L1Index, L2Index

\* The root entries under KernelIndex are those of the user pages.
LEMMA UserIndex ==
    ASSUME NEW v \in Page
    PROVE  v \in UserPage <=> l1pte_index(v) < KernelIndex
<1> DEFINE n == TTB_L2_ENTRIES
           k == KernelIndex
           i == l1pte_index(v)
           j == v % n
<1>1. n \in Nat \ {0} /\ k \in Nat /\ i \in Nat /\ j \in 0 .. n - 1 /\ v = i * n + j
  BY PageEntry, PageTableAssumption DEF PageAt, L1Index, L2Index
<1> HIDE DEF i, j
<1>2. i < k => i * n + n <= k * n
  BY <1>1, Multiples
<1>3. k < i => k * n + n <= i * n
  BY <1>1, Multiples
<1>4. v < k * n <=> i < k
  BY <1>1, <1>2, <1>3
<1>5. k * n \in Nat
  BY <1>1
<1> QED
  BY <1>1, <1>4, <1>5 DEF UserPage, i

LEMMA UserInPage == UserPage \subseteq Page
<1> DEFINE n == TTB_L2_ENTRIES
           k == KernelIndex
<1>1. n \in Nat \ {0} /\ k \in Nat
  BY PageTableAssumption
<1>2. k * n + n <= TTB_L1_ENTRIES * n
  BY <1>1, PageTableAssumption, Multiples
<1>3. k * n \in Nat /\ TTB_L1_ENTRIES * n \in Nat
  BY <1>1, PageTableAssumption
<1>4. k * n - 1 <= TTB_L1_ENTRIES * n - 1
  BY <1>1, <1>2, <1>3
<1> QED
  BY <1>3, <1>4 DEF UserPage, Page

-----------------------------------------------------------------------------
\* Entries

LEMMA EntryForms ==
    /\ \A b, t : Section(b) # Table(t) /\ Section(b) # Fault /\ Table(t) # Fault
    /\ \A t, u : Table(t) = Table(u) => t = u
    /\ \A b, c : Section(b) = Section(c) => b = c
    /\ \A t : Table(t).at = t
<1>1. \A b, t : Section(b) # Table(t) /\ Section(b) # Fault /\ Table(t) # Fault
  <2> SUFFICES ASSUME NEW b, NEW t
               PROVE  Section(b) # Table(t) /\ Section(b) # Fault /\ Table(t) # Fault
    OBVIOUS
  <2>1. Section(b).type = "section" /\ Table(t).type = "table" /\ Fault.type = "fault"
    BY DEF Section, Table, Fault
  <2> QED
    BY <2>1
<1>2. \A t : Table(t).at = t
  BY DEF Table
<1>3. \A b : Section(b).at = b
  BY DEF Section
<1> QED
  BY <1>1, <1>2, <1>3

\* What the MMU finds under each form of a root entry.
LEMMA Walk ==
    ASSUME NEW s, NEW pg, NEW v
    PROVE  LET pte == s.l1[pg][l1pte_index(v)] IN
           /\ pte = Fault => Translate(s, pg, v) = 0
           /\ \A b : pte = Section(b) => Translate(s, pg, v) = PageAt(b, v % TTB_L2_ENTRIES)
           /\ \A t : pte = Table(t) => Translate(s, pg, v) = s.l2[t][v % TTB_L2_ENTRIES]
<1> DEFINE pte == s.l1[pg][l1pte_index(v)]
           j == v % TTB_L2_ENTRIES
<1>1. Translate(s, pg, v) = CASE pte.type = "fault" -> 0
                              [] pte.type = "section" -> PageAt(pte.at, j)
                              [] pte.type = "table" -> s.l2[pte.at][j]
  BY DEF Translate
<1>2. /\ Fault.type = "fault"
      /\ \A b : Section(b).type = "section" /\ Section(b).at = b
      /\ \A t : Table(t).type = "table" /\ Table(t).at = t
  BY DEF Fault, Section, Table
<1> HIDE DEF pte, j
<1>3. pte = Fault => Translate(s, pg, v) = 0
  BY <1>1, <1>2
<1>4. ASSUME NEW b, pte = Section(b) PROVE Translate(s, pg, v) = PageAt(b, j)
  BY <1>1, <1>2, <1>4
<1>5. ASSUME NEW t, pte = Table(t) PROVE Translate(s, pg, v) = s.l2[t][j]
  BY <1>1, <1>2, <1>5
<1> QED
  BY <1>3, <1>4, <1>5 DEF pte, j

-----------------------------------------------------------------------------
\* States of the tables

WellTyped(s) ==
    /\ s = [l1 |-> s.l1, l2 |-> s.l2]
    /\ DOMAIN s.l1 \in SUBSET (Pgtable \cup {SysPgtable}) /\ SysPgtable \in DOMAIN s.l1
    /\ s.l1 \in [DOMAIN s.l1 -> [L1Index -> Entry]]
    /\ DOMAIN s.l2 \in SUBSET L2Table
    /\ s.l2 \in [DOMAIN s.l2 -> [L2Index -> Frame]]

\* r is the state after the pages of f were mapped in pg, with the tables new.
Allocated(s, pg, f, new, r) ==
    LET index == IndexesOf(DOMAIN f)
        need == Missing(s, pg, DOMAIN f)
    IN  /\ new \in Injection(need, L2Table \ DOMAIN s.l2)
        /\ r = [l1 |-> r.l1, l2 |-> r.l2]
        /\ DOMAIN r.l1 = DOMAIN s.l1 /\ r.l1 = [q \in DOMAIN s.l1 |-> r.l1[q]]
        /\ \A q \in DOMAIN s.l1 : q # pg => r.l1[q] = s.l1[q]
        /\ r.l1[pg] = [i \in L1Index |-> IF i \in need THEN Table(new[i]) ELSE s.l1[pg][i]]
        /\ DOMAIN r.l2 = DOMAIN s.l2 \cup {new[i] : i \in need}
        /\ r.l2 = [t \in DOMAIN r.l2 |-> r.l2[t]]
        /\ \A i \in index : \A t \in DOMAIN r.l2 : r.l1[pg][i] = Table(t) =>
               r.l2[t] = [j \in L2Index |-> IF PageAt(i, j) \in DOMAIN f THEN f[PageAt(i, j)]
                                            ELSE IF i \in need THEN 0 ELSE s.l2[t][j]]
        /\ \A t \in DOMAIN s.l2 :
               (\A i \in index : r.l1[pg][i] # Table(t)) => r.l2[t] = s.l2[t]

\* The pages can be mapped in pg: no root entry is a section, no two name the
\* same table, and the tables are there.
Mappable(s, pg, pages) ==
    /\ \A i \in IndexesOf(pages) :
         s.l1[pg][i] = Fault \/ \E t \in DOMAIN s.l2 : s.l1[pg][i] = Table(t)
    /\ \A i, k \in IndexesOf(pages) : \A t \in DOMAIN s.l2 :
         s.l1[pg][i] = Table(t) /\ s.l1[pg][k] = Table(t) => i = k

\* What alloc_init_pte() does.
LEMMA Allocation ==
    ASSUME NEW s, WellTyped(s), NEW pg \in DOMAIN s.l1, NEW f, DOMAIN f \subseteq Page,
           HasRoom(s, pg, DOMAIN f), Mappable(s, pg, DOMAIN f)
    PROVE  Allocated(s, pg, f, NewTables(s, pg, DOMAIN f), alloc_init_pte(s, pg, f))
<1> DEFINE index == IndexesOf(DOMAIN f)
           need == Missing(s, pg, DOMAIN f)
           new == NewTables(s, pg, DOMAIN f)
           root == [i \in L1Index |-> IF i \in need THEN Table(new[i]) ELSE s.l1[pg][i]]
           r == alloc_init_pte(s, pg, f)
           Filled(i) == [j \in L2Index |-> IF PageAt(i, j) \in DOMAIN f THEN f[PageAt(i, j)]
                                           ELSE IF i \in need THEN 0
                                           ELSE s.l2[root[i].at][j]]
<1>1. new \in Injection(need, L2Table \ DOMAIN s.l2)
  BY DEF HasRoom, NewTables
<1>2. /\ new \in [need -> L2Table \ DOMAIN s.l2] /\ DOMAIN new = need
      /\ \A i, k \in need : new[i] = new[k] => i = k
      /\ Range(new) = {new[i] : i \in need}
  BY <1>1 DEF Injection, IsInjective, Range
<1>3. index \subseteq L1Index /\ need \subseteq index
  BY PageEntry DEF IndexesOf, Missing
<1>4. /\ r.l1 = [s.l1 EXCEPT ![pg] = root]
      /\ r.l2 = [t \in DOMAIN s.l2 \cup {new[i] : i \in need} |->
                   IF \E i \in index : root[i] = Table(t)
                   THEN Filled(CHOOSE i \in index : root[i] = Table(t)) ELSE s.l2[t]]
      /\ r = [l1 |-> r.l1, l2 |-> r.l2]
  <2>1. r = [l1 |-> [s.l1 EXCEPT ![pg] = root],
             l2 |-> [t \in DOMAIN s.l2 \cup {new[i] : i \in need} |->
                      IF \E i \in index : root[i] = Table(t)
                      THEN Filled(CHOOSE i \in index : root[i] = Table(t)) ELSE s.l2[t]]]
    BY DEF alloc_init_pte
  <2> HIDE DEF need, new, index, root, Filled, r
  <2> QED
    BY <2>1
<1> HIDE DEF need, new, index, root, r
<1>5. \A i, k \in index : \A t : root[i] = Table(t) /\ root[k] = Table(t) => i = k
  <2> SUFFICES ASSUME NEW i \in index, NEW k \in index, NEW t, root[i] = Table(t), root[k] = Table(t)
               PROVE  i = k
    OBVIOUS
  <2>1. \A m \in index : root[m] = IF m \in need THEN Table(new[m]) ELSE s.l1[pg][m]
    BY <1>3 DEF root
  <2>2. \A m \in index \ need : \E u \in DOMAIN s.l2 : s.l1[pg][m] = Table(u)
    BY DEF Mappable, index, need, Missing
  <2>3. \A m \in need : new[m] \notin DOMAIN s.l2
    BY <1>2
  <2>4. CASE i \in need
    <3>1. new[i] = t
      BY <2>1, <2>4, EntryForms
    <3>2. k \in need
      BY <2>1, <2>2, <2>3, <2>4, <3>1, EntryForms
    <3> QED
      BY <1>2, <2>1, <2>4, <3>1, <3>2, EntryForms
  <2>5. CASE i \notin need
    <3>1. t \in DOMAIN s.l2 /\ s.l1[pg][i] = Table(t)
      BY <2>1, <2>2, <2>5, EntryForms
    <3>2. k \notin need
      BY <2>1, <2>3, <3>1, EntryForms
    <3> QED
      BY <2>1, <2>5, <3>1, <3>2 DEF Mappable, index
  <2> QED
    BY <2>4, <2>5
<1>6. ASSUME NEW i \in index, NEW t \in DOMAIN r.l2, root[i] = Table(t)
      PROVE  r.l2[t] = [j \in L2Index |-> IF PageAt(i, j) \in DOMAIN f THEN f[PageAt(i, j)]
                                          ELSE IF i \in need THEN 0 ELSE s.l2[t][j]]
  <2>1. (CHOOSE k \in index : root[k] = Table(t)) = i
    BY <1>5, <1>6
  <2>2. r.l2[t] = Filled(i)
    <3>1. \E k \in index : root[k] = Table(t)
      BY <1>6
    <3>2. r.l2[t] = Filled(CHOOSE k \in index : root[k] = Table(t))
      <4> HIDE DEF Filled
      <4> QED
        BY <1>4, <3>1
    <3> HIDE DEF Filled
    <3> QED
      BY <2>1, <3>2
  <2>3. root[i].at = t
    BY <1>6, EntryForms
  <2> QED
    BY <2>2, <2>3
<1>7. DOMAIN r.l1 = DOMAIN s.l1 /\ r.l1 = [q \in DOMAIN s.l1 |-> r.l1[q]] /\ r.l1[pg] = root
      /\ \A q \in DOMAIN s.l1 : q # pg => r.l1[q] = s.l1[q]
  BY <1>4 DEF WellTyped
<1>8. /\ DOMAIN r.l2 = DOMAIN s.l2 \cup {new[i] : i \in need}
      /\ r.l2 = [t \in DOMAIN r.l2 |-> r.l2[t]]
      /\ \A t \in DOMAIN s.l2 : (\A i \in index : root[i] # Table(t)) => r.l2[t] = s.l2[t]
  BY <1>4
<1>9. \A i \in index : \A t \in DOMAIN r.l2 : r.l1[pg][i] = Table(t) =>
        r.l2[t] = [j \in L2Index |-> IF PageAt(i, j) \in DOMAIN f THEN f[PageAt(i, j)]
                                     ELSE IF i \in need THEN 0 ELSE s.l2[t][j]]
  BY <1>6, <1>7
<1>10. \A t \in DOMAIN s.l2 : (\A i \in index : r.l1[pg][i] # Table(t)) => r.l2[t] = s.l2[t]
  BY <1>7, <1>8
<1>11. r.l1[pg] = [i \in L1Index |-> IF i \in need THEN Table(new[i]) ELSE s.l1[pg][i]]
  BY <1>7 DEF root
<1>12. r = [l1 |-> r.l1, l2 |-> r.l2]
  BY <1>4
<1>13. Allocated(s, pg, f, new, r)
  BY ONLY <1>1, <1>7, <1>8, <1>9, <1>10, <1>11, <1>12 DEF Allocated, index, need
<1> QED
  BY <1>13 DEF new, r

LEMMA AllocatedTyped ==
    ASSUME NEW s, WellTyped(s), NEW pg \in DOMAIN s.l1, NEW f, DOMAIN f \subseteq Page,
           \A v \in DOMAIN f : f[v] \in Frame, Mappable(s, pg, DOMAIN f),
           NEW new, NEW r, Allocated(s, pg, f, new, r)
    PROVE  WellTyped(r)
<1> DEFINE need == Missing(s, pg, DOMAIN f)
           index == IndexesOf(DOMAIN f)
<1>1. new \in [need -> L2Table \ DOMAIN s.l2]
  BY DEF Allocated, Injection
<1>2. r.l1[pg] \in [L1Index -> Entry]
  <2>1. \A i \in need : Table(new[i]) \in Entry
    BY <1>1 DEF Entry
  <2>2. \A i \in L1Index : s.l1[pg][i] \in Entry
    BY DEF WellTyped
  <2> QED
    BY <2>1, <2>2 DEF Allocated
<1>3. r.l1 \in [DOMAIN r.l1 -> [L1Index -> Entry]]
  <2>1. \A q \in DOMAIN r.l1 : r.l1[q] \in [L1Index -> Entry]
    BY <1>2 DEF Allocated, WellTyped
  <2>2. r.l1 = [q \in DOMAIN r.l1 |-> r.l1[q]]
    BY DEF Allocated
  <2> QED
    BY <2>1, <2>2
<1>4. DOMAIN r.l2 \subseteq L2Table
  BY <1>1 DEF Allocated, WellTyped
<1>5. ASSUME NEW t \in DOMAIN r.l2 PROVE r.l2[t] \in [L2Index -> Frame]
  <2>1. CASE \E i \in index : r.l1[pg][i] = Table(t)
    <3>1. PICK i \in index : r.l1[pg][i] = Table(t)
      BY <2>1
    <3>2. r.l2[t] = [j \in L2Index |-> IF PageAt(i, j) \in DOMAIN f THEN f[PageAt(i, j)]
                                       ELSE IF i \in need THEN 0 ELSE s.l2[t][j]]
      BY <3>1 DEF Allocated
    <3>3. i \notin need => t \in DOMAIN s.l2
      <4> SUFFICES ASSUME i \notin need, t \notin DOMAIN s.l2 PROVE FALSE
        OBVIOUS
      <4>1. s.l1[pg][i] = Table(t)
        BY <3>1, PageEntry DEF Allocated, IndexesOf
      <4>2. s.l1[pg][i] # Fault
        BY <4>1, EntryForms
      <4> QED
        BY <4>1, <4>2, EntryForms DEF Mappable
    <3>4. 0 \in Frame
      BY DEF Frame
    <3>5. i \notin need => s.l2[t] \in [L2Index -> Frame]
      BY <3>3 DEF WellTyped
    <3> QED
      BY <3>2, <3>4, <3>5
  <2>2. CASE \A i \in index : r.l1[pg][i] # Table(t)
    <3>1. t \in DOMAIN s.l2
      <4> SUFFICES ASSUME t \notin DOMAIN s.l2 PROVE FALSE
        OBVIOUS
      <4>1. PICK k \in need : t = new[k]
        BY DEF Allocated
      <4>2. k \in index /\ k \in L1Index
        BY PageEntry DEF Missing, IndexesOf
      <4> QED
        BY <2>2, <4>1, <4>2 DEF Allocated
    <3> QED
      BY <2>2, <3>1 DEF Allocated, WellTyped
  <2> QED
    BY <2>1, <2>2
<1> QED
  BY <1>3, <1>4, <1>5 DEF Allocated, WellTyped

-----------------------------------------------------------------------------
\* The invariant of the tables

\* The entries of the kernel are those of the system page table.
KernelShared(s) ==
    \A q \in DOMAIN s.l1 : \A i \in L1Index :
        i >= KernelIndex => s.l1[q][i] = s.l1[SysPgtable][i]

\* Processes have second-level tables only, the system page table has none in
\* the user space.
UserEntries(s) ==
    \A q \in DOMAIN s.l1 : \A i \in L1Index : i < KernelIndex =>
        IF q = SysPgtable THEN \A t \in L2Table : s.l1[q][i] # Table(t)
                          ELSE s.l1[q][i] = Fault \/ \E t \in L2Table : s.l1[q][i] = Table(t)

\* The tables are those that an entry names, and only kernel entries share one.
NamesExist(s) ==
    \A q \in DOMAIN s.l1 : \A i \in L1Index : \A t : s.l1[q][i] = Table(t) => t \in DOMAIN s.l2

TablesNamed(s) ==
    \A t \in DOMAIN s.l2 : \E q \in DOMAIN s.l1 : \E i \in L1Index : s.l1[q][i] = Table(t)

NamesUnique(s) ==
    \A p, q \in DOMAIN s.l1 : \A i, k \in L1Index : \A t \in DOMAIN s.l2 :
        s.l1[p][i] = Table(t) /\ s.l1[q][k] = Table(t) => i = k /\ (p = q \/ i >= KernelIndex)

\* The tables of the kernel are in use, and its sections mapped.
KernelInUse(s) ==
    \A i \in L1Index : i >= KernelIndex =>
        /\ \A t : s.l1[SysPgtable][i] = Table(t) => \E j \in L2Index : s.l2[t][j] # 0
        /\ \A b : s.l1[SysPgtable][i] = Section(b) => \A j \in L2Index : PageAt(b, j) # 0

FixmapFree(s) == Translate(s, SysPgtable, FIXMAP_MAPPING) = 0

TablesOK(s) ==
    /\ WellTyped(s) /\ KernelShared(s) /\ UserEntries(s) /\ NamesExist(s) /\ TablesNamed(s)
    /\ NamesUnique(s) /\ KernelInUse(s) /\ FixmapFree(s)

\* The user pages of a process can be mapped.
LEMMA UserMappable ==
    ASSUME NEW s, TablesOK(s), NEW pg \in DOMAIN s.l1 \ {SysPgtable},
           NEW pages \in SUBSET UserPage
    PROVE  Mappable(s, pg, pages)
<1>1. \A i \in IndexesOf(pages) : i \in L1Index /\ i < KernelIndex
  <2>1. \A v \in pages : v \in Page /\ v \in UserPage
    BY UserInPage
  <2> QED
    BY <2>1, PageEntry, UserIndex DEF IndexesOf
<1> QED
  BY <1>1 DEF Mappable, TablesOK, UserEntries, NamesExist, NamesUnique

\* After pages of f were mapped in pg they translate as f says, and all other
\* pages as before.
LEMMA AllocatedTranslates ==
    ASSUME NEW s, WellTyped(s), NamesExist(s), NamesUnique(s), NEW pg \in DOMAIN s.l1, NEW f,
           DOMAIN f \subseteq Page, Mappable(s, pg, DOMAIN f),
           NEW new, NEW r, Allocated(s, pg, f, new, r),
           NEW q \in DOMAIN s.l1, q = pg \/ DOMAIN f \subseteq UserPage, NEW v \in Page
    PROVE  Translate(r, q, v) = IF q = pg /\ v \in DOMAIN f THEN f[v] ELSE Translate(s, q, v)
<1> DEFINE i == l1pte_index(v)
           j == v % TTB_L2_ENTRIES
           index == IndexesOf(DOMAIN f)
           need == Missing(s, pg, DOMAIN f)
<1>1. i \in L1Index /\ j \in L2Index /\ PageAt(i, j) = v
  BY PageEntry
<1>2. \A k \in index : k \in L1Index /\ (q = pg \/ k < KernelIndex)
  BY PageEntry, UserIndex DEF IndexesOf
<1>3. v \in DOMAIN f => i \in index
  BY DEF IndexesOf
<1>4. new \in [need -> L2Table \ DOMAIN s.l2] /\ need \subseteq index
  BY DEF Allocated, Injection, Missing
<1>5. \A k \in index : s.l1[pg][k] = Fault \/ \E t \in DOMAIN s.l2 : s.l1[pg][k] = Table(t)
  BY DEF Mappable
<1> HIDE DEF i, j, index, need
<1>6. ASSUME NEW t \in DOMAIN s.l2, s.l1[q][i] = Table(t), q # pg \/ i \notin index
      PROVE  r.l2[t] = s.l2[t]
  <2>1. \A k \in index : r.l1[pg][k] # Table(t)
    <3> SUFFICES ASSUME NEW k \in index, r.l1[pg][k] = Table(t) PROVE FALSE
      OBVIOUS
    <3>1. k \in L1Index /\ (q = pg \/ k < KernelIndex)
      BY <1>2
    <3>2. r.l1[pg][k] = IF k \in need THEN Table(new[k]) ELSE s.l1[pg][k]
      BY <3>1 DEF Allocated, need
    <3>3. k \notin need
      <4>1. k \in need => new[k] \notin DOMAIN s.l2
        BY <1>4
      <4> QED
        BY <3>2, <4>1, EntryForms
    <3>4. s.l1[pg][k] = Table(t)
      BY <3>2, <3>3
    <3>5. i = k /\ (q = pg \/ i >= KernelIndex)
      BY <1>1, <1>6, <3>1, <3>4 DEF NamesUnique
    <3>6. ~(i < KernelIndex /\ i >= KernelIndex)
      BY <1>1, PageTableAssumption DEF L1Index
    <3> QED
      BY <1>6, <3>1, <3>5, <3>6
  <2> QED
    BY <2>1 DEF Allocated, index
<1>7. CASE q # pg \/ i \notin index
  <2>1. r.l1[q][i] = s.l1[q][i]
    <3>1. i \notin index => i \notin need
      BY <1>4
    <3>2. CASE q # pg
      BY <3>2 DEF Allocated
    <3>3. CASE q = pg
      BY <1>1, <1>7, <3>1, <3>3 DEF Allocated, need
    <3> QED
      BY <3>2, <3>3
  <2>2. Translate(r, q, v) = Translate(s, q, v)
    <3>1. s.l1[q][i] \in Entry
      BY <1>1 DEF WellTyped
    <3>2. CASE s.l1[q][i] = Fault
      BY <2>1, <3>2, Walk DEF i
    <3>3. CASE \E b : s.l1[q][i] = Section(b)
      BY <2>1, <3>3, Walk DEF i, j
    <3>4. CASE \E t \in L2Table : s.l1[q][i] = Table(t)
      <4>1. PICK t : s.l1[q][i] = Table(t)
        BY <3>4
      <4>2. t \in DOMAIN s.l2
        BY <1>1, <4>1 DEF NamesExist
      <4>3. r.l2[t] = s.l2[t]
        BY <1>6, <1>7, <4>1, <4>2
      <4> QED
        BY <2>1, <4>1, <4>3, Walk DEF i, j
    <3> QED
      BY <3>1, <3>2, <3>3, <3>4 DEF Entry
  <2> QED
    BY <1>3, <1>7, <2>2
<1>8. CASE q = pg /\ i \in index
  <2>1. PICK t \in DOMAIN r.l2 : r.l1[pg][i] = Table(t)
    <3>1. CASE i \in need
      BY <1>1, <3>1 DEF Allocated, need
    <3>2. CASE i \notin need
      <4>1. s.l1[pg][i] # Fault
        BY <1>8, <3>2 DEF Missing, need, index
      <4>2. \E t \in DOMAIN s.l2 : s.l1[pg][i] = Table(t)
        BY <1>5, <1>8, <4>1
      <4> QED
        BY <1>1, <3>2, <4>2 DEF Allocated, need
    <3> QED
      BY <3>1, <3>2
  <2>2. Translate(r, q, v) = r.l2[t][j]
    BY <1>8, <2>1, Walk DEF i, j
  <2>3. r.l2[t][j] = IF v \in DOMAIN f THEN f[v] ELSE IF i \in need THEN 0 ELSE s.l2[t][j]
    <3>1. r.l2[t] = [m \in L2Index |-> IF PageAt(i, m) \in DOMAIN f THEN f[PageAt(i, m)]
                                       ELSE IF i \in need THEN 0 ELSE s.l2[t][m]]
      BY <1>8, <2>1 DEF Allocated, index, need
    <3> QED
      BY <1>1, <3>1
  <2>4. i \in need => Translate(s, q, v) = 0
    BY <1>8, Walk DEF Missing, need, i
  <2>5. i \notin need => Translate(s, q, v) = s.l2[t][j]
    <3> SUFFICES ASSUME i \notin need PROVE s.l1[q][i] = Table(t)
      BY <1>8, Walk DEF i, j
    <3> QED
      BY <1>1, <1>8, <2>1 DEF Allocated, need
  <2> QED
    BY <1>8, <2>2, <2>3, <2>4, <2>5
<1> QED
  BY <1>7, <1>8

\* The entry of a page, in the other direction.
LEMMA EntryOfPage ==
    ASSUME NEW i \in L1Index, NEW j \in L2Index
    PROVE  /\ PageAt(i, j) \in Page
           /\ l1pte_index(PageAt(i, j)) = i /\ PageAt(i, j) % TTB_L2_ENTRIES = j
<1> DEFINE n == TTB_L2_ENTRIES
           m == TTB_L1_ENTRIES
<1>1. n \in Nat \ {0} /\ m \in Nat /\ i \in Nat /\ i < m /\ j \in 0 .. n - 1
  BY PageTableAssumption DEF L1Index, L2Index
<1>2. i * n + n <= m * n
  BY <1>1, Multiples
<1>3. i * n \in Nat /\ m * n \in Nat
  BY <1>1
<1>4. PageAt(i, j) \in Page
  BY <1>1, <1>2, <1>3 DEF PageAt, Page
<1> QED
  BY <1>1, <1>4, EntryPage

\* The entries of the kernel are at or above KernelIndex, the others below.
LEMMA Indexes == ASSUME NEW i \in L1Index PROVE i \in Int /\ (i < KernelIndex <=> ~(i >= KernelIndex))
BY PageTableAssumption DEF L1Index

\* Mapping pages keeps the names of the tables in order.
LEMMA AllocatedNames ==
    ASSUME NEW s, WellTyped(s), NamesExist(s), TablesNamed(s), NamesUnique(s),
           NEW pg \in DOMAIN s.l1, NEW f, DOMAIN f \subseteq Page,
           NEW new, NEW r, Allocated(s, pg, f, new, r)
    PROVE  NamesExist(r) /\ TablesNamed(r) /\ NamesUnique(r)
<1> DEFINE index == IndexesOf(DOMAIN f)
           need == Missing(s, pg, DOMAIN f)
<1>1. \A k \in index : k \in L1Index
  BY PageEntry DEF IndexesOf
<1>2. new \in [need -> L2Table \ DOMAIN s.l2] /\ need \subseteq index
      /\ \A i, k \in need : new[i] = new[k] => i = k
  BY DEF Allocated, Injection, IsInjective, Missing
<1>3. /\ DOMAIN r.l1 = DOMAIN s.l1 /\ pg \in DOMAIN s.l1
      /\ \A q \in DOMAIN s.l1 : q # pg => r.l1[q] = s.l1[q]
      /\ \A i \in L1Index : r.l1[pg][i] = IF i \in need THEN Table(new[i]) ELSE s.l1[pg][i]
      /\ DOMAIN r.l2 = DOMAIN s.l2 \cup {new[i] : i \in need}
  BY DEF Allocated
<1> HIDE DEF index, need
<1>4. NamesExist(r)
  BY <1>3, EntryForms DEF NamesExist
<1>5. TablesNamed(r)
  <2> SUFFICES ASSUME NEW t \in DOMAIN r.l2
               PROVE  \E q \in DOMAIN r.l1 : \E i \in L1Index : r.l1[q][i] = Table(t)
    BY DEF TablesNamed
  <2>1. CASE t \in DOMAIN s.l2
    <3>1. PICK q \in DOMAIN s.l1, i \in L1Index : s.l1[q][i] = Table(t)
      BY <2>1 DEF TablesNamed
    <3>2. i \notin need \/ q # pg
      BY <3>1, EntryForms DEF need, Missing
    <3> QED
      BY <1>3, <3>1, <3>2
  <2>2. CASE t \notin DOMAIN s.l2
    <3>1. PICK i \in need : t = new[i]
      BY <1>3, <2>2
    <3> QED
      BY <1>1, <1>2, <1>3, <3>1
  <2> QED
    BY <2>1, <2>2
<1>6. NamesUnique(r)
  <2> SUFFICES ASSUME NEW p \in DOMAIN s.l1, NEW q \in DOMAIN s.l1,
                      NEW i \in L1Index, NEW k \in L1Index, NEW t \in DOMAIN r.l2,
                      r.l1[p][i] = Table(t), r.l1[q][k] = Table(t)
               PROVE  i = k /\ (p = q \/ i >= KernelIndex)
    BY <1>3 DEF NamesUnique
  <2>1. ASSUME NEW x \in DOMAIN s.l1, NEW m \in L1Index, r.l1[x][m] = Table(t)
        PROVE  IF t \in DOMAIN s.l2 THEN s.l1[x][m] = Table(t)
                                    ELSE x = pg /\ m \in need /\ new[m] = t
    <3>1. CASE x = pg /\ m \in need
      BY <1>2, <1>3, <2>1, <3>1, EntryForms
    <3>2. CASE ~(x = pg /\ m \in need)
      <4>1. s.l1[x][m] = Table(t)
        BY <1>3, <2>1, <3>2
      <4> QED
        BY <4>1 DEF NamesExist
    <3> QED
      BY <3>1, <3>2
  <2>2. CASE t \in DOMAIN s.l2
    BY <2>1, <2>2 DEF NamesUnique
  <2>3. CASE t \notin DOMAIN s.l2
    BY <1>2, <2>1, <2>3
  <2> QED
    BY <2>2, <2>3
<1> QED
  BY <1>4, <1>5, <1>6

\* Mapping user pages of a process keeps the invariant of the tables.
LEMMA AllocatedOK ==
    ASSUME NEW s, TablesOK(s), NEW pg \in DOMAIN s.l1 \ {SysPgtable}, NEW f,
           DOMAIN f \subseteq UserPage, \A v \in DOMAIN f : f[v] \in Frame,
           NEW new, NEW r, Allocated(s, pg, f, new, r)
    PROVE  TablesOK(r)
<1> DEFINE index == IndexesOf(DOMAIN f)
           need == Missing(s, pg, DOMAIN f)
<1>1. \A k \in index : k \in L1Index /\ k < KernelIndex
  <2>1. \A v \in DOMAIN f : v \in Page /\ v \in UserPage
    BY UserInPage
  <2> QED
    BY <2>1, PageEntry, UserIndex DEF IndexesOf
<1>2. new \in [need -> L2Table \ DOMAIN s.l2] /\ need \subseteq index
      /\ \A i, k \in need : new[i] = new[k] => i = k
  BY DEF Allocated, Injection, IsInjective, Missing
<1>3. /\ WellTyped(s) /\ KernelShared(s) /\ UserEntries(s) /\ NamesExist(s) /\ TablesNamed(s)
      /\ NamesUnique(s) /\ KernelInUse(s) /\ FixmapFree(s) /\ pg # SysPgtable
  BY DEF TablesOK
<1>4. /\ DOMAIN r.l1 = DOMAIN s.l1 /\ pg \in DOMAIN s.l1 /\ SysPgtable \in DOMAIN s.l1
      /\ \A q \in DOMAIN s.l1 : q # pg => r.l1[q] = s.l1[q]
      /\ \A i \in L1Index : r.l1[pg][i] = IF i \in need THEN Table(new[i]) ELSE s.l1[pg][i]
      /\ DOMAIN r.l2 = DOMAIN s.l2 \cup {new[i] : i \in need}
  BY <1>3 DEF Allocated, WellTyped
<1>5. WellTyped(r)
  <2>1. Mappable(s, pg, DOMAIN f) /\ DOMAIN f \subseteq Page
    BY UserMappable, UserInPage
  <2> QED
    BY <1>3, <2>1, AllocatedTyped
<1> HIDE DEF index, need
<1>6. \A q \in DOMAIN s.l1 : \A i \in L1Index : i >= KernelIndex => r.l1[q][i] = s.l1[q][i]
  BY <1>1, <1>2, <1>4, Indexes
<1>7. KernelShared(r)
  BY <1>3, <1>4, <1>6 DEF KernelShared
<1>8. UserEntries(r)
  <2>1. \A i \in need : new[i] \in L2Table
    BY <1>2
  <2> QED
    BY <1>3, <1>4, <2>1 DEF UserEntries
<1>9. NamesExist(r) /\ TablesNamed(r) /\ NamesUnique(r)
  <2>1. Mappable(s, pg, DOMAIN f) /\ DOMAIN f \subseteq Page
    BY UserMappable, UserInPage
  <2> QED
    BY <1>3, <2>1, AllocatedNames
<1>10. ASSUME NEW v \in Page PROVE Translate(r, SysPgtable, v) = Translate(s, SysPgtable, v)
  <2>1. Mappable(s, pg, DOMAIN f) /\ DOMAIN f \subseteq Page
    BY UserMappable, UserInPage
  <2> QED
    BY <1>3, <1>4, <2>1, AllocatedTranslates
<1>11. FixmapFree(r)
  BY <1>3, <1>10, LayoutAssumption DEF FixmapFree
<1>12. KernelInUse(r)
  <2> SUFFICES ASSUME NEW i \in L1Index, i >= KernelIndex
               PROVE  /\ \A t : r.l1[SysPgtable][i] = Table(t) => \E j \in L2Index : r.l2[t][j] # 0
                      /\ \A b : r.l1[SysPgtable][i] = Section(b) => \A j \in L2Index : PageAt(b, j) # 0
    BY DEF KernelInUse
  <2>1. r.l1[SysPgtable] = s.l1[SysPgtable]
    BY <1>3, <1>4
  <2>2. ASSUME NEW t, r.l1[SysPgtable][i] = Table(t) PROVE \E j \in L2Index : r.l2[t][j] # 0
    <3>1. PICK j \in L2Index : s.l2[t][j] # 0
      BY <1>3, <2>1, <2>2 DEF KernelInUse
    <3>2. Translate(r, SysPgtable, PageAt(i, j)) = r.l2[t][j]
          /\ Translate(s, SysPgtable, PageAt(i, j)) = s.l2[t][j]
      BY <2>1, <2>2, EntryOfPage, Walk
    <3> QED
      BY <1>10, <3>1, <3>2, EntryOfPage
  <2> QED
    BY <1>3, <2>1, <2>2 DEF KernelInUse
<1> QED
  BY <1>5, <1>7, <1>8, <1>9, <1>11, <1>12 DEF TablesOK

-----------------------------------------------------------------------------
\* The operations of mmu.c

\* alloc_init_pte() for user pages of a process.
LEMMA UserMapping ==
    ASSUME NEW s, TablesOK(s), NEW pg \in DOMAIN s.l1 \ {SysPgtable}, NEW f,
           DOMAIN f \subseteq UserPage, \A v \in DOMAIN f : f[v] \in Frame,
           HasRoom(s, pg, DOMAIN f)
    PROVE  LET r == alloc_init_pte(s, pg, f) IN
           /\ TablesOK(r) /\ DOMAIN r.l1 = DOMAIN s.l1
           /\ \A q \in DOMAIN s.l1 : \A v \in Page :
                Translate(r, q, v) = IF q = pg /\ v \in DOMAIN f THEN f[v] ELSE Translate(s, q, v)
<1> DEFINE r == alloc_init_pte(s, pg, f)
           new == NewTables(s, pg, DOMAIN f)
<1>1. WellTyped(s) /\ DOMAIN f \subseteq Page /\ Mappable(s, pg, DOMAIN f)
  BY UserMappable, UserInPage DEF TablesOK
<1>2. Allocated(s, pg, f, new, r)
  BY <1>1, Allocation
<1> HIDE DEF r, new
<1>3. TablesOK(r)
  BY <1>2, AllocatedOK
<1>4. DOMAIN r.l1 = DOMAIN s.l1
  BY <1>2 DEF Allocated
<1>5. \A q \in DOMAIN s.l1 : \A v \in Page :
        Translate(r, q, v) = IF q = pg /\ v \in DOMAIN f THEN f[v] ELSE Translate(s, q, v)
  BY <1>1, <1>2, AllocatedTranslates DEF TablesOK
<1> QED
  BY <1>3, <1>4, <1>5 DEF r

\* A new root table maps no user page, and shares the tables of the kernel.
LEMMA NewRoot ==
    ASSUME NEW s, TablesOK(s), NEW pg \in Pgtable, pg \notin DOMAIN s.l1
    PROVE  LET r == NewRootPgtable(s, pg) IN
           /\ TablesOK(r) /\ DOMAIN r.l1 = DOMAIN s.l1 \cup {pg}
           /\ \A q \in DOMAIN s.l1 : \A v \in Page : Translate(r, q, v) = Translate(s, q, v)
           /\ \A v \in UserPage : Translate(r, pg, v) = 0
<1> DEFINE r == NewRootPgtable(s, pg)
           root == [i \in L1Index |-> IF i < KernelIndex THEN Fault ELSE s.l1[SysPgtable][i]]
<1>1. /\ r.l1 = [q \in DOMAIN s.l1 \cup {pg} |-> IF q = pg THEN root ELSE s.l1[q]]
      /\ r.l2 = s.l2 /\ r = [l1 |-> r.l1, l2 |-> r.l2]
  <2>1. s = [l1 |-> s.l1, l2 |-> s.l2]
    BY DEF TablesOK, WellTyped
  <2>2. r = [s EXCEPT !.l1 = [q \in DOMAIN s.l1 \cup {pg} |-> IF q = pg THEN root ELSE s.l1[q]]]
    BY DEF NewRootPgtable
  <2> HIDE DEF root, r
  <2> QED
    BY <2>1, <2>2
<1>2. /\ DOMAIN r.l1 = DOMAIN s.l1 \cup {pg}
      /\ \A q \in DOMAIN s.l1 : r.l1[q] = s.l1[q]
      /\ r.l1[pg] = root
  BY <1>1
<1> HIDE DEF r
<1>3. /\ WellTyped(s) /\ KernelShared(s) /\ UserEntries(s) /\ NamesExist(s) /\ TablesNamed(s)
      /\ NamesUnique(s) /\ KernelInUse(s) /\ FixmapFree(s) /\ SysPgtable \in DOMAIN s.l1
      /\ pg # SysPgtable
  BY PageTableAssumption DEF TablesOK, WellTyped
<1>4. \A i \in L1Index : \/ i < KernelIndex /\ root[i] = Fault
                         \/ i >= KernelIndex /\ root[i] = s.l1[SysPgtable][i]
  <2> SUFFICES ASSUME NEW i \in L1Index
               PROVE  \/ i < KernelIndex /\ root[i] = Fault
                      \/ i >= KernelIndex /\ root[i] = s.l1[SysPgtable][i]
    OBVIOUS
  <2>1. root[i] = IF i < KernelIndex THEN Fault ELSE s.l1[SysPgtable][i]
    OBVIOUS
  <2> HIDE DEF root
  <2> QED
    BY <2>1, Indexes
<1>5. root \in [L1Index -> Entry]
  BY <1>3 DEF WellTyped, Entry
<1> HIDE DEF root
<1>6. WellTyped(r)
  <2>1. r.l1 \in [DOMAIN r.l1 -> [L1Index -> Entry]]
    BY <1>1, <1>3, <1>5 DEF WellTyped
  <2> QED
    BY <1>1, <1>2, <1>3, <2>1 DEF WellTyped
<1>7. KernelShared(r)
  BY <1>2, <1>3, <1>4, Indexes DEF KernelShared
<1>8. UserEntries(r)
  BY <1>2, <1>3, <1>4, Indexes DEF UserEntries
<1>9. NamesExist(r)
  BY <1>1, <1>2, <1>3, <1>4, EntryForms DEF NamesExist
<1>10. TablesNamed(r)
  BY <1>1, <1>2, <1>3 DEF TablesNamed
<1>11. NamesUnique(r)
  <2> SUFFICES ASSUME NEW p \in DOMAIN r.l1, NEW q \in DOMAIN r.l1,
                      NEW i \in L1Index, NEW k \in L1Index, NEW t \in DOMAIN s.l2,
                      r.l1[p][i] = Table(t), r.l1[q][k] = Table(t)
               PROVE  i = k /\ (p = q \/ i >= KernelIndex)
    <3>1. r.l2 = s.l2
      BY <1>1
    <3> QED
      BY <3>1 DEF NamesUnique
  <2>1. ASSUME NEW x \in DOMAIN r.l1, NEW m \in L1Index, r.l1[x][m] = Table(t)
        PROVE  IF x = pg THEN s.l1[SysPgtable][m] = Table(t) /\ m >= KernelIndex
                         ELSE x \in DOMAIN s.l1 /\ s.l1[x][m] = Table(t)
    BY <1>2, <1>4, <2>1, EntryForms
  <2> QED
    BY <1>3, <2>1 DEF NamesUnique
<1>12. KernelInUse(r)
  BY <1>1, <1>2, <1>3 DEF KernelInUse
<1>13. \A q \in DOMAIN s.l1 : \A v \in Page : Translate(r, q, v) = Translate(s, q, v)
  BY <1>1, <1>2 DEF Translate
<1>14. FixmapFree(r)
  BY <1>3, <1>13, LayoutAssumption DEF FixmapFree
<1>15. \A v \in UserPage : Translate(r, pg, v) = 0
  <2> SUFFICES ASSUME NEW v \in UserPage PROVE Translate(r, pg, v) = 0
    OBVIOUS
  <2>1. l1pte_index(v) \in L1Index /\ l1pte_index(v) < KernelIndex
    BY UserInPage, PageEntry, UserIndex
  <2> QED
    BY <1>2, <1>4, <2>1, Indexes, Walk
<1>16. TablesOK(r)
  BY <1>6, <1>7, <1>8, <1>9, <1>10, <1>11, <1>12, <1>14 DEF TablesOK
<1> QED
  BY <1>2, <1>13, <1>15, <1>16 DEF r

\* A reset leaves the other processes what they had, and pg, if it stays, no
\* user page.
LEMMA Reset ==
    ASSUME NEW s, TablesOK(s), NEW pg \in DOMAIN s.l1 \ {SysPgtable}, NEW remove \in BOOLEAN
    PROVE  LET r == reset_root_pgtable(s, pg, remove) IN
           /\ TablesOK(r)
           /\ DOMAIN r.l1 = IF remove THEN DOMAIN s.l1 \ {pg} ELSE DOMAIN s.l1
           /\ \A q \in DOMAIN s.l1 \ {pg} : \A v \in Page : Translate(r, q, v) = Translate(s, q, v)
           /\ ~remove => \A v \in UserPage : Translate(r, pg, v) = 0
<1> DEFINE user == 0 .. KernelIndex - 1
           freed == {t \in DOMAIN s.l2 : \E i \in user : s.l1[pg][i] = Table(t)}
           root == [i \in L1Index |-> IF i \in user THEN Fault ELSE s.l1[pg][i]]
           kept == IF remove THEN DOMAIN s.l1 \ {pg} ELSE DOMAIN s.l1
           r == reset_root_pgtable(s, pg, remove)
<1>1. /\ r.l1 = [q \in kept |-> IF q = pg THEN root ELSE s.l1[q]]
      /\ r.l2 = [t \in DOMAIN s.l2 \ freed |-> s.l2[t]]
      /\ r = [l1 |-> r.l1, l2 |-> r.l2]
  BY DEF reset_root_pgtable
<1>2. /\ DOMAIN r.l1 = kept /\ DOMAIN r.l2 = DOMAIN s.l2 \ freed
      /\ \A q \in kept \ {pg} : r.l1[q] = s.l1[q]
      /\ pg \in kept => r.l1[pg] = root
      /\ \A t \in DOMAIN r.l2 : r.l2[t] = s.l2[t]
  <2> HIDE DEF root, kept, freed, r
  <2> QED
    BY <1>1
<1>3. /\ WellTyped(s) /\ KernelShared(s) /\ UserEntries(s) /\ NamesExist(s) /\ TablesNamed(s)
      /\ NamesUnique(s) /\ KernelInUse(s) /\ FixmapFree(s) /\ SysPgtable \in DOMAIN s.l1
      /\ pg \in DOMAIN s.l1 /\ pg # SysPgtable
  BY DEF TablesOK, WellTyped
<1>4. \A i \in L1Index : i \in user <=> i < KernelIndex
  BY PageTableAssumption DEF L1Index
<1>5. \A i \in L1Index : \/ i < KernelIndex /\ root[i] = Fault
                         \/ i >= KernelIndex /\ root[i] = s.l1[pg][i]
  <2> SUFFICES ASSUME NEW i \in L1Index
               PROVE  \/ i < KernelIndex /\ root[i] = Fault
                      \/ i >= KernelIndex /\ root[i] = s.l1[pg][i]
    OBVIOUS
  <2>1. root[i] = IF i \in user THEN Fault ELSE s.l1[pg][i]
    OBVIOUS
  <2> HIDE DEF root, user
  <2> QED
    BY <1>4, <2>1, Indexes
<1>6. root \in [L1Index -> Entry]
  BY <1>3 DEF WellTyped, Entry
<1>7. kept \subseteq DOMAIN s.l1 /\ SysPgtable \in kept
      /\ \A q \in DOMAIN s.l1 : q # pg => q \in kept
  BY <1>3
<1>8. ASSUME NEW q \in DOMAIN s.l1, NEW i \in L1Index, NEW t, s.l1[q][i] = Table(t),
             q # pg \/ i >= KernelIndex
      PROVE  t \in DOMAIN r.l2
  <2>1. t \in DOMAIN s.l2
    BY <1>3, <1>8 DEF NamesExist
  <2>2. ASSUME NEW k \in user, s.l1[pg][k] = Table(t) PROVE FALSE
    <3>1. k \in L1Index /\ k < KernelIndex
      BY PageTableAssumption DEF L1Index
    <3>2. i = k /\ (q = pg \/ i >= KernelIndex)
      BY <1>3, <1>8, <2>1, <2>2, <3>1 DEF NamesUnique
    <3> QED
      BY <1>8, <3>1, <3>2, Indexes
  <2> QED
    BY <1>2, <2>1, <2>2
<1> HIDE DEF r, kept, root, freed, user
<1>9. WellTyped(r)
  <2>1. \A q \in DOMAIN r.l1 : r.l1[q] \in [L1Index -> Entry]
    BY <1>2, <1>3, <1>6, <1>7 DEF WellTyped
  <2>2. r.l1 \in [DOMAIN r.l1 -> [L1Index -> Entry]]
    BY <1>1, <2>1
  <2>3. r.l2 \in [DOMAIN r.l2 -> [L2Index -> Frame]]
    BY <1>1, <1>3 DEF WellTyped
  <2> QED
    BY <1>1, <1>2, <1>3, <1>7, <2>2, <2>3 DEF WellTyped
<1>10. KernelShared(r)
  BY <1>2, <1>3, <1>5, <1>7, Indexes DEF KernelShared
<1>11. UserEntries(r)
  BY <1>2, <1>3, <1>5, <1>7, Indexes DEF UserEntries
<1>12. NamesExist(r)
  BY <1>2, <1>3, <1>5, <1>7, <1>8, EntryForms DEF NamesExist
<1>13. TablesNamed(r)
  <2> SUFFICES ASSUME NEW t \in DOMAIN s.l2, t \notin freed
               PROVE  \E q \in DOMAIN r.l1 : \E i \in L1Index : r.l1[q][i] = Table(t)
    BY <1>2 DEF TablesNamed
  <2>1. PICK q \in DOMAIN s.l1, i \in L1Index : s.l1[q][i] = Table(t)
    BY <1>3 DEF TablesNamed
  <2>2. CASE q # pg
    BY <1>2, <1>7, <2>1, <2>2
  <2>3. CASE q = pg
    <3>1. i >= KernelIndex
      BY <1>4, <2>1, <2>3, Indexes DEF freed
    <3>2. s.l1[SysPgtable][i] = Table(t)
      BY <1>3, <2>1, <3>1 DEF KernelShared
    <3> QED
      BY <1>2, <1>3, <1>7, <3>2
  <2> QED
    BY <2>2, <2>3
<1>14. NamesUnique(r)
  <2> SUFFICES ASSUME NEW p \in DOMAIN r.l1, NEW q \in DOMAIN r.l1,
                      NEW i \in L1Index, NEW k \in L1Index, NEW t \in DOMAIN r.l2,
                      r.l1[p][i] = Table(t), r.l1[q][k] = Table(t)
               PROVE  i = k /\ (p = q \/ i >= KernelIndex)
    BY DEF NamesUnique
  <2>1. ASSUME NEW x \in DOMAIN r.l1, NEW m \in L1Index, r.l1[x][m] = Table(t)
        PROVE  x \in DOMAIN s.l1 /\ s.l1[x][m] = Table(t)
    BY <1>2, <1>5, <1>7, <2>1, EntryForms
  <2>2. t \in DOMAIN s.l2
    BY <1>2
  <2> QED
    BY <1>3, <2>1, <2>2 DEF NamesUnique
<1>15. KernelInUse(r)
  <2> SUFFICES ASSUME NEW i \in L1Index, i >= KernelIndex
               PROVE  /\ \A t : r.l1[SysPgtable][i] = Table(t) => \E j \in L2Index : r.l2[t][j] # 0
                      /\ \A b : r.l1[SysPgtable][i] = Section(b) => \A j \in L2Index : PageAt(b, j) # 0
    BY DEF KernelInUse
  <2>1. r.l1[SysPgtable] = s.l1[SysPgtable]
    BY <1>2, <1>3, <1>7
  <2>2. \A t : s.l1[SysPgtable][i] = Table(t) => t \in DOMAIN r.l2 /\ r.l2[t] = s.l2[t]
    BY <1>2, <1>3, <1>8
  <2> QED
    BY <1>3, <2>1, <2>2 DEF KernelInUse
<1>16. ASSUME NEW q \in DOMAIN s.l1 \ {pg}, NEW v \in Page
       PROVE  Translate(r, q, v) = Translate(s, q, v)
  <2> DEFINE i == l1pte_index(v)
  <2>1. i \in L1Index /\ r.l1[q][i] = s.l1[q][i] /\ s.l1[q][i] \in Entry
    BY <1>2, <1>3, <1>7, PageEntry DEF WellTyped
  <2>2. CASE \E t : s.l1[q][i] = Table(t)
    <3>1. PICK t : s.l1[q][i] = Table(t)
      BY <2>2
    <3>2. r.l2[t] = s.l2[t]
      BY <1>2, <1>8, <2>1, <3>1
    <3> QED
      BY <2>1, <3>1, <3>2, Walk
  <2>3. CASE s.l1[q][i] = Fault \/ \E b : s.l1[q][i] = Section(b)
    BY <2>1, <2>3, Walk
  <2> QED
    BY <2>1, <2>2, <2>3 DEF Entry
<1>17. FixmapFree(r)
  BY <1>3, <1>16, LayoutAssumption DEF FixmapFree
<1>18. ASSUME ~remove, NEW v \in UserPage PROVE Translate(r, pg, v) = 0
  <2>1. l1pte_index(v) \in L1Index /\ l1pte_index(v) < KernelIndex
    BY UserInPage, PageEntry, UserIndex
  <2>2. pg \in kept
    BY <1>3, <1>18 DEF kept
  <2> QED
    BY <1>2, <1>5, <2>1, <2>2, Indexes, Walk
<1>19. TablesOK(r)
  BY <1>9, <1>10, <1>11, <1>12, <1>13, <1>14, <1>15, <1>17 DEF TablesOK
<1> QED
  BY <1>2, <1>16, <1>18, <1>19 DEF r, kept

\* A range smaller than a section is mapped with pages.
LEMMA SmallRange ==
    ASSUME NEW v \in Nat, NEW p \in Nat, NEW n \in 1 .. TTB_L2_ENTRIES - 1
    PROVE  Whole(v, n) = {} /\ SmallPages(v, p, n) = v .. v + n - 1
<1> DEFINE N == TTB_L2_ENTRIES
<1>1. N \in Nat \ {0} /\ n < N
  BY PageTableAssumption
<1>2. l1pte_index(v) \in Int /\ l1pte_index(v + n - 1) \in Int
  BY <1>1 DEF l1pte_index
<1>3. ASSUME NEW i \in Int PROVE ~(v <= PageAt(i, 0) /\ PageAt(i + 1, 0) <= v + n)
  <2>1. (i + 1) * N = i * N + N /\ i * N \in Int
    BY <1>1
  <2> QED
    BY <1>1, <2>1 DEF PageAt
<1>4. Whole(v, n) = {}
  BY <1>2, <1>3 DEF Whole, Met
<1> QED
  BY <1>4 DEF SmallPages, Sections

LEMMA SmallMapping ==
    ASSUME NEW s, NEW pg, NEW v \in Nat, NEW p \in Nat, NEW n \in 1 .. TTB_L2_ENTRIES - 1,
           LET r == alloc_init_pte(s, pg, [w \in v .. v + n - 1 |-> p + w - v])
           IN  WellTyped(r) /\ pg \in DOMAIN r.l1
    PROVE  create_mapping(s, pg, v, p, n) = alloc_init_pte(s, pg, [w \in v .. v + n - 1 |-> p + w - v])
<1> DEFINE r == alloc_init_pte(s, pg, [w \in v .. v + n - 1 |-> p + w - v])
           m == create_mapping(s, pg, v, p, n)
<1>1. Sections(v, p, n) = {} /\ SmallPages(v, p, n) = v .. v + n - 1
  BY SmallRange DEF Sections
<1>2. m = [r EXCEPT !.l1[pg] = [i \in L1Index |-> IF i \in {} THEN Section(l1pte_index(p - v + PageAt(i, 0)))
                                                             ELSE @[i]]]
  BY <1>1 DEF create_mapping
<1>3. r.l1 \in [DOMAIN r.l1 -> [L1Index -> Entry]] /\ r = [l1 |-> r.l1, l2 |-> r.l2] /\ pg \in DOMAIN r.l1
  BY DEF WellTyped
<1> HIDE DEF r, m
<1>4. [r.l1 EXCEPT ![pg] = [i \in L1Index |-> IF i \in {} THEN Section(l1pte_index(p - v + PageAt(i, 0)))
                                                         ELSE @[i]]] = r.l1
  BY <1>3
<1>5. m = [r EXCEPT !.l1 = r.l1]
  BY <1>2, <1>4
<1>6. m = r
  BY <1>3, <1>5
<1> QED
  BY <1>6 DEF m, r

\* The fixmap entry can be set, in every root table.
LEMMA FixmapMappable ==
    ASSUME NEW s, TablesOK(s), NEW pg \in DOMAIN s.l1
    PROVE  LET i == l1pte_index(FIXMAP_MAPPING)
               j == FIXMAP_MAPPING % TTB_L2_ENTRIES
           IN  /\ i \in L1Index /\ j \in L2Index /\ PageAt(i, j) = FIXMAP_MAPPING
               /\ \/ s.l1[pg][i] = Fault
                  \/ \E t \in DOMAIN s.l2 : /\ s.l1[pg][i] = Table(t) /\ s.l2[t][j] = 0
                                            /\ \E k \in L2Index : s.l2[t][k] # 0
               /\ Mappable(s, pg, {FIXMAP_MAPPING})
<1> DEFINE i == l1pte_index(FIXMAP_MAPPING)
           j == FIXMAP_MAPPING % TTB_L2_ENTRIES
<1>1. FIXMAP_MAPPING \in Page /\ FIXMAP_MAPPING \notin UserPage
  BY LayoutAssumption
<1>2. i \in L1Index /\ j \in L2Index /\ PageAt(i, j) = FIXMAP_MAPPING
  BY <1>1, PageEntry
<1>3. i >= KernelIndex
  BY <1>1, <1>2, UserIndex, Indexes
<1>4. s.l1[pg][i] = s.l1[SysPgtable][i] /\ s.l1[SysPgtable][i] \in Entry
  BY <1>2, <1>3 DEF TablesOK, KernelShared, WellTyped
<1>5. \A b : s.l1[SysPgtable][i] # Section(b)
  <2> SUFFICES ASSUME NEW b, s.l1[SysPgtable][i] = Section(b) PROVE FALSE
    OBVIOUS
  <2>1. Translate(s, SysPgtable, FIXMAP_MAPPING) = PageAt(b, j)
    BY Walk
  <2> QED
    BY <1>2, <1>3, <2>1 DEF TablesOK, KernelInUse, FixmapFree
<1>6. ASSUME NEW t, s.l1[SysPgtable][i] = Table(t)
      PROVE  t \in DOMAIN s.l2 /\ s.l2[t][j] = 0 /\ \E k \in L2Index : s.l2[t][k] # 0
  <2>1. t \in DOMAIN s.l2 /\ \E k \in L2Index : s.l2[t][k] # 0
    BY <1>2, <1>3, <1>6 DEF TablesOK, KernelInUse, NamesExist, WellTyped
  <2>2. Translate(s, SysPgtable, FIXMAP_MAPPING) = s.l2[t][j]
    BY <1>6, Walk
  <2> QED
    BY <2>1, <2>2 DEF TablesOK, FixmapFree
<1> HIDE DEF i, j
<1>7. \/ s.l1[pg][i] = Fault
      \/ \E t \in DOMAIN s.l2 : /\ s.l1[pg][i] = Table(t) /\ s.l2[t][j] = 0
                                /\ \E k \in L2Index : s.l2[t][k] # 0
  BY <1>4, <1>5, <1>6 DEF Entry
<1>8. IndexesOf({FIXMAP_MAPPING}) = {i}
  BY DEF IndexesOf, i
<1>9. Mappable(s, pg, {FIXMAP_MAPPING})
  BY <1>7, <1>8 DEF Mappable
<1> QED
  BY <1>2, <1>7, <1>9 DEF i, j

\* Setting the fixmap entry and releasing it leaves the tables as they were.
LEMMA FixmapReleased ==
    ASSUME NEW s, TablesOK(s), NEW pg \in DOMAIN s.l1, NEW p,
           HasRoom(s, pg, {FIXMAP_MAPPING})
    PROVE  release_mapping(alloc_init_pte(s, pg, [v \in {FIXMAP_MAPPING} |-> p]),
                           pg, FIXMAP_MAPPING, 1) = s
<1> DEFINE x == FIXMAP_MAPPING
           i == l1pte_index(x)
           j == x % TTB_L2_ENTRIES
           f == [v \in {x} |-> p]
           new == NewTables(s, pg, {x})
           need == Missing(s, pg, {x})
           a == alloc_init_pte(s, pg, f)
           r == release_mapping(a, pg, x, 1)
           Cleared(k) == [m \in L2Index |-> IF PageAt(k, m) \in x .. x + 1 - 1
                                            THEN 0 ELSE a.l2[a.l1[pg][k].at][m]]
           empty == {k \in {i} : Cleared(k) = EmptyTable}
           of(t) == {k \in {i} : a.l1[pg][k] = Table(t)}
           Form(part, whole) ==
               LET Zeroed(k) == [m \in L2Index |-> IF PageAt(k, m) \in x .. x + 1 - 1
                                                   THEN 0 ELSE a.l2[a.l1[pg][k].at][m]]
                   none == {k \in part : Zeroed(k) = EmptyTable}
                   at(t) == {k \in part : a.l1[pg][k] = Table(t)}
               IN  [l1 |-> [a.l1 EXCEPT ![pg] = [k \in L1Index |-> IF k \in whole \cup none
                                                                   THEN Fault ELSE @[k]]],
                    l2 |-> [t \in {t \in DOMAIN a.l2 : at(t) \cap none = {}} |->
                              IF at(t) = {} THEN a.l2[t] ELSE Zeroed(CHOOSE k \in at(t) : TRUE)]]
<1>1. /\ WellTyped(s) /\ x \in Nat /\ i \in L1Index /\ j \in L2Index /\ PageAt(i, j) = x
      /\ {x} \subseteq Page
  BY FixmapMappable, LayoutAssumption, PageEntry DEF TablesOK
<1>2. Allocated(s, pg, f, new, a)
  <2>1. Mappable(s, pg, {x}) /\ DOMAIN f = {x}
    BY FixmapMappable
  <2> QED
    BY <1>1, <2>1, Allocation
<1>3. IndexesOf({x}) = {i}
  BY DEF IndexesOf
<1>4. Met(x, 1) = {i} /\ x .. x + 1 - 1 = {x} /\ Whole(x, 1) = {}
  <2>1. x + 1 - 1 = x /\ 1 \in 1 .. TTB_L2_ENTRIES - 1
    BY <1>1, PageTableAssumption
  <2>2. i .. i = {i}
    BY <1>1, Indexes
  <2> QED
    BY <1>1, <2>1, <2>2, SmallRange DEF Met
<1>5. \A m \in L2Index : PageAt(i, m) = x <=> m = j
  BY <1>1, EntryOfPage
<1>6. r = [l1 |-> [a.l1 EXCEPT ![pg] = [k \in L1Index |-> IF k \in {} \cup empty THEN Fault ELSE @[k]]],
           l2 |-> [t \in {t \in DOMAIN a.l2 : of(t) \cap empty = {}} |->
                     IF of(t) = {} THEN a.l2[t] ELSE Cleared(CHOOSE k \in of(t) : TRUE)]]
  <2>1. Met(x, 1) \ Whole(x, 1) = {i}
    BY <1>4
  <2>2. r = Form(Met(x, 1) \ Whole(x, 1), Whole(x, 1))
    BY DEF release_mapping
  <2>3. r = Form({i}, {})
    <3> HIDE DEF Form, r
    <3> QED
      BY <1>4, <2>1, <2>2
  <2> HIDE DEF a, r
  <2> QED
    BY <2>3
<1>7. Cleared(i) = [m \in L2Index |-> IF m = j THEN 0 ELSE a.l2[a.l1[pg][i].at][m]]
  <2> HIDE DEF a
  <2> QED
    BY <1>4, <1>5
<1>8. /\ a = [l1 |-> a.l1, l2 |-> a.l2] /\ DOMAIN a.l1 = DOMAIN s.l1
      /\ a.l1 = [q \in DOMAIN s.l1 |-> a.l1[q]] /\ a.l2 = [t \in DOMAIN a.l2 |-> a.l2[t]]
      /\ \A q \in DOMAIN s.l1 : q # pg => a.l1[q] = s.l1[q]
      /\ a.l1[pg] = [k \in L1Index |-> IF k \in need THEN Table(new[k]) ELSE s.l1[pg][k]]
      /\ DOMAIN a.l2 = DOMAIN s.l2 \cup {new[k] : k \in need}
      /\ new \in [need -> L2Table \ DOMAIN s.l2]
  <2>1. DOMAIN f = {x}
    OBVIOUS
  <2> HIDE DEF a, new, i, x, f
  <2> QED
    BY <1>2, <2>1 DEF Allocated, Injection, need
<1>9. ASSUME NEW t \in DOMAIN a.l2, a.l1[pg][i] = Table(t), NEW m \in L2Index
       PROVE  a.l2[t][m] = IF PageAt(i, m) = x THEN p ELSE IF i \in need THEN 0 ELSE s.l2[t][m]
  <2>1. DOMAIN f = {x} /\ f[x] = p
    OBVIOUS
  <2> HIDE DEF a, new, i, x, f
  <2>2. a.l2[t] = [n \in L2Index |-> IF PageAt(i, n) \in DOMAIN f THEN f[PageAt(i, n)]
                                     ELSE IF i \in Missing(s, pg, DOMAIN f) THEN 0 ELSE s.l2[t][n]]
    <3>1. i \in IndexesOf(DOMAIN f)
      BY <1>3, <2>1
    <3> QED
      BY <1>2, <1>9, <3>1 DEF Allocated
  <2>3. a.l2[t][m] = IF PageAt(i, m) \in DOMAIN f THEN f[PageAt(i, m)]
                     ELSE IF i \in Missing(s, pg, DOMAIN f) THEN 0 ELSE s.l2[t][m]
    BY <2>2
  <2> QED
    BY <2>1, <2>3 DEF need
<1>10. ASSUME NEW t \in DOMAIN s.l2, a.l1[pg][i] # Table(t)
       PROVE  a.l2[t] = s.l2[t]
  <2>1. DOMAIN f = {x}
    OBVIOUS
  <2>2. \A k \in IndexesOf(DOMAIN f) : a.l1[pg][k] # Table(t)
    <3> HIDE DEF a, new, i, x, f
    <3> QED
      BY <1>3, <1>10, <2>1
  <2> HIDE DEF a, new, i, x, f
  <2> QED
    BY <1>2, <2>2 DEF Allocated
<1>11. need = IF s.l1[pg][i] = Fault THEN {i} ELSE {}
  BY <1>3 DEF Missing
<1>12. /\ s = [l1 |-> s.l1, l2 |-> s.l2]
       /\ s.l1 \in [DOMAIN s.l1 -> [L1Index -> Entry]] /\ s.l2 \in [DOMAIN s.l2 -> [L2Index -> Frame]]
       /\ s.l1[pg] \in [L1Index -> Entry]
  BY <1>1 DEF WellTyped
<1>13. SUFFICES r.l1 = s.l1 /\ r.l2 = s.l2
  <2>1. r = [l1 |-> r.l1, l2 |-> r.l2]
    <3> HIDE DEF a, Cleared, empty, of, r
    <3> QED
      BY <1>6
  <2> HIDE DEF r
  <2> QED
    BY <1>12, <2>1 DEF r
<1>14. /\ r.l1 = [a.l1 EXCEPT ![pg] = [k \in L1Index |-> IF k \in {} \cup empty THEN Fault ELSE @[k]]]
       /\ r.l2 = [t \in {t \in DOMAIN a.l2 : of(t) \cap empty = {}} |->
                    IF of(t) = {} THEN a.l2[t] ELSE Cleared(CHOOSE k \in of(t) : TRUE)]
  <2> HIDE DEF a, Cleared, empty, of, r
  <2> QED
    BY <1>6
<1>15. empty = IF Cleared(i) = EmptyTable THEN {i} ELSE {}
  OBVIOUS
<1>16. \A t : of(t) = IF a.l1[pg][i] = Table(t) THEN {i} ELSE {}
  OBVIOUS
<1>17. \A t : of(t) # {} => Cleared(CHOOSE k \in of(t) : TRUE) = Cleared(i)
  <2> SUFFICES ASSUME NEW t, of(t) # {} PROVE (CHOOSE k \in of(t) : TRUE) = i
    <3> HIDE DEF of, Cleared
    <3> QED
      OBVIOUS
  <2>1. of(t) = {i}
    BY <1>16
  <2> HIDE DEF of
  <2> QED
    BY <2>1
<1> DEFINE c == Cleared(i)
<1>18. c = [m \in L2Index |-> IF m = j THEN 0 ELSE a.l2[a.l1[pg][i].at][m]]
  BY <1>7
<1>19. r.l2 = [t \in {t \in DOMAIN a.l2 : of(t) \cap empty = {}} |-> IF of(t) = {} THEN a.l2[t] ELSE c]
  <2> HIDE DEF a, Cleared, empty, of, r
  <2> QED
    BY <1>14, <1>17 DEF c
<1>20. empty = IF c = EmptyTable THEN {i} ELSE {}
  BY <1>15
<1> HIDE DEF x, i, j, f, new, need, a, r, Cleared, empty, of, c, Form
<1>21. CASE s.l1[pg][i] = Fault
  <2> DEFINE t == new[i]
  <2>1. need = {i} /\ a.l1[pg][i] = Table(t) /\ t \notin DOMAIN s.l2 /\ t \in DOMAIN a.l2
        /\ DOMAIN a.l2 = DOMAIN s.l2 \cup {t}
    BY <1>1, <1>8, <1>11, <1>21
  <2> HIDE DEF t
  <2>2. \A m \in L2Index : a.l2[t][m] = IF PageAt(i, m) = x THEN p ELSE 0
    BY <1>1, <1>9, <2>1
  <2>3. c = EmptyTable
    BY <1>5, <1>18, <2>1, <2>2, EntryForms DEF EmptyTable
  <2>4. empty = {i}
    BY <1>20, <2>3
  <2>5. r.l1[pg] = s.l1[pg]
    <3>1. \A k \in L1Index : r.l1[pg][k] = IF k = i THEN Fault ELSE a.l1[pg][k]
      BY <1>8, <1>14, <2>4
    <3>2. \A k \in L1Index : r.l1[pg][k] = s.l1[pg][k]
      BY <1>8, <1>21, <2>1, <3>1
    <3>3. r.l1[pg] = [k \in L1Index |-> r.l1[pg][k]]
      BY <1>8, <1>14
    <3> QED
      BY <1>12, <3>2, <3>3
  <2>6. r.l1 = s.l1
    BY <1>8, <1>12, <1>14, <2>5
  <2>7. {u \in DOMAIN a.l2 : of(u) \cap empty = {}} = DOMAIN s.l2
    <3>1. \A u : u # t => of(u) = {}
      BY <1>16, <2>1, EntryForms
    <3>2. of(t) = {i}
      BY <1>16, <2>1
    <3> QED
      BY <2>1, <2>4, <3>1, <3>2
  <2>8. ASSUME NEW u \in DOMAIN s.l2 PROVE of(u) = {} /\ a.l2[u] = s.l2[u]
    <3>1. a.l1[pg][i] # Table(u)
      BY <2>1, <2>8, EntryForms
    <3> QED
      BY <1>16, <1>10, <3>1
  <2>9. r.l2 = s.l2
    BY <1>12, <1>19, <2>7, <2>8
  <2> QED
    BY <2>6, <2>9
<1>22. ASSUME NEW t \in DOMAIN s.l2, s.l1[pg][i] = Table(t), s.l2[t][j] = 0,
              \E k \in L2Index : s.l2[t][k] # 0
       PROVE  r.l1 = s.l1 /\ r.l2 = s.l2
  <2>1. need = {}
    BY <1>11, <1>22, EntryForms
  <2>2. a.l1 = s.l1 /\ DOMAIN a.l2 = DOMAIN s.l2
    <3>1. a.l1[pg] = s.l1[pg]
      BY <1>8, <1>12, <2>1
    <3> QED
      BY <1>8, <1>12, <2>1, <3>1
  <2>3. \A m \in L2Index : a.l2[t][m] = IF PageAt(i, m) = x THEN p ELSE s.l2[t][m]
    BY <1>22, <1>9, <2>1, <2>2
  <2>4. c = s.l2[t]
    <3>1. a.l1[pg][i].at = t
      BY <1>22, <2>2, EntryForms
    <3>2. \A m \in L2Index : c[m] = s.l2[t][m]
      BY <1>5, <1>18, <1>22, <2>3, <3>1
    <3> QED
      BY <1>12, <1>18, <3>2
  <2>5. c # EmptyTable
    BY <1>22, <2>4 DEF EmptyTable
  <2>6. empty = {}
    BY <1>20, <2>5
  <2>7. r.l1 = s.l1
    BY <1>8, <1>12, <1>14, <2>2, <2>6
  <2>8. \A u \in DOMAIN s.l2 : (of(u) # {} => u = t) /\ (of(u) = {} => a.l2[u] = s.l2[u])
    BY <1>16, <1>22, <1>10, <2>2, EntryForms
  <2>9. r.l2 = s.l2
    BY <1>12, <1>19, <2>2, <2>4, <2>6, <2>8
  <2> QED
    BY <2>7, <2>9
<1> QED
  BY <1>21, <1>22, FixmapMappable DEF i, j, x

\* A section of a range: the pages it maps are of the range, on both sides.
LEMMA SectionPages ==
    ASSUME NEW v \in Nat, NEW p \in Nat, NEW n \in Nat \ {0}, NEW i \in Sections(v, p, n),
           NEW j \in L2Index
    PROVE  LET b == l1pte_index(p - v + PageAt(i, 0)) IN
           /\ i \in Int /\ b \in Int
           /\ PageAt(i, j) \in v .. v + n - 1 /\ PageAt(b, j) \in p .. p + n - 1
<1> DEFINE N == TTB_L2_ENTRIES
           d == p - v
           c == d \div N
           b == l1pte_index(d + PageAt(i, 0))
<1>1. N \in Nat \ {0} /\ j \in 0 .. N - 1 /\ d \in Int
  BY PageTableAssumption DEF L2Index
<1>2. i \in Int /\ d % N = 0 /\ v <= i * N + 0 /\ (i + 1) * N + 0 <= v + n
  <2>1. l1pte_index(v) \in Int /\ l1pte_index(v + n - 1) \in Int
    BY <1>1 DEF l1pte_index
  <2> QED
    BY <2>1 DEF Sections, Whole, Met, PageAt
<1> HIDE DEF d
<1>3. c \in Int /\ d = c * N
  BY <1>1, <1>2
<1> HIDE DEF c
<1>4. d + (i * N + 0) = (c + i) * N + 0 /\ c + i \in Int /\ i * N \in Int /\ (i + 1) * N = i * N + N
  BY <1>1, <1>2, <1>3
<1>5. b = c + i
  <2>1. 0 \in L2Index
    BY PageTableAssumption DEF L2Index
  <2>2. l1pte_index(PageAt(c + i, 0)) = c + i
    BY <1>4, <2>1, EntryPage
  <2>3. d + PageAt(i, 0) = PageAt(c + i, 0)
    BY <1>4 DEF PageAt
  <2> QED
    BY <2>2, <2>3
<1>6. PageAt(i, j) = i * N + j /\ PageAt(b, j) = d + i * N + j
  BY <1>1, <1>3, <1>4, <1>5 DEF PageAt
<1>7. i * N + j \in v .. v + n - 1
  BY <1>1, <1>2, <1>4
<1>8. d + i * N + j \in p .. p + n - 1
  BY <1>1, <1>2, <1>4 DEF d
<1> QED
  BY <1>2, <1>4, <1>5, <1>6, <1>7, <1>8 DEF d

\* create_mapping() of a range of the system page table where nothing is mapped.
LEMMA IoMapping ==
    ASSUME NEW s, TablesOK(s), DOMAIN s.l1 = {SysPgtable}, NEW r \in IoRanges,
           \A v \in r[1] .. r[1] + r[3] - 1 : Translate(s, SysPgtable, v) = 0,
           HasRoom(s, SysPgtable, SmallPages(r[1], r[2], r[3]))
    PROVE  LET m == create_mapping(s, SysPgtable, r[1], r[2], r[3]) IN
           TablesOK(m) /\ DOMAIN m.l1 = {SysPgtable}
<1> DEFINE v == r[1]
           p == r[2]
           n == r[3]
           R == v .. v + n - 1
           P == SmallPages(v, p, n)
           S == Sections(v, p, n)
           f == [w \in P |-> p + w - v]
           new == NewTables(s, SysPgtable, P)
           need == Missing(s, SysPgtable, P)
           index == IndexesOf(P)
           a == alloc_init_pte(s, SysPgtable, f)
           m == create_mapping(s, SysPgtable, v, p, n)
           base(i) == l1pte_index(p - v + PageAt(i, 0))
<1>1. /\ v \in Nat /\ p \in Nat /\ n \in Nat \ {0} /\ R \subseteq Page
      /\ \A w \in R : w \notin UserPage /\ w # FIXMAP_MAPPING
      /\ p .. p + n - 1 \subseteq Device
  BY LayoutAssumption DEF Device
<1>2. /\ WellTyped(s) /\ KernelShared(s) /\ UserEntries(s) /\ NamesExist(s) /\ TablesNamed(s)
      /\ NamesUnique(s) /\ KernelInUse(s) /\ FixmapFree(s) /\ SysPgtable \in DOMAIN s.l1
  BY DEF TablesOK, WellTyped
<1>3. P \subseteq R /\ \A w \in P : f[w] \in Device /\ f[w] \in Frame /\ f[w] # 0
  <2> SUFFICES ASSUME NEW w \in P PROVE w \in R /\ p + w - v \in p .. p + n - 1
    BY <1>1, PageTableAssumption DEF Frame
  <2>1. w \in R
    BY DEF SmallPages
  <2> HIDE DEF v, p, n
  <2> QED
    BY <1>1, <2>1
<1>4. \A i \in index : i \in L1Index /\ i >= KernelIndex /\ i \notin S
                       /\ \E j \in L2Index : PageAt(i, j) \in P
  <2> SUFFICES ASSUME NEW w \in P
               PROVE  LET i == l1pte_index(w) IN
                      i \in L1Index /\ i >= KernelIndex /\ i \notin S
                      /\ \E j \in L2Index : PageAt(i, j) \in P
    BY DEF IndexesOf
  <2>1. w \in Page /\ w \notin UserPage /\ l1pte_index(w) \notin S
    BY <1>1, <1>3 DEF SmallPages
  <2> QED
    BY <2>1, PageEntry, UserIndex, Indexes
<1>5. Mappable(s, SysPgtable, P)
  <2>1. ASSUME NEW i \in index
        PROVE  s.l1[SysPgtable][i] = Fault \/ \E t \in DOMAIN s.l2 : s.l1[SysPgtable][i] = Table(t)
    <3>1. PICK j \in L2Index : PageAt(i, j) \in P
      BY <1>4
    <3>2. i \in L1Index /\ i >= KernelIndex
      BY <1>4
    <3>3. Translate(s, SysPgtable, PageAt(i, j)) = 0
      BY <1>3, <3>1
    <3>4. \A b : s.l1[SysPgtable][i] # Section(b)
      BY <1>2, <3>2, <3>3, EntryOfPage, Walk DEF KernelInUse
    <3>5. s.l1[SysPgtable][i] \in Entry
      BY <1>2, <3>2 DEF WellTyped
    <3> QED
      BY <1>2, <3>2, <3>4, <3>5 DEF Entry, NamesExist
  <2> HIDE DEF P
  <2> QED
    BY <1>2, <1>4, <2>1 DEF Mappable, NamesUnique
<1>6. DOMAIN f = P /\ P \subseteq Page
  BY <1>1, <1>3
<1> HIDE DEF f
<1>7. Allocated(s, SysPgtable, f, new, a)
  BY <1>2, <1>5, <1>6, Allocation
<1> HIDE DEF a, new
<1>8. WellTyped(a) /\ NamesExist(a) /\ TablesNamed(a) /\ NamesUnique(a)
  BY <1>2, <1>3, <1>5, <1>6, <1>7, AllocatedTyped, AllocatedNames
<1>9. ASSUME NEW w \in Page
      PROVE  Translate(a, SysPgtable, w) = IF w \in P THEN f[w] ELSE Translate(s, SysPgtable, w)
  BY <1>2, <1>5, <1>6, <1>7, AllocatedTranslates
<1>10. /\ DOMAIN a.l1 = {SysPgtable} /\ a.l1 = [q \in {SysPgtable} |-> a.l1[q]]
       /\ a = [l1 |-> a.l1, l2 |-> a.l2]
       /\ \A i \in L1Index : a.l1[SysPgtable][i] = IF i \in need THEN Table(new[i])
                                                   ELSE s.l1[SysPgtable][i]
       /\ need \subseteq index
  BY <1>6, <1>7 DEF Allocated, Missing
<1>11. ASSUME NEW i \in S
       PROVE  /\ i \in L1Index /\ i >= KernelIndex /\ i \notin need
              /\ s.l1[SysPgtable][i] = Fault /\ base(i) \in SectionBase
              /\ \A j \in L2Index : PageAt(i, j) \in R /\ PageAt(base(i), j) # 0
  <2> HIDE DEF S, base
  <2>1. ASSUME NEW j \in L2Index
        PROVE  /\ i \in Int /\ base(i) \in Int
               /\ PageAt(i, j) \in R /\ PageAt(base(i), j) \in Device
    BY <1>1, <2>1, SectionPages DEF S, base
  <2>2. 0 \in L2Index
    BY PageTableAssumption DEF L2Index
  <2>3. i \in L1Index /\ i >= KernelIndex
    <3>1. PageAt(i, 0) \in Page /\ PageAt(i, 0) \notin UserPage /\ l1pte_index(PageAt(i, 0)) = i
      BY <1>1, <2>1, <2>2, EntryPage
    <3> QED
      BY <3>1, PageEntry, UserIndex, Indexes
  <2>4. base(i) \in SectionBase
    <3>1. base(i) = PageAt(base(i), 0) \div TTB_L2_ENTRIES
      BY <2>1, <2>2, EntryPage DEF l1pte_index
    <3> QED
      BY <2>1, <2>2, <3>1 DEF SectionBase
  <2>5. \A j \in L2Index : Translate(s, SysPgtable, PageAt(i, j)) = 0
    BY <2>1
  <2>6. s.l1[SysPgtable][i] = Fault
    <3>1. s.l1[SysPgtable][i] \in Entry
      BY <1>2, <2>3 DEF WellTyped
    <3>2. \A b : s.l1[SysPgtable][i] # Section(b)
      BY <1>2, <2>2, <2>3, <2>5, EntryOfPage, Walk DEF KernelInUse
    <3>3. \A t : s.l1[SysPgtable][i] # Table(t)
      BY <1>2, <2>3, <2>5, EntryOfPage, Walk DEF KernelInUse
    <3> QED
      BY <3>1, <3>2, <3>3 DEF Entry
  <2>7. i \notin need
    BY <1>4, <1>10
  <2> QED
    BY <2>1, <2>3, <2>4, <2>6, <2>7, PageTableAssumption
<1>12. /\ m.l1 = [a.l1 EXCEPT ![SysPgtable] = [i \in L1Index |-> IF i \in S THEN Section(base(i))
                                                                    ELSE @[i]]]
       /\ m.l2 = a.l2 /\ m = [l1 |-> m.l1, l2 |-> m.l2]
  <2>1. m = [a EXCEPT !.l1[SysPgtable] = [i \in L1Index |-> IF i \in S THEN Section(base(i))
                                                              ELSE @[i]]]
    BY DEF create_mapping, a, f
  <2> HIDE DEF m, S, base
  <2> QED
    BY <1>10, <2>1
<1>13. /\ DOMAIN m.l1 = {SysPgtable} /\ m.l1 = [q \in {SysPgtable} |-> m.l1[q]]
       /\ m.l1[SysPgtable] = [i \in L1Index |-> m.l1[SysPgtable][i]]
       /\ \A i \in L1Index : m.l1[SysPgtable][i] = IF i \in S THEN Section(base(i))
                                                   ELSE a.l1[SysPgtable][i]
  <2> HIDE DEF m, S, base
  <2> QED
    BY <1>10, <1>12
<1> HIDE DEF v, p, n, R, P, S, need, index, m, base
<1>14. WellTyped(m)
  <2>1. m.l1[SysPgtable] \in [L1Index -> Entry]
    <3>1. \A i \in L1Index : m.l1[SysPgtable][i] \in Entry
      <4>1. \A i \in L1Index : a.l1[SysPgtable][i] \in Entry
        BY <1>8, <1>10 DEF WellTyped
      <4>2. \A i \in S : Section(base(i)) \in Entry
        BY <1>11 DEF Entry
      <4> QED
        BY <1>13, <4>1, <4>2
    <3> QED
      BY <1>13, <3>1
  <2>2. m.l1 \in [DOMAIN m.l1 -> [L1Index -> Entry]]
    BY <1>13, <2>1
  <2> QED
    BY <1>2, <1>8, <1>12, <1>13, <2>2 DEF WellTyped
<1>15. \A i \in L1Index : \A t : m.l1[SysPgtable][i] = Table(t) <=> a.l1[SysPgtable][i] = Table(t)
  BY <1>10, <1>11, <1>13, EntryForms
<1>16. KernelShared(m)
  BY <1>13 DEF KernelShared
<1>17. UserEntries(m)
  <2> SUFFICES ASSUME NEW i \in L1Index, i < KernelIndex, NEW t \in L2Table,
                      m.l1[SysPgtable][i] = Table(t)
               PROVE  FALSE
    BY <1>13 DEF UserEntries
  <2>1. i \notin need
    BY <1>4, <1>10, Indexes
  <2> QED
    BY <1>2, <1>10, <1>15, <2>1 DEF UserEntries
<1>18. NamesExist(m) /\ TablesNamed(m) /\ NamesUnique(m)
  BY <1>8, <1>10, <1>12, <1>13, <1>15 DEF NamesExist, TablesNamed, NamesUnique
<1>19. KernelInUse(m)
  <2> SUFFICES ASSUME NEW i \in L1Index, i >= KernelIndex
               PROVE  /\ \A t : m.l1[SysPgtable][i] = Table(t) => \E j \in L2Index : m.l2[t][j] # 0
                      /\ \A b : m.l1[SysPgtable][i] = Section(b) => \A j \in L2Index : PageAt(b, j) # 0
    BY DEF KernelInUse
  <2>1. ASSUME NEW t, m.l1[SysPgtable][i] = Table(t) PROVE \E j \in L2Index : m.l2[t][j] # 0
    <3>1. a.l1[SysPgtable][i] = Table(t)
      BY <1>15, <2>1
    <3>2. ASSUME NEW j \in L2Index
          PROVE  Translate(a, SysPgtable, PageAt(i, j)) = a.l2[t][j] /\ PageAt(i, j) \in Page
      BY <3>1, EntryOfPage, Walk
    <3>3. CASE i \in index
      <4>1. PICK j \in L2Index : PageAt(i, j) \in P
        BY <1>4, <3>3
      <4> QED
        BY <1>3, <1>9, <1>12, <3>2, <4>1
    <3>4. CASE i \notin index
      <4>1. s.l1[SysPgtable][i] = Table(t)
        BY <1>10, <3>1, <3>4
      <4>2. PICK j \in L2Index : s.l2[t][j] # 0
        BY <1>2, <4>1 DEF KernelInUse
      <4>3. Translate(s, SysPgtable, PageAt(i, j)) = s.l2[t][j]
        BY <4>1, EntryOfPage, Walk
      <4> QED
        BY <1>3, <1>9, <1>12, <3>2, <4>2, <4>3
    <3> QED
      BY <3>3, <3>4
  <2>2. ASSUME NEW b, m.l1[SysPgtable][i] = Section(b), NEW j \in L2Index PROVE PageAt(b, j) # 0
    <3>1. CASE i \in S
      BY <1>11, <1>13, <2>2, <3>1, EntryForms
    <3>2. CASE i \notin S
      <4>1. s.l1[SysPgtable][i] = Section(b)
        BY <1>10, <1>13, <2>2, <3>2, EntryForms
      <4> QED
        BY <1>2, <4>1 DEF KernelInUse
    <3> QED
      BY <3>1, <3>2
  <2> QED
    BY <2>1, <2>2
<1>20. FixmapFree(m)
  <2> DEFINE x == FIXMAP_MAPPING
             i == l1pte_index(x)
             j == x % TTB_L2_ENTRIES
  <2>1. x \in Page /\ x \notin R /\ i \in L1Index /\ j \in L2Index /\ PageAt(i, j) = x
    BY <1>1, LayoutAssumption, PageEntry DEF R
  <2> HIDE DEF x, j
  <2>2. i \notin S
    BY <1>11, <2>1
  <2>3. m.l1[SysPgtable][i] = a.l1[SysPgtable][i]
    BY <1>13, <2>1, <2>2
  <2>4. Translate(m, SysPgtable, x) = Translate(a, SysPgtable, x)
    BY <1>12, <2>3 DEF Translate
  <2>5. Translate(a, SysPgtable, x) = 0
    BY <1>2, <1>3, <1>9, <2>1 DEF FixmapFree, x
  <2> QED
    BY <2>4, <2>5 DEF FixmapFree, x
<1>21. TablesOK(m)
  BY <1>14, <1>16, <1>17, <1>18, <1>19, <1>20 DEF TablesOK
<1> QED
  BY <1>13, <1>21 DEF m, v, p, n

-----------------------------------------------------------------------------
\* The inductive invariant

\* c is the current root table, R the processes that run, lists their page lists
\* and m the memory.  A process maps frames of its own page list, and the frames
\* it runs on at boot; no frame is mapped twice by those that run.
MemoryOK(s, c, R, lists, m) ==
    /\ TablesOK(s)
    /\ c \in DOMAIN s.l1 /\ R \subseteq DOMAIN s.l1 \ {SysPgtable}
    /\ c = SysPgtable => DOMAIN s.l1 = {SysPgtable} /\ R = {}
    /\ lists \in [Pgtable -> SUBSET Pool]
    /\ \A q \in Pgtable \ R : lists[q] = {}
    /\ \A p, q \in Pgtable : p # q => lists[p] \cap lists[q] = {}
    /\ m \in [Ram -> Data]
    /\ \A q \in R : \A v \in UserPage : Translate(s, q, v) \in {0} \cup lists[q] \cup RootCode
    /\ \A p, q \in R : \A v, w \in UserPage :
         Translate(s, p, v) = Translate(s, q, w) /\ Translate(s, p, v) # 0 => p = q /\ v = w

IInv == MemoryOK(mmu, current, running, page_list, mem)

LEMMA Frames == /\ RootCode \subseteq Ram /\ RootCode \cap Pool = {} /\ Pool \subseteq Ram
                /\ Ram \subseteq Frame /\ 0 \notin Ram
BY PageTableAssumption, LayoutAssumption DEF Ram, Frame

LEMMA InitTables == ASSUME mmu_configure PROVE TablesOK(mmu) /\ DOMAIN mmu.l1 = {SysPgtable}
<1> DEFINE root == [i \in L1Index |-> IF i \in {RamSection, KernelIndex}
                                      THEN Section(RamSection) ELSE Fault]
<1>1. mmu = [l1 |-> l1, l2 |-> l2] /\ mmu.l1 = l1 /\ mmu.l2 = l2
  BY DEF mmu
<1>2. mmu.l1 = [pg \in {SysPgtable} |-> root] /\ mmu.l2 = [t \in {} |-> EmptyTable]
  BY <1>1 DEF mmu_configure
<1>3. ASSUME NEW j \in L2Index PROVE PageAt(RamSection, j) \in KernelImage
  <2>1. (RamSection + 1) * TTB_L2_ENTRIES = RamSection * TTB_L2_ENTRIES + TTB_L2_ENTRIES
    BY PageTableAssumption
  <2> QED
    BY <2>1, PageTableAssumption DEF KernelImage, PageAt, L2Index
<1>4. Section(RamSection) \in Entry
  <2>1. 0 \in L2Index /\ RamSection \in Int
    BY PageTableAssumption DEF L2Index
  <2>2. RamSection = PageAt(RamSection, 0) \div TTB_L2_ENTRIES
    BY <2>1, EntryPage DEF l1pte_index
  <2> QED
    BY <1>3, <2>1, <2>2 DEF Entry, SectionBase
<1>5. \A i \in L1Index : /\ root[i] = Fault \/ root[i] = Section(RamSection)
                         /\ \A t : root[i] # Table(t)
                         /\ \A b : root[i] = Section(b) => b = RamSection
                         /\ i \notin {RamSection, KernelIndex} => root[i] = Fault
  BY EntryForms
<1>6. root \in [L1Index -> Entry]
  BY <1>4 DEF Entry
<1> DEFINE s == mmu
<1>7. /\ DOMAIN s.l1 = {SysPgtable} /\ s.l1[SysPgtable] = root /\ DOMAIN s.l2 = {}
      /\ s = [l1 |-> s.l1, l2 |-> s.l2]
      /\ s.l1 = [q \in {SysPgtable} |-> root] /\ s.l2 = [t \in {} |-> EmptyTable]
  BY <1>1, <1>2
<1> HIDE DEF s, root
<1>8. WellTyped(s)
  BY <1>6, <1>7 DEF WellTyped
<1>9. KernelShared(s) /\ UserEntries(s) /\ NamesExist(s) /\ TablesNamed(s) /\ NamesUnique(s)
  BY <1>5, <1>7 DEF KernelShared, UserEntries, NamesExist, TablesNamed, NamesUnique
<1>10. KernelInUse(s)
  <2>1. \A j \in L2Index : PageAt(RamSection, j) # 0
    BY <1>3, Frames DEF Ram
  <2> QED
    BY <1>5, <1>7, <2>1 DEF KernelInUse
<1>11. FixmapFree(s)
  <2> DEFINE i == l1pte_index(FIXMAP_MAPPING)
  <2>1. FIXMAP_MAPPING \in Page /\ FIXMAP_MAPPING \notin UserPage /\ i # KernelIndex
    BY LayoutAssumption DEF l1pte_index
  <2>2. i \in L1Index /\ i # RamSection
    BY <2>1, PageEntry, UserIndex, PageTableAssumption
  <2>3. s.l1[SysPgtable][i] = Fault
    BY <1>5, <1>7, <2>1, <2>2
  <2> QED
    BY <2>3, Walk DEF FixmapFree
<1> QED
  BY <1>7, <1>8, <1>9, <1>10, <1>11 DEF TablesOK, s

LEMMA InitInv == Init => IInv
<1> SUFFICES ASSUME Init PROVE IInv
  OBVIOUS
<1>1. TablesOK(mmu) /\ DOMAIN mmu.l1 = {SysPgtable}
  BY InitTables DEF Init
<1>2. page_list = [pg \in Pgtable |-> {}] /\ mem \in [Ram -> Data]
  BY DEF Init
<1> HIDE DEF mmu
<1> QED
  BY <1>1, <1>2 DEF Init, IInv, MemoryOK

\* The tables after a step.
LEMMA After ==
    ASSUME NEW s, TablesOK(s), Becomes(s)
    PROVE  mmu' = s
BY DEF Becomes, mmu, TablesOK, WellTyped

-----------------------------------------------------------------------------
\* The steps keep the invariant

LEMMA IoMapInv == ASSUME IInv, NEW r \in IoRanges, IoMap(r) PROVE IInv'
<1> DEFINE m == create_mapping(mmu, SysPgtable, r[1], r[2], r[3])
<1>1. TablesOK(mmu) /\ DOMAIN mmu.l1 = {SysPgtable} /\ running = {} /\ current = SysPgtable
  BY DEF IInv, MemoryOK, IoMap
<1>2. TablesOK(m) /\ DOMAIN m.l1 = {SysPgtable}
  BY <1>1, IoMapping DEF IoMap
<1>3. mmu' = m
  BY <1>2, After DEF IoMap
<1> HIDE DEF m
<1> QED
  BY <1>1, <1>2, <1>3 DEF IInv, MemoryOK, IoMap

LEMMA ExitInv == ASSUME IInv, Exit PROVE IInv'
<1>1. mmu' = mmu
  BY DEF Exit, mmu
<1>2. current \in running /\ current \in Pgtable /\ current # SysPgtable
  BY DEF IInv, MemoryOK, Exit, TablesOK, WellTyped
<1>3. page_list' = [page_list EXCEPT ![current] = {}] /\ running' = running \ {current}
      /\ current' = current /\ mem' = mem
  BY DEF Exit
<1> HIDE DEF mmu
<1>4. MemoryOK(mmu, current, running', page_list', mem)
  BY <1>2, <1>3 DEF IInv, MemoryOK
<1> QED
  BY <1>1, <1>3, <1>4 DEF IInv

LEMMA SwitchInv == ASSUME IInv, NEW pg \in Pgtable, Switch(pg) PROVE IInv'
<1>1. mmu' = mmu
  BY DEF Switch, mmu
<1> HIDE DEF mmu
<1>2. MemoryOK(mmu, pg, running, page_list, mem)
  BY DEF IInv, MemoryOK, Switch
<1> QED
  BY <1>1, <1>2 DEF IInv, Switch

LEMMA ReapInv == ASSUME IInv, NEW pg \in Pgtable, Reap(pg) PROVE IInv'
<1> DEFINE s == reset_root_pgtable(mmu, pg, TRUE)
<1>1. mmu.l1 = l1 /\ pg \in DOMAIN mmu.l1 \ {SysPgtable} /\ TablesOK(mmu)
  BY DEF IInv, MemoryOK, Reap, mmu
<1>2. /\ TablesOK(s) /\ DOMAIN s.l1 = DOMAIN mmu.l1 \ {pg}
      /\ \A q \in DOMAIN mmu.l1 \ {pg} : \A v \in Page : Translate(s, q, v) = Translate(mmu, q, v)
  BY <1>1, Reset
<1>3. mmu' = s
  BY <1>2, After DEF Reap
<1>4. pg \notin running /\ current \in running
      /\ current' = current /\ running' = running /\ page_list' = page_list /\ mem' = mem
  BY DEF Reap
<1> HIDE DEF s, mmu
<1>5. MemoryOK(s, current, running, page_list, mem)
  <2>1. \A q \in running : \A v \in UserPage : Translate(s, q, v) = Translate(mmu, q, v)
    BY <1>2, <1>4, UserInPage DEF IInv, MemoryOK
  <2> QED
    BY <1>2, <1>4, <2>1 DEF IInv, MemoryOK
<1> QED
  BY <1>3, <1>4, <1>5 DEF IInv

LEMMA StoreInv == ASSUME IInv, NEW v \in UserPage, NEW d \in Data, Store(v, d) PROVE IInv'
<1>1. mmu' = mmu
  BY DEF Store, mmu
<1> HIDE DEF mmu
<1>2. mem' \in [Ram -> Data]
  BY DEF IInv, MemoryOK, Store
<1>3. MemoryOK(mmu, current, running, page_list, mem')
  BY <1>2 DEF IInv, MemoryOK
<1> QED
  BY <1>1, <1>3 DEF IInv, Store

\* The tables after the steps that map pages.
LEMMA RootTables ==
    ASSUME IInv, NEW pg \in Pgtable, CreateRootProcess(pg)
    PROVE  \E f \in Injection(Stack, Free) :
             /\ TablesOK(mmu') /\ DOMAIN mmu'.l1 = {SysPgtable, pg}
             /\ page_list' = [page_list EXCEPT ![pg] = Range(f)]
             /\ \A v \in UserPage : Translate(mmu', pg, v) =
                  IF v \in USER_SPACE_VADDR .. USER_SPACE_VADDR + RootSize - 1
                  THEN RootStart + v - USER_SPACE_VADDR ELSE IF v \in Stack THEN f[v] ELSE 0
<1> DEFINE U == USER_SPACE_VADDR
           n == RootSize
           new == NewRootPgtable(mmu, pg)
           s(f) == alloc_init_pte(new, pg, f)
           m(f) == create_mapping(s(f), pg, U, RootStart, n)
           g == [w \in U .. U + n - 1 |-> RootStart + w - U]
           c(f) == alloc_init_pte(s(f), pg, g)
<1>1. /\ TablesOK(mmu) /\ DOMAIN mmu.l1 = {SysPgtable} /\ current = SysPgtable
      /\ pg \notin DOMAIN mmu.l1 /\ pg # SysPgtable
  BY PageTableAssumption DEF IInv, MemoryOK, CreateRootProcess
<1>2. PICK f \in Injection(Stack, Free) :
        /\ HasRoom(new, pg, Stack)
        /\ HasRoom(s(f), pg, SmallPages(U, RootStart, n))
        /\ Becomes(m(f))
        /\ page_list' = [page_list EXCEPT ![pg] = Range(f)]
  BY DEF CreateRootProcess
<1>3. /\ TablesOK(new) /\ DOMAIN new.l1 = {SysPgtable, pg}
      /\ \A v \in UserPage : Translate(new, pg, v) = 0
  BY <1>1, NewRoot
<1>4. DOMAIN f = Stack /\ Stack \subseteq UserPage /\ \A v \in Stack : f[v] \in Frame
  BY Frames, LayoutAssumption DEF Injection, Free
<1>5. /\ U \in UserPage /\ U \in Nat /\ n \in 1 .. TTB_L2_ENTRIES - 1 /\ RootStart \in Nat
      /\ U .. U + n - 1 \subseteq UserPage
  <2>1. U \in UserPage /\ U + n - 1 \in UserPage /\ n \in 1 .. TTB_L2_ENTRIES - 1 /\ RootStart \in Nat
    BY LayoutAssumption
  <2>2. KernelIndex * TTB_L2_ENTRIES - 1 \in Int /\ n \in Nat
    BY <2>1, PageTableAssumption
  <2>3. U .. U + n - 1 \subseteq UserPage
    BY <2>1, <2>2 DEF UserPage
  <2> QED
    BY <2>1, <2>2, <2>3 DEF UserPage
<1>6. DOMAIN g = U .. U + n - 1 /\ \A v \in DOMAIN g : g[v] = RootStart + v - U /\ g[v] \in Frame
  <2>1. \A v \in U .. U + n - 1 : RootStart + v - U \in RootCode
    <3> SUFFICES ASSUME NEW v \in U .. U + n - 1 PROVE RootStart + v - U \in RootStart .. RootStart + n - 1
      BY DEF RootCode
    <3> HIDE DEF U, n
    <3> QED
      BY <1>5
  <2>2. RootCode \subseteq Frame
    BY Frames
  <2> QED
    BY <2>1, <2>2
<1> HIDE DEF new, g, U, n
<1>7. /\ TablesOK(s(f)) /\ DOMAIN s(f).l1 = {SysPgtable, pg}
      /\ \A v \in UserPage : Translate(s(f), pg, v) = IF v \in Stack THEN f[v] ELSE 0
  <2>1. pg \in DOMAIN new.l1 \ {SysPgtable}
    BY <1>1, <1>3
  <2>2. /\ TablesOK(s(f)) /\ DOMAIN s(f).l1 = DOMAIN new.l1
        /\ \A q \in DOMAIN new.l1 : \A v \in Page :
             Translate(s(f), q, v) = IF q = pg /\ v \in DOMAIN f THEN f[v] ELSE Translate(new, q, v)
    BY <1>2, <1>3, <1>4, <2>1, UserMapping
  <2> HIDE DEF s
  <2> QED
    BY <1>3, <1>4, <2>1, <2>2, UserInPage
<1> HIDE DEF s
<1>8. /\ TablesOK(c(f)) /\ DOMAIN c(f).l1 = {SysPgtable, pg}
      /\ \A v \in UserPage : Translate(c(f), pg, v) = IF v \in DOMAIN g THEN g[v] ELSE Translate(s(f), pg, v)
  <2>1. pg \in DOMAIN s(f).l1 \ {SysPgtable}
    BY <1>1, <1>7
  <2>2. HasRoom(s(f), pg, DOMAIN g)
    BY <1>2, <1>5, <1>6, SmallRange
  <2>3. /\ TablesOK(c(f)) /\ DOMAIN c(f).l1 = DOMAIN s(f).l1
        /\ \A q \in DOMAIN s(f).l1 : \A v \in Page :
             Translate(c(f), q, v) = IF q = pg /\ v \in DOMAIN g THEN g[v] ELSE Translate(s(f), q, v)
    BY <1>5, <1>6, <1>7, <2>1, <2>2, UserMapping
  <2> HIDE DEF c
  <2> QED
    BY <1>7, <2>1, <2>3, UserInPage
<1>9. m(f) = c(f)
  <2>1. WellTyped(c(f)) /\ pg \in DOMAIN c(f).l1
    BY <1>8 DEF TablesOK
  <2> QED
    BY <1>5, <2>1, SmallMapping DEF g
<1> HIDE DEF c, m
<1>10. mmu' = c(f)
  BY <1>2, <1>8, <1>9, After
<1> QED
  BY <1>2, <1>6, <1>7, <1>8, <1>10 DEF U, n

LEMMA ForkTables ==
    ASSUME IInv, NEW to \in Pgtable, Fork(to)
    PROVE  \E f \in Injection(UserPages(mmu, current), Free) :
             /\ TablesOK(mmu') /\ DOMAIN mmu'.l1 = DOMAIN mmu.l1 \cup {to}
             /\ \A q \in DOMAIN mmu.l1 : \A v \in UserPage : Translate(mmu', q, v) = Translate(mmu, q, v)
             /\ \A v \in UserPage : Translate(mmu', to, v) = IF v \in DOMAIN f THEN f[v] ELSE 0
             /\ page_list' = [page_list EXCEPT ![to] = Range(f)]
             /\ mem' = [p \in Ram |-> IF p \in Range(f)
                                      THEN mem[Translate(mmu, current, CHOOSE v \in DOMAIN f : f[v] = p)]
                                      ELSE mem[p]]
<1> DEFINE new == NewRootPgtable(mmu, to)
           s(f) == alloc_init_pte(new, to, f)
           d(f) == duplicate_user_space(new, to, f)
<1>1. /\ TablesOK(mmu) /\ current \in DOMAIN mmu.l1 /\ to \notin DOMAIN mmu.l1 /\ to # SysPgtable
  <2>1. mmu.l1 = l1
    BY DEF mmu
  <2> QED
    BY <2>1, PageTableAssumption DEF IInv, MemoryOK, Fork
<1>2. PICK f \in Injection(UserPages(mmu, current), Free) :
        /\ CanDuplicate(new, to, f)
        /\ Becomes(d(f))
        /\ page_list' = [page_list EXCEPT ![to] = Range(f)]
        /\ mem' = [p \in Ram |-> IF p \in Range(f)
                                 THEN mem[Translate(mmu, current, CHOOSE v \in DOMAIN f : f[v] = p)]
                                 ELSE mem[p]]
  BY DEF Fork
<1>3. /\ TablesOK(new) /\ DOMAIN new.l1 = DOMAIN mmu.l1 \cup {to}
      /\ \A q \in DOMAIN mmu.l1 : \A v \in Page : Translate(new, q, v) = Translate(mmu, q, v)
      /\ \A v \in UserPage : Translate(new, to, v) = 0
  BY <1>1, NewRoot
<1>4. DOMAIN f \subseteq UserPage /\ \A v \in DOMAIN f : f[v] \in Frame
  BY Frames DEF Injection, Free, UserPages
<1> HIDE DEF new
<1>5. /\ TablesOK(s(f)) /\ DOMAIN s(f).l1 = DOMAIN new.l1
      /\ \A q \in DOMAIN new.l1 : \A v \in Page :
           Translate(s(f), q, v) = IF q = to /\ v \in DOMAIN f THEN f[v] ELSE Translate(new, q, v)
  BY <1>1, <1>2, <1>3, <1>4, UserMapping DEF CanDuplicate
<1>6. d(f) = s(f)
  <2>1. HasRoom(s(f), current, {FIXMAP_MAPPING})
    BY <1>2 DEF CanDuplicate
  <2>2. current \in DOMAIN s(f).l1
    BY <1>1, <1>3, <1>5
  <2> HIDE DEF s
  <2>3. UseFixmap(s(f), CHOOSE p \in Range(f) : TRUE) = s(f)
    <3> DEFINE x == s(f)
               p == CHOOSE p \in Range(f) : TRUE
    <3>1. TablesOK(x) /\ current \in DOMAIN x.l1 /\ HasRoom(x, current, {FIXMAP_MAPPING})
      BY <1>5, <2>1, <2>2
    <3> HIDE DEF x, p
    <3>2. release_mapping(alloc_init_pte(x, current, [v \in {FIXMAP_MAPPING} |-> p]),
                          current, FIXMAP_MAPPING, 1) = x
      BY <3>1, FixmapReleased
    <3> QED
      BY <3>2 DEF UseFixmap, x, p
  <2> QED
    BY <2>3 DEF duplicate_user_space, s
<1> HIDE DEF d, s
<1>7. mmu' = s(f)
  BY <1>2, <1>5, <1>6, After
<1>8. \A q \in DOMAIN mmu.l1 : \A v \in UserPage : Translate(mmu', q, v) = Translate(mmu, q, v)
  BY <1>1, <1>3, <1>5, <1>7, UserInPage
<1>9. \A v \in UserPage : Translate(mmu', to, v) = IF v \in DOMAIN f THEN f[v] ELSE 0
  BY <1>3, <1>5, <1>7, UserInPage
<1>10. TablesOK(mmu') /\ DOMAIN mmu'.l1 = DOMAIN mmu.l1 \cup {to}
  BY <1>3, <1>5, <1>7
<1> QED
  BY <1>2, <1>8, <1>9, <1>10

LEMMA ExecTables ==
    ASSUME IInv, NEW V \in Images, Exec(V)
    PROVE  \E f \in Injection(V, Free \cup page_list[current]) :
             /\ TablesOK(mmu') /\ DOMAIN mmu'.l1 = DOMAIN mmu.l1
             /\ \A q \in DOMAIN mmu.l1 \ {current} : \A v \in UserPage :
                  Translate(mmu', q, v) = Translate(mmu, q, v)
             /\ \A v \in UserPage : Translate(mmu', current, v) = IF v \in V THEN f[v] ELSE 0
             /\ page_list' = [page_list EXCEPT ![current] = Range(f)]
             /\ \E image \in Data :
                  mem' = [p \in Ram |-> IF p \in Range(f) THEN image ELSE mem[p]]
<1> DEFINE new == reset_root_pgtable(mmu, current, FALSE)
           s(f) == alloc_init_pte(new, current, f)
<1>1. /\ TablesOK(mmu) /\ current \in DOMAIN mmu.l1 \ {SysPgtable} /\ current \in Pgtable
      /\ page_list[current] \subseteq Pool
  BY DEF IInv, MemoryOK, Exec, TablesOK, WellTyped
<1>2. PICK f \in Injection(V, Free \cup page_list[current]) :
        /\ Becomes(s(f))
        /\ page_list' = [page_list EXCEPT ![current] = Range(f)]
        /\ \E image \in Data :
             mem' = [p \in Ram |-> IF p \in Range(f) THEN image ELSE mem[p]]
  BY DEF Exec
<1>3. /\ TablesOK(new) /\ DOMAIN new.l1 = DOMAIN mmu.l1
      /\ \A q \in DOMAIN mmu.l1 \ {current} : \A v \in Page : Translate(new, q, v) = Translate(mmu, q, v)
      /\ \A v \in UserPage : Translate(new, current, v) = 0
  BY <1>1, Reset
<1>4. DOMAIN f = V /\ V \subseteq UserPage /\ \A v \in V : f[v] \in Frame
  BY <1>1, Frames, LayoutAssumption DEF Injection, Free
<1>5. HasRoom(new, current, V)
  BY DEF Exec
<1> HIDE DEF new
<1>6. /\ TablesOK(s(f)) /\ DOMAIN s(f).l1 = DOMAIN new.l1
      /\ \A q \in DOMAIN new.l1 : \A v \in Page :
           Translate(s(f), q, v) = IF q = current /\ v \in DOMAIN f THEN f[v] ELSE Translate(new, q, v)
  BY <1>1, <1>3, <1>4, <1>5, UserMapping
<1> HIDE DEF s
<1>7. mmu' = s(f)
  BY <1>2, <1>6, After
<1>8. \A q \in DOMAIN mmu.l1 \ {current} : \A v \in UserPage : Translate(mmu', q, v) = Translate(mmu, q, v)
  BY <1>3, <1>6, <1>7, UserInPage
<1>9. \A v \in UserPage : Translate(mmu', current, v) = IF v \in V THEN f[v] ELSE 0
  BY <1>1, <1>3, <1>4, <1>6, <1>7, UserInPage
<1> QED
  BY <1>2, <1>3, <1>6, <1>7, <1>8, <1>9

LEMMA RootInv == ASSUME IInv, NEW pg \in Pgtable, CreateRootProcess(pg) PROVE IInv'
<1> DEFINE s == mmu'
           U == USER_SPACE_VADDR .. USER_SPACE_VADDR + RootSize - 1
           code(v) == RootStart + v - USER_SPACE_VADDR
<1>1. PICK f \in Injection(Stack, Free) :
        /\ TablesOK(s) /\ DOMAIN s.l1 = {SysPgtable, pg}
        /\ page_list' = [page_list EXCEPT ![pg] = Range(f)]
        /\ \A v \in UserPage : Translate(s, pg, v) =
             IF v \in U THEN code(v) ELSE IF v \in Stack THEN f[v] ELSE 0
  BY RootTables
<1>2. /\ running' = {pg} /\ current' = pg /\ mem' = mem
      /\ running = {} /\ pg # SysPgtable
  BY PageTableAssumption DEF CreateRootProcess, IInv, MemoryOK
<1>3. /\ f \in [Stack -> Free] /\ \A v, w \in Stack : f[v] = f[w] => v = w
      /\ \A v \in Stack : f[v] \in Range(f) /\ f[v] \in Pool
      /\ Range(f) \subseteq Pool
  BY DEF Injection, IsInjective, Range, Free
<1>4. \A v \in U : v \in Int /\ code(v) \in RootCode
  <2> SUFFICES ASSUME NEW v \in U PROVE v \in Int /\ code(v) \in RootCode
    OBVIOUS
  <2>1. USER_SPACE_VADDR \in Nat /\ RootSize \in Nat /\ RootStart \in Nat
    BY LayoutAssumption, PageTableAssumption DEF UserPage
  <2> QED
    BY <2>1 DEF RootCode
<1>5. \A v, w \in U : code(v) = code(w) => v = w
  <2>1. USER_SPACE_VADDR \in Int /\ RootStart \in Int
    BY LayoutAssumption, PageTableAssumption DEF UserPage
  <2> QED
    BY <1>4, <2>1
<1> HIDE DEF s, U, code
<1>6. page_list' \in [Pgtable -> SUBSET Pool] /\ page_list'[pg] = Range(f)
      /\ \A q \in Pgtable : q # pg => page_list'[q] = {}
  BY <1>1, <1>2, <1>3 DEF IInv, MemoryOK
<1>7. \A v \in UserPage : Translate(s, pg, v) \in {0} \cup page_list'[pg] \cup RootCode
  BY <1>1, <1>3, <1>4, <1>6
<1>8. ASSUME NEW v \in UserPage, NEW w \in UserPage,
             Translate(s, pg, v) = Translate(s, pg, w), Translate(s, pg, v) # 0
      PROVE  v = w
  <2>1. CASE v \in U
    <3>1. w \in U
      BY <1>1, <1>3, <1>4, <1>8, <2>1, Frames
    <3> QED
      BY <1>1, <1>5, <1>8, <2>1, <3>1
  <2>2. CASE v \notin U
    <3>1. v \in Stack /\ w \notin U
      BY <1>1, <1>3, <1>4, <1>8, <2>2, Frames
    <3>2. w \in Stack
      BY <1>1, <1>8, <3>1
    <3> QED
      BY <1>1, <1>3, <1>8, <2>2, <3>1, <3>2
  <2> QED
    BY <2>1, <2>2
<1>9. MemoryOK(s, pg, {pg}, page_list', mem)
  BY <1>1, <1>2, <1>6, <1>7, <1>8 DEF IInv, MemoryOK
<1> QED
  BY <1>2, <1>9 DEF IInv, s

LEMMA ForkInv == ASSUME IInv, NEW to \in Pgtable, Fork(to) PROVE IInv'
<1> DEFINE s == mmu'
           t == mmu
           D == UserPages(mmu, current)
<1>1. PICK f \in Injection(D, Free) :
        /\ TablesOK(s) /\ DOMAIN s.l1 = DOMAIN t.l1 \cup {to}
        /\ \A q \in DOMAIN t.l1 : \A v \in UserPage : Translate(s, q, v) = Translate(t, q, v)
        /\ \A v \in UserPage : Translate(s, to, v) = IF v \in DOMAIN f THEN f[v] ELSE 0
        /\ page_list' = [page_list EXCEPT ![to] = Range(f)]
        /\ mem' = [p \in Ram |-> IF p \in Range(f)
                                 THEN mem[Translate(t, current, CHOOSE v \in DOMAIN f : f[v] = p)]
                                 ELSE mem[p]]
  BY ForkTables
<1>2. /\ current \in running /\ running' = running \cup {to} /\ current' = current
      /\ to \notin DOMAIN t.l1 /\ to # SysPgtable
  BY PageTableAssumption DEF Fork, mmu
<1>3. DOMAIN f = D /\ D \subseteq UserPage /\ \A v \in D : Translate(t, current, v) # 0
  BY DEF Injection, UserPages
<1>4. /\ \A v, w \in D : f[v] = f[w] => v = w
      /\ \A v \in D : f[v] \in Range(f) /\ f[v] \in Free /\ f[v] \in Pool
      /\ Range(f) \subseteq Free /\ Free \subseteq Pool
  BY DEF Injection, IsInjective, Range, Free
<1>5. MemoryOK(t, current, running, page_list, mem)
  BY DEF IInv
<1> HIDE DEF s, t, D
<1>6. to \notin running /\ running \subseteq DOMAIN t.l1 /\ running \subseteq Pgtable
  BY <1>2, <1>5 DEF MemoryOK, TablesOK, WellTyped
<1>7. /\ page_list' \in [Pgtable -> SUBSET Pool] /\ page_list'[to] = Range(f)
      /\ \A q \in Pgtable : q # to => page_list'[q] = page_list[q]
  BY <1>1, <1>4, <1>5 DEF MemoryOK
<1>8. \A q \in Pgtable : page_list[q] \cap Free = {}
  BY <1>5 DEF Free, Range, MemoryOK
<1>9. mem' \in [Ram -> Data]
  <2>1. \A v \in D : Translate(t, current, v) \in Ram
    <3> SUFFICES ASSUME NEW v \in D PROVE Translate(t, current, v) \in Ram
      OBVIOUS
    <3>1. Translate(t, current, v) \in {0} \cup page_list[current] \cup RootCode
      BY <1>2, <1>3, <1>5 DEF MemoryOK
    <3>2. page_list[current] \subseteq Ram
      BY <1>2, <1>5, <1>6, Frames DEF MemoryOK
    <3> QED
      BY <1>3, <3>1, <3>2, Frames
  <2>2. \A p \in Range(f) : (CHOOSE v \in DOMAIN f : f[v] = p) \in D
    BY <1>3 DEF Range
  <2>3. mem \in [Ram -> Data]
    BY <1>5 DEF MemoryOK
  <2> QED
    BY <1>1, <2>1, <2>2, <2>3
<1>10. ASSUME NEW q \in running', NEW v \in UserPage
       PROVE  Translate(s, q, v) \in {0} \cup page_list'[q] \cup RootCode
  <2>1. CASE q = to
    BY <1>1, <1>3, <1>4, <1>7, <2>1
  <2>2. CASE q # to
    BY <1>1, <1>2, <1>5, <1>6, <1>7, <2>2 DEF MemoryOK
  <2> QED
    BY <2>1, <2>2
<1>11. ASSUME NEW v \in UserPage, Translate(s, to, v) # 0
       PROVE  v \in D /\ Translate(s, to, v) = f[v] /\ Translate(s, to, v) \in Free
  BY <1>1, <1>3, <1>4, <1>11
<1>12. ASSUME NEW q \in running, NEW v \in UserPage, Translate(s, q, v) # 0
       PROVE  Translate(s, q, v) = Translate(t, q, v) /\ Translate(s, q, v) \notin Free
  <2>1. Translate(s, q, v) = Translate(t, q, v)
    BY <1>1, <1>6
  <2>2. Translate(t, q, v) \in page_list[q] \cup RootCode
    BY <1>5, <1>12, <2>1 DEF MemoryOK
  <2> QED
    BY <1>4, <1>6, <1>8, <2>1, <2>2, Frames
<1>13. ASSUME NEW p \in running', NEW q \in running', NEW v \in UserPage, NEW w \in UserPage,
              Translate(s, p, v) = Translate(s, q, w), Translate(s, p, v) # 0
       PROVE  p = q /\ v = w
  <2>1. CASE p = to /\ q = to
    BY <1>4, <1>11, <1>13, <2>1
  <2>2. CASE p = to /\ q # to
    BY <1>2, <1>11, <1>12, <1>13, <2>2
  <2>3. CASE p # to /\ q = to
    BY <1>2, <1>11, <1>12, <1>13, <2>3
  <2>4. CASE p # to /\ q # to
    BY <1>2, <1>5, <1>12, <1>13, <2>4 DEF MemoryOK
  <2> QED
    BY <2>1, <2>2, <2>3, <2>4
<1>14. \A p, q \in Pgtable : p # q => page_list'[p] \cap page_list'[q] = {}
  BY <1>4, <1>5, <1>7, <1>8 DEF MemoryOK
<1>15. MemoryOK(s, current, running', page_list', mem')
  <2>1. running' \subseteq DOMAIN s.l1 \ {SysPgtable} /\ current \in DOMAIN s.l1 /\ current # SysPgtable
    BY <1>1, <1>2, <1>5 DEF MemoryOK
  <2>2. \A q \in Pgtable \ running' : page_list'[q] = {}
    BY <1>2, <1>5, <1>7 DEF MemoryOK
  <2>3. TablesOK(s)
    BY <1>1
  <2> QED
    BY <1>7, <1>9, <1>10, <1>13, <1>14, <2>1, <2>2, <2>3 DEF MemoryOK
<1> QED
  BY <1>2, <1>15 DEF IInv, s

LEMMA ExecInv == ASSUME IInv, NEW V \in Images, Exec(V) PROVE IInv'
<1> DEFINE s == mmu'
           t == mmu
           P == Free \cup page_list[current]
<1>1. PICK f \in Injection(V, P) :
        /\ TablesOK(s) /\ DOMAIN s.l1 = DOMAIN t.l1
        /\ \A q \in DOMAIN t.l1 \ {current} : \A v \in UserPage : Translate(s, q, v) = Translate(t, q, v)
        /\ \A v \in UserPage : Translate(s, current, v) = IF v \in V THEN f[v] ELSE 0
        /\ page_list' = [page_list EXCEPT ![current] = Range(f)]
        /\ \E image \in Data :
             mem' = [p \in Ram |-> IF p \in Range(f) THEN image ELSE mem[p]]
  BY ExecTables
<1>2. current \in running /\ running' = running /\ current' = current
  BY DEF Exec
<1>3. MemoryOK(t, current, running, page_list, mem)
  BY DEF IInv
<1>4. /\ \A v, w \in V : f[v] = f[w] => v = w
      /\ \A v \in V : f[v] \in Range(f) /\ f[v] \in P
      /\ Range(f) \subseteq P
  BY DEF Injection, IsInjective, Range
<1> HIDE DEF s, t
<1>5. running \subseteq DOMAIN t.l1 /\ running \subseteq Pgtable
  BY <1>3 DEF MemoryOK, TablesOK, WellTyped
<1>6. P \subseteq Pool /\ \A q \in Pgtable : q # current => page_list[q] \cap P = {}
  BY <1>2, <1>3, <1>5 DEF Free, Range, MemoryOK
<1> HIDE DEF P
<1>7. /\ page_list' \in [Pgtable -> SUBSET Pool] /\ page_list'[current] = Range(f)
      /\ \A q \in Pgtable : q # current => page_list'[q] = page_list[q]
  BY <1>1, <1>2, <1>3, <1>4, <1>5, <1>6 DEF MemoryOK
<1>8. mem' \in [Ram -> Data]
  BY <1>1, <1>3 DEF MemoryOK
<1>9. ASSUME NEW v \in UserPage, Translate(s, current, v) # 0
      PROVE  v \in V /\ Translate(s, current, v) = f[v] /\ f[v] \in P
  BY <1>1, <1>4, <1>9
<1>10. ASSUME NEW q \in running, q # current, NEW v \in UserPage, Translate(s, q, v) # 0
       PROVE  Translate(s, q, v) = Translate(t, q, v) /\ Translate(s, q, v) \notin P
  <2>1. Translate(s, q, v) = Translate(t, q, v)
    BY <1>1, <1>5, <1>10
  <2>2. Translate(t, q, v) \in page_list[q] \cup RootCode
    BY <1>3, <1>10, <2>1 DEF MemoryOK
  <2> QED
    BY <1>5, <1>6, <1>10, <2>1, <2>2, Frames
<1>11. ASSUME NEW q \in running, NEW v \in UserPage
       PROVE  Translate(s, q, v) \in {0} \cup page_list'[q] \cup RootCode
  <2>1. CASE q = current
    BY <1>4, <1>7, <1>9, <2>1
  <2>2. CASE q # current
    BY <1>1, <1>3, <1>5, <1>7, <2>2 DEF MemoryOK
  <2> QED
    BY <2>1, <2>2
<1>12. ASSUME NEW p \in running, NEW q \in running, NEW v \in UserPage, NEW w \in UserPage,
              Translate(s, p, v) = Translate(s, q, w), Translate(s, p, v) # 0
       PROVE  p = q /\ v = w
  <2>1. CASE p = current /\ q = current
    BY <1>4, <1>9, <1>12, <2>1
  <2>2. CASE p = current /\ q # current
    BY <1>9, <1>10, <1>12, <2>2
  <2>3. CASE p # current /\ q = current
    BY <1>9, <1>10, <1>12, <2>3
  <2>4. CASE p # current /\ q # current
    BY <1>3, <1>10, <1>12, <2>4 DEF MemoryOK
  <2> QED
    BY <2>1, <2>2, <2>3, <2>4
<1>13. \A p, q \in Pgtable : p # q => page_list'[p] \cap page_list'[q] = {}
  BY <1>3, <1>4, <1>6, <1>7 DEF MemoryOK
<1>14. MemoryOK(s, current, running, page_list', mem')
  BY <1>1, <1>2, <1>3, <1>5, <1>7, <1>8, <1>11, <1>12, <1>13 DEF MemoryOK
<1> QED
  BY <1>2, <1>14 DEF IInv, s

-----------------------------------------------------------------------------
\* The theorems

LEMMA NextInv == IInv /\ [Next]_vars => IInv'
<1> SUFFICES ASSUME IInv, [Next]_vars PROVE IInv'
  OBVIOUS
<1>1. CASE UNCHANGED vars
  BY <1>1 DEF vars, IInv, mmu
<1>2. ASSUME NEW r \in IoRanges, IoMap(r) PROVE IInv'
  BY <1>2, IoMapInv
<1>3. ASSUME NEW pg \in Pgtable, CreateRootProcess(pg) PROVE IInv'
  BY <1>3, RootInv
<1>4. ASSUME NEW pg \in Pgtable, Fork(pg) PROVE IInv'
  BY <1>4, ForkInv
<1>5. ASSUME NEW pg \in Pgtable, Reap(pg) PROVE IInv'
  BY <1>5, ReapInv
<1>6. ASSUME NEW pg \in Pgtable, Switch(pg) PROVE IInv'
  BY <1>6, SwitchInv
<1>7. ASSUME NEW V \in Images, Exec(V) PROVE IInv'
  BY <1>7, ExecInv
<1>8. ASSUME NEW v \in UserPage, NEW d \in Data, Store(v, d) PROVE IInv'
  BY <1>8, StoreInv
<1>9. CASE Exit
  BY <1>9, ExitInv
<1> QED
  BY <1>1, <1>2, <1>3, <1>4, <1>5, <1>6, <1>7, <1>8, <1>9 DEF Next

THEOREM Invariance == Spec => []IInv
<1>1. Init => IInv
  BY InitInv
<1>2. IInv /\ [Next]_vars => IInv'
  BY NextInv
<1> QED
  BY <1>1, <1>2, PTL DEF Spec

\* The tables keep their shape and name existing tables and frames.
LEMMA InvTypeOK == IInv => TypeOK
<1> SUFFICES ASSUME IInv PROVE TypeOK
  OBVIOUS
<1>1. mmu.l1 = l1 /\ mmu.l2 = l2
  BY DEF mmu
<1>2. WellTyped(mmu)
  BY DEF IInv, MemoryOK, TablesOK
<1>3. running \in SUBSET Pgtable
  BY <1>1, <1>2 DEF IInv, MemoryOK, WellTyped
<1> HIDE DEF mmu
<1> QED
  BY <1>1, <1>2, <1>3 DEF IInv, MemoryOK, TypeOK, WellTyped

THEOREM TypeCorrect == Spec => []TypeOK
BY Invariance, InvTypeOK, PTL

\* No operation of mmu.c loses a second-level table, frees one that is in use or
\* shares one of the user space.
THEOREM TablesStayAccounted == Spec => []TablesAccounted
<1>1. IInv => TablesAccounted
  <2> SUFFICES ASSUME IInv PROVE TablesAccounted
    OBVIOUS
  <2> DEFINE Names(pg, i) == {t \in L2Table : l1[pg][i] = Table(t)}
             Entries == (DOMAIN l1) \X L1Index
  <2>1. mmu.l1 = l1 /\ mmu.l2 = l2
    BY DEF mmu
  <2>2. NamesExist(mmu) /\ TablesNamed(mmu) /\ NamesUnique(mmu) /\ DOMAIN l2 \subseteq L2Table
    BY <2>1 DEF IInv, MemoryOK, TablesOK, WellTyped
  <2>3. TypeOK
    BY InvTypeOK
  <2>4. DOMAIN l2 \subseteq UNION {Names(e[1], e[2]) : e \in Entries}
    <3> SUFFICES ASSUME NEW t \in DOMAIN l2
                 PROVE  \E e \in Entries : t \in Names(e[1], e[2])
      OBVIOUS
    <3>1. PICK q \in DOMAIN l1, i \in L1Index : l1[q][i] = Table(t)
      BY <2>1, <2>2 DEF TablesNamed
    <3>2. <<q, i>> \in Entries /\ t \in Names(q, i)
      BY <2>2, <3>1
    <3> QED
      BY <3>2
  <2>5. UNION {Names(e[1], e[2]) : e \in Entries} \subseteq DOMAIN l2
    BY <2>1, <2>2 DEF NamesExist
  <2>6. ASSUME NEW e \in Entries, NEW d \in Entries, e[2] < KernelIndex, e # d,
               NEW t \in Names(e[1], e[2]), t \in Names(d[1], d[2])
        PROVE  FALSE
    <3>1. e[2] = d[2] /\ (e[1] = d[1] \/ e[2] >= KernelIndex)
      BY <2>1, <2>2, <2>6 DEF NamesExist, NamesUnique
    <3>2. e[1] = d[1]
      BY <2>6, <3>1, Indexes
    <3> QED
      BY <2>6, <3>1, <3>2
  <2> HIDE DEF Names, Entries
  <2>7. \A e, d \in Entries : e[2] < KernelIndex /\ e # d => Names(e[1], e[2]) \cap Names(d[1], d[2]) = {}
    BY <2>6
  <2> QED
    BY <2>3, <2>4, <2>5, <2>7 DEF TablesAccounted, Names, Entries
<1> QED
  BY <1>1, Invariance, PTL

\* What do_translate() answers to a process are frames of that process, each
\* of them once.
THEOREM TranslatesOwn == Spec => []TranslatesOwnPages
<1>1. IInv => TranslatesOwnPages
  <2> SUFFICES ASSUME IInv, current \in running, NEW v \in UserPage, Translate(mmu, current, v) # 0
               PROVE  /\ virt_to_phys_pt(v) \in page_list[current] \cup RootCode
                      /\ \A w \in UserPage : Translate(mmu, current, w) # 0 /\ w # v =>
                           virt_to_phys_pt(w) # virt_to_phys_pt(v)
    BY DEF TranslatesOwnPages, UserPages
  <2>1. ASSUME NEW w \in UserPage PROVE virt_to_phys_pt(w) = Translate(mmu, current, w)
    <3> DEFINE pte == l1[current][l1pte_index(w)]
    <3>1. mmu.l1 = l1
      BY DEF mmu
    <3>2. l1pte_index(w) \in L1Index /\ l1pte_index(w) < KernelIndex
      BY UserInPage, PageEntry, UserIndex
    <3>3. pte = Fault \/ \E t \in L2Table : pte = Table(t)
      BY <3>1, <3>2 DEF IInv, MemoryOK, TablesOK, UserEntries
    <3>4. pte.type # "section"
      <4>1. Fault.type # "section" /\ \A t : Table(t).type # "section"
        BY DEF Fault, Table
      <4> HIDE DEF pte
      <4> QED
        BY <3>3, <4>1
    <3> QED
      BY <3>4 DEF virt_to_phys_pt
  <2>2. Translate(mmu, current, v) \in page_list[current] \cup RootCode
    BY DEF IInv, MemoryOK
  <2>3. \A w \in UserPage : Translate(mmu, current, w) = Translate(mmu, current, v) => w = v
    BY DEF IInv, MemoryOK
  <2> QED
    BY <2>1, <2>2, <2>3
<1> QED
  BY <1>1, Invariance, PTL

-----------------------------------------------------------------------------
\* The refinement

\* What the processes find in their pages.
Memory == [pg \in Pgtable |-> [v \in UserPage |-> Content(pg, v)]]

LEMMA MemoryAt ==
    /\ \A q \in Pgtable : \A v \in UserPage : Memory[q][v] = Content(q, v)
    /\ \A q \in Pgtable : \A v \in UserPage : Memory'[q][v] = Content(q, v)'
    /\ Memory = [q \in Pgtable |-> Memory[q]] /\ Memory' = [q \in Pgtable |-> Memory'[q]]
    /\ \A q \in Pgtable : Memory[q] = [v \in UserPage |-> Memory[q][v]]
    /\ \A q \in Pgtable : Memory'[q] = [v \in UserPage |-> Memory'[q][v]]
BY DEF Memory

\* What a process finds, before and after a step.
LEMMA Finds ==
    ASSUME NEW q, NEW v
    PROVE  /\ Content(q, v) = IF q \in running /\ Translate(mmu, q, v) # 0
                              THEN mem[Translate(mmu, q, v)] ELSE NoData
           /\ Content(q, v)' = IF q \in running' /\ Translate(mmu', q, v) # 0
                               THEN mem'[Translate(mmu', q, v)] ELSE NoData
BY DEF Content

\* A step of AddressSpaces, from what it does to Memory.
LEMMA MapStart ==
    ASSUME NEW p \in Pgtable, running = {}, running' = {p},
           Memory'[p] \in [UserPage -> Data \cup {NoData}],
           Memory' = [Memory EXCEPT ![p] = Memory'[p]]
    PROVE  Spaces!Start(p)
BY DEF Spaces!Start, Spaces!Image, Memory

LEMMA MapFork ==
    ASSUME NEW p \in Pgtable, NEW q \in Pgtable, p \in running, q \notin running,
           running' = running \cup {q}, Memory' = [Memory EXCEPT ![q] = Memory[p]]
    PROVE  Spaces!Fork(p, q)
BY DEF Spaces!Fork, Memory

LEMMA MapExec ==
    ASSUME NEW p \in Pgtable, p \in running, running' = running,
           Memory'[p] \in [UserPage -> Data \cup {NoData}],
           Memory' = [Memory EXCEPT ![p] = Memory'[p]]
    PROVE  Spaces!Exec(p)
BY DEF Spaces!Exec, Spaces!Image, Memory

LEMMA MapWrite ==
    ASSUME NEW p \in Pgtable, NEW v \in UserPage, NEW d \in Data, p \in running,
           running' = running, Memory[p][v] # NoData,
           Memory' = [Memory EXCEPT ![p][v] = d]
    PROVE  Spaces!Write(p, v, d)
BY DEF Spaces!Write, Memory

LEMMA MapExit ==
    ASSUME NEW p \in Pgtable, p \in running, running' = running \ {p},
           Memory' = [Memory EXCEPT ![p] = [v \in UserPage |-> NoData]]
    PROVE  Spaces!Exit(p)
BY DEF Spaces!Exit, Spaces!Nothing, Memory

LEMMA MapStutter ==
    ASSUME running' = running, Memory' = Memory
    PROVE  UNCHANGED Spaces!vars
BY DEF Spaces!vars, Memory

LEMMA MapInit == Init => Spaces!Init
<1> SUFFICES ASSUME Init PROVE Spaces!Init
  OBVIOUS
<1>1. running = {}
  BY DEF Init
<1>2. \A q, v : Content(q, v) = NoData
  BY <1>1 DEF Content
<1>3. [pg \in Pgtable |-> [v \in UserPage |-> Content(pg, v)]]
        = [pg \in Pgtable |-> [v \in UserPage |-> NoData]]
  BY <1>2
<1> QED
  BY <1>1, <1>3 DEF Spaces!Init, Spaces!Nothing

\* When the pages of every other process translate as before, to frames that
\* keep what they contain, only the memory of p changes.
LEMMA OnlyOne ==
    ASSUME NEW p \in Pgtable,
           \A q \in Pgtable \ {p} : \A v \in UserPage : Content(q, v)' = Content(q, v)
    PROVE  Memory' = [Memory EXCEPT ![p] = Memory'[p]]
<1>1. \A q \in Pgtable \ {p} : Memory'[q] = Memory[q]
  BY MemoryAt
<1> QED
  BY <1>1, MemoryAt

\* A process finds data, or nothing.
LEMMA Contents ==
    ASSUME IInv, NEW q \in Pgtable, NEW v \in UserPage
    PROVE  Content(q, v) \in Data \cup {NoData}
<1>1. ASSUME q \in running, Translate(mmu, q, v) # 0 PROVE Translate(mmu, q, v) \in Ram
  <2>1. Translate(mmu, q, v) \in page_list[q] \cup RootCode
    BY <1>1 DEF IInv, MemoryOK
  <2>2. page_list[q] \subseteq Pool
    BY DEF IInv, MemoryOK
  <2> QED
    BY <2>1, <2>2, Frames
<1>2. mem \in [Ram -> Data]
  BY DEF IInv, MemoryOK
<1> QED
  BY <1>1, <1>2 DEF Content

LEMMA ContentsNext ==
    ASSUME IInv', NEW q \in Pgtable
    PROVE  Memory'[q] \in [UserPage -> Data \cup {NoData}]
<1>1. ASSUME NEW v \in UserPage PROVE Content(q, v)' \in Data \cup {NoData}
  <2>1. ASSUME q \in running', Translate(mmu', q, v) # 0 PROVE Translate(mmu', q, v) \in Ram
    <3>1. Translate(mmu', q, v) \in page_list'[q] \cup RootCode
      BY <2>1 DEF IInv, MemoryOK
    <3>2. page_list'[q] \subseteq Pool
      BY DEF IInv, MemoryOK
    <3> QED
      BY <3>1, <3>2, Frames
  <2>2. mem' \in [Ram -> Data]
    BY DEF IInv, MemoryOK
  <2> QED
    BY <2>1, <2>2, Finds
<1> QED
  BY <1>1, MemoryAt

LEMMA RootStep ==
    ASSUME IInv, IInv', NEW pg \in Pgtable, CreateRootProcess(pg) PROVE Spaces!Next
<1>1. running = {} /\ running' = {pg}
  BY DEF IInv, MemoryOK, CreateRootProcess
<1>2. \A q \in Pgtable \ {pg} : \A v \in UserPage : Content(q, v)' = Content(q, v)
  BY <1>1, Finds
<1>3. Spaces!Start(pg)
  BY <1>1, <1>2, OnlyOne, ContentsNext, MapStart
<1> QED
  BY <1>3 DEF Spaces!Next

LEMMA ExecStep == ASSUME IInv, IInv', NEW V \in Images, Exec(V) PROVE Spaces!Next
<1> DEFINE P == Free \cup page_list[current]
<1>1. PICK f \in Injection(V, P) :
        /\ TablesOK(mmu') /\ DOMAIN mmu'.l1 = DOMAIN mmu.l1
        /\ \A q \in DOMAIN mmu.l1 \ {current} : \A v \in UserPage :
             Translate(mmu', q, v) = Translate(mmu, q, v)
        /\ \A v \in UserPage : Translate(mmu', current, v) = IF v \in V THEN f[v] ELSE 0
        /\ page_list' = [page_list EXCEPT ![current] = Range(f)]
        /\ \E image \in Data :
             mem' = [p \in Ram |-> IF p \in Range(f) THEN image ELSE mem[p]]
  BY ExecTables
<1>2. /\ current \in running /\ running' = running
      /\ running \subseteq DOMAIN mmu.l1 /\ running \subseteq Pgtable
  BY DEF Exec, IInv, MemoryOK, TablesOK, WellTyped
<1>3. Range(f) \subseteq P /\ P \cap RootCode = {}
  BY <1>2, Frames DEF Injection, Range, Free, IInv, MemoryOK
<1>4. \A q \in Pgtable : q # current => page_list[q] \cap P = {}
  BY <1>2 DEF Free, Range, IInv, MemoryOK
<1> HIDE DEF P
<1>5. ASSUME NEW q \in running, q # current, NEW v \in UserPage, Translate(mmu, q, v) # 0
      PROVE  mem'[Translate(mmu, q, v)] = mem[Translate(mmu, q, v)]
  <2>1. Translate(mmu, q, v) \in page_list[q] \cup RootCode /\ page_list[q] \subseteq Ram
    BY <1>2, <1>5, Frames DEF IInv, MemoryOK
  <2>2. Translate(mmu, q, v) \in Ram /\ Translate(mmu, q, v) \notin Range(f)
    BY <1>2, <1>3, <1>4, <1>5, <2>1, Frames
  <2> QED
    BY <1>1, <2>2
<1>6. \A q \in Pgtable \ {current} : \A v \in UserPage : Content(q, v)' = Content(q, v)
  BY <1>1, <1>2, <1>5, Finds
<1>7. Spaces!Exec(current)
  BY <1>2, <1>6, OnlyOne, ContentsNext, MapExec
<1> QED
  BY <1>2, <1>7 DEF Spaces!Next

LEMMA ForkStep == ASSUME IInv, NEW to \in Pgtable, Fork(to) PROVE Spaces!Next
<1> DEFINE D == UserPages(mmu, current)
<1>1. PICK f \in Injection(D, Free) :
        /\ TablesOK(mmu') /\ DOMAIN mmu'.l1 = DOMAIN mmu.l1 \cup {to}
        /\ \A q \in DOMAIN mmu.l1 : \A v \in UserPage : Translate(mmu', q, v) = Translate(mmu, q, v)
        /\ \A v \in UserPage : Translate(mmu', to, v) = IF v \in DOMAIN f THEN f[v] ELSE 0
        /\ page_list' = [page_list EXCEPT ![to] = Range(f)]
        /\ mem' = [p \in Ram |-> IF p \in Range(f)
                                 THEN mem[Translate(mmu, current, CHOOSE v \in DOMAIN f : f[v] = p)]
                                 ELSE mem[p]]
  BY ForkTables
<1>2. /\ current \in running /\ running' = running \cup {to} /\ to \notin running
      /\ running \subseteq DOMAIN mmu.l1 /\ running \subseteq Pgtable
  <2>1. mmu.l1 = l1
    BY DEF mmu
  <2> QED
    BY <2>1 DEF Fork, IInv, MemoryOK, TablesOK, WellTyped
<1>3. /\ DOMAIN f = D /\ \A v, w \in D : f[v] = f[w] => v = w
      /\ \A v \in D : f[v] \in Range(f) /\ f[v] \in Pool /\ f[v] # 0
      /\ Range(f) \subseteq Free
      /\ \A v \in UserPage : v \in D <=> Translate(mmu, current, v) # 0
  BY Frames DEF Injection, IsInjective, Range, Free, UserPages
<1>4. \A q \in Pgtable : page_list[q] \cap Free = {}
  BY DEF Free, Range, IInv, MemoryOK
<1> HIDE DEF D
<1>5. ASSUME NEW q \in running, NEW v \in UserPage, Translate(mmu, q, v) # 0
      PROVE  mem'[Translate(mmu, q, v)] = mem[Translate(mmu, q, v)]
  <2>1. Translate(mmu, q, v) \in page_list[q] \cup RootCode /\ page_list[q] \subseteq Ram
    BY <1>2, <1>5, Frames DEF IInv, MemoryOK
  <2>2. Translate(mmu, q, v) \in Ram /\ Translate(mmu, q, v) \notin Range(f)
    BY <1>2, <1>3, <1>4, <1>5, <2>1, Frames DEF Free
  <2> QED
    BY <1>1, <2>2
<1>6. \A q \in Pgtable \ {to} : \A v \in UserPage : Content(q, v)' = Content(q, v)
  <2> SUFFICES ASSUME NEW q \in Pgtable, q # to, NEW v \in UserPage
               PROVE  Content(q, v)' = Content(q, v)
    OBVIOUS
  <2>1. q \in running' <=> q \in running
    BY <1>2
  <2>2. q \in running => Translate(mmu', q, v) = Translate(mmu, q, v)
    BY <1>1, <1>2
  <2> QED
    BY <1>5, <2>1, <2>2, Finds
<1>7. ASSUME NEW v \in UserPage PROVE Content(to, v)' = Content(current, v)
  <2>1. CASE v \in D
    <3>1. Translate(mmu', to, v) = f[v] /\ f[v] # 0 /\ f[v] \in Ram /\ f[v] \in Range(f)
      BY <1>1, <1>3, <2>1, Frames
    <3>2. (CHOOSE w \in DOMAIN f : f[w] = f[v]) = v
      BY <1>3, <2>1
    <3>3. mem'[f[v]] = mem[Translate(mmu, current, v)]
      BY <1>1, <3>1, <3>2
    <3> QED
      BY <1>2, <1>3, <2>1, <3>1, <3>3, Finds
  <2>2. CASE v \notin D
    <3>1. Translate(mmu', to, v) = 0 /\ Translate(mmu, current, v) = 0
      BY <1>1, <1>3, <2>2
    <3> QED
      BY <3>1, Finds
  <2> QED
    BY <2>1, <2>2
<1>8. Memory' = [Memory EXCEPT ![to] = Memory[current]]
  <2>1. Memory'[to] = Memory[current]
    BY <1>2, <1>7, MemoryAt
  <2> QED
    BY <1>6, <2>1, OnlyOne
<1>9. Spaces!Fork(current, to)
  BY <1>2, <1>8, MapFork
<1> QED
  BY <1>2, <1>9 DEF Spaces!Next

LEMMA StoreStep == ASSUME IInv, NEW v \in UserPage, NEW d \in Data, Store(v, d) PROVE Spaces!Next
<1> DEFINE p == Translate(mmu, current, v)
<1>1. /\ current \in running /\ running' = running /\ running \subseteq Pgtable /\ mmu' = mmu
      /\ p # 0 /\ mem' = [mem EXCEPT ![p] = d]
  BY DEF Store, IInv, MemoryOK, TablesOK, WellTyped, mmu, UserPages
<1>2. mem \in [Ram -> Data] /\ p \in Ram
  <2>1. p \in page_list[current] \cup RootCode /\ page_list[current] \subseteq Pool
    BY <1>1 DEF IInv, MemoryOK
  <2> QED
    BY <2>1, Frames DEF IInv, MemoryOK
<1>3. \A q \in running : \A w \in UserPage :
        Translate(mmu, q, w) = p => q = current /\ w = v
  BY <1>1 DEF IInv, MemoryOK
<1> HIDE DEF p
<1>4. \A q \in Pgtable : q = current => Content(q, v)' = d /\ Content(q, v) = mem[p]
  <2>1. Translate(mmu, current, v) = p /\ Translate(mmu', current, v) = p /\ mem'[p] = d
    BY <1>1, <1>2 DEF p
  <2> QED
    BY <1>1, <2>1, Finds
<1>5. \A q \in Pgtable : \A w \in UserPage :
        q # current \/ w # v => Content(q, w)' = Content(q, w)
  BY <1>1, <1>2, <1>3, Finds
<1>6. Memory' = [Memory EXCEPT ![current][v] = d]
  <2>1. \A q \in Pgtable \ {current} : Memory'[q] = Memory[q]
    BY <1>5, MemoryAt
  <2>2. Memory'[current] = [Memory[current] EXCEPT ![v] = d]
    <3>1. \A w \in UserPage : Memory'[current][w] = IF w = v THEN d ELSE Memory[current][w]
      BY <1>1, <1>4, <1>5, MemoryAt
    <3>2. /\ Memory[current] = [w \in UserPage |-> Memory[current][w]]
          /\ Memory'[current] = [w \in UserPage |-> Memory'[current][w]]
      BY <1>1, MemoryAt
    <3> QED
      BY <3>1, <3>2
  <2> QED
    BY <1>1, <2>1, <2>2, MemoryAt
<1>7. Memory[current][v] # NoData
  BY <1>1, <1>2, <1>4, MemoryAt, PageTableAssumption
<1>8. Spaces!Write(current, v, d)
  BY <1>1, <1>6, <1>7, MapWrite
<1> QED
  BY <1>1, <1>8 DEF Spaces!Next

LEMMA ExitStep == ASSUME IInv, Exit PROVE Spaces!Next
<1>1. /\ current \in running /\ running' = running \ {current} /\ running \subseteq Pgtable
      /\ mmu' = mmu /\ mem' = mem
  BY DEF Exit, IInv, MemoryOK, TablesOK, WellTyped, mmu
<1>2. \A q \in Pgtable \ {current} : \A v \in UserPage : Content(q, v)' = Content(q, v)
  BY <1>1, Finds
<1>3. Memory'[current] = [v \in UserPage |-> NoData]
  BY <1>1, Finds, MemoryAt
<1>4. Spaces!Exit(current)
  BY <1>1, <1>2, <1>3, OnlyOne, MapExit
<1> QED
  BY <1>1, <1>4 DEF Spaces!Next

\* The steps that no process sees.
LEMMA StutterStep ==
    ASSUME running' = running, mem' = mem,
           \A q \in running : \A v \in UserPage : Translate(mmu', q, v) = Translate(mmu, q, v)
    PROVE  UNCHANGED Spaces!vars
<1>1. \A q, v : v \in UserPage => Content(q, v)' = Content(q, v)
  BY Finds
<1>2. \A q \in Pgtable : Memory'[q] = Memory[q]
  BY <1>1, MemoryAt
<1>3. Memory' = Memory
  BY <1>2, MemoryAt
<1> QED
  BY <1>3, MapStutter

LEMMA SilentSteps ==
    ASSUME IInv,
           \/ UNCHANGED vars
           \/ \E r \in IoRanges : IoMap(r)
           \/ \E pg \in Pgtable : Reap(pg) \/ Switch(pg)
    PROVE  UNCHANGED Spaces!vars
<1>1. CASE UNCHANGED vars
  <2>1. mmu' = mmu /\ running' = running /\ mem' = mem
    BY <1>1 DEF vars, mmu
  <2> QED
    BY <2>1, StutterStep
<1>2. ASSUME NEW r \in IoRanges, IoMap(r) PROVE UNCHANGED Spaces!vars
  <2>1. running = {} /\ running' = running /\ mem' = mem
    BY <1>2 DEF IoMap, IInv, MemoryOK
  <2> QED
    BY <2>1, StutterStep
<1>3. ASSUME NEW pg \in Pgtable, Reap(pg) PROVE UNCHANGED Spaces!vars
  <2> DEFINE s == reset_root_pgtable(mmu, pg, TRUE)
  <2>1. mmu.l1 = l1 /\ pg \in DOMAIN mmu.l1 \ {SysPgtable} /\ TablesOK(mmu)
        /\ running' = running /\ mem' = mem /\ running \subseteq DOMAIN mmu.l1 \ {pg}
    BY <1>3 DEF IInv, MemoryOK, Reap, mmu
  <2>2. /\ TablesOK(s)
        /\ \A q \in DOMAIN mmu.l1 \ {pg} : \A v \in Page : Translate(s, q, v) = Translate(mmu, q, v)
    BY <2>1, Reset
  <2>3. mmu' = s
    BY <1>3, <2>2, After DEF Reap
  <2> HIDE DEF s
  <2> QED
    BY <2>1, <2>2, <2>3, UserInPage, StutterStep
<1>4. ASSUME NEW pg \in Pgtable, Switch(pg) PROVE UNCHANGED Spaces!vars
  <2>1. mmu' = mmu /\ running' = running /\ mem' = mem
    BY <1>4 DEF Switch, mmu
  <2> QED
    BY <2>1, StutterStep
<1> QED
  BY <1>1, <1>2, <1>3, <1>4

\* The page tables implement private memories: fork() copies, execve() and
\* exit() replace or drop one, a store changes one page of one process, and no
\* other step of mmu.c shows.
THEOREM Refinement == Spec => ImplementsAddressSpaces
<1>1. ASSUME IInv, IInv', [Next]_vars PROVE [Spaces!Next]_Spaces!vars
  <2>1. CASE \/ UNCHANGED vars
             \/ \E r \in IoRanges : IoMap(r)
             \/ \E pg \in Pgtable : Reap(pg) \/ Switch(pg)
    BY <1>1, <2>1, SilentSteps
  <2>2. ASSUME NEW pg \in Pgtable, CreateRootProcess(pg) PROVE Spaces!Next
    BY <1>1, <2>2, RootStep
  <2>3. ASSUME NEW pg \in Pgtable, Fork(pg) PROVE Spaces!Next
    BY <1>1, <2>3, ForkStep
  <2>4. ASSUME NEW V \in Images, Exec(V) PROVE Spaces!Next
    BY <1>1, <2>4, ExecStep
  <2>5. ASSUME NEW v \in UserPage, NEW d \in Data, Store(v, d) PROVE Spaces!Next
    BY <1>1, <2>5, StoreStep
  <2>6. CASE Exit
    BY <1>1, <2>6, ExitStep
  <2> QED
    BY <1>1, <2>1, <2>2, <2>3, <2>4, <2>5, <2>6 DEF Next
<1> QED
  BY <1>1, MapInit, Invariance, PTL DEF Spec, ImplementsAddressSpaces, Spaces!Spec
=============================================================================
