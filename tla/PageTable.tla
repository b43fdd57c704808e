------------------------------- MODULE PageTable -------------------------------
(***************************************************************************)
(* The two-level page tables of so3/arch/arm32/mmu.c, as process.c uses    *)
(* them at boot, in fork, execve, exit and waitpid.                        *)
(*                                                                         *)
(* Addresses are page numbers: an entry of a root table stands for         *)
(* TTB_L2_ENTRIES pages and is empty, a section, or the number of a        *)
(* second-level table in the kernel heap.  The page number 0 in a second   *)
(* level entry means that nothing is mapped, as in the code.  Cache and    *)
(* TLB maintenance is left out.                                            *)
(***************************************************************************)
EXTENDS Integers, Functions

CONSTANTS
    TTB_L1_ENTRIES, TTB_L2_ENTRIES,
    KernelIndex,      \* l1pte_index(CONFIG_KERNEL_VADDR)
    SysPgtable,       \* __sys_root_pgtable
    Pgtable,          \* the root tables of the processes
    L2Table,          \* bound: the second-level tables the heap can hold
    RamSection,       \* the section of the kernel image, CONFIG_RAM_BASE
    Pool,             \* the frames get_free_page() may return
    RootStart, RootSize,   \* the pages from __root_proc_start on,
    USER_SPACE_VADDR,      \* and where they are mapped
    Stack,            \* the pages of a user stack
    Images,           \* sets of pages an execve() may allocate
    IoRanges,         \* <<virtual, physical, size>> that the drivers map
    FIXMAP_MAPPING,
    Data              \* what a page may contain

L1Index == 0 .. TTB_L1_ENTRIES - 1
L2Index == 0 .. TTB_L2_ENTRIES - 1
UserPage == 0 .. KernelIndex * TTB_L2_ENTRIES - 1
Page == 0 .. TTB_L1_ENTRIES * TTB_L2_ENTRIES - 1

KernelImage == RamSection * TTB_L2_ENTRIES .. (RamSection + 1) * TTB_L2_ENTRIES - 1
Ram == KernelImage \cup Pool
Device == UNION {r[2] .. r[2] + r[3] - 1 : r \in IoRanges}
RootCode == RootStart .. RootStart + RootSize - 1
NoData == "none"      \* stands for what cannot be accessed

ASSUME PageTableAssumption ==
    /\ TTB_L1_ENTRIES \in Nat /\ TTB_L2_ENTRIES \in Nat \ {0, 1}
    /\ KernelIndex \in 1 .. TTB_L1_ENTRIES - 1 /\ RamSection \in 0 .. KernelIndex - 1
    /\ 0 \notin Ram \cup Device
    /\ KernelImage \cap Pool = {}
    /\ SysPgtable \notin Pgtable
    /\ NoData \notin Data

\* The root process is smaller than a section, every image has a page, and the
\* ranges of the drivers are of the kernel, without the page of the fixmap, which
\* is not under the section of the kernel either.
ASSUME LayoutAssumption ==
    /\ RootSize \in 1 .. TTB_L2_ENTRIES - 1 /\ RootStart \in Nat
    /\ RootCode \subseteq KernelImage
    /\ USER_SPACE_VADDR \in UserPage /\ USER_SPACE_VADDR + RootSize - 1 \in UserPage
    /\ Stack \subseteq UserPage
    /\ Images \subseteq (SUBSET UserPage) \ {{}}
    /\ FIXMAP_MAPPING \in Page \ UserPage /\ FIXMAP_MAPPING \div TTB_L2_ENTRIES # KernelIndex
    /\ \A r \in IoRanges :
         /\ r \in Nat \X Nat \X (Nat \ {0})
         /\ r[1] .. r[1] + r[3] - 1 \subseteq Page \ (UserPage \cup {FIXMAP_MAPPING})

VARIABLES
    l1,          \* the root tables that are allocated
    l2,          \* the second-level tables that are allocated
    current,     \* __current_pgtable
    running,     \* the processes that are neither zombie nor gone
    page_list,   \* pcb->page_list
    mem          \* what each frame contains

vars == <<l1, l2, current, running, page_list, mem>>

Fault == [type |-> "fault", at |-> 0]
Section(b) == [type |-> "section", at |-> b]
Table(t) == [type |-> "table", at |-> t]
SectionBase == {p \div TTB_L2_ENTRIES : p \in KernelImage \cup Device}
Entry == {Fault} \cup {Section(b) : b \in SectionBase} \cup {Table(t) : t \in L2Table}
Frame == {0} \cup Ram \cup Device

\* The tables have their shape, name existing frames, and frames are of RAM.
TypeOK ==
    /\ DOMAIN l1 \in SUBSET (Pgtable \cup {SysPgtable})
    /\ l1 \in [DOMAIN l1 -> [L1Index -> Entry]]
    /\ DOMAIN l2 \in SUBSET L2Table
    /\ l2 \in [DOMAIN l2 -> [L2Index -> Frame]]
    /\ current \in DOMAIN l1
    /\ running \in SUBSET Pgtable
    /\ page_list \in [Pgtable -> SUBSET Pool]
    /\ mem \in [Ram -> Data]

-----------------------------------------------------------------------------
\* The operations of mmu.c, on a state s of the tables, [l1, l2].

mmu == [l1 |-> l1, l2 |-> l2]

l1pte_index(v) == v \div TTB_L2_ENTRIES
PageAt(i, j) == i * TTB_L2_ENTRIES + j
EmptyTable == [j \in L2Index |-> 0]

\* The entries of a root table that the pages v .. v + n - 1 meet, and those
\* they cover from their first page to their last.
Met(v, n) == l1pte_index(v) .. l1pte_index(v + n - 1)
Whole(v, n) == {i \in Met(v, n) : v <= PageAt(i, 0) /\ PageAt(i + 1, 0) <= v + n}

\* The root entries under which the pages of a set lie, those of them for which
\* root table pg has no second-level table yet, and whether the heap can hold
\* these: memalign() is under ASSERT(), which stops the kernel.
IndexesOf(pages) == {l1pte_index(v) : v \in pages}
Missing(s, pg, pages) == {i \in IndexesOf(pages) : s.l1[pg][i] = Fault}
HasRoom(s, pg, pages) == Injection(Missing(s, pg, pages), L2Table \ DOMAIN s.l2) # {}

\* memalign(): which free block it returns does not matter.
NewTables(s, pg, pages) ==
    CHOOSE new \in Injection(Missing(s, pg, pages), L2Table \ DOMAIN s.l2) : TRUE

\* Maps every page v in the domain of f to the frame f[v], with second-level
\* entries; a table is allocated, and zeroed, where the root entry is empty.
alloc_init_pte(s, pg, f) ==
    LET index == IndexesOf(DOMAIN f)
        need == Missing(s, pg, DOMAIN f)
        new == NewTables(s, pg, DOMAIN f)
        root == [i \in L1Index |-> IF i \in need THEN Table(new[i]) ELSE s.l1[pg][i]]
        Filled(i) == [j \in L2Index |-> IF PageAt(i, j) \in DOMAIN f THEN f[PageAt(i, j)]
                                        ELSE IF i \in need THEN 0
                                        ELSE s.l2[root[i].at][j]]
    IN  [l1 |-> [s.l1 EXCEPT ![pg] = root],
         l2 |-> [t \in DOMAIN s.l2 \cup {new[i] : i \in need} |->
                   IF \E i \in index : root[i] = Table(t)
                   THEN Filled(CHOOSE i \in index : root[i] = Table(t)) ELSE s.l2[t]]]

\* Sections where the addresses and the size allow, pages elsewhere.
Sections(v, p, n) == IF (p - v) % TTB_L2_ENTRIES = 0 THEN Whole(v, n) ELSE {}
SmallPages(v, p, n) == {w \in v .. v + n - 1 : l1pte_index(w) \notin Sections(v, p, n)}

create_mapping(s, pg, v, p, n) ==
    LET r == alloc_init_pte(s, pg, [w \in SmallPages(v, p, n) |-> p + w - v])
    IN  [r EXCEPT !.l1[pg] =
           [i \in L1Index |-> IF i \in Sections(v, p, n)
                              THEN Section(l1pte_index(p - v + PageAt(i, 0)))
                              ELSE @[i]]]

\* Mutant: the table is freed without looking for entries that remain.
ReleaseFreesTable(s, pg, v, n) ==
    LET gone == {s.l1[pg][i].at : i \in Met(v, n) \ Whole(v, n)}
    IN  [l1 |-> [s.l1 EXCEPT ![pg] = [i \in L1Index |-> IF i \in Met(v, n) THEN Fault ELSE @[i]]],
         l2 |-> [t \in DOMAIN s.l2 \ gone |-> s.l2[t]]]

\* free_l1_mapping() and free_l2_mapping(): the entries are emptied, and a
\* table without any entry left is freed.
release_mapping(s, pg, v, n) ==
    LET part == Met(v, n) \ Whole(v, n)
        Cleared(i) == [j \in L2Index |-> IF PageAt(i, j) \in v .. v + n - 1
                                         THEN 0 ELSE s.l2[s.l1[pg][i].at][j]]
        empty == {i \in part : Cleared(i) = EmptyTable}
        of(t) == {i \in part : s.l1[pg][i] = Table(t)}
    IN  [l1 |-> [s.l1 EXCEPT ![pg] = [i \in L1Index |-> IF i \in Whole(v, n) \cup empty
                                                        THEN Fault ELSE @[i]]],
         l2 |-> [t \in {t \in DOMAIN s.l2 : of(t) \cap empty = {}} |->
                   IF of(t) = {} THEN s.l2[t] ELSE Cleared(CHOOSE i \in of(t) : TRUE)]]

\* new_root_pgtable() and pgtable_copy_kernel_area(): the kernel entries are
\* copied, so that their second-level tables are shared.
NewRootPgtable(s, pg) ==
    LET root == [i \in L1Index |-> IF i < KernelIndex THEN Fault ELSE s.l1[SysPgtable][i]]
    IN  [s EXCEPT !.l1 = [q \in DOMAIN s.l1 \cup {pg} |-> IF q = pg THEN root ELSE s.l1[q]]]

\* The user entries are emptied and their tables freed; the kernel entries stay.
reset_root_pgtable(s, pg, remove) ==
    LET user == 0 .. KernelIndex - 1
        freed == {t \in DOMAIN s.l2 : \E i \in user : s.l1[pg][i] = Table(t)}
        root == [i \in L1Index |-> IF i \in user THEN Fault ELSE s.l1[pg][i]]
        kept == IF remove THEN DOMAIN s.l1 \ {pg} ELSE DOMAIN s.l1
    IN  [l1 |-> [q \in kept |-> IF q = pg THEN root ELSE s.l1[q]],
         l2 |-> [t \in DOMAIN s.l2 \ freed |-> s.l2[t]]]

\* The frame the MMU finds for page v, 0 when the access aborts.
Translate(s, pg, v) ==
    LET pte == s.l1[pg][l1pte_index(v)]
    IN  CASE pte.type = "fault" -> 0
          [] pte.type = "section" -> PageAt(pte.at, v % TTB_L2_ENTRIES)
          [] pte.type = "table" -> s.l2[pte.at][v % TTB_L2_ENTRIES]

UserPages(s, pg) == {v \in UserPage : Translate(s, pg, v) # 0}

\* The walk of virt_to_phys_pt(); BUG_ON() where the root entry is empty.  For
\* a section the offset kept is that within a page: ~PAGE_MASK.
virt_to_phys_pt(v) ==
    LET pte == l1[current][l1pte_index(v)]
    IN  IF pte.type = "section" THEN PageAt(pte.at, 0) ELSE Translate(mmu, current, v)

\* The fixmap entry of the current table is set for every page that is copied
\* and released at the end: only the last page shows.
UseFixmap(s, p) ==
    release_mapping(alloc_init_pte(s, current, [v \in {FIXMAP_MAPPING} |-> p]),
                    current, FIXMAP_MAPPING, 1)

\* Mutant: the entries of the child name the frames of its parent.
DuplicateAliases(s, to, f) ==
    LET same == [v \in DOMAIN f |-> Translate(s, current, v)]
    IN  UseFixmap(alloc_init_pte(s, to, same), CHOOSE p \in Range(f) : TRUE)

\* duplicate_user_space() from the current process: a table for every table,
\* and for every page v that is mapped the frame f[v].  The heap must hold the
\* tables of the copy, and one for the fixmap.
CanDuplicate(s, to, f) ==
    /\ HasRoom(s, to, DOMAIN f)
    /\ HasRoom(alloc_init_pte(s, to, f), current, {FIXMAP_MAPPING})

duplicate_user_space(s, to, f) ==
    UseFixmap(alloc_init_pte(s, to, f), CHOOSE p \in Range(f) : TRUE)

-----------------------------------------------------------------------------

\* The frames the allocator holds.
Free == Pool \ UNION Range(page_list)

Becomes(s) == l1' = s.l1 /\ l2' = s.l2

\* The section of the kernel is mapped before anything runs, also at its own
\* address.
mmu_configure ==
    /\ l1 = [pg \in {SysPgtable} |->
               [i \in L1Index |-> IF i \in {RamSection, KernelIndex}
                                  THEN Section(RamSection) ELSE Fault]]
    /\ l2 = [t \in {} |-> EmptyTable]

Init ==
    /\ mmu_configure
    /\ current = SysPgtable
    /\ running = {}
    /\ page_list = [pg \in Pgtable |-> {}]
    /\ \E d \in Data : mem = [p \in Ram |-> d]

\* A driver maps its registers at boot, through io_map(), where nothing is.
IoMap(r) ==
    /\ current = SysPgtable
    /\ \A v \in r[1] .. r[1] + r[3] - 1 : Translate(mmu, SysPgtable, v) = 0
    /\ HasRoom(mmu, SysPgtable, SmallPages(r[1], r[2], r[3]))
    /\ Becomes(create_mapping(mmu, SysPgtable, r[1], r[2], r[3]))
    /\ UNCHANGED <<current, running, page_list, mem>>

\* create_root_process(), and the switch to the first process.
CreateRootProcess(pg) ==
    /\ current = SysPgtable
    /\ \E f \in Injection(Stack, Free) :
         LET new == NewRootPgtable(mmu, pg)
             s == alloc_init_pte(new, pg, f)
         IN  /\ HasRoom(new, pg, Stack)
             /\ HasRoom(s, pg, SmallPages(USER_SPACE_VADDR, RootStart, RootSize))
             /\ Becomes(create_mapping(s, pg, USER_SPACE_VADDR, RootStart, RootSize))
             /\ page_list' = [page_list EXCEPT ![pg] = Range(f)]
    /\ running' = {pg}
    /\ current' = pg
    /\ UNCHANGED mem

\* do_fork() of the current process: the copy of a page is made through
\* FIXMAP_MAPPING from what the current table maps.
Fork(to) ==
    /\ current \in running
    /\ to \notin DOMAIN l1
    /\ \E f \in Injection(UserPages(mmu, current), Free) :
         /\ CanDuplicate(NewRootPgtable(mmu, to), to, f)
         /\ Becomes(duplicate_user_space(NewRootPgtable(mmu, to), to, f))
         /\ page_list' = [page_list EXCEPT ![to] = Range(f)]
         /\ mem' = [p \in Ram |-> IF p \in Range(f)
                                  THEN mem[Translate(mmu, current, CHOOSE v \in DOMAIN f : f[v] = p)]
                                  ELSE mem[p]]
    /\ running' = running \cup {to}
    /\ UNCHANGED current

\* do_execve() of the current process, down to the loading of its image.
Exec(V) ==
    /\ current \in running
    /\ HasRoom(reset_root_pgtable(mmu, current, FALSE), current, V)
    /\ \E f \in Injection(V, Free \cup page_list[current]) :
         /\ Becomes(alloc_init_pte(reset_root_pgtable(mmu, current, FALSE), current, f))
         /\ page_list' = [page_list EXCEPT ![current] = Range(f)]
         /\ \E image \in Data :
              mem' = [p \in Ram |-> IF p \in Range(f) THEN image ELSE mem[p]]
    /\ UNCHANGED <<current, running>>

\* The current process stores d in its page v.
Store(v, d) ==
    /\ current \in running
    /\ v \in UserPages(mmu, current)
    /\ mem' = [mem EXCEPT ![Translate(mmu, current, v)] = d]
    /\ UNCHANGED <<l1, l2, current, running, page_list>>

\* do_exit() of the current process: its frames go, its tables stay.
Exit ==
    /\ current \in running
    /\ running' = running \ {current}
    /\ page_list' = [page_list EXCEPT ![current] = {}]
    /\ UNCHANGED <<l1, l2, current, mem>>

\* do_waitpid() of the current process, on the zombie pg.
Reap(pg) ==
    /\ current \in running
    /\ pg \in (DOMAIN l1 \ running) \ {SysPgtable}
    /\ Becomes(reset_root_pgtable(mmu, pg, TRUE))
    /\ UNCHANGED <<current, running, page_list, mem>>

\* The scheduler calls mmu_switch().
Switch(pg) ==
    /\ current # SysPgtable
    /\ pg \in running \ {current}
    /\ current' = pg
    /\ UNCHANGED <<l1, l2, running, page_list, mem>>

Next ==
    \/ \E r \in IoRanges : IoMap(r)
    \/ \E pg \in Pgtable : CreateRootProcess(pg) \/ Fork(pg) \/ Reap(pg) \/ Switch(pg)
    \/ \E V \in Images : Exec(V)
    \/ \E v \in UserPage, d \in Data : Store(v, d)
    \/ Exit

Spec == Init /\ [][Next]_vars

-----------------------------------------------------------------------------

\* Every second-level table in the heap is named by a root table, one of the
\* user space by a single entry, and no entry names a table that was freed.
\* Broken when the reset, the release or the copy of the tables in mmu.c
\* forgets a table, frees a shared one, or shares one of the user space.
TablesAccounted ==
    LET Names(pg, i) == {t \in L2Table : l1[pg][i] = Table(t)}
        Entries == (DOMAIN l1) \X L1Index
    IN  /\ TypeOK
        /\ DOMAIN l2 = UNION {Names(e[1], e[2]) : e \in Entries}
        /\ \A e, d \in Entries :
             /\ e[2] < KernelIndex /\ e # d
             => Names(e[1], e[2]) \cap Names(d[1], d[2]) = {}

\* What process pg finds in its page v.
Content(pg, v) ==
    IF pg \in running /\ Translate(mmu, pg, v) # 0
    THEN mem[Translate(mmu, pg, v)] ELSE NoData

Spaces == INSTANCE AddressSpaces WITH
    Proc <- Pgtable,
    alive <- running,
    space <- [pg \in Pgtable |-> [v \in UserPage |-> Content(pg, v)]]

\* Through fork, execve, exit, waitpid and the reuse of frames and tables,
\* each process has a private memory: process.c and mmu.c keep two processes
\* from mapping the same frame and a copy from differing from its original.
ImplementsAddressSpaces == Spaces!Spec

\* do_translate() tells a process where its pages are: distinct frames that it
\* owns, but for those of the kernel image that the root process runs on, also
\* after the tables, the frames and the fixmap entry changed hands.
TranslatesOwnPages ==
    current \in running =>
        \A v \in UserPages(mmu, current) :
            /\ virt_to_phys_pt(v) \in page_list[current] \cup RootCode
            /\ \A w \in UserPages(mmu, current) :
                   w # v => virt_to_phys_pt(w) # virt_to_phys_pt(v)
=============================================================================
