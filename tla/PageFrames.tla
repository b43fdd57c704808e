------------------------------ MODULE PageFrames ------------------------------
(***************************************************************************)
(* The user memory of the SO3 processes: the page frames handed out by the *)
(* kernel, the list of pages each PCB owns, and what each process maps.    *)
(*                                                                         *)
(* Sources: so3/kernel/process.c (add_page_to_proc, allocate_page,         *)
(* release_proc_pages) and so3/arch/arm32/mmu.c (new_root_pgtable,         *)
(* reset_root_pgtable, duplicate_user_space).  The frame allocator         *)
(* (get_free_page, free_page) is outside the repository: it is a set of    *)
(* free frames from which any frame may be taken.                          *)
(*                                                                         *)
(* A page table is abstracted to the set of frames it maps: virtual        *)
(* addresses do not matter to the properties stated on this module.  Every *)
(* operation below runs with the IRQs off in the code, hence is one step.  *)
(***************************************************************************)
EXTENDS Naturals, FiniteSets, FiniteSetsExt

CONSTANTS
    MaxPid,       \* bound: the number of processes ever created
    Frame,        \* the frames managed by the allocator
    KernelFrame   \* the frames of the kernel image, which hold the root code

ASSUME FramesAssumption ==
    /\ MaxPid \in Nat \ {0}
    /\ IsFiniteSet(Frame)
    /\ IsFiniteSet(KernelFrame)
    /\ Frame \cap KernelFrame = {}

Pid == 1 .. MaxPid

VARIABLES
    freeFrames,   \* frames get_free_page() may return
    refcount,     \* page->refcount
    page_list,    \* pcb->page_list, as the set of its frames
    pgtable,      \* the frames mapped in user space by pcb->pgtable
    tables        \* the processes whose root page table is allocated

frameVars == <<freeFrames, refcount, page_list, pgtable, tables>>

FramesTypeOK ==
    /\ freeFrames \in SUBSET Frame
    /\ refcount \in [Frame -> Nat]
    /\ page_list \in [Pid -> SUBSET Frame]
    /\ pgtable \in [Pid -> SUBSET (Frame \cup KernelFrame)]
    /\ tables \in SUBSET Pid

FramesInit ==
    /\ freeFrames = Frame
    /\ refcount = [f \in Frame |-> 0]
    /\ page_list = [p \in Pid |-> {}]
    /\ pgtable = [p \in Pid |-> {}]
    /\ tables = {}

-----------------------------------------------------------------------------

\* The frames n calls of get_free_page() can take from avail; no member when
\* memory is exhausted, where the code stops in BUG_ON(!page).
get_free_pages(n, avail) == kSubset(n, avail)

\* The frames release_proc_pages(p) gives back: the last reference goes.
Released(p) == {f \in page_list[p] : refcount[f] = 1}

\* page->refcount of every frame after p dropped its pages and a process
\* took a reference on those of S.
Recounted(dropped, S) ==
    [f \in Frame |-> refcount[f] - (IF f \in dropped THEN 1 ELSE 0)
                                 + (IF f \in S THEN 1 ELSE 0)]

\* A fresh root table, with allocate_page() mapping S and recording it in the
\* page list, next to image, which is mapped but not recorded.
CreateUserSpace(p, S, image) ==
    /\ tables' = tables \cup {p}
    /\ pgtable' = [pgtable EXCEPT ![p] = S \cup image]
    /\ page_list' = [page_list EXCEPT ![p] = S]
    /\ refcount' = Recounted({}, S)
    /\ freeFrames' = freeFrames \ S

\* A fresh root table for the child, and one new frame of S per page mapped by
\* the parent.
DuplicateUserSpace(from, to, S) ==
    /\ S \in get_free_pages(Cardinality(pgtable[from]), freeFrames)
    /\ CreateUserSpace(to, S, {})

\* Mutant: the old mappings are not emptied by reset_root_pgtable().
ReplaceKeepsMappings(p, n) ==
    \E S \in get_free_pages(n, freeFrames \cup Released(p)) :
        /\ pgtable' = [pgtable EXCEPT ![p] = @ \cup S]
        /\ page_list' = [page_list EXCEPT ![p] = S]
        /\ refcount' = Recounted(page_list[p], S)
        /\ freeFrames' = (freeFrames \cup Released(p)) \ S
        /\ UNCHANGED tables

\* Mutant: the new image is allocated without releasing the pages of the old one.
ReplaceForgetsRelease(p, n) ==
    \E S \in get_free_pages(n, freeFrames) :
        /\ pgtable' = [pgtable EXCEPT ![p] = S]
        /\ page_list' = [page_list EXCEPT ![p] = S]
        /\ refcount' = Recounted({}, S)
        /\ freeFrames' = freeFrames \ S
        /\ UNCHANGED tables

\* exec(): the user entries are emptied, the pages given back, and the stack,
\* sections, heap and arguments allocated, maybe in the frames just released.
ReplaceUserSpace(p, n) ==
    \E S \in get_free_pages(n, freeFrames \cup Released(p)) :
        /\ pgtable' = [pgtable EXCEPT ![p] = S]
        /\ page_list' = [page_list EXCEPT ![p] = S]
        /\ refcount' = Recounted(page_list[p], S)
        /\ freeFrames' = (freeFrames \cup Released(p)) \ S
        /\ UNCHANGED tables

\* Mutant: exit() already frees the root page table.
ReleaseFreesTable(p) ==
    /\ page_list' = [page_list EXCEPT ![p] = {}]
    /\ refcount' = Recounted(page_list[p], {})
    /\ freeFrames' = freeFrames \cup Released(p)
    /\ tables' = tables \ {p}
    /\ UNCHANGED pgtable

\* The pages of p go back to the allocator; its page table still maps them.
release_proc_pages(p) ==
    /\ page_list' = [page_list EXCEPT ![p] = {}]
    /\ refcount' = Recounted(page_list[p], {})
    /\ freeFrames' = freeFrames \cup Released(p)
    /\ UNCHANGED <<pgtable, tables>>

\* reset_root_pgtable(pgtable, true): the user entries and the table itself.
FreeRootPgtable(p) ==
    /\ pgtable' = [pgtable EXCEPT ![p] = {}]
    /\ tables' = tables \ {p}
    /\ UNCHANGED <<freeFrames, refcount, page_list>>

-----------------------------------------------------------------------------

\* The reference count of a frame is the number of page lists that hold it, a
\* frame is free exactly when nobody counts it, and no frame is in the page
\* lists of two processes.  Broken when an error or exit path of process.c
\* forgets, or repeats, the release of a page.
FrameOwnership ==
    /\ \A f \in Frame : /\ f \in freeFrames <=> refcount[f] = 0
                        /\ refcount[f] = Cardinality({p \in Pid : f \in page_list[p]})
    /\ \A p, q \in Pid : p # q => page_list[p] \cap page_list[q] = {}
=============================================================================
