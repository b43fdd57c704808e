------------------------------ MODULE MemReplace ------------------------------
(***************************************************************************)
(* The page replacement simulator of lab 07, usr/src/memreplace.c: the     *)
(* user names pages one after the other, and on a fault a resident page is *)
(* evicted by LRU or by WSClock, as argv[1] says.                          *)
(*                                                                         *)
(* An entry of page_table is the set of its status bits; the page number   *)
(* it also stores is its index.  compteur_global, TVC and the TDUs are     *)
(* uint8_t: they count modulo CounterMod.  The variables from accessed on  *)
(* are history, which only properties read: they tell which pages the user *)
(* named and which left the memory, and nothing of the algorithms' bits    *)
(* and times.                                                              *)
(***************************************************************************)
EXTENDS Integers, FiniteSets, FiniteSetsExt

CONSTANTS
    NB_PAGES,     \* the number of pages
    Resident,     \* the pages init_page_table() makes valid
    DELTA,        \* the age over which a page leaves the working set
    CounterMod,   \* 256 in the code
    MaxLRU        \* bound: LRU is followed while its clock is below it; with
                  \* CounterMod, for ever

ASSUME MemReplaceAssumption ==
    /\ NB_PAGES \in Nat /\ DELTA \in Nat /\ MaxLRU \in Nat
    /\ CounterMod \in Nat \ {0}
    /\ Resident \subseteq 0 .. NB_PAGES - 1
    /\ Resident # {} /\ Resident # 0 .. NB_PAGES - 1

Page == 0 .. NB_PAGES - 1

REF_BIT_MASK == {"REF"}
SWAP_BIT_MASK == {"SWAP"}
VALID_BIT_MASK == {"VALID"}
Bit == {"REF", "SWAP", "VALID"}

VARIABLES
    page_table,       \* the status bits of each page
    TDU,              \* the time of last use of each page
    compteur_global,  \* the clock of LRU
    TVC,              \* the virtual time of WSClock
    LRU_run,          \* which algorithm argv[1] chose
    accessed,         \* history: the pages accessed
    later,            \* history: the pages accessed after the last access to each page
    used,             \* history: the pages in memory accessed since a fault last may
                      \* have passed them over
    cold              \* history: the pages in memory not accessed since a fault last
                      \* must have passed them over

replaceVars == <<page_table, TDU, compteur_global, TVC, LRU_run,
                 accessed, later, used, cold>>

ReplaceTypeOK ==
    /\ page_table \in [Page -> SUBSET Bit]
    /\ TDU \in [Page -> 0 .. CounterMod - 1]
    /\ compteur_global \in 0 .. CounterMod - 1
    /\ TVC \in 0 .. CounterMod - 1
    /\ LRU_run \in BOOLEAN
    /\ accessed \subseteq Page
    /\ later \in [Page -> SUBSET Page]
    /\ used \subseteq Page /\ cold \subseteq Page

Has(i, mask) == page_table[i] \cap mask # {}
Valid == {i \in Page : Has(i, VALID_BIT_MASK)}
Referenced == {i \in Page : Has(i, REF_BIT_MASK)}

\* init_page_table(): one page more than those in memory starts in the swap.
ReplaceInit ==
    /\ page_table = [i \in Page |->
            IF i \in Resident THEN VALID_BIT_MASK
            ELSE IF i = Min(Page \ Resident) THEN SWAP_BIT_MASK ELSE {}]
    /\ TDU = [i \in Page |-> 0]
    /\ compteur_global = 0
    /\ TVC = 0
    /\ LRU_run \in BOOLEAN
    /\ accessed = {}
    /\ later = [i \in Page |-> {}]
    /\ used = {} /\ cold = Resident

-----------------------------------------------------------------------------

\* Moving page i out of memory.
Evicted(table, i) == [table EXCEPT ![i] = (@ \ VALID_BIT_MASK) \cup SWAP_BIT_MASK]

\* Mutant: the most recently used page is chosen.
MostRecentlyUsed ==
    CHOOSE i \in Valid : \A j \in Valid : TDU[i] > TDU[j] \/ (TDU[i] = TDU[j] /\ i <= j)

\* Mutant: pages that are not in memory are candidates too.
AnyLeastRecentlyUsed ==
    CHOOSE i \in Page : \A j \in Page : TDU[i] < TDU[j] \/ (TDU[i] = TDU[j] /\ i <= j)

\* The page replaceLRU() selects: the lowest TDU, the first of them on a tie.
LeastRecentlyUsed ==
    CHOOSE i \in Valid : \A j \in Valid : TDU[i] < TDU[j] \/ (TDU[i] = TDU[j] /\ i <= j)

replaceLRU == Evicted(page_table, LeastRecentlyUsed)

\* The valid pages that have had their second chance and are out of the working
\* set.  The difference is computed on int: it is negative once TVC has wrapped.
OutOfWorkingSet == {i \in Valid \ Referenced : TVC - TDU[i] > DELTA}

\* Mutant: the pages behind the one that is found lose their reference bit too.
replaceWSCClearsAll ==
    Evicted([i \in Page |-> IF i \in Valid THEN page_table[i] \ REF_BIT_MASK ELSE page_table[i]],
            IF OutOfWorkingSet # {} THEN Min(OutOfWorkingSet) ELSE Min(Valid))

\* replaceWSC(): the first such page, or the first valid page if there is none;
\* the valid pages passed on the way lose their reference bit.
replaceWSC ==
    LET found == OutOfWorkingSet # {}
        victim == IF found THEN Min(OutOfWorkingSet) ELSE Min(Valid)
        passed == {i \in Valid : found => i < victim}
    IN  Evicted([i \in Page |-> IF i \in passed THEN page_table[i] \ REF_BIT_MASK
                                ELSE page_table[i]],
                victim)

\* updateTDU(): the pages whose entry has the bits of both masks at once.
updateTDU(table, time) ==
    [i \in Page |-> IF table[i] \cap REF_BIT_MASK \cap VALID_BIT_MASK # {} THEN time ELSE TDU[i]]

\* Page i is now in memory.
Loaded(table, i) == [table EXCEPT ![i] = (@ \ SWAP_BIT_MASK) \cup VALID_BIT_MASK]

\* One turn of the main loop under LRU, for page i.
AccessLRU(i) ==
    /\ LRU_run
    /\ page_table' = IF i \in Valid THEN page_table ELSE Loaded(replaceLRU, i)
    /\ compteur_global' = (compteur_global + 1) % CounterMod
    /\ TDU' = [TDU EXCEPT ![i] = compteur_global']
    /\ UNCHANGED TVC

\* One turn of the main loop under WSClock, for page i.
AccessWSC(i) ==
    /\ ~LRU_run
    /\ LET table == IF i \in Valid THEN page_table ELSE Loaded(replaceWSC, i)
       IN  page_table' = [table EXCEPT ![i] = @ \cup REF_BIT_MASK]
    /\ TVC' = (TVC + 1) % CounterMod
    /\ TDU' = updateTDU(page_table', TVC')
    /\ UNCHANGED compteur_global

\* The pages a fault that puts page v out passes over for certain: those before v,
\* and all of them if v was used.  It may have passed all if v is the first page.
MustPass(v) == {q \in Valid : q < v \/ v \in used}
MayPass(v) == {q \in Valid : q < v \/ v = Min(Valid)}

\* The history of an access to page i; the last two are about WSClock.
Remember(i) ==
    /\ accessed' = accessed \cup {i}
    /\ later' = [j \in Page |-> IF j = i THEN {} ELSE later[j] \cup {i}]
    /\ \/ LRU_run /\ UNCHANGED <<used, cold>>
       \/ /\ ~LRU_run
          /\ LET out == Valid \ Valid'
             IN  /\ used' = (used \ (out \cup UNION {MayPass(v) : v \in out})) \cup {i}
                 /\ cold' = (cold \cup UNION {MustPass(v) : v \in out}) \ (out \cup {i})

Access(i) ==
    /\ LRU_run => compteur_global < MaxLRU
    /\ AccessLRU(i) \/ AccessWSC(i)
    /\ Remember(i)
    /\ UNCHANGED LRU_run

ReplaceNext == \E i \in Page : Access(i)

ReplaceSpec == ReplaceInit /\ [][ReplaceNext]_replaceVars

-----------------------------------------------------------------------------
\* Properties

\* As many pages are in memory as at the start: each fault evicts exactly one
\* resident page, and never page_table[-1].  The page just accessed is in memory,
\* and every page accessed, or resident at the start, is either in memory or in
\* the swap, and never in both.
FaultsExchangePages ==
    /\ ReplaceTypeOK
    /\ Cardinality(Valid) = Cardinality(Resident)
    /\ \A i \in accessed : later[i] = {} => i \in Valid
    /\ \A i \in Resident \cup accessed :
           Has(i, VALID_BIT_MASK) <=> ~Has(i, SWAP_BIT_MASK)

\* The page LRU puts out was not accessed since the last access to any other
\* resident page: no resident page was used before it.
EvictsLeastRecent ==
    [][LRU_run => \A v \in Valid \ Valid' : \A q \in Valid : v \notin later[q]]_replaceVars

\* WSClock keeps a page that was used, by a hit or by the fault that brought it in,
\* since any fault may have passed it over, as long as some page has not been used
\* since a fault passed that one over, however many accesses and faults came between.
\* Not so during the DELTA + 1 accesses after each wrap of TVC, when no page looks old
\* and the first one goes.
UnusedGoFirst ==
    [][~LRU_run /\ TVC > DELTA =>
        \A v \in Valid \ Valid' : v \in used => cold = {}]_replaceVars
=============================================================================
