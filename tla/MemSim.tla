-------------------------------- MODULE MemSim --------------------------------
(***************************************************************************)
(* The paged memory simulated by lab 06, usr/src/memsim.c: get_byte() and  *)
(* store_byte() translate a 16-bit virtual address through page_table.     *)
(*                                                                         *)
(* An entry of page_table holds the page frame in its high bits and, when  *)
(* MEMORY_PTE_ATTRIBUTES_ACTIVE is set, a valid bit and two access bits in *)
(* its low ones: the entries are numbers here as they are there, of a      *)
(* width that MEMORY_PAGE_NUM and MEMORY_PAGE_SIZE give.  Shifts and masks *)
(* are divisions and remainders by powers of two.                          *)
(***************************************************************************)
EXTENDS Integers

CONSTANTS
    MEMORY_PAGE_NUM,   \* the number of pages: 256, or 64 in step 4
    MEMORY_PAGE_SIZE,  \* the size of a page, 2^SHIFT_RIGHT: 256, or 1024
    Vaddr,             \* bound: the addresses, of 32 bits, that are accessed
    Byte               \* the bytes stored, 0 among them

\* MASK is MEMORY_PAGE_SIZE - 1 for a page number too: both widths make it
\* harmless, and leave room for the three attribute bits under the frame.
ASSUME MemSimAssumption ==
    /\ MEMORY_PAGE_NUM \in Nat \ {0} /\ MEMORY_PAGE_SIZE \in Nat \ {0}
    /\ MEMORY_PAGE_SIZE % 8 = 0 /\ MEMORY_PAGE_NUM <= MEMORY_PAGE_SIZE
    /\ Vaddr \subseteq Nat
    /\ 0 \in Byte

Page == 0 .. MEMORY_PAGE_NUM - 1

\* What 16 bits can hold.
Width == MEMORY_PAGE_NUM * MEMORY_PAGE_SIZE

VARIABLES
    attributes,   \* MEMORY_PTE_ATTRIBUTES_ACTIVE, for good
    page_table,
    main_mem,
    result        \* what the last call returned

vars == <<attributes, page_table, main_mem, result>>

R_PATTERN == 1
W_PATTERN == 2
X_PATTERN == 3
RWX_PATTERN == 0

Failed == [status |-> -1, byte |-> 0]
Returned(b) == [status |-> 0, byte |-> b]

\* The offsets of the addresses that are accessed: the others are not followed.
Offset == {v % MEMORY_PAGE_SIZE : v \in Vaddr}

TypeOK ==
    /\ attributes \in BOOLEAN
    /\ page_table \in [Page -> 0 .. Width - 1]
    /\ main_mem \in [Page \X Offset -> Byte]
    /\ result \in [status : {-1, 0}, byte : Byte]

-----------------------------------------------------------------------------

\* The attribute bits of entry i.
Attributes(i) ==
    (IF i \in 5 .. 8 THEN 0 ELSE 1) + (IF i \in 10 .. 12 THEN R_PATTERN * 2 ELSE 0)

\* Mutant: the frames are counted from MEMORY_PAGE_NUM.
FrameOffByOne(i) == MEMORY_PAGE_NUM - i

\* The frame of page i: the pages are laid out in reverse.
Frame(i) == MEMORY_PAGE_NUM - 1 - i

init_page_table ==
    [i \in Page |-> Frame(i) * MEMORY_PAGE_SIZE + (IF attributes THEN Attributes(i) ELSE 0)]

Init ==
    /\ attributes \in BOOLEAN
    /\ page_table = init_page_table
    /\ main_mem = [cell \in Page \X Offset |-> 0]
    /\ result = Failed

\* virt_to_pte(): the address is an uint16_t there.
virt_to_pte(vaddr) == page_table[((vaddr % Width) \div MEMORY_PAGE_SIZE) % MEMORY_PAGE_SIZE]

IsValid(pte) == pte % 2 = 1
AccessBits(pte) == (pte \div 2) % 4

CanRead(pte) == attributes => IsValid(pte) /\ AccessBits(pte) \notin {W_PATTERN, X_PATTERN}

\* Mutant: the access bits are not looked at.
CanWriteValid(pte) == attributes => IsValid(pte)

CanWrite(pte) == attributes => IsValid(pte) /\ AccessBits(pte) \in {RWX_PATTERN, W_PATTERN}

\* The byte of main_mem that vaddr stands for.
Cell(pte, vaddr) == <<pte \div MEMORY_PAGE_SIZE, (vaddr % Width) % MEMORY_PAGE_SIZE>>

get_byte(vaddr) ==
    LET pte == virt_to_pte(vaddr) IN
    /\ result' = IF CanRead(pte) THEN Returned(main_mem[Cell(pte, vaddr)]) ELSE Failed
    /\ UNCHANGED <<attributes, page_table, main_mem>>

store_byte(vaddr, byte) ==
    LET pte == virt_to_pte(vaddr) IN
    /\ main_mem' = IF CanWrite(pte) THEN [main_mem EXCEPT ![Cell(pte, vaddr)] = byte]
                   ELSE main_mem
    /\ result' = IF CanWrite(pte) THEN Returned(0) ELSE Failed
    /\ UNCHANGED <<attributes, page_table>>

Next ==
    \/ \E vaddr \in Vaddr : get_byte(vaddr)
    \/ \E vaddr \in Vaddr, byte \in Byte : store_byte(vaddr, byte)

Spec == Init /\ [][Next]_vars

-----------------------------------------------------------------------------
\* Properties

\* The virtual addresses accessed, on 16 bits.
Address == {v % Width : v \in Vaddr}

PageOf(a) == a \div MEMORY_PAGE_SIZE

\* Pages 5 to 8 are invalid, and pages 10 to 12 read-only, when there are
\* attributes.
Readable == {a \in Address : attributes => PageOf(a) \notin 5 .. 8}
Writable == {a \in Readable : attributes => PageOf(a) \notin 10 .. 12}

Flat == INSTANCE FlatMemory WITH
    Zero <- 0,
    memory <- [a \in Address |-> main_mem[Cell(virt_to_pte(a), a)]],
    readable <- Readable,
    writable <- Writable

\* Seen through its two functions the paged memory is flat: a read returns what
\* was last stored at the same address, another store does not disturb it, and
\* the protected pages can be read, or not at all, and never written.
ImplementsFlatMemory == Flat!Spec
=============================================================================
