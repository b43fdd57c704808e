------------------------------ MODULE MemSimProofs ------------------------------
(***************************************************************************)
(* The paged memory of usr/src/memsim.c is flat, for every number and size *)
(* of pages that MemSimAssumption allows and every set of addresses: what  *)
(* has to be shown is arithmetic, that the entry of a page gives back the  *)
(* frame and the access bits it was made of, and that two addresses never  *)
(* share a byte.                                                           *)
(***************************************************************************)
EXTENDS MemSim, TLAPS

\* The inductive invariant: the page table is as init_page_table() made it.
IInv == TypeOK /\ page_table = init_page_table

-----------------------------------------------------------------------------
\* Division

\* Quotient and remainder.
LEMMA DivMod ==
    ASSUME NEW n \in Nat, NEW s \in Nat \ {0}
    PROVE  n \div s \in Nat /\ n % s \in 0 .. s - 1 /\ n = s * (n \div s) + (n % s)
OBVIOUS

LEMMA Multiples ==
    ASSUME NEW s \in Nat \ {0}, NEW q \in Int, NEW k \in Int, q < k
    PROVE  s * q + s <= s * k
<1>1. s * (k - q) >= s
  OBVIOUS
<1>2. s * (k - q) = s * k - s * q
  OBVIOUS
<1> QED
  BY <1>1, <1>2

\* They are the only ones.
LEMMA Unique ==
    ASSUME NEW s \in Nat \ {0}, NEW q \in Int, NEW r \in 0 .. s - 1,
           NEW k \in Int, NEW t \in 0 .. s - 1, s * q + r = s * k + t
    PROVE  q = k /\ r = t
<1>1. ~(q < k)
  BY Multiples
<1>2. ~(k < q)
  BY Multiples
<1> QED
  BY <1>1, <1>2

LEMMA DivModOf ==
    ASSUME NEW s \in Nat \ {0}, NEW q \in Nat, NEW r \in 0 .. s - 1
    PROVE  (s * q + r) \div s = q /\ (s * q + r) % s = r
<1> DEFINE n == s * q + r
           k == n \div s
           t == n % s
<1>1. n \in Nat
  OBVIOUS
<1> HIDE DEF n
<1>2. k \in Int /\ t \in 0 .. s - 1 /\ n = s * k + t
  BY <1>1, DivMod
<1> HIDE DEF k, t
<1>3. s * q + r = s * k + t
  BY <1>2 DEF n
<1>4. q = k /\ r = t
  BY <1>2, <1>3, Unique
<1> QED
  BY <1>4 DEF k, t, n

\* The bits under a frame: the size of a page is a multiple of 8.
LEMMA LowBits ==
    ASSUME NEW s \in Nat \ {0}, s % 8 = 0, NEW f \in Nat, NEW b \in 0 .. 7
    PROVE  (f * s + b) % 2 = b % 2 /\ ((f * s + b) \div 2) % 4 = (b \div 2) % 4
<1>1. PICK k \in Nat : s = 8 * k
  <2>1. s = 8 * (s \div 8) /\ s \div 8 \in Nat
    OBVIOUS
  <2> QED
    BY <2>1
<1>2. f * s = 8 * (f * k) /\ f * k \in Nat
  BY <1>1
<1> DEFINE m == f * k
<1>3. f * s + b = 8 * m + b /\ m \in Nat
  BY <1>2
<1> HIDE DEF m
<1>4. (8 * m + b) % 2 = b % 2 /\ ((8 * m + b) \div 2) % 4 = (b \div 2) % 4
  BY <1>3
<1> QED
  BY <1>3, <1>4

\* An address on n * s values, in n pages of s.
LEMMA Truncated ==
    ASSUME NEW v \in Nat, NEW n \in Nat \ {0}, NEW s \in Nat \ {0}
    PROVE /\ (v % (n * s)) \in Nat
          /\ (v % (n * s)) \div s \in 0 .. n - 1
          /\ (v % (n * s)) % s = v % s
          /\ (v % (n * s)) % (n * s) = v % (n * s)
<1> DEFINE w == n * s
           a == v % w
           q == v \div w
<1>1. w \in Nat \ {0} 
  OBVIOUS
<1> HIDE DEF w
<1>2. a \in 0 .. w - 1 /\ q \in Nat /\ v = w * q + a
  BY <1>1, DivMod
<1> HIDE DEF a, q
<1>3. a \div s \in Nat /\ a % s \in 0 .. s - 1 /\ a = s * (a \div s) + (a % s)
  <2>1. a \in Nat
    BY <1>1, <1>2
  <2> QED
    BY <2>1, DivMod
<1>4. a \div s < n
  <2> SUFFICES ASSUME n <= a \div s PROVE FALSE
    BY <1>3
  <2> DEFINE k == a \div s
  <2>1. k \in Nat /\ n <= k /\ a >= s * k
    BY <1>3
  <2> HIDE DEF k
  <2>2. s * k >= s * n
    BY <2>1, Multiples
  <2> QED
    BY <1>1, <1>2, <2>1, <2>2 DEF w
<1>5. v = s * (n * q + (a \div s)) + (a % s)
  <2> DEFINE k == a \div s
             r == a % s
  <2>1. k \in Nat /\ r \in Nat /\ a = s * k + r
    BY <1>3
  <2> HIDE DEF k, r
  <2>2. v = (n * s) * q + (s * k + r)
    BY <1>2, <2>1 DEF w
  <2>3. v = s * (n * q + k) + r
    BY <2>2, <2>1, <1>2
  <2> QED
    BY <2>3 DEF k, r
<1>6. v % s = a % s
  <2> DEFINE k == n * q + (a \div s)
             r == a % s
  <2>1. k \in Nat /\ r \in 0 .. s - 1 /\ v = s * k + r
    BY <1>5, <1>3, <1>2
  <2> HIDE DEF k, r
  <2>2. v % s = r
    BY <2>1, DivModOf
  <2> QED
    BY <2>2 DEF r
<1>7. a % w = a
  BY <1>1, <1>2
<1> QED
  BY <1>2, <1>3, <1>4, <1>6, <1>7 DEF a, w

-----------------------------------------------------------------------------
\* Addresses and entries

S == MEMORY_PAGE_SIZE

LEMMA Sizes == Width = MEMORY_PAGE_NUM * S /\ S \in Nat \ {0} /\ S % 8 = 0
BY MemSimAssumption DEF Width, S

\* The page and the offset of an address.
LEMMA AddressParts ==
    ASSUME NEW v \in Vaddr
    PROVE  /\ v % Width \in Address /\ v % Width \in Nat
           /\ (v % Width) % Width = v % Width
           /\ PageOf(v % Width) \in Page
           /\ (v % Width) % S \in Offset
<1>1. v \in Nat /\ MEMORY_PAGE_NUM \in Nat \ {0}
  BY MemSimAssumption
<1>2. /\ v % Width \in Nat
      /\ (v % Width) \div S \in 0 .. MEMORY_PAGE_NUM - 1
      /\ (v % Width) % S = v % S
      /\ (v % Width) % Width = v % Width
  BY <1>1, Sizes, Truncated
<1> QED
  BY <1>2 DEF Address, PageOf, Page, Offset, S

\* The entry that virt_to_pte() reads, whether or not the address was truncated.
LEMMA EntryOf ==
    ASSUME NEW v \in Vaddr
    PROVE  /\ virt_to_pte(v) = page_table[PageOf(v % Width)]
           /\ virt_to_pte(v % Width) = page_table[PageOf(v % Width)]
<1> DEFINE i == PageOf(v % Width)
<1>1. i \in Page
  BY AddressParts
<1>2. i % S = i
  <2> HIDE DEF i
  <2> QED
    BY <1>1, MemSimAssumption DEF Page, S
<1> QED
  BY <1>2, AddressParts DEF virt_to_pte, PageOf, S

LEMMA AttributesTyped == ASSUME NEW i \in Page PROVE Attributes(i) \in 0 .. 3
BY MemSimAssumption DEF Attributes, R_PATTERN, Page

LEMMA FrameTyped == ASSUME NEW i \in Page PROVE Frame(i) \in Page /\ Frame(i) \in Nat
BY MemSimAssumption DEF Frame, Page

\* What get_byte() and store_byte() read in an entry is what was put in it.
LEMMA EntryParts ==
    ASSUME IInv, NEW i \in Page
    PROVE  /\ page_table[i] \div S = Frame(i)
           /\ CanRead(page_table[i]) <=> (attributes => i \notin 5 .. 8)
           /\ CanWrite(page_table[i]) <=> (attributes => i \notin 5 .. 8 /\ i \notin 10 .. 12)
<1> DEFINE b == IF attributes THEN Attributes(i) ELSE 0
           f == Frame(i)
<1>1. page_table[i] = f * S + b
  BY DEF IInv, init_page_table, S
<1>2. b \in 0 .. 7 /\ f \in Nat
  BY AttributesTyped, FrameTyped
<1>3. b \in 0 .. S - 1
  <2>1. S >= 8
    BY Sizes
  <2> HIDE DEF b
  <2> QED
    BY <1>2, <2>1, Sizes
<1>4. page_table[i] \div S = f
  <2> HIDE DEF b, f
  <2>1. page_table[i] = S * f + b
    BY <1>1, <1>2, Sizes
  <2> QED
    BY <1>2, <1>3, <2>1, Sizes, DivModOf
<1>5. page_table[i] % 2 = b % 2 /\ (page_table[i] \div 2) % 4 = (b \div 2) % 4
  <2> HIDE DEF b, f
  <2>1. S \in Nat \ {0} /\ S % 8 = 0
    BY Sizes
  <2>2. (f * S + b) % 2 = b % 2 /\ ((f * S + b) \div 2) % 4 = (b \div 2) % 4
    BY <1>2, <2>1, LowBits
  <2> QED
    BY <1>1, <2>2
<1>6. CASE attributes
  <2>1. b = Attributes(i)
    BY <1>6
  <2>2. b = IF i \in 5 .. 8 THEN 0 ELSE IF i \in 10 .. 12 THEN 3 ELSE 1
    BY <2>1, MemSimAssumption DEF Attributes, R_PATTERN, Page
  <2> HIDE DEF b
  <2>3. b % 2 = 1 <=> i \notin 5 .. 8
    BY <2>2
  <2>4. (b \div 2) % 4 = IF i \in 10 .. 12 THEN 1 ELSE 0
    BY <2>2, MemSimAssumption DEF Page
  <2> QED
    BY <1>4, <1>5, <1>6, <2>3, <2>4 DEF CanRead, CanWrite, IsValid, AccessBits,
       R_PATTERN, W_PATTERN, X_PATTERN, RWX_PATTERN
<1>7. CASE ~attributes
  BY <1>4, <1>7 DEF CanRead, CanWrite
<1> QED
  BY <1>6, <1>7

\* The byte of main_mem that an address stands for.
LEMMA CellOf ==
    ASSUME IInv, NEW v \in Vaddr
    PROVE  LET a == v % Width IN
           /\ Cell(virt_to_pte(v), v) = <<Frame(PageOf(a)), a % S>>
           /\ Cell(virt_to_pte(a), a) = <<Frame(PageOf(a)), a % S>>
           /\ <<Frame(PageOf(a)), a % S>> \in Page \X Offset
<1>1. page_table[PageOf(v % Width)] \div S = Frame(PageOf(v % Width))
  BY AddressParts, EntryParts
<1> QED
  BY <1>1, AddressParts, EntryOf, FrameTyped DEF Cell, S

\* Two addresses never share a byte.
LEMMA CellsApart ==
    ASSUME NEW a \in Nat, NEW b \in Nat, PageOf(a) \in Page, PageOf(b) \in Page,
           <<Frame(PageOf(a)), a % S>> = <<Frame(PageOf(b)), b % S>>
    PROVE  a = b
<1>1. PageOf(a) = PageOf(b) /\ a % S = b % S
  <2>1. Frame(PageOf(a)) = Frame(PageOf(b)) /\ a % S = b % S
    OBVIOUS
  <2> QED
    BY <2>1, MemSimAssumption DEF Frame, Page
<1>2. a = S * PageOf(a) + (a % S) /\ b = S * PageOf(b) + (b % S)
  BY Sizes, DivMod DEF PageOf, S
<1> QED
  BY <1>1, <1>2

-----------------------------------------------------------------------------
\* Types

LEMMA InitInv == Init => IInv
<1> SUFFICES ASSUME Init PROVE IInv
  OBVIOUS
<1>1. ASSUME NEW i \in Page
      PROVE  Frame(i) * S + (IF attributes THEN Attributes(i) ELSE 0) \in 0 .. Width - 1
  <2> DEFINE b == IF attributes THEN Attributes(i) ELSE 0
             f == Frame(i)
  <2>1. b \in 0 .. 7 /\ f \in Nat /\ f < MEMORY_PAGE_NUM /\ S >= 8
    <3>1. b \in 0 .. 7
      BY AttributesTyped
    <3>2. f \in 0 .. MEMORY_PAGE_NUM - 1
      BY FrameTyped DEF Page
    <3>3. S >= 8
      BY Sizes
    <3> HIDE DEF b, f
    <3> QED
      BY <3>1, <3>2, <3>3, MemSimAssumption
  <2> HIDE DEF b, f
  <2>2. S * f + S <= S * MEMORY_PAGE_NUM
    BY <2>1, Sizes, MemSimAssumption, Multiples
  <2>3. f * S + b \in 0 .. Width - 1
    BY <2>1, <2>2, Sizes, MemSimAssumption
  <2> QED
    BY <2>3 DEF b, f
<1>2. page_table \in [Page -> 0 .. Width - 1]
  BY <1>1 DEF Init, init_page_table, S
<1> QED
  BY <1>2, MemSimAssumption DEF Init, IInv, TypeOK, Failed

LEMMA ReadInv == ASSUME IInv, NEW v \in Vaddr, get_byte(v) PROVE IInv'
<1>1. main_mem[Cell(virt_to_pte(v), v)] \in Byte
  BY CellOf DEF IInv, TypeOK
<1> QED
  BY <1>1, MemSimAssumption DEF IInv, TypeOK, get_byte, Returned, Failed, init_page_table

LEMMA StoreInv == ASSUME IInv, NEW v \in Vaddr, NEW byte \in Byte, store_byte(v, byte) PROVE IInv'
BY CellOf, MemSimAssumption DEF IInv, TypeOK, store_byte, Returned, Failed, init_page_table

LEMMA NextInv == IInv /\ [Next]_vars => IInv'
BY ReadInv, StoreInv DEF Next, vars, IInv, TypeOK, init_page_table

LEMMA Inductive == Spec => []IInv
BY InitInv, NextInv, PTL DEF Spec

\* The entries of page_table fit in 16 bits and the bytes in main_mem.
THEOREM TypeCorrect == Spec => []TypeOK
<1>1. IInv => TypeOK
  BY DEF IInv
<1> QED
  BY <1>1, Inductive, PTL

-----------------------------------------------------------------------------
\* The refinement

\* The flat memory.
Memory == [a \in Address |-> main_mem[Cell(virt_to_pte(a), a)]]

LEMMA MapRead ==
    ASSUME IInv, NEW v \in Vaddr, get_byte(v)
    PROVE  Flat!Next
<1> DEFINE a == v % Width
<1>1. a \in Address /\ PageOf(a) \in Page
  BY AddressParts
<1>2. CanRead(virt_to_pte(v)) <=> a \in Readable
  BY <1>1, EntryOf, EntryParts DEF Readable
<1>3. main_mem[Cell(virt_to_pte(v), v)] = Memory[a]
  BY <1>1, CellOf DEF Memory
<1> HIDE DEF a
<1>4. result' = IF a \in Readable THEN Returned(Memory[a]) ELSE Failed
  BY <1>2, <1>3 DEF get_byte
<1>5. UNCHANGED <<Memory, Readable, Writable>>
  BY DEF get_byte, Memory, Readable, Writable, Cell, virt_to_pte
<1>6. Flat!Read(a)
  BY <1>4, <1>5 DEF Flat!Read, Flat!Returned, Flat!Failed, Returned, Failed, Memory
<1> QED
  BY <1>1, <1>6 DEF Flat!Next

LEMMA MapStore ==
    ASSUME IInv, NEW v \in Vaddr, NEW byte \in Byte, store_byte(v, byte)
    PROVE  Flat!Next
<1> DEFINE a == v % Width
<1>1. a \in Address /\ PageOf(a) \in Page
  BY AddressParts
<1>2. CanWrite(virt_to_pte(v)) <=> a \in Writable
  BY <1>1, EntryOf, EntryParts DEF Readable, Writable
<1>3. Memory' = IF a \in Writable THEN [Memory EXCEPT ![a] = byte] ELSE Memory
  <2>1. UNCHANGED page_table
    BY DEF store_byte
  <2>2. ASSUME NEW x \in Address
        PROVE  Memory'[x] = IF a \in Writable /\ x = a THEN byte ELSE Memory[x]
    <3>1. PICK u \in Vaddr : x = u % Width
      BY DEF Address
    <3>2. Cell(virt_to_pte(x), x) = <<Frame(PageOf(x)), x % S>>
          /\ <<Frame(PageOf(x)), x % S>> \in Page \X Offset
      BY <3>1, CellOf
    <3>3. Cell(virt_to_pte(v), v) = <<Frame(PageOf(a)), a % S>>
      BY CellOf
    <3>4. Cell(virt_to_pte(x), x) = Cell(virt_to_pte(v), v) <=> x = a
      BY <3>1, <3>2, <3>3, AddressParts, CellsApart
    <3>5. Memory'[x] = main_mem'[Cell(virt_to_pte(x), x)]
      BY <2>1 DEF Memory, Cell, virt_to_pte
    <3>6. Memory[x] = main_mem[Cell(virt_to_pte(x), x)]
      BY DEF Memory
    <3>7. main_mem' = IF a \in Writable
                      THEN [main_mem EXCEPT ![Cell(virt_to_pte(v), v)] = byte] ELSE main_mem
      BY <1>2 DEF store_byte
    <3>8. main_mem \in [Page \X Offset -> Byte]
      BY DEF IInv, TypeOK
    <3> HIDE DEF a
    <3> QED
      BY <3>2, <3>4, <3>5, <3>6, <3>7, <3>8
  <2> HIDE DEF a
  <2> QED
    BY <1>1, <2>2 DEF Memory
<1> HIDE DEF a
<1>4. result' = IF a \in Writable THEN Returned(0) ELSE Failed
  BY <1>2 DEF store_byte
<1>5. UNCHANGED <<Readable, Writable>>
  BY DEF store_byte, Readable, Writable
<1>6. Flat!Write(a, byte)
  BY <1>3, <1>4, <1>5 DEF Flat!Write, Flat!Returned, Flat!Failed, Returned, Failed, Memory
<1> QED
  BY <1>1, <1>6 DEF Flat!Next

LEMMA MapInit == Init => Flat!Init
<1> SUFFICES ASSUME Init PROVE Flat!Init
  OBVIOUS
<1>1. ASSUME NEW x \in Address PROVE main_mem[Cell(virt_to_pte(x), x)] = 0
  <2>1. PICK u \in Vaddr : x = u % Width
    BY DEF Address
  <2>2. Cell(virt_to_pte(x), x) \in Page \X Offset
    BY <2>1, InitInv, CellOf
  <2> QED
    BY <2>2 DEF Init
<1>2. Memory = [x \in Address |-> 0]
  BY <1>1 DEF Memory
<1>3. Readable \in SUBSET Address /\ Writable \in SUBSET Readable
  BY DEF Readable, Writable
<1> QED
  BY <1>2, <1>3 DEF Init, Flat!Init, Flat!Failed, Failed, Memory

\* Seen through get_byte() and store_byte() the paged memory is a flat one: a
\* read returns what was last stored at the same address, and the pages the
\* attributes protect are never written.
THEOREM RefinesFlatMemory == Spec => ImplementsFlatMemory
<1>1. IInv /\ [Next]_vars => [Flat!Next]_Flat!vars
  <2> SUFFICES ASSUME IInv, [Next]_vars PROVE [Flat!Next]_Flat!vars
    OBVIOUS
  <2>1. CASE UNCHANGED vars
    BY <2>1 DEF vars, Flat!vars, Readable, Writable, Cell, virt_to_pte
  <2> QED
    BY <2>1, MapRead, MapStore DEF Next
<1> QED
  BY <1>1, MapInit, Inductive, PTL DEF Spec, ImplementsFlatMemory, Flat!Spec
=============================================================================
