---------------------------- MODULE SyscallsProofs ----------------------------
(***************************************************************************)
(* Proofs about Syscalls, for any threads, processes, executables and      *)
(* increments: errno tells the outcome of a call that nothing disturbed,   *)
(* and sbrk() gives areas that are apart.  And for any arguments and       *)
(* environment, any size of the page and of a word: a program gets what    *)
(* execve() was given, if it fits.                                         *)
(***************************************************************************)
EXTENDS Syscalls, WellFoundedInduction, TLAPS

\* errno while a call is in progress, and errno_addr.
ErrnoInv ==
    \A t \in Thread :
        /\ pc[t] \in {"stub", "kernel", "sbrk"} => error[t] = 0
        /\ pc[t] = "failing" => error[t] \in Codes
        /\ ~disturbed[t] =>
             /\ pc[t] # "failing" => memory[pcb[t]][OwnErrno(t)] = error[t]
             /\ InKernel(t) => errno_addr = OwnErrno(t)

\* The areas of a heap whose break is h.
AreasApart(areas, h) ==
    /\ h \in 0 .. HEAP_SIZE - 1
    /\ \A a \in areas : a[1] >= 0 /\ a[2] <= h
    /\ \A a, b \in areas : a # b => a[2] <= b[1] \/ b[2] <= a[1]

\* The heap of a process whose sbrk() did not overlap: what a call has read of
\* the break is still true.
HeapInv ==
    \A p \in Process : ~overlapped[p] =>
        /\ AreasApart(granted[p], heap_pointer[p])
        /\ \A t \in Thread : pcb[t] = p /\ pc[t] = "sbrk" =>
             /\ ret_pointer[t] = heap_pointer[p]
             /\ heap_pointer[p] + increment[t] \in 0 .. HEAP_SIZE - 1

IInv == TypeOK /\ ErrnoInv /\ HeapInv

-----------------------------------------------------------------------------
\* Lemmas about the operators

LEMMA Constants ==
    /\ \A t \in Thread : pcb[t] \in Process
    /\ \A g \in Program : errno_of[g] \in Address /\ errno_of[g] # NULL
    /\ HEAP_SIZE \in Nat /\ IntMax \in Nat /\ 0 < HEAP_SIZE /\ HEAP_SIZE <= IntMax
    /\ \A n \in Increments : n \in Int /\ n >= -IntMax - 1 /\ n <= IntMax
BY SyscallsAssumption DEF Address

\* The address of errno of a thread.
LEMMA OwnErrnoType ==
    ASSUME TypeOK, NEW t \in Thread
    PROVE  OwnErrno(t) \in Address /\ OwnErrno(t) # NULL
BY Constants DEF OwnErrno, TypeOK

\* A size that is accepted is the sum, in spite of the overflow.
LEMMA AcceptedIsExact ==
    ASSUME NEW h \in 0 .. HEAP_SIZE - 1, NEW inc \in Increments,
           SizeAccepted(Wrapped(h + inc))
    PROVE  h + inc \in 0 .. HEAP_SIZE - 1
BY Constants DEF SizeAccepted, Wrapped

\* What sbrk() gives or takes keeps the areas apart, below the new break.
LEMMA GrantedApart ==
    ASSUME NEW areas \in SUBSET (Int \X Int), NEW h \in Int, NEW inc \in Int,
           AreasApart(areas, h), h + inc \in 0 .. HEAP_SIZE - 1
    PROVE  /\ AreasApart(Granted(areas, h, inc), h + inc)
           /\ Granted(areas, h, inc) \in SUBSET (Int \X Int)
<1> DEFINE brk == h + inc
<1>0. brk \in Int /\ h >= 0
    BY DEF AreasApart
<1>1. CASE inc > 0
    <2>1. Granted(areas, h, inc) = areas \cup {<<h, brk>>}
        BY <1>1 DEF Granted
    <2>2. h <= brk
        BY <1>1
    <2>3. AreasApart(areas \cup {<<h, brk>>}, brk)
        <3> HIDE DEF brk
        <3> QED BY <1>0, <2>2, h + inc = brk DEF AreasApart, brk
    <2> QED BY <1>0, <2>1, <2>3
<1>2. CASE ~(inc > 0)
    <2> DEFINE Cut(a) == <<a[1], IF a[2] < brk THEN a[2] ELSE brk>>
    <2>1. Granted(areas, h, inc) = {Cut(a) : a \in {b \in areas : b[1] < brk}}
        BY <1>2 DEF Granted, Below
    <2>2. ASSUME NEW a \in areas
          PROVE  /\ Cut(a) \in Int \X Int /\ Cut(a)[1] = a[1]
                 /\ Cut(a)[2] <= a[2] /\ Cut(a)[2] <= brk /\ a[1] \in Int /\ a[2] \in Int
        BY <1>0
    <2> HIDE DEF Cut
    <2>3. \A c \in Granted(areas, h, inc) : c[1] >= 0 /\ c[2] <= brk
        BY <2>1, <2>2 DEF AreasApart
    <2>4. ASSUME NEW c \in Granted(areas, h, inc), NEW d \in Granted(areas, h, inc), c # d
          PROVE  c[2] <= d[1] \/ d[2] <= c[1]
        <3>1. PICK a \in areas, b \in areas : c = Cut(a) /\ d = Cut(b)
            BY <2>1
        <3>2. a[2] <= b[1] \/ b[2] <= a[1]
            BY <2>4, <3>1 DEF AreasApart
        <3>3. c[2] \in Int /\ d[2] \in Int
            BY <2>2, <3>1
        <3> QED BY <2>2, <3>1, <3>2, <3>3
    <2> QED BY <2>1, <2>2, <2>3, <2>4 DEF AreasApart
<1> QED BY <1>1, <1>2

-----------------------------------------------------------------------------
\* The invariant

LEMMA InitIInv == Init => IInv
<1> SUFFICES ASSUME Init PROVE IInv
    OBVIOUS
<1>1. TypeOK
    BY Constants, SyscallsAssumption DEF Init, TypeOK
<1>2. ErrnoInv
    BY <1>1, OwnErrnoType, Constants DEF Init, ErrnoInv, InKernel
<1>3. HeapInv
    BY Constants DEF Init, HeapInv, AreasApart
<1> QED BY <1>1, <1>2, <1>3 DEF IInv

\* A step of t that changes neither the heaps nor a call of sbrk() keeps HeapInv.
LEMMA HeapUnchanged ==
    ASSUME HeapInv, UNCHANGED <<heapVars, increment, ret_pointer>>,
           NEW t \in Thread, \A u \in Thread \ {t} : pc'[u] = pc[u], pc'[t] # "sbrk"
    PROVE  HeapInv'
BY DEF HeapInv, heapVars, AreasApart

LEMMA StubStep ==
    ASSUME IInv, NEW t \in Thread, Stub(t)
    PROVE  IInv'
<1> USE DEF Stub, heapVars
<1>1. TypeOK'
    BY OwnErrnoType DEF IInv, TypeOK
<1>2. ErrnoInv'
    <2>1. ASSUME NEW u \in Thread PROVE OwnErrno(u)' = OwnErrno(u)
        BY DEF OwnErrno
    <2>2. ASSUME NEW u \in Thread, u # t, ~disturbed'[u]
          PROVE  pcb[u] # pcb[t] /\ ~disturbed[u] /\ pc'[u] = pc[u] /\ error'[u] = error[u]
                 /\ memory'[pcb[u]] = memory[pcb[u]]
        BY <2>2, Constants DEF IInv, TypeOK, Siblings
    <2>3. memory'[pcb[t]][OwnErrno(t)] = 0 /\ error'[t] = 0 /\ pc'[t] = "stub"
        BY OwnErrnoType, Constants DEF IInv, TypeOK
    <2>4. ASSUME NEW u \in Thread, u # t PROVE pc'[u] = pc[u] /\ error'[u] = error[u]
        BY <2>4 DEF IInv, TypeOK
    <2> QED BY <2>1, <2>2, <2>3, <2>4 DEF IInv, ErrnoInv, InKernel
<1>3. HeapInv'
    BY HeapUnchanged DEF IInv, TypeOK
<1> QED BY <1>1, <1>2, <1>3 DEF IInv

LEMMA EnterStep ==
    ASSUME IInv, NEW t \in Thread, EnterKernel(t)
    PROVE  IInv'
<1> USE DEF EnterKernel, set_errno_addr, heapVars, Disturbs
<1>1. TypeOK'
    BY OwnErrnoType DEF IInv, TypeOK
<1>2. ErrnoInv'
    <2>1. ASSUME NEW u \in Thread PROVE OwnErrno(u)' = OwnErrno(u)
        BY DEF OwnErrno
    <2>2. ASSUME NEW u \in Thread, u # t, ~disturbed'[u], InKernel(u)
          PROVE  OwnErrno(u) = errno_addr'
        BY <2>2 DEF IInv, TypeOK
    <2> QED BY <2>1, <2>2 DEF IInv, TypeOK, ErrnoInv, InKernel
<1>3. HeapInv'
    BY HeapUnchanged DEF IInv, TypeOK
<1> QED BY <1>1, <1>2, <1>3 DEF IInv

\* set_errno() writes where the program looks, unless its call was disturbed,
\* and in the memory of its process only.
LEMMA SetErrnoWrites ==
    ASSUME IInv, NEW t \in Thread, InKernel(t), NEW code \in Codes
    PROVE  /\ set_errno(t, code) \in [Process -> [Address -> Codes \cup {0}]]
           /\ ~disturbed[t] => set_errno(t, code)[pcb[t]][OwnErrno(t)] = code
           /\ \A p \in Process \ {pcb[t]} : set_errno(t, code)[p] = memory[p]
<1>1. ~disturbed[t] => errno_addr = OwnErrno(t)
    BY DEF IInv, ErrnoInv
<1>2. memory \in [Process -> [Address -> Codes \cup {0}]] /\ errno_addr \in Address \cup {NULL}
    BY DEF IInv, TypeOK
<1>3. OwnErrno(t) \in Address /\ OwnErrno(t) # NULL /\ pcb[t] \in Process
    BY OwnErrnoType, Constants DEF IInv
<1>4. CASE errno_addr # NULL
    <2>1. set_errno(t, code) = [memory EXCEPT ![pcb[t]][errno_addr] = code]
        BY <1>4 DEF set_errno
    <2>2. errno_addr \in Address
        BY <1>2, <1>4
    <2> QED BY <1>1, <1>2, <1>3, <2>1, <2>2
<1>5. CASE errno_addr = NULL
    <2>1. set_errno(t, code) = memory
        BY <1>5 DEF set_errno
    <2> QED BY <1>1, <1>2, <1>3, <1>5, <2>1
<1> QED BY <1>4, <1>5

\* A call that ends by set_errno() with the interrupts on or off.
LEMMA FailStep ==
    ASSUME IInv, NEW t \in Thread, InKernel(t), NEW code \in Codes,
           memory' = set_errno(t, code), error' = [error EXCEPT ![t] = code],
           Disturbs(Siblings(t)), pc' = [pc EXCEPT ![t] = "user"], started' = NotStarted,
           UNCHANGED <<program, errno_addr, increment, ret_pointer, heapVars>>
    PROVE  IInv'
<1> USE DEF heapVars, Disturbs
<1>1. TypeOK'
    BY SetErrnoWrites DEF IInv, TypeOK
<1>2. ErrnoInv'
    <2>1. ASSUME NEW u \in Thread PROVE OwnErrno(u)' = OwnErrno(u)
        BY DEF OwnErrno
    <2>2. ASSUME NEW u \in Thread, u # t, ~disturbed'[u]
          PROVE  ~disturbed[u] /\ memory'[pcb[u]] = memory[pcb[u]]
        <3>1. disturbed'[u] = (disturbed[u] \/ u \in Siblings(t))
            BY DEF Disturbs
        <3>2. pcb[u] \in Process \ {pcb[t]} /\ ~disturbed[u]
            BY <2>2, <3>1, Constants DEF Siblings
        <3> QED BY <3>2, SetErrnoWrites
    <2>3. pc'[t] = "user" /\ error'[t] = code
          /\ (~disturbed'[t] => memory'[pcb[t]][OwnErrno(t)] = code)
        BY SetErrnoWrites DEF IInv, TypeOK
    <2>4. ASSUME NEW u \in Thread, u # t PROVE pc'[u] = pc[u] /\ error'[u] = error[u]
        BY <2>4 DEF IInv, TypeOK
    <2> QED BY <2>1, <2>2, <2>3, <2>4 DEF IInv, ErrnoInv, InKernel
<1>3. HeapInv'
    BY HeapUnchanged DEF IInv, TypeOK
<1> QED BY <1>1, <1>2, <1>3 DEF IInv

LEMMA SetErrnoStep ==
    ASSUME IInv, NEW t \in Thread, SetErrno(t)
    PROVE  IInv'
<1>1. error[t] \in Codes
    BY DEF SetErrno, IInv, ErrnoInv
<1>2. error' = [error EXCEPT ![t] = error[t]]
    BY DEF SetErrno, IInv, TypeOK
<1> QED BY <1>1, <1>2, FailStep DEF SetErrno, InKernel

LEMMA WaitpidStep ==
    ASSUME IInv, NEW t \in Thread, WaitpidFails(t)
    PROVE  IInv'
<1>1. ECHILD \in Codes
    BY DEF Codes
<1> QED BY <1>1, FailStep DEF WaitpidFails, InKernel

\* A call comes to its failure.
LEMMA ToFailing ==
    ASSUME IInv, NEW t \in Thread, InKernel(t), NEW code \in Codes, Fails(t, code),
           started' = NotStarted,
           UNCHANGED <<errnoVars, increment, ret_pointer, disturbed, heapVars>>
    PROVE  IInv'
<1> USE DEF Fails, heapVars, errnoVars
<1>1. TypeOK'
    BY DEF IInv, TypeOK
<1>2. ErrnoInv'
    <2>1. ASSUME NEW u \in Thread PROVE OwnErrno(u)' = OwnErrno(u)
        BY DEF OwnErrno
    <2> QED BY <2>1 DEF IInv, TypeOK, ErrnoInv, InKernel
<1>3. HeapInv'
    BY HeapUnchanged DEF IInv, TypeOK
<1> QED BY <1>1, <1>2, <1>3 DEF IInv

LEMMA CallStep ==
    ASSUME IInv, NEW t \in Thread,
           CallSucceeds(t) \/ SetTimeOfDay(t) \/ ExecveNotFound(t)
    PROVE  IInv'
<1>1. -ENOSYS \in Codes /\ ENOENT \in Codes
    BY DEF Codes
<1>2. CASE CallSucceeds(t)
    <2> USE <1>2 DEF CallSucceeds, heapVars, errnoVars, callVars
    <2>1. TypeOK'
        BY DEF IInv, TypeOK
    <2>2. ErrnoInv'
        <3>1. ASSUME NEW u \in Thread PROVE OwnErrno(u)' = OwnErrno(u)
            BY DEF OwnErrno
        <3> QED BY <3>1 DEF IInv, TypeOK, ErrnoInv, InKernel
    <2>3. HeapInv'
        BY HeapUnchanged DEF IInv, TypeOK
    <2> QED BY <2>1, <2>2, <2>3 DEF IInv
<1>3. CASE SetTimeOfDay(t)
    BY <1>1, <1>3, ToFailing DEF SetTimeOfDay, InKernel
<1>4. CASE ExecveNotFound(t)
    BY <1>1, <1>4, ToFailing DEF ExecveNotFound, InKernel
<1> QED BY <1>2, <1>3, <1>4

LEMMA SbrkCheckStep ==
    ASSUME IInv, NEW t \in Thread, SbrkCheck(t)
    PROVE  IInv'
<1>1. PICK inc \in Increments :
        IF SizeAccepted(Wrapped(heap_pointer[pcb[t]] + inc))
        THEN /\ pc' = [pc EXCEPT ![t] = "sbrk"]
             /\ increment' = [increment EXCEPT ![t] = inc]
             /\ ret_pointer' = [ret_pointer EXCEPT ![t] = heap_pointer[pcb[t]]]
             /\ UNCHANGED error
        ELSE Fails(t, ENOMEM) /\ UNCHANGED <<increment, ret_pointer>>
    BY DEF SbrkCheck
<1>2. CASE SizeAccepted(Wrapped(heap_pointer[pcb[t]] + inc))
    <2> USE DEF SbrkCheck, heapVars, errnoVars
    <2>1. TypeOK'
        <3>1. pc' \in [Thread -> {"user", "stub", "kernel", "sbrk", "failing"}]
            BY <1>1, <1>2 DEF IInv, TypeOK
        <3>2. increment' \in [Thread -> Increments \cup {0}]
            BY <1>1, <1>2 DEF IInv, TypeOK
        <3>3. ret_pointer' \in [Thread -> Int]
            <4>1. heap_pointer[pcb[t]] \in Int
                BY Constants DEF IInv, TypeOK
            <4> QED BY <1>1, <1>2, <4>1 DEF IInv, TypeOK
        <3>4. started' = NotStarted /\ error' = error
            BY <1>1, <1>2
        <3> QED BY <3>1, <3>2, <3>3, <3>4 DEF IInv, TypeOK
    <2>2. ErrnoInv'
        <3>1. ASSUME NEW u \in Thread PROVE OwnErrno(u)' = OwnErrno(u)
            BY DEF OwnErrno
        <3> QED BY <1>1, <1>2, <3>1 DEF IInv, TypeOK, ErrnoInv, InKernel
    <2>3. HeapInv'
        <3>1. ASSUME NEW p \in Process, ~overlapped[p]
              PROVE  AreasApart(granted[p], heap_pointer[p])
            BY <3>1 DEF IInv, HeapInv
        <3>2. ASSUME NEW p \in Process, ~overlapped[p], NEW u \in Thread, pcb[u] = p,
                     pc'[u] = "sbrk"
              PROVE  ret_pointer'[u] = heap_pointer[p]
                     /\ heap_pointer[p] + increment'[u] \in 0 .. HEAP_SIZE - 1
            <4>1. CASE u = t
                <5>1. heap_pointer[p] \in 0 .. HEAP_SIZE - 1
                    BY <3>1, <3>2 DEF AreasApart
                <5>2. heap_pointer[p] + inc \in 0 .. HEAP_SIZE - 1
                    BY <1>2, <3>2, <4>1, <5>1, AcceptedIsExact
                <5> QED BY <1>1, <1>2, <3>2, <4>1, <5>2 DEF IInv, TypeOK
            <4>2. CASE u # t
                BY <1>1, <1>2, <3>2, <4>2 DEF IInv, TypeOK, HeapInv
            <4> QED BY <4>1, <4>2
        <3> QED BY <3>1, <3>2 DEF HeapInv, AreasApart
    <2> QED BY <2>1, <2>2, <2>3 DEF IInv
<1>3. CASE ~SizeAccepted(Wrapped(heap_pointer[pcb[t]] + inc))
    <2>1. ENOMEM \in Codes
        BY DEF Codes
    <2> QED BY <1>1, <1>3, <2>1, ToFailing DEF SbrkCheck, InKernel
<1> QED BY <1>2, <1>3

LEMMA SbrkAdvanceStep ==
    ASSUME IInv, NEW t \in Thread, SbrkAdvance(t)
    PROVE  IInv'
<1> DEFINE p == pcb[t]
<1> USE DEF SbrkAdvance, heapVars, errnoVars
<1>1. p \in Process /\ increment[t] \in Int /\ ret_pointer[t] \in Int /\ heap_pointer[p] \in Int
      /\ granted[p] \in SUBSET (Int \X Int)
    BY Constants DEF IInv, TypeOK
<1>2. overlapped'[p] = (overlapped[p] \/ \E u \in Siblings(t) : pc[u] = "sbrk")
      /\ \A q \in Process \ {p} : overlapped'[q] = overlapped[q]
    BY <1>1 DEF IInv, TypeOK
<1>3. ~overlapped'[p] =>
          /\ ret_pointer[t] = heap_pointer[p]
          /\ heap_pointer[p] + increment[t] \in 0 .. HEAP_SIZE - 1
          /\ AreasApart(granted[p], heap_pointer[p])
    BY <1>1, <1>2 DEF IInv, HeapInv
<1>4. ~overlapped'[p] =>
          /\ AreasApart(granted'[p], heap_pointer'[p])
          /\ granted'[p] \in SUBSET (Int \X Int)
    <2> SUFFICES ASSUME ~overlapped'[p]
                 PROVE  /\ AreasApart(granted'[p], heap_pointer'[p])
                        /\ granted'[p] \in SUBSET (Int \X Int)
        OBVIOUS
    <2>1. granted'[p] = Granted(granted[p], heap_pointer[p], increment[t])
          /\ heap_pointer'[p] = heap_pointer[p] + increment[t]
        BY <1>1, <1>3 DEF IInv, TypeOK
    <2> QED BY <1>1, <1>3, <2>1, GrantedApart
<1>5. granted' \in [Process -> SUBSET (Int \X Int)]
    <2>1. granted'[p] \in SUBSET (Int \X Int)
        <3>1. CASE overlapped'[p]
            <4>1. granted'[p] = {}
                BY <1>1, <3>1 DEF IInv, TypeOK
            <4> QED BY <4>1
        <3> QED BY <1>4, <3>1
    <2>2. granted' = [granted EXCEPT ![p] = granted'[p]]
        BY <1>1 DEF IInv, TypeOK
    <2> QED BY <2>1, <2>2 DEF IInv, TypeOK
<1>6. overlapped' \in [Process -> BOOLEAN]
    <2>1. overlapped' = [overlapped EXCEPT ![p] = overlapped'[p]]
          /\ overlapped'[p] \in BOOLEAN
        BY <1>1, <1>2 DEF IInv, TypeOK
    <2> QED BY <2>1 DEF IInv, TypeOK
<1>7. TypeOK'
    BY <1>1, <1>5, <1>6 DEF IInv, TypeOK
<1>8. ErrnoInv'
    <2>1. ASSUME NEW u \in Thread PROVE OwnErrno(u)' = OwnErrno(u)
        BY DEF OwnErrno
    <2> QED BY <2>1 DEF IInv, TypeOK, ErrnoInv, InKernel
<1>9. HeapInv'
    <2>1. ASSUME NEW u \in Thread, pcb[u] = p, pc'[u] = "sbrk"
          PROVE  overlapped'[p]
        BY <1>2, <2>1 DEF IInv, TypeOK, Siblings
    <2>2. ASSUME NEW q \in Process \ {p}, ~overlapped'[q]
          PROVE  /\ granted'[q] = granted[q] /\ heap_pointer'[q] = heap_pointer[q]
                 /\ ~overlapped[q]
        BY <1>2, <2>2 DEF IInv, TypeOK
    <2>3. ASSUME NEW u \in Thread, pcb[u] # p
          PROVE  pc'[u] = pc[u] /\ ret_pointer'[u] = ret_pointer[u]
                 /\ increment'[u] = increment[u]
        BY <2>3 DEF IInv, TypeOK
    <2>4. ASSUME NEW q \in Process, ~overlapped'[q]
          PROVE  AreasApart(granted'[q], heap_pointer'[q])
        <3>1. CASE q = p
            BY <1>4, <2>4, <3>1
        <3>2. CASE q # p
            BY <2>2, <2>4, <3>2 DEF IInv, HeapInv
        <3> QED BY <3>1, <3>2
    <2>5. ASSUME NEW q \in Process, ~overlapped'[q], NEW u \in Thread, pcb[u] = q,
                 pc'[u] = "sbrk"
          PROVE  ret_pointer'[u] = heap_pointer'[q]
                 /\ heap_pointer'[q] + increment'[u] \in 0 .. HEAP_SIZE - 1
        <3>1. q # p
            BY <2>1, <2>5
        <3> QED BY <2>2, <2>3, <2>5, <3>1 DEF IInv, HeapInv
    <2> QED BY <2>4, <2>5 DEF HeapInv, AreasApart
<1> QED BY <1>7, <1>8, <1>9 DEF IInv

LEMMA ExecveStep ==
    ASSUME IInv, NEW t \in Thread, Execve(t), started' \in {"all", "altered", "arbitrary"}
    PROVE  IInv'
<1> DEFINE p == pcb[t]
<1> USE DEF Execve, heapVars
<1>1. p \in Process /\ \A u \in Thread \ {t} : pcb[u] # p
    BY Constants DEF Siblings
<1>2. PICK g \in Program : program' = [program EXCEPT ![p] = g]
    OBVIOUS
<1>3. TypeOK'
    BY <1>1, <1>2 DEF IInv, TypeOK
<1>4. ErrnoInv'
    <2>1. ASSUME NEW u \in Thread, u # t
          PROVE  OwnErrno(u)' = OwnErrno(u) /\ pc'[u] = pc[u] /\ disturbed'[u] = disturbed[u]
                 /\ memory'[pcb[u]] = memory[pcb[u]]
        BY <1>1, <1>2, <2>1, Constants DEF OwnErrno, IInv, TypeOK
    <2>2. OwnErrno(t)' \in Address /\ memory'[p] = [a \in Address |-> 0] /\ pc'[t] = "user"
          /\ error'[t] = 0
        BY <1>1, <1>2, Constants DEF OwnErrno, IInv, TypeOK, ErrnoInv
    <2> QED BY <2>1, <2>2 DEF IInv, ErrnoInv, InKernel
<1>5. HeapInv'
    <2>1. AreasApart({}, 0)
        BY Constants DEF AreasApart
    <2>2. granted'[p] = {} /\ heap_pointer'[p] = 0
        BY <1>1 DEF IInv, TypeOK
    <2>3. ASSUME NEW q \in Process, q # p
          PROVE  /\ granted'[q] = granted[q] /\ heap_pointer'[q] = heap_pointer[q]
                 /\ overlapped'[q] = overlapped[q]
        BY <2>3 DEF IInv, TypeOK
    <2>4. ASSUME NEW u \in Thread, pc'[u] = "sbrk"
          PROVE  u # t /\ pc[u] = "sbrk"
        BY <2>4 DEF IInv, TypeOK
    <2> QED BY <1>1, <2>1, <2>2, <2>3, <2>4 DEF IInv, HeapInv, AreasApart
<1> QED BY <1>3, <1>4, <1>5 DEF IInv

\* What an execve() may give a program.
LEMMA ArrivalsType == Arrivals \subseteq {"all", "altered", "arbitrary"}
BY DEF Arrivals, Arrival

LEMMA NextIInv == IInv /\ [Next]_vars => IInv'
<1>1. IInv /\ UNCHANGED vars => IInv'
    BY DEF IInv, TypeOK, ErrnoInv, HeapInv, AreasApart, OwnErrno, InKernel, vars, callVars,
           errnoVars, heapVars
<1>2. ASSUME NEW t \in Thread, Execve(t) PROVE started' \in {"all", "altered", "arbitrary"}
    BY <1>2, ArrivalsType DEF Execve
<1> QED BY <1>1, <1>2, StubStep, EnterStep, SetErrnoStep, WaitpidStep, CallStep, SbrkCheckStep,
           SbrkAdvanceStep, ExecveStep DEF Next, Step

-----------------------------------------------------------------------------
\* The arguments of execve()

\* Induction, over a set.
LEMMA Induction ==
    ASSUME NEW S, 0 \in S, \A m \in Nat : m \in S => m + 1 \in S
    PROVE  \A m \in Nat : m \in S
<1> DEFINE Bad == {m \in Nat : m \notin S}
<1>1. SUFFICES ASSUME Bad # {} PROVE FALSE
    OBVIOUS
<1>2. PICK m \in Bad : \A k \in Bad : ~(<<k, m>> \in OpToRel(<, Nat))
    BY <1>1, NatLessThanWellFounded, WFMin
<1>3. m \in Nat /\ m # 0 /\ m - 1 \in Nat /\ m - 1 < m
    OBVIOUS
<1>4. m - 1 \notin Bad
    BY <1>2, <1>3 DEF OpToRel
<1>5. (m - 1) + 1 \in S
    BY <1>3, <1>4
<1>6. (m - 1) + 1 = m
    BY <1>3
<1> QED BY <1>5, <1>6

String == Seq(Nat \ {0})

PlacesOf(at, first, strs, n) == at = [k \in 1 .. n |-> PlaceOf(at, first, strs, k)]

PagesOf(pages, argc, at, strs, n) ==
    pages = [k \in 0 .. n |-> PageWith(pages, argc, at, strs, k)]

\* The places of the strings are well defined,
LEMMA PlacesExist ==
    ASSUME NEW strs, NEW first, NEW n \in Nat
    PROVE  \E f : PlacesOf(f, first, strs, n)
<1> DEFINE Ok(m) == \E f : PlacesOf(f, first, strs, m)
           S == {m \in Nat : Ok(m)}
<1>1. Ok(0)
    <2> DEFINE f == [k \in 1 .. 0 |-> 0]
    <2>1. f = [k \in 1 .. 0 |-> PlaceOf(f, first, strs, k)]
        OBVIOUS
    <2> QED BY <2>1 DEF PlacesOf
<1>2. ASSUME NEW m \in Nat, Ok(m) PROVE Ok(m + 1)
    <2>1. PICK f : f = [k \in 1 .. m |-> PlaceOf(f, first, strs, k)]
        BY <1>2 DEF PlacesOf
    <2> DEFINE v == PlaceOf(f, first, strs, m + 1)
               g == [k \in 1 .. m + 1 |-> IF k = m + 1 THEN v ELSE f[k]]
    <2>2. \A k \in 1 .. m : f[k] = PlaceOf(f, first, strs, k)
        BY <2>1
    <2> HIDE DEF v
    <2>3. ASSUME NEW k \in 1 .. m + 1 PROVE g[k] = PlaceOf(g, first, strs, k)
        <3>1. k # 1 => k - 1 \in 1 .. m /\ g[k - 1] = f[k - 1]
            OBVIOUS
        <3>2. PlaceOf(g, first, strs, k) = PlaceOf(f, first, strs, k)
            BY <3>1 DEF PlaceOf
        <3>3. CASE k = m + 1
            BY <3>2, <3>3 DEF v
        <3>4. CASE k # m + 1
            BY <3>2, <3>4, <2>2
        <3> QED BY <3>3, <3>4
    <2>4. g = [k \in 1 .. m + 1 |-> PlaceOf(g, first, strs, k)]
        BY <2>3
    <2> HIDE DEF g
    <2> QED BY <2>4 DEF PlacesOf
<1> HIDE DEF Ok
<1>3. 0 \in S /\ \A m \in Nat : m \in S => m + 1 \in S
    BY <1>1, <1>2
<1>4. n \in S
    BY <1>3, Induction
<1> QED BY <1>4 DEF Ok

\* and so are the successive pages.
LEMMA PagesExist ==
    ASSUME NEW argc, NEW at, NEW strs, NEW n \in Nat
    PROVE  \E f : PagesOf(f, argc, at, strs, n)
<1> DEFINE Ok(m) == \E f : PagesOf(f, argc, at, strs, m)
           S == {m \in Nat : Ok(m)}
<1>1. Ok(0)
    <2> DEFINE f == [k \in 0 .. 0 |-> Header(argc)]
    <2>1. \A k \in 0 .. 0 : f[k] = PageWith(f, argc, at, strs, k)
        BY DEF PageWith
    <2>2. f = [k \in 0 .. 0 |-> PageWith(f, argc, at, strs, k)]
        BY <2>1
    <2> HIDE DEF f
    <2> QED BY <2>2 DEF PagesOf
<1>2. ASSUME NEW m \in Nat, Ok(m) PROVE Ok(m + 1)
    <2>1. PICK f : f = [k \in 0 .. m |-> PageWith(f, argc, at, strs, k)]
        BY <1>2 DEF PagesOf
    <2> DEFINE v == PageWith(f, argc, at, strs, m + 1)
               g == [k \in 0 .. m + 1 |-> IF k = m + 1 THEN v ELSE f[k]]
    <2>2. \A k \in 0 .. m : f[k] = PageWith(f, argc, at, strs, k)
        BY <2>1
    <2> HIDE DEF v
    <2>3. ASSUME NEW k \in 0 .. m + 1 PROVE g[k] = PageWith(g, argc, at, strs, k)
        <3>1. k # 0 => k - 1 \in 0 .. m /\ g[k - 1] = f[k - 1]
            OBVIOUS
        <3>2. PageWith(g, argc, at, strs, k) = PageWith(f, argc, at, strs, k)
            BY <3>1 DEF PageWith
        <3>3. CASE k = m + 1
            BY <3>2, <3>3 DEF v
        <3>4. CASE k # m + 1
            BY <3>2, <3>4, <2>2
        <3> QED BY <3>3, <3>4
    <2>4. g = [k \in 0 .. m + 1 |-> PageWith(g, argc, at, strs, k)]
        BY <2>3
    <2> HIDE DEF g
    <2> QED BY <2>4 DEF PagesOf
<1> HIDE DEF Ok
<1>3. 0 \in S /\ \A m \in Nat : m \in S => m + 1 \in S
    BY <1>1, <1>2
<1>4. n \in S
    BY <1>3, Induction
<1> QED BY <1>4 DEF Ok

\* The strings lie one after the other, from the first place on.
LEMMA PlacesGrow ==
    ASSUME NEW strs \in Seq(String), NEW first \in Nat, NEW at,
           PlacesOf(at, first, strs, Len(strs) + 1)
    PROVE  /\ at[1] = first
           /\ at \in [1 .. Len(strs) + 1 -> Nat]
           /\ \A k \in 1 .. Len(strs) : at[k + 1] = at[k] + Len(strs[k]) + 1
           /\ \A j, k \in 1 .. Len(strs) + 1 : j <= k => at[j] <= at[k]
<1> DEFINE n == Len(strs)
<1>1. n \in Nat /\ \A k \in 1 .. n : Len(strs[k]) \in Nat
    BY DEF String
<1>2. /\ at[1] = first
      /\ \A k \in 1 .. n : at[k + 1] = at[k] + Len(strs[k]) + 1
    BY <1>1 DEF PlacesOf, PlaceOf
<1> HIDE DEF n
<1>3. \A k \in 1 .. n + 1 : at[k] \in Nat
    <2> DEFINE S == {m \in Nat : m < n + 1 => at[m + 1] \in Nat}
    <2>1. 0 \in S
        BY <1>2
    <2>2. ASSUME NEW m \in S, m \in Nat PROVE m + 1 \in S
        <3>1. CASE m + 1 < n + 1
            <4>1. m + 1 \in 1 .. n /\ at[m + 1] \in Nat
                BY <1>1, <2>2, <3>1
            <4>2. at[(m + 1) + 1] = at[m + 1] + Len(strs[m + 1]) + 1
                BY <1>2, <4>1
            <4> QED BY <1>1, <4>1, <4>2
        <3> QED BY <3>1
    <2> HIDE DEF S
    <2>3. \A m \in Nat : m \in S
        BY <2>1, <2>2, Induction
    <2>4. \A k \in 1 .. n + 1 : k - 1 \in S
        BY <1>1, <2>3
    <2> QED BY <1>1, <2>4 DEF S
<1>4. ASSUME NEW j \in 1 .. n + 1, NEW k \in 1 .. n + 1, j <= k PROVE at[j] <= at[k]
    <2> DEFINE S == {m \in Nat : j + m <= n + 1 => at[j] <= at[j + m]}
    <2>1. 0 \in S
        <3>1. at[j] \in Nat
            BY <1>3
        <3>2. j + 0 = j
            BY <1>1
        <3> QED BY <3>1, <3>2
    <2>2. ASSUME NEW m \in S, m \in Nat PROVE m + 1 \in S
        <3>1. CASE j + m + 1 <= n + 1
            <4>1. j + m \in 1 .. n /\ at[j] <= at[j + m] /\ j + (m + 1) = (j + m) + 1
                BY <1>1, <2>2, <3>1
            <4>2. at[(j + m) + 1] = at[j + m] + Len(strs[j + m]) + 1
                BY <1>2, <4>1
            <4>3. at[j] \in Nat
                BY <1>3
            <4>4. at[j + m] \in Nat /\ Len(strs[j + m]) \in Nat
                <5>1. \A i \in 1 .. n : i \in 1 .. n + 1
                    BY <1>1
                <5> QED BY <1>1, <1>3, <4>1, <5>1
            <4>5. at[j] <= at[(j + m) + 1]
                BY <4>1, <4>2, <4>3, <4>4
            <4>6. at[j] <= at[j + (m + 1)]
                BY <4>1, <4>5
            <4> QED BY <4>6
        <3> QED BY <3>1
    <2> HIDE DEF S
    <2>3. k - j \in Nat /\ j + (k - j) = k
        BY <1>1, <1>4
    <2>4. k - j \in S
        BY <2>1, <2>2, <2>3, Induction
    <2> QED BY <1>1, <2>3, <2>4 DEF S
<1>5. at \in [1 .. n + 1 -> Nat]
    BY <1>3 DEF n, PlacesOf
<1> QED BY <1>2, <1>3, <1>4, <1>5 DEF n

-----------------------------------------------------------------------------
\* The page

Word(k) == WORD * k

\* The words precede the strings and are apart.
LEMMA Words ==
    /\ Word(0) = 0
    /\ \A k \in Nat : Word(k) \in Nat
    /\ \A j, k \in Nat : j < k => Word(j) < Word(k)
<1>1. WORD \in Nat \ {0}
    BY ExecArgsAssumption
<1>2. ASSUME NEW j \in Nat, NEW k \in Nat, j < k PROVE WORD * j < WORD * k
    <2> DEFINE d == k - j
    <2>1. d \in Nat \ {0} /\ k = j + d
        BY <1>2
    <2> HIDE DEF d
    <2>2. WORD * d > 0
        BY <1>1, <2>1
    <2>3. WORD * (j + d) = WORD * j + WORD * d
        BY <1>1, <2>1
    <2> QED BY <1>1, <2>1, <2>2, <2>3
<1>3. WORD * 0 = 0 /\ \A k \in Nat : WORD * k \in Nat
    BY <1>1
<1> QED BY <1>2, <1>3 DEF Word

LEMMA PokeAt ==
    ASSUME NEW page \in [Offset -> Nat], NEW o \in Nat, NEW values \in Seq(Nat)
    PROVE  /\ Poke(page, o, values) \in [Offset -> Nat]
           /\ \A x \in Offset : Poke(page, o, values)[x] =
                  IF o <= x /\ x < o + Len(values) THEN values[x - o + 1] ELSE page[x]
<1>1. Offset \subseteq Nat
    BY DEF Offset
<1>2. \A x \in Offset : x \in o .. o + Len(values) - 1 <=> o <= x /\ x < o + Len(values)
    BY <1>1
<1>3. \A x \in Offset : o <= x /\ x < o + Len(values) => values[x - o + 1] \in Nat
    BY <1>1
<1> QED BY <1>2, <1>3 DEF Poke

\* A string with its 0, its address in a word.
Stored(r, page, k, o, str) ==
    /\ r \in [Offset -> Nat]
    /\ \A x \in Offset : r[x] = IF o <= x /\ x < o + Len(str) THEN str[x - o + 1]
                              ELSE IF x = o + Len(str) THEN 0
                              ELSE IF x = Word(k) THEN KernelPage + o ELSE page[x]

LEMMA StoreAt ==
    ASSUME NEW page \in [Offset -> Nat], NEW k \in Nat, NEW o \in Nat, NEW str \in String
    PROVE  Stored(Store(page, k, o, str), page, k, o, str)
<1> DEFINE p == Poke(page, Word(k), <<KernelPage + o>>)
           values == str \o <<0>>
<1>1. Word(k) \in Nat /\ KernelPage + o \in Nat
    <2>1. KernelPage \in Nat
        BY ExecArgsAssumption
    <2> QED BY <2>1, Words
<1>2. Offset \subseteq Nat
    BY DEF Offset
<1>3. /\ p \in [Offset -> Nat]
      /\ \A x \in Offset : p[x] = IF x = Word(k) THEN KernelPage + o ELSE page[x]
    <2> DEFINE address == <<KernelPage + o>>
    <2>1. address \in Seq(Nat) /\ Len(address) = 1 /\ address[1] = KernelPage + o
        BY <1>1
    <2> HIDE DEF address
    <2>2. /\ Poke(page, Word(k), address) \in [Offset -> Nat]
          /\ \A x \in Offset : Poke(page, Word(k), address)[x] =
                 IF Word(k) <= x /\ x < Word(k) + Len(address)
                 THEN address[x - Word(k) + 1] ELSE page[x]
        BY <1>1, <2>1, PokeAt, Zenon
    <2>3. \A x \in Offset : (Word(k) <= x /\ x < Word(k) + 1) <=> x = Word(k)
        BY <1>1, <1>2
    <2>4. Word(k) - Word(k) + 1 = 1
        BY <1>1
    <2>5. p = Poke(page, Word(k), address)
        BY DEF address
    <2> QED BY <2>1, <2>2, <2>3, <2>4, <2>5
<1>4. /\ Len(str) \in Nat
      /\ values \in Seq(Nat) /\ Len(values) = Len(str) + 1
      /\ \A i \in 1 .. Len(str) : values[i] = str[i]
      /\ values[Len(str) + 1] = 0
    BY DEF String
<1>5. Store(page, k, o, str) = Poke(p, o, values)
    BY DEF Store, Word
<1> HIDE DEF p, values
<1>6. /\ Store(page, k, o, str) \in [Offset -> Nat]
      /\ \A x \in Offset : Store(page, k, o, str)[x] =
             IF o <= x /\ x < o + Len(values) THEN values[x - o + 1] ELSE p[x]
    <2>1. p \in [Offset -> Nat] /\ values \in Seq(Nat)
        BY <1>3, <1>4
    <2>2. /\ Poke(p, o, values) \in [Offset -> Nat]
          /\ \A x \in Offset : Poke(p, o, values)[x] =
                 IF o <= x /\ x < o + Len(values) THEN values[x - o + 1] ELSE p[x]
        BY <2>1, PokeAt, Zenon
    <2> QED BY <1>5, <2>2, Zenon
<1>7. ASSUME NEW x \in Offset
      PROVE  Store(page, k, o, str)[x] =
                  IF o <= x /\ x < o + Len(str) THEN str[x - o + 1]
                  ELSE IF x = o + Len(str) THEN 0
                  ELSE IF x = Word(k) THEN KernelPage + o ELSE page[x]
    <2>1. x \in Nat
        BY <1>2
    <2>2. CASE o <= x /\ x < o + Len(str)
        <3>1. x - o + 1 \in 1 .. Len(str) /\ x < o + Len(values)
            BY <1>4, <2>1, <2>2
        <3>2. values[x - o + 1] = str[x - o + 1]
            BY <1>4, <3>1
        <3> QED BY <1>6, <2>2, <3>1, <3>2
    <2>3. CASE x = o + Len(str)
        <3>1. x - o + 1 = Len(str) + 1 /\ o <= x /\ x < o + Len(values) /\ ~(x < o + Len(str))
            BY <1>4, <2>1, <2>3
        <3> QED BY <1>4, <1>6, <2>3, <3>1
    <2>4. CASE ~(o <= x /\ x < o + Len(str)) /\ x # o + Len(str)
        <3>1. ~(o <= x /\ x < o + Len(values))
            <4>1. Len(str) \in Nat /\ Len(values) = Len(str) + 1
                BY <1>4
            <4> QED BY <2>1, <2>4, <4>1
        <3>2. Store(page, k, o, str)[x] = p[x]
            BY <1>6, <3>1
        <3> QED BY <1>3, <2>4, <3>2
    <2> QED BY <2>2, <2>3, <2>4
<1> QED BY <1>6, <1>7 DEF Stored

\* The strings, at their places, fit in the page.
Fit(strs, at) ==
    /\ strs \in Seq(String)
    /\ at \in [1 .. Len(strs) + 1 -> Nat]
    /\ at[1] = Word(Len(strs) + 2)
    /\ \A k \in 1 .. Len(strs) : at[k + 1] = at[k] + Len(strs[k]) + 1
    /\ \A j, k \in 1 .. Len(strs) + 1 : j <= k => at[j] <= at[k]
    /\ at[Len(strs) + 1] <= PAGE_SIZE

\* String str is at offset o.
InPlace(page, o, str) ==
    /\ \A x \in Offset : o <= x /\ x < o + Len(str) => page[x] = str[x - o + 1]
    /\ page[o + Len(str)] = 0

\* The page has argc, the addresses of the first m strings in a page at base, the
\* NULL after all the addresses, and these strings.
Holds(page, base, argc, strs, at, m) ==
    /\ page \in [Offset -> Nat]
    /\ page[0] = argc
    /\ \A j \in 1 .. m : page[Word(j)] = base + at[j]
    /\ page[Word(Len(strs) + 1)] = 0
    /\ \A j \in 1 .. m : InPlace(page, at[j], strs[j])

\* Strings that fit are in the page, behind the words.
LEMMA Inside ==
    ASSUME NEW strs, NEW at, Fit(strs, at)
    PROVE  /\ Len(strs) \in Nat
           /\ \A k \in 1 .. Len(strs) :
                  /\ strs[k] \in String /\ Len(strs[k]) \in Nat /\ at[k] \in Nat
                  /\ at[k] + Len(strs[k]) + 1 <= PAGE_SIZE
                  /\ at[k] \in Offset /\ at[k] + Len(strs[k]) \in Offset
                  /\ \A j \in 0 .. Len(strs) + 1 : Word(j) < at[k]
                  /\ \A j \in 1 .. Len(strs) : j < k => at[j] + Len(strs[j]) < at[k]
           /\ Len(strs) # 0 => \A j \in 0 .. Len(strs) + 1 : Word(j) \in Offset
<1> DEFINE n == Len(strs)
<1>1. n \in Nat /\ PAGE_SIZE \in Nat
    BY ExecArgsAssumption DEF Fit
<1>2. \A k \in 1 .. n : strs[k] \in String /\ Len(strs[k]) \in Nat
    BY DEF Fit, String
<1>3. /\ \A k \in 1 .. n : at[k] \in Nat /\ at[k + 1] = at[k] + Len(strs[k]) + 1
      /\ \A j, k \in 1 .. n + 1 : j <= k => at[j] <= at[k]
      /\ at[n + 1] <= PAGE_SIZE /\ at[n + 1] \in Nat
      /\ at[1] = Word(n + 2) /\ at[1] \in Nat
    <2>1. /\ at \in [1 .. n + 1 -> Nat] /\ at[1] = Word(n + 2) /\ at[n + 1] <= PAGE_SIZE
          /\ \A k \in 1 .. n : at[k + 1] = at[k] + Len(strs[k]) + 1
          /\ \A j, k \in 1 .. n + 1 : j <= k => at[j] <= at[k]
        BY DEF Fit
    <2> HIDE DEF n
    <2>2. 1 \in 1 .. n + 1 /\ n + 1 \in 1 .. n + 1 /\ \A k \in 1 .. n : k \in 1 .. n + 1
        BY <1>1
    <2> QED BY <2>1, <2>2
<1>4. \A j \in 0 .. n + 1 : Word(j) \in Nat /\ Word(j) < at[1]
    <2>1. \A j \in 0 .. n + 1 : j \in Nat /\ j < n + 2 /\ n + 2 \in Nat
        BY <1>1
    <2> QED BY <1>3, <2>1, Words
<1> HIDE DEF n
<1>5. ASSUME NEW k \in 1 .. n
      PROVE  /\ at[k] + Len(strs[k]) + 1 <= PAGE_SIZE
             /\ at[1] <= at[k]
             /\ at[k] \in Offset /\ at[k] + Len(strs[k]) \in Offset
    <2>1. k \in 1 .. n + 1 /\ k + 1 \in 1 .. n + 1 /\ n + 1 \in 1 .. n + 1 /\ 1 \in 1 .. n + 1
          /\ k + 1 <= n + 1 /\ 1 <= k
        BY <1>1
    <2>2. at[k + 1] <= at[n + 1] /\ at[1] <= at[k]
        BY <1>3, <2>1
    <2>3. at[k] \in Nat /\ at[k + 1] = at[k] + Len(strs[k]) + 1 /\ Len(strs[k]) \in Nat
        BY <1>2, <1>3
    <2>4. at[k] + Len(strs[k]) + 1 <= PAGE_SIZE /\ at[k] \in Nat
        BY <1>1, <1>3, <2>2, <2>3
    <2>5. at[k] \in 0 .. PAGE_SIZE - 1 /\ at[k] + Len(strs[k]) \in 0 .. PAGE_SIZE - 1
        BY <1>1, <2>3, <2>4
    <2> QED BY <2>2, <2>4, <2>5 DEF Offset
<1>6. ASSUME NEW k \in 1 .. n, NEW j \in 1 .. n, j < k PROVE at[j] + Len(strs[j]) < at[k]
    <2>1. j + 1 \in 1 .. n + 1 /\ k \in 1 .. n + 1 /\ j + 1 <= k
        BY <1>1, <1>6
    <2>2. at[j + 1] <= at[k]
        BY <1>3, <2>1
    <2>3. at[j] \in Nat /\ at[k] \in Nat /\ at[j + 1] = at[j] + Len(strs[j]) + 1
          /\ Len(strs[j]) \in Nat
        BY <1>2, <1>3
    <2> QED BY <2>2, <2>3
<1>7. ASSUME NEW k \in 1 .. n, NEW j \in 0 .. n + 1 PROVE Word(j) < at[k]
    <2>1. Word(j) \in Nat /\ Word(j) < at[1] /\ at[1] <= at[k] /\ at[k] \in Nat /\ at[1] \in Nat
        BY <1>3, <1>4, <1>5
    <2> QED BY <2>1
<1>8. ASSUME n # 0, NEW j \in 0 .. n + 1 PROVE Word(j) \in Offset
    <2>1. 1 \in 1 .. n
        BY <1>1, <1>8
    <2>2. Word(j) \in Nat /\ Word(j) < at[1] /\ at[1] \in Offset
        BY <1>4, <1>5, <2>1
    <2> QED BY <1>1, <2>2 DEF Offset
<1> QED BY <1>1, <1>2, <1>3, <1>5, <1>6, <1>7, <1>8 DEF n

LEMMA HeaderHolds ==
    ASSUME NEW strs, NEW at, Fit(strs, at), Len(strs) # 0, NEW argc \in Nat
    PROVE  Holds(Header(argc), KernelPage, argc, strs, at, 0)
<1> DEFINE zero == [o \in Offset |-> 0]
           header == <<argc>>
<1>1. /\ Len(strs) \in Nat
      /\ 0 \in Offset /\ Word(Len(strs) + 1) \in Offset /\ 0 < Word(Len(strs) + 1)
    <2>1. Len(strs) \in Nat
        BY Inside
    <2>2. 0 \in 0 .. Len(strs) + 1 /\ Len(strs) + 1 \in 0 .. Len(strs) + 1
          /\ Len(strs) + 1 \in Nat /\ 0 < Len(strs) + 1
        BY <2>1
    <2>3. \A j \in 0 .. Len(strs) + 1 : Word(j) \in Offset
        BY Inside
    <2> QED BY <2>1, <2>2, <2>3, Words
<1>2. zero \in [Offset -> Nat] /\ header \in Seq(Nat) /\ Len(header) = 1 /\ header[1] = argc
    OBVIOUS
<1>3. Header(argc) = Poke(zero, 0, header)
    BY DEF Header
<1>4. \A x \in Offset : zero[x] = 0
    OBVIOUS
<1> HIDE DEF zero, header
<1>5. /\ Poke(zero, 0, header) \in [Offset -> Nat]
      /\ \A x \in Offset : Poke(zero, 0, header)[x] =
             IF 0 <= x /\ x < 0 + Len(header) THEN header[x - 0 + 1] ELSE zero[x]
    <2>1. 0 \in Nat
        OBVIOUS
    <2> QED BY <1>2, <2>1, PokeAt, Zenon
<1>6. Header(argc)[0] = argc
    <2>1. 0 <= 0 /\ 0 < 0 + Len(header) /\ 0 - 0 + 1 = 1
        BY <1>2
    <2> QED BY <1>1, <1>2, <1>3, <1>5, <2>1
<1>7. Header(argc)[Word(Len(strs) + 1)] = 0
    <2>1. ~(Word(Len(strs) + 1) < 0 + Len(header))
        BY <1>1, <1>2 DEF Offset
    <2> QED BY <1>1, <1>3, <1>4, <1>5, <2>1
<1>8. \A j \in 1 .. 0 : FALSE
    OBVIOUS
<1> QED BY <1>3, <1>5, <1>6, <1>7, <1>8 DEF Holds

\* A further string and its address leave what is in the page.
LEMMA StoreKeeps ==
    ASSUME NEW strs, NEW at, Fit(strs, at), NEW argc \in Nat, NEW m \in Nat, m < Len(strs),
           NEW page, Holds(page, KernelPage, argc, strs, at, m)
    PROVE  Holds(Store(page, m + 1, at[m + 1], strs[m + 1]), KernelPage, argc, strs, at, m + 1)
<1> DEFINE n == Len(strs)
           q == m + 1
           o == at[q]
           str == strs[q]
           r == Store(page, q, o, str)
<1>1. /\ n \in Nat /\ q \in Nat /\ q \in 1 .. n
      /\ \A j \in 0 .. n + 1 : j \in Nat
    BY Inside
<1>2. /\ o \in Nat /\ str \in String /\ Len(str) \in Nat
      /\ \A j \in 0 .. n + 1 : Word(j) < o /\ Word(j) \in Offset /\ Word(j) \in Nat
    <2>1. /\ o \in Nat /\ str \in String /\ Len(str) \in Nat
          /\ \A j \in 0 .. n + 1 : Word(j) < o
        BY <1>1, Inside
    <2>2. n # 0
        BY <1>1
    <2>3. \A j \in 0 .. n + 1 : Word(j) \in Offset
        BY <2>2, Inside
    <2> HIDE DEF o, str, n
    <2> QED BY <1>1, <2>1, <2>3, Words
<1>3. /\ page \in [Offset -> Nat] /\ page[0] = argc /\ page[Word(n + 1)] = 0
      /\ \A j \in 1 .. m : page[Word(j)] = KernelPage + at[j]
      /\ \A j \in 1 .. m : InPlace(page, at[j], strs[j])
    BY DEF Holds
<1>4. /\ r \in [Offset -> Nat]
      /\ \A x \in Offset : r[x] = IF o <= x /\ x < o + Len(str) THEN str[x - o + 1]
                                  ELSE IF x = o + Len(str) THEN 0
                                  ELSE IF x = Word(q) THEN KernelPage + o ELSE page[x]
    <2>1. page \in [Offset -> Nat] /\ q \in Nat /\ o \in Nat /\ str \in String
        BY <1>1, <1>2, <1>3
    <2> HIDE DEF o, str, q, r
    <2>2. Stored(Store(page, q, o, str), page, q, o, str)
        BY <2>1, StoreAt
    <2> QED BY <2>2 DEF Stored, r
<1>5. \A j \in 1 .. n : j < q =>
          at[j] \in Nat /\ Len(strs[j]) \in Nat /\ at[j] + Len(strs[j]) < o
          /\ at[j] + Len(strs[j]) \in Offset /\ Word(q) < at[j]
    <2>1. q \in 0 .. n + 1
        BY <1>1
    <2> QED BY <1>1, <2>1, Inside
<1>a. \A j \in 1 .. q : j = q \/ j \in 1 .. m
    BY <1>1
<1>b. \A j \in 1 .. m : j \in 1 .. n /\ j < q
    BY <1>1
<1> HIDE DEF n, q, o, str, r
<1>6. ASSUME NEW j \in 0 .. n + 1
      PROVE  r[Word(j)] = IF j = q THEN KernelPage + o ELSE page[Word(j)]
    <2>1. Word(j) \in Offset /\ ~(o <= Word(j)) /\ Word(j) # o + Len(str)
        BY <1>2
    <2>2. r[Word(j)] = IF Word(j) = Word(q) THEN KernelPage + o ELSE page[Word(j)]
        BY <1>4, <2>1
    <2>3. j \in Nat /\ q \in Nat /\ (j # q => j < q \/ q < j)
        BY <1>1
    <2>4. \A i \in Nat : Word(i) \in Nat
        BY Words
    <2>5. j # q => Word(j) # Word(q)
        <3>1. j # q => Word(j) < Word(q) \/ Word(q) < Word(j)
            BY <2>3, Words
        <3> QED BY <2>3, <2>4, <3>1
    <2> QED BY <2>2, <2>5
<1>7. ASSUME NEW j \in 1 .. q PROVE r[Word(j)] = KernelPage + at[j]
    <2>1. j \in 0 .. n + 1 /\ (j # q => j \in 1 .. m)
        BY <1>1, <1>a
    <2> QED BY <1>3, <1>6, <2>1 DEF o
<1>8. r[0] = argc
    <2>1. 0 \in 0 .. n + 1 /\ 0 # q
        BY <1>1
    <2> QED BY <1>3, <1>6, <2>1, Words
<1>9. r[Word(n + 1)] = 0
    <2>1. n + 1 \in 0 .. n + 1 /\ n + 1 # q
        BY <1>1
    <2> QED BY <1>3, <1>6, <2>1
<1>10. InPlace(r, o, str)
    <2>1. \A x \in Offset : o <= x /\ x < o + Len(str) => r[x] = str[x - o + 1]
        BY <1>4
    <2>2. o + Len(str) \in Offset /\ ~(o + Len(str) < o + Len(str))
        <3>1. at[q] + Len(strs[q]) \in Offset
            BY <1>1, Inside DEF n
        <3> QED BY <1>2, <3>1 DEF o, str
    <2>3. r[o + Len(str)] = 0
        BY <1>4, <2>2
    <2> QED BY <2>1, <2>3 DEF InPlace
<1>11. ASSUME NEW j \in 1 .. m PROVE InPlace(r, at[j], strs[j])
    <2> DEFINE p == at[j]
               l == Len(strs[j])
    <2>1. p \in Nat /\ l \in Nat /\ p + l < o /\ p + l \in Offset /\ Word(q) < p
        BY <1>5, <1>b
    <2>2. \A x \in Offset : p <= x /\ x < p + l => page[x] = strs[j][x - p + 1]
        BY <1>3 DEF InPlace
    <2>3. page[p + l] = 0
        BY <1>3 DEF InPlace
    <2> HIDE DEF p, l
    <2>4. \A x \in Offset : x \in Nat
        BY DEF Offset
    <2>5. ASSUME NEW x \in Offset, p <= x, x <= p + l PROVE r[x] = page[x]
        <3>1. Word(q) \in Nat
            BY <1>1, Words
        <3>2. ~(o <= x) /\ x # o + Len(str) /\ x # Word(q)
            BY <1>2, <2>1, <2>4, <2>5, <3>1
        <3> QED BY <1>4, <3>2
    <2>6. \A x \in Offset : p <= x /\ x < p + l => r[x] = strs[j][x - p + 1]
        BY <2>1, <2>2, <2>4, <2>5
    <2>7. r[p + l] = 0
        BY <2>1, <2>3, <2>5
    <2> QED BY <2>6, <2>7 DEF InPlace, p, l
<1>12. \A j \in 1 .. q : InPlace(r, at[j], strs[j])
    BY <1>10, <1>11, <1>a DEF o, str
<1> QED BY <1>4, <1>7, <1>8, <1>9, <1>12 DEF Holds, n, q, o, str, r

\* What preserve_args_and_env() returns when it does not return NULL.
LEMMA Preserved ==
    ASSUME NEW argv \in Seq(String), NEW env, env.strings \in Seq(String),
           ~DoesNotFit(argv, env)
    PROVE  LET strs == Strings(argv, env)
               at == Place(argv, env)
           IN  /\ Len(strs) # 0 /\ Fit(strs, at)
               /\ Holds(preserve_args_and_env(argv, env), KernelPage, ArgCount(argv), strs, at,
                        Len(strs))
<1> DEFINE strs == Strings(argv, env)
           at == Place(argv, env)
           first == FirstString(argv, env)
           n == Len(strs)
           argc == ArgCount(argv)
<1>1. ProcName \in String /\ WORD * 3 + Len(ProcName) + 1 <= PAGE_SIZE /\ WORD \in Nat
    BY ExecArgsAssumption DEF String
<1>2. /\ Len(argv) \in Nat /\ Len(env.strings) \in Nat
      /\ argv = <<>> <=> Len(argv) = 0
    BY DEF String
<1>3. argc \in Nat \ {0}
    BY <1>2 DEF ArgCount
<1>4. strs \in Seq(String) /\ n = argc + Len(env.strings)
    <2>1. CASE argv = <<>>
        <3>1. <<ProcName>> \in Seq(String) /\ Len(<<ProcName>>) = 1
            BY <1>1
        <3> QED BY <2>1, <3>1 DEF Strings, ArgCount
    <2>2. CASE argv # <<>>
        BY <2>2 DEF Strings, ArgCount
    <2> QED BY <2>1, <2>2
<1>5. first = Word(n + 2) /\ n \in Nat \ {0}
    <2> HIDE DEF strs, n, argc
    <2>1. n \in Nat \ {0}
        BY <1>2, <1>3, <1>4
    <2>2. 1 + argc + (Len(env.strings) + 1) = n + 2
        <3> DEFINE l == Len(env.strings)
        <3>1. l \in Nat /\ argc \in Nat /\ n = argc + l
            BY <1>2, <1>3, <1>4
        <3> HIDE DEF l
        <3>2. 1 + argc + (l + 1) = n + 2
            BY <3>1
        <3> QED BY <3>2 DEF l
    <2>3. first = WORD * (1 + argc + (Len(env.strings) + 1))
        BY DEF FirstString, EnvSlots, argc
    <2> QED BY <2>1, <2>2, <2>3 DEF Word
<1>6. PlacesOf(at, first, strs, n + 1)
    <2>1. n + 1 \in Nat
        BY <1>5
    <2>2. \E f : PlacesOf(f, first, strs, n + 1)
        <3> HIDE DEF strs, first, n
        <3> QED BY <2>1, PlacesExist
    <2> QED BY <2>2 DEF Place, PlacesOf
<1>7. first \in Nat
    BY <1>5, Words
<1>8. /\ at[1] = first
      /\ at \in [1 .. n + 1 -> Nat]
      /\ \A k \in 1 .. n : at[k + 1] = at[k] + Len(strs[k]) + 1
      /\ \A j, k \in 1 .. n + 1 : j <= k => at[j] <= at[k]
    <2>1. /\ strs \in Seq(String) /\ first \in Nat
          /\ PlacesOf(at, first, strs, Len(strs) + 1)
        BY <1>4, <1>6, <1>7
    <2> HIDE DEF at, strs, first
    <2> QED BY <2>1, PlacesGrow
<1>9. at[n + 1] <= PAGE_SIZE
    <2>1. CASE argv = <<>> /\ n = 1
        <3>1. strs[1] = ProcName
            BY <2>1 DEF Strings
        <3>2. first = WORD * 3
            <4>1. n + 2 = 3
                <5> HIDE DEF n
                <5> QED BY <2>1
            <4> QED BY <1>5, <4>1 DEF Word
        <3>3. at[1 + 1] = first + Len(ProcName) + 1
            BY <1>8, <2>1, <3>1
        <3> QED BY <1>1, <2>1, <3>2, <3>3
    <2>2. CASE ~(argv = <<>> /\ n = 1)
        <3> DEFINE tested == IF argv = <<>> THEN 2 ELSE 1
        <3>1. n \in tested .. n
            <4>1. tested \in {1, 2} /\ tested <= n
                <5> HIDE DEF n
                <5>1. n >= 1 /\ (n # 1 => n >= 2)
                    BY <1>5
                <5> QED BY <2>2, <5>1
            <4> QED BY <1>5, <4>1
        <3>2. \A k \in tested .. n : ~(at[k + 1] > PAGE_SIZE)
            BY DEF DoesNotFit
        <3>3. ~(at[n + 1] > PAGE_SIZE)
            BY <3>1, <3>2
        <3>4. at[n + 1] \in Nat /\ PAGE_SIZE \in Nat
            <4>1. n + 1 \in 1 .. n + 1
                BY <1>5
            <4>2. PAGE_SIZE \in Nat
                BY ExecArgsAssumption
            <4> QED BY <1>8, <4>1, <4>2
        <3> QED BY <3>3, <3>4
    <2> QED BY <2>1, <2>2
<1>10. Fit(strs, at)
    BY <1>4, <1>5, <1>8, <1>9 DEF Fit
<1> DEFINE pages == CHOOSE f : f = [k \in 0 .. n |-> PageWith(f, argc, at, strs, k)]
<1>11. preserve_args_and_env(argv, env) = pages[n]
    BY DEF preserve_args_and_env
<1>12. pages = [k \in 0 .. n |-> PageWith(pages, argc, at, strs, k)]
    <2>1. \E f : PagesOf(f, argc, at, strs, n)
        <3> HIDE DEF strs, at, argc, n
        <3> QED BY <1>5, PagesExist
    <2> QED BY <2>1 DEF PagesOf
<1> HIDE DEF strs, at, first, argc, n, pages
<1>13. Holds(pages[n], KernelPage, argc, strs, at, n)
    <2> DEFINE S == {m \in Nat : m <= n => Holds(pages[m], KernelPage, argc, strs, at, m)}
    <2>1. 0 \in S
        <3>1. pages[0] = Header(argc)
            BY <1>5, <1>12 DEF PageWith
        <3>2. Holds(pages[0], KernelPage, argc, strs, at, 0)
            BY <1>3, <1>5, <1>10, <3>1, HeaderHolds DEF n
        <3> QED BY <3>2
    <2>2. ASSUME NEW m \in Nat, m \in S PROVE m + 1 \in S
        <3>1. CASE m + 1 <= n
            <4>1. m < n /\ m <= n /\ m + 1 \in 0 .. n /\ m + 1 # 0 /\ (m + 1) - 1 = m
                BY <1>5, <3>1
            <4>2. pages[m + 1] = Store(pages[m], m + 1, at[m + 1], strs[m + 1])
                BY <1>12, <4>1 DEF PageWith
            <4>3. Holds(pages[m], KernelPage, argc, strs, at, m)
                BY <2>2, <4>1
            <4>4. Holds(pages[m + 1], KernelPage, argc, strs, at, m + 1)
                BY <1>3, <1>10, <4>1, <4>2, <4>3, StoreKeeps DEF n
            <4> QED BY <4>4
        <3> QED BY <3>1
    <2> HIDE DEF S
    <2>3. n \in S
        BY <1>5, <2>1, <2>2, Induction
    <2> QED BY <1>5, <2>3 DEF S
<1> QED BY <1>5, <1>10, <1>11, <1>13 DEF n, strs, at, argc

\* The environment is as long as the addresses up to the NULL.
LEMMA EnvLengthIs ==
    ASSUME NEW strs, NEW at, Fit(strs, at), NEW base \in Nat \ {0}, NEW argc \in Nat,
           argc <= Len(strs), Len(strs) # 0,
           NEW page, Holds(page, base, argc, strs, at, Len(strs))
    PROVE  EnvLength(page, argc) = Len(strs) - argc
<1> DEFINE n == Len(strs)
           Ends(l) == /\ page[WORD * (1 + argc + l)] = 0
                      /\ \A k \in 0 .. l - 1 : page[WORD * (1 + argc + k)] # 0
<1>1. n \in Nat /\ PAGE_SIZE \in Nat
    BY Inside, ExecArgsAssumption
<1>2. n - argc \in 0 .. PAGE_SIZE
    <2>1. \A k \in Nat : k <= Word(k)
        <3>1. WORD \in Nat /\ WORD >= 1
            BY ExecArgsAssumption
        <3>2. ASSUME NEW k \in Nat PROVE k <= WORD * k
            <4>1. (WORD - 1) * k >= 0
                BY <3>1
            <4>2. (WORD - 1) * k = WORD * k - k
                BY <3>1
            <4> QED BY <3>1, <4>1, <4>2
        <3> QED BY <3>2 DEF Word
    <2>2. n \in 0 .. n + 1
        BY <1>1
    <2>3. Word(n) \in Offset
        BY <2>2, Inside DEF n
    <2> HIDE DEF n
    <2>4. n <= Word(n) /\ Word(n) \in 0 .. PAGE_SIZE - 1
        BY <1>1, <2>1, <2>3 DEF Offset
    <2> QED BY <1>1, <2>4 DEF n
<1>3. \A j \in 1 .. n : page[WORD * j] # 0
    <2>1. \A j \in 1 .. n : page[WORD * j] = base + at[j] /\ at[j] \in Nat
        BY Inside DEF Holds, Word
    <2> QED BY <2>1
<1>4. page[WORD * (n + 1)] = 0
    BY DEF Holds, Word
<1> HIDE DEF n
<1>5. Ends(n - argc)
    <2>1. 1 + argc + (n - argc) = n + 1
        BY <1>1
    <2>2. \A k \in 0 .. (n - argc) - 1 : 1 + argc + k \in 1 .. n
        BY <1>1
    <2> QED BY <1>3, <1>4, <2>1, <2>2
<1>6. ASSUME NEW l \in 0 .. PAGE_SIZE, Ends(l) PROVE l = n - argc
    <2>1. ~(l < n - argc)
        <3>1. l < n - argc => 1 + argc + l \in 1 .. n
            BY <1>1
        <3> QED BY <1>3, <1>6, <3>1
    <2>2. ~(n - argc < l)
        <3>1. n - argc < l => n - argc \in 0 .. l - 1
            BY <1>1, <1>2
        <3>2. 1 + argc + (n - argc) = n + 1
            BY <1>1
        <3> QED BY <1>4, <1>6, <3>1, <3>2
    <2> QED BY <1>1, <2>1, <2>2
<1>7. EnvLength(page, argc) = CHOOSE l \in 0 .. PAGE_SIZE : Ends(l)
    BY DEF EnvLength
<1> HIDE DEF Ends
<1> QED BY <1>2, <1>5, <1>6, <1>7 DEF n

\* The page at its new place holds the same, with the addresses of that place.
LEMMA Moved ==
    ASSUME NEW strs, NEW at, Fit(strs, at), NEW argc \in Nat,
           argc <= Len(strs), Len(strs) # 0,
           NEW page, Holds(page, KernelPage, argc, strs, at, Len(strs))
    PROVE  Holds(post_setup_image(page), ArgsBase, argc, strs, at, Len(strs))
<1> DEFINE n == Len(strs)
           slots == {Word(k) : k \in 1 .. n}
           r == post_setup_image(page)
<1>1. /\ n \in Nat /\ \A j \in 1 .. n : at[j] \in Nat
      /\ KernelPage \in Nat \ {0} /\ ArgsBase \in Nat \ {0}
    BY Inside, ExecArgsAssumption
<1>2. /\ page \in [Offset -> Nat] /\ page[0] = argc /\ page[Word(n + 1)] = 0
      /\ \A j \in 1 .. n : page[Word(j)] = KernelPage + at[j]
      /\ \A j \in 1 .. n : InPlace(page, at[j], strs[j])
    BY DEF Holds
<1>3. EnvLength(page, argc) = n - argc
    BY <1>1, EnvLengthIs
<1>4. argc + EnvLength(page, argc) = n
    <2> HIDE DEF n
    <2> QED BY <1>1, <1>3
<1>5. r = [o \in Offset |-> IF o \in slots THEN page[o] - KernelPage + ArgsBase ELSE page[o]]
    BY <1>2, <1>4 DEF post_setup_image, Word
<1>6. \A j \in 1 .. n : Word(j) \in Offset /\ Word(j) \in slots
    BY <1>1, Inside
<1>7. \A x \in Offset : x \notin slots => r[x] = page[x]
    BY <1>5
<1>8. \A j \in 1 .. n : r[Word(j)] = ArgsBase + at[j]
    <2> HIDE DEF n, slots, r
    <2>1. ASSUME NEW j \in 1 .. n PROVE r[Word(j)] = ArgsBase + at[j]
        <3>1. r[Word(j)] = page[Word(j)] - KernelPage + ArgsBase
            BY <1>5, <1>6
        <3>2. page[Word(j)] = KernelPage + at[j] /\ at[j] \in Nat
            BY <1>1, <1>2
        <3>3. \A a, b, c \in Nat : b + a - b + c = c + a
            OBVIOUS
        <3> QED BY <1>1, <3>1, <3>2, <3>3
    <2> QED BY <2>1
<1>9. \A x \in Offset : x \in slots => r[x] \in Nat
    <2>1. ASSUME NEW j \in 1 .. n PROVE r[Word(j)] \in Nat
        BY <1>1, <1>8
    <2> HIDE DEF r
    <2> QED BY <2>1
<1>10. r \in [Offset -> Nat]
    <2>1. \A x \in Offset : r[x] \in Nat
        BY <1>2, <1>7, <1>9
    <2> HIDE DEF slots
    <2> QED BY <1>5, <2>1
<1>11. 0 \notin slots /\ Word(n + 1) \notin slots /\ 0 \in Offset /\ Word(n + 1) \in Offset
    <2>1. \A j \in 1 .. n : 0 \in Nat /\ j \in Nat /\ n + 1 \in Nat /\ 0 < j /\ j < n + 1
        BY <1>1
    <2>2. \A j \in 1 .. n : 0 < Word(j) /\ Word(j) < Word(n + 1)
        BY <2>1, Words
    <2>3. \A j \in 1 .. n : Word(j) # 0 /\ Word(j) # Word(n + 1)
        <3>1. \A j \in 1 .. n + 1 : Word(j) \in Nat
            BY <1>1, Words
        <3> QED BY <1>1, <2>2, <3>1
    <2>4. 0 \in 0 .. n + 1 /\ n + 1 \in 0 .. n + 1
        BY <1>1
    <2>5. Word(0) \in Offset /\ Word(n + 1) \in Offset
        BY <2>4, Inside
    <2> QED BY <2>3, <2>5, Words
<1>12. ASSUME NEW j \in 1 .. n PROVE InPlace(r, at[j], strs[j])
    <2> DEFINE p == at[j]
               l == Len(strs[j])
    <2>1. p \in Nat /\ l \in Nat /\ p + l \in Offset
        BY Inside
    <2>2. ASSUME NEW x \in Offset, p <= x PROVE x \notin slots
        <3>1. \A k \in 1 .. n : k \in 0 .. n + 1 /\ k \in Nat
            BY <1>1
        <3>2. \A k \in 1 .. n : Word(k) < p /\ Word(k) \in Nat
            BY <3>1, Inside, Words
        <3>3. x \in Nat
            BY DEF Offset
        <3> HIDE DEF p
        <3> QED BY <2>1, <2>2, <3>2, <3>3
    <2>3. InPlace(page, p, strs[j])
        BY <1>2
    <2> HIDE DEF p, l, slots, r
    <2>4. \A x \in Offset : p <= x => r[x] = page[x]
        BY <1>7, <2>2
    <2>5. p <= p + l
        BY <2>1
    <2>6. r[p + l] = 0
        BY <2>1, <2>3, <2>4, <2>5 DEF InPlace, l
    <2>7. \A x \in Offset : p <= x /\ x < p + l => r[x] = strs[j][x - p + 1]
        BY <2>3, <2>4 DEF InPlace, l
    <2> QED BY <2>6, <2>7 DEF InPlace, p, l
<1> HIDE DEF r, slots
<1>13. r[0] = argc /\ r[Word(n + 1)] = 0
    BY <1>2, <1>7, <1>11
<1> QED BY <1>8, <1>10, <1>12, <1>13 DEF Holds, r

\* A string that lies at its place is found there.
LEMMA StringAtIs ==
    ASSUME NEW str \in String, NEW o \in Offset, o + Len(str) \in Offset, NEW page,
           InPlace(page, o, str)
    PROVE  StringAt(page, ArgsBase + o) = str
<1> DEFINE l == Len(str)
           ends == {x \in Offset : x >= o /\ page[x] = 0}
<1>1. o \in Nat /\ l \in Nat /\ ArgsBase \in Nat /\ Offset \subseteq Nat
    BY ExecArgsAssumption DEF String, Offset
<1>2. (ArgsBase + o) - ArgsBase = o
    BY <1>1
<1>3. \A x \in Offset : o <= x /\ x < o + l => page[x] = str[x - o + 1]
    BY DEF InPlace
<1>4. page[o + l] = 0
    BY DEF InPlace
<1>5. \A i \in 1 .. l : str[i] \in Nat \ {0}
    BY DEF String
<1> HIDE DEF l
<1>6. o + l \in ends
    <2>1. o + l >= o
        BY <1>1
    <2> QED BY <1>4, <2>1 DEF l
<1>7. ASSUME NEW x \in ends PROVE o + l <= x
    <2>1. x \in Nat /\ x >= o /\ page[x] = 0 /\ x \in Offset
        BY <1>1
    <2>2. SUFFICES ASSUME x < o + l PROVE FALSE
        BY <1>1, <2>1
    <2>3. x - o + 1 \in 1 .. l
        BY <1>1, <2>1, <2>2
    <2>4. page[x] = str[x - o + 1]
        BY <1>3, <2>1, <2>2
    <2> QED BY <1>5, <2>1, <2>3, <2>4
<1> DEFINE end == CHOOSE x \in ends : \A y \in ends : x <= y
<1>8. end = o + l
    <2>1. end \in ends /\ \A y \in ends : end <= y
        BY <1>6, <1>7
    <2>2. end <= o + l /\ o + l <= end
        BY <1>6, <1>7, <2>1
    <2>3. end \in Nat
        BY <1>1, <2>1
    <2> HIDE DEF end
    <2> QED BY <1>1, <2>2, <2>3
<1>9. StringAt(page, ArgsBase + o) = [k \in 1 .. end - o |-> page[o + k - 1]]
    BY <1>2, <1>6 DEF StringAt
<1> HIDE DEF end, ends
<1>10. end - o = l
    BY <1>1, <1>8
<1>11. ASSUME NEW k \in 1 .. l PROVE page[o + k - 1] = str[k]
    <2>1. o + k - 1 \in Offset
        <3>1. o + l \in 0 .. PAGE_SIZE - 1
            BY DEF l, Offset
        <3>2. PAGE_SIZE \in Nat
            BY ExecArgsAssumption
        <3>3. o + k - 1 \in 0 .. PAGE_SIZE - 1
            BY <1>1, <3>1, <3>2
        <3> QED BY <3>3 DEF Offset
    <2>2. o <= o + k - 1 /\ o + k - 1 < o + l /\ (o + k - 1) - o + 1 = k
        BY <1>1
    <2> QED BY <1>3, <2>1, <2>2
<1>12. str = [k \in 1 .. l |-> str[k]]
    BY DEF String, l
<1>13. [k \in 1 .. l |-> page[o + k - 1]] = [k \in 1 .. l |-> str[k]]
    BY <1>11
<1> QED BY <1>9, <1>10, <1>12, <1>13

\* What the start-up code reads is what the page holds.
LEMMA ArgsOfIs ==
    ASSUME NEW strs, NEW at, Fit(strs, at), NEW argc \in Nat,
           argc <= Len(strs), Len(strs) # 0,
           NEW page, Holds(page, ArgsBase, argc, strs, at, Len(strs))
    PROVE  ArgsOf(page) = [argv |-> [k \in 1 .. argc |-> strs[k]],
                           envp |-> [k \in 1 .. Len(strs) - argc |-> strs[argc + k]]]
<1> DEFINE n == Len(strs)
           Str(k) == StringAt(page, page[WORD * k])
<1>1. n \in Nat /\ ArgsBase \in Nat \ {0}
    BY Inside, ExecArgsAssumption
<1>2. EnvLength(page, argc) = n - argc
    BY <1>1, EnvLengthIs
<1>3. page[0] = argc
    BY DEF Holds
<1>4. ASSUME NEW k \in 1 .. n PROVE Str(k) = strs[k]
    <2>1. page[WORD * k] = ArgsBase + at[k] /\ InPlace(page, at[k], strs[k])
        BY DEF Holds, Word
    <2>2. strs[k] \in String /\ at[k] \in Offset /\ at[k] + Len(strs[k]) \in Offset
        BY Inside
    <2> QED BY <2>1, <2>2, StringAtIs
<1>5. ArgsOf(page) = [argv |-> [k \in 1 .. argc |-> Str(k)],
                      envp |-> [k \in 1 .. n - argc |-> Str(argc + k)]]
    BY <1>2, <1>3 DEF ArgsOf
<1> HIDE DEF n, Str
<1>6. [k \in 1 .. argc |-> Str(k)] = [k \in 1 .. argc |-> strs[k]]
    <2>1. \A k \in 1 .. argc : k \in 1 .. n
        BY <1>1 DEF n
    <2> QED BY <1>4, <2>1
<1>7. [k \in 1 .. n - argc |-> Str(argc + k)] = [k \in 1 .. n - argc |-> strs[argc + k]]
    <2>1. \A k \in 1 .. n - argc : argc + k \in 1 .. n
        BY <1>1 DEF n
    <2> QED BY <1>4, <2>1
<1> QED BY <1>5, <1>6, <1>7 DEF n

\* Arguments that fit in a page are those that were given.
LEMMA AllReceived ==
    ASSUME NEW argv \in Seq(String), NEW env, env.strings \in Seq(String),
           ~DoesNotFit(argv, env)
    PROVE  Received(argv, env) = Given(argv, env)
<1> DEFINE strs == Strings(argv, env)
           at == Place(argv, env)
           argc == ArgCount(argv)
           args == IF argv = <<>> THEN <<ProcName>> ELSE argv
           environment == env.strings
           page == preserve_args_and_env(argv, env)
<1>1. /\ args \in Seq(String) /\ Len(args) = argc
      /\ environment \in Seq(String)
      /\ strs = args \o environment
    <2>1. ProcName \in String
        BY ExecArgsAssumption DEF String
    <2>2. <<ProcName>> \in Seq(String) /\ Len(<<ProcName>>) = 1
        BY <2>1
    <2> QED BY <2>2 DEF ArgCount, Strings
<1>2. /\ Len(strs) # 0 /\ Fit(strs, at)
      /\ Holds(page, KernelPage, argc, strs, at, Len(strs))
    BY Preserved
<1> HIDE DEF strs, at, argc, args, environment, page
<1>3. /\ argc \in Nat /\ argc <= Len(strs) /\ Len(strs) - argc = Len(environment)
      /\ \A k \in 1 .. argc : strs[k] = args[k]
      /\ \A k \in 1 .. Len(environment) : strs[argc + k] = environment[k]
      /\ args = [k \in 1 .. argc |-> args[k]]
      /\ environment = [k \in 1 .. Len(environment) |-> environment[k]]
    BY <1>1
<1>4. Holds(post_setup_image(page), ArgsBase, argc, strs, at, Len(strs))
    BY <1>2, <1>3, Moved
<1>5. ArgsOf(post_setup_image(page))
      = [argv |-> [k \in 1 .. argc |-> strs[k]],
         envp |-> [k \in 1 .. Len(strs) - argc |-> strs[argc + k]]]
    BY <1>2, <1>3, <1>4, ArgsOfIs
<1>6. [k \in 1 .. argc |-> strs[k]] = args
    BY <1>3
<1>7. [k \in 1 .. Len(strs) - argc |-> strs[argc + k]] = environment
    BY <1>3
<1> QED BY <1>5, <1>6, <1>7 DEF Received, Given, page, args, environment

\* No execve() alters what it is given.
LEMMA ArrivalsUnaltered == "altered" \notin Arrivals
<1> SUFFICES ASSUME NEW argv \in ArgLists, NEW env \in EnvLists
             PROVE  Arrival(argv, env) # "altered"
    BY DEF Arrivals
<1>1. argv \in Seq(String) /\ env.strings \in Seq(String)
    BY SyscallsAssumption DEF String
<1>2. ~DoesNotFit(argv, env) => Received(argv, env) = Given(argv, env)
    BY <1>1, AllReceived
<1> QED BY <1>2 DEF Arrival

-----------------------------------------------------------------------------
\* Theorems

\* The variables keep their types.
THEOREM TypeCorrect == Spec => []TypeOK
<1>1. IInv => TypeOK
    BY DEF IInv
<1> QED BY <1>1, InitIInv, NextIInv, PTL DEF Spec

\* A program finds in errno the outcome of its last call, unless a sibling or a
\* process with another address of errno came in between.
THEOREM OutcomeInErrno == Spec => []ErrnoTold
<1>1. IInv => ErrnoTold
    BY DEF IInv, ErrnoInv, ErrnoTold
<1> QED BY <1>1, InitIInv, NextIInv, PTL DEF Spec

\* The break of a process stays in the heap and its areas are apart, for every
\* increment and every width of int, as long as its calls do not overlap.
THEOREM BreakInHeap == Spec => []HeapAreasApart
<1>1. IInv => HeapAreasApart
    BY DEF IInv, HeapInv, AreasApart, HeapAreasApart
<1> QED BY <1>1, InitIInv, NextIInv, PTL DEF Spec

\* A program gets the arguments and the environment execve() was given, all of
\* them and in order, unless they do not fit in a page.
THEOREM ArgumentsUnaltered == Spec => []ArgumentsArrive
<1>1. Init => ArgumentsArrive
    BY DEF Init, ArgumentsArrive, NotStarted
<1>2. ArgumentsArrive /\ [Next]_vars => ArgumentsArrive'
    <2> SUFFICES ASSUME ArgumentsArrive, [Next]_vars PROVE started' # "altered"
        BY DEF ArgumentsArrive
    <2>1. CASE UNCHANGED vars
        BY <2>1 DEF ArgumentsArrive, vars
    <2>2. ASSUME NEW t \in Thread, Step(t) PROVE started' = NotStarted \/ started' \in Arrivals
        BY <2>2 DEF Step, Stub, EnterKernel, SetErrno, CallSucceeds, SetTimeOfDay,
               WaitpidFails, SbrkCheck, SbrkAdvance, ExecveNotFound, Execve
    <2> QED BY <2>1, <2>2, ArrivalsUnaltered DEF Next, NotStarted
<1> QED BY <1>1, <1>2, PTL DEF Spec
=============================================================================
