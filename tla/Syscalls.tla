-------------------------------- MODULE Syscalls --------------------------------
(***************************************************************************)
(* System calls as programs see them: the stubs of usr/lib/libc/crt0.S,    *)
(* syscall_handle() and set_errno() of so3/kernel/syscalls.c, and the      *)
(* calls of so3/kernel/process.c whose outcome is an errno, a program      *)
(* break or a list of arguments: settimeofday, getpid, waitpid without a   *)
(* child, sbrk and execve.                                                 *)
(*                                                                         *)
(* A stub clears the errno of its program and passes its address, which    *)
(* the kernel keeps in one global for all, errno_addr.  Calls run with the *)
(* interrupts on except where they disable them, so a thread may be        *)
(* preempted between any two actions.  An address is written in the memory *)
(* of the process that runs.  Addresses of the heap are offsets from       *)
(* heap_base.                                                              *)
(***************************************************************************)
EXTENDS ExecArgs, FiniteSets

CONSTANTS
    Thread, Process,
    pcb,          \* the process of each thread
    Program,      \* executables
    RootProgram,  \* the one every process runs first
    errno_of,     \* the address of errno in each executable
    Increments,   \* arguments of sbrk()
    HEAP_SIZE,
    IntMax,       \* the largest int
    ArgLists, EnvLists   \* arguments of execve()

NULL == 0

ASSUME SyscallsAssumption ==
    /\ pcb \in [Thread -> Process]
    /\ errno_of \in [Program -> Nat \ {NULL}] /\ RootProgram \in Program
    /\ HEAP_SIZE \in Nat /\ IntMax \in Nat /\ 0 < HEAP_SIZE /\ HEAP_SIZE <= IntMax
    /\ Increments \subseteq -IntMax - 1 .. IntMax
    /\ ArgLists \subseteq Seq(Seq(Nat \ {0}))
    /\ \A env \in EnvLists : env.strings \in Seq(Seq(Nat \ {0}))

ENOENT == 2
ECHILD == 10
ENOMEM == 12
ENOSYS == 38

VARIABLES
    program,       \* what each process runs
    errno_addr,    \* the address set_errno() writes to
    memory,        \* what each process has at the addresses that are an errno
    pc,            \* "user", "stub", "kernel", "sbrk", or "failing"
    error,         \* the errno of the call of a thread, 0 while it has none
    increment, ret_pointer,   \* locals of do_sbrk()
    heap_pointer,
    disturbed,     \* ghost: another thread's call came in between (see Disturbs)
    overlapped,    \* ghost: two sbrk() of the process ran at the same time
    granted,       \* ghost: the areas sbrk() gave to each process, until then
    started        \* ghost: what the last step, an execve(), gave its program
                   \* of its arguments, or "nothing"

callVars == <<error, increment, ret_pointer, disturbed>>
errnoVars == <<program, errno_addr, memory>>
heapVars == <<heap_pointer, granted, overlapped>>
vars == <<errnoVars, callVars, heapVars, pc, started>>

Address == {errno_of[g] : g \in Program}
Codes == {ENOENT, ECHILD, ENOMEM, ENOSYS, -ENOSYS}
NotStarted == "nothing"

TypeOK ==
    /\ program \in [Process -> Program]
    /\ errno_addr \in Address \cup {NULL}
    /\ memory \in [Process -> [Address -> Codes \cup {0}]]
    /\ pc \in [Thread -> {"user", "stub", "kernel", "sbrk", "failing"}]
    /\ error \in [Thread -> Codes \cup {0}]
    /\ increment \in [Thread -> Increments \cup {0}]
    /\ ret_pointer \in [Thread -> Int]
    /\ heap_pointer \in [Process -> Int]
    /\ disturbed \in [Thread -> BOOLEAN]
    /\ granted \in [Process -> SUBSET (Int \X Int)]
    /\ overlapped \in [Process -> BOOLEAN]
    /\ started \in {NotStarted, "all", "altered", "arbitrary"}

Init ==
    /\ program = [p \in Process |-> RootProgram]
    /\ errno_addr = NULL
    /\ memory = [p \in Process |-> [a \in Address |-> 0]]
    /\ pc = [t \in Thread |-> "user"]
    /\ error = [t \in Thread |-> 0]
    /\ increment = [t \in Thread |-> 0]
    /\ ret_pointer = [t \in Thread |-> 0]
    /\ heap_pointer = [p \in Process |-> 0]
    /\ disturbed = [t \in Thread |-> FALSE]
    /\ granted = [p \in Process |-> {}]
    /\ overlapped = [p \in Process |-> FALSE]
    /\ started = NotStarted

-----------------------------------------------------------------------------
\* The stubs, and the entry of the kernel

Siblings(t) == {u \in Thread \ {t} : pcb[u] = pcb[t]}
OwnErrno(t) == errno_of[program[pcb[t]]]

\* The threads of T can no longer count on what they find in errno.
Disturbs(T) == disturbed' = [u \in Thread |-> disturbed[u] \/ u \in T]

\* str 0, [errno]: the siblings of the thread share the word.
Stub(t) ==
    /\ pc[t] = "user"
    /\ memory' = [memory EXCEPT ![pcb[t]][OwnErrno(t)] = 0]
    /\ disturbed' = [u \in Thread |-> (disturbed[u] \/ u \in Siblings(t)) /\ u # t]
    /\ error' = [error EXCEPT ![t] = 0]
    /\ pc' = [pc EXCEPT ![t] = "stub"]
    /\ started' = NotStarted
    /\ UNCHANGED <<program, errno_addr, increment, ret_pointer, heapVars>>

InKernel(t) == pc[t] \in {"kernel", "sbrk", "failing"}

\* Mutant: the address is taken once.
KeepsFirstAddress(a) == IF errno_addr = NULL THEN a ELSE errno_addr

set_errno_addr(a) == a

\* swi: syscall_handle() sets errno_addr.  The calls in progress in processes
\* that keep errno elsewhere will write to a wrong address.
EnterKernel(t) ==
    /\ pc[t] = "stub"
    /\ errno_addr' = set_errno_addr(OwnErrno(t))
    /\ Disturbs({u \in Thread : InKernel(u) /\ OwnErrno(u) # OwnErrno(t)})
    /\ pc' = [pc EXCEPT ![t] = "kernel"]
    /\ started' = NotStarted
    /\ UNCHANGED <<program, memory, error, increment, ret_pointer, heapVars>>

\* The memory after set_errno(code), called by t.
set_errno(t, code) ==
    IF errno_addr # NULL THEN [memory EXCEPT ![pcb[t]][errno_addr] = code] ELSE memory

\* The call fails: errno is still to be set.
Fails(t, code) ==
    /\ pc' = [pc EXCEPT ![t] = "failing"]
    /\ error' = [error EXCEPT ![t] = code]

\* set_errno() and the return of -1, where the interrupts are on.
SetErrno(t) ==
    /\ pc[t] = "failing"
    /\ memory' = set_errno(t, error[t])
    /\ Disturbs(Siblings(t))
    /\ pc' = [pc EXCEPT ![t] = "user"]
    /\ started' = NotStarted
    /\ UNCHANGED <<program, errno_addr, error, increment, ret_pointer, heapVars>>

-----------------------------------------------------------------------------
\* The calls

\* getpid and the calls of other files, which come back with no error.
CallSucceeds(t) ==
    /\ pc[t] = "kernel"
    /\ pc' = [pc EXCEPT ![t] = "user"]
    /\ started' = NotStarted
    /\ UNCHANGED <<errnoVars, callVars, heapVars>>

\* settimeofday is not supported; its error number is negated.
SetTimeOfDay(t) ==
    /\ pc[t] = "kernel"
    /\ Fails(t, -ENOSYS)
    /\ started' = NotStarted
    /\ UNCHANGED <<errnoVars, increment, ret_pointer, disturbed, heapVars>>

\* waitpid without a process to wait for sets errno with the interrupts off,
\* and comes back: where it does not restore them, the return to user mode does.
WaitpidFails(t) ==
    /\ pc[t] = "kernel"
    /\ memory' = set_errno(t, ECHILD)
    /\ error' = [error EXCEPT ![t] = ECHILD]
    /\ Disturbs(Siblings(t))
    /\ pc' = [pc EXCEPT ![t] = "user"]
    /\ started' = NotStarted
    /\ UNCHANGED <<program, errno_addr, increment, ret_pointer, heapVars>>

\* An addition of ints, which wraps.
Wrapped(n) == IF n > IntMax THEN n - 2 * (IntMax + 1)
              ELSE IF n < -IntMax - 1 THEN n + 2 * (IntMax + 1) ELSE n

\* Mutant: the break may come to the limit, and below the heap.
AcceptsAnySize(req_sz) == req_sz <= HEAP_SIZE

SizeAccepted(req_sz) == req_sz < HEAP_SIZE /\ req_sz >= 0

\* do_sbrk(), up to the test of the new size, ...
SbrkCheck(t) ==
    /\ pc[t] = "kernel"
    /\ \E inc \in Increments :
         IF SizeAccepted(Wrapped(heap_pointer[pcb[t]] + inc))
         THEN /\ pc' = [pc EXCEPT ![t] = "sbrk"]
              /\ increment' = [increment EXCEPT ![t] = inc]
              /\ ret_pointer' = [ret_pointer EXCEPT ![t] = heap_pointer[pcb[t]]]
              /\ UNCHANGED error
         ELSE Fails(t, ENOMEM) /\ UNCHANGED <<increment, ret_pointer>>
    /\ started' = NotStarted
    /\ UNCHANGED <<errnoVars, disturbed, heapVars>>

\* The areas that stay below a break.
Below(areas, brk) == {<<a[1], IF a[2] < brk THEN a[2] ELSE brk>> :
                         a \in {b \in areas : b[1] < brk}}

\* What sbrk() tells the program: the area between the old and the new break is
\* its own, or what is above the new break no longer is.
Granted(areas, old, inc) ==
    IF inc > 0 THEN areas \cup {<<old, old + inc>>} ELSE Below(areas, old + inc)

\* ... and its second half, which reads the break again.
SbrkAdvance(t) ==
    LET p == pcb[t] IN
    /\ pc[t] = "sbrk"
    /\ heap_pointer' = [heap_pointer EXCEPT ![p] = @ + increment[t]]
    /\ overlapped' = [overlapped EXCEPT ![p] = @ \/ \E u \in Siblings(t) : pc[u] = "sbrk"]
    /\ granted' = [granted EXCEPT ![p] =
                      IF overlapped'[p] THEN {} ELSE Granted(@, ret_pointer[t], increment[t])]
    /\ increment' = [increment EXCEPT ![t] = 0]
    /\ ret_pointer' = [ret_pointer EXCEPT ![t] = 0]
    /\ pc' = [pc EXCEPT ![t] = "user"]
    /\ started' = NotStarted
    /\ UNCHANGED <<errnoVars, error, disturbed>>

\* The file is not found: the interrupts are on again when errno is set.
ExecveNotFound(t) ==
    /\ pc[t] = "kernel"
    /\ Fails(t, ENOENT)
    /\ started' = NotStarted
    /\ UNCHANGED <<errnoVars, increment, ret_pointer, disturbed, heapVars>>

\* What the program gets of its arguments.  If they do not fit in a page,
\* do_execve() goes on all the same (setup_proc_image_replace() tests a pointer
\* with < 0) and the program finds what is in its fresh page.
Arrival(argv, env) ==
    IF DoesNotFit(argv, env) THEN "arbitrary"
    ELSE IF Received(argv, env) = Given(argv, env) THEN "all" ELSE "altered"

Arrivals == {Arrival(argv, env) : argv \in ArgLists, env \in EnvLists}

\* The image is replaced, with the interrupts off, and the new one starts with a
\* cleared errno, an empty heap, and the arguments.  Only processes of one
\* thread are considered.
Execve(t) ==
    LET p == pcb[t] IN
    /\ pc[t] = "kernel" /\ Siblings(t) = {}
    /\ \E g \in Program : program' = [program EXCEPT ![p] = g]
    /\ started' \in Arrivals
    /\ memory' = [memory EXCEPT ![p] = [a \in Address |-> 0]]
    /\ heap_pointer' = [heap_pointer EXCEPT ![p] = 0]
    /\ granted' = [granted EXCEPT ![p] = {}]
    /\ overlapped' = [overlapped EXCEPT ![p] = FALSE]
    /\ disturbed' = [disturbed EXCEPT ![t] = FALSE]
    /\ pc' = [pc EXCEPT ![t] = "user"]
    /\ UNCHANGED <<errno_addr, error, increment, ret_pointer>>

Step(t) ==
    \/ Stub(t) \/ EnterKernel(t) \/ SetErrno(t)
    \/ CallSucceeds(t) \/ SetTimeOfDay(t) \/ WaitpidFails(t)
    \/ SbrkCheck(t) \/ SbrkAdvance(t)
    \/ ExecveNotFound(t) \/ Execve(t)

Next == \E t \in Thread : Step(t)

Spec == Init /\ [][Next]_vars

-----------------------------------------------------------------------------
\* Properties

\* A program that is back from a call finds its outcome in errno, 0 or the
\* number of its error, as long as no sibling made a call meanwhile and no
\* process with its errno at another address entered the kernel during the call:
\* errno_addr is right at every set_errno() that this does not exclude.
ErrnoTold ==
    \A t \in Thread : pc[t] = "user" /\ ~disturbed[t] =>
        memory[pcb[t]][OwnErrno(t)] = error[t]

\* The comment above set_errno_addr(): errno keeps the error number of a call
\* that fails.
ErrnoKept ==
    \A t \in Thread : pc[t] = "user" /\ error[t] # 0 /\ Siblings(t) = {} =>
        memory[pcb[t]][OwnErrno(t)] = error[t]

\* As long as the sbrk() of a process come one after the other, the break stays
\* in the heap, whatever the increments, and every area given to the program is
\* below the break and apart from the others.
HeapAreasApart ==
    \A p \in Process : ~overlapped[p] =>
        /\ heap_pointer[p] \in 0 .. HEAP_SIZE - 1
        /\ \A a \in granted[p] : a[1] >= 0 /\ a[2] <= heap_pointer[p]
        /\ \A a, b \in granted[p] : a # b => a[2] <= b[1] \/ b[2] <= a[1]

\* A program starts with the arguments and the environment execve() was given,
\* in order and complete, or they did not fit in a page: the two arrays, the
\* strings after them and the move of the addresses agree, also without
\* arguments, with empty strings, and with a page that is exactly full.
ArgumentsArrive == started # "altered"
=============================================================================
