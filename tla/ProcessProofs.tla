----------------------------- MODULE ProcessProofs -----------------------------
(***************************************************************************)
(* Safety of the process life cycle for any number of processes and any    *)
(* set of frames.  Three parts: every memory operation of PageFrames keeps *)
(* the frames and the page lists in agreement; the invariant that holds    *)
(* whatever processes the programs wait for; and what holds of programs    *)
(* that wait for their own children, up to the refinement of ForkWait.     *)
(***************************************************************************)
EXTENDS Process, FiniteSetTheorems, TLAPS

-----------------------------------------------------------------------------
\* The memory operations

\* The inductive form of FrameOwnership: the single owner of a frame is named
\* instead of counted.
OwnerInv ==
    /\ \A f \in Frame : refcount[f] = IF \E p \in Pid : f \in page_list[p] THEN 1 ELSE 0
    /\ \A f \in Frame : f \in freeFrames <=> refcount[f] = 0
    /\ \A p, q \in Pid : p # q => page_list[p] \cap page_list[q] = {}

FramesInv == FramesTypeOK /\ OwnerInv

\* Counting the owners of a frame: none or one, as refcount says.
LEMMA OwnersCounted ==
    ASSUME FramesInv
    PROVE  FrameOwnership
<1>1. SUFFICES ASSUME NEW f \in Frame
              PROVE  refcount[f] = Cardinality({p \in Pid : f \in page_list[p]})
  BY DEF FramesInv, OwnerInv, FrameOwnership
<1>2. CASE \E p \in Pid : f \in page_list[p]
  <2>1. PICK p \in Pid : f \in page_list[p]
    BY <1>2
  <2>2. {q \in Pid : f \in page_list[q]} = {p}
    BY <2>1 DEF FramesInv, OwnerInv
  <2>3. Cardinality({p}) = 1
    BY FS_Singleton
  <2> QED
    BY <1>2, <2>2, <2>3 DEF FramesInv, OwnerInv
<1>3. CASE ~ \E p \in Pid : f \in page_list[p]
  <2>1. {q \in Pid : f \in page_list[q]} = {}
    BY <1>3
  <2>2. Cardinality({}) = 0
    BY FS_EmptySet
  <2> QED
    BY <1>3, <2>1, <2>2 DEF FramesInv, OwnerInv
<1> QED
  BY <1>2, <1>3

\* get_free_page() takes frames out of those available.
LEMMA FreePagesAvailable ==
    ASSUME NEW n, NEW avail, NEW S \in get_free_pages(n, avail)
    PROVE  S \subseteq avail
BY DEF get_free_pages, kSubset

LEMMA FramesInitInv == FramesInit => FramesInv
BY DEF FramesInit, FramesInv, FramesTypeOK, OwnerInv

LEMMA CreateUserSpaceInv ==
    ASSUME FramesInv, NEW p \in Pid, NEW S \in SUBSET freeFrames,
           NEW image \in SUBSET KernelFrame, page_list[p] = {},
           CreateUserSpace(p, S, image)
    PROVE  FramesInv'
<1> USE DEF FramesInv
<1>1. FramesTypeOK'
  <2>1. refcount' \in [Frame -> Nat]
    BY DEF FramesTypeOK, CreateUserSpace, Recounted
  <2> QED
    BY <2>1 DEF FramesTypeOK, CreateUserSpace
<1>2. \A q \in Pid : page_list'[q] = IF q = p THEN S ELSE page_list[q]
  BY DEF CreateUserSpace, FramesTypeOK
<1>3. \A f \in S : refcount[f] = 0 /\ \A q \in Pid : f \notin page_list[q]
  BY DEF OwnerInv, FramesTypeOK
<1>4. \A f \in Frame : refcount'[f] = IF f \in S THEN 1 ELSE refcount[f]
  BY <1>3 DEF CreateUserSpace, Recounted, FramesTypeOK
<1>5. \A f \in Frame : (\E q \in Pid : f \in page_list'[q])
                          <=> (f \in S \/ \E q \in Pid : f \in page_list[q])
  BY <1>2
<1>6. OwnerInv'
  <2>1. \A f \in Frame : refcount'[f] = IF \E q \in Pid : f \in page_list'[q] THEN 1 ELSE 0
    BY <1>3, <1>4, <1>5 DEF OwnerInv
  <2>2. \A f \in Frame : f \in freeFrames' <=> refcount'[f] = 0
    BY <1>4 DEF OwnerInv, CreateUserSpace
  <2>3. \A q, r \in Pid : q # r => page_list'[q] \cap page_list'[r] = {}
    BY <1>2, <1>3 DEF OwnerInv
  <2> QED
    BY <2>1, <2>2, <2>3 DEF OwnerInv
<1> QED
  BY <1>1, <1>6

\* The frames given back are exactly those of the page list: nobody else counts them.
LEMMA ReleasedAll ==
    ASSUME FramesInv, NEW p \in Pid
    PROVE  /\ Released(p) = page_list[p]
           /\ \A f \in page_list[p] : refcount[f] = 1
BY DEF FramesInv, FramesTypeOK, OwnerInv, Released

\* Giving the pages of p back and taking those of S, as exit() (S empty) and
\* execve() do.
LEMMA SwapPagesInv ==
    ASSUME FramesInv, NEW p \in Pid, NEW S \in SUBSET (freeFrames \cup Released(p)),
           page_list' = [page_list EXCEPT ![p] = S],
           refcount' = Recounted(page_list[p], S),
           freeFrames' = (freeFrames \cup Released(p)) \ S,
           pgtable' \in [Pid -> SUBSET (Frame \cup KernelFrame)],
           tables' \in SUBSET Pid
    PROVE  FramesInv'
<1>1. FramesTypeOK /\ OwnerInv
  BY DEF FramesInv
<1>2. /\ Released(p) = page_list[p]
      /\ \A f \in page_list[p] : refcount[f] = 1
  BY ReleasedAll
<1>3. \A f \in Frame : refcount[f] \in {0, 1} /\ (f \in freeFrames <=> refcount[f] = 0)
  BY <1>1 DEF OwnerInv
<1>4. \A f \in Frame : refcount'[f] = IF f \in S THEN 1
                                      ELSE IF f \in page_list[p] THEN 0 ELSE refcount[f]
  <2> SUFFICES ASSUME NEW f \in Frame
               PROVE  refcount'[f] = IF f \in S THEN 1
                                     ELSE IF f \in page_list[p] THEN 0 ELSE refcount[f]
    OBVIOUS
  <2>1. refcount'[f] = refcount[f] - (IF f \in page_list[p] THEN 1 ELSE 0)
                                   + (IF f \in S THEN 1 ELSE 0)
    BY DEF Recounted
  <2>2. refcount[f] \in {0, 1} /\ (f \in page_list[p] => refcount[f] = 1)
    BY <1>2, <1>3
  <2>3. f \in S => f \in page_list[p] \/ refcount[f] = 0
    BY <1>2, <1>3
  <2> QED
    BY <2>1, <2>2, <2>3
<1>5. refcount' \in [Frame -> Nat]
  BY <1>3, <1>4 DEF Recounted
<1>6. S \subseteq Frame
  BY <1>1, <1>2 DEF FramesTypeOK
<1>7. FramesTypeOK'
  BY <1>1, <1>2, <1>5, <1>6 DEF FramesTypeOK
<1>8. \A q \in Pid : page_list'[q] = IF q = p THEN S ELSE page_list[q]
  BY <1>1 DEF FramesTypeOK
<1>9. \A f \in S : \A q \in Pid : q # p => f \notin page_list[q]
  BY <1>1, <1>2, <1>6 DEF OwnerInv
<1>10. OwnerInv'
  <2>1. \A q, r \in Pid : q # r => page_list'[q] \cap page_list'[r] = {}
    BY <1>1, <1>8, <1>9 DEF OwnerInv
  <2>2. \A f \in Frame : f \in freeFrames' <=> refcount'[f] = 0
    BY <1>2, <1>3, <1>4
  <2>3. ASSUME NEW f \in Frame
        PROVE  refcount'[f] = IF \E q \in Pid : f \in page_list'[q] THEN 1 ELSE 0
    <3>1. CASE f \in S
      BY <3>1, <1>4, <1>8
    <3>2. CASE f \notin S /\ f \in page_list[p]
      <4>1. \A q \in Pid : f \notin page_list'[q]
        BY <3>2, <1>1, <1>8 DEF OwnerInv
      <4> QED
        BY <3>2, <4>1, <1>4
    <3>3. CASE f \notin S /\ f \notin page_list[p]
      <4>1. (\E q \in Pid : f \in page_list'[q]) <=> (\E q \in Pid : f \in page_list[q])
        BY <3>3, <1>8
      <4> QED
        BY <3>3, <4>1, <1>1, <1>4 DEF OwnerInv
    <3> QED
      BY <3>1, <3>2, <3>3
  <2> QED
    BY <2>1, <2>2, <2>3 DEF OwnerInv
<1> QED
  BY <1>7, <1>10 DEF FramesInv

LEMMA ReplaceUserSpaceInv ==
    ASSUME FramesInv, NEW p \in Pid, NEW n, ReplaceUserSpace(p, n)
    PROVE  FramesInv'
<1>1. PICK S \in get_free_pages(n, freeFrames \cup Released(p)) :
        /\ pgtable' = [pgtable EXCEPT ![p] = S]
        /\ page_list' = [page_list EXCEPT ![p] = S]
        /\ refcount' = Recounted(page_list[p], S)
        /\ freeFrames' = (freeFrames \cup Released(p)) \ S
        /\ UNCHANGED tables
  BY DEF ReplaceUserSpace
<1>2. S \in SUBSET (freeFrames \cup Released(p))
  BY FreePagesAvailable
<1>3. S \subseteq Frame
  BY <1>2 DEF FramesInv, FramesTypeOK, Released
<1>4. pgtable' \in [Pid -> SUBSET (Frame \cup KernelFrame)] /\ tables' \in SUBSET Pid
  BY <1>1, <1>3 DEF FramesInv, FramesTypeOK
<1> QED
  BY <1>1, <1>2, <1>4, SwapPagesInv

LEMMA ReleaseProcPagesInv ==
    ASSUME FramesInv, NEW p \in Pid, release_proc_pages(p)
    PROVE  FramesInv'
<1>1. pgtable' \in [Pid -> SUBSET (Frame \cup KernelFrame)] /\ tables' \in SUBSET Pid
  BY DEF FramesInv, FramesTypeOK, release_proc_pages
<1>2. freeFrames' = (freeFrames \cup Released(p)) \ {}
  BY DEF release_proc_pages
<1> QED
  BY <1>1, <1>2, SwapPagesInv DEF release_proc_pages

LEMMA FreeRootPgtableInv ==
    ASSUME FramesInv, NEW p \in Pid, FreeRootPgtable(p)
    PROVE  FramesInv'
BY DEF FramesInv, FramesTypeOK, OwnerInv, FreeRootPgtable

-----------------------------------------------------------------------------
\* The invariant, whatever the programs wait for

\* Pids are given in order: those from pid_current on are untouched.
Numbered ==
    /\ kernel = "boot" => pid_current = 1
    /\ \A p \in Pid : pc[p] = "none" <=> p >= pid_current

\* Where a process is tells its state and the state of its main thread.
StateAgrees ==
    \A p \in Pid :
        /\ pc[p] = "dead" <=> state[p] = "ZOMBIE"
        /\ main_thread[p] \in {"zombie", "cleaned"} => pc[p] = "dead"
        /\ pc[p] \in Live => p \in proc_list

\* A queued process waits for the owner of the queue; a woken one has been so
\* by the exit of the process it holds.
JoinersAgree ==
    /\ \A c \in Pid : \A q \in joinQueue[c] : held[q] = c /\ pc[q] \in {"joining", "woken"}
    /\ \A p \in Pid : pc[p] = "woken" => held[p] \in Pid /\ pc[held[p]] = "dead"

ControlInv == Numbered /\ StateAgrees /\ JoinersAgree /\ ParentExists

MemoryInv == OwnerInv /\ LiveMappingsOwned /\ NothingLeaked

\* The inductive invariant.
IInv == TypeOK /\ ControlInv /\ MemoryInv

LEMMA IInvFrames == IInv => FramesInv
BY DEF IInv, MemoryInv, FramesInv, TypeOK

LEMMA PidNat == Pid \subseteq Nat /\ NULL \notin Pid /\ 1 \in Pid
BY FramesAssumption DEF Pid, NULL

LEMMA InitInv == Init => IInv
<1> SUFFICES ASSUME Init PROVE IInv
  OBVIOUS
<1>1. FramesInv
  BY FramesInitInv DEF Init
<1>2. TypeOK
  BY <1>1, PidNat, FramesAssumption DEF Init, FramesInv, TypeOK, Location, KernelState, NoReturn, NULL, Pid
<1>3. ControlInv
  BY PidNat DEF Init, ControlInv, Numbered, StateAgrees, JoinersAgree, ParentExists, Live, Pid
<1>4. MemoryInv
  BY <1>1 DEF Init, MemoryInv, FramesInit, FramesInv, LiveMappingsOwned, NothingLeaked, Live
<1> QED
  BY <1>2, <1>3, <1>4 DEF IInv

-----------------------------------------------------------------------------
\* Steps that stop the system, or change neither the PCBs nor the memory.

LEMMA StopInv ==
    ASSUME IInv, NEW why \in KernelState \ {"boot", "running"}, Stop(why)
    PROVE  IInv'
<1>1. TypeOK'
  BY DEF IInv, TypeOK, Stop, NoWaitpidReturn, NoReturn, FramesTypeOK, frameVars, KernelState, NULL, Pid
<1>2. ControlInv'
  BY DEF IInv, ControlInv, Numbered, StateAgrees, JoinersAgree, ParentExists, Stop
<1>3. MemoryInv'
  BY DEF IInv, MemoryInv, OwnerInv, LiveMappingsOwned, NothingLeaked, Stop, frameVars
<1> QED
  BY <1>1, <1>2, <1>3 DEF IInv

LEMMA ReturnInv ==
    ASSUME IInv, waitpid_ret' \in [proc : Pid \cup {NULL}, pid : Int, val : Int],
           UNCHANGED <<frameVars, pid_current, proc_list, state, parent, main_thread,
                       joinQueue, pc, held, unwaited, kernel>>
    PROVE  IInv'
<1>1. TypeOK'
  BY DEF IInv, TypeOK, FramesTypeOK, frameVars
<1>2. ControlInv'
  BY DEF IInv, ControlInv, Numbered, StateAgrees, JoinersAgree, ParentExists
<1>3. MemoryInv'
  BY DEF IInv, MemoryInv, OwnerInv, LiveMappingsOwned, NothingLeaked, frameVars
<1> QED
  BY <1>1, <1>2, <1>3 DEF IInv

LEMMA ReturnTyped ==
    ASSUME NEW p \in Pid, NEW pid \in Int, NEW val \in Int, Returns(p, pid, val)
    PROVE  waitpid_ret' \in [proc : Pid \cup {NULL}, pid : Int, val : Int]
BY DEF Returns

LEMMA NoReturnTyped ==
    NoWaitpidReturn => waitpid_ret' \in [proc : Pid \cup {NULL}, pid : Int, val : Int]
BY DEF NoWaitpidReturn, NoReturn

LEMMA WaitTargetsInt == ASSUME TypeOK, NEW p \in Pid PROVE WaitTargets(p) \subseteq Int
<1>1. Pid \subseteq Int
  BY PidNat
<1>2. unwaited[p] \subseteq Pid
  BY DEF TypeOK
<1>3. -1 \in Int
  OBVIOUS
<1> QED
  BY <1>1, <1>2, <1>3 DEF WaitTargets

LEMMA WaitpidNoChildInv == ASSUME IInv, NEW p \in Pid, WaitpidNoChild(p) PROVE IInv'
<1>1. PICK pid \in WaitTargets(p) : Returns(p, pid, -1)
  BY DEF WaitpidNoChild
<1>2. waitpid_ret' \in [proc : Pid \cup {NULL}, pid : Int, val : Int]
  BY <1>1, WaitTargetsInt, ReturnTyped DEF IInv
<1> QED
  BY <1>2, ReturnInv DEF WaitpidNoChild

LEMMA WaitpidNoHangInv == ASSUME IInv, NEW p \in Pid, WaitpidNoHang(p) PROVE IInv'
<1>1. PICK pid \in WaitTargets(p) : Returns(p, pid, 0)
  BY DEF WaitpidNoHang
<1>2. waitpid_ret' \in [proc : Pid \cup {NULL}, pid : Int, val : Int]
  BY <1>1, WaitTargetsInt, ReturnTyped DEF IInv
<1> QED
  BY <1>2, ReturnInv DEF WaitpidNoHang

-----------------------------------------------------------------------------
\* Boot and fork: a new PCB.

LEMMA CreateRootProcessInv == ASSUME IInv, CreateRootProcess PROVE IInv'
<1>1. CASE get_free_pages(RootStackPages, freeFrames) = {} /\ Stop("panic")
  BY <1>1, StopInv DEF KernelState
<1>2. CASE \E S \in get_free_pages(RootStackPages, freeFrames) :
             /\ CreateUserSpace(pid_current, S, KernelFrame)
             /\ new_process(pid_current, NULL)
             /\ pc' = [pc EXCEPT ![pid_current] = "user"]
             /\ kernel' = "running"
             /\ UNCHANGED <<joinQueue, held, unwaited>>
             /\ NoWaitpidReturn
  <2>0. pid_current = 1 /\ 1 \in Pid
    BY PidNat DEF CreateRootProcess, IInv, ControlInv, Numbered
  <2>1. PICK S \in get_free_pages(RootStackPages, freeFrames) :
             /\ CreateUserSpace(1, S, KernelFrame)
             /\ new_process(1, NULL)
             /\ pc' = [pc EXCEPT ![1] = "user"]
             /\ kernel' = "running"
             /\ UNCHANGED <<joinQueue, held, unwaited>>
             /\ NoWaitpidReturn
    BY <1>2, <2>0
  <2>2. S \in SUBSET freeFrames
    BY FreePagesAvailable
  <2>3. pc[1] = "none" /\ page_list[1] = {}
    BY <2>0 DEF IInv, ControlInv, Numbered, MemoryInv, NothingLeaked
  <2>4. FramesInv'
    BY <2>0, <2>1, <2>2, <2>3, IInvFrames, CreateUserSpaceInv
  <2>5. TypeOK'
    BY <2>0, <2>1, <2>4, NoReturnTyped, FramesAssumption
       DEF IInv, TypeOK, FramesInv, new_process, KernelState, Location, Pid
  <2>6. ControlInv'
    BY <2>0, <2>1, <2>3 DEF IInv, TypeOK, ControlInv, Numbered, StateAgrees, JoinersAgree,
                     ParentExists, new_process, Live, Pid
  <2>7. MemoryInv'
    <3>1. LiveMappingsOwned'
      BY <2>0, <2>1, <2>2, FramesAssumption
         DEF IInv, TypeOK, FramesTypeOK, MemoryInv, LiveMappingsOwned,
                 CreateUserSpace, new_process
    <3>2. NothingLeaked'
      BY <2>0, <2>1 DEF IInv, TypeOK, FramesTypeOK, MemoryInv, NothingLeaked,
                 CreateUserSpace, new_process
    <3> QED
      BY <2>4, <3>1, <3>2 DEF MemoryInv, FramesInv
  <2> QED
    BY <2>5, <2>6, <2>7 DEF IInv
<1> QED
  BY <1>1, <1>2 DEF CreateRootProcess

LEMMA DoForkInv == ASSUME IInv, NEW p \in Pid, DoFork(p) PROVE IInv'
<1>1. CASE Stop("panic")
  BY <1>1, StopInv DEF KernelState
<1>2. CASE \E S \in SUBSET freeFrames :
             /\ DuplicateUserSpace(p, pid_current, S)
             /\ new_process(pid_current, p)
             /\ pc' = [pc EXCEPT ![p] = "forking", ![pid_current] = "user"]
             /\ held' = [held EXCEPT ![p] = pid_current]
             /\ UNCHANGED <<joinQueue, unwaited, kernel>>
             /\ NoWaitpidReturn
  <2> DEFINE n == pid_current
  <2>0. n \in Pid /\ n \in Nat /\ p \in Nat /\ pc[p] = "user" /\ kernel = "running"
    BY PidNat DEF DoFork, Calls
  <2>1. PICK S \in SUBSET freeFrames :
             /\ CreateUserSpace(n, S, {})
             /\ new_process(n, p)
             /\ pc' = [pc EXCEPT ![p] = "forking", ![n] = "user"]
             /\ held' = [held EXCEPT ![p] = n]
             /\ UNCHANGED <<joinQueue, unwaited, kernel>>
             /\ NoWaitpidReturn
    BY <1>2 DEF DuplicateUserSpace
  <2>3. pc[n] = "none" /\ n # p /\ page_list[n] = {}
    BY <2>0 DEF IInv, ControlInv, Numbered, MemoryInv, NothingLeaked
  <2>4. FramesInv'
    BY <2>0, <2>1, <2>3, IInvFrames, CreateUserSpaceInv
  <2>5. TypeOK'
    BY <2>0, <2>1, <2>4, NoReturnTyped, FramesAssumption
       DEF IInv, TypeOK, FramesInv, new_process, KernelState, Location, Pid
  <2>6. ControlInv'
    <3> USE DEF IInv, ControlInv, TypeOK
    <3>1. Numbered'
      BY <2>0, <2>1, <2>3 DEF Numbered, new_process, Pid
    <3>2. StateAgrees'
      BY <2>0, <2>1, <2>3 DEF StateAgrees, new_process, Live
    <3>3. JoinersAgree'
      <4>1. \A q \in Pid \ {p, n} : pc'[q] = pc[q] /\ held'[q] = held[q]
        BY <2>0, <2>1
      <4>2. pc'[p] = "forking" /\ pc'[n] = "user" /\ pc[p] = "user" /\ pc[n] = "none"
        BY <2>0, <2>1, <2>3
      <4>3. ASSUME NEW c \in Pid, NEW q \in joinQueue[c]
            PROVE  held'[q] = c /\ pc'[q] \in {"joining", "woken"}
        <5>1. q \in Pid /\ held[q] = c /\ pc[q] \in {"joining", "woken"}
          BY DEF JoinersAgree
        <5>2. q # p /\ q # n
          BY <4>2, <5>1
        <5> QED
          BY <4>1, <5>1, <5>2
      <4>4. ASSUME NEW q \in Pid, pc'[q] = "woken"
            PROVE  held'[q] \in Pid /\ pc'[held'[q]] = "dead"
        <5>1. q # p /\ q # n
          BY <4>2, <4>4
        <5>2. pc[q] = "woken" /\ held'[q] = held[q]
          BY <4>1, <4>4, <5>1
        <5>3. held[q] \in Pid /\ pc[held[q]] = "dead"
          BY <5>2 DEF JoinersAgree
        <5>4. held[q] # p /\ held[q] # n
          BY <4>2, <5>3
        <5> QED
          BY <4>1, <5>2, <5>3, <5>4
      <4> QED
        BY <2>1, <4>3, <4>4 DEF JoinersAgree
    <3>4. ParentExists'
      BY <2>0, <2>1, <2>3 DEF ParentExists, StateAgrees, new_process, Live
    <3> QED
      BY <3>1, <3>2, <3>3, <3>4
  <2>7. MemoryInv'
    <3>1. LiveMappingsOwned'
      BY <2>0, <2>1, <2>3, FramesAssumption
         DEF IInv, TypeOK, FramesTypeOK, MemoryInv, LiveMappingsOwned,
             CreateUserSpace, new_process, Live
    <3>2. NothingLeaked'
      BY <2>0, <2>1, <2>3 DEF IInv, TypeOK, FramesTypeOK, MemoryInv, NothingLeaked,
                 CreateUserSpace, new_process
    <3> QED
      BY <2>4, <3>1, <3>2 DEF MemoryInv, FramesInv
  <2> QED
    BY <2>5, <2>6, <2>7 DEF IInv
<1> QED
  BY <1>1, <1>2 DEF DoFork

LEMMA ForkReturnInv == ASSUME IInv, NEW p \in Pid, ForkReturn(p) PROVE IInv'
<1>1. CASE Stop("invalid")
  BY <1>1, StopInv DEF KernelState
<1>2. CASE held[p] \in proc_list
  <2>1. /\ pc[p] = "forking"
        /\ pc' = [pc EXCEPT ![p] = "user"]
        /\ held' = [held EXCEPT ![p] = NULL]
        /\ unwaited' = [unwaited EXCEPT ![p] = @ \cup {held[p]}]
        /\ UNCHANGED <<frameVars, pid_current, proc_list, state, parent, main_thread,
                       joinQueue, kernel>>
        /\ NoWaitpidReturn
    BY <1>2 DEF ForkReturn
  <2>2. TypeOK'
    BY <1>2, <2>1, NoReturnTyped
       DEF IInv, TypeOK, FramesTypeOK, frameVars, Location, KernelState
  <2>3. ControlInv'
    <3> USE <2>1 DEF IInv, ControlInv, TypeOK
    <3>1. Numbered' /\ StateAgrees' /\ ParentExists'
      BY DEF Numbered, StateAgrees, ParentExists, Live
    <3>2. JoinersAgree'
      BY PidNat DEF JoinersAgree
    <3> QED
      BY <3>1, <3>2
  <2>4. MemoryInv'
    BY <2>1 DEF IInv, TypeOK, MemoryInv, OwnerInv, LiveMappingsOwned, NothingLeaked,
                frameVars, Live
  <2> QED
    BY <2>2, <2>3, <2>4 DEF IInv
<1> QED
  BY <1>1, <1>2 DEF ForkReturn

-----------------------------------------------------------------------------
\* execve and exit

LEMMA DoExecveInv == ASSUME IInv, NEW p \in Pid, DoExecve(p) PROVE IInv'
<1>1. CASE Stop("panic") \/ Stop("assert")
  BY <1>1, StopInv DEF KernelState
<1>2. ASSUME NEW n \in ImageSizes,
             ReplaceUserSpace(p, n),
             joinQueue' = [joinQueue EXCEPT ![p] = MigratedQueue(p)],
             unwaited' = [unwaited EXCEPT ![p] = {}],
             UNCHANGED <<pid_current, proc_list, state, parent, main_thread, pc, held, kernel>>,
             NoWaitpidReturn
      PROVE  IInv'
  <2>1. FramesInv'
    BY <1>2, IInvFrames, ReplaceUserSpaceInv
  <2>2. joinQueue' = joinQueue
    BY <1>2 DEF IInv, TypeOK, MigratedQueue
  <2>3. TypeOK'
    BY <1>2, <2>1, <2>2, NoReturnTyped DEF IInv, TypeOK, FramesInv
  <2>4. ControlInv'
    BY <1>2, <2>2 DEF IInv, ControlInv, Numbered, StateAgrees, JoinersAgree, ParentExists
  <2>5. MemoryInv'
    <3>1. PICK S \in get_free_pages(n, freeFrames \cup Released(p)) :
            /\ pgtable' = [pgtable EXCEPT ![p] = S]
            /\ page_list' = [page_list EXCEPT ![p] = S]
            /\ UNCHANGED tables
      BY <1>2 DEF ReplaceUserSpace
    <3>2. S \subseteq Frame
      BY FreePagesAvailable DEF IInv, TypeOK, FramesTypeOK, Released
    <3>3. pc[p] = "user"
      BY DEF DoExecve, Calls
    <3>4. LiveMappingsOwned'
      BY <1>2, <3>1, <3>2, FramesAssumption
         DEF IInv, TypeOK, FramesTypeOK, MemoryInv, LiveMappingsOwned
    <3>5. NothingLeaked'
      BY <1>2, <3>1, <3>3 DEF IInv, TypeOK, FramesTypeOK, MemoryInv, NothingLeaked
    <3> QED
      BY <2>1, <3>4, <3>5 DEF MemoryInv, FramesInv
  <2> QED
    BY <2>3, <2>4, <2>5 DEF IInv
<1> QED
  BY <1>1, <1>2 DEF DoExecve

LEMMA DoExitInv == ASSUME IInv, NEW p \in Pid, DoExit(p) PROVE IInv'
<1>1. CASE Stop("panic")
  BY <1>1, StopInv DEF KernelState
<1>2. CASE parent[p] # NULL
  <2>1. /\ pc[p] = "user"
        /\ pc' = [pc EXCEPT ![p] = "closing"]
        /\ UNCHANGED <<frameVars, pid_current, proc_list, state, parent, main_thread,
                       joinQueue, held, unwaited, kernel>>
        /\ NoWaitpidReturn
    BY <1>2 DEF DoExit, Calls
  <2>2. TypeOK'
    BY <2>1, NoReturnTyped DEF IInv, TypeOK, FramesTypeOK, frameVars, Location
  <2>3. ControlInv'
    BY <2>1 DEF IInv, TypeOK, ControlInv, Numbered, StateAgrees, JoinersAgree, ParentExists, Live
  <2>4. MemoryInv'
    BY <2>1 DEF IInv, TypeOK, MemoryInv, OwnerInv, LiveMappingsOwned, NothingLeaked,
                frameVars, Live
  <2> QED
    BY <2>2, <2>3, <2>4 DEF IInv
<1> QED
  BY <1>1, <1>2 DEF DoExit

LEMMA ExitFinishInv == ASSUME IInv, NEW p \in Pid, ExitFinish(p) PROVE IInv'
<1>1. CASE Stop("invalid")
  BY <1>1, StopInv DEF KernelState
<1>2. CASE parent[p] \in proc_list
  <2>1. /\ pc[p] = "closing"
        /\ state' = [state EXCEPT ![p] = "ZOMBIE"]
        /\ release_proc_pages(p)
        /\ main_thread' = [main_thread EXCEPT ![p] = "zombie"]
        /\ pc' = [q \in Pid |-> IF q = p THEN "dead"
                                ELSE IF q \in joinQueue[p] THEN "woken" ELSE pc[q]]
        /\ UNCHANGED <<pid_current, proc_list, parent, joinQueue, held, unwaited, kernel>>
        /\ NoWaitpidReturn
    BY <1>2 DEF ExitFinish, MainThreadExited
  <2>2. FramesInv'
    BY <2>1, IInvFrames, ReleaseProcPagesInv
  <2>3. TypeOK'
    BY <2>1, <2>2, NoReturnTyped DEF IInv, TypeOK, FramesInv, Location
  <2>4. \A q \in joinQueue[p] : q \in Pid /\ held[q] = p /\ pc[q] \in {"joining", "woken"}
    BY DEF IInv, TypeOK, ControlInv, JoinersAgree
  <2>5. ControlInv'
    <3> USE DEF IInv, ControlInv, TypeOK
    <3>1. Numbered'
      BY <2>1, <2>4 DEF Numbered
    <3>2. StateAgrees'
      BY <2>1, <2>4 DEF StateAgrees, Live
    <3>3. JoinersAgree'
      BY <2>1, <2>4 DEF JoinersAgree
    <3>4. ParentExists'
      BY <2>1 DEF ParentExists
    <3> QED
      BY <3>1, <3>2, <3>3, <3>4
  <2>6. MemoryInv'
    <3>1. LiveMappingsOwned'
      BY <2>1, <2>4 DEF IInv, TypeOK, FramesTypeOK, MemoryInv, LiveMappingsOwned,
                 release_proc_pages, Live
    <3>2. NothingLeaked'
      BY <2>1, <2>4 DEF IInv, TypeOK, FramesTypeOK, MemoryInv, NothingLeaked,
                 release_proc_pages
    <3> QED
      BY <2>2, <3>1, <3>2 DEF MemoryInv, FramesInv
  <2> QED
    BY <2>3, <2>5, <2>6 DEF IInv
<1> QED
  BY <1>1, <1>2 DEF ExitFinish

-----------------------------------------------------------------------------
\* waitpid

LEMMA WaitpidJoinInv == ASSUME IInv, NEW p \in Pid, WaitpidJoin(p) PROVE IInv'
<1>1. PICK c \in WaitTargets(p) \cap proc_list :
        /\ pc[p] = "user"
        /\ joinQueue' = [joinQueue EXCEPT ![c] = @ \cup {p}]
        /\ held' = [held EXCEPT ![p] = c]
        /\ pc' = [pc EXCEPT ![p] = "joining"]
        /\ UNCHANGED <<frameVars, pid_current, proc_list, state, parent, main_thread, unwaited,
                       kernel>>
        /\ NoWaitpidReturn
  BY DEF WaitpidJoin, Calls
<1>2. c \in Pid
  BY DEF IInv, TypeOK
<1>3. TypeOK'
  BY <1>1, <1>2, NoReturnTyped DEF IInv, TypeOK, FramesTypeOK, frameVars, Location
<1>4. ControlInv'
  <2> USE <1>1, <1>2 DEF IInv, ControlInv, TypeOK
  <2>1. Numbered' /\ StateAgrees' /\ ParentExists'
    BY DEF Numbered, StateAgrees, ParentExists, Live
  <2>2. JoinersAgree'
    BY DEF JoinersAgree
  <2> QED
    BY <2>1, <2>2
<1>5. MemoryInv'
  BY <1>1 DEF IInv, TypeOK, MemoryInv, OwnerInv, LiveMappingsOwned, NothingLeaked,
              frameVars, Live
<1> QED
  BY <1>3, <1>4, <1>5 DEF IInv

\* What reaping a dead process keeps, pc, state and parent being those of the
\* next state of the two actions that reap.
LEMMA ReapMemory ==
    ASSUME IInv, NEW c \in Pid, pc[c] = "dead", NEW queue, Reap(c, queue),
           UNCHANGED parent,
           \A q \in Pid : pc'[q] \in Live <=> pc[q] \in Live,
           \A q \in Pid : pc'[q] \in {"none", "dead"} <=> pc[q] \in {"none", "dead"}
    PROVE  MemoryInv'
<1>1. FramesInv'
  BY IInvFrames, FreeRootPgtableInv DEF Reap
<1>2. LiveMappingsOwned'
  BY DEF IInv, TypeOK, FramesTypeOK, MemoryInv, LiveMappingsOwned, Reap, FreeRootPgtable, Live
<1>3. NothingLeaked'
  BY DEF IInv, TypeOK, MemoryInv, NothingLeaked, Reap, FreeRootPgtable
<1> QED
  BY <1>1, <1>2, <1>3 DEF MemoryInv, FramesInv

\* find_proc_by_parent() found no child of the PCB that remove_proc() frees.
LEMMA ReapKeepsParents ==
    ASSUME IInv, NEW c \in Pid, NEW queue, Reap(c, queue), UNCHANGED parent
    PROVE  ParentExists'
BY DEF IInv, TypeOK, ControlInv, ParentExists, Reap, find_proc_by_parent

LEMMA WaitpidZombieInv == ASSUME IInv, NEW p \in Pid, WaitpidZombie(p) PROVE IInv'
<1>1. CASE Stop("invalid")
  BY <1>1, StopInv DEF KernelState
<1>2. ASSUME NEW pid \in WaitTargets(p), NEW c \in proc_list,
             main_thread[c] = "zombie",
             Reap(c, joinQueue[c]),
             Returns(p, pid, c),
             unwaited' = [unwaited EXCEPT ![p] = @ \ {c}],
             UNCHANGED <<pid_current, state, parent, pc, held, kernel>>
      PROVE  IInv'
  <2>1. c \in Pid /\ c \in Int /\ pid \in Int /\ pc[c] = "dead"
    BY <1>2, PidNat, WaitTargetsInt DEF IInv, TypeOK, ControlInv, StateAgrees
  <2>2. MemoryInv'
    BY <1>2, <2>1, ReapMemory
  <2>3. FramesInv'
    BY <1>2, <2>1, IInvFrames, FreeRootPgtableInv DEF Reap
  <2>4. waitpid_ret' \in [proc : Pid \cup {NULL}, pid : Int, val : Int]
    BY <1>2, <2>1, ReturnTyped
  <2>5. joinQueue' = joinQueue
    BY <1>2 DEF Reap, IInv, TypeOK
  <2>6. TypeOK'
    BY <1>2, <2>1, <2>3, <2>4, <2>5 DEF IInv, TypeOK, FramesInv, Reap
  <2>7. ControlInv'
    <3>1. ParentExists'
      BY <1>2, <2>1, ReapKeepsParents
    <3>2. Numbered' /\ JoinersAgree'
      BY <1>2, <2>5 DEF IInv, ControlInv, Numbered, JoinersAgree
    <3>3. StateAgrees'
      BY <1>2, <2>1 DEF IInv, TypeOK, ControlInv, StateAgrees, Reap, Live
    <3> QED
      BY <3>1, <3>2, <3>3 DEF ControlInv
  <2> QED
    BY <2>2, <2>6, <2>7 DEF IInv
<1> QED
  BY <1>1, <1>2 DEF WaitpidZombie

LEMMA WaitpidResumeInv == ASSUME IInv, NEW p \in Pid, WaitpidResume(p) PROVE IInv'
<1>1. CASE Stop("invalid")
  BY <1>1, StopInv DEF KernelState
<1> DEFINE c == held[p]
<1>2. CASE c \in proc_list /\ c \in tables
  <2>0. /\ pc[p] = "woken"
        /\ Reap(c, joinQueue[c] \ {p})
        /\ Returns(p, c, c)
        /\ unwaited' = [unwaited EXCEPT ![p] = @ \ {c}]
        /\ held' = [held EXCEPT ![p] = NULL]
        /\ pc' = [pc EXCEPT ![p] = "user"]
        /\ UNCHANGED <<pid_current, state, parent, kernel>>
    BY <1>2 DEF WaitpidResume
  <2>1. c \in Pid /\ c \in Int /\ pc[c] = "dead"
    <3>1. c \in Pid /\ pc[c] = "dead"
      BY <2>0 DEF IInv, ControlInv, JoinersAgree
    <3>2. Pid \subseteq Int
      BY PidNat
    <3> HIDE DEF c
    <3> QED
      BY <3>1, <3>2
  <2> HIDE DEF c
  <2>2. /\ \A q \in Pid : pc'[q] \in Live <=> pc[q] \in Live
        /\ \A q \in Pid : pc'[q] \in {"none", "dead"} <=> pc[q] \in {"none", "dead"}
    BY <2>0 DEF IInv, TypeOK, Live
  <2>3. MemoryInv'
    BY <2>0, <2>1, <2>2, ReapMemory
  <2>4. FramesInv'
    BY <2>0, <2>1, IInvFrames, FreeRootPgtableInv DEF Reap
  <2>5. waitpid_ret' \in [proc : Pid \cup {NULL}, pid : Int, val : Int]
    BY <2>0, <2>1, ReturnTyped
  <2>6. joinQueue' = [joinQueue EXCEPT ![c] = @ \ {p}]
    BY <2>0 DEF Reap, IInv, TypeOK
  <2>7. TypeOK'
    BY <2>0, <2>1, <2>4, <2>5, <2>6 DEF IInv, TypeOK, FramesInv, Reap, Location
  <2>8. ControlInv'
    <3>1. ParentExists'
      BY <2>0, <2>1, ReapKeepsParents
    <3>2. Numbered'
      BY <2>0 DEF IInv, TypeOK, ControlInv, Numbered
    <3>3. JoinersAgree'
      BY <2>0, <2>1, <2>6 DEF c, IInv, TypeOK, ControlInv, JoinersAgree
    <3>4. StateAgrees'
      BY <2>0, <2>1 DEF IInv, TypeOK, ControlInv, StateAgrees, Reap, Live
    <3> QED
      BY <3>1, <3>2, <3>3, <3>4 DEF ControlInv
  <2> QED
    BY <2>3, <2>7, <2>8 DEF IInv
<1> QED
  BY <1>1, <1>2 DEF WaitpidResume

-----------------------------------------------------------------------------

LEMMA NextInv == IInv /\ [Next]_vars => IInv'
<1> SUFFICES ASSUME IInv, [Next]_vars PROVE IInv'
  OBVIOUS
<1>1. CASE UNCHANGED vars
  <2>1. waitpid_ret' \in [proc : Pid \cup {NULL}, pid : Int, val : Int]
    BY <1>1 DEF IInv, TypeOK, vars, procVars
  <2> QED
    BY <1>1, <2>1, ReturnInv DEF vars, procVars
<1>2. CASE CreateRootProcess
  BY <1>2, CreateRootProcessInv
<1>3. ASSUME NEW p \in Pid,
             \/ DoFork(p) \/ ForkReturn(p)
             \/ DoExecve(p)
             \/ DoExit(p) \/ ExitFinish(p)
             \/ WaitpidNoChild(p) \/ WaitpidNoHang(p)
             \/ WaitpidZombie(p) \/ WaitpidJoin(p) \/ WaitpidResume(p)
      PROVE  IInv'
  BY <1>3, DoForkInv, ForkReturnInv, DoExecveInv, DoExitInv, ExitFinishInv, WaitpidNoChildInv,
     WaitpidNoHangInv, WaitpidZombieInv, WaitpidJoinInv, WaitpidResumeInv
<1> QED
  BY <1>1, <1>2, <1>3 DEF Next, Halted

LEMMA Inductive == Spec => []IInv
BY InitInv, NextInv, PTL DEF Spec

\* The variables of Process keep their types in every execution.
THEOREM TypeCorrect == Spec => []TypeOK
<1>1. IInv => TypeOK
  BY DEF IInv
<1> QED
  BY <1>1, Inductive, PTL

\* do_exit() can follow pcb->parent, and find_proc_by_parent() never compares
\* with a freed PCB: no process of the list has a parent out of it, whoever
\* waits for whom.
THEOREM ParentsStay == Spec => []ParentExists
<1>1. IInv => ParentExists
  BY DEF IInv, ControlInv
<1> QED
  BY <1>1, Inductive, PTL

\* The reference counts of the frames are right, a frame is free exactly when
\* no process owns it, and it never has two owners, through every interleaving
\* of fork, execve, exit and waitpid.
THEOREM FramesOwnedOnce == Spec => []FrameOwnership
<1>1. IInv => FrameOwnership
  BY IInvFrames, OwnersCounted
<1> QED
  BY <1>1, Inductive, PTL

\* Isolation: a process that can run maps only frames of its own page list.
THEOREM Isolation == Spec => []LiveMappingsOwned
<1>1. IInv => LiveMappingsOwned
  BY DEF IInv, MemoryInv
<1> QED
  BY <1>1, Inductive, PTL

\* The dead own no page, and a PCB out of the list no page table.
THEOREM NoLeak == Spec => []NothingLeaked
<1>1. IInv => NothingLeaked
  BY DEF IInv, MemoryInv
<1> QED
  BY <1>1, Inductive, PTL

\* A page table is freed only when its process has finished.
THEOREM NoEarlyReap == Spec => ReapsOnlyFinished
<1>1. IInv /\ [Next]_vars =>
        [\A c \in tables : c \notin tables' => state[c] = "ZOMBIE" /\ pc[c] = "dead"]_vars
  <2> SUFFICES ASSUME IInv, Next, NEW c \in tables, c \notin tables'
               PROVE  pc[c] = "dead"
    BY DEF IInv, ControlInv, StateAgrees, TypeOK, FramesTypeOK
  <2>1. PICK p \in Pid : WaitpidZombie(p) \/ WaitpidResume(p)
    BY DEF Next, CreateRootProcess, DoFork, ForkReturn, DoExecve, DoExit, ExitFinish,
           WaitpidNoChild, WaitpidNoHang, WaitpidJoin, Halted, Stop, vars, frameVars,
           CreateUserSpace, DuplicateUserSpace, ReplaceUserSpace, release_proc_pages
  <2>2. CASE WaitpidZombie(p)
    <3>1. PICK d \in proc_list : main_thread[d] = "zombie" /\ tables' = tables \ {d}
      BY <2>2 DEF WaitpidZombie, Stop, frameVars, Reap, FreeRootPgtable
    <3> QED
      BY <3>1 DEF IInv, TypeOK, ControlInv, StateAgrees
  <2>3. CASE WaitpidResume(p)
    <3>1. pc[p] = "woken" /\ tables' = tables \ {held[p]}
      BY <2>3 DEF WaitpidResume, Stop, frameVars, Reap, FreeRootPgtable
    <3> QED
      BY <3>1 DEF IInv, ControlInv, JoinersAgree
  <2> QED
    BY <2>1, <2>2, <2>3
<1> QED
  BY <1>1, Inductive, PTL DEF Spec, ReapsOnlyFinished
-----------------------------------------------------------------------------
\* Programs that wait only for their own children.

\* What a wait accepts: the PCB is in the list, with its page table.
Waitable == {"alive", "zombie"}

\* The life of the main thread; a thread that was not joined keeps its PCB.
ThreadInv ==
    \A c \in Pid :
        /\ main_thread[c] = "none" <=> pc[c] = "none"
        /\ main_thread[c] = "alive" <=> pc[c] \in Live
        /\ main_thread[c] \in Waitable => c \in proc_list \cap tables
        /\ c \in proc_list => main_thread[c] # "none"

\* The children a program knows are its own, and nobody reaped them.
ChildrenInv ==
    \A p \in Pid : \A c \in unwaited[p] : parent[c] = p /\ main_thread[c] \in Waitable

\* fork() holds a child its program does not know yet, waitpid() one it knows.
HeldInv ==
    \A p \in Pid :
        /\ pc[p] = "forking" => /\ held[p] \in Pid \ unwaited[p]
                               /\ parent[held[p]] = p
                               /\ main_thread[held[p]] \in Waitable
        /\ pc[p] \in {"joining", "woken"} => held[p] \in unwaited[p]
        /\ pc[p] \notin {"forking", "joining", "woken"} => held[p] = NULL

\* The system did not stop on an error, and only a process with a parent leaves.
RunsInv ==
    /\ AssertsHold
    /\ \A p \in Pid : pc[p] = "closing" => parent[p] # NULL

WaitInv == ThreadInv /\ ChildrenInv /\ HeldInv /\ RunsInv /\ CleanedPcbHasChildren
LEMMA InitWait == Init => WaitInv
BY PidNat DEF Init, WaitInv, ThreadInv, ChildrenInv, HeldInv, RunsInv, AssertsHold,
              CleanedPcbHasChildren, Waitable, Live

\* A panic, or a step that moves nothing.
LEMMA SameWait ==
    ASSUME WaitInv, kernel' \notin {"assert", "invalid"},
           UNCHANGED <<frameVars, proc_list, parent, main_thread, pc, held, unwaited>>
    PROVE  WaitInv'
BY DEF WaitInv, ThreadInv, ChildrenInv, HeldInv, RunsInv, AssertsHold,
       CleanedPcbHasChildren, find_proc_by_parent, Waitable, frameVars

LEMMA PanicWait == WaitInv /\ Stop("panic") => WaitInv'
BY SameWait DEF Stop

LEMMA CreateRootProcessWait ==
    ASSUME IInv, WaitInv, CreateRootProcess
    PROVE  WaitInv'
<1>1. CASE Stop("panic")
  BY <1>1, PanicWait
<1>2. CASE \E S \in get_free_pages(RootStackPages, freeFrames) :
             /\ CreateUserSpace(pid_current, S, KernelFrame)
             /\ new_process(pid_current, NULL)
             /\ pc' = [pc EXCEPT ![pid_current] = "user"]
             /\ kernel' = "running"
             /\ UNCHANGED <<joinQueue, held, unwaited>>
  <2>1. /\ tables' = tables \cup {1}
        /\ new_process(1, NULL)
        /\ pc' = [pc EXCEPT ![1] = "user"]
        /\ kernel' = "running"
        /\ UNCHANGED <<joinQueue, held, unwaited>>
    BY <1>2 DEF CreateRootProcess, IInv, ControlInv, Numbered, CreateUserSpace
  <2>2. 1 \in Pid /\ \A p \in Pid : pc[p] = "none" /\ main_thread[p] = "none"
    BY PidNat DEF CreateRootProcess, IInv, ControlInv, Numbered, WaitInv, ThreadInv, Pid
  <2>3. \A p \in Pid : unwaited[p] = {} /\ held[p] = NULL
    BY <2>2 DEF IInv, TypeOK, WaitInv, ChildrenInv, HeldInv, Waitable
  <2> QED
    BY <2>1, <2>2, <2>3 DEF IInv, TypeOK, WaitInv, ThreadInv, ChildrenInv, HeldInv, RunsInv,
       AssertsHold, CleanedPcbHasChildren, Waitable, Live, new_process
<1> QED
  BY <1>1, <1>2 DEF CreateRootProcess

LEMMA DoForkWait ==
    ASSUME IInv, WaitInv, NEW p \in Pid, DoFork(p)
    PROVE  WaitInv'
<1>1. CASE Stop("panic")
  BY <1>1, PanicWait
<1>2. CASE \E S \in SUBSET freeFrames :
             /\ DuplicateUserSpace(p, pid_current, S)
             /\ new_process(pid_current, p)
             /\ pc' = [pc EXCEPT ![p] = "forking", ![pid_current] = "user"]
             /\ held' = [held EXCEPT ![p] = pid_current]
             /\ UNCHANGED <<joinQueue, unwaited, kernel>>
  <2> DEFINE n == pid_current
  <2>1. /\ tables' = tables \cup {n}
        /\ new_process(n, p)
        /\ pc' = [pc EXCEPT ![p] = "forking", ![n] = "user"]
        /\ held' = [held EXCEPT ![p] = n]
        /\ UNCHANGED <<joinQueue, unwaited, kernel>>
    BY <1>2 DEF DuplicateUserSpace, CreateUserSpace
  <2>2. n \in Pid /\ pc[p] = "user" /\ kernel = "running"
    BY DEF DoFork, Calls
  <2>3. pc[n] = "none" /\ main_thread[n] = "none" /\ n # p
    BY <2>2, PidNat DEF IInv, ControlInv, Numbered, WaitInv, ThreadInv, Pid
  <2>4. \A q \in Pid : n \notin unwaited[q]
    BY <2>3 DEF WaitInv, ChildrenInv, Waitable
  <2>5. \A q \in Pid : q # p => held'[q] = held[q] /\ held[q] # n
    BY <2>1, <2>2, <2>3, <2>4, PidNat DEF IInv, TypeOK, WaitInv, HeldInv, Waitable
  <2> HIDE DEF n
  <2>6. ThreadInv' /\ ChildrenInv' /\ RunsInv'
    BY <2>1, <2>2, <2>3, <2>4 DEF IInv, TypeOK, WaitInv, ThreadInv, ChildrenInv, RunsInv,
       AssertsHold, Waitable, Live, new_process
  <2>7. HeldInv'
    BY <2>1, <2>2, <2>3, <2>4, <2>5 DEF IInv, TypeOK, WaitInv, HeldInv, Waitable, new_process
  <2>8. CleanedPcbHasChildren'
    <3> SUFFICES ASSUME NEW q \in proc_list', main_thread'[q] = "cleaned"
                 PROVE  \E d \in proc_list' : parent'[d] = q
      BY DEF CleanedPcbHasChildren, find_proc_by_parent
    <3>1. q \in proc_list /\ main_thread[q] = "cleaned"
      BY <2>1, <2>2 DEF IInv, TypeOK, new_process
    <3>2. PICK d \in proc_list : parent[d] = q
      BY <3>1 DEF WaitInv, CleanedPcbHasChildren, find_proc_by_parent
    <3>3. d # n
      BY <2>2, <2>3 DEF WaitInv, ThreadInv
    <3> QED
      BY <2>1, <2>2, <3>2, <3>3 DEF IInv, TypeOK, new_process
  <2> QED
    BY <2>6, <2>7, <2>8 DEF WaitInv
<1> QED
  BY <1>1, <1>2 DEF DoFork

LEMMA ForkReturnWait ==
    ASSUME IInv, WaitInv, NEW p \in Pid, ForkReturn(p)
    PROVE  WaitInv'
<1>1. /\ pc[p] = "forking"
      /\ held[p] \in Pid \ unwaited[p]
      /\ parent[held[p]] = p
      /\ main_thread[held[p]] \in Waitable
      /\ held[p] \in proc_list
  BY DEF ForkReturn, WaitInv, HeldInv, ThreadInv
<1>2. /\ pc' = [pc EXCEPT ![p] = "user"]
      /\ held' = [held EXCEPT ![p] = NULL]
      /\ unwaited' = [unwaited EXCEPT ![p] = @ \cup {held[p]}]
      /\ UNCHANGED <<frameVars, proc_list, parent, main_thread, kernel>>
  BY <1>1 DEF ForkReturn
<1> QED
  BY <1>1, <1>2 DEF IInv, TypeOK, WaitInv, ThreadInv, ChildrenInv, HeldInv, RunsInv, AssertsHold,
     CleanedPcbHasChildren, find_proc_by_parent, Waitable, Live, frameVars

LEMMA DoExecveWait ==
    ASSUME IInv, WaitInv, NEW p \in Pid, DoExecve(p)
    PROVE  WaitInv'
<1>1. CASE Stop("panic")
  BY <1>1, PanicWait
<1>2. MigratesJoiners(p)
  BY DEF MigratesJoiners, IInv, TypeOK, ControlInv, JoinersAgree, WaitInv, HeldInv, ChildrenInv
<1>3. CASE \E n \in ImageSizes :
             /\ ReplaceUserSpace(p, n)
             /\ unwaited' = [unwaited EXCEPT ![p] = {}]
             /\ UNCHANGED <<proc_list, parent, main_thread, pc, held, kernel>>
  <2>1. /\ pc[p] = "user"
        /\ unwaited' = [unwaited EXCEPT ![p] = {}]
        /\ UNCHANGED <<tables, proc_list, parent, main_thread, pc, held, kernel>>
    BY <1>3 DEF ReplaceUserSpace, DoExecve, Calls
  <2> QED
    BY <2>1 DEF IInv, TypeOK, WaitInv, ThreadInv, ChildrenInv, HeldInv, RunsInv, AssertsHold,
       CleanedPcbHasChildren, find_proc_by_parent
<1> QED
  BY <1>1, <1>2, <1>3 DEF DoExecve

LEMMA DoExitWait ==
    ASSUME IInv, WaitInv, NEW p \in Pid, DoExit(p)
    PROVE  WaitInv'
<1>1. CASE Stop("panic")
  BY <1>1, PanicWait
<1>2. CASE parent[p] # NULL
  <2>1. /\ pc[p] = "user"
        /\ pc' = [pc EXCEPT ![p] = "closing"]
        /\ UNCHANGED <<frameVars, proc_list, parent, main_thread, held, unwaited, kernel>>
    BY <1>2 DEF DoExit, Calls
  <2> QED
    BY <1>2, <2>1 DEF IInv, TypeOK, WaitInv, ThreadInv, ChildrenInv, HeldInv, RunsInv, AssertsHold,
       CleanedPcbHasChildren, find_proc_by_parent, Live, frameVars
<1> QED
  BY <1>1, <1>2 DEF DoExit

LEMMA ExitFinishWait ==
    ASSUME IInv, WaitInv, NEW p \in Pid, ExitFinish(p)
    PROVE  WaitInv'
<1>1. parent[p] \in proc_list
  BY DEF ExitFinish, IInv, ControlInv, StateAgrees, ParentExists, WaitInv, RunsInv, Live
<1>2. /\ pc[p] = "closing"
      /\ main_thread' = [main_thread EXCEPT ![p] = "zombie"]
      /\ pc' = [q \in Pid |-> IF q = p THEN "dead"
                              ELSE IF q \in joinQueue[p] THEN "woken" ELSE pc[q]]
      /\ UNCHANGED <<tables, proc_list, parent, held, unwaited, kernel>>
  BY <1>1 DEF ExitFinish, MainThreadExited, release_proc_pages
<1>3. \A q \in joinQueue[p] : q \in Pid /\ pc[q] \in {"joining", "woken"}
  BY DEF IInv, TypeOK, ControlInv, JoinersAgree
<1>4. main_thread[p] = "alive"
  BY <1>2 DEF WaitInv, ThreadInv, Live
<1>5. ThreadInv' /\ ChildrenInv' /\ RunsInv' /\ CleanedPcbHasChildren'
  BY <1>2, <1>3, <1>4 DEF IInv, TypeOK, WaitInv, ThreadInv, ChildrenInv, RunsInv, AssertsHold,
     CleanedPcbHasChildren, find_proc_by_parent, Waitable, Live
<1>6. HeldInv'
  BY <1>2, <1>3, <1>4 DEF IInv, TypeOK, WaitInv, HeldInv, Waitable
<1> QED
  BY <1>5, <1>6 DEF WaitInv

LEMMA WaitpidJoinWait ==
    ASSUME AnyWait = FALSE, IInv, WaitInv, NEW p \in Pid, WaitpidJoin(p)
    PROVE  WaitInv'
<1>1. PICK c \in unwaited[p] :
        /\ pc[p] = "user"
        /\ held' = [held EXCEPT ![p] = c]
        /\ pc' = [pc EXCEPT ![p] = "joining"]
        /\ UNCHANGED <<frameVars, proc_list, parent, main_thread, unwaited, kernel>>
  BY DEF WaitpidJoin, Calls, WaitTargets
<1> QED
  BY <1>1 DEF IInv, TypeOK, WaitInv, ThreadInv, ChildrenInv, HeldInv, RunsInv, AssertsHold,
     CleanedPcbHasChildren, find_proc_by_parent, Live, frameVars

\* A child has one waiter: its parent.
LEMMA OwnWaiter ==
    ASSUME IInv, WaitInv, NEW p \in Pid, NEW c \in Pid, parent[c] = p
    PROVE  joinQueue[c] \subseteq {p}
BY DEF IInv, TypeOK, ControlInv, JoinersAgree, WaitInv, HeldInv, ChildrenInv

\* What reaping c does, p being its parent and its waiter.
LEMMA ReapWait ==
    ASSUME IInv, WaitInv, NEW p \in Pid, NEW c \in unwaited[p], main_thread[c] = "zombie",
           pc[p] \in {"user", "woken"},
           \A q \in Pid \ {p} : held[q] # c,
           Reap(c, {}),
           unwaited' = [unwaited EXCEPT ![p] = @ \ {c}],
           held' = [held EXCEPT ![p] = NULL],
           pc' = [pc EXCEPT ![p] = "user"],
           UNCHANGED <<parent, kernel>>
    PROVE  WaitInv'
<1>1. c \in Pid /\ parent[c] = p /\ pc[c] = "dead" /\ c # p
  BY DEF IInv, TypeOK, ControlInv, StateAgrees, WaitInv, ChildrenInv
<1>2. /\ main_thread' = [main_thread EXCEPT ![c] = "cleaned"]
      /\ tables' = tables \ {c}
      /\ proc_list' = IF find_proc_by_parent(c) = {} THEN proc_list \ {c} ELSE proc_list
  BY DEF Reap, FreeRootPgtable
<1>3. ThreadInv'
  BY <1>1, <1>2 DEF IInv, TypeOK, WaitInv, ThreadInv, Waitable, Live
<1>4. ChildrenInv' /\ RunsInv'
  BY <1>1, <1>2 DEF IInv, TypeOK, WaitInv, ChildrenInv, RunsInv, AssertsHold, Waitable
<1>5. HeldInv'
  BY <1>1, <1>2 DEF IInv, TypeOK, WaitInv, HeldInv, Waitable
<1>6. main_thread[p] = "alive"
  BY DEF WaitInv, ThreadInv, Live
<1>7. CleanedPcbHasChildren'
  BY <1>1, <1>2, <1>6 DEF IInv, TypeOK, WaitInv, CleanedPcbHasChildren, find_proc_by_parent
<1> QED
  BY <1>3, <1>4, <1>5, <1>7 DEF WaitInv

\* Only the parent of a child holds it.
LEMMA OwnHolder ==
    ASSUME IInv, WaitInv, NEW p \in Pid, NEW c \in unwaited[p], NEW q \in Pid, held[q] = c
    PROVE  q = p
BY PidNat DEF IInv, TypeOK, WaitInv, HeldInv, ChildrenInv

LEMMA WaitpidZombieReaps ==
    ASSUME AnyWait = FALSE, IInv, WaitInv, NEW p \in Pid, WaitpidZombie(p)
    PROVE  \E c \in unwaited[p] :
             /\ main_thread[c] = "zombie"
             /\ Reap(c, {})
             /\ Returns(p, c, c)
             /\ unwaited' = [unwaited EXCEPT ![p] = @ \ {c}]
             /\ UNCHANGED <<pid_current, state, parent, pc, held, kernel>>
<1>1. PICK pid \in unwaited[p], c \in proc_list :
         /\ Finds(p, pid, c)
         /\ \/ /\ main_thread[c] = "zombie"
               /\ Reap(c, joinQueue[c])
               /\ Returns(p, pid, c)
               /\ unwaited' = [unwaited EXCEPT ![p] = @ \ {c}]
               /\ UNCHANGED <<pid_current, state, parent, pc, held, kernel>>
            \/ main_thread[c] = "cleaned" \/ (main_thread[c] = "zombie" /\ c \notin tables)
  BY DEF WaitpidZombie, WaitTargets
<1>2. pid \in Pid /\ pid # -1 /\ c = pid
  BY <1>1, PidNat DEF Finds, IInv, TypeOK
<1>3. parent[c] = p /\ main_thread[c] \in Waitable /\ c \in tables
  BY <1>2 DEF WaitInv, ChildrenInv, ThreadInv
<1>4. pc[p] = "user"
  BY DEF WaitpidZombie, Calls
<1>5. joinQueue[c] = {}
  <2>1. joinQueue[c] \subseteq {p}
    BY <1>2, <1>3, OwnWaiter
  <2>2. p \notin joinQueue[c]
    BY <1>2, <1>4 DEF IInv, TypeOK, ControlInv, JoinersAgree
  <2> QED
    BY <2>1, <2>2
<1> QED
  BY <1>1, <1>2, <1>3, <1>5 DEF Waitable

LEMMA WaitpidZombieWait ==
    ASSUME AnyWait = FALSE, IInv, WaitInv, NEW p \in Pid, WaitpidZombie(p)
    PROVE  WaitInv'
<1>1. PICK c \in unwaited[p] :
        /\ main_thread[c] = "zombie"
        /\ Reap(c, {})
        /\ unwaited' = [unwaited EXCEPT ![p] = @ \ {c}]
        /\ UNCHANGED <<parent, pc, held, kernel>>
  BY WaitpidZombieReaps
<1>2. pc[p] = "user" /\ held[p] = NULL
  BY DEF WaitpidZombie, Calls, WaitInv, HeldInv
<1>3. held' = [held EXCEPT ![p] = NULL] /\ pc' = [pc EXCEPT ![p] = "user"]
  BY <1>1, <1>2 DEF IInv, TypeOK
<1>4. \A q \in Pid \ {p} : held[q] # c
  BY OwnHolder
<1> QED
  BY <1>1, <1>2, <1>3, <1>4, ReapWait

LEMMA WaitpidResumeReaps ==
    ASSUME IInv, WaitInv, NEW p \in Pid, WaitpidResume(p)
    PROVE  \E c \in unwaited[p] :
             /\ main_thread[c] = "zombie"
             /\ Reap(c, {})
             /\ Returns(p, c, c)
             /\ unwaited' = [unwaited EXCEPT ![p] = @ \ {c}]
             /\ held' = [held EXCEPT ![p] = NULL]
             /\ pc' = [pc EXCEPT ![p] = "user"]
             /\ UNCHANGED <<pid_current, state, parent, kernel>>
<1>1. pc[p] = "woken" /\ held[p] \in unwaited[p] /\ held[p] \in Pid /\ pc[held[p]] = "dead"
  BY DEF WaitpidResume, IInv, ControlInv, JoinersAgree, WaitInv, HeldInv
<1>2. main_thread[held[p]] = "zombie" /\ held[p] \in proc_list \cap tables
  BY <1>1 DEF WaitInv, ChildrenInv, ThreadInv, Waitable, Live
<1>3. joinQueue[held[p]] \ {p} = {}
  BY <1>1, OwnWaiter DEF WaitInv, ChildrenInv
<1> QED
  BY <1>1, <1>2, <1>3 DEF WaitpidResume

LEMMA WaitpidResumeWait ==
    ASSUME IInv, WaitInv, NEW p \in Pid, WaitpidResume(p)
    PROVE  WaitInv'
<1>1. PICK c \in unwaited[p] :
        /\ main_thread[c] = "zombie"
        /\ Reap(c, {})
        /\ unwaited' = [unwaited EXCEPT ![p] = @ \ {c}]
        /\ held' = [held EXCEPT ![p] = NULL]
        /\ pc' = [pc EXCEPT ![p] = "user"]
        /\ UNCHANGED <<parent, kernel>>
  BY WaitpidResumeReaps
<1>2. pc[p] = "woken"
  BY DEF WaitpidResume
<1>3. \A q \in Pid \ {p} : held[q] # c
  BY OwnHolder
<1> QED
  BY <1>1, <1>2, <1>3, ReapWait

\* The children of a program are in the list: waitpid() finds no ECHILD.
LEMMA NoLostChild ==
    ASSUME AnyWait = FALSE, IInv, WaitInv, NEW p \in Pid
    PROVE  ~WaitpidNoChild(p)
BY PidNat DEF WaitpidNoChild, WaitTargets, WaitInv, ChildrenInv, ThreadInv, IInv, TypeOK

LEMMA NextWait == AnyWait = FALSE /\ IInv /\ WaitInv /\ [Next]_vars => WaitInv'
<1> SUFFICES ASSUME AnyWait = FALSE, IInv, WaitInv, [Next]_vars PROVE WaitInv'
  OBVIOUS
<1>1. CASE UNCHANGED vars
  BY <1>1, SameWait DEF vars, procVars, WaitInv, RunsInv, AssertsHold
<1>2. CASE CreateRootProcess
  BY <1>2, CreateRootProcessWait
<1>3. ASSUME NEW p \in Pid, DoFork(p) \/ ForkReturn(p) \/ DoExecve(p) \/ DoExit(p) \/ ExitFinish(p)
      PROVE  WaitInv'
  BY <1>3, DoForkWait, ForkReturnWait, DoExecveWait, DoExitWait, ExitFinishWait
<1>4. ASSUME NEW p \in Pid, WaitpidNoChild(p) \/ WaitpidNoHang(p)
      PROVE  WaitInv'
  BY <1>4, SameWait DEF WaitpidNoChild, WaitpidNoHang, WaitInv, RunsInv, AssertsHold
<1>5. ASSUME NEW p \in Pid, WaitpidZombie(p) \/ WaitpidJoin(p) \/ WaitpidResume(p)
      PROVE  WaitInv'
  BY <1>5, WaitpidZombieWait, WaitpidJoinWait, WaitpidResumeWait
<1> QED
  BY <1>1, <1>2, <1>3, <1>4, <1>5 DEF Next, Halted

LEMMA WaitInductive == ASSUME AnyWait = FALSE PROVE Spec => [](IInv /\ WaitInv)
<1>1. IInv /\ WaitInv /\ [Next]_vars => (IInv /\ WaitInv)'
  BY NextInv, NextWait
<1> QED
  BY <1>1, InitInv, InitWait, PTL DEF Spec
\* What a suspended fork() or waitpid() holds is neither freed nor stripped of
\* its page table, when programs wait for their own children.
THEOREM HeldPcbStays == ASSUME AnyWait = FALSE PROVE Spec => []HeldPcbIntact
<1>1. IInv /\ WaitInv => HeldPcbIntact
  <2> SUFFICES ASSUME IInv, WaitInv, NEW p \in Pid, held[p] # NULL
               PROVE  held[p] \in proc_list \cap tables
    BY DEF HeldPcbIntact
  <2>1. held[p] \in Pid /\ main_thread[held[p]] \in Waitable
    BY DEF IInv, TypeOK, WaitInv, HeldInv, ChildrenInv
  <2> QED
    BY <2>1 DEF WaitInv, ThreadInv
<1> QED
  BY <1>1, WaitInductive, PTL

\* A child is waitable until its parent has waited for it.
THEOREM ChildrenStayWaitable == ASSUME AnyWait = FALSE PROVE Spec => []ChildrenWaitable
<1>1. IInv /\ WaitInv => ChildrenWaitable
  BY DEF IInv, TypeOK, WaitInv, ChildrenInv, ThreadInv, Waitable, ChildrenWaitable
<1> QED
  BY <1>1, WaitInductive, PTL

\* The ASSERTs of do_execve() hold and no freed PCB or page table is followed.
THEOREM NoInvalidAccess == ASSUME AnyWait = FALSE PROVE Spec => []AssertsHold
<1>1. WaitInv => AssertsHold
  BY DEF WaitInv, RunsInv
<1> QED
  BY <1>1, WaitInductive, PTL

\* The only PCBs kept after they were waited for are those with children.
THEOREM KeptForChildren == ASSUME AnyWait = FALSE PROVE Spec => []CleanedPcbHasChildren
<1>1. WaitInv => CleanedPcbHasChildren
  BY DEF WaitInv
<1> QED
  BY <1>1, WaitInductive, PTL

-----------------------------------------------------------------------------
\* The refinement of ForkWait: each step maps to one of its actions.

StatusOf == [p \in Pid |-> CASE main_thread[p] = "none" -> "absent"
                             [] main_thread[p] = "alive" -> "live"
                             [] main_thread[p] = "zombie" -> "finished"
                             [] main_thread[p] = "cleaned" -> "reaped"]

ChildrenOf == [p \in Pid |-> unwaited[p] \cup
                             (IF pc[p] = "forking" THEN {held[p]} ELSE {})]

Returned == IF waitpid_ret.proc = NULL THEN <<>>
            ELSE <<waitpid_ret.proc, waitpid_ret.pid, waitpid_ret.val>>

\* A step that completes no waitpid().
LEMMA NothingReturned == NoWaitpidReturn => Returned' = <<>>
BY DEF NoWaitpidReturn, NoReturn, Returned

\* A step that completes one.
LEMMA WaitReturned ==
    ASSUME NEW p \in Pid, NEW c, NEW val, Returns(p, c, val)
    PROVE  Returned' = <<p, c, val>>
BY PidNat DEF Returns, Returned

\* The actions of ForkWait under the mapping.
LEMMA MapInit ==
    ASSUME StatusOf = [p \in Pid |-> "absent"], ChildrenOf = [p \in Pid |-> {}], Returned = <<>>
    PROVE  Promise!Init
BY DEF Promise!Init, StatusOf, ChildrenOf, Returned

LEMMA MapBoot ==
    ASSUME NEW p \in Pid, \A q \in Pid : StatusOf[q] = "absent",
           StatusOf' = [StatusOf EXCEPT ![p] = "live"],
           ChildrenOf' = ChildrenOf,
           Returned' = <<>>
    PROVE  Promise!Boot(p)
BY DEF Promise!Boot, StatusOf, ChildrenOf, Returned

LEMMA MapFork ==
    ASSUME NEW p \in Pid, NEW c \in Pid, StatusOf[p] = "live", StatusOf[c] = "absent",
           StatusOf' = [StatusOf EXCEPT ![c] = "live"],
           ChildrenOf' = [ChildrenOf EXCEPT ![p] = @ \cup {c}],
           Returned' = <<>>
    PROVE  Promise!Fork(p, c)
BY DEF Promise!Fork, StatusOf, ChildrenOf, Returned

LEMMA MapExec ==
    ASSUME NEW p \in Pid, StatusOf[p] = "live",
           StatusOf' = StatusOf,
           ChildrenOf' = [ChildrenOf EXCEPT ![p] = {}],
           Returned' = <<>>
    PROVE  Promise!Exec(p)
BY DEF Promise!Exec, StatusOf, ChildrenOf, Returned

LEMMA MapExit ==
    ASSUME NEW p \in Pid, StatusOf[p] = "live",
           StatusOf' = [StatusOf EXCEPT ![p] = "finished"],
           ChildrenOf' = ChildrenOf,
           Returned' = <<>>
    PROVE  Promise!Exit(p)
BY DEF Promise!Exit, StatusOf, ChildrenOf, Returned

LEMMA MapWait ==
    ASSUME NEW p \in Pid, NEW c \in Pid, StatusOf[p] = "live",
           c \in ChildrenOf[p], StatusOf[c] = "finished",
           StatusOf' = [StatusOf EXCEPT ![c] = "reaped"],
           ChildrenOf' = [ChildrenOf EXCEPT ![p] = @ \ {c}],
           Returned' = <<p, c, c>>
    PROVE  Promise!Wait(p, c)
BY DEF Promise!Wait, StatusOf, ChildrenOf, Returned

LEMMA MapPoll ==
    ASSUME NEW p \in Pid, NEW c \in Pid, StatusOf[p] = "live",
           c \in ChildrenOf[p], StatusOf[c] = "live",
           StatusOf' = StatusOf, ChildrenOf' = ChildrenOf,
           Returned' = <<p, c, 0>>
    PROVE  Promise!Poll(p, c)
BY DEF Promise!Poll, StatusOf, ChildrenOf, Returned

LEMMA MapOther ==
    ASSUME StatusOf' = StatusOf, ChildrenOf' = ChildrenOf, Returned' = <<>>
    PROVE  Promise!Other
BY DEF Promise!Other, StatusOf, ChildrenOf, Returned

\* A panic, and the steps that end no wait and change no thread nor child.
LEMMA OtherStep ==
    ASSUME UNCHANGED <<main_thread, unwaited>>, NoWaitpidReturn,
           UNCHANGED ChildrenOf
    PROVE  Promise!Next
<1>1. StatusOf' = StatusOf
  BY DEF StatusOf
<1> QED
  BY <1>1, MapOther, NothingReturned DEF Promise!Next

LEMMA PanicStep == ASSUME Stop("panic") PROVE Promise!Next
BY OtherStep DEF Stop, ChildrenOf

LEMMA BootStep == ASSUME IInv, WaitInv, CreateRootProcess PROVE Promise!Next
<1>1. CASE Stop("panic")
  BY <1>1, PanicStep
<1>2. CASE /\ new_process(pid_current, NULL)
           /\ pc' = [pc EXCEPT ![pid_current] = "user"]
           /\ UNCHANGED <<held, unwaited>>
           /\ NoWaitpidReturn
  <2>1. 1 \in Pid /\ \A p \in Pid : pc[p] = "none" /\ main_thread[p] = "none"
    BY PidNat DEF CreateRootProcess, IInv, ControlInv, Numbered, WaitInv, ThreadInv, Pid
  <2>2. main_thread' = [main_thread EXCEPT ![1] = "alive"] /\ pc' = [pc EXCEPT ![1] = "user"]
    BY <1>2 DEF CreateRootProcess, IInv, ControlInv, Numbered, new_process
  <2>3. StatusOf' = [StatusOf EXCEPT ![1] = "live"]
    BY <2>1, <2>2 DEF IInv, TypeOK, StatusOf
  <2>4. ChildrenOf' = ChildrenOf
    BY <1>2, <2>1, <2>2 DEF IInv, TypeOK, ChildrenOf
  <2>5. \A p \in Pid : StatusOf[p] = "absent"
    BY <2>1 DEF StatusOf
  <2> QED
    BY <1>2, <2>1, <2>3, <2>4, <2>5, MapBoot, NothingReturned DEF Promise!Next
<1> QED
  BY <1>1, <1>2 DEF CreateRootProcess

LEMMA ForkStep == ASSUME IInv, WaitInv, NEW p \in Pid, DoFork(p) PROVE Promise!Next
<1>1. CASE Stop("panic")
  BY <1>1, PanicStep
<1> DEFINE n == pid_current
<1>2. CASE /\ new_process(n, p)
           /\ pc' = [pc EXCEPT ![p] = "forking", ![n] = "user"]
           /\ held' = [held EXCEPT ![p] = n]
           /\ UNCHANGED unwaited
           /\ NoWaitpidReturn
  <2>1. n \in Pid /\ pc[p] = "user"
    BY DEF DoFork, Calls
  <2>2. pc[n] = "none" /\ n # p
    BY <2>1, PidNat DEF IInv, ControlInv, Numbered, Pid
  <2>3. main_thread[n] = "none" /\ main_thread[p] = "alive"
    BY <2>1, <2>2 DEF WaitInv, ThreadInv, Live
  <2>4. main_thread' = [main_thread EXCEPT ![n] = "alive"]
    BY <1>2 DEF new_process
  <2> HIDE DEF n
  <2>5. StatusOf' = [StatusOf EXCEPT ![n] = "live"]
    BY <2>1, <2>4 DEF IInv, TypeOK, StatusOf
  <2>6. ChildrenOf' = [ChildrenOf EXCEPT ![p] = @ \cup {n}]
    BY <1>2, <2>1, <2>2 DEF IInv, TypeOK, ChildrenOf
  <2>7. StatusOf[p] = "live" /\ StatusOf[n] = "absent"
    BY <2>1, <2>3 DEF StatusOf
  <2> QED
    BY <1>2, <2>1, <2>5, <2>6, <2>7, MapFork, NothingReturned DEF Promise!Next
<1> QED
  BY <1>1, <1>2 DEF DoFork

LEMMA ForkReturnStep == ASSUME IInv, WaitInv, NEW p \in Pid, ForkReturn(p) PROVE Promise!Next
<1>1. pc[p] = "forking" /\ held[p] \in proc_list
  BY DEF ForkReturn, WaitInv, HeldInv, ThreadInv
<1>2. /\ pc' = [pc EXCEPT ![p] = "user"]
      /\ held' = [held EXCEPT ![p] = NULL]
      /\ unwaited' = [unwaited EXCEPT ![p] = @ \cup {held[p]}]
      /\ UNCHANGED main_thread
      /\ NoWaitpidReturn
  BY <1>1 DEF ForkReturn
<1>3. ChildrenOf' = ChildrenOf
  BY <1>1, <1>2 DEF IInv, TypeOK, ChildrenOf
<1>4. StatusOf' = StatusOf
  BY <1>2 DEF StatusOf
<1> QED
  BY <1>2, <1>3, <1>4, MapOther, NothingReturned DEF Promise!Next

LEMMA ExecStep == ASSUME IInv, WaitInv, NEW p \in Pid, DoExecve(p) PROVE Promise!Next
<1>1. CASE Stop("panic")
  BY <1>1, PanicStep
<1>2. MigratesJoiners(p)
  BY DEF MigratesJoiners, IInv, TypeOK, ControlInv, JoinersAgree, WaitInv, HeldInv, ChildrenInv
<1>3. CASE /\ unwaited' = [unwaited EXCEPT ![p] = {}]
           /\ UNCHANGED <<main_thread, pc, held>>
           /\ NoWaitpidReturn
  <2>1. pc[p] = "user" /\ main_thread[p] = "alive"
    BY DEF DoExecve, Calls, WaitInv, ThreadInv, Live
  <2>2. ChildrenOf' = [ChildrenOf EXCEPT ![p] = {}]
    BY <1>3, <2>1 DEF IInv, TypeOK, ChildrenOf
  <2>3. StatusOf' = StatusOf /\ StatusOf[p] = "live"
    BY <1>3, <2>1 DEF StatusOf
  <2> QED
    BY <1>3, <2>2, <2>3, MapExec, NothingReturned DEF Promise!Next
<1> QED
  BY <1>1, <1>2, <1>3 DEF DoExecve

LEMMA CloseStep == ASSUME IInv, NEW p \in Pid, DoExit(p) PROVE Promise!Next
<1>1. CASE Stop("panic")
  BY <1>1, PanicStep
<1>2. CASE /\ pc' = [pc EXCEPT ![p] = "closing"]
           /\ UNCHANGED <<main_thread, held, unwaited>>
           /\ NoWaitpidReturn
  <2>1. ChildrenOf' = ChildrenOf
    BY <1>2 DEF IInv, TypeOK, ChildrenOf, DoExit, Calls
  <2> QED
    BY <1>2, <2>1, OtherStep
<1> QED
  BY <1>1, <1>2 DEF DoExit

LEMMA ExitStep == ASSUME IInv, WaitInv, NEW p \in Pid, ExitFinish(p) PROVE Promise!Next
<1>1. parent[p] \in proc_list
  BY DEF ExitFinish, IInv, ControlInv, StateAgrees, ParentExists, WaitInv, RunsInv, Live
<1>2. /\ pc[p] = "closing"
      /\ main_thread' = [main_thread EXCEPT ![p] = "zombie"]
      /\ pc' = [q \in Pid |-> IF q = p THEN "dead"
                              ELSE IF q \in joinQueue[p] THEN "woken" ELSE pc[q]]
      /\ UNCHANGED <<held, unwaited>>
      /\ NoWaitpidReturn
  BY <1>1 DEF ExitFinish, MainThreadExited
<1>3. \A q \in joinQueue[p] : q \in Pid /\ pc[q] \in {"joining", "woken"}
  BY DEF IInv, TypeOK, ControlInv, JoinersAgree
<1>4. StatusOf[p] = "live"
  BY <1>2 DEF WaitInv, ThreadInv, Live, StatusOf
<1>5. StatusOf' = [StatusOf EXCEPT ![p] = "finished"]
  BY <1>2 DEF IInv, TypeOK, StatusOf
<1>6. \A q \in Pid : pc'[q] = "forking" <=> pc[q] = "forking"
  BY <1>2, <1>3
<1>7. ChildrenOf' = ChildrenOf
  BY <1>2, <1>6 DEF IInv, TypeOK, ChildrenOf
<1> QED
  BY <1>2, <1>4, <1>5, <1>7, MapExit, NothingReturned DEF Promise!Next

LEMMA NoHangStep ==
    ASSUME AnyWait = FALSE, IInv, WaitInv, NEW p \in Pid, WaitpidNoHang(p)
    PROVE  Promise!Next
<1>1. PICK c \in unwaited[p] : state[c] # "ZOMBIE" /\ Returns(p, c, 0)
  BY DEF WaitpidNoHang, WaitTargets
<1>2. UNCHANGED <<main_thread, unwaited, pc, held>> /\ pc[p] = "user"
  BY DEF WaitpidNoHang, Calls
<1>3. c \in Pid /\ main_thread[c] = "alive" /\ main_thread[p] = "alive"
  BY <1>1, <1>2 DEF IInv, TypeOK, ControlInv, StateAgrees, WaitInv, ChildrenInv, ThreadInv,
     Waitable, Live
<1>4. StatusOf[p] = "live" /\ StatusOf[c] = "live" /\ StatusOf' = StatusOf
  BY <1>2, <1>3 DEF StatusOf
<1>5. c \in ChildrenOf[p] /\ ChildrenOf' = ChildrenOf
  BY <1>1, <1>2 DEF ChildrenOf
<1>6. Returned' = <<p, c, 0>>
  BY <1>1, WaitReturned
<1> QED
  BY <1>3, <1>4, <1>5, <1>6, MapPoll DEF Promise!Next

LEMMA JoinStep == ASSUME IInv, NEW p \in Pid, WaitpidJoin(p) PROVE Promise!Next
<1>1. ChildrenOf' = ChildrenOf
  BY DEF WaitpidJoin, Calls, IInv, TypeOK, ChildrenOf
<1> QED
  BY <1>1, OtherStep DEF WaitpidJoin

\* Both ways of completing a waitpid(), by a parent that holds or finds c.
LEMMA ReapStep ==
    ASSUME IInv, WaitInv, NEW p \in Pid, NEW c \in unwaited[p], main_thread[c] = "zombie",
           pc[p] \in {"user", "woken"}, Reap(c, {}), Returns(p, c, c),
           unwaited' = [unwaited EXCEPT ![p] = @ \ {c}],
           \A q \in Pid : pc'[q] = "forking" <=> pc[q] = "forking",
           \A q \in Pid : q # p => held'[q] = held[q]
    PROVE  Promise!Next
<1>1. c \in Pid
  BY DEF IInv, TypeOK
<1>2. main_thread' = [main_thread EXCEPT ![c] = "cleaned"]
  BY DEF Reap
<1>3. StatusOf' = [StatusOf EXCEPT ![c] = "reaped"]
  BY <1>1, <1>2 DEF IInv, TypeOK, StatusOf
<1>4. StatusOf[p] = "live" /\ StatusOf[c] = "finished"
  BY <1>1 DEF WaitInv, ThreadInv, Live, StatusOf
<1>5. c \in ChildrenOf[p] /\ ChildrenOf' = [ChildrenOf EXCEPT ![p] = @ \ {c}]
  <2>1. c \in ChildrenOf[p]
    BY DEF ChildrenOf
  <2>2. \A q \in Pid : q # p => ChildrenOf'[q] = ChildrenOf[q]
    <3>1. \A q \in Pid : q # p => unwaited'[q] = unwaited[q]
      BY DEF IInv, TypeOK
    <3> QED
      BY <3>1 DEF ChildrenOf
  <2>3. ChildrenOf'[p] = ChildrenOf[p] \ {c}
    <3>1. unwaited'[p] = unwaited[p] \ {c}
      BY DEF IInv, TypeOK
    <3>2. pc[p] # "forking" /\ pc'[p] # "forking"
      OBVIOUS
    <3> QED
      BY <3>1, <3>2 DEF ChildrenOf
  <2>4. ChildrenOf = [q \in Pid |-> ChildrenOf[q]] /\ ChildrenOf' = [q \in Pid |-> ChildrenOf'[q]]
    BY DEF ChildrenOf
  <2> QED
    BY <2>1, <2>2, <2>3, <2>4
<1>6. Returned' = <<p, c, c>>
  BY WaitReturned
<1> QED
  BY <1>1, <1>3, <1>4, <1>5, <1>6, MapWait DEF Promise!Next

LEMMA ZombieStep ==
    ASSUME AnyWait = FALSE, IInv, WaitInv, NEW p \in Pid, WaitpidZombie(p)
    PROVE  Promise!Next
<1>1. PICK c \in unwaited[p] :
        /\ main_thread[c] = "zombie"
        /\ Reap(c, {})
        /\ Returns(p, c, c)
        /\ unwaited' = [unwaited EXCEPT ![p] = @ \ {c}]
        /\ UNCHANGED <<pc, held>>
  BY WaitpidZombieReaps
<1>2. pc[p] = "user"
  BY DEF WaitpidZombie, Calls
<1> QED
  BY <1>1, <1>2, ReapStep

LEMMA ResumeStep == ASSUME IInv, WaitInv, NEW p \in Pid, WaitpidResume(p) PROVE Promise!Next
<1>1. PICK c \in unwaited[p] :
        /\ main_thread[c] = "zombie"
        /\ Reap(c, {})
        /\ Returns(p, c, c)
        /\ unwaited' = [unwaited EXCEPT ![p] = @ \ {c}]
        /\ held' = [held EXCEPT ![p] = NULL]
        /\ pc' = [pc EXCEPT ![p] = "user"]
  BY WaitpidResumeReaps
<1>2. pc[p] = "woken"
  BY DEF WaitpidResume
<1>3. /\ \A q \in Pid : pc'[q] = "forking" <=> pc[q] = "forking"
      /\ \A q \in Pid : q # p => held'[q] = held[q]
  BY <1>1, <1>2 DEF IInv, TypeOK
<1> QED
  BY <1>1, <1>2, <1>3, ReapStep

LEMMA StepMaps ==
    ASSUME AnyWait = FALSE, IInv, WaitInv, [Next]_vars
    PROVE  [Promise!Next]_Promise!treeVars
<1>1. CASE UNCHANGED vars
  <2>1. UNCHANGED <<StatusOf, ChildrenOf, Returned>>
    BY <1>1 DEF vars, procVars, StatusOf, ChildrenOf, Returned
  <2> QED
    BY <2>1 DEF Promise!treeVars, StatusOf, ChildrenOf, Returned
<1>2. CASE CreateRootProcess
  BY <1>2, BootStep
<1>3. ASSUME NEW p \in Pid,
             \/ DoFork(p) \/ ForkReturn(p) \/ DoExecve(p) \/ DoExit(p) \/ ExitFinish(p)
             \/ WaitpidNoChild(p) \/ WaitpidNoHang(p)
             \/ WaitpidZombie(p) \/ WaitpidJoin(p) \/ WaitpidResume(p)
      PROVE  Promise!Next
  BY <1>3, ForkStep, ForkReturnStep, ExecStep, CloseStep, ExitStep, NoLostChild, NoHangStep,
     ZombieStep, JoinStep, ResumeStep
<1> QED
  BY <1>1, <1>2, <1>3 DEF Next, Halted

\* fork(), execve(), exit() and waitpid() are those of ForkWait: a child is
\* given once, to the process that forked it, after it has finished.
THEOREM RefinesForkWait == ASSUME AnyWait = FALSE PROVE Spec => ImplementsForkWait
<1>1. Init => Promise!Init
  <2> SUFFICES ASSUME Init PROVE Promise!Init
    OBVIOUS
  <2>1. StatusOf = [p \in Pid |-> "absent"]
    BY DEF Init, StatusOf
  <2>2. ChildrenOf = [p \in Pid |-> {}]
    BY DEF Init, ChildrenOf
  <2>3. Returned = <<>>
    BY DEF Init, NoReturn, Returned
  <2> QED
    BY <2>1, <2>2, <2>3, MapInit
<1>2. IInv /\ WaitInv /\ [Next]_vars => [Promise!Next]_Promise!treeVars
  BY StepMaps
<1> QED
  BY <1>1, <1>2, WaitInductive, PTL DEF Spec, ImplementsForkWait, Promise!Spec
=============================================================================
