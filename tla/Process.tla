-------------------------------- MODULE Process --------------------------------
(***************************************************************************)
(* The life of the processes of SO3: create_root_process, fork, execve,    *)
(* exit and waitpid of so3/kernel/process.c.                               *)
(*                                                                         *)
(* A PCB is identified by its pid: new_process() numbers the PCBs with     *)
(* pid_current and never reuses a number, and list_add_tail() keeps        *)
(* proc_list sorted by pid, so the first match of a list walk is the       *)
(* smallest pid.  What runs with the IRQs off is one step; a process may   *)
(* be preempted wherever they are on, and these places are the values of   *)
(* pc.  The thread layer (user_thread, thread_join, thread_exit) is not in *)
(* the repository and is modelled from its use.                            *)
(*                                                                         *)
(* Only main threads are modelled; the ptrace stops and the delivery of    *)
(* signals are not.                                                        *)
(***************************************************************************)
EXTENDS PageFrames, Integers

CONSTANTS
    RootStackPages,  \* pages of the stack of the root process
    ImageSizes,      \* numbers of pages an executable may need
    AnyWait          \* TRUE: waitpid() on any pid or on -1;
                     \* FALSE: only on a child forked and not waited for yet

ASSUME ProcessAssumption ==
    /\ RootStackPages \in Nat
    /\ ImageSizes \subseteq Nat
    /\ AnyWait \in BOOLEAN

NULL == 0   \* the NULL pcb_t *, which no pid equals

VARIABLES
    pid_current,  \* the next pid
    proc_list,    \* the PCBs in the list, hence allocated
    state,        \* pcb->state, where READY stands for every live state
    parent,       \* pcb->parent
    main_thread,  \* "none", "alive", "zombie", or "cleaned" (a NULL pointer)
    joinQueue,    \* processes in the join queue of the main thread
    pc,           \* where the main thread is
    held,         \* the PCB a local variable of a suspended system call holds
    unwaited,     \* the children the program forked and has not waited for
    waitpid_ret,  \* the waitpid() that the last step completed, if any
    kernel        \* "boot", "running", or why it no longer runs

procVars == <<pid_current, proc_list, state, parent, main_thread, joinQueue,
              pc, held, unwaited, waitpid_ret, kernel>>
vars == <<frameVars, procVars>>

Location == {"none", "user", "forking", "closing", "joining", "woken", "dead"}
KernelState == {"boot", "running", "panic", "assert", "invalid"}

\* Types of the variables of this module.
TypeOK ==
    /\ FramesTypeOK
    /\ pid_current \in 1 .. MaxPid + 1
    /\ proc_list \in SUBSET Pid
    /\ state \in [Pid -> {"NEW", "READY", "ZOMBIE"}]
    /\ parent \in [Pid -> Pid \cup {NULL}]
    /\ main_thread \in [Pid -> {"none", "alive", "zombie", "cleaned"}]
    /\ joinQueue \in [Pid -> SUBSET Pid]
    /\ pc \in [Pid -> Location]
    /\ held \in [Pid -> Pid \cup {NULL}]
    /\ unwaited \in [Pid -> SUBSET Pid]
    /\ waitpid_ret \in [proc : Pid \cup {NULL}, pid : Int, val : Int]
    /\ kernel \in KernelState

NoReturn == [proc |-> NULL, pid |-> 0, val |-> 0]

Init ==
    /\ FramesInit
    /\ pid_current = 1
    /\ proc_list = {}
    /\ state = [p \in Pid |-> "NEW"]
    /\ parent = [p \in Pid |-> NULL]
    /\ main_thread = [p \in Pid |-> "none"]
    /\ joinQueue = [p \in Pid |-> {}]
    /\ pc = [p \in Pid |-> "none"]
    /\ held = [p \in Pid |-> NULL]
    /\ unwaited = [p \in Pid |-> {}]
    /\ waitpid_ret = NoReturn
    /\ kernel = "boot"

-----------------------------------------------------------------------------
\* Helpers

\* What a step that completes no waitpid() leaves in waitpid_ret.
NoWaitpidReturn == waitpid_ret' = NoReturn

\* kernel_panic(), a failed ASSERT or an access through a NULL or freed
\* pointer: nothing is said of what follows, the model stops there.
Stop(why) ==
    /\ kernel' = why
    /\ UNCHANGED <<frameVars, pid_current, proc_list, state, parent, main_thread,
                   joinQueue, pc, held, unwaited>>
    /\ NoWaitpidReturn

find_proc_zombie_to_clean ==
    {p \in proc_list : state[p] = "ZOMBIE" /\ main_thread[p] # "cleaned"}

\* Mutant: the PCB is removed whether or not it has children.
find_no_child(p) == {}

find_proc_by_parent(p) == {c \in proc_list : parent[c] = p}

\* The main thread of p runs in user space and makes a system call.
Calls(p) == kernel = "running" /\ pc[p] = "user"

\* new_process() and the starting of its main thread, with the given parent.
new_process(p, par) ==
    /\ pid_current' = pid_current + 1
    /\ proc_list' = proc_list \cup {p}
    /\ parent' = [parent EXCEPT ![p] = par]
    /\ state' = [state EXCEPT ![p] = "READY"]
    /\ main_thread' = [main_thread EXCEPT ![p] = "alive"]

\* Mutant: the page table of the zombie is not freed.
ReapKeepsTable(c, queue) ==
    /\ UNCHANGED frameVars
    /\ joinQueue' = [joinQueue EXCEPT ![c] = queue]
    /\ main_thread' = [main_thread EXCEPT ![c] = IF queue = {} THEN "cleaned" ELSE @]
    /\ proc_list' = IF find_proc_by_parent(c) = {} THEN proc_list \ {c} ELSE proc_list

\* Mutant: remove_proc() is never called.
ReapKeepsPcb(c, queue) ==
    /\ FreeRootPgtable(c)
    /\ joinQueue' = [joinQueue EXCEPT ![c] = queue]
    /\ main_thread' = [main_thread EXCEPT ![c] = IF queue = {} THEN "cleaned" ELSE @]
    /\ UNCHANGED proc_list

\* What is done to the joined zombie c: page table freed, thread cleaned by the
\* last of its joiners (queue holds the others), PCB removed if no process
\* names it as its parent.
Reap(c, queue) ==
    /\ FreeRootPgtable(c)
    /\ joinQueue' = [joinQueue EXCEPT ![c] = queue]
    /\ main_thread' = [main_thread EXCEPT ![c] = IF queue = {} THEN "cleaned" ELSE @]
    /\ proc_list' = IF find_proc_by_parent(c) = {} THEN proc_list \ {c} ELSE proc_list

-----------------------------------------------------------------------------
\* Boot

CreateRootProcess ==
    /\ kernel = "boot"
    /\ \/ \E S \in get_free_pages(RootStackPages, freeFrames) :
            /\ CreateUserSpace(pid_current, S, KernelFrame)
            /\ new_process(pid_current, NULL)
            /\ pc' = [pc EXCEPT ![pid_current] = "user"]
            /\ kernel' = "running"
            /\ UNCHANGED <<joinQueue, held, unwaited>>
            /\ NoWaitpidReturn
       \/ /\ get_free_pages(RootStackPages, freeFrames) = {}
          /\ Stop("panic")

-----------------------------------------------------------------------------
\* fork() and fork2()

\* Up to local_irq_restore(): the child can run before the parent reads its pid.
DoFork(p) ==
    /\ Calls(p)
    /\ pid_current \in Pid   \* bound: the code creates up to 2^32 processes
    /\ \/ \E S \in SUBSET freeFrames :
            /\ DuplicateUserSpace(p, pid_current, S)
            /\ new_process(pid_current, p)
            /\ pc' = [pc EXCEPT ![p] = "forking", ![pid_current] = "user"]
            /\ held' = [held EXCEPT ![p] = pid_current]
            /\ UNCHANGED <<joinQueue, unwaited, kernel>>
            /\ NoWaitpidReturn
       \/ /\ get_free_pages(Cardinality(pgtable[p]), freeFrames) = {}
          /\ Stop("panic")

\* return newp->pid, with the IRQs on.
ForkReturn(p) ==
    /\ kernel = "running"
    /\ pc[p] = "forking"
    /\ IF held[p] \in proc_list
       THEN /\ pc' = [pc EXCEPT ![p] = "user"]
            /\ held' = [held EXCEPT ![p] = NULL]
            /\ unwaited' = [unwaited EXCEPT ![p] = @ \cup {held[p]}]
            /\ UNCHANGED <<frameVars, pid_current, proc_list, state, parent, main_thread,
                           joinQueue, kernel>>
            /\ NoWaitpidReturn
       ELSE Stop("invalid")

-----------------------------------------------------------------------------
\* execve()

\* The thread waiting on the old main thread is moved to the queue of the new
\* one: a single one, that of the parent, as the two ASSERTs demand.
MigratesJoiners(p) == joinQueue[p] \subseteq {parent[p]}

\* Mutant: the entry is taken off the old queue and put on none.
LostQueue(p) == {}

\* The queue of the new main thread.
MigratedQueue(p) == joinQueue[p]

\* Mutant: no migration; thread_exit() of the old main thread wakes its joiners.
DoExecveWakes(p) ==
    /\ Calls(p)
    /\ \E n \in ImageSizes : ReplaceUserSpace(p, n)
    /\ unwaited' = [unwaited EXCEPT ![p] = {}]
    /\ pc' = [q \in Pid |-> IF q \in joinQueue[p] THEN "woken" ELSE pc[q]]
    /\ UNCHANGED <<pid_current, proc_list, state, parent, main_thread, joinQueue, held, kernel>>
    /\ NoWaitpidReturn

\* An ENOENT failure leaves everything as it was, and is not a step.
DoExecve(p) ==
    /\ Calls(p)
    /\ \E n \in ImageSizes :
         IF get_free_pages(n, freeFrames \cup Released(p)) = {}
         THEN Stop("panic")
         ELSE IF ~MigratesJoiners(p)
         THEN Stop("assert")
         ELSE /\ ReplaceUserSpace(p, n)
              /\ joinQueue' = [joinQueue EXCEPT ![p] = MigratedQueue(p)]
              /\ unwaited' = [unwaited EXCEPT ![p] = {}]
              /\ UNCHANGED <<pid_current, proc_list, state, parent, main_thread, pc, held,
                             kernel>>
              /\ NoWaitpidReturn

-----------------------------------------------------------------------------
\* exit()

\* The file descriptors are closed with the IRQs on.
DoExit(p) ==
    /\ Calls(p)
    /\ IF parent[p] = NULL
       THEN Stop("panic")
       ELSE /\ pc' = [pc EXCEPT ![p] = "closing"]
            /\ UNCHANGED <<frameVars, pid_current, proc_list, state, parent, main_thread,
                           joinQueue, held, unwaited, kernel>>
            /\ NoWaitpidReturn

\* Mutant: the thread is cleaned at once.
ThreadCleaned == "cleaned"

\* What thread_exit() makes of the main thread, to be joined by waitpid().
MainThreadExited == "zombie"

\* The rest runs with the IRQs off, up to thread_exit(), which wakes up the
\* threads of the join queue.  SIGCHLD is sent through pcb->parent.
ExitFinish(p) ==
    /\ kernel = "running"
    /\ pc[p] = "closing"
    /\ IF parent[p] \in proc_list
       THEN /\ state' = [state EXCEPT ![p] = "ZOMBIE"]
            /\ release_proc_pages(p)
            /\ main_thread' = [main_thread EXCEPT ![p] = MainThreadExited]
            /\ pc' = [q \in Pid |-> IF q = p THEN "dead"
                                    ELSE IF q \in joinQueue[p] THEN "woken" ELSE pc[q]]
            /\ UNCHANGED <<pid_current, proc_list, parent, joinQueue, held, unwaited,
                           kernel>>
            /\ NoWaitpidReturn
       ELSE Stop("invalid")

-----------------------------------------------------------------------------
\* waitpid()

\* The pids the program of p may pass; -1 asks for any finished process.
WaitTargets(p) == IF AnyWait THEN Pid \cup {-1} ELSE unwaited[p]

Returns(p, pid, val) == waitpid_ret' = [proc |-> p, pid |-> pid, val |-> val]

\* ECHILD: nothing is changed.
WaitpidNoChild(p) ==
    /\ Calls(p)
    /\ \E pid \in WaitTargets(p) :
         /\ IF pid = -1 THEN find_proc_zombie_to_clean = {} ELSE pid \notin proc_list
         /\ Returns(p, pid, -1)
    /\ UNCHANGED <<frameVars, pid_current, proc_list, state, parent, main_thread, joinQueue,
                   pc, held, unwaited, kernel>>

\* WNOHANG, and the process is not a zombie.
WaitpidNoHang(p) ==
    /\ Calls(p)
    /\ \E pid \in WaitTargets(p) \cap proc_list :
         /\ state[pid] # "ZOMBIE"
         /\ Returns(p, pid, 0)
    /\ UNCHANGED <<frameVars, pid_current, proc_list, state, parent, main_thread, joinQueue,
                   pc, held, unwaited, kernel>>

\* waitpid() of p on pid, where the process found is c.
Finds(p, pid, c) ==
    \/ pid = -1 /\ c \in find_proc_zombie_to_clean
                /\ c = Min(find_proc_zombie_to_clean)
    \/ pid \in proc_list /\ c = pid

\* The process has finished: thread_join() returns at once and it is reaped.
\* Of a process already cleaned, what is followed is NULL or freed.
WaitpidZombie(p) ==
    /\ Calls(p)
    /\ \E pid \in WaitTargets(p), c \in proc_list :
         /\ Finds(p, pid, c)
         /\ \/ /\ main_thread[c] = "zombie" /\ c \in tables
               /\ Reap(c, joinQueue[c])
               /\ Returns(p, pid, c)
               /\ unwaited' = [unwaited EXCEPT ![p] = @ \ {c}]
               /\ UNCHANGED <<pid_current, state, parent, pc, held, kernel>>
            \/ /\ main_thread[c] = "cleaned" \/ (main_thread[c] = "zombie" /\ c \notin tables)
               /\ Stop("invalid")

\* The process is alive: the caller enters the join queue of its main thread.
WaitpidJoin(p) ==
    /\ Calls(p)
    /\ \E c \in WaitTargets(p) \cap proc_list :
         /\ main_thread[c] = "alive"
         /\ joinQueue' = [joinQueue EXCEPT ![c] = @ \cup {p}]
         /\ held' = [held EXCEPT ![p] = c]
         /\ pc' = [pc EXCEPT ![p] = "joining"]
    /\ UNCHANGED <<frameVars, pid_current, proc_list, state, parent, main_thread, unwaited,
                   kernel>>
    /\ NoWaitpidReturn

\* Back from thread_join().  Whatever the state of the child, the code frees its
\* page table, and its PCB; both must still be there.
WaitpidResume(p) ==
    /\ kernel = "running"
    /\ pc[p] = "woken"
    /\ LET c == held[p] IN
         IF c \in proc_list /\ c \in tables
         THEN /\ Reap(c, joinQueue[c] \ {p})
              /\ Returns(p, c, c)
              /\ unwaited' = [unwaited EXCEPT ![p] = @ \ {c}]
              /\ held' = [held EXCEPT ![p] = NULL]
              /\ pc' = [pc EXCEPT ![p] = "user"]
              /\ UNCHANGED <<pid_current, state, parent, kernel>>
         ELSE Stop("invalid")

-----------------------------------------------------------------------------

\* The system no longer runs.
Halted == kernel \notin {"boot", "running"} /\ UNCHANGED vars

Next ==
    \/ CreateRootProcess
    \/ \E p \in Pid :
        \/ DoFork(p) \/ ForkReturn(p)
        \/ DoExecve(p)
        \/ DoExit(p) \/ ExitFinish(p)
        \/ WaitpidNoChild(p) \/ WaitpidNoHang(p)
        \/ WaitpidZombie(p) \/ WaitpidJoin(p) \/ WaitpidResume(p)
    \/ Halted

Spec == Init /\ [][Next]_vars

\* The scheduler is preemptive and round robin: a system call that can proceed
\* does.  What programs call, and when, is up to them.
Fairness == \A p \in Pid : WF_vars(ForkReturn(p) \/ ExitFinish(p) \/ WaitpidResume(p))

FairSpec == Spec /\ Fairness

-----------------------------------------------------------------------------
\* Properties

Live == {"user", "forking", "closing", "joining", "woken"}

\* No PCB of the list names a freed PCB as its parent: do_waitpid() removes a
\* process only if find_proc_by_parent() finds no child, so that do_exit() of
\* the child can follow pcb->parent to send SIGCHLD.
ParentExists == \A p \in proc_list : parent[p] # NULL => parent[p] \in proc_list

\* A process that can still run has a page table, and maps no frame it does not
\* own, but for the kernel image, which only the root process maps.  Zombies
\* keep mappings of frames given back; they must never run on them.
LiveMappingsOwned ==
    \A p \in Pid : pc[p] \in Live =>
        /\ p \in tables
        /\ pgtable[p] \cap Frame \subseteq page_list[p]
        /\ pgtable[p] \cap KernelFrame # {} => parent[p] = NULL

\* Nothing is left behind: a dead process owns no page, and a process out of the
\* list no page table either.
NothingLeaked ==
    /\ \A p \in Pid : pc[p] \in {"none", "dead"} => page_list[p] = {}
    /\ tables \subseteq proc_list

\* The PCB a suspended fork() or waitpid() holds in a local variable is neither
\* freed nor stripped of its page table before the call goes on.
HeldPcbIntact ==
    \A p \in Pid : held[p] # NULL => held[p] \in proc_list \cap tables

\* A child its parent has forked and not waited for can still be waited for.
ChildrenWaitable ==
    \A p \in Pid : pc[p] \in Live =>
        \A c \in unwaited[p] : c \in proc_list /\ main_thread[c] # "cleaned"

\* A page table is freed only when its process has finished: a waitpid() that
\* comes back too early would free it under a running process, since the code
\* after thread_join() does so in both branches.
ReapsOnlyFinished ==
    [][\A c \in tables : c \notin tables' => state[c] = "ZOMBIE" /\ pc[c] = "dead"]_vars

\* The ASSERTs of do_execve() on the join queue hold, and no system call follows
\* a NULL or freed pointer.
AssertsHold == kernel \notin {"assert", "invalid"}

\* A PCB that was cleaned and is still in the list has children in it: the only
\* reason find_proc_zombie_to_clean() and do_waitpid() give for keeping it.
CleanedPcbHasChildren ==
    \A p \in proc_list : main_thread[p] = "cleaned" => find_proc_by_parent(p) # {}

\* A process blocked in waitpid() goes on once the process it waits for leaves,
\* also when that process has called execve() meanwhile and left by another
\* main thread.
JoinReturns ==
    \A p, c \in Pid :
        (pc[p] \in {"joining", "woken"} /\ held[p] = c /\ pc[c] = "closing")
            ~> (pc[p] = "user" \/ kernel # "running")

\* The abstract view: a tree of processes, each finished, then waited for once.
Promise == INSTANCE ForkWait WITH
    status <- [p \in Pid |-> CASE main_thread[p] = "none" -> "absent"
                               [] main_thread[p] = "alive" -> "live"
                               [] main_thread[p] = "zombie" -> "finished"
                               [] main_thread[p] = "cleaned" -> "reaped"],
    children <- [p \in Pid |-> unwaited[p] \cup
                               (IF pc[p] = "forking" THEN {held[p]} ELSE {})],
    returned <- IF waitpid_ret.proc = NULL THEN <<>>
                ELSE <<waitpid_ret.proc, waitpid_ret.pid, waitpid_ret.val>>

\* fork(), exit() and waitpid(), and what waitpid() returns, are those of
\* ForkWait, whatever the suspended calls, the shared PCB list and the frames do
\* in between: do_waitpid() answers 0 only for a child that still runs, and
\* gives each child once, to the process that forked it.
ImplementsForkWait == Promise!Spec
=============================================================================
