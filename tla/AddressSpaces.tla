----------------------------- MODULE AddressSpaces -----------------------------
(***************************************************************************)
(* What the page tables of SO3 promise to the user programs: every process *)
(* has a memory of its own, which it alone writes, which fork() copies,    *)
(* and which is gone once it ends.                                         *)
(***************************************************************************)
CONSTANTS
    Proc,      \* the processes, one per root page table
    UserPage,  \* the virtual pages of the user space
    Data,      \* what a page may contain
    NoData     \* stands for a page that is not mapped

VARIABLES
    alive,     \* the processes that can access their memory
    space      \* what each page of each process contains

vars == <<alive, space>>

Nothing == [v \in UserPage |-> NoData]
Image == [UserPage -> Data \cup {NoData}]

Init ==
    /\ alive = {}
    /\ space = [p \in Proc |-> Nothing]

Start(p) ==
    /\ alive = {}
    /\ alive' = {p}
    /\ space'[p] \in Image
    /\ space' = [space EXCEPT ![p] = space'[p]]

Fork(p, q) ==
    /\ p \in alive /\ q \notin alive
    /\ alive' = alive \cup {q}
    /\ space' = [space EXCEPT ![q] = space[p]]

Exec(p) ==
    /\ p \in alive
    /\ space'[p] \in Image
    /\ space' = [space EXCEPT ![p] = space'[p]]
    /\ UNCHANGED alive

Write(p, v, d) ==
    /\ p \in alive
    /\ space[p][v] # NoData
    /\ space' = [space EXCEPT ![p][v] = d]
    /\ UNCHANGED alive

Exit(p) ==
    /\ p \in alive
    /\ alive' = alive \ {p}
    /\ space' = [space EXCEPT ![p] = Nothing]

Next ==
    \E p \in Proc :
        \/ Start(p) \/ Exec(p) \/ Exit(p)
        \/ \E q \in Proc : Fork(p, q)
        \/ \E v \in UserPage, d \in Data : Write(p, v, d)

Spec == Init /\ [][Next]_vars
=============================================================================
