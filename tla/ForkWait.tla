------------------------------ MODULE ForkWait ------------------------------
(***************************************************************************)
(* What fork(), execve(), exit() and waitpid() promise to programs that    *)
(* wait for their own children: a child lives, finishes, and is waited for *)
(* once, by the process that forked it.                                    *)
(***************************************************************************)
EXTENDS Naturals

CONSTANT Pid

VARIABLES
    status,    \* "absent", "live", "finished" or "reaped"
    children,  \* the children each process may still wait for
    returned   \* what the last step returned from a wait, <<>> if it did not:
               \* the caller, the child asked for, and its pid or 0

treeVars == <<status, children, returned>>

Init ==
    /\ status = [p \in Pid |-> "absent"]
    /\ children = [p \in Pid |-> {}]
    /\ returned = <<>>

\* The first process has no parent.
Boot(p) ==
    /\ \A q \in Pid : status[q] = "absent"
    /\ status' = [status EXCEPT ![p] = "live"]
    /\ UNCHANGED children
    /\ returned' = <<>>

Fork(p, c) ==
    /\ status[p] = "live"
    /\ status[c] = "absent"
    /\ status' = [status EXCEPT ![c] = "live"]
    /\ children' = [children EXCEPT ![p] = @ \cup {c}]
    /\ returned' = <<>>

\* A new program knows no child.
Exec(p) ==
    /\ status[p] = "live"
    /\ children' = [children EXCEPT ![p] = {}]
    /\ UNCHANGED status
    /\ returned' = <<>>

Exit(p) ==
    /\ status[p] = "live"
    /\ status' = [status EXCEPT ![p] = "finished"]
    /\ UNCHANGED children
    /\ returned' = <<>>

Wait(p, c) ==
    /\ status[p] = "live"
    /\ c \in children[p]
    /\ status[c] = "finished"
    /\ status' = [status EXCEPT ![c] = "reaped"]
    /\ children' = [children EXCEPT ![p] = @ \ {c}]
    /\ returned' = <<p, c, c>>

\* With WNOHANG, 0 says that the child has not finished.
Poll(p, c) ==
    /\ status[p] = "live"
    /\ c \in children[p]
    /\ status[c] = "live"
    /\ returned' = <<p, c, 0>>
    /\ UNCHANGED <<status, children>>

\* What programs do between their system calls, or inside them.
Other == returned' = <<>> /\ UNCHANGED <<status, children>>

Next ==
    \/ \E p \in Pid :
        \/ Boot(p) \/ Exec(p) \/ Exit(p)
        \/ \E c \in Pid : Fork(p, c) \/ Wait(p, c) \/ Poll(p, c)
    \/ Other

Spec == Init /\ [][Next]_treeVars
=============================================================================
