------------------------------ MODULE MCSyscalls -------------------------------
(* Three threads, two of them in one process, two executables. *)
EXTENDS Syscalls, TLC

CONSTANTS t1, t2, t3, p1, p2, sh, ls

MCPcb == t1 :> p1 @@ t2 :> p1 @@ t3 :> p2
MCErrno == sh :> 1 @@ ls :> 2
MCIncrements == {-2, 2, 7}

MCProcName == <<7>>
MCStrings == {<<>>, <<1>>, <<2, 3>>}
MCArgLists == UNION {[1 .. n -> MCStrings] : n \in 0 .. 3}
MCEnvLists == {[given |-> FALSE, strings |-> <<>>]}
              \cup {[given |-> TRUE, strings |-> s] : s \in UNION {[1 .. n -> {<<>>, <<4, 5>>}] : n \in 0 .. 2}}
\* The two threads of p1 are alike.
MCSymmetry == Permutations({t1, t2})
=============================================================================
