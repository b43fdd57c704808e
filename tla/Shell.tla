--------------------------------- MODULE Shell ---------------------------------
(***************************************************************************)
(* The shell of lab 01, usr/src/sh.c: commands in the foreground, in the   *)
(* background and in a pipeline of two programs.                           *)
(*                                                                         *)
(* The job of a command is a child of the shell; for a | b the child forks *)
(* child2 and they run b and a.  The kernel calls are modelled from their  *)
(* use here: a pipe ends for its reader once no process holds its write    *)
(* side, and a process that writes to a pipe without reader is killed.     *)
(* The programs are outside: the one on the left writes MaxWrites times,   *)
(* the one on the right reads to the end of the file, or stops before.     *)
(* The built-in commands other than exit do not touch this state and are   *)
(* left out, like the splitting of the line into tokens and the message of *)
(* a failed execv().                                                       *)
(***************************************************************************)
EXTENDS Naturals

CONSTANTS
    MaxJobs,        \* bound: the commands the user launches
    MaxWrites,      \* bound: the writes of a program to its pipe
    PipeCapacity,   \* the writes a pipe can hold
    RootShell       \* whether this is the shell with pid 1

ASSUME ShellAssumption ==
    /\ MaxJobs \in Nat /\ MaxWrites \in Nat /\ PipeCapacity \in Nat \ {0}
    /\ RootShell \in BOOLEAN

Job == 1 .. MaxJobs

VARIABLES
    sh,          \* where the shell is
    jobs,        \* the jobs launched so far; the last one is the current one
    pipe_on,     \* whether each job is a pipeline
    background,  \* whether each job was launched with &
    child,       \* where the child of each job is: b in a pipeline
    child2,      \* where the other process of a pipeline is: a
    writers,     \* the processes holding the write side of the pipe of the job
    readers,     \* the processes holding its read side
    buffered,    \* the writes in the pipe
    written      \* the writes made to the pipe

jobVars == <<jobs, pipe_on, background>>
pipeVars == <<writers, readers, buffered, written>>
shellVars == <<sh, jobVars, child, child2, pipeVars>>

ShellTypeOK ==
    /\ sh \in {"prompt", "parent", "waiting", "exited"}
    /\ jobs \in 0 .. MaxJobs
    /\ pipe_on \in [Job -> BOOLEAN] /\ background \in [Job -> BOOLEAN]
    /\ child \in [Job -> {"absent", "start", "fork", "close", "exec", "program", "zombie", "reaped"}]
    /\ child2 \in [Job -> {"absent", "close", "exec", "program", "zombie"}]
    /\ writers \in [Job -> SUBSET {"child", "child2"}]
    /\ readers \in [Job -> SUBSET {"child", "child2"}]
    /\ buffered \in [Job -> 0 .. PipeCapacity]
    /\ written \in [Job -> 0 .. MaxWrites]

ShellInit ==
    /\ sh = "prompt" /\ jobs = 0
    /\ pipe_on = [j \in Job |-> FALSE] /\ background = [j \in Job |-> FALSE]
    /\ child = [j \in Job |-> "absent"] /\ child2 = [j \in Job |-> "absent"]
    /\ writers = [j \in Job |-> {}] /\ readers = [j \in Job |-> {}]
    /\ buffered = [j \in Job |-> 0] /\ written = [j \in Job |-> 0]

-----------------------------------------------------------------------------
\* The shell

\* A command is read, and the child that will execute it forked.
Launch ==
    /\ sh = "prompt" /\ jobs < MaxJobs
    /\ jobs' = jobs + 1
    /\ \E p, b \in BOOLEAN : /\ pipe_on' = [pipe_on EXCEPT ![jobs'] = p]
                             /\ background' = [background EXCEPT ![jobs'] = b]
    /\ child' = [child EXCEPT ![jobs'] = "start"]
    /\ sh' = "parent"
    /\ UNCHANGED <<child2, pipeVars>>

\* Back from fork(): the shell waits for a command in the foreground only.
Parent ==
    /\ sh = "parent"
    /\ sh' = IF background[jobs] THEN "prompt" ELSE "waiting"
    /\ UNCHANGED <<jobVars, child, child2, pipeVars>>

\* waitpid() returns.
Waited ==
    /\ sh = "waiting"
    /\ child[jobs] = "zombie"
    /\ child' = [child EXCEPT ![jobs] = "reaped"]
    /\ sh' = "prompt"
    /\ UNCHANGED <<jobVars, child2, pipeVars>>

\* The command exit, which the root shell refuses.
Exit ==
    /\ sh = "prompt"
    /\ sh' = IF RootShell THEN "prompt" ELSE "exited"
    /\ UNCHANGED <<jobVars, child, child2, pipeVars>>

-----------------------------------------------------------------------------
\* The child

\* exit(), called or suffered: the descriptors are closed.
ChildExits(j) ==
    /\ child' = [child EXCEPT ![j] = "zombie"]
    /\ writers' = [writers EXCEPT ![j] = @ \ {"child"}]
    /\ readers' = [readers EXCEPT ![j] = @ \ {"child"}]
    /\ UNCHANGED <<sh, jobVars, child2, buffered, written>>

\* pipe(), if the command is a pipeline.
Start(j) ==
    /\ child[j] = "start"
    /\ IF pipe_on[j]
       THEN /\ child' = [child EXCEPT ![j] = "fork"]
            /\ writers' = [writers EXCEPT ![j] = {"child"}]
            /\ readers' = [readers EXCEPT ![j] = {"child"}]
       ELSE /\ child' = [child EXCEPT ![j] = "exec"]
            /\ UNCHANGED <<writers, readers>>
    /\ UNCHANGED <<sh, jobVars, child2, buffered, written>>

\* The second fork(): child2 has the descriptors its parent has.
Fork(j) ==
    /\ child[j] = "fork"
    /\ child' = [child EXCEPT ![j] = "close"]
    /\ child2' = [child2 EXCEPT ![j] = "close"]
    /\ writers' = [writers EXCEPT ![j] = @ \cup (IF "child" \in @ THEN {"child2"} ELSE {})]
    /\ readers' = [readers EXCEPT ![j] = @ \cup (IF "child" \in @ THEN {"child2"} ELSE {})]
    /\ UNCHANGED <<sh, jobVars, buffered, written>>

\* Mutant: the side not used stays open.
ChildKeepsWriteSide(j) ==
    /\ child[j] = "close"
    /\ child' = [child EXCEPT ![j] = "exec"]
    /\ UNCHANGED <<sh, jobVars, child2, pipeVars>>

\* close(pipe_fd[1]), and the read side becomes the standard input.
ChildCloses(j) ==
    /\ child[j] = "close"
    /\ child' = [child EXCEPT ![j] = "exec"]
    /\ writers' = [writers EXCEPT ![j] = @ \ {"child"}]
    /\ UNCHANGED <<sh, jobVars, child2, readers, buffered, written>>

\* execv(): the program, or exit() if it is not found.
ChildExec(j) ==
    /\ child[j] = "exec"
    /\ \/ /\ child' = [child EXCEPT ![j] = "program"]
          /\ UNCHANGED <<sh, jobVars, child2, pipeVars>>
       \/ ChildExits(j)

-----------------------------------------------------------------------------
\* child2

\* Mutant: the side not used stays open.
Child2KeepsReadSide(j) ==
    /\ child2[j] = "close"
    /\ child2' = [child2 EXCEPT ![j] = "exec"]
    /\ UNCHANGED <<sh, jobVars, child, pipeVars>>

\* close(pipe_fd[0]), and the write side becomes the standard output.
Child2Closes(j) ==
    /\ child2[j] = "close"
    /\ child2' = [child2 EXCEPT ![j] = "exec"]
    /\ readers' = [readers EXCEPT ![j] = @ \ {"child2"}]
    /\ UNCHANGED <<sh, jobVars, child, writers, buffered, written>>

Child2Exits(j) ==
    /\ child2' = [child2 EXCEPT ![j] = "zombie"]
    /\ writers' = [writers EXCEPT ![j] = @ \ {"child2"}]
    /\ readers' = [readers EXCEPT ![j] = @ \ {"child2"}]
    /\ UNCHANGED <<sh, jobVars, child, buffered, written>>

Child2Exec(j) ==
    /\ child2[j] = "exec"
    /\ \/ /\ child2' = [child2 EXCEPT ![j] = "program"]
          /\ UNCHANGED <<sh, jobVars, child, pipeVars>>
       \/ Child2Exits(j)

-----------------------------------------------------------------------------
\* The programs

\* The program on the left writes, and is killed when nobody can read.
ProgramWrites(j) ==
    /\ child2[j] = "program"
    /\ written[j] < MaxWrites
    /\ IF readers[j] = {}
       THEN Child2Exits(j)
       ELSE /\ buffered[j] < PipeCapacity
            /\ buffered' = [buffered EXCEPT ![j] = @ + 1]
            /\ written' = [written EXCEPT ![j] = @ + 1]
            /\ UNCHANGED <<sh, jobVars, child, child2, writers, readers>>

\* It ends when it has written all it had to.
LeftEnds(j) ==
    /\ child2[j] = "program"
    /\ written[j] = MaxWrites
    /\ Child2Exits(j)

ProgramReads(j) ==
    /\ child[j] = "program" /\ pipe_on[j]
    /\ buffered[j] > 0
    /\ buffered' = [buffered EXCEPT ![j] = @ - 1]
    /\ UNCHANGED <<sh, jobVars, child, child2, writers, readers, written>>

\* End of file on the standard input; a program alone ends by itself.
RightEnds(j) ==
    /\ child[j] = "program"
    /\ pipe_on[j] => buffered[j] = 0 /\ writers[j] = {}
    /\ ChildExits(j)

\* A program may also end without having read everything.
RightEndsEarly(j) ==
    /\ child[j] = "program" /\ pipe_on[j]
    /\ ChildExits(j)

-----------------------------------------------------------------------------

Code(j) ==
    \/ Start(j) \/ Fork(j) \/ ChildCloses(j) \/ ChildExec(j)
    \/ ProgramReads(j) \/ RightEnds(j)

Code2(j) == Child2Closes(j) \/ Child2Exec(j) \/ ProgramWrites(j) \/ LeftEnds(j)

ShellNext ==
    \/ Launch \/ Parent \/ Waited \/ Exit
    \/ \E j \in Job : Code(j) \/ Code2(j) \/ RightEndsEarly(j)

ShellSpec == ShellInit /\ [][ShellNext]_shellVars

\* Every process is scheduled; programs read what there is and end in the end.
\* The user may stop typing.
ShellFairness ==
    /\ WF_shellVars(Parent \/ Waited)
    /\ \A j \in Job : WF_shellVars(Code(j)) /\ WF_shellVars(Code2(j))

ShellFairSpec == ShellSpec /\ ShellFairness

-----------------------------------------------------------------------------
\* Properties

\* When a program of a pipeline runs, its process no longer holds the side of the
\* pipe it does not use: this is what lets the reader see the end of the file, and
\* the writer be told that nobody reads.  The processes close their sides
\* independently, before or after the other one runs or ends.
SidesSettled ==
    \A j \in Job :
        /\ child[j] = "program" /\ pipe_on[j] => "child" \notin writers[j]
        /\ child2[j] = "program" => "child2" \notin readers[j]

\* The prompt comes back after every command, though the programs of a pipeline
\* wait for each other through a pipe of bounded size.
PromptReturns == sh = "parent" ~> sh = "prompt"

\* Both programs of a pipeline end, whichever ends, or is not found, first.
PipelineEnds ==
    \A j \in Job :
        child[j] = "fork" ~> (child[j] \in {"zombie", "reaped"} /\ child2[j] = "zombie")

=============================================================================
