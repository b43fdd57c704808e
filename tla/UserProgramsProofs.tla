--------------------------- MODULE UserProgramsProofs ---------------------------
(***************************************************************************)
(* Proofs about two programs of several processes.                         *)
(*                                                                         *)
(* Shell, for any number of commands, any size of the pipe and any number  *)
(* of writes: the processes of a pipeline hold the side of the pipe they   *)
(* use, and no other.                                                      *)
(*                                                                         *)
(* SocketChat, for any number of signals: the client and the server take   *)
(* turns, and what the client reads answers what it asked.                 *)
(***************************************************************************)
EXTENDS Shell, SocketChat, SequenceTheorems, TLAPS

-----------------------------------------------------------------------------
\* The shell

\* The job of a command that was not launched has no process.
JobInv == \A j \in Job : j > jobs => child[j] = "absent" /\ child2[j] = "absent"

\* The child holds the write side between pipe() and its close(), and child2
\* the read side between the fork() and its close().
SideInv ==
    \A j \in Job :
        /\ "child" \in writers[j] => child[j] \in {"fork", "close"}
        /\ "child2" \in readers[j] => child2[j] = "close"
        /\ child[j] \in {"absent", "start", "fork"} => child2[j] = "absent"

ShellInv == ShellTypeOK /\ JobInv /\ SideInv

LEMMA ShellInitInv == ShellInit => ShellInv
<1> SUFFICES ASSUME ShellInit PROVE ShellInv
    OBVIOUS
<1>1. ShellTypeOK
    BY ShellAssumption DEF ShellInit, ShellTypeOK
<1>2. JobInv /\ SideInv
    BY DEF ShellInit, JobInv, SideInv
<1> QED BY <1>1, <1>2 DEF ShellInv

-----------------------------------------------------------------------------
\* The steps of the shell

LEMMA LaunchStep ==
    ASSUME ShellInv, Launch
    PROVE  ShellInv'
<1> USE DEF Launch, pipeVars
<1>1. jobs' \in Job /\ jobs' = jobs + 1
    BY ShellAssumption DEF ShellInv, ShellTypeOK, Job
<1>2. child[jobs'] = "absent" /\ child2[jobs'] = "absent"
    BY <1>1 DEF ShellInv, ShellTypeOK, JobInv, Job
<1>3. ShellTypeOK'
    BY <1>1 DEF ShellInv, ShellTypeOK, Job
<1>4. JobInv'
    BY <1>1 DEF ShellInv, ShellTypeOK, JobInv, Job
<1>5. SideInv'
    BY <1>1, <1>2 DEF ShellInv, ShellTypeOK, SideInv
<1> QED BY <1>3, <1>4, <1>5 DEF ShellInv

LEMMA ParentStep ==
    ASSUME ShellInv, Parent
    PROVE  ShellInv'
<1> USE DEF Parent, jobVars, pipeVars
<1>1. ShellTypeOK'
    BY DEF ShellInv, ShellTypeOK
<1>2. JobInv' /\ SideInv'
    BY DEF ShellInv, JobInv, SideInv
<1> QED BY <1>1, <1>2 DEF ShellInv

LEMMA WaitedStep ==
    ASSUME ShellInv, Waited
    PROVE  ShellInv'
<1> USE DEF Waited, jobVars, pipeVars
<1>1. ShellTypeOK'
    BY DEF ShellInv, ShellTypeOK
<1>2. JobInv' /\ SideInv'
    BY DEF ShellInv, ShellTypeOK, JobInv, SideInv
<1> QED BY <1>1, <1>2 DEF ShellInv

LEMMA ExitStep ==
    ASSUME ShellInv, Exit
    PROVE  ShellInv'
<1> USE DEF Exit, jobVars, pipeVars
<1>1. ShellTypeOK'
    BY DEF ShellInv, ShellTypeOK
<1>2. JobInv' /\ SideInv'
    BY DEF ShellInv, JobInv, SideInv
<1> QED BY <1>1, <1>2 DEF ShellInv

-----------------------------------------------------------------------------
\* The end of a process, which closes both sides of its pipe

LEMMA ChildExitsStep ==
    ASSUME ShellInv, NEW j \in Job, child[j] \notin {"absent", "start", "fork"}, ChildExits(j)
    PROVE  ShellInv'
<1> USE DEF ChildExits, jobVars
<1>1. ShellTypeOK'
    BY DEF ShellInv, ShellTypeOK
<1>2. JobInv'
    BY DEF ShellInv, ShellTypeOK, JobInv
<1>3. SideInv'
    BY DEF ShellInv, ShellTypeOK, SideInv
<1> QED BY <1>1, <1>2, <1>3 DEF ShellInv

LEMMA Child2ExitsStep ==
    ASSUME ShellInv, NEW j \in Job, child2[j] # "absent", Child2Exits(j)
    PROVE  ShellInv'
<1> USE DEF Child2Exits, jobVars
<1>1. ShellTypeOK'
    BY DEF ShellInv, ShellTypeOK
<1>2. JobInv'
    BY DEF ShellInv, ShellTypeOK, JobInv
<1>3. SideInv'
    BY DEF ShellInv, ShellTypeOK, SideInv
<1> QED BY <1>1, <1>2, <1>3 DEF ShellInv

-----------------------------------------------------------------------------
\* The child

LEMMA StartStep ==
    ASSUME ShellInv, NEW j \in Job, Start(j)
    PROVE  ShellInv'
<1> USE DEF Start, jobVars
<1>1. ShellTypeOK'
    <2>1. child' \in [Job -> {"absent", "start", "fork", "close", "exec", "program",
                              "zombie", "reaped"}]
        BY DEF ShellInv, ShellTypeOK
    <2>2. writers' \in [Job -> SUBSET {"child", "child2"}]
          /\ readers' \in [Job -> SUBSET {"child", "child2"}]
        BY DEF ShellInv, ShellTypeOK
    <2> QED BY <2>1, <2>2 DEF ShellInv, ShellTypeOK
<1>2. JobInv'
    BY DEF ShellInv, ShellTypeOK, JobInv
<1>3. SideInv'
    BY DEF ShellInv, ShellTypeOK, SideInv
<1> QED BY <1>1, <1>2, <1>3 DEF ShellInv

LEMMA ForkStep ==
    ASSUME ShellInv, NEW j \in Job, Fork(j)
    PROVE  ShellInv'
<1> USE DEF Fork, jobVars
<1>1. ShellTypeOK'
    <2>1. child2' \in [Job -> {"absent", "close", "exec", "program", "zombie"}]
          /\ child' \in [Job -> {"absent", "start", "fork", "close", "exec", "program",
                                 "zombie", "reaped"}]
        BY DEF ShellInv, ShellTypeOK
    <2>2. writers' \in [Job -> SUBSET {"child", "child2"}]
          /\ readers' \in [Job -> SUBSET {"child", "child2"}]
        BY DEF ShellInv, ShellTypeOK
    <2> QED BY <2>1, <2>2 DEF ShellInv, ShellTypeOK
<1>2. JobInv'
    BY DEF ShellInv, ShellTypeOK, JobInv
<1>3. SideInv'
    BY DEF ShellInv, ShellTypeOK, SideInv
<1> QED BY <1>1, <1>2, <1>3 DEF ShellInv

LEMMA ChildClosesStep ==
    ASSUME ShellInv, NEW j \in Job, ChildCloses(j)
    PROVE  ShellInv'
<1> USE DEF ChildCloses, jobVars
<1>1. ShellTypeOK'
    BY DEF ShellInv, ShellTypeOK
<1>2. JobInv'
    BY DEF ShellInv, ShellTypeOK, JobInv
<1>3. SideInv'
    BY DEF ShellInv, ShellTypeOK, SideInv
<1> QED BY <1>1, <1>2, <1>3 DEF ShellInv

LEMMA ChildExecStep ==
    ASSUME ShellInv, NEW j \in Job, ChildExec(j)
    PROVE  ShellInv'
<1>1. CASE ChildExits(j)
    BY <1>1, ChildExitsStep DEF ChildExec
<1>2. CASE child' = [child EXCEPT ![j] = "program"]
           /\ UNCHANGED <<sh, jobVars, child2, pipeVars>>
    <2> USE DEF ChildExec, jobVars, pipeVars
    <2>1. ShellTypeOK'
        BY <1>2 DEF ShellInv, ShellTypeOK
    <2>2. JobInv' /\ SideInv'
        BY <1>2 DEF ShellInv, ShellTypeOK, JobInv, SideInv
    <2> QED BY <2>1, <2>2 DEF ShellInv
<1> QED BY <1>1, <1>2 DEF ChildExec

-----------------------------------------------------------------------------
\* child2

LEMMA Child2ClosesStep ==
    ASSUME ShellInv, NEW j \in Job, Child2Closes(j)
    PROVE  ShellInv'
<1> USE DEF Child2Closes, jobVars
<1>1. ShellTypeOK'
    BY DEF ShellInv, ShellTypeOK
<1>2. JobInv'
    BY DEF ShellInv, ShellTypeOK, JobInv
<1>3. SideInv'
    BY DEF ShellInv, ShellTypeOK, SideInv
<1> QED BY <1>1, <1>2, <1>3 DEF ShellInv

LEMMA Child2ExecStep ==
    ASSUME ShellInv, NEW j \in Job, Child2Exec(j)
    PROVE  ShellInv'
<1>1. CASE Child2Exits(j)
    BY <1>1, Child2ExitsStep DEF Child2Exec
<1>2. CASE child2' = [child2 EXCEPT ![j] = "program"]
           /\ UNCHANGED <<sh, jobVars, child, pipeVars>>
    <2> USE DEF Child2Exec, jobVars, pipeVars
    <2>1. ShellTypeOK'
        BY <1>2 DEF ShellInv, ShellTypeOK
    <2>2. JobInv' /\ SideInv'
        BY <1>2 DEF ShellInv, ShellTypeOK, JobInv, SideInv
    <2> QED BY <2>1, <2>2 DEF ShellInv
<1> QED BY <1>1, <1>2 DEF Child2Exec

-----------------------------------------------------------------------------
\* The programs

LEMMA ProgramWritesStep ==
    ASSUME ShellInv, NEW j \in Job, ProgramWrites(j)
    PROVE  ShellInv'
<1>1. CASE readers[j] = {}
    BY <1>1, Child2ExitsStep DEF ProgramWrites
<1>2. CASE readers[j] # {}
    <2> USE DEF ProgramWrites, jobVars
    <2>1. buffered[j] \in 0 .. PipeCapacity /\ written[j] \in 0 .. MaxWrites
        BY DEF ShellInv, ShellTypeOK
    <2>2. buffered[j] + 1 \in 0 .. PipeCapacity /\ written[j] + 1 \in 0 .. MaxWrites
        BY <1>2, <2>1, ShellAssumption
    <2>3. ShellTypeOK'
        BY <1>2, <2>2 DEF ShellInv, ShellTypeOK
    <2>4. JobInv' /\ SideInv'
        BY <1>2 DEF ShellInv, JobInv, SideInv
    <2> QED BY <2>3, <2>4 DEF ShellInv
<1> QED BY <1>1, <1>2

LEMMA ProgramReadsStep ==
    ASSUME ShellInv, NEW j \in Job, ProgramReads(j)
    PROVE  ShellInv'
<1> USE DEF ProgramReads, jobVars
<1>1. buffered[j] - 1 \in 0 .. PipeCapacity
    <2>1. buffered[j] \in 0 .. PipeCapacity
        BY DEF ShellInv, ShellTypeOK
    <2> QED BY <2>1, ShellAssumption
<1>2. ShellTypeOK'
    BY <1>1 DEF ShellInv, ShellTypeOK
<1>3. JobInv' /\ SideInv'
    BY DEF ShellInv, JobInv, SideInv
<1> QED BY <1>2, <1>3 DEF ShellInv

-----------------------------------------------------------------------------

\* The invariant, along every behaviour.
LEMMA ShellInvariance == ShellSpec => []ShellInv
<1>1. ShellInit => ShellInv
    BY ShellInitInv
<1>2. ShellInv /\ [ShellNext]_shellVars => ShellInv'
    <2> SUFFICES ASSUME ShellInv, [ShellNext]_shellVars PROVE ShellInv'
        OBVIOUS
    <2>1. CASE Launch \/ Parent \/ Waited \/ Exit
        BY <2>1, LaunchStep, ParentStep, WaitedStep, ExitStep
    <2>2. ASSUME NEW j \in Job, Code(j) PROVE ShellInv'
        <3>1. CASE RightEnds(j)
            BY <3>1, ChildExitsStep DEF RightEnds
        <3> QED BY <2>2, <3>1, StartStep, ForkStep, ChildClosesStep, ChildExecStep,
                   ProgramReadsStep DEF Code
    <2>3. ASSUME NEW j \in Job, Code2(j) PROVE ShellInv'
        <3>1. CASE LeftEnds(j)
            BY <3>1, Child2ExitsStep DEF LeftEnds
        <3> QED BY <2>3, <3>1, Child2ClosesStep, Child2ExecStep, ProgramWritesStep DEF Code2
    <2>4. ASSUME NEW j \in Job, RightEndsEarly(j) PROVE ShellInv'
        BY <2>4, ChildExitsStep DEF RightEndsEarly
    <2>5. CASE UNCHANGED shellVars
        <3> USE <2>5 DEF shellVars, jobVars, pipeVars
        <3>1. ShellTypeOK'
            BY DEF ShellInv, ShellTypeOK
        <3>2. JobInv' /\ SideInv'
            BY DEF ShellInv, JobInv, SideInv
        <3> QED BY <3>1, <3>2 DEF ShellInv
    <2> QED BY <2>1, <2>2, <2>3, <2>4, <2>5 DEF ShellNext
<1> QED BY <1>1, <1>2, PTL DEF ShellSpec

\* The variables of the shell and its jobs keep their types (usr/src/sh.c).
THEOREM ShellTypeCorrect == ShellSpec => []ShellTypeOK
<1>1. ShellInv => ShellTypeOK
    BY DEF ShellInv
<1> QED BY <1>1, ShellInvariance, PTL

\* Once a program of a pipeline runs, its process has closed the side of the
\* pipe it does not use, whatever the two processes did before.
THEOREM SidesClosed == ShellSpec => []SidesSettled
<1>1. ShellInv => SidesSettled
    BY DEF ShellInv, SideInv, SidesSettled
<1> QED BY <1>1, ShellInvariance, PTL

-----------------------------------------------------------------------------
\* The client and the server

Connected == client # "closed"

\* The messages between the write of the client and its read.
Busy == IF server \in {"handle", "write"} THEN 1 ELSE 0
InTransit == Len(toServer) + Len(toClient) + Busy

\* The requests the server has still to count.
ToHandle == Len(toServer) + (IF server = "handle" THEN 1 ELSE 0)

\* Answer a is one to the request the client made.
Answers(a) ==
    /\ asked # "QUITTER" => a.kind = asked
    /\ a.kind = "COMPTEUR" => a.value = counted

\* Each COMPTEUR takes a signal.
SignalInv ==
    /\ counted <= signals
    /\ client = "prepare" /\ message_to_send # "none" => counted < signals

\* The turns; the client is ready for another request only when nothing is left
\* of the last one.
TurnInv ==
    /\ client \in {"prepare", "write"} => InTransit = 0
    /\ client \in {"choose", "read"} => InTransit <= 1
    /\ client = "clear" /\ clientRunning => InTransit = 0
    /\ client = "clear" => InTransit <= 1

\* Whatever is between the two is about the last request.
RequestInv ==
    /\ client \in {"write", "choose", "read", "clear"} => asked \in Request
    /\ Connected =>
         /\ toServer # <<>> => Head(toServer) = asked
         /\ server = "handle" => receiveBuff = asked
         /\ server = "write" => Answers(sendBuff)
         /\ toClient # <<>> => Answers(Head(toClient))
    /\ answer # NoAnswer => Answers(answer)

\* The request of the client that the server has not counted yet.
Pending ==
    IF asked = "COMPTEUR" /\ (client = "write" \/ toServer # <<>> \/ server = "handle")
    THEN 1 ELSE 0

\* The counter counts the requests of the client as long as it is there; after
\* that its last request may be counted again.
CounterInv ==
    /\ Connected => counter + Pending = counted
    /\ counter + ToHandle <= MaxSignals + 1
    /\ sendBuff.kind = "COMPTEUR" => sendBuff.value = counter

ChatInv == TypeOK /\ SignalInv /\ TurnInv /\ RequestInv /\ CounterInv

-----------------------------------------------------------------------------
\* Lemmas about sequences and answers

\* A message put in a socket comes last, and first if the socket was empty.
LEMMA Sent ==
    ASSUME NEW S, NEW s \in Seq(S), NEW e \in S
    PROVE  /\ Append(s, e) \in Seq(S) /\ Append(s, e) # <<>>
           /\ Len(Append(s, e)) = Len(s) + 1
           /\ Len(s) = 0 => Head(Append(s, e)) = e
<1>1. Append(s, e) \in Seq(S) /\ Append(s, e) # <<>> /\ Len(Append(s, e)) = Len(s) + 1
    BY AppendProperties
<1>2. Len(s) = 0 => s = <<>>
    BY EmptySeq
<1>3. Head(Append(s, e)) = IF s = <<>> THEN e ELSE Head(s)
    BY HeadTailAppend
<1> QED BY <1>1, <1>2, <1>3

\* A message taken from a socket leaves one less.
LEMMA Taken ==
    ASSUME NEW S, NEW s \in Seq(S), s # <<>>
    PROVE  /\ Head(s) \in S /\ Tail(s) \in Seq(S)
           /\ Len(s) \in Nat \ {0} /\ Len(Tail(s)) = Len(s) - 1
           /\ Len(s) = 1 => Tail(s) = <<>>
<1>1. Head(s) \in S /\ Tail(s) \in Seq(S) /\ Len(Tail(s)) = Len(s) - 1
    BY HeadTailProperties
<1>2. Len(s) \in Nat \ {0}
    BY EmptySeq
<1>3. Tail(s) # <<>> => Len(Tail(s)) \in Nat \ {0}
    BY <1>1, EmptySeq
<1> QED BY <1>1, <1>2, <1>3

\* The number of messages in a socket, and when there is none.
LEMMA SocketLengths ==
    ASSUME TypeOK
    PROVE  /\ Len(toServer) \in Nat /\ Len(toClient) \in Nat
           /\ Len(toServer) = 0 <=> toServer = <<>>
           /\ Len(toClient) = 0 <=> toClient = <<>>
<1>1. toServer \in Seq(Request) /\ toClient \in Seq(AnswerSet)
    BY DEF TypeOK
<1>2. Len(toServer) \in Nat /\ Len(toClient) \in Nat
    BY <1>1, LenProperties
<1> QED BY <1>1, <1>2, EmptySeq

\* The answers are records with two fields.
LEMMA AnswerFields ==
    ASSUME NEW k, NEW v
    PROVE  /\ Answer(k, v).kind = k /\ Answer(k, v).value = v
           /\ k \in {"empty", "BONJOUR", "AUREVOIR", "COMPTEUR"} /\ v \in 0 .. MaxSignals + 1
                => Answer(k, v) \in AnswerSet
BY DEF Answer, AnswerSet

-----------------------------------------------------------------------------
\* The invariant

LEMMA ChatInitInv == Init => ChatInv
<1> SUFFICES ASSUME Init PROVE ChatInv
    OBVIOUS
<1> USE DEF Init
<1>1. <<>> \in Seq(Request) /\ <<>> \in Seq(AnswerSet) /\ Len(<<>>) = 0
    BY EmptySeq
<1>2. TypeOK
    BY <1>1, SocketChatAssumption, AnswerFields DEF TypeOK, NoAnswer
<1>3. SignalInv /\ TurnInv
    BY <1>1 DEF SignalInv, TurnInv, InTransit, Busy
<1>4. RequestInv
    BY DEF RequestInv
<1>5. CounterInv
    BY <1>1, SocketChatAssumption, AnswerFields DEF CounterInv, Pending, ToHandle, NoAnswer
<1> QED BY <1>2, <1>3, <1>4, <1>5 DEF ChatInv

LEMMA SignalStep ==
    ASSUME ChatInv, NEW message \in {"GREETING", "COUNTING", "QUITING"}, Signal(message)
    PROVE  ChatInv'
<1> USE DEF Signal, serverVars
<1>1. TypeOK'
    BY SocketChatAssumption DEF ChatInv, TypeOK
<1>2. SignalInv'
    BY DEF ChatInv, TypeOK, SignalInv
<1>3. TurnInv'
    BY DEF ChatInv, TurnInv, InTransit, Busy
<1>4. RequestInv'
    BY DEF ChatInv, RequestInv, Connected, Answers
<1>5. CounterInv'
    BY DEF ChatInv, CounterInv, Pending, ToHandle, Connected
<1> QED BY <1>1, <1>2, <1>3, <1>4, <1>5 DEF ChatInv

\* The message of the first switch is a request.
LEMMA MessageType ==
    ASSUME TypeOK, message_to_send # "none"
    PROVE  /\ Message \in Request
           /\ Message = "COMPTEUR" <=> message_to_send = "COUNTING"
BY DEF TypeOK, Message, Request

LEMMA PrepareStep ==
    ASSUME ChatInv, Prepare
    PROVE  ChatInv'
<1> USE DEF Prepare, serverVars
<1>1. Message \in Request
    BY MessageType DEF ChatInv
<1>2. counted \in Nat /\ signals \in Nat /\ counted < signals /\ signals <= MaxSignals
    BY SocketChatAssumption DEF ChatInv, TypeOK, SignalInv
<1>3. counted' \in 0 .. MaxSignals /\ counted' <= signals
    BY <1>2, SocketChatAssumption
<1>4. NoAnswer \in AnswerSet
    BY SocketChatAssumption, AnswerFields DEF NoAnswer
<1>5. /\ InTransit = 0 /\ InTransit' = 0
      /\ toServer = <<>> /\ toClient = <<>> /\ server \notin {"handle", "write"}
    <2>1. InTransit = 0
        BY DEF ChatInv, TurnInv
    <2>2. InTransit' = InTransit
        BY DEF InTransit, Busy
    <2> QED BY <2>1, <2>2, SocketLengths DEF ChatInv, InTransit, Busy
<1>6. TypeOK'
    BY <1>1, <1>3, <1>4 DEF ChatInv, TypeOK
<1>7. SignalInv'
    BY <1>3 DEF SignalInv
<1>8. TurnInv'
    BY <1>5 DEF TurnInv
<1>9. RequestInv'
    BY <1>1, <1>5 DEF RequestInv
<1>10. CounterInv'
    <2>1. counter = counted
        BY <1>5 DEF ChatInv, TypeOK, CounterInv, Connected, Pending
    <2>2. counter' + Pending' = counted'
        BY <1>2, <1>5, <2>1 DEF Pending
    <2> QED BY <2>2 DEF ChatInv, CounterInv, ToHandle
<1> QED BY <1>6, <1>7, <1>8, <1>9, <1>10 DEF ChatInv

LEMMA ClientWriteStep ==
    ASSUME ChatInv, ClientWrite
    PROVE  ChatInv'
<1> USE DEF ClientWrite, serverVars
<1>1. asked \in Request
    BY DEF ChatInv, RequestInv
<1>2. /\ Len(toServer) = 0 /\ Len(toClient) = 0 /\ toServer = <<>> /\ toClient = <<>>
      /\ server \notin {"handle", "write"}
    <2>1. InTransit = 0
        BY DEF ChatInv, TurnInv
    <2> QED BY <2>1, SocketLengths DEF ChatInv, InTransit, Busy
<1>3. /\ toServer' \in Seq(Request) /\ toServer' # <<>> /\ Len(toServer') = 1
      /\ Head(toServer') = asked
    BY <1>1, <1>2, Sent DEF ChatInv, TypeOK
<1>4. TypeOK'
    BY <1>3 DEF ChatInv, TypeOK
<1>5. SignalInv'
    BY DEF ChatInv, SignalInv
<1>6. TurnInv'
    BY <1>2, <1>3 DEF TurnInv, InTransit, Busy
<1>7. RequestInv'
    BY <1>1, <1>2, <1>3 DEF ChatInv, RequestInv, Answers
<1>8. CounterInv'
    <2>1. counter <= counted /\ counted <= MaxSignals /\ counter \in Nat
        BY DEF ChatInv, TypeOK, CounterInv, Connected, Pending
    <2> QED BY <1>2, <1>3, <2>1, SocketChatAssumption
            DEF ChatInv, TypeOK, CounterInv, Connected, Pending, ToHandle
<1> QED BY <1>4, <1>5, <1>6, <1>7, <1>8 DEF ChatInv

LEMMA ChooseStep ==
    ASSUME ChatInv, Choose
    PROVE  ChatInv'
<1> USE DEF Choose, serverVars
<1>1. TypeOK'
    BY DEF ChatInv, TypeOK
<1>2. SignalInv'
    BY DEF ChatInv, SignalInv
<1>3. TurnInv'
    BY DEF ChatInv, TurnInv, InTransit, Busy
<1>4. RequestInv'
    BY DEF ChatInv, RequestInv, Connected, Answers
<1>5. CounterInv'
    BY DEF ChatInv, CounterInv, Pending, ToHandle, Connected
<1> QED BY <1>1, <1>2, <1>3, <1>4, <1>5 DEF ChatInv

LEMMA ClientReadStep ==
    ASSUME ChatInv, ClientRead
    PROVE  ChatInv'
<1> USE DEF ClientRead, serverVars
<1>1. /\ Head(toClient) \in AnswerSet /\ toClient' \in Seq(AnswerSet)
      /\ Len(toClient) \in Nat \ {0} /\ Len(toClient') = Len(toClient) - 1
    BY Taken DEF ChatInv, TypeOK
<1>2. InTransit' = 0 /\ toClient' = <<>>
    <2>1. InTransit <= 1
        BY DEF ChatInv, TurnInv
    <2>2. Len(toClient) = 1 /\ Len(toServer) = 0 /\ Busy = 0
        BY <1>1, <2>1, SocketLengths DEF ChatInv, InTransit, Busy
    <2>3. InTransit' = 0
        BY <1>1, <2>2 DEF InTransit, Busy
    <2> QED BY <2>2, <2>3, Taken DEF ChatInv, TypeOK
<1>3. TypeOK'
    BY <1>1 DEF ChatInv, TypeOK
<1>4. SignalInv'
    BY DEF ChatInv, SignalInv
<1>5. TurnInv'
    BY <1>2 DEF TurnInv
<1>6. RequestInv'
    BY <1>2 DEF ChatInv, RequestInv, Connected, Answers
<1>7. CounterInv'
    BY DEF ChatInv, CounterInv, Pending, ToHandle, Connected
<1> QED BY <1>3, <1>4, <1>5, <1>6, <1>7 DEF ChatInv

LEMMA ClearStep ==
    ASSUME ChatInv, Clear
    PROVE  ChatInv'
<1> USE DEF Clear, serverVars
<1>1. TypeOK'
    BY DEF ChatInv, TypeOK
<1>2. SignalInv'
    BY DEF ChatInv, SignalInv
<1>3. TurnInv'
    BY DEF ChatInv, TypeOK, TurnInv, InTransit, Busy
<1>4. RequestInv'
    BY DEF ChatInv, RequestInv, Connected, Answers
<1>5. CounterInv'
    BY DEF ChatInv, CounterInv, Pending, ToHandle, Connected
<1> QED BY <1>1, <1>2, <1>3, <1>4, <1>5 DEF ChatInv

LEMMA ServerReadStep ==
    ASSUME ChatInv, ServerRead
    PROVE  ChatInv'
<1> USE DEF ServerRead, clientVars
<1>1. CASE toServer # <<>> /\ receiveBuff' = Head(toServer) /\ toServer' = Tail(toServer)
           /\ server' = "handle"
    <2>1. /\ Head(toServer) \in Request /\ toServer' \in Seq(Request)
          /\ Len(toServer) \in Nat \ {0} /\ Len(toServer') = Len(toServer) - 1
        BY <1>1, Taken DEF ChatInv, TypeOK
    <2>2. InTransit' = InTransit /\ ToHandle' = ToHandle
        <3>1. Busy = 0 /\ Busy' = 1
            BY <1>1 DEF Busy
        <3>2. Len(toClient) \in Nat
            BY SocketLengths DEF ChatInv
        <3>3. InTransit' = Len(toServer') + Len(toClient) + Busy'
            BY DEF InTransit
        <3>4. ToHandle = Len(toServer) /\ ToHandle' = Len(toServer') + 1
            <4>1. server = "read" /\ server' = "handle"
                BY <1>1
            <4>2. Len(toServer') \in Nat
                BY <2>1
            <4> HIDE DEF ServerRead
            <4> QED BY <2>1, <4>1, <4>2 DEF ToHandle
        <3> QED BY <2>1, <3>1, <3>2, <3>3, <3>4 DEF InTransit
    <2>3. Connected => toServer' = <<>> /\ toClient = <<>>
        <3>1. Connected => InTransit <= 1
            BY DEF ChatInv, TypeOK, TurnInv, Connected
        <3>2. Connected => Len(toServer) = 1 /\ Len(toClient) = 0
            BY <2>1, <3>1, SocketLengths DEF ChatInv, InTransit, Busy
        <3> QED BY <1>1, <3>2, Taken, SocketLengths DEF ChatInv, TypeOK
    <2>4. TypeOK'
        BY <1>1, <2>1 DEF ChatInv, TypeOK
    <2>5. SignalInv'
        BY DEF ChatInv, SignalInv
    <2>6. TurnInv'
        BY <2>2 DEF ChatInv, TurnInv
    <2>7. RequestInv'
        BY <1>1, <2>3 DEF ChatInv, RequestInv, Connected, Answers
    <2>8. CounterInv'
        <3>1. Connected => Pending' = Pending
            BY <1>1 DEF Pending, Connected
        <3> QED BY <2>2, <3>1 DEF ChatInv, CounterInv, Connected
    <2> QED BY <2>4, <2>5, <2>6, <2>7, <2>8 DEF ChatInv
<1>2. CASE toServer = <<>> /\ client = "closed" /\ UNCHANGED <<receiveBuff, toServer>>
           /\ ((counter <= MaxSignals /\ server' = "handle") \/ server' = "closed")
    <2>1. TypeOK'
        BY <1>2 DEF ChatInv, TypeOK
    <2>2. SignalInv'
        BY DEF ChatInv, SignalInv
    <2>3. TurnInv'
        BY <1>2 DEF TurnInv
    <2>4. RequestInv'
        BY <1>2 DEF ChatInv, RequestInv, Connected, Answers
    <2>5. CounterInv'
        <3>1. Len(toServer) = 0 /\ Len(toServer') = 0
            BY <1>2, SocketLengths DEF ChatInv
        <3>2. counter' + ToHandle' <= MaxSignals + 1
            BY <1>2, <3>1, SocketChatAssumption DEF ChatInv, TypeOK, CounterInv, ToHandle
        <3> QED BY <1>2, <3>2 DEF ChatInv, CounterInv, Connected
    <2> QED BY <2>1, <2>2, <2>3, <2>4, <2>5 DEF ChatInv
<1> QED BY <1>1, <1>2

LEMMA HandleStep ==
    ASSUME ChatInv, Handle
    PROVE  ChatInv'
<1> USE DEF Handle, clientVars
<1>1. counter \in Nat /\ counter' \in Nat /\ counter' <= MaxSignals + 1
      /\ counter' + ToHandle' <= MaxSignals + 1
    BY SocketLengths, SocketChatAssumption DEF ChatInv, TypeOK, CounterInv, ToHandle
<1>2. /\ sendBuff' \in AnswerSet
      /\ receiveBuff = "COMPTEUR" => sendBuff'.kind = "COMPTEUR" /\ sendBuff'.value = counter'
      /\ receiveBuff \in {"BONJOUR", "AUREVOIR"} => sendBuff'.kind = receiveBuff
      /\ receiveBuff \in {"QUITTER", "empty"} => sendBuff' = sendBuff
    <2>1. CASE receiveBuff \in {"BONJOUR", "AUREVOIR"}
        <3>1. sendBuff' = Answer(receiveBuff, 0)
            BY <2>1
        <3> QED BY <2>1, <3>1, AnswerFields, SocketChatAssumption
    <2>2. CASE receiveBuff = "COMPTEUR"
        <3>1. sendBuff' = Answer("COMPTEUR", counter')
            BY <2>2
        <3> QED BY <1>1, <2>2, <3>1, AnswerFields, SocketChatAssumption
    <2>3. CASE receiveBuff \in {"QUITTER", "empty"}
        BY <2>3 DEF ChatInv, TypeOK
    <2> QED BY <2>1, <2>2, <2>3 DEF ChatInv, TypeOK, Request
<1>3. TypeOK'
    BY <1>1, <1>2 DEF ChatInv, TypeOK
<1>4. SignalInv'
    BY DEF ChatInv, SignalInv
<1>5. TurnInv'
    BY DEF ChatInv, TurnInv, InTransit, Busy
<1>6. Connected => receiveBuff = asked /\ toServer = <<>>
    <2>1. Connected => InTransit <= 1
        BY DEF ChatInv, TypeOK, TurnInv, Connected
    <2>2. Connected => Len(toServer) = 0
        BY <2>1, SocketLengths DEF ChatInv, InTransit, Busy
    <2> QED BY <2>2, SocketLengths DEF ChatInv, RequestInv
<1>7. Connected => client # "write" /\ asked \in Request
    <2>1. InTransit # 0
        BY SocketLengths DEF ChatInv, InTransit, Busy
    <2> QED BY <2>1 DEF ChatInv, TypeOK, TurnInv, RequestInv, Connected
<1>8. Connected => counter' = counted
    BY <1>6, <1>7 DEF ChatInv, TypeOK, CounterInv, Pending
<1>9. sendBuff'.kind = "COMPTEUR" => sendBuff'.value = counter'
    <2>1. CASE receiveBuff = "COMPTEUR"
        BY <1>2, <2>1
    <2>2. CASE receiveBuff \in {"BONJOUR", "AUREVOIR"}
        BY <1>2, <2>2
    <2>3. CASE receiveBuff \in {"QUITTER", "empty"}
        BY <1>1, <1>2, <2>3 DEF ChatInv, CounterInv
    <2> QED BY <2>1, <2>2, <2>3 DEF ChatInv, TypeOK, Request
<1>10. RequestInv'
    <2>1. Connected => Answers(sendBuff)'
        <3>1. Connected /\ asked # "QUITTER" => sendBuff'.kind = asked
            BY <1>2, <1>6, <1>7 DEF Request
        <3> QED BY <1>8, <1>9, <3>1 DEF Answers
    <2> QED BY <1>6, <2>1 DEF ChatInv, RequestInv, Connected, Answers
<1>11. CounterInv'
    BY <1>1, <1>6, <1>7, <1>8, <1>9 DEF CounterInv, Connected, Pending
<1> QED BY <1>3, <1>4, <1>5, <1>10, <1>11 DEF ChatInv

LEMMA ServerWriteStep ==
    ASSUME ChatInv, ServerWrite
    PROVE  ChatInv'
<1> USE DEF ServerWrite, clientVars
<1>1. server' \in {"closed", "read", "killed"}
    OBVIOUS
<1>2. CASE client = "closed"
    <2>1. TypeOK'
        BY <1>1, <1>2 DEF ChatInv, TypeOK
    <2>2. SignalInv' /\ TurnInv'
        BY <1>2 DEF ChatInv, SignalInv, TurnInv
    <2>3. RequestInv'
        BY <1>2 DEF ChatInv, RequestInv, Connected, Answers
    <2>4. CounterInv'
        BY <1>1, <1>2 DEF ChatInv, CounterInv, Connected, ToHandle
    <2> QED BY <2>1, <2>2, <2>3, <2>4 DEF ChatInv
<1>3. CASE client # "closed"
    <2>1. /\ toClient' \in Seq(AnswerSet) /\ toClient' # <<>>
          /\ Len(toClient') = Len(toClient) + 1
          /\ Len(toClient) = 0 => Head(toClient') = sendBuff
        BY <1>3, Sent DEF ChatInv, TypeOK
    <2>2. InTransit' = InTransit
        <3>1. Busy = 1 /\ Busy' = 0
            BY <1>1 DEF Busy
        <3>2. Len(toServer) \in Nat /\ Len(toClient) \in Nat
            BY SocketLengths DEF ChatInv
        <3> QED BY <2>1, <3>1, <3>2 DEF InTransit
    <2>3. Len(toClient) = 0 /\ toServer = <<>>
        <3>1. InTransit <= 1
            BY <1>3 DEF ChatInv, TypeOK, TurnInv
        <3> QED BY <3>1, SocketLengths DEF ChatInv, InTransit, Busy
    <2>4. TypeOK'
        BY <1>1, <2>1 DEF ChatInv, TypeOK
    <2>5. SignalInv' /\ TurnInv'
        BY <2>2 DEF ChatInv, SignalInv, TurnInv
    <2>6. RequestInv'
        BY <1>1, <1>3, <2>1, <2>3 DEF ChatInv, RequestInv, Connected, Answers
    <2>7. CounterInv'
        BY <1>1, <1>3 DEF ChatInv, CounterInv, Connected, Pending, ToHandle
    <2> QED BY <2>4, <2>5, <2>6, <2>7 DEF ChatInv
<1> QED BY <1>2, <1>3

LEMMA ChatStutterStep ==
    ASSUME ChatInv, UNCHANGED vars
    PROVE  ChatInv'
<1> USE DEF vars
<1>1. TypeOK'
    BY DEF ChatInv, TypeOK
<1>2. SignalInv' /\ TurnInv'
    BY DEF ChatInv, SignalInv, TurnInv, InTransit, Busy
<1>3. RequestInv' /\ CounterInv'
    BY DEF ChatInv, RequestInv, CounterInv, Connected, Answers, Pending, ToHandle
<1> QED BY <1>1, <1>2, <1>3 DEF ChatInv

\* The invariant, along every behaviour.
LEMMA ChatInvariance == Spec => []ChatInv
<1>1. Init => ChatInv
    BY ChatInitInv
<1>2. ChatInv /\ [Next]_vars => ChatInv'
    <2> SUFFICES ASSUME ChatInv, [Next]_vars PROVE ChatInv'
        OBVIOUS
    <2>1. ASSUME NEW message \in {"GREETING", "COUNTING", "QUITING"}, Signal(message)
          PROVE  ChatInv'
        BY <2>1, SignalStep
    <2>2. CASE ClientNext
        BY <2>2, PrepareStep, ClientWriteStep, ChooseStep, ClientReadStep, ClearStep
           DEF ClientNext
    <2>3. CASE ServerNext
        BY <2>3, ServerReadStep, HandleStep, ServerWriteStep DEF ServerNext
    <2>4. CASE UNCHANGED vars
        BY <2>4, ChatStutterStep
    <2> QED BY <2>1, <2>2, <2>3, <2>4 DEF Next
<1> QED BY <1>1, <1>2, PTL DEF Spec

-----------------------------------------------------------------------------
\* The theorems

\* The variables of both programs keep their types, in particular the counter
\* and the answers of the server (usr/src/socket_client.c, socket_server.c).
THEOREM ChatTypeCorrect == Spec => []TypeOK
<1>1. ChatInv => TypeOK
    BY DEF ChatInv
<1> QED BY <1>1, ChatInvariance, PTL

\* The client and the server take turns, however many signals come and wherever
\* they come in the loop of the client.
THEOREM TakeTurns == Spec => []InTurns
<1>1. ChatInv => InTurns
    <2> SUFFICES ASSUME ChatInv, client # "closed" PROVE InTurns
        BY DEF InTurns
    <2> QED BY DEF ChatInv, TypeOK, TurnInv, InTransit, Busy, InTurns
<1> QED BY <1>1, ChatInvariance, PTL

\* What the client reads answers what it wrote, and the counter is the number of
\* its own requests, however many signals come.
THEOREM AnswersMatch == Spec => []AnswersTheRequest
<1>1. ChatInv => AnswersTheRequest
    <2> SUFFICES ASSUME ChatInv PROVE AnswersTheRequest
        OBVIOUS
    <2>1. NoAnswer.kind = "empty"
        BY AnswerFields DEF NoAnswer
    <2> QED BY <2>1 DEF ChatInv, RequestInv, Answers, AnswersTheRequest
<1> QED BY <1>1, ChatInvariance, PTL
=============================================================================
