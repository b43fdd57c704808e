------------------------------ MODULE SocketChat ------------------------------
(***************************************************************************)
(* The client and the server of lab 04, usr/src/socket_client.c and        *)
(* usr/src/socket_server.c, from the moment they are connected.            *)
(*                                                                         *)
(* The client is driven by signals: their handlers write message_to_send,  *)
(* at any time, and its loop reads that variable twice, before and after   *)
(* the write, then clears it.  Every read of it is taken to load it from   *)
(* memory, as if it were volatile.  The socket, outside the repository, is *)
(* a FIFO of whole messages in each direction; the server's read() returns *)
(* 0 or an error when the client has closed and all is read, and its write *)
(* to a closed client may end it (SIGPIPE).                                *)
(***************************************************************************)
EXTENDS Integers, Sequences

CONSTANT MaxSignals   \* bound: the signals the user sends

ASSUME SocketChatAssumption == MaxSignals \in Nat

Request == {"BONJOUR", "AUREVOIR", "COMPTEUR", "QUITTER"}

\* An answer: "client" for a greeting, with the greeting it repeats, or the
\* value of the counter.
Answer(kind, value) == [kind |-> kind, value |-> value]
NoAnswer == Answer("empty", 0)

VARIABLES
    message_to_send,  \* 0, "GREETING", "COUNTING" or "QUITING"
    isHello,          \* whether the next greeting is BONJOUR
    client,           \* where the client is
    clientRunning,    \* running, in the client
    toServer,         \* the requests in the socket
    toClient,         \* the answers in the socket
    server,           \* where the server is
    receiveBuff,      \* the last request the server read
    sendBuff,         \* the last answer the server prepared
    counter,          \* the counter of the server
    signals,          \* the signals sent so far
    asked,            \* history: the request the client last wrote
    answer,           \* history: the answer the client last read, NoAnswer
                      \* once it has prepared another request
    counted           \* history: the COMPTEUR requests the client has prepared

vars == <<message_to_send, isHello, client, clientRunning, toServer, toClient,
          server, receiveBuff, sendBuff, counter, signals, asked, answer, counted>>

AnswerSet == [kind : {"empty", "BONJOUR", "AUREVOIR", "COMPTEUR"}, value : 0 .. MaxSignals + 1]

TypeOK ==
    /\ message_to_send \in {"none", "GREETING", "COUNTING", "QUITING"}
    /\ isHello \in BOOLEAN /\ clientRunning \in BOOLEAN
    /\ client \in {"prepare", "write", "choose", "read", "clear", "closed"}
    /\ toServer \in Seq(Request)
    /\ toClient \in Seq(AnswerSet)
    /\ server \in {"read", "handle", "write", "closed", "killed"}
    /\ receiveBuff \in Request \cup {"empty"}
    /\ sendBuff \in AnswerSet
    /\ counter \in Nat
    /\ signals \in 0 .. MaxSignals
    /\ asked \in Request \cup {"empty"}
    /\ answer \in AnswerSet
    /\ counted \in 0 .. MaxSignals

Init ==
    /\ message_to_send = "none" /\ isHello = TRUE
    /\ client = "prepare" /\ clientRunning = TRUE
    /\ toServer = <<>> /\ toClient = <<>>
    /\ server = "read" /\ receiveBuff = "empty" /\ sendBuff = NoAnswer
    /\ counter = 0
    /\ signals = 0 /\ asked = "empty" /\ answer = NoAnswer /\ counted = 0

serverVars == <<server, receiveBuff, sendBuff, counter>>
clientVars == <<message_to_send, isHello, client, clientRunning, asked, answer, counted>>

-----------------------------------------------------------------------------
\* The client

\* SIGUSR1, SIGUSR2 or SIGINT: process_siguser() and process_sigint().
Signal(message) ==
    /\ client # "closed"
    /\ signals < MaxSignals
    /\ signals' = signals + 1
    /\ message_to_send' = message
    /\ UNCHANGED <<isHello, client, clientRunning, toServer, toClient, asked, answer, counted>>
    /\ UNCHANGED serverVars

\* The message of the first switch.
Message == CASE message_to_send = "GREETING" -> IF isHello THEN "BONJOUR" ELSE "AUREVOIR"
             [] message_to_send = "COUNTING" -> "COMPTEUR"
             [] message_to_send = "QUITING" -> "QUITTER"

\* Mutant: running stays set.
PrepareKeepsRunning ==
    /\ client = "prepare" /\ clientRunning
    /\ message_to_send # "none"
    /\ client' = "write"
    /\ asked' = Message /\ answer' = NoAnswer
    /\ counted' = counted + (IF Message = "COMPTEUR" THEN 1 ELSE 0)
    /\ isHello' = (isHello # (message_to_send = "GREETING"))
    /\ UNCHANGED <<message_to_send, clientRunning, toServer, toClient, signals>>
    /\ UNCHANGED serverVars

\* The first switch; with no message to send, the client goes round.
Prepare ==
    /\ client = "prepare" /\ clientRunning
    /\ message_to_send # "none"
    /\ client' = "write"
    /\ asked' = Message /\ answer' = NoAnswer
    /\ counted' = counted + (IF Message = "COMPTEUR" THEN 1 ELSE 0)
    /\ isHello' = (isHello # (message_to_send = "GREETING"))
    /\ clientRunning' = (message_to_send # "QUITING")
    /\ UNCHANGED <<message_to_send, toServer, toClient, signals>>
    /\ UNCHANGED serverVars

ClientWrite ==
    /\ client = "write"
    /\ toServer' = Append(toServer, asked)
    /\ client' = "choose"
    /\ UNCHANGED <<message_to_send, isHello, clientRunning, toClient, signals, asked, answer,
                   counted>>
    /\ UNCHANGED serverVars

\* Mutant: the client does not wait for the answer.
ChooseNeverReads ==
    /\ client = "choose"
    /\ client' = "clear"
    /\ UNCHANGED <<message_to_send, isHello, clientRunning, toServer, toClient, signals, asked,
                   answer, counted>>
    /\ UNCHANGED serverVars

\* The second switch, on message_to_send as it is now.
Choose ==
    /\ client = "choose"
    /\ IF message_to_send \in {"GREETING", "COUNTING"}
       THEN client' = "read" /\ UNCHANGED clientRunning
       ELSE client' = "clear" /\ clientRunning' = FALSE
    /\ UNCHANGED <<message_to_send, isHello, toServer, toClient, signals, asked, answer,
                   counted>>
    /\ UNCHANGED serverVars

\* The answer; the server never ends before it has written one.
ClientRead ==
    /\ client = "read"
    /\ toClient # <<>>
    /\ answer' = Head(toClient)
    /\ toClient' = Tail(toClient)
    /\ client' = "clear"
    /\ UNCHANGED <<message_to_send, isHello, clientRunning, toServer, signals, asked, counted>>
    /\ UNCHANGED serverVars

\* message_to_send = 0, whatever a handler wrote since the second switch; the
\* client leaves the loop if it is no longer running.
Clear ==
    /\ client = "clear"
    /\ message_to_send' = "none"
    /\ client' = IF clientRunning THEN "prepare" ELSE "closed"
    /\ UNCHANGED <<isHello, clientRunning, toServer, toClient, signals, asked, answer,
                   counted>>
    /\ UNCHANGED serverVars

-----------------------------------------------------------------------------
\* The server

\* read(): a request; or, from a closed client, 0 bytes, which leaves the last
\* request in the buffer to be handled again, or an error, which ends the loop.
ServerRead ==
    /\ server = "read"
    /\ \/ /\ toServer # <<>>
          /\ receiveBuff' = Head(toServer)
          /\ toServer' = Tail(toServer)
          /\ server' = "handle"
       \/ /\ toServer = <<>> /\ client = "closed"
          /\ UNCHANGED <<receiveBuff, toServer>>
          /\ \/ /\ counter <= MaxSignals   \* bound: the same request is handled again and again
                /\ server' = "handle"
             \/ server' = "closed"
    /\ UNCHANGED <<toClient, sendBuff, counter, signals>>
    /\ UNCHANGED clientVars

\* Mutant: the counter is incremented after its value is formatted.
HandlePostIncrement ==
    /\ server = "handle"
    /\ server' = "write"
    /\ counter' = counter + (IF receiveBuff = "COMPTEUR" THEN 1 ELSE 0)
    /\ sendBuff' = CASE receiveBuff \in {"BONJOUR", "AUREVOIR"} -> Answer(receiveBuff, 0)
                     [] receiveBuff = "COMPTEUR" -> Answer("COMPTEUR", counter)
                     [] OTHER -> sendBuff
    /\ UNCHANGED <<toServer, toClient, receiveBuff, signals>>
    /\ UNCHANGED clientVars

\* The comparisons with the four requests; QUITTER leaves the old answer in sendBuff.
Handle ==
    /\ server = "handle"
    /\ server' = "write"
    /\ counter' = counter + (IF receiveBuff = "COMPTEUR" THEN 1 ELSE 0)
    /\ sendBuff' = CASE receiveBuff \in {"BONJOUR", "AUREVOIR"} -> Answer(receiveBuff, 0)
                     [] receiveBuff = "COMPTEUR" -> Answer("COMPTEUR", counter')
                     [] OTHER -> sendBuff
    /\ UNCHANGED <<toServer, toClient, receiveBuff, signals>>
    /\ UNCHANGED clientVars

\* The answer is written, also the one to QUITTER; then the loop ends on QUITTER.
ServerWrite ==
    /\ server = "write"
    /\ \/ server' = IF receiveBuff = "QUITTER" THEN "closed" ELSE "read"
       \/ client = "closed" /\ server' = "killed"
    /\ toClient' = IF client = "closed" THEN toClient ELSE Append(toClient, sendBuff)
    /\ UNCHANGED <<toServer, receiveBuff, sendBuff, counter, signals>>
    /\ UNCHANGED clientVars

-----------------------------------------------------------------------------

ClientNext == Prepare \/ ClientWrite \/ Choose \/ ClientRead \/ Clear
ServerNext == ServerRead \/ Handle \/ ServerWrite

Next ==
    \/ \E message \in {"GREETING", "COUNTING", "QUITING"} : Signal(message)
    \/ ClientNext
    \/ ServerNext

Spec == Init /\ [][Next]_vars

\* Both programs are scheduled.
Fairness == WF_vars(ClientNext) /\ WF_vars(ServerNext)

FairSpec == Spec /\ Fairness

-----------------------------------------------------------------------------
\* Properties

\* The two programs take turns, whatever the signals: while the client is
\* connected, its request is in the socket, with the server, or answered in the
\* socket, once.  Neither reads two messages for one (the loops read a buffer
\* of BUFFER_LEN with no framing).
InTurns ==
    client # "closed" =>
        Len(toServer) + Len(toClient) + (IF server \in {"handle", "write"} THEN 1 ELSE 0)
            <= (IF client \in {"choose", "read", "clear"} THEN 1 ELSE 0)

\* What the client prints answers what it asked, although it decides to read
\* from message_to_send and not from what it sent, and the counter it sees counts
\* its own requests, each once; only QUITTER, which the server answers with the
\* contents of an old buffer, may show something else.
AnswersTheRequest ==
    /\ answer # NoAnswer /\ asked # "QUITTER" => answer.kind = asked
    /\ answer.kind = "COMPTEUR" => answer.value = counted

\* Once the client has prepared QUITTER both programs end, even if another
\* signal comes between the two switches and the client waits for an answer.
QuitEndsBoth ==
    asked = "QUITTER" ~> (client = "closed" /\ server \in {"closed", "killed"})
=============================================================================
