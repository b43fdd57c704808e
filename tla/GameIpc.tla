------------------------------- MODULE GameIpc -------------------------------
(***************************************************************************)
(* The tic-tac-toe game played by two processes: the game manager          *)
(* (usr/src/tictactoe_gm.c), which forks the player                        *)
(* (usr/src/tictactoe_player.c) and talks to it over the two pipes of      *)
(* usr/src/tictactoe_ipc.c.                                                *)
(*                                                                         *)
(* The pipes of SO3 are outside the repository: a pipe is a bounded FIFO   *)
(* of commands; writing to one that no process can read kills the writer.  *)
(* gm_get_cmd() reads the descriptor of the write side of pipe1; the model *)
(* takes it that both descriptors of a pipe reach its buffer.  The player  *)
(* program is assumed to be found by execl().                              *)
(***************************************************************************)
EXTENDS Integers, Sequences, FiniteSets, FiniteSetsExt

CONSTANTS
    MAX_DEPTH,     \* the depth of the min-max search
    PipeCapacity   \* commands a pipe can hold

ASSUME GameIpcAssumption == MAX_DEPTH \in Nat \ {0} /\ PipeCapacity \in Nat \ {0}

EMPTY_ID == 0
PLAYER_ID == 1
AI_ID == -1

Command == {"GAME_START", "YOU_CAN_PLAY", "MOVE_REJECTED",
            "YOU_WIN", "YOU_LOSE", "NO_WINNER", "GAME_END"}

VARIABLES
    grid,      \* game.grid
    over,      \* game.over
    player,    \* whose turn it is, in game_manager()
    gm,        \* where the game manager is
    pl,        \* where the player process is, "none" if there is none
    pipe1,     \* from the player to the game manager: moves
    pipe2,     \* from the game manager to the player: commands
    readers2,  \* the processes that hold the read side of pipe2
    shown      \* the result the player process has displayed

vars == <<grid, over, player, gm, pl, pipe1, pipe2, readers2, shown>>

Game == INSTANCE TicTacToe WITH turn <- IF gm = "check" THEN -player ELSE player

TypeOK ==
    /\ grid \in Game!Grid
    /\ over \in BOOLEAN
    /\ player \in {PLAYER_ID, AI_ID}
    /\ gm \in {"init", "start", "loop", "get", "reject", "check", "wait", "scan",
               "exit", "killed"}
    /\ pl \in {"none", "get", "input", "exit"}
    /\ pipe1 \in Seq(Game!Cell)
    /\ pipe2 \in Seq(Command)
    /\ readers2 \in SUBSET {"gm", "player"}
    /\ shown \in {"nothing", "YOU_WIN", "YOU_LOSE", "NO_WINNER", "GAME_END"}

Init ==
    /\ grid = Game!EmptyGrid
    /\ over = FALSE
    /\ player = PLAYER_ID
    /\ gm = "init"
    /\ pl = "none"
    /\ pipe1 = <<>>
    /\ pipe2 = <<>>
    /\ readers2 = {}
    /\ shown = "nothing"

-----------------------------------------------------------------------------
\* The computer

\* A search: how deep, on which grid, and who moves.
Search == (0 .. MAX_DEPTH) \X Game!Grid \X {PLAYER_ID, AI_ID}

\* The score of grid g for p, when f gives the scores one move deeper: the first
\* move with a positive score, or else the best score.  A search that runs out of
\* depth or of moves scores 0, whether or not the grid is won.
BestScore(f, depth, g, p) ==
    LET Score(i) == -f[<<depth - 1, [g EXCEPT ![i] = p], -p>>]
        Moves == Game!EmptyCells(g)
        Good == {i \in Moves : Score(i) > 0}
    IN  IF depth = 0 \/ Moves = {} THEN 0
        ELSE IF Good # {} THEN Score(Min(Good))
        ELSE Max({Score(i) : i \in Moves})

minmax[s \in Search] == BestScore(minmax, s[1], s[2], s[3])

\* The first of the moves with the best score.
computers_turn ==
    LET Score(i) == -minmax[<<MAX_DEPTH - 1, [grid EXCEPT ![i] = AI_ID], AI_ID>>]
        Moves == Game!EmptyCells(grid)
    IN  Min({i \in Moves : \A j \in Moves : Score(j) <= Score(i)})

-----------------------------------------------------------------------------
\* The game manager

\* gm_send_cmd(), then the game manager is at next.
gm_send_cmd(cmd, next) ==
    /\ Len(pipe2) < PipeCapacity
    /\ IF readers2 = {}
       THEN gm' = "killed" /\ UNCHANGED pipe2
       ELSE gm' = next /\ pipe2' = Append(pipe2, cmd)

gm_get_cmd == pipe1 # <<>> /\ pipe1' = Tail(pipe1)

player_get_cmd == pipe2 # <<>> /\ pipe2' = Tail(pipe2)

player_send_cmd(cmd) == Len(pipe1) < PipeCapacity /\ pipe1' = Append(pipe1, cmd)

\* Two new pipes: those of the last game were closed.
ipc_init == pipe1' = <<>> /\ pipe2' = <<>>

\* The game manager closes its descriptors.
ipc_close == readers2' = readers2 \ {"gm"}

\* Mutant: the game manager closes the side of pipe2 it does not use.
ForkPlayerClosing ==
    /\ gm = "init"
    /\ gm' = "start"
    /\ pl' = "get"
    /\ readers2' = {"player"}
    /\ UNCHANGED <<grid, over, player, pipe1, pipe2, shown>>

\* init_game(), ipc_init() and the fork: both processes have all descriptors.
ForkPlayer ==
    /\ gm = "init"
    /\ gm' = "start"
    /\ pl' = "get"
    /\ readers2' = {"gm", "player"}
    /\ UNCHANGED <<grid, over, player, pipe1, pipe2, shown>>

SendStart ==
    /\ gm = "start"
    /\ gm_send_cmd("GAME_START", "loop")
    /\ UNCHANGED <<grid, over, player, pl, pipe1, readers2, shown>>

AskPlayer ==
    /\ gm = "loop" /\ ~over /\ player = PLAYER_ID
    /\ gm_send_cmd("YOU_CAN_PLAY", "get")
    /\ UNCHANGED <<grid, over, player, pl, pipe1, readers2, shown>>

\* Mutant: the move is not compared with the grid.
LegalRange(move) == move \in Game!Cell

\* The test of get_player_move().
Legal(move) == move \in Game!EmptyCells(grid)

\* The move of the player is read, and played or refused.
GetMove ==
    /\ gm = "get"
    /\ gm_get_cmd
    /\ IF Legal(Head(pipe1))
       THEN grid' = [grid EXCEPT ![Head(pipe1)] = PLAYER_ID] /\ gm' = "check"
       ELSE gm' = "reject" /\ UNCHANGED grid
    /\ UNCHANGED <<over, player, pl, pipe2, readers2, shown>>

\* Mutant: the player is asked again without waiting for its answer.
RejectTwice ==
    /\ gm = "reject"
    /\ gm_send_cmd("MOVE_REJECTED", "loop")
    /\ UNCHANGED <<grid, over, player, pl, pipe1, readers2, shown>>

\* Mutant: the player is not told.
RejectSilently ==
    /\ gm = "reject"
    /\ gm' = "get"
    /\ UNCHANGED <<grid, over, player, pl, pipe1, pipe2, readers2, shown>>

RejectMove ==
    /\ gm = "reject"
    /\ gm_send_cmd("MOVE_REJECTED", "get")
    /\ UNCHANGED <<grid, over, player, pl, pipe1, readers2, shown>>

ComputerPlays ==
    /\ gm = "loop" /\ ~over /\ player = AI_ID
    /\ grid' = [grid EXCEPT ![computers_turn] = AI_ID]
    /\ gm' = "check"
    /\ UNCHANGED <<over, player, pl, pipe1, pipe2, readers2, shown>>

\* Mutant: the participant who plays next is taken for the winner.
ResultOfNext(state) == IF state = "DRAW" THEN "NO_WINNER"
                       ELSE IF player = PLAYER_ID THEN "YOU_LOSE" ELSE "YOU_WIN"

\* What check_game_state() sends for a game that is over.
Result(state) == IF state = "DRAW" THEN "NO_WINNER"
                 ELSE IF player = PLAYER_ID THEN "YOU_WIN" ELSE "YOU_LOSE"

CheckGameState ==
    /\ gm = "check"
    /\ IF Game!win(grid) = "PROGRESS"
       THEN gm' = "loop" /\ UNCHANGED <<over, pipe2>>
       ELSE gm_send_cmd(Result(Game!win(grid)), "loop") /\ over' = TRUE
    /\ player' = -player
    /\ UNCHANGED <<grid, pl, pipe1, readers2, shown>>

SendEnd ==
    /\ gm = "loop" /\ over
    /\ gm_send_cmd("GAME_END", "wait")
    /\ UNCHANGED <<grid, over, player, pl, pipe1, readers2, shown>>

\* waitpid() returns, and ipc_close() closes the four descriptors.
WaitPlayer ==
    /\ gm = "wait" /\ pl = "exit"
    /\ gm' = "scan"
    /\ pl' = "none"
    /\ ipc_close
    /\ UNCHANGED <<grid, over, player, pipe1, pipe2, shown>>

\* The user answers Y: a new game on new pipes.
PlayAgain ==
    /\ gm = "scan"
    /\ grid' = Game!EmptyGrid /\ over' = FALSE /\ player' = PLAYER_ID
    /\ gm' = "init" /\ ipc_init /\ shown' = "nothing"
    /\ UNCHANGED <<pl, readers2>>

\* Anything else ends the program.
Quit ==
    /\ gm = "scan"
    /\ gm' = "exit"
    /\ UNCHANGED <<grid, over, player, pl, pipe1, pipe2, readers2, shown>>

-----------------------------------------------------------------------------
\* The player

\* player_get_cmd() and the switch of main().
PlayerGetsCmd ==
    /\ pl = "get"
    /\ player_get_cmd
    /\ LET cmd == Head(pipe2) IN
         CASE cmd = "GAME_START" -> UNCHANGED <<pl, shown, readers2>>
           [] cmd \in {"YOU_CAN_PLAY", "MOVE_REJECTED"} ->
                pl' = "input" /\ UNCHANGED <<shown, readers2>>
           [] OTHER -> /\ pl' = "exit" /\ shown' = cmd
                       /\ readers2' = readers2 \ {"player"}
    /\ UNCHANGED <<grid, over, player, gm, pipe1>>

\* parse_line() lets only 1..9 through; the user may name a cell already taken.
PlayerMoves(move) ==
    /\ pl = "input"
    /\ player_send_cmd(move)
    /\ pl' = "get"
    /\ UNCHANGED <<grid, over, player, gm, pipe2, readers2, shown>>

-----------------------------------------------------------------------------

ManagerNext ==
    \/ ForkPlayer \/ SendStart \/ AskPlayer \/ GetMove \/ RejectMove
    \/ ComputerPlays \/ CheckGameState \/ SendEnd \/ WaitPlayer

\* The program has ended.
Stopped == gm \in {"exit", "killed"} /\ UNCHANGED vars

Next ==
    \/ ManagerNext
    \/ PlayAgain \/ Quit
    \/ PlayerGetsCmd
    \/ \E move \in Game!Cell : PlayerMoves(move)
    \/ Stopped

Spec == Init /\ [][Next]_vars

\* Both processes are scheduled, and the user does not name taken cells for ever.
Fairness ==
    /\ WF_vars(ManagerNext)
    /\ WF_vars(PlayerGetsCmd)
    /\ SF_vars(\E move \in Game!EmptyCells(grid) : PlayerMoves(move))

FairSpec == Spec /\ Fairness

-----------------------------------------------------------------------------
\* Properties

\* The places in pipe2 of the requests for a move.
Requests == {k \in DOMAIN pipe2 : pipe2[k] \in {"YOU_CAN_PLAY", "MOVE_REJECTED"}}

\* One answer per request: the game manager waits for a move exactly while one
\* request is in pipe2, or with the user, or its answer is in pipe1.  So no move
\* is ever read as the answer to another question.
OneRequestOneAnswer ==
    Cardinality(Requests) + (IF pl = "input" THEN 1 ELSE 0) + Len(pipe1) = (IF gm = "get" THEN 1 ELSE 0)

\* Two commands of room in pipe2 are enough, and no write breaks the pipe: with that
\* room the game manager never blocks in a write, so that the two processes cannot
\* each be stuck in a write to the other; and it is never killed by one, though the
\* player exits on the result and leaves the GAME_END that follows unread.
WritesNeverFail == Len(pipe2) <= 2 /\ Len(pipe1) <= 1 /\ gm # "killed"

\* What the player process displays is the outcome of the grid, and never that
\* the game ended unexpectedly.
ResultIsTrue ==
    shown # "nothing" =>
        /\ shown = "YOU_WIN" <=> Game!HasLine(grid, PLAYER_ID)
        /\ shown = "YOU_LOSE" <=> Game!HasLine(grid, AI_ID)
        /\ shown = "NO_WINNER" => Game!win(grid) = "DRAW"
        /\ shown # "GAME_END"

\* The two processes play tic-tac-toe: each move is made in turn, on an empty
\* cell, while the game is undecided.
PlaysTicTacToe == Game!Spec

\* A game that has begun ends with the player process waited for.
GameFinishes == gm = "start" ~> gm = "scan"
=============================================================================
