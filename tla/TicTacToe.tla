------------------------------ MODULE TicTacToe ------------------------------
(***************************************************************************)
(* The rules of tic-tac-toe, as usr/src/tictactoe_gm.c has them: the grid, *)
(* who has won, and games in which the participants play in turn until the *)
(* game is decided.  The identifiers come from tictactoe.h, which is not   *)
(* in the repository; minmax(-player, ...) makes the two opposite.         *)
(***************************************************************************)
EXTENDS Integers

EMPTY_ID == 0
PLAYER_ID == 1
AI_ID == -1

Cell == 0 .. 8
Grid == [Cell -> {EMPTY_ID, PLAYER_ID, AI_ID}]

VARIABLES
    grid,   \* game.grid
    turn    \* who plays next

gameVars == <<grid, turn>>

Lines == {{0, 1, 2}, {3, 4, 5}, {6, 7, 8}, {0, 3, 6}, {1, 4, 7}, {2, 5, 8}, {0, 4, 8}, {2, 4, 6}}

EmptyCells(g) == {i \in Cell : g[i] = EMPTY_ID}

HasLine(g, id) == \E line \in Lines : \A i \in line : g[i] = id

\* win(), on grid g.
win(g) == IF HasLine(g, PLAYER_ID) \/ HasLine(g, AI_ID) THEN "WIN"
          ELSE IF EmptyCells(g) # {} THEN "PROGRESS" ELSE "DRAW"

EmptyGrid == [i \in Cell |-> EMPTY_ID]

Init == grid = EmptyGrid /\ turn = PLAYER_ID

Move(i) ==
    /\ win(grid) = "PROGRESS"
    /\ i \in EmptyCells(grid)
    /\ grid' = [grid EXCEPT ![i] = turn]
    /\ turn' = -turn

NewGame ==
    /\ win(grid) # "PROGRESS"
    /\ grid' = EmptyGrid
    /\ turn' = PLAYER_ID

Next == NewGame \/ \E i \in Cell : Move(i)

Spec == Init /\ [][Next]_gameVars
=============================================================================
