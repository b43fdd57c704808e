----------------------------- MODULE GameIpcProofs -----------------------------
(***************************************************************************)
(* Proofs about GameIpc, for any depth of the search and any capacity of   *)
(* the pipes: the protocol of the two processes, and the truth of what the *)
(* player sees.                                                            *)
(***************************************************************************)
EXTENDS GameIpc, FiniteSetTheorems, SequenceTheorems, WellFoundedInduction, TLAPS

\* The contents of pipe2, next command first.
Carries(c) == Len(pipe2) = 1 /\ pipe2[1] = c
CarriesTwo(c, d) == Len(pipe2) = 2 /\ pipe2[1] = c /\ pipe2[2] = d

Quiet == Len(pipe1) = 0 /\ Len(pipe2) = 0

\* Command r tells the outcome of the grid.
Outcome(r) ==
    /\ r \in {"YOU_WIN", "YOU_LOSE", "NO_WINNER"}
    /\ r = "YOU_WIN" <=> Game!HasLine(grid, PLAYER_ID)
    /\ r = "YOU_LOSE" <=> Game!HasLine(grid, AI_ID)
    /\ r = "NO_WINNER" => Game!win(grid) = "DRAW"

\* The game goes on: what the pipes hold and where the player is, at each place
\* of the game manager.
TalkInv ==
    /\ gm = "init" => Quiet /\ pl = "none"
    /\ gm \in {"start", "reject", "check"} => Quiet /\ pl = "get"
    /\ gm \in {"init", "start", "get", "reject"} => player = PLAYER_ID
    /\ gm = "loop" /\ ~over =>
         /\ Len(pipe1) = 0 /\ pl = "get"
         /\ Len(pipe2) = 0 \/ (player = PLAYER_ID /\ Carries("GAME_START"))
    /\ gm = "get" =>
         \/ /\ pl = "get" /\ Len(pipe1) = 0
            /\ \/ Carries("YOU_CAN_PLAY") \/ Carries("MOVE_REJECTED")
               \/ CarriesTwo("GAME_START", "YOU_CAN_PLAY")
         \/ pl = "input" /\ Quiet
         \/ pl = "get" /\ Len(pipe2) = 0 /\ Len(pipe1) = 1

\* The game is over.
EndInv ==
    /\ gm = "loop" /\ over =>
         /\ Len(pipe1) = 0
         /\ \/ pl = "get" /\ Len(pipe2) = 1 /\ Outcome(pipe2[1])
            \/ pl = "exit" /\ Len(pipe2) = 0 /\ Outcome(shown)
    /\ gm = "wait" =>
         /\ Len(pipe1) = 0
         /\ \/ pl = "get" /\ CarriesTwo(pipe2[1], "GAME_END") /\ Outcome(pipe2[1])
            \/ pl = "exit" /\ Carries("GAME_END") /\ Outcome(shown)
    /\ gm \in {"scan", "exit"} =>
         pl = "none" /\ Len(pipe1) = 0 /\ Carries("GAME_END") /\ Outcome(shown)

\* Nobody is killed: the game manager itself keeps pipe2 readable.
PipeInv ==
    /\ gm # "killed"
    /\ gm \in {"start", "loop", "get", "reject", "check"} => "gm" \in readers2

\* Nobody has won before the result is sent, except by the move that is being
\* checked; nothing is displayed before the player exits.
PlayInv ==
    /\ gm \in {"init", "start", "get", "reject", "check"} => ~over
    /\ ~over /\ gm # "check" => ~Game!HasLine(grid, PLAYER_ID) /\ ~Game!HasLine(grid, AI_ID)
    /\ gm = "check" => ~Game!HasLine(grid, -player)
    /\ gm = "init" \/ pl \in {"get", "input"} => shown = "nothing"

IInv == TypeOK /\ TalkInv /\ EndInv /\ PipeInv /\ PlayInv

-----------------------------------------------------------------------------
\* Lemmas about the pipes

\* A write that finds a reader.
LEMMA SendCommand ==
    ASSUME TypeOK, "gm" \in readers2, NEW cmd \in Command, NEW next, gm_send_cmd(cmd, next)
    PROVE  /\ gm' = next /\ pipe2' \in Seq(Command)
           /\ Len(pipe2') = Len(pipe2) + 1 /\ pipe2'[Len(pipe2) + 1] = cmd
           /\ \A k \in 1 .. Len(pipe2) : pipe2'[k] = pipe2[k]
<1>1. pipe2 \in Seq(Command)
    BY DEF TypeOK
<1>2. gm' = next /\ pipe2' = Append(pipe2, cmd)
    BY DEF gm_send_cmd
<1> QED BY <1>1, <1>2, AppendProperties

\* A read of a pipe that is not empty.
LEMMA Received ==
    ASSUME NEW S, NEW s \in Seq(S), s # <<>>
    PROVE  /\ Len(s) \in Nat \ {0}
           /\ Head(s) \in S /\ Head(s) = s[1] /\ Tail(s) \in Seq(S)
           /\ Len(Tail(s)) = Len(s) - 1
           /\ \A k \in 1 .. Len(Tail(s)) : Tail(s)[k] = s[k + 1]
<1>1. Len(s) \in Nat \ {0}
    BY EmptySeq
<1>2. Head(s) = s[1]
    OBVIOUS
<1> QED BY <1>1, <1>2, HeadTailProperties

\* The lengths of the pipes are numbers.
LEMMA PipeLengths ==
    ASSUME TypeOK
    PROVE  Len(pipe1) \in Nat /\ Len(pipe2) \in Nat
BY LenProperties DEF TypeOK

-----------------------------------------------------------------------------
\* Lemmas about the game

\* The two participants are opposite numbers.
LEMMA Opposites == -AI_ID = PLAYER_ID /\ -PLAYER_ID = AI_ID /\ PLAYER_ID # AI_ID
<1>1. AI_ID \in Int /\ PLAYER_ID \in Int /\ AI_ID + PLAYER_ID = 0 /\ PLAYER_ID # AI_ID
    BY DEF PLAYER_ID, AI_ID
<1>2. \A m, n \in Int : m + n = 0 => -m = n /\ -n = m
    OBVIOUS
<1> QED BY <1>1, <1>2

\* The lines are made of cells.
LEMMA LinesOfCells == ASSUME NEW line \in Game!Lines PROVE line \subseteq Game!Cell
BY DEF Game!Lines, Game!Cell

\* A move of one participant completes no line of the other.
LEMMA NoLineForTheOther ==
    ASSUME NEW g \in Game!Grid, NEW i, NEW p, NEW id, id # p, ~Game!HasLine(g, id)
    PROVE  ~Game!HasLine([g EXCEPT ![i] = p], id)
<1> DEFINE h == [g EXCEPT ![i] = p]
<1> SUFFICES ASSUME NEW line \in Game!Lines, \A k \in line : h[k] = id PROVE FALSE
    BY DEF Game!HasLine
<1>1. \A k \in Game!Cell : h[k] = IF k = i THEN p ELSE g[k]
    BY DEF Game!Grid
<1>2. \A k \in line : g[k] = id
    <2>1. line \subseteq Game!Cell
        BY LinesOfCells
    <2> QED BY <1>1, <2>1
<1> QED BY <1>2 DEF Game!HasLine

\* Nobody has a line in an empty grid.
LEMMA EmptyGridUndecided ==
    ASSUME NEW id \in {PLAYER_ID, AI_ID}
    PROVE  Game!EmptyGrid \in Game!Grid /\ ~Game!HasLine(Game!EmptyGrid, id)
<1>1. Game!EmptyGrid \in Game!Grid
    BY DEF Game!EmptyGrid, Game!Grid, Game!EMPTY_ID
<1>2. ASSUME NEW line \in Game!Lines PROVE \E k \in line : Game!EmptyGrid[k] # id
    <2>1. PICK k \in line : k \in Game!Cell
        BY <1>2 DEF Game!Lines, Game!Cell
    <2> QED BY <2>1 DEF Game!EmptyGrid, Game!EMPTY_ID, PLAYER_ID, AI_ID
<1> QED BY <1>1, <1>2 DEF Game!HasLine

\* The outcome of a grid depends on nothing else.
LEMMA SameOutcome ==
    ASSUME UNCHANGED grid, NEW r, Outcome(r)
    PROVE  /\ r \in {"YOU_WIN", "YOU_LOSE", "NO_WINNER"}
           /\ r = "YOU_WIN" <=> Game!HasLine(grid', PLAYER_ID)
           /\ r = "YOU_LOSE" <=> Game!HasLine(grid', AI_ID)
           /\ r = "NO_WINNER" => Game!win(grid') = "DRAW"
BY DEF Outcome

\* The outcome that check_game_state() sends.
LEMMA ResultIsOutcome ==
    ASSUME TypeOK, ~Game!HasLine(grid, -player), Game!win(grid) # "PROGRESS"
    PROVE  Outcome(Result(Game!win(grid)))
<1>1. Game!PLAYER_ID = PLAYER_ID /\ Game!AI_ID = AI_ID
    BY DEF Game!PLAYER_ID, Game!AI_ID, PLAYER_ID, AI_ID
<1>2. CASE player = PLAYER_ID
    <2>1. ~Game!HasLine(grid, AI_ID)
        BY <1>2 DEF PLAYER_ID, AI_ID
    <2> QED BY <1>1, <1>2, <2>1 DEF Outcome, Result, Game!win
<1>3. CASE player = AI_ID
    <2>1. ~Game!HasLine(grid, PLAYER_ID) /\ player # PLAYER_ID
        BY <1>3 DEF PLAYER_ID, AI_ID
    <2> QED BY <1>1, <1>3, <2>1 DEF Outcome, Result, Game!win
<1> QED BY <1>2, <1>3 DEF TypeOK

\* While the game is on, nobody has a line.
LEMMA ProgressUndecided ==
    ASSUME Game!win(grid) = "PROGRESS"
    PROVE  ~Game!HasLine(grid, PLAYER_ID) /\ ~Game!HasLine(grid, AI_ID)
BY DEF Game!win, Game!PLAYER_ID, Game!AI_ID, PLAYER_ID, AI_ID

-----------------------------------------------------------------------------
\* The search of the computer

\* A set of natural numbers that is not empty has a least element.
LEMMA MinOf ==
    ASSUME NEW S \in SUBSET Nat, S # {}
    PROVE  Min(S) \in S /\ \A n \in S : Min(S) <= n
<1>1. PICK m \in S : \A n \in S : ~(<<n, m>> \in OpToRel(<, Nat))
    BY NatLessThanWellFounded, WFMin
<1>2. \A n \in S : ~(n < m)
    BY <1>1 DEF OpToRel
<1>3. \A n \in S : m <= n
    BY <1>2
<1> QED BY <1>3 DEF Min

\* When the searches one move deeper score 0, so does this one.
LEMMA NothingToScore ==
    ASSUME NEW f, NEW depth \in 0 .. MAX_DEPTH, NEW g \in Game!Grid,
           NEW p \in {PLAYER_ID, AI_ID},
           depth # 0 => \A h \in Game!Grid, q \in {PLAYER_ID, AI_ID} : f[<<depth - 1, h, q>>] = 0
    PROVE  BestScore(f, depth, g, p) = 0
<1> DEFINE Score(n) == -f[<<depth - 1, [g EXCEPT ![n] = p], -p>>]
           Moves == Game!EmptyCells(g)
           Good == {n \in Moves : Score(n) > 0}
<1>1. BestScore(f, depth, g, p)
      = IF depth = 0 \/ Moves = {} THEN 0
        ELSE IF Good # {} THEN Score(Min(Good))
        ELSE Max({Score(n) : n \in Moves})
    BY DEF BestScore
<1>2. ASSUME depth # 0, NEW n \in Moves
      PROVE  Score(n) = 0
    <2>1. [g EXCEPT ![n] = p] \in Game!Grid
        BY DEF Game!Grid, Game!EmptyCells, Game!Cell, PLAYER_ID, AI_ID, Game!PLAYER_ID,
               Game!AI_ID, Game!EMPTY_ID
    <2>2. -p \in {PLAYER_ID, AI_ID}
        BY Opposites
    <2>3. f[<<depth - 1, [g EXCEPT ![n] = p], -p>>] = 0
        BY <1>2, <2>1, <2>2
    <2> DEFINE score == f[<<depth - 1, [g EXCEPT ![n] = p], -p>>]
    <2>4. score = 0
        BY <2>3
    <2> HIDE DEF score
    <2>5. -score = 0
        <3>1. \A m, q \in Int : m + q = 0 => -m = q
            OBVIOUS
        <3>2. score + 0 = 0 /\ score \in Int /\ 0 \in Int
            BY <2>4
        <3>3. -score = 0
            BY <3>1, <3>2, Zenon
        <3> QED BY <3>3
    <2> QED BY <2>5 DEF score
<1> HIDE DEF Score, Moves
<1>3. CASE depth # 0 /\ Moves # {}
    <2>1. Good = {}
        BY <1>2, <1>3
    <2>2. {Score(n) : n \in Moves} = {0}
        BY <1>2, <1>3
    <2>3. Max({0}) = 0
        <3>1. \E x \in {0} : \A y \in {0} : x >= y
            OBVIOUS
        <3>2. Max({0}) \in {0}
            BY <3>1 DEF Max
        <3> QED BY <3>2
    <2> QED BY <1>1, <1>3, <2>1, <2>2, <2>3
<1> QED BY <1>1, <1>3

\* The definition of minmax has a solution.
LEMMA MinmaxDefined == minmax = [s \in Search |-> BestScore(minmax, s[1], s[2], s[3])]
<1> DEFINE zero == [s \in Search |-> 0]
<1>1. ASSUME NEW s \in Search
      PROVE  BestScore(zero, s[1], s[2], s[3]) = 0
    <2>1. s[1] \in 0 .. MAX_DEPTH /\ s[2] \in Game!Grid /\ s[3] \in {PLAYER_ID, AI_ID}
        BY DEF Search
    <2>2. ASSUME s[1] # 0, NEW h \in Game!Grid, NEW q \in {PLAYER_ID, AI_ID}
          PROVE  zero[<<s[1] - 1, h, q>>] = 0
        <3>1. s[1] - 1 \in 0 .. MAX_DEPTH
            BY <2>1, <2>2, GameIpcAssumption
        <3> QED BY <3>1 DEF Search
    <2> HIDE DEF zero
    <2> QED BY <2>1, <2>2, NothingToScore
<1>2. zero = [s \in Search |-> BestScore(zero, s[1], s[2], s[3])]
    BY <1>1
<1> HIDE DEF zero
<1>3. \E f : f = [s \in Search |-> BestScore(f, s[1], s[2], s[3])]
    BY <1>2
<1> QED BY <1>3 DEF minmax

\* minmax() never scores a grid: 0 is what it returns at its deepest, whoever has won,
\* and the other levels only compare and negate that.
LEMMA MinmaxIsZero == \A s \in Search : minmax[s] = 0
<1> DEFINE Bad == {d \in 0 .. MAX_DEPTH :
                     \E g \in Game!Grid, p \in {PLAYER_ID, AI_ID} : minmax[<<d, g, p>>] # 0}
<1>1. SUFFICES Bad = {}
    <2> SUFFICES ASSUME Bad = {}, NEW s \in Search PROVE minmax[s] = 0
        OBVIOUS
    <2>1. s = <<s[1], s[2], s[3]>> /\ s[1] \in 0 .. MAX_DEPTH /\ s[2] \in Game!Grid
          /\ s[3] \in {PLAYER_ID, AI_ID}
        BY DEF Search
    <2> QED BY <2>1
<1> SUFFICES ASSUME Bad # {} PROVE FALSE
    OBVIOUS
<1>2. Bad \in SUBSET Nat
    BY GameIpcAssumption
<1> DEFINE d == Min(Bad)
<1>3. d \in Bad /\ \A n \in Bad : d <= n
    BY <1>2, MinOf
<1> HIDE DEF d
<1>4. PICK g \in Game!Grid, p \in {PLAYER_ID, AI_ID} : minmax[<<d, g, p>>] # 0
    BY <1>3
<1>5. d \in 0 .. MAX_DEPTH
    BY <1>3
<1>6. ASSUME d # 0, NEW h \in Game!Grid, NEW q \in {PLAYER_ID, AI_ID}
      PROVE  minmax[<<d - 1, h, q>>] = 0
    <2>1. d - 1 \in 0 .. MAX_DEPTH /\ ~(d <= d - 1)
        BY <1>5, <1>6, GameIpcAssumption
    <2>2. d - 1 \notin Bad
        BY <1>3, <2>1
    <2> QED BY <2>1, <2>2
<1>7. BestScore(minmax, d, g, p) = 0
    BY <1>5, <1>6, NothingToScore
<1>8. <<d, g, p>> \in Search
    BY <1>5 DEF Search
<1>9. minmax[<<d, g, p>>] = BestScore(minmax, d, g, p)
    BY <1>8, MinmaxDefined
<1> QED BY <1>4, <1>7, <1>9

\* So the computer plays the first cell that is free, whatever MAX_DEPTH is.
LEMMA FirstFreeCell ==
    ASSUME TypeOK, Game!EmptyCells(grid) # {}
    PROVE  /\ computers_turn = Min(Game!EmptyCells(grid))
           /\ computers_turn \in Game!EmptyCells(grid)
<1> DEFINE Score(n) == -minmax[<<MAX_DEPTH - 1, [grid EXCEPT ![n] = AI_ID], AI_ID>>]
           Moves == Game!EmptyCells(grid)
<1>1. ASSUME NEW n \in Moves
      PROVE  Score(n) = 0
    <2>1. [grid EXCEPT ![n] = AI_ID] \in Game!Grid
        BY DEF TypeOK, Game!Grid, Game!AI_ID, AI_ID
    <2>2. MAX_DEPTH - 1 \in 0 .. MAX_DEPTH
        BY GameIpcAssumption
    <2> DEFINE score == minmax[<<MAX_DEPTH - 1, [grid EXCEPT ![n] = AI_ID], AI_ID>>]
    <2>3. score = 0
        BY <2>1, <2>2, MinmaxIsZero DEF Search
    <2> HIDE DEF score
    <2>4. -score = 0
        <3>1. \A m, q \in Int : m + q = 0 => -m = q
            OBVIOUS
        <3>2. score + 0 = 0 /\ score \in Int /\ 0 \in Int
            BY <2>3
        <3> QED BY <3>1, <3>2, Zenon
    <2> QED BY <2>4 DEF score
<1>2. computers_turn = Min({n \in Moves : \A q \in Moves : Score(q) <= Score(n)})
    BY DEF computers_turn
<1> HIDE DEF Score
<1>3. {n \in Moves : \A q \in Moves : Score(q) <= Score(n)} = Moves
    BY <1>1
<1>4. Moves \in SUBSET Nat
    BY DEF Game!EmptyCells, Game!Cell
<1> HIDE DEF Moves
<1>5. Min(Moves) \in Moves
    <2>1. Moves # {}
        BY DEF Moves
    <2> QED BY <1>4, <2>1, MinOf
<1> QED BY <1>2, <1>3, <1>5 DEF Moves

-----------------------------------------------------------------------------
\* The invariant

LEMMA InitIInv == Init => IInv
<1> SUFFICES ASSUME Init PROVE IInv
    OBVIOUS
<1> USE DEF Init
<1>1. /\ Len(pipe1) = 0 /\ Len(pipe2) = 0
      /\ pipe1 \in Seq(Game!Cell) /\ pipe2 \in Seq(Command)
    BY EmptySeq
<1>2. grid \in Game!Grid /\ \A id \in {PLAYER_ID, AI_ID} : ~Game!HasLine(grid, id)
    BY EmptyGridUndecided
<1>3. TypeOK
    BY <1>1, <1>2 DEF TypeOK
<1>4. TalkInv /\ EndInv /\ PipeInv
    BY <1>1 DEF TalkInv, EndInv, PipeInv, Quiet
<1>5. PlayInv
    BY <1>2 DEF PlayInv
<1> QED BY <1>3, <1>4, <1>5 DEF IInv

LEMMA ForkPlayerStep ==
    ASSUME IInv, ForkPlayer
    PROVE  IInv'
<1> USE DEF ForkPlayer
<1>1. TypeOK'
    BY DEF IInv, TypeOK
<1>2. TalkInv' /\ EndInv' /\ PipeInv'
    BY DEF IInv, TalkInv, EndInv, PipeInv, Quiet
<1>3. PlayInv'
    BY DEF IInv, PlayInv
<1> QED BY <1>1, <1>2, <1>3 DEF IInv

LEMMA SendStartStep ==
    ASSUME IInv, SendStart
    PROVE  IInv'
<1> USE DEF SendStart
<1>1. /\ Len(pipe2) = 0 /\ pl = "get" /\ Len(pipe1) = 0 /\ ~over /\ player = PLAYER_ID
      /\ "gm" \in readers2
    BY DEF IInv, TalkInv, Quiet, PlayInv, PipeInv
<1>2. gm' = "loop" /\ pipe2' \in Seq(Command) /\ Len(pipe2') = 1 /\ pipe2'[1] = "GAME_START"
    BY <1>1, SendCommand DEF IInv, Command
<1>3. TypeOK'
    BY <1>2 DEF IInv, TypeOK
<1>4. TalkInv' /\ EndInv' /\ PipeInv'
    BY <1>1, <1>2 DEF TalkInv, EndInv, PipeInv, Carries
<1>5. PlayInv'
    BY <1>1, <1>2 DEF IInv, PlayInv
<1> QED BY <1>3, <1>4, <1>5 DEF IInv

LEMMA AskPlayerStep ==
    ASSUME IInv, AskPlayer
    PROVE  IInv'
<1> USE DEF AskPlayer
<1>1. /\ pl = "get" /\ Len(pipe1) = 0 /\ "gm" \in readers2
      /\ Len(pipe2) = 0 \/ Carries("GAME_START")
    BY DEF IInv, TalkInv, PipeInv
<1>2. gm' = "get" /\ pipe2' \in Seq(Command)
    BY <1>1, SendCommand DEF IInv, Command
<1>3. Carries("YOU_CAN_PLAY")' \/ CarriesTwo("GAME_START", "YOU_CAN_PLAY")'
    <2>1. /\ Len(pipe2') = Len(pipe2) + 1 /\ pipe2'[Len(pipe2) + 1] = "YOU_CAN_PLAY"
          /\ \A k \in 1 .. Len(pipe2) : pipe2'[k] = pipe2[k]
        BY <1>1, SendCommand DEF IInv, Command
    <2>2. CASE Len(pipe2) = 0
        BY <2>1, <2>2 DEF Carries
    <2>3. CASE Carries("GAME_START")
        BY <2>1, <2>3 DEF Carries, CarriesTwo
    <2> QED BY <1>1, <2>2, <2>3
<1>4. TypeOK'
    BY <1>2 DEF IInv, TypeOK
<1>5. TalkInv' /\ EndInv' /\ PipeInv'
    BY <1>1, <1>2, <1>3 DEF TalkInv, EndInv, PipeInv
<1>6. PlayInv'
    BY <1>2 DEF IInv, PlayInv
<1> QED BY <1>4, <1>5, <1>6 DEF IInv

LEMMA GetMoveStep ==
    ASSUME IInv, GetMove
    PROVE  IInv'
<1> USE DEF GetMove, gm_get_cmd
<1>1. /\ player = PLAYER_ID /\ pl = "get" /\ Len(pipe1) = 1 /\ Len(pipe2) = 0
      /\ ~over /\ "gm" \in readers2
    <2>1. Len(pipe1) \in Nat \ {0}
        BY Received DEF IInv, TypeOK
    <2> QED BY <2>1 DEF IInv, TalkInv, PipeInv, PlayInv, Quiet
<1>2. pipe1' \in Seq(Game!Cell) /\ Len(pipe1') = 0
    BY <1>1, Received DEF IInv, TypeOK
<1>3. CASE Legal(Head(pipe1))
    <2>1. grid' = [grid EXCEPT ![Head(pipe1)] = PLAYER_ID] /\ gm' = "check"
        BY <1>3
    <2>2. grid' \in Game!Grid
        BY <2>1 DEF IInv, TypeOK, Game!Grid, Game!PLAYER_ID, PLAYER_ID
    <2>3. ~Game!HasLine(grid', -player)
        <3>1. -player = AI_ID /\ AI_ID # PLAYER_ID
            BY <1>1 DEF PLAYER_ID, AI_ID
        <3>2. ~Game!HasLine(grid, AI_ID)
            BY <1>1 DEF IInv, PlayInv
        <3> QED BY <2>1, <3>1, <3>2, NoLineForTheOther DEF IInv, TypeOK
    <2>4. TypeOK'
        BY <1>2, <2>1, <2>2 DEF IInv, TypeOK
    <2>5. TalkInv' /\ EndInv' /\ PipeInv'
        BY <1>1, <1>2, <2>1 DEF TalkInv, EndInv, PipeInv, Quiet
    <2>6. PlayInv'
        BY <1>1, <2>1, <2>3 DEF IInv, PlayInv
    <2> QED BY <2>4, <2>5, <2>6 DEF IInv
<1>4. CASE ~Legal(Head(pipe1))
    <2>1. TypeOK'
        BY <1>2, <1>4 DEF IInv, TypeOK
    <2>2. TalkInv' /\ EndInv' /\ PipeInv'
        BY <1>1, <1>2, <1>4 DEF TalkInv, EndInv, PipeInv, Quiet
    <2>3. PlayInv'
        BY <1>4 DEF IInv, PlayInv
    <2> QED BY <2>1, <2>2, <2>3 DEF IInv
<1> QED BY <1>3, <1>4

LEMMA RejectMoveStep ==
    ASSUME IInv, RejectMove
    PROVE  IInv'
<1> USE DEF RejectMove
<1>1. /\ Len(pipe2) = 0 /\ pl = "get" /\ Len(pipe1) = 0 /\ ~over /\ player = PLAYER_ID
      /\ "gm" \in readers2
    BY DEF IInv, TalkInv, Quiet, PlayInv, PipeInv
<1>2. /\ gm' = "get" /\ pipe2' \in Seq(Command) /\ Len(pipe2') = 1
      /\ pipe2'[1] = "MOVE_REJECTED"
    BY <1>1, SendCommand DEF IInv, Command
<1>3. TypeOK'
    BY <1>2 DEF IInv, TypeOK
<1>4. TalkInv' /\ EndInv' /\ PipeInv'
    BY <1>1, <1>2 DEF TalkInv, EndInv, PipeInv, Carries
<1>5. PlayInv'
    BY <1>2 DEF IInv, PlayInv
<1> QED BY <1>3, <1>4, <1>5 DEF IInv

LEMMA ComputerPlaysStep ==
    ASSUME IInv, ComputerPlays
    PROVE  IInv'
<1> USE DEF ComputerPlays
<1>1. pl = "get" /\ Len(pipe1) = 0 /\ Len(pipe2) = 0 /\ "gm" \in readers2
    BY DEF IInv, TalkInv, PipeInv, AI_ID, PLAYER_ID
<1>2. PICK i : grid' = [grid EXCEPT ![i] = AI_ID]
    OBVIOUS
<1>3. grid' \in Game!Grid
    BY <1>2 DEF IInv, TypeOK, Game!Grid, Game!AI_ID, AI_ID
<1>4. ~Game!HasLine(grid', -player)
    <2>1. player = AI_ID
        OBVIOUS
    <2>2. -player = PLAYER_ID /\ PLAYER_ID # AI_ID
        BY <2>1, Opposites
    <2>3. ~Game!HasLine(grid, PLAYER_ID) /\ grid \in Game!Grid
        BY DEF IInv, TypeOK, PlayInv
    <2>4. ~Game!HasLine(grid', PLAYER_ID)
        BY ONLY <1>2, <2>2, <2>3, NoLineForTheOther
    <2> QED BY <2>2, <2>4
<1>5. TypeOK'
    BY <1>3 DEF IInv, TypeOK
<1>6. TalkInv' /\ EndInv' /\ PipeInv'
    BY <1>1 DEF TalkInv, EndInv, PipeInv, Quiet
<1>7. PlayInv'
    BY <1>4 DEF IInv, PlayInv
<1> QED BY <1>5, <1>6, <1>7 DEF IInv

LEMMA CheckGameStateStep ==
    ASSUME IInv, CheckGameState
    PROVE  IInv'
<1> USE DEF CheckGameState
<1>1. /\ Quiet /\ pl = "get" /\ ~over /\ "gm" \in readers2
      /\ shown = "nothing" /\ ~Game!HasLine(grid, -player)
    BY DEF IInv, TalkInv, PlayInv, PipeInv
<1>2. player' \in {PLAYER_ID, AI_ID}
    BY DEF IInv, TypeOK, PLAYER_ID, AI_ID
<1>3. CASE Game!win(grid) = "PROGRESS"
    <2>1. ~Game!HasLine(grid, PLAYER_ID) /\ ~Game!HasLine(grid, AI_ID)
        BY <1>3, ProgressUndecided
    <2>2. TypeOK'
        BY <1>2, <1>3 DEF IInv, TypeOK
    <2>3. TalkInv' /\ EndInv' /\ PipeInv'
        BY <1>1, <1>3 DEF TalkInv, EndInv, PipeInv, Quiet
    <2>4. PlayInv'
        BY <1>1, <1>3, <2>1 DEF PlayInv
    <2> QED BY <2>2, <2>3, <2>4 DEF IInv
<1>4. CASE Game!win(grid) # "PROGRESS"
    <2> DEFINE r == Result(Game!win(grid))
    <2>1. Outcome(r) /\ r \in Command
        <3>1. Outcome(r)
            BY <1>1, <1>4, ResultIsOutcome DEF IInv
        <3> QED BY <3>1 DEF Outcome, Command
    <2> HIDE DEF r
    <2>2. /\ gm' = "loop" /\ over' = TRUE /\ pipe2' \in Seq(Command)
          /\ Len(pipe2') = 1 /\ pipe2'[1] = r
        <3>1. gm_send_cmd(r, "loop") /\ over' = TRUE
            BY <1>4 DEF r
        <3> QED BY <1>1, <2>1, <3>1, SendCommand DEF IInv, Quiet
    <2>3. Outcome(pipe2[1])'
        BY <2>1, <2>2, SameOutcome DEF Outcome
    <2>4. TypeOK'
        BY <1>2, <2>2 DEF IInv, TypeOK
    <2>5. TalkInv' /\ EndInv' /\ PipeInv'
        BY <1>1, <2>2, <2>3 DEF TalkInv, EndInv, PipeInv, Quiet
    <2>6. PlayInv'
        BY <1>1, <2>2 DEF PlayInv
    <2> QED BY <2>4, <2>5, <2>6 DEF IInv
<1> QED BY <1>3, <1>4

LEMMA SendEndStep ==
    ASSUME IInv, SendEnd
    PROVE  IInv'
<1> USE DEF SendEnd
<1>1. "gm" \in readers2
    BY DEF IInv, PipeInv
<1>2. /\ gm' = "wait" /\ pipe2' \in Seq(Command) /\ Len(pipe2') = Len(pipe2) + 1
      /\ pipe2'[Len(pipe2) + 1] = "GAME_END"
      /\ \A k \in 1 .. Len(pipe2) : pipe2'[k] = pipe2[k]
    BY <1>1, SendCommand DEF IInv, Command
<1>3. Len(pipe2) = 1 => pipe2'[1] = pipe2[1]
    BY <1>2
<1>4. TypeOK'
    BY <1>2 DEF IInv, TypeOK
<1>5. EndInv'
    <2>1. CASE pl = "get" /\ Len(pipe2) = 1 /\ Outcome(pipe2[1])
        <3>1. CarriesTwo(pipe2[1], "GAME_END")' /\ Outcome(pipe2[1])'
            BY <1>2, <1>3, <2>1, SameOutcome DEF CarriesTwo, Outcome
        <3> QED BY <1>2, <2>1, <3>1 DEF IInv, EndInv
    <2>2. CASE pl = "exit" /\ Len(pipe2) = 0 /\ Outcome(shown)
        <3>1. Outcome(shown)' /\ Carries("GAME_END")'
            BY <1>2, <2>2, SameOutcome DEF Outcome, Carries
        <3> QED BY <1>2, <2>2, <3>1 DEF IInv, EndInv
    <2> QED BY <2>1, <2>2 DEF IInv, EndInv
<1>6. TalkInv' /\ PipeInv'
    BY <1>2 DEF TalkInv, PipeInv
<1>7. PlayInv'
    BY <1>2 DEF IInv, PlayInv
<1> QED BY <1>4, <1>5, <1>6, <1>7 DEF IInv

LEMMA WaitPlayerStep ==
    ASSUME IInv, WaitPlayer
    PROVE  IInv'
<1> USE DEF WaitPlayer, ipc_close
<1>1. Len(pipe1) = 0 /\ Carries("GAME_END") /\ Outcome(shown)
    BY DEF IInv, EndInv
<1>2. Outcome(shown)' /\ Carries("GAME_END")'
    BY <1>1, SameOutcome DEF Outcome, Carries
<1>3. TypeOK'
    BY DEF IInv, TypeOK
<1>4. TalkInv' /\ EndInv' /\ PipeInv'
    BY <1>1, <1>2 DEF TalkInv, EndInv, PipeInv
<1>5. PlayInv'
    BY DEF IInv, PlayInv
<1> QED BY <1>3, <1>4, <1>5 DEF IInv

LEMMA PlayAgainStep ==
    ASSUME IInv, PlayAgain
    PROVE  IInv'
<1> USE DEF PlayAgain, ipc_init
<1>1. /\ Len(pipe1') = 0 /\ Len(pipe2') = 0
      /\ pipe1' \in Seq(Game!Cell) /\ pipe2' \in Seq(Command)
    BY EmptySeq
<1>2. grid' \in Game!Grid /\ \A id \in {PLAYER_ID, AI_ID} : ~Game!HasLine(grid', id)
    BY EmptyGridUndecided
<1>3. TypeOK'
    BY <1>1, <1>2 DEF IInv, TypeOK
<1>4. TalkInv' /\ EndInv' /\ PipeInv'
    BY <1>1 DEF IInv, TalkInv, EndInv, PipeInv, Quiet
<1>5. PlayInv'
    BY <1>2 DEF PlayInv
<1> QED BY <1>3, <1>4, <1>5 DEF IInv

LEMMA QuitStep ==
    ASSUME IInv, Quit
    PROVE  IInv'
<1> USE DEF Quit
<1>1. Outcome(shown)' /\ Carries("GAME_END")'
    BY SameOutcome DEF IInv, EndInv, Outcome, Carries
<1>2. TypeOK'
    BY DEF IInv, TypeOK
<1>3. TalkInv' /\ EndInv' /\ PipeInv'
    BY <1>1 DEF IInv, TalkInv, EndInv, PipeInv
<1>4. PlayInv'
    BY DEF IInv, PlayInv
<1> QED BY <1>2, <1>3, <1>4 DEF IInv

LEMMA PlayerGetsCmdStep ==
    ASSUME IInv, PlayerGetsCmd
    PROVE  IInv'
<1> USE DEF PlayerGetsCmd, player_get_cmd
<1> DEFINE cmd == Head(pipe2)
<1>1. /\ Len(pipe2) \in Nat \ {0} /\ cmd = pipe2[1] /\ cmd \in Command
      /\ pipe2' \in Seq(Command) /\ Len(pipe2') = Len(pipe2) - 1
      /\ \A k \in 1 .. Len(pipe2') : pipe2'[k] = pipe2[k + 1]
    BY Received DEF IInv, TypeOK
<1> HIDE DEF cmd
<1>2. CASE gm = "loop" /\ ~over
    <2>1. cmd = "GAME_START" /\ Len(pipe2') = 0 /\ Len(pipe1) = 0
        BY <1>1, <1>2 DEF IInv, TalkInv, Carries
    <2>2. UNCHANGED <<pl, shown, readers2>>
        BY <2>1 DEF cmd
    <2>3. TypeOK'
        BY <1>1, <2>2 DEF IInv, TypeOK
    <2>4. TalkInv' /\ EndInv' /\ PipeInv'
        BY <1>2, <2>1, <2>2 DEF IInv, TalkInv, EndInv, PipeInv
    <2>5. PlayInv'
        BY <1>2, <2>2 DEF IInv, PlayInv
    <2> QED BY <2>3, <2>4, <2>5 DEF IInv
<1>3. CASE gm = "get" /\ cmd = "GAME_START"
    <2>1. CarriesTwo("GAME_START", "YOU_CAN_PLAY") /\ Len(pipe1) = 0 /\ player = PLAYER_ID
        BY <1>1, <1>3 DEF IInv, TalkInv, Carries, CarriesTwo, Quiet
    <2>2. Carries("YOU_CAN_PLAY")'
        BY <1>1, <2>1 DEF Carries, CarriesTwo
    <2>3. UNCHANGED <<pl, shown, readers2>>
        BY <1>3 DEF cmd
    <2>4. TypeOK'
        BY <1>1, <2>3 DEF IInv, TypeOK
    <2>5. TalkInv' /\ EndInv' /\ PipeInv'
        BY <1>3, <2>1, <2>2, <2>3 DEF IInv, TalkInv, EndInv, PipeInv
    <2>6. PlayInv'
        BY <1>3, <2>3 DEF IInv, PlayInv
    <2> QED BY <2>4, <2>5, <2>6 DEF IInv
<1>4. CASE gm = "get" /\ cmd # "GAME_START"
    <2>1. cmd \in {"YOU_CAN_PLAY", "MOVE_REJECTED"} /\ Len(pipe2') = 0 /\ Len(pipe1) = 0
        BY <1>1, <1>4 DEF IInv, TalkInv, Carries, CarriesTwo, Quiet
    <2>2. pl' = "input" /\ UNCHANGED <<shown, readers2>>
        BY <2>1 DEF cmd
    <2>3. TypeOK'
        BY <1>1, <2>2 DEF IInv, TypeOK
    <2>4. TalkInv' /\ EndInv' /\ PipeInv'
        BY <1>4, <2>1, <2>2 DEF IInv, TalkInv, EndInv, PipeInv, Quiet
    <2>5. PlayInv'
        BY <1>4, <2>2 DEF IInv, PlayInv
    <2> QED BY <2>3, <2>4, <2>5 DEF IInv
<1>5. CASE (gm = "loop" /\ over) \/ gm = "wait"
    <2>1. Outcome(cmd) /\ Len(pipe1) = 0 /\ Len(pipe2) = IF gm = "wait" THEN 2 ELSE 1
        BY <1>1, <1>5 DEF IInv, EndInv, Carries, CarriesTwo, Outcome, Command
    <2>2. cmd \in {"YOU_WIN", "YOU_LOSE", "NO_WINNER"}
        BY <2>1 DEF Outcome
    <2>3. pl' = "exit" /\ shown' = cmd /\ readers2' = readers2 \ {"player"}
        BY <2>2 DEF cmd
    <2>4. /\ Outcome(shown)'
          /\ gm = "wait" => Carries("GAME_END")'
        <3>1. gm = "wait" => CarriesTwo(pipe2[1], "GAME_END")
            BY <1>1, <1>5, <2>1 DEF IInv, EndInv, Carries
        <3> QED BY <1>1, <2>1, <2>3, <3>1, SameOutcome DEF Outcome, Carries, CarriesTwo
    <2>5. TypeOK'
        BY <1>1, <2>2, <2>3 DEF IInv, TypeOK
    <2>6. TalkInv' /\ EndInv' /\ PipeInv'
        BY <1>1, <1>5, <2>1, <2>3, <2>4 DEF IInv, TalkInv, EndInv, PipeInv
    <2>7. PlayInv'
        BY <1>5, <2>3 DEF IInv, PlayInv
    <2> QED BY <2>5, <2>6, <2>7 DEF IInv
<1>6. gm \in {"loop", "get", "wait"}
    BY <1>1 DEF IInv, TypeOK, TalkInv, EndInv, PipeInv, Quiet
<1> QED BY <1>2, <1>3, <1>4, <1>5, <1>6

LEMMA PlayerMovesStep ==
    ASSUME IInv, NEW move \in Game!Cell, PlayerMoves(move)
    PROVE  IInv'
<1> USE DEF PlayerMoves, player_send_cmd
<1>1. gm = "get" /\ Len(pipe1) = 0 /\ Len(pipe2) = 0 /\ player = PLAYER_ID
    BY DEF IInv, TypeOK, TalkInv, EndInv, PipeInv, Quiet
<1>2. pipe1' \in Seq(Game!Cell) /\ Len(pipe1') = 1
    BY <1>1, AppendProperties DEF IInv, TypeOK
<1>3. TypeOK'
    BY <1>2 DEF IInv, TypeOK
<1>4. TalkInv' /\ EndInv' /\ PipeInv'
    BY <1>1, <1>2 DEF IInv, TalkInv, EndInv, PipeInv
<1>5. PlayInv'
    BY <1>1 DEF IInv, PlayInv
<1> QED BY <1>3, <1>4, <1>5 DEF IInv

LEMMA StutterStep ==
    ASSUME IInv, UNCHANGED vars
    PROVE  IInv'
<1> USE DEF vars
<1>1. TypeOK'
    BY DEF IInv, TypeOK
<1>2. TalkInv' /\ PipeInv'
    BY DEF IInv, TalkInv, PipeInv, Quiet, Carries, CarriesTwo
<1>3. EndInv'
    BY DEF IInv, EndInv, Outcome, Carries, CarriesTwo
<1>4. PlayInv'
    BY DEF IInv, PlayInv
<1> QED BY <1>1, <1>2, <1>3, <1>4 DEF IInv

\* The invariant, along every behaviour.
LEMMA Invariance == Spec => []IInv
<1>1. Init => IInv
    BY InitIInv
<1>2. IInv /\ [Next]_vars => IInv'
    <2> SUFFICES ASSUME IInv, [Next]_vars PROVE IInv'
        OBVIOUS
    <2>1. CASE ManagerNext
        BY <2>1, ForkPlayerStep, SendStartStep, AskPlayerStep, GetMoveStep, RejectMoveStep,
           ComputerPlaysStep, CheckGameStateStep, SendEndStep, WaitPlayerStep DEF ManagerNext
    <2>2. CASE PlayAgain \/ Quit
        BY <2>2, PlayAgainStep, QuitStep
    <2>3. CASE PlayerGetsCmd \/ \E move \in Game!Cell : PlayerMoves(move)
        BY <2>3, PlayerGetsCmdStep, PlayerMovesStep
    <2>4. CASE UNCHANGED vars
        BY <2>4, StutterStep
    <2> QED BY <2>1, <2>2, <2>3, <2>4 DEF Next, Stopped
<1> QED BY <1>1, <1>2, PTL DEF Spec

-----------------------------------------------------------------------------
\* The theorems

\* The grid, the pipes and the two programs keep their types, whatever cell the
\* search names (usr/src/tictactoe_gm.c, tictactoe_player.c, tictactoe_ipc.c).
THEOREM TypeCorrect == Spec => []TypeOK
<1>1. IInv => TypeOK
    BY DEF IInv
<1> QED BY <1>1, Invariance, PTL

\* A move the game manager reads is the answer to its last request, for pipes of
\* any capacity.
THEOREM RequestsAnswered == Spec => []OneRequestOneAnswer
<1>1. IInv => OneRequestOneAnswer
    <2> SUFFICES ASSUME IInv PROVE OneRequestOneAnswer
        OBVIOUS
    <2>1. pipe2 \in Seq(Command) /\ DOMAIN pipe2 = 1 .. Len(pipe2)
        BY LenProperties DEF IInv, TypeOK
    <2>2. Cardinality({}) = 0 /\ Cardinality({1}) = 1 /\ Cardinality({2}) = 1
        BY FS_EmptySet, FS_Singleton
    <2>3. Len(pipe2) = 0 => Requests = {}
        BY <2>1 DEF Requests
    <2>4. ASSUME NEW c, Carries(c)
          PROVE  Requests = IF c \in {"YOU_CAN_PLAY", "MOVE_REJECTED"} THEN {1} ELSE {}
        BY <2>1, <2>4 DEF Requests, Carries
    <2>5. ASSUME NEW c, c \notin {"YOU_CAN_PLAY", "MOVE_REJECTED"},
                 NEW d, CarriesTwo(c, d)
          PROVE  Requests = IF d \in {"YOU_CAN_PLAY", "MOVE_REJECTED"} THEN {2} ELSE {}
        BY <2>1, <2>5 DEF Requests, CarriesTwo
    <2>6. CASE gm = "get"
        <3>1. CASE /\ pl = "get" /\ Len(pipe1) = 0
                   /\ \/ Carries("YOU_CAN_PLAY") \/ Carries("MOVE_REJECTED")
                      \/ CarriesTwo("GAME_START", "YOU_CAN_PLAY")
            <4>1. Requests = {1} \/ Requests = {2}
                BY <2>4, <2>5, <3>1
            <4>2. Cardinality(Requests) = 1
                BY <2>2, <4>1
            <4> QED BY <2>6, <3>1, <4>2 DEF OneRequestOneAnswer
        <3>2. CASE pl = "input" /\ Quiet
            <4>1. Cardinality(Requests) = 0
                BY <2>2, <2>3, <3>2 DEF Quiet
            <4> QED BY <2>6, <3>2, <4>1 DEF Quiet, OneRequestOneAnswer
        <3>3. CASE pl = "get" /\ Len(pipe2) = 0 /\ Len(pipe1) = 1
            <4>1. Cardinality(Requests) = 0
                BY <2>2, <2>3, <3>3
            <4> QED BY <2>6, <3>3, <4>1 DEF OneRequestOneAnswer
        <3> QED BY <2>6, <3>1, <3>2, <3>3 DEF IInv, TalkInv
    <2>7. CASE gm # "get"
        <3>1. Len(pipe1) = 0 /\ pl # "input"
            BY <2>7 DEF IInv, TypeOK, TalkInv, EndInv, PipeInv, Quiet
        <3>2. Requests = {}
            <4>1. CASE gm \in {"init", "start", "reject", "check"}
                BY <2>3, <4>1 DEF IInv, TalkInv, Quiet
            <4>2. CASE gm = "loop" /\ ~over
                BY <2>3, <2>4, <4>2 DEF IInv, TalkInv
            <4>3. CASE gm = "loop" /\ over
                BY <2>3, <2>4, <4>3 DEF IInv, EndInv, Carries, Outcome
            <4>4. CASE gm = "wait"
                <5>1. Carries("GAME_END") => Requests = {}
                    BY <2>4
                <5>2. Outcome(pipe2[1]) => pipe2[1] \notin {"YOU_CAN_PLAY", "MOVE_REJECTED"}
                    BY DEF Outcome
                <5>3. Outcome(pipe2[1]) /\ CarriesTwo(pipe2[1], "GAME_END") => Requests = {}
                    BY <2>5, <5>2
                <5> QED BY <4>4, <5>1, <5>3 DEF IInv, EndInv
            <4>5. CASE gm \in {"scan", "exit"}
                <5>1. Carries("GAME_END") => Requests = {}
                    BY <2>4
                <5> QED BY <4>5, <5>1 DEF IInv, EndInv
            <4> QED BY <2>7, <4>1, <4>2, <4>3, <4>4, <4>5 DEF IInv, TypeOK, PipeInv
        <3> QED BY <2>2, <2>7, <3>1, <3>2 DEF OneRequestOneAnswer
    <2> QED BY <2>6, <2>7
<1> QED BY <1>1, Invariance, PTL

\* pipe2 never holds more than two commands, nor pipe1 more than one, and no write
\* breaks a pipe.  A write may block if a pipe can hold a single command.
THEOREM WritesSucceed == Spec => []WritesNeverFail
<1>1. IInv => WritesNeverFail
    <2> SUFFICES ASSUME IInv PROVE WritesNeverFail
        OBVIOUS
    <2>1. Len(pipe1) \in {0, 1} /\ Len(pipe2) \in {0, 1, 2}
        <3>1. CASE gm \in {"init", "start", "reject", "check"}
            BY <3>1 DEF IInv, TalkInv, Quiet
        <3>2. CASE gm = "get"
            BY <3>2 DEF IInv, TalkInv, Quiet, Carries, CarriesTwo
        <3>3. CASE gm = "loop"
            BY <3>3 DEF IInv, TypeOK, TalkInv, EndInv, Carries
        <3>4. CASE gm \in {"wait", "scan", "exit"}
            BY <3>4 DEF IInv, EndInv, Carries, CarriesTwo
        <3> QED BY <3>1, <3>2, <3>3, <3>4 DEF IInv, TypeOK, PipeInv
    <2>2. \A n \in Nat : (n \in {0, 1} => n <= 1) /\ (n \in {0, 1, 2} => n <= 2)
        OBVIOUS
    <2>3. Len(pipe1) <= 1 /\ Len(pipe2) <= 2
        BY <2>1, <2>2, PipeLengths DEF IInv
    <2> QED BY <2>3 DEF IInv, PipeInv, WritesNeverFail
<1> QED BY <1>1, Invariance, PTL

\* The player is shown the outcome of the grid, whatever the computer plays.
THEOREM TrueResult == Spec => []ResultIsTrue
<1>1. IInv => ResultIsTrue
    <2> SUFFICES ASSUME IInv, shown # "nothing" PROVE ResultIsTrue
        BY DEF ResultIsTrue
    <2>1. Outcome(shown)
        BY DEF IInv, TypeOK, TalkInv, EndInv, PipeInv, PlayInv
    <2> QED BY <2>1 DEF Outcome, ResultIsTrue
<1> QED BY <1>1, Invariance, PTL
-----------------------------------------------------------------------------
\* The rules of the game

\* Wherever a move can be awaited, the game is undecided.
ProgressInv ==
    gm \in {"init", "start", "loop", "get", "reject"} /\ ~over => Game!win(grid) = "PROGRESS"

LEMMA EmptyGridProgress == Game!win(Game!EmptyGrid) = "PROGRESS"
<1>1. \A id \in {PLAYER_ID, AI_ID} : ~Game!HasLine(Game!EmptyGrid, id)
    BY EmptyGridUndecided
<1>2. 0 \in Game!EmptyCells(Game!EmptyGrid)
    BY DEF Game!EmptyCells, Game!EmptyGrid, Game!Cell
<1> QED BY <1>1, <1>2 DEF Game!win, Game!PLAYER_ID, Game!AI_ID, PLAYER_ID, AI_ID

LEMMA NextProgressInv == IInv /\ ProgressInv /\ [Next]_vars => ProgressInv'
<1> SUFFICES ASSUME IInv, ProgressInv, [Next]_vars PROVE ProgressInv'
    OBVIOUS
<1>1. CASE ForkPlayer \/ SendStart \/ AskPlayer \/ RejectMove \/ SendEnd \/ WaitPlayer \/ Quit
    BY <1>1 DEF ForkPlayer, SendStart, AskPlayer, RejectMove, SendEnd, WaitPlayer, Quit,
                gm_send_cmd, ProgressInv
<1>2. CASE GetMove
    BY <1>2 DEF GetMove, ProgressInv
<1>3. CASE ComputerPlays
    BY <1>3 DEF ComputerPlays, ProgressInv
<1>4. CASE CheckGameState
    BY <1>4 DEF CheckGameState, gm_send_cmd, ProgressInv
<1>5. CASE PlayAgain
    BY <1>5, EmptyGridProgress DEF PlayAgain, ProgressInv
<1>6. CASE PlayerGetsCmd \/ (\E move \in Game!Cell : PlayerMoves(move)) \/ UNCHANGED vars
    BY <1>6 DEF PlayerGetsCmd, PlayerMoves, vars, ProgressInv
<1> QED BY <1>1, <1>2, <1>3, <1>4, <1>5, <1>6 DEF Next, ManagerNext, Stopped

\* A move of participant p in an undecided game is one of the rules.
LEMMA MoveOfTheGame ==
    ASSUME IInv, ProgressInv, NEW n \in Game!EmptyCells(grid), gm \in {"loop", "get"}, ~over,
           grid' = [grid EXCEPT ![n] = player], gm' = "check", player' = player
    PROVE  Game!Next
<1>1. n \in Game!Cell /\ Game!win(grid) = "PROGRESS"
    BY DEF ProgressInv, Game!EmptyCells
<1>2. (IF gm = "check" THEN -player ELSE player) = player
    OBVIOUS
<1>3. (IF gm = "check" THEN -player ELSE player)' = -player
    OBVIOUS
<1>4. Game!Move(n)
    BY <1>1, <1>2, <1>3 DEF Game!Move
<1> QED BY <1>1, <1>4 DEF Game!Next

\* A step that plays no cell and passes no turn is none of the game.
LEMMA NoMove ==
    ASSUME UNCHANGED <<grid, player>>, gm' = gm \/ (gm # "check" /\ gm' # "check")
    PROVE  UNCHANGED Game!gameVars
BY DEF Game!gameVars

\* The two processes play tic-tac-toe: each step is a move of the participant whose
\* turn it is, on an empty cell of an undecided game, a new game after a decided
\* one, or no step of the game, for any depth of the search and capacity of the pipes.
THEOREM RefinesTicTacToe == Spec => PlaysTicTacToe
<1>1. Init => Game!Init
    BY DEF Init, Game!Init, Game!PLAYER_ID, PLAYER_ID
<1>2. Init => ProgressInv
    BY EmptyGridProgress DEF Init, ProgressInv
<1>3. IInv /\ ProgressInv /\ [Next]_vars => [Game!Next]_Game!gameVars
    <2> SUFFICES ASSUME IInv, ProgressInv, [Next]_vars
                 PROVE  Game!Next \/ UNCHANGED Game!gameVars
        OBVIOUS
    <2>1. CASE ForkPlayer \/ SendStart \/ AskPlayer \/ RejectMove \/ SendEnd \/ WaitPlayer \/ Quit
        <3>1. /\ UNCHANGED <<grid, player>>
              /\ gm # "check" /\ gm' # "check"
            BY <2>1 DEF ForkPlayer, SendStart, AskPlayer, RejectMove, SendEnd, WaitPlayer, Quit,
                        gm_send_cmd
        <3> QED BY <3>1, NoMove
    <2>2. CASE GetMove
        <3>1. CASE Legal(Head(pipe1))
            <4>1. Head(pipe1) \in Game!EmptyCells(grid) /\ gm = "get" /\ ~over
                  /\ player = PLAYER_ID
                BY <2>2, <3>1 DEF GetMove, Legal, IInv, PlayInv, TalkInv
            <4>2. grid' = [grid EXCEPT ![Head(pipe1)] = player] /\ gm' = "check"
                  /\ player' = player
                BY <2>2, <3>1, <4>1 DEF GetMove
            <4> QED BY <4>1, <4>2, MoveOfTheGame
        <3>2. CASE ~Legal(Head(pipe1))
            BY <2>2, <3>2, NoMove DEF GetMove
        <3> QED BY <3>1, <3>2
    <2>3. CASE ComputerPlays
        <3>1. gm = "loop" /\ ~over /\ player = AI_ID /\ player' = player /\ gm' = "check"
              /\ grid' = [grid EXCEPT ![computers_turn] = player]
            BY <2>3 DEF ComputerPlays
        <3>2. Game!EmptyCells(grid) # {}
            BY <3>1 DEF ProgressInv, Game!win
        <3>3. computers_turn \in Game!EmptyCells(grid)
            BY <3>2, FirstFreeCell DEF IInv
        <3> QED BY <3>1, <3>3, MoveOfTheGame
    <2>4. CASE CheckGameState
        <3>1. gm = "check" /\ gm' # "check" /\ player' = -player /\ grid' = grid
            BY <2>4 DEF CheckGameState, gm_send_cmd
        <3> QED BY <3>1 DEF Game!gameVars
    <2>5. CASE PlayAgain
        <3>1. gm = "scan" /\ gm' = "init" /\ player' = PLAYER_ID /\ grid' = Game!EmptyGrid
            BY <2>5 DEF PlayAgain
        <3>2. Outcome(shown)
            BY <3>1 DEF IInv, EndInv
        <3>3. Game!win(grid) # "PROGRESS"
            BY <3>2 DEF Outcome, Game!win, Game!PLAYER_ID, Game!AI_ID, PLAYER_ID, AI_ID
        <3>4. Game!NewGame
            BY <3>1, <3>3 DEF Game!NewGame, Game!PLAYER_ID, PLAYER_ID
        <3> QED BY <3>4 DEF Game!Next
    <2>6. CASE PlayerGetsCmd \/ (\E move \in Game!Cell : PlayerMoves(move)) \/ UNCHANGED vars
        <3>1. UNCHANGED <<grid, player, gm>>
            BY <2>6 DEF PlayerGetsCmd, PlayerMoves, vars
        <3> QED BY <3>1, NoMove
    <2> QED BY <2>1, <2>2, <2>3, <2>4, <2>5, <2>6 DEF Next, ManagerNext, Stopped
<1> QED BY <1>1, <1>2, <1>3, Invariance, NextProgressInv, PTL DEF Spec, PlaysTicTacToe, Game!Spec
=============================================================================
