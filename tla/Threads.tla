-------------------------------- MODULE Threads --------------------------------
(***************************************************************************)
(* usr/src/threads.c of lab 03: the letters of a file are counted by       *)
(* threads, each over a chunk of the text and in counters of its own, and  *)
(* the main thread adds the counters once it has joined them all.          *)
(*                                                                         *)
(* Characters are numbers; the pthread functions are external.             *)
(***************************************************************************)
EXTENDS Integers, Sequences, FiniteSets

CONSTANTS
    LETTERS_NB,      \* letters counted
    CHILDREN_LIMIT,  \* most threads
    Files,           \* what the file may contain: sequences of characters
    ThreadArgs,      \* the first argument, after sscanf()
    SizeRange        \* 2^w for a size_t of w bits

A_UPPER_OFFSET == 65
A_LOWER_OFFSET == 97

ASSUME ThreadsAssumption ==
    /\ LETTERS_NB \in 1 .. 26
    /\ CHILDREN_LIMIT \in Nat \ {0}
    /\ Files \subseteq Seq(0 .. 255)
    /\ ThreadArgs \subseteq Int
    /\ SizeRange \in Nat /\ SizeRange > 256

VARIABLES
    file, text,   \* the content of the file, and the string in the buffer
    thread_num, chunk_size, leftovers,
    i, j,         \* loop variables of main()
    pc,           \* where main() is
    thread,       \* "none", "running" or "ended"
    text_pointer, size, counters,   \* params[], one per thread
    position,     \* loop variable of each count_letters()
    result_counters

mainVars == <<file, text, thread_num, chunk_size, leftovers, result_counters>>
paramVars == <<text_pointer, size>>
vars == <<mainVars, i, j, pc, thread, paramVars, counters, position>>

Id == 0 .. CHILDREN_LIMIT - 1
Letter == 0 .. LETTERS_NB - 1
NoCounts == [l \in Letter |-> 0]

TypeOK ==
    /\ file \in Files /\ text \in Seq(0 .. 255)
    /\ thread_num \in Int
    /\ chunk_size \in Nat /\ leftovers \in Nat
    /\ i \in Nat /\ j \in Nat
    /\ pc \in {"loading", "splitting", "creating", "joining", "merging", "done", "failed",
               "invalid"}
    /\ thread \in [Id -> {"none", "running", "ended"}]
    /\ text_pointer \in [Id -> Nat] /\ size \in [Id -> Nat] /\ position \in [Id -> Nat]
    /\ counters \in [Id -> [Letter -> Nat]]
    /\ result_counters \in [Letter -> Nat]

Init ==
    /\ file \in Files /\ text = <<>>
    /\ thread_num \in ThreadArgs
    /\ chunk_size = 0 /\ leftovers = 0
    /\ i = 0 /\ j = 0
    /\ pc = "loading"
    /\ thread = [t \in Id |-> "none"]
    /\ text_pointer = [t \in Id |-> 0] /\ size = [t \in Id |-> 0]
    /\ position = [t \in Id |-> 0]
    /\ counters = [t \in Id |-> NoCounts]
    /\ result_counters = NoCounts

-----------------------------------------------------------------------------
\* main(), up to the creation of the threads

\* The number of characters before the first NUL.
strlen(s) == Cardinality({n \in DOMAIN s : \A k \in 1 .. n : s[k] # 0})

\* The number of threads is capped, the file read, and its length taken with
\* strlen().  A file that cannot be read ends the program.
LoadText ==
    /\ pc = "loading"
    /\ thread_num' = IF thread_num > CHILDREN_LIMIT THEN CHILDREN_LIMIT ELSE thread_num
    /\ text' = SubSeq(file, 1, strlen(file))
    /\ pc' \in {"splitting", "failed"}
    /\ UNCHANGED <<file, chunk_size, leftovers, result_counters, i, j, thread,
                   paramVars, counters, position>>

\* The quotient and the remainder.  The division by 0 is undefined.  malloc() may
\* fail, which ends the program, and does for a negative number, a huge size_t.
SplitText ==
    /\ pc = "splitting"
    /\ IF thread_num > 0
       THEN /\ chunk_size' = Len(text) \div thread_num
            /\ leftovers' = Len(text) - thread_num * chunk_size'
            /\ pc' \in {"creating", "failed"}
       ELSE /\ pc' = IF thread_num = 0 THEN "invalid" ELSE "failed"
            /\ UNCHANGED <<chunk_size, leftovers>>
    /\ UNCHANGED <<file, text, thread_num, result_counters, i, j, thread, paramVars,
                   counters, position>>

\* Mutant: every thread takes the leftovers.
LeftoversForAll(t) == chunk_size + leftovers

ChunkSize(t) == chunk_size + (IF t = thread_num - 1 THEN leftovers ELSE 0)

\* pthread_create() may fail, and exit() then ends the threads already running.
CreateThread ==
    /\ pc = "creating" /\ i < thread_num
    /\ text_pointer' = [text_pointer EXCEPT ![i] = i * chunk_size]
    /\ size' = [size EXCEPT ![i] = ChunkSize(i)]
    /\ counters' = [counters EXCEPT ![i] = NoCounts]
    /\ \/ thread' = [thread EXCEPT ![i] = "running"] /\ i' = i + 1 /\ UNCHANGED pc
       \/ pc' = "failed" /\ UNCHANGED <<thread, i>>
    /\ UNCHANGED <<mainVars, j, position>>

AllCreated ==
    /\ pc = "creating" /\ i = thread_num
    /\ i' = 0
    /\ pc' = "joining"
    /\ UNCHANGED <<mainVars, j, thread, paramVars, counters, position>>

-----------------------------------------------------------------------------
\* count_letters()

tolower(c) == IF c \in A_UPPER_OFFSET .. A_UPPER_OFFSET + 25 THEN c + 32 ELSE c

\* Mutant: upper case letters are not converted.
IndexNoCase(c) == (c - A_LOWER_OFFSET) % SizeRange

\* The index of a character, as a size_t: huge for what is below 'a'.
Index(c) == (tolower(c) - A_LOWER_OFFSET) % SizeRange

\* Mutant: the loop variable is a number of 2 bits.
CountLetterWraps(t) ==
    /\ pc \notin {"failed", "done"}
    /\ thread[t] = "running" /\ position[t] < size[t]
    /\ position' = [position EXCEPT ![t] = (@ + 1) % 4]
    /\ UNCHANGED <<mainVars, i, j, pc, thread, paramVars, counters>>

\* One turn of the loop: the byte after the text is the NUL of the buffer.
CountLetter(t) ==
    /\ pc \notin {"failed", "done"}
    /\ thread[t] = "running" /\ position[t] < size[t]
    /\ LET k == text_pointer[t] + position[t] + 1
           index == IF k <= Len(text) THEN Index(text[k]) ELSE Index(0)
       IN counters' = IF index < LETTERS_NB
                      THEN [counters EXCEPT ![t][index] = @ + 1] ELSE counters
    /\ position' = [position EXCEPT ![t] = @ + 1]
    /\ UNCHANGED <<mainVars, i, j, pc, thread, paramVars>>

EndThread(t) ==
    /\ pc \notin {"failed", "done"}
    /\ thread[t] = "running" /\ position[t] = size[t]
    /\ thread' = [thread EXCEPT ![t] = "ended"]
    /\ UNCHANGED <<mainVars, i, j, pc, paramVars, counters, position>>

-----------------------------------------------------------------------------
\* main(), after the creation

\* Mutant: the last thread is not joined.
JoinsAllButLast == thread_num - 1

Joined == thread_num

JoinThread ==
    /\ pc = "joining" /\ i < Joined
    /\ thread[i] = "ended"
    /\ i' = i + 1
    /\ UNCHANGED <<mainVars, j, pc, thread, paramVars, counters, position>>

AllJoined ==
    /\ pc = "joining" /\ i = Joined
    /\ i' = 0 /\ j' = 0
    /\ pc' = "merging"
    /\ UNCHANGED <<mainVars, thread, paramVars, counters, position>>

\* One turn of the inner loop: letter i of thread j is added to the result.
MergeCounter ==
    /\ pc = "merging" /\ i < LETTERS_NB /\ j < thread_num
    /\ result_counters' = [result_counters EXCEPT ![i] = @ + counters[j][i]]
    /\ j' = j + 1
    /\ UNCHANGED <<file, text, thread_num, chunk_size, leftovers, i, pc, thread, paramVars,
                   counters, position>>

\* One turn of the outer loop.
NextLetter ==
    /\ pc = "merging" /\ i < LETTERS_NB /\ j = thread_num
    /\ i' = i + 1 /\ j' = 0
    /\ UNCHANGED <<mainVars, pc, thread, paramVars, counters, position>>

AllMerged ==
    /\ pc = "merging" /\ i = LETTERS_NB
    /\ pc' = "done"
    /\ UNCHANGED <<mainVars, i, j, thread, paramVars, counters, position>>

Main == LoadText \/ SplitText \/ CreateThread \/ AllCreated \/ JoinThread \/ AllJoined
        \/ MergeCounter \/ NextLetter \/ AllMerged

\* The program has ended.
Ended == pc \in {"done", "failed", "invalid"} /\ UNCHANGED vars

Next == Main \/ (\E t \in Id : CountLetter(t) \/ EndThread(t)) \/ Ended

Spec == Init /\ [][Next]_vars

\* Main and the threads are all scheduled, by round robin.
Fairness == WF_vars(Main) /\ \A t \in Id : WF_vars(CountLetter(t) \/ EndThread(t))

FairSpec == Spec /\ Fairness

-----------------------------------------------------------------------------
\* Properties

Chunk(t) == text_pointer[t] .. text_pointer[t] + size[t] - 1

\* No two threads count the same character, and once they are all created every
\* character of the text has its thread: the split of main(), with the
\* leftovers given to the last thread, is exact for every number of threads,
\* also when there are more threads than characters.
EachCharacterOnce ==
    /\ \A s, t \in Id : s # t /\ thread[s] # "none" /\ thread[t] # "none"
                            => Chunk(s) \cap Chunk(t) = {}
    /\ pc \in {"joining", "merging", "done"} =>
           UNION {Chunk(t) : t \in {u \in Id : thread[u] # "none"}} = 0 .. Len(text) - 1

\* The counters are read when no thread writes them any more: main() adds them
\* after it has joined every thread it created.
MergedAfterJoin ==
    pc \in {"merging", "done"} => \A t \in Id : thread[t] # "running"

\* The numbers printed are those of the letters of the text, in either case: no
\* increment is lost, none is made twice, by whatever interleaving.
CountsTheText ==
    pc = "done" => \A l \in Letter :
        result_counters[l] = Cardinality({k \in DOMAIN text :
                                text[k] \in {A_LOWER_OFFSET + l, A_UPPER_OFFSET + l}})

\* The program ends: every thread it joins comes to the end of its chunk.
ProgramEnds == <>(pc \in {"done", "failed", "invalid"})
=============================================================================
