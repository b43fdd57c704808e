-------------------------- MODULE LabProgramsProofs --------------------------
(***************************************************************************)
(* Proofs about two programs of the laboratories.  Threads, for every      *)
(* text, number of threads and of letters: the split of the text is exact, *)
(* the counters are added when no thread writes them, and they count the   *)
(* letters.  MemReplace, for every number of pages and every sequence of   *)
(* accesses: faults exchange pages, LRU puts out the oldest and WSClock    *)
(* spares the pages that were used.                                        *)
(***************************************************************************)
EXTENDS Threads, MemReplace, FiniteSetTheorems, WellFoundedInduction, SequenceTheorems, TLAPS

Created(t) == thread[t] # "none"

\* Which threads exist, at each place of main().
ControlInv ==
    /\ pc \in {"loading", "splitting", "invalid"} => \A t \in Id : ~Created(t)
    /\ pc \in {"loading", "splitting"} => i = 0
    /\ pc # "loading" => thread_num <= CHILDREN_LIMIT
    /\ pc \in {"creating", "joining", "merging", "done"} => thread_num >= 1
    /\ pc = "creating" => i <= thread_num /\ \A t \in Id : Created(t) <=> t < i
    /\ pc \in {"joining", "merging", "done"} => \A t \in Id : Created(t) <=> t < thread_num
    /\ pc = "joining" => i <= thread_num /\ \A t \in Id : t < i => thread[t] = "ended"
    /\ pc \in {"merging", "done"} => \A t \in Id : thread[t] # "running"

\* What the threads were created with.
SplitInv ==
    /\ pc \in {"creating", "joining", "merging", "done"} =>
           Len(text) = chunk_size * thread_num + leftovers
    /\ \A t \in Id : Created(t) =>
           t < thread_num /\ text_pointer[t] = t * chunk_size /\ size[t] = ChunkSize(t)

IInv == TypeOK /\ ControlInv /\ SplitInv

-----------------------------------------------------------------------------
\* Lemmas about the operators

\* strlen() is at most the length of the buffer.
LEMMA StrlenBound ==
    ASSUME NEW s \in Seq(0 .. 255)
    PROVE  strlen(s) \in 0 .. Len(s)
<1> DEFINE T == {n \in DOMAIN s : \A k \in 1 .. n : s[k] # 0}
<1>0. Len(s) \in Nat
    OBVIOUS
<1>1. IsFiniteSet(1 .. Len(s)) /\ Cardinality(1 .. Len(s)) = Len(s)
    <2> DEFINE n == Len(s)
    <2> HIDE DEF n
    <2>1. n \in Nat
        BY <1>0 DEF n
    <2>2. IsFiniteSet(1 .. n) /\ Cardinality(1 .. n) = IF 1 > n THEN 0 ELSE n - 1 + 1
        BY <2>1, FS_Interval
    <2>3. IsFiniteSet(1 .. n) /\ Cardinality(1 .. n) = n
        BY <2>1, <2>2
    <2> QED BY <2>3 DEF n
<1>2. T \subseteq 1 .. Len(s)
    OBVIOUS
<1>3. IsFiniteSet(T) /\ Cardinality(T) <= Len(s)
    BY <1>1, <1>2, FS_Subset
<1>4. Cardinality(T) \in Nat
    BY <1>3, FS_CardinalityType
<1> QED BY <1>3, <1>4 DEF strlen

\* The index of a character is a natural number.
LEMMA IndexType ==
    ASSUME NEW c \in 0 .. 255
    PROVE  Index(c) \in Nat
<1>1. tolower(c) - A_LOWER_OFFSET \in Int
    BY DEF tolower, A_UPPER_OFFSET, A_LOWER_OFFSET
<1> QED BY <1>1, ThreadsAssumption DEF Index

\* The chunks are in the order of their threads.
LEMMA ChunkOrder ==
    ASSUME NEW s \in Nat, NEW t \in Nat, NEW c \in Nat, s < t
    PROVE  s * c + c <= t * c
<1>1. PICK k \in Nat : t = s + 1 + k
    <2>1. t - s - 1 \in Nat /\ t = s + 1 + (t - s - 1)
        OBVIOUS
    <2> QED BY <2>1
<1>2. t * c = s * c + c + k * c
    BY <1>1
<1>3. k * c \in Nat
    OBVIOUS
<1>4. s * c \in Nat
    OBVIOUS
<1> QED BY <1>2, <1>3, <1>4

\* A number is between two multiples of a divisor.
LEMMA Division ==
    ASSUME NEW a \in Nat, NEW b \in Nat, b > 0
    PROVE  /\ a \div b \in Nat /\ (a \div b) * b \in Nat
           /\ (a \div b) * b <= a /\ a < (a \div b) * b + b
<1>1. a \div b \in Int /\ (a \div b) * b <= a /\ a < (a \div b) * b + b
    OBVIOUS
<1> DEFINE q == a \div b
<1> HIDE DEF q
<1>2. q >= 0
    <2> SUFFICES ASSUME q <= -1 PROVE FALSE
        BY <1>1 DEF q
    <2>1. PICK k \in Nat : q = -1 - k
        <3>1. -1 - q \in Nat /\ q = -1 - (-1 - q)
            BY <1>1 DEF q
        <3> QED BY <3>1
    <2>2. q * b + b = -(k * b)
        BY <2>1
    <2>3. k * b \in Nat
        OBVIOUS
    <2> QED BY <1>1, <2>2, <2>3 DEF q
<1> QED BY <1>1, <1>2 DEF q

-----------------------------------------------------------------------------
\* The invariant

LEMMA InitIInv == Init => IInv
<1> SUFFICES ASSUME Init PROVE IInv
    OBVIOUS
<1>1. file \in Seq(0 .. 255)
    BY ThreadsAssumption DEF Init
<1>2. TypeOK
    BY <1>1, ThreadsAssumption DEF Init, TypeOK, Id, Letter, NoCounts
<1>3. ControlInv /\ SplitInv
    BY DEF Init, ControlInv, SplitInv, Created
<1> QED BY <1>2, <1>3 DEF IInv

LEMMA LoadStep == IInv /\ LoadText => IInv'
<1> SUFFICES ASSUME IInv, LoadText PROVE IInv'
    OBVIOUS
<1> USE DEF LoadText, mainVars, paramVars
<1>1. file \in Seq(0 .. 255)
    BY ThreadsAssumption DEF IInv, TypeOK
<1>2. text' \in Seq(0 .. 255)
    <2>1. Len(file) \in Nat /\ strlen(file) \in 0 .. Len(file)
        BY <1>1, StrlenBound
    <2>2. \A k \in 1 .. strlen(file) : k \in 1 .. Len(file)
        BY <2>1
    <2>3. \A k \in 1 .. strlen(file) : file[k] \in 0 .. 255
        BY <1>1, <2>2, ElementOfSeq
    <2> QED BY <2>1, <2>3, SubSeqProperties
<1>3. TypeOK'
    BY <1>2, ThreadsAssumption DEF IInv, TypeOK
<1>4. ControlInv'
    BY ThreadsAssumption DEF IInv, TypeOK, ControlInv, Created
<1>5. SplitInv'
    BY DEF IInv, ControlInv, SplitInv, Created
<1> QED BY <1>3, <1>4, <1>5 DEF IInv

LEMMA SplitStep == IInv /\ SplitText => IInv'
<1> SUFFICES ASSUME IInv, SplitText PROVE IInv'
    OBVIOUS
<1> USE DEF SplitText, mainVars, paramVars
<1>1. thread_num \in Int /\ Len(text) \in Nat
    BY DEF IInv, TypeOK
<1>2. CASE thread_num > 0
    <2>1. chunk_size' \in Nat /\ leftovers' \in Nat
          /\ Len(text) = chunk_size' * thread_num + leftovers'
        BY <1>1, <1>2, Division
    <2>2. TypeOK'
        BY <1>2, <2>1 DEF IInv, TypeOK
    <2>3. ControlInv'
        BY <1>1, <1>2 DEF IInv, ControlInv, Created, TypeOK, Id
    <2>4. SplitInv'
        BY <1>2, <2>1 DEF IInv, ControlInv, SplitInv, Created
    <2> QED BY <2>2, <2>3, <2>4 DEF IInv
<1>3. CASE ~(thread_num > 0)
    BY <1>1, <1>3 DEF IInv, TypeOK, ControlInv, SplitInv, Created
<1> QED BY <1>2, <1>3

LEMMA CreateStep == IInv /\ CreateThread => IInv'
<1> SUFFICES ASSUME IInv, CreateThread PROVE IInv'
    OBVIOUS
<1> USE DEF CreateThread, mainVars, paramVars
<1>1. i \in Id /\ i < thread_num /\ i \in Nat /\ thread_num \in Nat /\ ~Created(i)
      /\ thread_num <= CHILDREN_LIMIT
    BY ThreadsAssumption DEF IInv, TypeOK, ControlInv, Id
<1>2. i * chunk_size \in Nat /\ ChunkSize(i) \in Nat
    BY <1>1 DEF IInv, TypeOK, ChunkSize
<1>3. NoCounts \in [Letter -> Nat]
    BY DEF NoCounts
<1>4. TypeOK'
    <2>1. text_pointer' \in [Id -> Nat] /\ size' \in [Id -> Nat]
        BY <1>1, <1>2 DEF IInv, TypeOK
    <2>2. counters' \in [Id -> [Letter -> Nat]]
        BY <1>1, <1>3 DEF IInv, TypeOK
    <2>3. thread' \in [Id -> {"none", "running", "ended"}] /\ i' \in Nat
        BY <1>1, ThreadsAssumption DEF IInv, TypeOK
    <2> QED BY <2>1, <2>2, <2>3 DEF IInv, TypeOK
<1>5. ControlInv'
    <2>1. CASE pc' = "failed"
        BY <1>1, <2>1 DEF ControlInv
    <2>2. CASE thread' = [thread EXCEPT ![i] = "running"] /\ i' = i + 1 /\ UNCHANGED pc
        <3>1. i + 1 <= thread_num
            BY <1>1
        <3>2. \A t \in Id : Created(t)' <=> t < i + 1
            BY <1>1, <2>2, ThreadsAssumption DEF IInv, TypeOK, ControlInv, Created, Id
        <3> QED BY <1>1, <2>2, <3>1, <3>2 DEF ControlInv, Created
    <2> QED BY <2>1, <2>2
<1>6. SplitInv'
    <2>1. \A t \in Id : ChunkSize(t)' = ChunkSize(t)
        BY DEF ChunkSize
    <2>2. ASSUME NEW t \in Id, Created(t)'
          PROVE  t < thread_num /\ text_pointer'[t] = t * chunk_size /\ size'[t] = ChunkSize(t)
        BY <1>1, <2>2 DEF IInv, SplitInv, TypeOK, Created
    <2> QED BY <2>1, <2>2 DEF IInv, SplitInv
<1> QED BY <1>4, <1>5, <1>6 DEF IInv

\* The other steps of main().
LEMMA MainStep ==
    ASSUME IInv, AllCreated \/ JoinThread \/ AllJoined \/ MergeCounter \/ NextLetter \/ AllMerged
    PROVE  IInv'
<1> USE DEF mainVars, paramVars, ChunkSize
<1>1. CASE AllCreated
    <2>1. TypeOK' /\ SplitInv'
        BY <1>1, ThreadsAssumption DEF AllCreated, IInv, TypeOK, SplitInv, Created
    <2>2. ControlInv'
        BY <1>1 DEF AllCreated, IInv, TypeOK, ControlInv, Created, Id
    <2> QED BY <2>1, <2>2 DEF IInv
<1>2. CASE JoinThread
    <2>1. i \in Id /\ i + 1 <= thread_num /\ i + 1 \in Nat
        BY <1>2, ThreadsAssumption DEF JoinThread, Joined, IInv, TypeOK, ControlInv, Id
    <2>2. TypeOK' /\ SplitInv'
        BY <1>2, <2>1 DEF JoinThread, IInv, TypeOK, SplitInv, Created
    <2>3. ControlInv'
        BY <1>2, <2>1 DEF JoinThread, IInv, TypeOK, ControlInv, Created, Id
    <2> QED BY <2>2, <2>3 DEF IInv
<1>3. CASE AllJoined
    <2>1. TypeOK' /\ SplitInv'
        BY <1>3 DEF AllJoined, IInv, TypeOK, SplitInv, Created
    <2>2. ControlInv'
        <3>1. \A t \in Id : thread[t] # "running"
            BY <1>3 DEF AllJoined, Joined, IInv, TypeOK, ControlInv, Created, Id
        <3> QED BY <1>3, <3>1 DEF AllJoined, IInv, ControlInv, Created
    <2> QED BY <2>1, <2>2 DEF IInv
<1>4. CASE MergeCounter
    <2>1. i \in Letter /\ j \in Id /\ j + 1 \in Nat
        BY <1>4, ThreadsAssumption DEF MergeCounter, IInv, TypeOK, ControlInv, Letter, Id
    <2>2. counters[j][i] \in Nat
        BY <2>1 DEF IInv, TypeOK
    <2>3. result_counters' \in [Letter -> Nat]
        BY <1>4, <2>1, <2>2 DEF MergeCounter, IInv, TypeOK
    <2> QED BY <1>4, <2>1, <2>3 DEF MergeCounter, IInv, TypeOK, ControlInv, SplitInv, Created
<1>5. CASE NextLetter
    BY <1>5 DEF NextLetter, IInv, TypeOK, ControlInv, SplitInv, Created
<1>6. CASE AllMerged
    BY <1>6 DEF AllMerged, IInv, TypeOK, ControlInv, SplitInv, Created
<1> QED BY <1>1, <1>2, <1>3, <1>4, <1>5, <1>6

\* The steps of a thread.
LEMMA ThreadStep ==
    ASSUME IInv, NEW t \in Id, CountLetter(t) \/ EndThread(t)
    PROVE  IInv'
<1> USE DEF mainVars, paramVars, ChunkSize
<1>1. CASE CountLetter(t)
    <2>1. counters' \in [Id -> [Letter -> Nat]]
        <3> DEFINE k == text_pointer[t] + position[t] + 1
                   index == IF k <= Len(text) THEN Index(text[k]) ELSE Index(0)
        <3>1. index \in Nat
            <4>1. CASE k <= Len(text)
                <5>1. k \in Nat /\ k >= 1 /\ Len(text) \in Nat /\ text \in Seq(0 .. 255)
                    BY DEF IInv, TypeOK
                <5> HIDE DEF k
                <5>2. k \in 1 .. Len(text)
                    BY <4>1, <5>1
                <5>3. text[k] \in 0 .. 255
                    BY <5>1, <5>2, ElementOfSeq
                <5> QED BY <4>1, <5>3, IndexType
            <4>2. CASE ~(k <= Len(text))
                BY <4>2, IndexType
            <4> QED BY <4>1, <4>2
        <3>2. counters' = IF index < LETTERS_NB
                          THEN [counters EXCEPT ![t][index] = @ + 1] ELSE counters
            BY <1>1 DEF CountLetter
        <3> HIDE DEF index
        <3>3. counters[t] \in [Letter -> Nat] /\ counters \in [Id -> [Letter -> Nat]]
            BY DEF IInv, TypeOK
        <3>4. CASE index < LETTERS_NB
            <4>1. index \in Letter
                BY <3>1, <3>4, ThreadsAssumption DEF Letter
            <4> QED BY <3>2, <3>3, <3>4, <4>1
        <3>5. CASE ~(index < LETTERS_NB)
            BY <3>2, <3>3, <3>5
        <3> QED BY <3>4, <3>5
    <2>2. TypeOK'
        <3>1. position' \in [Id -> Nat]
            BY <1>1 DEF CountLetter, IInv, TypeOK
        <3>2. UNCHANGED <<file, text, thread_num, chunk_size, leftovers, result_counters, i, j,
                          pc, thread, text_pointer, size>>
            BY <1>1 DEF CountLetter
        <3> QED BY <2>1, <3>1, <3>2 DEF IInv, TypeOK
    <2>3. ControlInv' /\ SplitInv'
        BY <1>1 DEF CountLetter, IInv, ControlInv, SplitInv, Created
    <2> QED BY <2>2, <2>3 DEF IInv
<1>2. CASE EndThread(t)
    BY <1>2 DEF EndThread, IInv, TypeOK, ControlInv, SplitInv, Created
<1> QED BY <1>1, <1>2

LEMMA NextIInv == IInv /\ [Next]_vars => IInv'
<1>1. IInv /\ UNCHANGED vars => IInv'
    BY DEF IInv, TypeOK, ControlInv, SplitInv, Created, ChunkSize, vars, mainVars, paramVars
<1> QED BY <1>1, LoadStep, SplitStep, CreateStep, MainStep, ThreadStep DEF Next, Main, Ended

-----------------------------------------------------------------------------
\* Theorems

\* The variables keep their types.
THEOREM TypeCorrect == Spec => []TypeOK
<1>1. IInv => TypeOK
    BY DEF IInv
<1> QED BY <1>1, InitIInv, NextIInv, PTL DEF Spec

\* main() adds the counters when every thread it created has ended.
THEOREM NoRaceOnMerge == Spec => []MergedAfterJoin
<1>1. IInv => MergedAfterJoin
    BY DEF IInv, ControlInv, MergedAfterJoin
<1> QED BY <1>1, InitIInv, NextIInv, PTL DEF Spec

\* The chunks of two threads are apart.
LEMMA ChunksApart ==
    ASSUME IInv, NEW s \in Id, NEW t \in Id, s < t, Created(s), Created(t)
    PROVE  Chunk(s) \cap Chunk(t) = {}
<1>1. s \in Nat /\ t \in Nat /\ chunk_size \in Nat /\ thread_num \in Int
    BY ThreadsAssumption DEF IInv, TypeOK, Id
<1>2. size[s] = chunk_size /\ text_pointer[s] = s * chunk_size
      /\ text_pointer[t] = t * chunk_size
    BY <1>1 DEF IInv, SplitInv, ChunkSize
<1>3. s * chunk_size + chunk_size <= t * chunk_size
    BY <1>1, ChunkOrder
<1>4. s * chunk_size \in Nat /\ t * chunk_size \in Nat /\ size[t] \in Nat
    BY <1>1 DEF IInv, TypeOK
<1> DEFINE a == s * chunk_size  b == t * chunk_size
<1>5. a \in Nat /\ b \in Nat /\ a + chunk_size <= b
    BY <1>3, <1>4
<1>6. Chunk(s) = a .. a + chunk_size - 1 /\ Chunk(t) = b .. b + size[t] - 1
    BY <1>2 DEF Chunk
<1> HIDE DEF a, b
<1> QED BY <1>1, <1>4, <1>5, <1>6

\* Every character is in the chunk of a thread.
LEMMA ChunksCover ==
    ASSUME IInv, pc \in {"joining", "merging", "done"}
    PROVE  UNION {Chunk(t) : t \in {u \in Id : Created(u)}} = 0 .. Len(text) - 1
<1>1. thread_num \in Nat /\ thread_num >= 1 /\ thread_num <= CHILDREN_LIMIT
      /\ chunk_size \in Nat /\ leftovers \in Nat /\ Len(text) \in Nat
      /\ Len(text) = chunk_size * thread_num + leftovers
      /\ CHILDREN_LIMIT \in Nat
    BY ThreadsAssumption DEF IInv, TypeOK, ControlInv, SplitInv
<1>2. \A t \in Id : t \in Nat /\ (Created(t) <=> t < thread_num)
    BY <1>1 DEF IInv, ControlInv, Id
<1> DEFINE last == thread_num - 1
<1>3. last \in Id /\ last \in Nat /\ thread_num = last + 1 /\ Created(last)
    BY <1>1, <1>2 DEF Id
<1>4. last * chunk_size \in Nat /\ chunk_size * thread_num = last * chunk_size + chunk_size
    BY <1>1, <1>3
<1>5. Chunk(last) = last * chunk_size .. Len(text) - 1
    <2>1. text_pointer[last] = last * chunk_size /\ size[last] = chunk_size + leftovers
        BY <1>1, <1>3 DEF IInv, SplitInv, ChunkSize
    <2>2. last * chunk_size + size[last] = Len(text)
        BY <1>1, <1>4, <2>1
    <2>3. Chunk(last) = last * chunk_size .. last * chunk_size + size[last] - 1
        BY <2>1 DEF Chunk
    <2> DEFINE b == last * chunk_size
    <2>4. b \in Nat /\ size[last] \in Nat /\ b + size[last] = Len(text)
        BY <1>1, <1>4, <2>1, <2>2
    <2> HIDE DEF b
    <2>5. b .. b + size[last] - 1 = b .. Len(text) - 1
        BY <2>4
    <2> QED BY <2>3, <2>5 DEF b
<1>6. ASSUME NEW t \in Id, Created(t), t # last
      PROVE  Chunk(t) = t * chunk_size .. t * chunk_size + chunk_size - 1
             /\ t * chunk_size \in Nat /\ t * chunk_size + chunk_size <= last * chunk_size
    <2>1. t \in Nat /\ t < last
        BY <1>1, <1>2, <1>6
    <2>2. text_pointer[t] = t * chunk_size /\ size[t] = chunk_size
        BY <1>1, <1>6 DEF IInv, SplitInv, ChunkSize
    <2> QED BY <1>1, <1>3, <2>1, <2>2, ChunkOrder DEF Chunk
<1>7. ASSUME NEW t \in Id, Created(t)
      PROVE  Chunk(t) \subseteq 0 .. Len(text) - 1
    <2> DEFINE a == t * chunk_size  b == last * chunk_size
    <2>1. b \in Nat /\ b <= Len(text)
        BY <1>1, <1>4
    <2>2. CASE t = last
        BY <1>1, <1>5, <2>1, <2>2
    <2>3. CASE t # last
        <3>1. Chunk(t) = a .. a + chunk_size - 1 /\ a \in Nat /\ a + chunk_size <= b
            BY <1>6, <1>7, <2>3
        <3> HIDE DEF a, b
        <3> QED BY <1>1, <2>1, <3>1
    <2> QED BY <2>2, <2>3
<1>8. ASSUME NEW x \in 0 .. Len(text) - 1
      PROVE  \E t \in Id : Created(t) /\ x \in Chunk(t)
    <2>1. CASE x >= last * chunk_size
        <3>1. x \in Chunk(last)
            BY <1>1, <1>4, <1>5, <2>1
        <3> QED BY <1>3, <3>1
    <2>2. CASE ~(x >= last * chunk_size)
        <3> DEFINE q == x \div chunk_size
        <3>1. chunk_size > 0
            BY <1>1, <1>3, <2>2
        <3>2. q \in Nat /\ q * chunk_size <= x /\ x < q * chunk_size + chunk_size
              /\ q * chunk_size \in Nat
            BY <1>1, <3>1, Division
        <3> HIDE DEF q
        <3>3. q < last
            <4> SUFFICES ASSUME last <= q PROVE FALSE
                BY <1>3, <3>2
            <4>1. last * chunk_size <= q * chunk_size
                <5>1. CASE last = q
                    BY <1>4, <5>1
                <5>2. CASE last < q
                    <6>1. last * chunk_size + chunk_size <= q * chunk_size
                        BY <1>1, <1>3, <3>2, <5>2, ChunkOrder
                    <6> QED BY <1>1, <1>4, <3>2, <6>1
                <5> QED BY <1>3, <3>2, <5>1, <5>2
            <4> QED BY <1>4, <2>2, <3>2, <4>1
        <3>4. q \in Id /\ Created(q) /\ q # last
            BY <1>1, <1>2, <1>3, <3>2, <3>3 DEF Id
        <3>5. Chunk(q) = q * chunk_size .. q * chunk_size + chunk_size - 1
            BY <1>6, <3>4
        <3>6. x \in Chunk(q)
            BY <1>1, <3>2, <3>5
        <3> QED BY <3>4, <3>6
    <2> QED BY <2>1, <2>2
<1> QED BY <1>7, <1>8

\* The split of the text gives each character to exactly one thread.
THEOREM ExactSplit == Spec => []EachCharacterOnce
<1>1. IInv => EachCharacterOnce
    <2> SUFFICES ASSUME IInv PROVE EachCharacterOnce
        OBVIOUS
    <2>1. ASSUME NEW s \in Id, NEW t \in Id, s # t, Created(s), Created(t)
          PROVE  Chunk(s) \cap Chunk(t) = {}
        <3>1. s < t \/ t < s
            BY <2>1, ThreadsAssumption DEF Id
        <3> QED BY <2>1, <3>1, ChunksApart
    <2>2. pc \in {"joining", "merging", "done"} =>
              UNION {Chunk(t) : t \in {u \in Id : Created(u)}} = 0 .. Len(text) - 1
        BY ChunksCover
    <2> QED BY <2>1, <2>2 DEF EachCharacterOnce, Created
<1> QED BY <1>1, InitIInv, NextIInv, PTL DEF Spec

-----------------------------------------------------------------------------
\* What the threads have counted

\* The places of the text, after the first a characters and up to the b-th, with letter l.
Hits(l, a, b) ==
    {k \in DOMAIN text : a < k /\ k <= b /\ text[k] \in {A_LOWER_OFFSET + l, A_UPPER_OFFSET + l}}

Occurrences(l, a, b) == Cardinality(Hits(l, a, b))

\* Where the chunk of thread t starts, and the end of the text for the one after the last.
ChunkStart(t) == IF t = thread_num THEN Len(text) ELSE t * chunk_size

\* How many threads have been added to the result of letter l.
Merged(l) == IF l < i THEN thread_num ELSE IF l = i THEN j ELSE 0

\* A thread has counted the letters of its chunk up to its position.
ThreadCounts(t) ==
    /\ position[t] <= size[t]
    /\ thread[t] = "ended" => position[t] = size[t]
    /\ \A l \in Letter :
           counters[t][l] = Occurrences(l, text_pointer[t], text_pointer[t] + position[t])

CountInv ==
    /\ \A t \in Id : IF Created(t) THEN ThreadCounts(t) ELSE position[t] = 0
    /\ pc \in {"loading", "splitting", "creating", "joining"} => result_counters = NoCounts
    /\ pc = "merging" =>
           /\ i <= LETTERS_NB /\ j <= thread_num
           /\ \A l \in Letter : result_counters[l] = Occurrences(l, 0, ChunkStart(Merged(l)))
    /\ pc = "done" => \A l \in Letter : result_counters[l] = Occurrences(l, 0, Len(text))

\* The index of a character is that of a letter exactly when the character is the
\* letter, in either case: what is below 'a' gives a number above all the letters.
LEMMA IndexOfLetter ==
    ASSUME NEW c \in 0 .. 255
    PROVE  /\ Index(c) < LETTERS_NB => Index(c) \in Letter
           /\ \A l \in Letter : Index(c) = l <=> c \in {A_LOWER_OFFSET + l, A_UPPER_OFFSET + l}
<1> DEFINE d == tolower(c) - A_LOWER_OFFSET
<1>1. LETTERS_NB \in 1 .. 26 /\ SizeRange \in Nat /\ SizeRange > 256
    BY ThreadsAssumption
<1>2. d \in -97 .. 158
    BY DEF tolower, A_UPPER_OFFSET, A_LOWER_OFFSET
<1>3. \A l \in 0 .. 25 : d = l <=> c \in {97 + l, 65 + l}
    BY DEF tolower, A_UPPER_OFFSET, A_LOWER_OFFSET
<1>4. Index(c) = d % SizeRange
    BY DEF Index
<1> HIDE DEF d
<1>5. CASE d >= 0
    <2>1. d % SizeRange = d
        BY <1>1, <1>2, <1>5
    <2> QED BY <1>1, <1>2, <1>3, <1>4, <1>5, <2>1 DEF Letter, A_UPPER_OFFSET, A_LOWER_OFFSET
<1>6. CASE d < 0
    <2>1. d % SizeRange = d + SizeRange
        BY <1>1, <1>2, <1>6
    <2>2. d + SizeRange > 26
        BY <1>1, <1>2
    <2> QED BY <1>1, <1>2, <1>3, <1>4, <1>6, <2>1, <2>2
            DEF Letter, A_UPPER_OFFSET, A_LOWER_OFFSET
<1> QED BY <1>2, <1>5, <1>6

\* The places of a letter are finitely many.
LEMMA HitsFinite ==
    ASSUME text \in Seq(0 .. 255), NEW l, NEW a, NEW b
    PROVE  IsFiniteSet(Hits(l, a, b)) /\ Occurrences(l, a, b) \in Nat
<1>1. Len(text) \in Nat /\ DOMAIN text = 1 .. Len(text)
    OBVIOUS
<1>2. IsFiniteSet(DOMAIN text)
    BY <1>1, FS_Interval
<1>3. Hits(l, a, b) \subseteq DOMAIN text
    BY DEF Hits
<1>4. IsFiniteSet(Hits(l, a, b))
    BY <1>2, <1>3, FS_Subset
<1> QED BY <1>4, FS_CardinalityType DEF Occurrences

LEMMA NoOccurrences ==
    ASSUME text \in Seq(0 .. 255), NEW l, NEW a \in Nat
    PROVE  Occurrences(l, a, a) = 0
<1>1. DOMAIN text \subseteq Nat
    OBVIOUS
<1>2. Hits(l, a, a) = {}
    BY <1>1 DEF Hits
<1> QED BY <1>2, FS_EmptySet DEF Occurrences

\* The places of two stretches of the text that follow each other add up.
LEMMA OccurrencesAddUp ==
    ASSUME text \in Seq(0 .. 255), NEW l,
           NEW a \in Nat, NEW b \in Nat, NEW c \in Nat, a <= b, b <= c
    PROVE  Occurrences(l, a, c) = Occurrences(l, a, b) + Occurrences(l, b, c)
<1>1. DOMAIN text \subseteq Nat
    OBVIOUS
<1>2. Hits(l, a, c) = Hits(l, a, b) \cup Hits(l, b, c)
    BY <1>1 DEF Hits
<1>3. Hits(l, a, b) \cap Hits(l, b, c) = {}
    BY <1>1 DEF Hits
<1>4. IsFiniteSet(Hits(l, a, b)) /\ IsFiniteSet(Hits(l, b, c))
    BY HitsFinite
<1>5. Cardinality(Hits(l, a, b) \cap Hits(l, b, c)) = 0
    BY <1>3, FS_EmptySet
<1>6. Cardinality(Hits(l, a, c))
      = Cardinality(Hits(l, a, b)) + Cardinality(Hits(l, b, c)) - 0
    BY <1>2, <1>4, <1>5, FS_Union
<1>7. Cardinality(Hits(l, a, b)) \in Nat /\ Cardinality(Hits(l, b, c)) \in Nat
    BY <1>4, FS_CardinalityType
<1> QED BY <1>6, <1>7 DEF Occurrences

\* The occurrences in one character.
LEMMA OneCharacter ==
    ASSUME text \in Seq(0 .. 255), NEW l \in Letter, NEW a \in Nat
    PROVE  Occurrences(l, a, a + 1)
           = IF a + 1 <= Len(text) /\ text[a + 1] \in {A_LOWER_OFFSET + l, A_UPPER_OFFSET + l}
             THEN 1 ELSE 0
<1>1. Len(text) \in Nat /\ DOMAIN text = 1 .. Len(text) /\ a + 1 \in Nat /\ a + 1 >= 1
    OBVIOUS
<1> DEFINE hit == a + 1 <= Len(text)
                  /\ text[a + 1] \in {A_LOWER_OFFSET + l, A_UPPER_OFFSET + l}
<1>2. ASSUME NEW k \in Hits(l, a, a + 1)
      PROVE  k = a + 1 /\ hit
    <2>1. k \in 1 .. Len(text) /\ a < k /\ k <= a + 1
          /\ text[k] \in {A_LOWER_OFFSET + l, A_UPPER_OFFSET + l}
        BY <1>1 DEF Hits
    <2>2. k = a + 1
        BY <2>1
    <2> QED BY <2>1, <2>2
<1>3. CASE hit
    <2>1. a + 1 \in Hits(l, a, a + 1)
        BY <1>1, <1>3 DEF Hits
    <2>2. Hits(l, a, a + 1) = {a + 1}
        BY <1>2, <2>1
    <2> QED BY <1>3, <2>2, FS_Singleton DEF Occurrences
<1>4. CASE ~hit
    <2>1. Hits(l, a, a + 1) = {}
        BY <1>2, <1>4
    <2> QED BY <1>4, <2>1, FS_EmptySet DEF Occurrences
<1> QED BY <1>3, <1>4

\* Nothing is counted before the threads are created.
LEMMA InitCountInv == Init => CountInv
BY DEF Init, CountInv, Created

\* A thread moves over one character, which it counts if it is a letter.
LEMMA CountStep ==
    ASSUME IInv, CountInv, NEW t \in Id, CountLetter(t)
    PROVE  CountInv'
<1> DEFINE p == text_pointer[t] + position[t]
           index == IF p + 1 <= Len(text) THEN Index(text[p + 1]) ELSE Index(0)
<1>1. /\ text \in Seq(0 .. 255) /\ Len(text) \in Nat
      /\ text_pointer[t] \in Nat /\ position[t] \in Nat /\ size[t] \in Nat
      /\ counters \in [Id -> [Letter -> Nat]] /\ position \in [Id -> Nat]
    BY DEF IInv, TypeOK
<1>2. /\ thread[t] = "running" /\ position[t] < size[t]
      /\ position' = [position EXCEPT ![t] = @ + 1]
      /\ UNCHANGED <<mainVars, i, j, pc, thread, paramVars>>
    BY DEF CountLetter
<1>3. counters' = IF index < LETTERS_NB
                  THEN [counters EXCEPT ![t][index] = @ + 1] ELSE counters
    BY DEF CountLetter
<1>4. p \in Nat
    BY <1>1
<1>5. \A l \in Letter : Occurrences(l, p, p + 1) = IF index = l THEN 1 ELSE 0
    <2> TAKE l \in Letter
    <2>1. CASE p + 1 <= Len(text)
        <3>1. p + 1 \in 1 .. Len(text)
            BY <1>1, <1>4, <2>1
        <3>2. text[p + 1] \in 0 .. 255
            BY <1>1, <3>1, ElementOfSeq
        <3>3. index = Index(text[p + 1])
            BY <2>1
        <3> HIDE DEF index, p
        <3>4. index = l <=> text[p + 1] \in {A_LOWER_OFFSET + l, A_UPPER_OFFSET + l}
            <4> DEFINE c == text[p + 1]
            <4>1. c \in 0 .. 255 /\ index = Index(c)
                BY <3>2, <3>3
            <4> HIDE DEF c
            <4>2. Index(c) = l <=> c \in {A_LOWER_OFFSET + l, A_UPPER_OFFSET + l}
                BY <4>1, IndexOfLetter
            <4> QED BY <4>1, <4>2 DEF c
        <3>5. Occurrences(l, p, p + 1)
              = IF p + 1 <= Len(text) /\ text[p + 1] \in {A_LOWER_OFFSET + l, A_UPPER_OFFSET + l}
                THEN 1 ELSE 0
            BY <1>1, <1>4, OneCharacter
        <3> QED BY <2>1, <3>4, <3>5
    <2>2. CASE ~(p + 1 <= Len(text))
        <3>1. index = Index(0)
            BY <2>2
        <3>2. Index(0) # l
            BY IndexOfLetter DEF Letter, A_LOWER_OFFSET, A_UPPER_OFFSET
        <3> QED BY <1>1, <1>4, <2>2, <3>1, <3>2, OneCharacter
    <2> QED BY <2>1, <2>2
<1>6. index < LETTERS_NB => index \in Letter
    <2>1. CASE p + 1 <= Len(text)
        <3>1. p + 1 \in 1 .. Len(text)
            BY <1>1, <1>4, <2>1
        <3>2. text[p + 1] \in 0 .. 255
            BY <1>1, <3>1, ElementOfSeq
        <3> QED BY <2>1, <3>2, IndexOfLetter
    <2>2. CASE ~(p + 1 <= Len(text))
        BY <2>2, IndexOfLetter
    <2> QED BY <2>1, <2>2
<1>7. \A l \in Letter : index = l => index < LETTERS_NB
    BY ThreadsAssumption DEF Letter
<1> HIDE DEF index
<1>8. \A l \in Letter : counters'[t][l] = counters[t][l] + (IF index = l THEN 1 ELSE 0)
    <2>1. CASE index < LETTERS_NB
        BY <1>1, <1>3, <1>6, <2>1
    <2>2. CASE ~(index < LETTERS_NB)
        BY <1>1, <1>3, <1>7, <2>2
    <2> QED BY <2>1, <2>2
<1>9. \A u \in Id \ {t} : counters'[u] = counters[u] /\ position'[u] = position[u]
    BY <1>1, <1>2, <1>3
<1>10. \A l, a, b : Occurrences(l, a, b)' = Occurrences(l, a, b)
    BY <1>2 DEF Occurrences, Hits, mainVars
<1>11. ThreadCounts(t)
    BY <1>2 DEF CountInv, Created
<1>12. ThreadCounts(t)'
    <2>1. position'[t] = position[t] + 1 /\ position'[t] <= size'[t]
          /\ text_pointer' = text_pointer
        BY <1>1, <1>2 DEF paramVars
    <2>2. ASSUME NEW l \in Letter
          PROVE  counters'[t][l] = Occurrences(l, text_pointer[t], p + 1)
        <3>1. counters[t][l] = Occurrences(l, text_pointer[t], p)
            BY <1>11 DEF ThreadCounts
        <3>2. Occurrences(l, text_pointer[t], p + 1)
              = Occurrences(l, text_pointer[t], p) + Occurrences(l, p, p + 1)
            <4> DEFINE a == text_pointer[t]
            <4>1. a \in Nat /\ p \in Nat /\ p + 1 \in Nat /\ a <= p /\ p <= p + 1
                BY <1>1
            <4> HIDE DEF a, p
            <4>2. Occurrences(l, a, p + 1) = Occurrences(l, a, p) + Occurrences(l, p, p + 1)
                BY <1>1, <4>1, OccurrencesAddUp
            <4> QED BY <4>2 DEF a
        <3> QED BY <1>5, <1>8, <3>1, <3>2
    <2>3. text_pointer[t] + (position[t] + 1) = p + 1
        BY <1>1
    <2>4. \A l \in Letter :
              (counters[t][l] = Occurrences(l, text_pointer[t], text_pointer[t] + position[t]))'
        BY <1>2, <2>1, <2>2, <2>3 DEF Occurrences, Hits, mainVars
    <2>5. thread'[t] # "ended"
        BY <1>2
    <2> QED BY <2>1, <2>4, <2>5 DEF ThreadCounts
<1>13. ASSUME NEW u \in Id
       PROVE  IF Created(u)' THEN ThreadCounts(u)' ELSE position'[u] = 0
    <2>1. CASE u = t
        BY <1>2, <1>12, <2>1 DEF Created
    <2>2. CASE u # t
        BY <1>2, <1>9, <1>10, <2>2 DEF CountInv, Created, ThreadCounts, paramVars
    <2> QED BY <2>1, <2>2
<1>14. \A x : ChunkStart(x)' = ChunkStart(x) /\ Merged(x)' = Merged(x)
    BY <1>2 DEF ChunkStart, Merged, mainVars
<1> QED BY <1>2, <1>10, <1>13, <1>14 DEF CountInv, mainVars

\* The thread created has counted nothing yet.
LEMMA CreateCountStep ==
    ASSUME IInv, CountInv, CreateThread
    PROVE  CountInv'
<1>1. /\ UNCHANGED <<mainVars, j, position>>
      /\ pc = "creating" /\ pc' \in {"creating", "failed"}
      /\ text_pointer' = [text_pointer EXCEPT ![i] = i * chunk_size]
      /\ size' = [size EXCEPT ![i] = ChunkSize(i)]
      /\ counters' = [counters EXCEPT ![i] = NoCounts]
      /\ thread' = thread \/ thread' = [thread EXCEPT ![i] = "running"]
    BY DEF CreateThread
<1>2. i \in Id /\ ~Created(i) /\ i \in Nat
    BY ThreadsAssumption DEF CreateThread, IInv, TypeOK, ControlInv, Id
<1>3. /\ text \in Seq(0 .. 255) /\ text' = text
      /\ text_pointer \in [Id -> Nat] /\ size \in [Id -> Nat]
      /\ counters \in [Id -> [Letter -> Nat]]
      /\ thread \in [Id -> {"none", "running", "ended"}]
    BY <1>1 DEF IInv, TypeOK, mainVars
<1>4. i * chunk_size \in Nat /\ ChunkSize(i) \in Nat
    BY <1>2 DEF IInv, TypeOK, ChunkSize
<1>5. position[i] = 0 /\ position' = position
    BY <1>1, <1>2 DEF CountInv
<1>6. ASSUME NEW u \in Id
      PROVE  IF Created(u)' THEN ThreadCounts(u)' ELSE position'[u] = 0
    <2>1. CASE u # i
        <3>1. /\ text_pointer'[u] = text_pointer[u] /\ size'[u] = size[u]
              /\ counters'[u] = counters[u] /\ thread'[u] = thread[u]
            BY <1>1, <1>3, <2>1
        <3>2. IF Created(u) THEN ThreadCounts(u) ELSE position[u] = 0
            BY DEF CountInv
        <3> QED BY <1>3, <1>5, <3>1, <3>2 DEF Created, ThreadCounts, Occurrences, Hits
    <2>2. CASE u = i
        <3>1. /\ text_pointer'[u] \in Nat /\ size'[u] \in Nat /\ position'[u] = 0
              /\ counters'[u] = NoCounts /\ thread'[u] # "ended"
            BY <1>1, <1>2, <1>3, <1>4, <1>5, <2>2 DEF Created
        <3>2. text_pointer'[u] + position'[u] = text_pointer'[u]
            BY <3>1
        <3>3. \A l \in Letter, a \in Nat : Occurrences(l, a, a) = 0
            BY <1>3, NoOccurrences
        <3>4. \A l \in Letter : Cardinality(Hits(l, text_pointer'[u], text_pointer'[u])) = 0
            BY <3>1, <3>3 DEF Occurrences
        <3>5. ASSUME NEW l \in Letter
              PROVE  (counters[u][l]
                      = Occurrences(l, text_pointer[u], text_pointer[u] + position[u]))'
            <4>1. counters'[u][l] = 0
                BY <3>1 DEF NoCounts
            <4>2. Hits(l, text_pointer[u], text_pointer[u] + position[u])'
                  = Hits(l, text_pointer'[u], text_pointer'[u])
                BY <1>3, <3>2 DEF Hits
            <4> QED BY <3>4, <4>1, <4>2 DEF Occurrences
        <3> QED BY <3>1, <3>5 DEF ThreadCounts
    <2> QED BY <2>1, <2>2
<1> QED BY <1>1, <1>6 DEF CountInv, mainVars

\* A step that leaves the text and the threads alone leaves what they counted.
LEMMA SameThreads ==
    ASSUME CountInv, UNCHANGED <<text, thread, paramVars, counters, position>>
    PROVE  \A t \in Id : IF Created(t)' THEN ThreadCounts(t)' ELSE position'[t] = 0
BY DEF CountInv, Created, ThreadCounts, Occurrences, Hits, paramVars

\* The counters of thread j, which has ended, are those of its whole chunk.
LEMMA ChunkCounted ==
    ASSUME IInv, CountInv, pc = "merging", NEW t \in Id, t < thread_num, NEW l \in Letter
    PROVE  /\ ChunkStart(t) \in Nat /\ ChunkStart(t + 1) \in Nat
           /\ ChunkStart(t) <= ChunkStart(t + 1)
           /\ counters[t][l] = Occurrences(l, ChunkStart(t), ChunkStart(t + 1))
<1>1. /\ thread_num \in Nat /\ chunk_size \in Nat /\ leftovers \in Nat /\ Len(text) \in Nat
      /\ t \in Nat /\ Len(text) = chunk_size * thread_num + leftovers
    BY ThreadsAssumption DEF IInv, TypeOK, ControlInv, SplitInv, Id
<1>2. Created(t) /\ thread[t] = "ended"
    BY DEF IInv, TypeOK, ControlInv, Created
<1>3. position[t] = size[t] /\ text_pointer[t] = t * chunk_size /\ size[t] = ChunkSize(t)
    BY <1>2 DEF CountInv, ThreadCounts, IInv, SplitInv
<1>4. counters[t][l] = Occurrences(l, text_pointer[t], text_pointer[t] + size[t])
    BY <1>2, <1>3 DEF CountInv, ThreadCounts
<1>5. ChunkStart(t) = t * chunk_size /\ t * chunk_size \in Nat
    BY <1>1 DEF ChunkStart
<1>6. size[t] \in Nat
    BY <1>1, <1>3 DEF ChunkSize
<1>7. ChunkStart(t + 1) = t * chunk_size + size[t]
    <2>1. (t + 1) * chunk_size = t * chunk_size + chunk_size
        BY <1>1
    <2>2. CASE t = thread_num - 1
        <3>1. t + 1 = thread_num /\ size[t] = chunk_size + leftovers
            BY <1>1, <1>3, <2>2 DEF ChunkSize
        <3>2. chunk_size * thread_num = t * chunk_size + chunk_size
            BY <1>1, <2>1, <3>1
        <3> QED BY <1>1, <1>5, <3>1, <3>2 DEF ChunkStart
    <2>3. CASE t # thread_num - 1
        <3>1. t + 1 # thread_num /\ size[t] = chunk_size
            BY <1>1, <1>3, <2>3 DEF ChunkSize
        <3> QED BY <2>1, <3>1 DEF ChunkStart
    <2> QED BY <2>2, <2>3
<1>8. ChunkStart(t) \in Nat /\ ChunkStart(t + 1) = ChunkStart(t) + size[t]
    BY <1>5, <1>7
<1>9. counters[t][l] = Occurrences(l, ChunkStart(t), ChunkStart(t + 1))
    BY <1>3, <1>4, <1>5, <1>7
<1> QED BY <1>6, <1>8, <1>9

LEMMA MergeStep ==
    ASSUME IInv, CountInv, MergeCounter
    PROVE  CountInv'
<1>1. /\ pc = "merging" /\ pc' = pc /\ i' = i /\ j' = j + 1 /\ j < thread_num /\ i < LETTERS_NB
      /\ result_counters' = [result_counters EXCEPT ![i] = @ + counters[j][i]]
      /\ UNCHANGED <<text, thread_num, chunk_size, thread, paramVars, counters, position>>
    BY DEF MergeCounter
<1>2. /\ i \in Letter /\ j \in Id /\ j \in Nat /\ thread_num \in Nat /\ text \in Seq(0 .. 255)
      /\ result_counters \in [Letter -> Nat] /\ Letter \subseteq Nat
    <2>1. /\ i \in Nat /\ j \in Nat /\ thread_num \in Nat /\ thread_num <= CHILDREN_LIMIT
          /\ text \in Seq(0 .. 255) /\ result_counters \in [Letter -> Nat]
        BY <1>1 DEF IInv, TypeOK, ControlInv
    <2>2. i \in Letter /\ Letter \subseteq Nat
        BY <1>1, <2>1, ThreadsAssumption DEF Letter
    <2>3. j \in Id
        BY <1>1, <2>1, ThreadsAssumption DEF Id
    <2> QED BY <2>1, <2>2, <2>3
<1>3. \A t \in Id : IF Created(t)' THEN ThreadCounts(t)' ELSE position'[t] = 0
    BY <1>1, SameThreads
<1>4. ASSUME NEW l \in Letter
      PROVE  result_counters'[l] = Occurrences(l, 0, ChunkStart(Merged(l)))'
    <2>1. result_counters[l] = Occurrences(l, 0, ChunkStart(Merged(l)))
        BY <1>1 DEF CountInv
    <2>2. CASE l # i
        <3>1. result_counters'[l] = result_counters[l] /\ Merged(l)' = Merged(l)
            BY <1>1, <1>2, <2>2 DEF Merged
        <3> QED BY <1>1, <2>1, <3>1 DEF Occurrences, Hits, ChunkStart
    <2>3. CASE l = i
        <3>1. Merged(l) = j /\ Merged(l)' = j + 1
            BY <1>1, <1>2, <2>3 DEF Merged
        <3>2. result_counters'[l] = result_counters[l] + counters[j][l]
            BY <1>1, <1>2, <2>3
        <3> DEFINE a == ChunkStart(j)  b == ChunkStart(j + 1)
        <3>3. a \in Nat /\ b \in Nat /\ a <= b /\ counters[j][l] = Occurrences(l, a, b)
            BY <1>1, <1>2, ChunkCounted
        <3>4. ChunkStart(Merged(l))' = b
            BY <1>1, <3>1 DEF ChunkStart
        <3>5. ChunkStart(Merged(l)) = a
            BY <3>1
        <3> HIDE DEF a, b
        <3>6. Occurrences(l, 0, b) = Occurrences(l, 0, a) + Occurrences(l, a, b)
            BY <1>2, <3>3, OccurrencesAddUp
        <3>7. result_counters'[l] = Occurrences(l, 0, b)
            BY <2>1, <3>2, <3>3, <3>5, <3>6
        <3> QED BY <1>1, <3>4, <3>7 DEF Occurrences, Hits
    <2> QED BY <2>2, <2>3
<1>5. i' <= LETTERS_NB /\ j' <= thread_num'
    BY <1>1, <1>2, ThreadsAssumption DEF Letter
<1> QED BY <1>1, <1>3, <1>4, <1>5 DEF CountInv

\* The other steps of main() and the end of a thread.
LEMMA ControlCountStep ==
    ASSUME IInv, CountInv, NEW t \in Id,
           LoadText \/ SplitText \/ AllCreated \/ JoinThread \/ AllJoined \/ NextLetter
             \/ AllMerged \/ EndThread(t)
    PROVE  CountInv'
<1>1. CASE LoadText
    <2>1. \A u \in Id : ~Created(u) /\ ~Created(u)' /\ position'[u] = 0
        BY <1>1 DEF LoadText, IInv, ControlInv, CountInv, Created
    <2> QED BY <1>1, <2>1 DEF LoadText, CountInv
<1>2. CASE SplitText
    <2>1. UNCHANGED <<text, thread, paramVars, counters, position, result_counters>>
          /\ pc = "splitting" /\ pc' \in {"creating", "failed", "invalid"}
        BY <1>2 DEF SplitText
    <2> QED BY <2>1, SameThreads DEF CountInv
<1>3. CASE AllCreated
    BY <1>3, SameThreads DEF AllCreated, CountInv, mainVars
<1>4. CASE JoinThread
    BY <1>4, SameThreads DEF JoinThread, CountInv, mainVars
<1>5. CASE AllJoined
    <2>1. /\ UNCHANGED <<text, thread_num, chunk_size, thread, paramVars, counters, position,
                         result_counters>>
          /\ pc = "joining" /\ pc' = "merging" /\ i' = 0 /\ j' = 0
        BY <1>5 DEF AllJoined, mainVars
    <2>2. /\ text \in Seq(0 .. 255) /\ chunk_size \in Nat /\ thread_num \in Nat /\ thread_num >= 1
          /\ LETTERS_NB \in Nat /\ Letter \subseteq Nat
        BY <2>1, ThreadsAssumption DEF IInv, TypeOK, ControlInv, Letter
    <2>3. ASSUME NEW l \in Letter
          PROVE  result_counters'[l] = Occurrences(l, 0, ChunkStart(Merged(l)))'
        <3>1. Merged(l)' = 0
            BY <2>1, <2>2 DEF Merged
        <3>2. ChunkStart(Merged(l))' = 0
            BY <2>1, <2>2, <3>1 DEF ChunkStart
        <3>3. Occurrences(l, 0, 0) = 0
            BY <2>2, NoOccurrences
        <3>4. result_counters'[l] = 0
            BY <2>1 DEF CountInv, NoCounts
        <3> QED BY <2>1, <3>2, <3>3, <3>4 DEF Occurrences, Hits
    <2> QED BY <2>1, <2>2, <2>3, SameThreads DEF CountInv
<1>6. CASE NextLetter
    <2>1. /\ UNCHANGED <<text, thread_num, chunk_size, thread, paramVars, counters, position,
                         result_counters>>
          /\ pc = "merging" /\ pc' = "merging" /\ i' = i + 1 /\ j' = 0
          /\ i < LETTERS_NB /\ j = thread_num
        BY <1>6 DEF NextLetter, mainVars
    <2>2. i \in Nat /\ LETTERS_NB \in Nat /\ thread_num \in Nat /\ Letter \subseteq Nat
        BY <2>1, ThreadsAssumption DEF IInv, TypeOK, ControlInv, Letter
    <2>3. \A l \in Letter : Merged(l)' = Merged(l)
        BY <2>1, <2>2 DEF Merged
    <2>4. \A l \in Letter : result_counters'[l] = Occurrences(l, 0, ChunkStart(Merged(l)))'
        BY <2>1, <2>3 DEF CountInv, Occurrences, Hits, ChunkStart
    <2> QED BY <2>1, <2>2, <2>4, SameThreads DEF CountInv
<1>7. CASE AllMerged
    <2>1. /\ UNCHANGED <<text, thread, paramVars, counters, position, result_counters>>
          /\ pc = "merging" /\ pc' = "done" /\ i = LETTERS_NB
        BY <1>7 DEF AllMerged, mainVars
    <2>2. \A l \in Letter : ChunkStart(Merged(l)) = Len(text)
        BY <2>1, ThreadsAssumption DEF Merged, ChunkStart, Letter
    <2>3. \A l \in Letter : (result_counters[l] = Occurrences(l, 0, Len(text)))'
        BY <2>1, <2>2 DEF CountInv, Occurrences, Hits
    <2> QED BY <2>1, <2>3, SameThreads DEF CountInv
<1>8. CASE EndThread(t)
    <2>1. /\ UNCHANGED <<mainVars, i, j, pc, paramVars, counters, position>>
          /\ thread[t] = "running" /\ position[t] = size[t]
          /\ thread' = [thread EXCEPT ![t] = "ended"]
        BY <1>8 DEF EndThread
    <2>2. ASSUME NEW u \in Id
          PROVE  IF Created(u)' THEN ThreadCounts(u)' ELSE position'[u] = 0
        BY <2>1 DEF IInv, TypeOK, CountInv, Created, ThreadCounts, Occurrences, Hits,
                    mainVars, paramVars
    <2> QED BY <2>1, <2>2 DEF CountInv, Occurrences, Hits, ChunkStart, Merged, mainVars
<1> QED BY <1>1, <1>2, <1>3, <1>4, <1>5, <1>6, <1>7, <1>8

LEMMA NextCountInv == IInv /\ CountInv /\ [Next]_vars => CountInv'
<1>1. ASSUME CountInv, UNCHANGED vars PROVE CountInv'
    <2>1. UNCHANGED <<text, thread_num, chunk_size, i, j, pc, result_counters>>
        BY <1>1 DEF vars, mainVars
    <2>2. \A t \in Id : IF Created(t)' THEN ThreadCounts(t)' ELSE position'[t] = 0
        BY <1>1, SameThreads DEF vars, mainVars
    <2>3. \A l : /\ Occurrences(l, 0, ChunkStart(Merged(l)))'
                   = Occurrences(l, 0, ChunkStart(Merged(l)))
                /\ Occurrences(l, 0, Len(text))' = Occurrences(l, 0, Len(text))
        BY <2>1 DEF Occurrences, Hits, ChunkStart, Merged
    <2> QED BY <1>1, <2>1, <2>2, <2>3 DEF CountInv
<1>2. 0 \in Id
    BY ThreadsAssumption DEF Id
<1> QED BY <1>1, <1>2, CountStep, CreateCountStep, MergeStep, ControlCountStep
        DEF Next, Main, Ended

\* The numbers main() prints are those of the letters of the text, in either case,
\* for every text, every number of threads and letters, and every interleaving.
THEOREM CountsExactly == Spec => []CountsTheText
<1>1. IInv /\ CountInv => CountsTheText
    <2> SUFFICES ASSUME IInv, CountInv, pc = "done", NEW l \in Letter
                 PROVE  result_counters[l]
                        = Cardinality({k \in DOMAIN text :
                              text[k] \in {A_LOWER_OFFSET + l, A_UPPER_OFFSET + l}})
        BY DEF CountsTheText
    <2>1. text \in Seq(0 .. 255)
        BY DEF IInv, TypeOK
    <2>2. \A k \in DOMAIN text : 0 < k /\ k <= Len(text)
        BY <2>1
    <2>3. Hits(l, 0, Len(text))
          = {k \in DOMAIN text : text[k] \in {A_LOWER_OFFSET + l, A_UPPER_OFFSET + l}}
        BY <2>2 DEF Hits
    <2> QED BY <2>3 DEF CountInv, Occurrences
<1> QED BY <1>1, InitIInv, NextIInv, InitCountInv, NextCountInv, PTL DEF Spec

-----------------------------------------------------------------------------
\* The page replacement simulator: the pages that are evicted

\* A set of natural numbers that is not empty has a least element.
LEMMA MinOf ==
    ASSUME NEW S \in SUBSET Nat, S # {}
    PROVE  Min(S) \in S /\ \A n \in S : Min(S) <= n
<1>1. PICK m \in S : \A n \in S : ~(<<n, m>> \in OpToRel(<, Nat))
    BY NatLessThanWellFounded, WFMin
<1>2. \A n \in S : ~(n < m)
    BY <1>1 DEF OpToRel
<1>3. \A n \in S : m <= n
    BY <1>2
<1> QED BY <1>3 DEF Min

\* Numbers ordered by a first rank, then by themselves, are ordered by one number.
LEMMA Lexicographic ==
    ASSUME NEW a \in Nat, NEW b \in Nat, NEW m \in Nat \ {0},
           NEW p \in 0 .. m - 1, NEW q \in 0 .. m - 1, a * m + p <= b * m + q
    PROVE  a < b \/ (a = b /\ p <= q)
<1>1. a * m \in Nat /\ b * m \in Nat
    OBVIOUS
<1>2. CASE a = b
    BY <1>1, <1>2
<1>3. CASE b < a
    <2>1. b * m + m <= a * m
        BY <1>3, ChunkOrder
    <2> QED BY <1>1, <2>1
<1> QED BY <1>2, <1>3

Swapped == {p \in Page : Has(p, SWAP_BIT_MASK)}

\* replaceLRU() selects a page that is in memory, and none of those has a lower TDU.
LEMMA LRUVictim ==
    ASSUME ReplaceTypeOK, Valid # {}
    PROVE  /\ LeastRecentlyUsed \in Valid
           /\ \A p \in Valid : TDU[LeastRecentlyUsed] <= TDU[p]
<1> DEFINE Rank(p) == TDU[p] * NB_PAGES + p
           Ranks == {Rank(p) : p \in Valid}
<1>1. \A p \in Page : TDU[p] \in Nat /\ p \in Nat /\ p \in 0 .. NB_PAGES - 1
    BY MemReplaceAssumption DEF ReplaceTypeOK, Page
<1>2. NB_PAGES \in Nat \ {0}
    <2>1. Page # {}
        BY DEF Valid
    <2> QED BY <2>1, MemReplaceAssumption DEF Page
<1>3. Valid \subseteq Page
    BY DEF Valid
<1>4. \A p \in Page : Rank(p) \in Nat
    BY <1>1, <1>2
<1>5. Ranks \in SUBSET Nat /\ Ranks # {}
    BY <1>3, <1>4
<1> HIDE DEF Rank
<1>6. PICK v \in Valid : Rank(v) = Min(Ranks)
    BY <1>5, MinOf
<1>7. \A p \in Valid : Rank(v) <= Rank(p)
    BY <1>5, <1>6, MinOf
<1>8. ASSUME NEW p \in Valid
      PROVE  TDU[v] < TDU[p] \/ (TDU[v] = TDU[p] /\ v <= p)
    BY <1>1, <1>2, <1>3, <1>7, <1>8, Lexicographic DEF Rank
<1>9. \E x \in Valid : \A p \in Valid : TDU[x] < TDU[p] \/ (TDU[x] = TDU[p] /\ x <= p)
    BY <1>8
<1>10. LeastRecentlyUsed \in Valid
       /\ \A p \in Valid : TDU[LeastRecentlyUsed] < TDU[p]
                           \/ (TDU[LeastRecentlyUsed] = TDU[p] /\ LeastRecentlyUsed <= p)
    BY <1>9 DEF LeastRecentlyUsed
<1> QED BY <1>1, <1>3, <1>10

\* The page replaceWSC() selects.
WSCVictim == IF OutOfWorkingSet # {} THEN Min(OutOfWorkingSet) ELSE Min(Valid)

LEMMA WSCVictimProperties ==
    ASSUME Valid # {}
    PROVE  /\ WSCVictim \in Valid
           /\ OutOfWorkingSet # {} => WSCVictim \in OutOfWorkingSet
<1>1. Valid \in SUBSET Nat /\ OutOfWorkingSet \in SUBSET Valid
    BY MemReplaceAssumption DEF Valid, OutOfWorkingSet, Page
<1>2. CASE OutOfWorkingSet # {}
    BY <1>1, <1>2, MinOf DEF WSCVictim
<1>3. CASE OutOfWorkingSet = {}
    BY <1>1, <1>3, MinOf DEF WSCVictim
<1> QED BY <1>2, <1>3

\* A page comes in: the page v goes to the swap, and n comes from it.
LEMMA Exchange ==
    ASSUME NEW table \in [Page -> SUBSET Bit], NEW n \in Page, NEW v \in Page, n # v
    PROVE  LET new == Loaded(Evicted(table, v), n) IN
           /\ new \in [Page -> SUBSET Bit]
           /\ \A p \in Page : VALID_BIT_MASK \cap new[p] # {}
                <=> p = n \/ (p # v /\ VALID_BIT_MASK \cap table[p] # {})
           /\ \A p \in Page : SWAP_BIT_MASK \cap new[p] # {}
                <=> p = v \/ (p # n /\ SWAP_BIT_MASK \cap table[p] # {})
           /\ \A p \in Page \ {n, v} : new[p] = table[p]
<1> USE DEF Loaded, Evicted, VALID_BIT_MASK, SWAP_BIT_MASK, Bit
<1> DEFINE new == Loaded(Evicted(table, v), n)
<1>1. \A p \in Page : new[p] = IF p = n THEN (table[p] \ SWAP_BIT_MASK) \cup VALID_BIT_MASK
                               ELSE IF p = v THEN (table[p] \ VALID_BIT_MASK) \cup SWAP_BIT_MASK
                               ELSE table[p]
    OBVIOUS
<1>2. new \in [Page -> SUBSET Bit]
    OBVIOUS
<1> HIDE DEF new
<1>3. \A p \in Page : VALID_BIT_MASK \cap new[p] # {}
                <=> p = n \/ (p # v /\ VALID_BIT_MASK \cap table[p] # {})
    BY <1>1
<1>4. \A p \in Page : SWAP_BIT_MASK \cap new[p] # {}
                <=> p = v \/ (p # n /\ SWAP_BIT_MASK \cap table[p] # {})
    BY <1>1
<1>5. \A p \in Page \ {n, v} : new[p] = table[p]
    BY <1>1
<1> QED BY <1>2, <1>3, <1>4, <1>5 DEF new

\* What replaceWSC() does to the reference bits on its way to the victim.
WSCPassed == {p \in Valid : OutOfWorkingSet # {} => p < WSCVictim}

Unreferenced == [p \in Page |-> IF p \in WSCPassed THEN page_table[p] \ REF_BIT_MASK
                                ELSE page_table[p]]

LEMMA WSCTable ==
    ASSUME ReplaceTypeOK
    PROVE  /\ replaceWSC = Evicted(Unreferenced, WSCVictim)
           /\ Unreferenced \in [Page -> SUBSET Bit]
           /\ \A p \in Page : /\ VALID_BIT_MASK \cap Unreferenced[p] # {} <=> p \in Valid
                              /\ SWAP_BIT_MASK \cap Unreferenced[p] # {} <=> p \in Swapped
<1>1. replaceWSC = Evicted(Unreferenced, WSCVictim)
    BY DEF replaceWSC, Unreferenced, WSCPassed, WSCVictim
<1>2. page_table \in [Page -> SUBSET Bit]
    BY DEF ReplaceTypeOK
<1>3. Unreferenced \in [Page -> SUBSET Bit]
    BY <1>2 DEF Unreferenced
<1>4. \A p \in Page : /\ VALID_BIT_MASK \cap Unreferenced[p] # {} <=> p \in Valid
                      /\ SWAP_BIT_MASK \cap Unreferenced[p] # {} <=> p \in Swapped
    BY <1>2 DEF Unreferenced, Valid, Swapped, Has, VALID_BIT_MASK, SWAP_BIT_MASK, REF_BIT_MASK
<1> QED BY <1>1, <1>3, <1>4

\* The page that leaves the memory on a fault.
Victim == IF LRU_run THEN LeastRecentlyUsed ELSE WSCVictim

\* A fault exchanges a page in memory with the one accessed.
LEMMA Fault ==
    ASSUME ReplaceTypeOK, Valid # {}, NEW n \in Page \ Valid, Access(n)
    PROVE  /\ Victim \in Valid
           /\ page_table' \in [Page -> SUBSET Bit]
           /\ Valid' = (Valid \ {Victim}) \cup {n}
           /\ Swapped' = (Swapped \ {n}) \cup {Victim}
<1>1. page_table \in [Page -> SUBSET Bit]
    BY DEF ReplaceTypeOK
<1>2. Victim \in Valid
    BY LRUVictim, WSCVictimProperties DEF Victim
<1>3. Victim \in Page /\ Victim # n
    BY <1>2 DEF Valid
<1>4. CASE LRU_run
    <2>1. page_table' = Loaded(Evicted(page_table, Victim), n)
        BY <1>4 DEF Access, AccessLRU, AccessWSC, replaceLRU, Victim
    <2>2. page_table' \in [Page -> SUBSET Bit]
        BY <1>1, <1>3, <2>1, Exchange
    <2>3. \A p \in Page : /\ p \in Valid' <=> p = n \/ (p # Victim /\ p \in Valid)
                          /\ p \in Swapped' <=> p = Victim \/ (p # n /\ p \in Swapped)
        BY <1>1, <1>3, <2>1, Exchange DEF Valid, Swapped, Has
    <2> QED BY <1>2, <1>3, <2>2, <2>3 DEF Valid, Swapped
<1>5. CASE ~LRU_run
    <2> DEFINE table == Loaded(Evicted(Unreferenced, Victim), n)
    <2>1. page_table' = [table EXCEPT ![n] = @ \cup REF_BIT_MASK]
        BY <1>5, WSCTable DEF Access, AccessLRU, AccessWSC, Victim
    <2>2. table \in [Page -> SUBSET Bit]
        BY <1>3, WSCTable, Exchange
    <2>3. \A p \in Page : /\ VALID_BIT_MASK \cap table[p] # {}
                               <=> p = n \/ (p # Victim /\ p \in Valid)
                          /\ SWAP_BIT_MASK \cap table[p] # {}
                               <=> p = Victim \/ (p # n /\ p \in Swapped)
        BY <1>3, WSCTable, Exchange
    <2> HIDE DEF table
    <2>4. page_table' \in [Page -> SUBSET Bit]
        BY <2>1, <2>2 DEF REF_BIT_MASK, Bit
    <2>5. \A p \in Page : /\ VALID_BIT_MASK \cap page_table'[p] = VALID_BIT_MASK \cap table[p]
                          /\ SWAP_BIT_MASK \cap page_table'[p] = SWAP_BIT_MASK \cap table[p]
        BY <2>1, <2>2 DEF REF_BIT_MASK, VALID_BIT_MASK, SWAP_BIT_MASK
    <2>6. \A p \in Page : /\ p \in Valid' <=> p = n \/ (p # Victim /\ p \in Valid)
                          /\ p \in Swapped' <=> p = Victim \/ (p # n /\ p \in Swapped)
        BY <2>3, <2>5 DEF Valid, Swapped, Has
    <2> QED BY <1>2, <1>3, <2>4, <2>6 DEF Valid, Swapped
<1> QED BY <1>4, <1>5

\* An access to a page in memory moves none.
LEMMA Hit ==
    ASSUME ReplaceTypeOK, NEW n \in Valid, Access(n)
    PROVE  page_table' \in [Page -> SUBSET Bit] /\ Valid' = Valid /\ Swapped' = Swapped
<1>1. page_table \in [Page -> SUBSET Bit] /\ n \in Page
    BY DEF ReplaceTypeOK, Valid
<1>2. page_table' = page_table \/ page_table' = [page_table EXCEPT ![n] = @ \cup REF_BIT_MASK]
    BY DEF Access, AccessLRU, AccessWSC
<1>3. page_table' \in [Page -> SUBSET Bit]
    BY <1>1, <1>2 DEF REF_BIT_MASK, Bit
<1>4. \A p \in Page : /\ VALID_BIT_MASK \cap page_table'[p] = VALID_BIT_MASK \cap page_table[p]
                      /\ SWAP_BIT_MASK \cap page_table'[p] = SWAP_BIT_MASK \cap page_table[p]
    BY <1>1, <1>2 DEF REF_BIT_MASK, VALID_BIT_MASK, SWAP_BIT_MASK
<1> QED BY <1>3, <1>4 DEF Valid, Swapped, Has

-----------------------------------------------------------------------------
\* The page replacement simulator: the invariants

ReplaceInv ==
    /\ ReplaceTypeOK
    /\ Valid \subseteq Resident \cup accessed
    /\ Cardinality(Valid) = Cardinality(Resident)
    /\ \A p \in accessed : later[p] = {} => p \in Valid
    /\ \A p \in Resident \cup accessed : p \in Valid <=> p \notin Swapped

\* While the clock of LRU does not wrap, the TDUs follow the order of the accesses.
ClockInv ==
    /\ MaxLRU < CounterMod
    /\ LRU_run => /\ compteur_global <= MaxLRU
                  /\ \A p \in Page : TDU[p] <= compteur_global
                  /\ \A p \in Page : \A q \in later[p] : TDU[p] < TDU[q]

\* Under WSClock the reference bits tell the pages used from the cold ones, and no
\* time of last use is ever written.
UsedInv ==
    ~LRU_run => /\ used \subseteq Valid \cap Referenced
                /\ cold \subseteq Valid \ Referenced
                /\ \A p \in Page : TDU[p] = 0

\* Pages are finitely many, and one of them at least is in memory.
LEMMA SomeValid ==
    ASSUME Cardinality(Valid) = Cardinality(Resident)
    PROVE  IsFiniteSet(Valid) /\ Valid # {}
<1>1. IsFiniteSet(Page)
    BY MemReplaceAssumption, FS_Interval DEF Page
<1>2. Valid \subseteq Page /\ Resident \subseteq Page
    BY MemReplaceAssumption DEF Valid, Page
<1>3. IsFiniteSet(Valid) /\ IsFiniteSet(Resident)
    BY <1>1, <1>2, FS_Subset
<1>4. Cardinality(Resident) # 0
    BY <1>3, MemReplaceAssumption, FS_EmptySet
<1> QED BY <1>3, <1>4, FS_EmptySet

LEMMA InitReplaceInv ==
    ReplaceInit => ReplaceInv /\ (MaxLRU < CounterMod => ClockInv)
<1> SUFFICES ASSUME ReplaceInit
             PROVE  ReplaceInv /\ (MaxLRU < CounterMod => ClockInv)
    OBVIOUS
<1> USE DEF VALID_BIT_MASK, SWAP_BIT_MASK
<1>1. Resident \subseteq Page
    BY MemReplaceAssumption DEF Page
<1>2. ReplaceTypeOK
    BY <1>1, MemReplaceAssumption DEF ReplaceInit, ReplaceTypeOK, Bit
<1>3. Valid = Resident
    BY <1>1 DEF ReplaceInit, Valid, Has
<1>4. \A p \in Resident : p \notin Swapped
    BY <1>1 DEF ReplaceInit, Swapped, Has
<1>5. ReplaceInv
    BY <1>2, <1>3, <1>4 DEF ReplaceInit, ReplaceInv
<1>6. MaxLRU < CounterMod => ClockInv
    BY MemReplaceAssumption DEF ReplaceInit, ClockInv
<1> QED BY <1>5, <1>6

LEMMA AccessTypes ==
    ASSUME ReplaceInv, NEW n \in Page, Access(n)
    PROVE  ReplaceTypeOK'
<1>1. ReplaceTypeOK /\ Valid # {}
    BY SomeValid DEF ReplaceInv
<1>2. page_table' \in [Page -> SUBSET Bit]
    BY <1>1, Fault, Hit
<1>3. \A x \in Nat : (x + 1) % CounterMod \in 0 .. CounterMod - 1
    BY MemReplaceAssumption
<1>4. TDU' \in [Page -> 0 .. CounterMod - 1] /\ compteur_global' \in 0 .. CounterMod - 1
      /\ TVC' \in 0 .. CounterMod - 1
    <2>1. compteur_global \in Nat /\ TVC \in Nat
        BY <1>1, MemReplaceAssumption DEF ReplaceTypeOK
    <2>2. CASE AccessLRU(n)
        BY <1>1, <1>3, <2>1, <2>2 DEF AccessLRU, ReplaceTypeOK
    <2>3. CASE AccessWSC(n)
        BY <1>1, <1>3, <2>1, <2>3 DEF AccessWSC, updateTDU, ReplaceTypeOK
    <2> QED BY <2>2, <2>3 DEF Access
<1>5. accessed' \subseteq Page /\ later' \in [Page -> SUBSET Page] /\ LRU_run' \in BOOLEAN
    BY <1>1 DEF Access, Remember, ReplaceTypeOK
<1>6. used' \subseteq Page /\ cold' \subseteq Page
    <2>1. used \subseteq Page /\ cold \subseteq Page /\ Valid \subseteq Page
        BY <1>1 DEF ReplaceTypeOK, Valid
    <2>2. \A v : MustPass(v) \subseteq Page
        BY <2>1 DEF MustPass
    <2> QED BY <2>1, <2>2 DEF Access, Remember
<1> QED BY <1>2, <1>4, <1>5, <1>6 DEF ReplaceTypeOK

LEMMA AccessReplaceInv ==
    ASSUME ReplaceInv, NEW n \in Page, Access(n)
    PROVE  ReplaceInv'
<1>1. ReplaceTypeOK /\ Valid # {} /\ IsFiniteSet(Valid)
    BY SomeValid DEF ReplaceInv
<1>2. /\ accessed' = accessed \cup {n}
      /\ \A p \in Page : later'[p] = IF p = n THEN {} ELSE later[p] \cup {n}
    BY DEF Access, Remember
<1>3. accessed \subseteq Page /\ Resident \subseteq Page
    BY <1>1, MemReplaceAssumption DEF ReplaceTypeOK, Page
<1>4. \A p \in accessed' : later'[p] = {} => p = n
    BY <1>2, <1>3
<1>5. CASE n \in Valid
    <2>1. Valid' = Valid /\ Swapped' = Swapped
        BY <1>1, <1>5, Hit
    <2>2. n \in Valid' /\ n \in Resident \cup accessed
        BY <1>5, <2>1 DEF ReplaceInv
    <2> QED BY <1>2, <1>4, <2>1, <2>2, AccessTypes DEF ReplaceInv
<1>6. CASE n \notin Valid
    <2>1. Victim \in Valid /\ Valid' = (Valid \ {Victim}) \cup {n}
          /\ Swapped' = (Swapped \ {n}) \cup {Victim}
        BY <1>1, <1>6, Fault
    <2> DEFINE Others == Valid \ {Victim}
    <2>2. IsFiniteSet(Others) /\ Cardinality(Others) = Cardinality(Valid) - 1
        BY <1>1, <2>1, FS_RemoveElement
    <2>3. Cardinality(Others \cup {n}) = Cardinality(Others) + 1
        BY <1>6, <2>2, FS_AddElement
    <2>4. Cardinality(Valid) \in Nat
        BY <1>1, FS_CardinalityType
    <2>5. Cardinality(Valid') = Cardinality(Valid)
        BY <2>1, <2>2, <2>3, <2>4
    <2>6. Valid' \subseteq Resident \cup accessed'
        BY <1>2, <2>1 DEF ReplaceInv
    <2>7. Victim \in Resident \cup accessed /\ Victim # n
        BY <1>6, <2>1 DEF ReplaceInv
    <2>8. ASSUME NEW p \in Resident \cup accessed'
          PROVE  p \in Valid' <=> p \notin Swapped'
        <3>1. CASE p = n
            BY <2>1, <2>7, <3>1
        <3>2. CASE p = Victim
            BY <2>1, <2>7, <3>2
        <3>3. CASE p # n /\ p # Victim
            <4>1. p \in Resident \cup accessed
                BY <1>2, <3>3
            <4>2. p \in Valid <=> p \notin Swapped
                BY <4>1 DEF ReplaceInv
            <4> QED BY <2>1, <3>3, <4>2
        <3> QED BY <3>1, <3>2, <3>3
    <2>9. \A p \in accessed' : later'[p] = {} => p \in Valid'
        BY <1>4, <2>1
    <2> QED BY <2>5, <2>6, <2>8, <2>9, AccessTypes DEF ReplaceInv
<1> QED BY <1>5, <1>6

LEMMA NextReplaceInv == ReplaceInv /\ [ReplaceNext]_replaceVars => ReplaceInv'
<1> SUFFICES ASSUME ReplaceInv, [ReplaceNext]_replaceVars PROVE ReplaceInv'
    OBVIOUS
<1>1. CASE ReplaceNext
    BY <1>1, AccessReplaceInv DEF ReplaceNext
<1>2. CASE UNCHANGED replaceVars
    <2>1. Valid' = Valid /\ Swapped' = Swapped
        BY <1>2 DEF replaceVars, Valid, Swapped, Has
    <2>2. ReplaceTypeOK'
        BY <1>2 DEF ReplaceInv, ReplaceTypeOK, replaceVars
    <2> QED BY <1>2, <2>1, <2>2 DEF ReplaceInv, replaceVars
<1> QED BY <1>1, <1>2

\* The clock and the times of last use, while the clock has not wrapped.
LEMMA NextClockInv ==
    ASSUME ReplaceInv, ClockInv, [ReplaceNext]_replaceVars
    PROVE  ClockInv'
<1> SUFFICES ASSUME LRU_run'
             PROVE  /\ compteur_global' <= MaxLRU
                    /\ \A p \in Page : TDU'[p] <= compteur_global'
                    /\ \A p \in Page : \A q \in later'[p] : TDU'[p] < TDU'[q]
    BY DEF ClockInv
<1>1. ReplaceTypeOK
    BY DEF ReplaceInv
<1>2. CASE ReplaceNext
    <2>1. PICK n \in Page : Access(n)
        BY <1>2 DEF ReplaceNext
    <2>2. LRU_run /\ AccessLRU(n) /\ compteur_global < MaxLRU
        BY <2>1 DEF Access, AccessWSC
    <2>3. compteur_global \in Nat /\ MaxLRU \in Nat /\ CounterMod \in Nat
          /\ MaxLRU < CounterMod
        BY <1>1, MemReplaceAssumption DEF ReplaceTypeOK, ClockInv
    <2>4. (compteur_global + 1) % CounterMod = compteur_global + 1
        BY <2>2, <2>3
    <2>5. compteur_global' = compteur_global + 1
        BY <2>2, <2>4 DEF AccessLRU
    <2>6. TDU' = [TDU EXCEPT ![n] = compteur_global + 1]
        BY <2>2, <2>5 DEF AccessLRU
    <2>7. \A p \in Page : TDU'[p] = IF p = n THEN compteur_global + 1 ELSE TDU[p]
        BY <1>1, <2>6 DEF ReplaceTypeOK
    <2>8. \A p \in Page : TDU[p] \in Nat /\ TDU[p] <= compteur_global
        BY <1>1, <2>2, MemReplaceAssumption DEF ReplaceTypeOK, ClockInv
    <2>9. \A p \in Page : later'[p] = IF p = n THEN {} ELSE later[p] \cup {n}
        BY <2>1 DEF Access, Remember
    <2>10. ASSUME NEW p \in Page, NEW q \in later'[p]
           PROVE  TDU'[p] < TDU'[q]
        <3>1. p # n
            BY <2>9
        <3>2. CASE q = n
            BY <2>3, <2>7, <2>8, <3>1, <3>2
        <3>3. CASE q # n
            <4>1. q \in later[p] /\ q \in Page
                <5>1. q \in later[p]
                    BY <2>9, <3>1, <3>3
                <5>2. later[p] \subseteq Page
                    BY <1>1 DEF ReplaceTypeOK
                <5> QED BY <5>1, <5>2
            <4>2. TDU[p] < TDU[q]
                BY <2>2, <4>1 DEF ClockInv
            <4> QED BY <2>7, <3>1, <3>3, <4>1, <4>2
        <3> QED BY <3>2, <3>3
    <2>11. \A p \in Page : TDU'[p] <= compteur_global'
        BY <2>3, <2>5, <2>7, <2>8
    <2> QED BY <2>2, <2>3, <2>5, <2>10, <2>11
<1>3. CASE UNCHANGED replaceVars
    BY <1>3 DEF ClockInv, replaceVars
<1> QED BY <1>2, <1>3

\* What a fault does to the reference bits under WSClock.
LEMMA WSCFault ==
    ASSUME ReplaceTypeOK, Valid # {}, ~LRU_run, NEW n \in Page \ Valid, Access(n)
    PROVE  /\ n \in Referenced'
           /\ \A p \in Page \ {n, WSCVictim} :
                  p \in Referenced' <=> p \in Referenced /\ p \notin WSCPassed
<1> DEFINE table == Loaded(Evicted(Unreferenced, WSCVictim), n)
<1>1. page_table' = [table EXCEPT ![n] = @ \cup REF_BIT_MASK]
    BY WSCTable DEF Access, AccessLRU, AccessWSC
<1>2. WSCVictim \in Page /\ WSCVictim # n
    BY WSCVictimProperties DEF Valid
<1>3. /\ table \in [Page -> SUBSET Bit]
      /\ \A p \in Page \ {n, WSCVictim} : table[p] = Unreferenced[p]
    BY <1>2, WSCTable, Exchange
<1> HIDE DEF table
<1>4. n \in Referenced'
    BY <1>1, <1>3 DEF Referenced, Has, REF_BIT_MASK
<1>5. ASSUME NEW p \in Page \ {n, WSCVictim}
      PROVE  p \in Referenced' <=> p \in Referenced /\ p \notin WSCPassed
    <2>1. page_table'[p] = Unreferenced[p]
        BY <1>1, <1>3
    <2>2. p \in Referenced' <=> Unreferenced[p] \cap REF_BIT_MASK # {}
        BY <2>1 DEF Referenced, Has
    <2> QED BY <2>2 DEF Unreferenced, Referenced, Has, REF_BIT_MASK
<1> QED BY <1>4, <1>5

\* The pages that the history counts as passed over for certain were passed over, and
\* those that were passed over are among those it counts as possible.
LEMMA Passes ==
    ASSUME used \subseteq Referenced, Valid # {}
    PROVE  MustPass(WSCVictim) \subseteq WSCPassed /\ WSCPassed \subseteq MayPass(WSCVictim)
<1>1. WSCVictim \in used => OutOfWorkingSet = {}
    BY WSCVictimProperties DEF OutOfWorkingSet
<1>2. OutOfWorkingSet = {} => WSCVictim = Min(Valid)
    BY DEF WSCVictim
<1> QED BY <1>1, <1>2 DEF MustPass, MayPass, WSCPassed

LEMMA NextUsedInv ==
    ASSUME ReplaceInv, UsedInv, [ReplaceNext]_replaceVars
    PROVE  UsedInv'
<1>1. ReplaceTypeOK /\ Valid # {}
    BY SomeValid DEF ReplaceInv
<1>2. CASE ReplaceNext
    <2>1. PICK n \in Page : Access(n)
        BY <1>2 DEF ReplaceNext
    <2> SUFFICES ASSUME ~LRU_run'
                 PROVE  /\ used' \subseteq Valid' \cap Referenced'
                        /\ cold' \subseteq Valid' \ Referenced'
                        /\ \A p \in Page : TDU'[p] = 0
        BY DEF UsedInv
    <2>2. ~LRU_run /\ AccessWSC(n)
        BY <2>1 DEF Access, AccessLRU
    <2>3. /\ used \subseteq Valid \cap Referenced
          /\ cold \subseteq Valid \ Referenced
          /\ \A p \in Page : TDU[p] = 0
        BY <2>2 DEF UsedInv
    <2>4. \A p \in Page : TDU'[p] = 0
        BY <2>2, <2>3 DEF AccessWSC, updateTDU, REF_BIT_MASK, VALID_BIT_MASK
    <2> DEFINE out == Valid \ Valid'
    <2>5. /\ used' = (used \ (out \cup UNION {MayPass(v) : v \in out})) \cup {n}
          /\ cold' = (cold \cup UNION {MustPass(v) : v \in out}) \ (out \cup {n})
        BY <2>1, <2>2 DEF Access, Remember
    <2>6. CASE n \in Valid
        <3>1. Valid' = Valid
            BY <1>1, <2>1, <2>6, Hit
        <3>2. used' = used \cup {n} /\ cold' = cold \ {n}
            BY <2>5, <3>1
        <3>3. page_table' = [page_table EXCEPT ![n] = @ \cup REF_BIT_MASK]
            BY <2>2, <2>6 DEF AccessWSC
        <3>4. page_table \in [Page -> SUBSET Bit]
            BY <1>1 DEF ReplaceTypeOK
        <3>5. Referenced' = Referenced \cup {n}
            BY <3>3, <3>4 DEF Referenced, Has, REF_BIT_MASK
        <3> QED BY <2>3, <2>4, <2>6, <3>1, <3>2, <3>5
    <2>7. CASE n \notin Valid
        <3> DEFINE v == WSCVictim
        <3>1. v \in Valid /\ Valid' = (Valid \ {v}) \cup {n}
            BY <1>1, <2>1, <2>2, <2>7, Fault DEF Victim
        <3>2. out = {v}
            BY <2>7, <3>1
        <3>3. used' = (used \ ({v} \cup MayPass(v))) \cup {n}
              /\ cold' = (cold \cup MustPass(v)) \ {v, n}
            BY <2>5, <3>2
        <3>4. MustPass(v) \subseteq WSCPassed /\ WSCPassed \subseteq MayPass(v)
            BY <1>1, <2>3, Passes
        <3>5. /\ n \in Referenced'
              /\ \A p \in Page \ {n, v} :
                     p \in Referenced' <=> p \in Referenced /\ p \notin WSCPassed
            BY <1>1, <2>1, <2>2, <2>7, WSCFault
        <3>6. Valid \subseteq Page /\ WSCPassed \subseteq Valid
            BY DEF Valid, WSCPassed
        <3> HIDE DEF v
        <3>7. used' \subseteq Valid' \cap Referenced'
            BY <2>3, <2>7, <3>1, <3>3, <3>4, <3>5, <3>6
        <3>8. cold' \subseteq Valid' \ Referenced'
            BY <2>3, <2>7, <3>1, <3>3, <3>4, <3>5, <3>6
        <3> QED BY <2>4, <3>7, <3>8
    <2> QED BY <2>6, <2>7
<1>3. CASE UNCHANGED replaceVars
    BY <1>3 DEF UsedInv, replaceVars, Valid, Referenced, Has
<1> QED BY <1>2, <1>3

-----------------------------------------------------------------------------
\* The page replacement simulator: theorems

\* A fault of replaceLRU() or replaceWSC() exchanges one page in memory with the
\* one accessed, whatever the pages named: as many pages stay in memory, the last
\* one accessed is among them, and no page is lost or both in memory and in the swap.
THEOREM FaultsExchange == ReplaceSpec => []FaultsExchangePages
<1>1. ReplaceInv => FaultsExchangePages
    <2> SUFFICES ASSUME ReplaceInv PROVE FaultsExchangePages
        OBVIOUS
    <2>1. Resident \cup accessed \subseteq Page
        BY MemReplaceAssumption DEF ReplaceInv, ReplaceTypeOK, Page
    <2>2. ASSUME NEW p \in Resident \cup accessed
          PROVE  Has(p, VALID_BIT_MASK) <=> ~Has(p, SWAP_BIT_MASK)
        <3>1. p \in Page /\ (p \in Valid <=> p \notin Swapped)
            BY <2>1 DEF ReplaceInv
        <3> QED BY <3>1 DEF Valid, Swapped
    <2> QED BY <2>2 DEF FaultsExchangePages, ReplaceInv
<1>2. ReplaceInit => ReplaceInv
    BY InitReplaceInv
<1> QED BY <1>1, <1>2, NextReplaceInv, PTL DEF ReplaceSpec

\* The page a fault puts out is the victim of its algorithm.
LEMMA PutOut ==
    ASSUME ReplaceInv, [ReplaceNext]_replaceVars, NEW v \in Valid \ Valid'
    PROVE  /\ v = Victim
           /\ \E n \in Page \ Valid : Access(n)
<1>1. ReplaceTypeOK /\ Valid # {}
    BY SomeValid DEF ReplaceInv
<1>2. ~UNCHANGED replaceVars
    BY DEF replaceVars, Valid, Has
<1>3. PICK n \in Page : Access(n)
    BY <1>2 DEF ReplaceNext
<1>4. n \notin Valid
    BY <1>1, <1>3, Hit
<1>5. Valid' = (Valid \ {Victim}) \cup {n}
    BY <1>1, <1>3, <1>4, Fault
<1> QED BY <1>3, <1>4, <1>5

\* Until compteur_global, a uint8_t, wraps, replaceLRU() puts out a page that no
\* other page in memory was used before.  The bound is needed: TDU[] no longer
\* orders the accesses once the clock has wrapped.
THEOREM LRUEvictsOldest == MaxLRU < CounterMod /\ ReplaceSpec => EvictsLeastRecent
<1>1. ReplaceInv /\ ClockInv /\ [ReplaceNext]_replaceVars
        => [LRU_run => \A v \in Valid \ Valid' : \A q \in Valid : v \notin later[q]]_replaceVars
    <2> SUFFICES ASSUME ReplaceInv, ClockInv, [ReplaceNext]_replaceVars, LRU_run,
                        NEW v \in Valid \ Valid', NEW q \in Valid, v \in later[q]
                 PROVE  FALSE
        OBVIOUS
    <2>1. ReplaceTypeOK /\ Valid # {}
        BY SomeValid DEF ReplaceInv
    <2>2. v = LeastRecentlyUsed
        BY PutOut DEF Victim
    <2>3. TDU[v] <= TDU[q]
        BY <2>1, <2>2, LRUVictim
    <2>4. q \in Page /\ v \in Page
        BY DEF Valid
    <2>5. TDU[q] < TDU[v]
        BY <2>4 DEF ClockInv
    <2>6. TDU[q] \in Nat /\ TDU[v] \in Nat
        BY <2>1, <2>4, MemReplaceAssumption DEF ReplaceTypeOK
    <2> QED BY <2>3, <2>5, <2>6
<1>2. ReplaceInv /\ ClockInv /\ [ReplaceNext]_replaceVars => ReplaceInv' /\ ClockInv'
    BY NextReplaceInv, NextClockInv
<1> QED BY <1>1, <1>2, InitReplaceInv, PTL DEF ReplaceSpec, EvictsLeastRecent

\* replaceWSC() spares the pages accessed since it may have passed them over, as long
\* as one page in memory was not accessed since it passed that one over; whatever
\* number of pages, of accesses and of wraps of TVC, but for the DELTA + 1 accesses
\* after each wrap, when the first page in memory goes.
THEOREM WSClockSparesUsed == ReplaceSpec => UnusedGoFirst
<1>1. ReplaceInit => ReplaceInv /\ UsedInv
    <2>1. ASSUME ReplaceInit PROVE UsedInv
        <3>1. Resident \subseteq Page
            BY MemReplaceAssumption DEF Page
        <3>2. Valid = Resident
            BY <2>1, <3>1 DEF ReplaceInit, Valid, Has, VALID_BIT_MASK, SWAP_BIT_MASK
        <3>3. Referenced = {}
            BY <2>1 DEF ReplaceInit, Referenced, Has, VALID_BIT_MASK, SWAP_BIT_MASK, REF_BIT_MASK
        <3> QED BY <2>1, <3>2, <3>3 DEF ReplaceInit, UsedInv
    <2> QED BY <2>1, InitReplaceInv
<1>2. ReplaceInv /\ UsedInv /\ [ReplaceNext]_replaceVars
        => [~LRU_run /\ TVC > DELTA =>
                \A v \in Valid \ Valid' : v \in used => cold = {}]_replaceVars
    <2> SUFFICES ASSUME ReplaceInv, UsedInv, [ReplaceNext]_replaceVars,
                        ~LRU_run, TVC > DELTA,
                        NEW v \in Valid \ Valid', v \in used, NEW q \in cold
                 PROVE  FALSE
        OBVIOUS
    <2>1. ReplaceTypeOK /\ Valid # {}
        BY SomeValid DEF ReplaceInv
    <2>2. v = WSCVictim
        BY PutOut DEF Victim
    <2>3. v \in Referenced /\ q \in Valid \ Referenced /\ TDU[q] = 0
        BY DEF UsedInv, Valid
    <2>4. OutOfWorkingSet = {}
        BY <2>1, <2>2, <2>3, WSCVictimProperties DEF OutOfWorkingSet
    <2>5. TVC - TDU[q] > DELTA
        BY <2>1, <2>3, MemReplaceAssumption DEF ReplaceTypeOK
    <2> QED BY <2>3, <2>4, <2>5 DEF OutOfWorkingSet
<1>3. ReplaceInv /\ UsedInv /\ [ReplaceNext]_replaceVars => ReplaceInv' /\ UsedInv'
    BY NextReplaceInv, NextUsedInv
<1> QED BY <1>1, <1>2, <1>3, PTL DEF ReplaceSpec, UnusedGoFirst
=============================================================================
