-------------------------------- MODULE ExecArgs --------------------------------
(***************************************************************************)
(* How execve() carries argv and envp into the new image                   *)
(* (so3/kernel/process.c): preserve_args_and_env() lays them out in a page *)
(* of the kernel heap, post_setup_image() copies the page to the address   *)
(* where the program expects it and moves the pointers along.              *)
(*                                                                         *)
(* A page is a function from offsets to what they contain; a word holds a  *)
(* number or an address at its first offset.  A string is a sequence of    *)
(* numbers other than 0.  env.given is FALSE for a NULL envp.              *)
(***************************************************************************)
EXTENDS Integers, Sequences

CONSTANTS
    WORD,        \* sizeof(int), and of a pointer
    PAGE_SIZE,
    KernelPage,  \* the address malloc() returned
    ArgsBase,    \* arch_get_args_base()
    ProcName     \* the name of the process, argv[0] if there is no argument

\* The name of a process, of PROC_NAME_LEN bytes at most, fits in the page.
ASSUME ExecArgsAssumption ==
    /\ {WORD, PAGE_SIZE, KernelPage, ArgsBase} \subseteq Nat \ {0}
    /\ KernelPage # ArgsBase
    /\ ProcName \in Seq(Nat \ {0}) /\ WORD * 3 + Len(ProcName) + 1 <= PAGE_SIZE

Offset == 0 .. PAGE_SIZE - 1

-----------------------------------------------------------------------------
\* preserve_args_and_env()

ArgCount(argv) == IF argv = <<>> THEN 1 ELSE Len(argv)

\* Mutant: the word that ends the environment is not counted.
EnvSlotsNoEnd(env) == Len(env.strings)

\* The words of the array of the environment, with the NULL that ends it.
EnvSlots(env) == Len(env.strings) + 1

\* The strings that are placed, those of the arguments first.
Strings(argv, env) == (IF argv = <<>> THEN <<ProcName>> ELSE argv) \o env.strings

\* Where the first string goes: after argc and the two arrays.
FirstString(argv, env) == WORD * (1 + ArgCount(argv) + EnvSlots(env))

\* Where string k goes, each one followed by a 0.
PlaceOf(at, first, strs, k) == IF k = 1 THEN first ELSE at[k - 1] + Len(strs[k - 1]) + 1

Place(argv, env) ==
    LET strs == Strings(argv, env)
        at[k \in 1 .. Len(strs) + 1] == PlaceOf(at, FirstString(argv, env), strs, k)
    IN at

\* Words are tested once the string is copied, but for the name of the process,
\* which is put without a test.  The function returns NULL then.
DoesNotFit(argv, env) ==
    LET at == Place(argv, env)
        tested == IF argv = <<>> THEN 2 ELSE 1
    IN \E k \in tested .. Len(Strings(argv, env)) : at[k + 1] > PAGE_SIZE

\* values stored from offset o on.
Poke(page, o, values) ==
    [x \in DOMAIN page |-> IF x \in o .. o + Len(values) - 1 THEN values[x - o + 1]
                                                            ELSE page[x]]

\* String str is stored at offset o, and its address in word k.
Store(page, k, o, str) == Poke(Poke(page, WORD * k, <<KernelPage + o>>), o, str \o <<0>>)

Header(argc) == Poke([o \in Offset |-> 0], 0, <<argc>>)

\* The page with the first k strings.
PageWith(pages, argc, at, strs, k) ==
    IF k = 0 THEN Header(argc) ELSE Store(pages[k - 1], k, at[k], strs[k])

\* The page when it fits.  The two arrays are contiguous: word k holds the
\* address of string k.
preserve_args_and_env(argv, env) ==
    LET strs == Strings(argv, env)
        at == Place(argv, env)
        pages[k \in 0 .. Len(strs)] == PageWith(pages, ArgCount(argv), at, strs, k)
    IN pages[Len(strs)]

-----------------------------------------------------------------------------
\* post_setup_image()

\* The number of addresses of the environment, up to the first NULL.
EnvLength(page, argc) ==
    CHOOSE n \in 0 .. PAGE_SIZE :
        /\ page[WORD * (1 + argc + n)] = 0
        /\ \A k \in 0 .. n - 1 : page[WORD * (1 + argc + k)] # 0

\* The page at its place, every address moved by the distance between the pages.
post_setup_image(page) ==
    LET argc == page[0]
        slots == {WORD * k : k \in 1 .. argc + EnvLength(page, argc)}
    IN [o \in Offset |-> IF o \in slots THEN page[o] - KernelPage + ArgsBase ELSE page[o]]

-----------------------------------------------------------------------------
\* What the start-up code of a program (external) makes of the page at ArgsBase.

StringAt(page, addr) ==
    LET from == addr - ArgsBase
        ends == {o \in Offset : o >= from /\ page[o] = 0}
    IN IF from \in Offset /\ ends # {}
       THEN LET end == CHOOSE o \in ends : \A x \in ends : o <= x
            IN [k \in 1 .. end - from |-> page[from + k - 1]]
       ELSE <<-1>>

ArgsOf(page) ==
    LET argc == page[0]
        String(k) == StringAt(page, page[WORD * k])
    IN [argv |-> [k \in 1 .. argc |-> String(k)],
        envp |-> [k \in 1 .. EnvLength(page, argc) |-> String(argc + k)]]

\* What the new image reads, and what execve() was given.
Received(argv, env) == ArgsOf(post_setup_image(preserve_args_and_env(argv, env)))

Given(argv, env) == [argv |-> IF argv = <<>> THEN <<ProcName>> ELSE argv,
                     envp |-> env.strings]
=============================================================================
