------------------------------ MODULE FlatMemory ------------------------------
(***************************************************************************)
(* What the paged memory of lab 06 promises its user: a flat array of      *)
(* bytes, indexed by virtual address, some parts of which may not be read  *)
(* or written.                                                             *)
(***************************************************************************)
EXTENDS Integers

CONSTANTS
    Address,    \* the virtual addresses
    Byte,
    Zero        \* the byte every address holds at the start

VARIABLES
    memory,     \* what each address holds
    readable,   \* the addresses that can be read, for good
    writable,   \* the addresses that can be written, for good
    result      \* what the last call returned: -1, the byte read, or ok

vars == <<memory, readable, writable, result>>

Failed == [status |-> -1, byte |-> Zero]
Returned(b) == [status |-> 0, byte |-> b]

Init ==
    /\ memory = [a \in Address |-> Zero]
    /\ readable \in SUBSET Address
    /\ writable \in SUBSET readable
    /\ result = Failed

Read(a) ==
    /\ result' = IF a \in readable THEN Returned(memory[a]) ELSE Failed
    /\ UNCHANGED <<memory, readable, writable>>

Write(a, b) ==
    /\ memory' = IF a \in writable THEN [memory EXCEPT ![a] = b] ELSE memory
    /\ result' = IF a \in writable THEN Returned(Zero) ELSE Failed
    /\ UNCHANGED <<readable, writable>>

Next == \E a \in Address : Read(a) \/ \E b \in Byte : Write(a, b)

Spec == Init /\ [][Next]_vars
=============================================================================
