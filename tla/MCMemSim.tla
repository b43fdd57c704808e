------------------------------- MODULE MCMemSim -------------------------------
(* MemSim for TLC: 16 pages of 16 bytes, and addresses in pages of each kind, *)
(* at both ends of a page and of the memory, one of them given on 32 bits.    *)
EXTENDS MemSim

SomeAddresses == {0, 15, 16, 80, 160, 207, 208, 255, 256 + 16}
TwoBytes == {0, 1}
=============================================================================
