----------------------------- MODULE MCMemReplace -----------------------------
(* A small instance of MemReplace for TLC. *)
EXTENDS MemReplace

ThreePages == {0, 1, 2}
=============================================================================
