------------------------------ MODULE MCProcess ------------------------------
(* Small instances of Process for TLC. *)
EXTENDS Process, TLC

CONSTANTS f1, f2, f3, f4, f5, k1

\* Memory for a few processes, so that fork() and execve() also run out of it.
FiveFrames == {f1, f2, f3, f4, f5}
FourFrames == {f1, f2, f3, f4}
KernelFrameDef == {k1}
OneOrTwoPages == {1, 2}
OnePage == {1}

\* Frames are interchangeable: no definition of Process names one.
FrameSymmetry == Permutations(Frame)
=============================================================================
