------------------------------ MODULE MCPageTable ------------------------------
EXTENDS PageTable, TLC

CONSTANTS A, B, f1, f2, f3, f4, a, b

FourFrames == {f1, f2, f3, f4}
TwoProcesses == {A, B}
StackPage == {3}
TwoOrThreePages == {{1, 3}, {1, 2, 3}}
OneDevice == {<<6, 9, 1>>}
Tables == 1 .. 6
TwoContents == {a, b}

\* Processes, frames and contents are interchangeable.
Symmetry == Permutations(TwoProcesses) \cup Permutations(FourFrames)
              \cup Permutations(TwoContents)
=============================================================================
