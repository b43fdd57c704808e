------------------------------- MODULE MCThreads -------------------------------
EXTENDS Threads

\* 'a', 'A', 'b', 'c' (which is no letter when two are counted), a space, NUL.
MCFiles == {<<>>, <<97>>, <<65, 98>>, <<97, 32, 65>>, <<98, 97, 99, 66>>,
            <<97, 65, 98, 97, 32>>, <<97, 98, 0, 97>>}

MCThreadArgs == -1 .. 5
=============================================================================
