---------------------------- MODULE MCSafeOBtree ----------------------------
EXTENDS SafeOBtree

\* Even keys, each of which keeps its first five bytes when it is overwritten.
MCKeys   == {2, 4, 6, 8, 10, 12, 14}

\* Enough for removals of a first, a middle and a last key.
MCRemovable == {4, 8, 14}

MCFirst5 == [k \in 0 .. 15 |-> k \div 2]

=============================================================================
