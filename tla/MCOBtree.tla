------------------------------ MODULE MCOBtree ------------------------------
EXTENDS OBtree

\* Seven keys that differ in their first five bytes.
MCKeys   == 1 .. 7
MCFirst5 == [k \in MCKeys |-> k]

=============================================================================
