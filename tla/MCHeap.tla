------------------------------- MODULE MCHeap -------------------------------
\* Small instances of Heap: 6-bit words, 16 to 20 bytes of memory.
EXTENDS Heap

\* The dwords a program pushes: four ones.
MCDwords == {[i \in 0..3 |-> v] : v \in {1}}
=============================================================================
