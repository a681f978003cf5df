------------------------------- MODULE MCHeap -------------------------------
\* Symmetry for the instance of Heap.
EXTENDS Heap

CONSTANTS d, f, g, h

\* Four of the entries are interchangeable: the heap only compares keys and indices.
Symmetry == Permutations({d, f, g, h})
=============================================================================
