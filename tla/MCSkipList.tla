----------------------------- MODULE MCSkipList -----------------------------
(* Three keys, two values, three levels, and a pool of one node, so that    *)
(* nodes are reused from the pool and come back from kmalloc.               *)
EXTENDS SkipList

\* What an operation does depends on the list alone.
View == list
=============================================================================
