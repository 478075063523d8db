------------------------------- MODULE MCKmem -------------------------------
(* Small instances of Kmem: the tasks are interchangeable. *)
EXTENDS Kmem

Symmetry == Permutations(Task)
=============================================================================
