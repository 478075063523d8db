------------------------------- MODULE MCVma -------------------------------
(* The layout of the kernel with small distances: three pages below the task
   pointer page, a stack of four, programs of one and of two segments. *)
EXTENDS Vma

Small == <<[vaddr |-> 9, pages |-> 1]>>
Large == <<[vaddr |-> 9, pages |-> 1], [vaddr |-> 11, pages |-> 1]>>

SomeIncrements == {-5, 1, 3}
TwoPrograms == {Small, Large}

Symmetry == Permutations(Task)
=============================================================================
