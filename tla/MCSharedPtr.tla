---------------------------- MODULE MCSharedPtr ----------------------------
(* Small instances of SharedPtr: the tasks are interchangeable, and so are the
   handles other than the first. *)
EXTENDS SharedPtr, TLC

Symmetry == Permutations(Task) \cup Permutations(Handle \ {First})
=============================================================================
