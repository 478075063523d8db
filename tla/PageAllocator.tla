---------------------------- MODULE PageAllocator ----------------------------
(***************************************************************************)
(* What the physical memory manager promises (module Memman implements     *)
(* it): get4k hands out a page that nobody has, and returns NULL only when *)
(* there is none; free4k takes back a page that was handed out.            *)
(***************************************************************************)
CONSTANT NULL

VARIABLES
  free,   \* pages that may be handed out
  taken,  \* pages handed out
  ret     \* what the last get4k returned

Init == free = {} /\ taken = {} /\ ret = NULL

\* Memory the boot loader reports.
AddMemory ==
  /\ free \subseteq free'
  /\ (free' \ free) \cap taken = {}
  /\ UNCHANGED <<taken, ret>>

Get ==
  \/ /\ ret' \in free
     /\ free' = free \ {ret'}
     /\ taken' = taken \cup {ret'}
  \/ free = {} /\ ret' = NULL /\ UNCHANGED <<free, taken>>

Release ==
  /\ \E p \in taken : taken' = taken \ {p} /\ free' = free \cup {p}
  /\ UNCHANGED ret

Spec == Init /\ [][AddMemory \/ Get \/ Release]_<<free, taken, ret>>
=============================================================================
