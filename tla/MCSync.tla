------------------------------- MODULE MCSync -------------------------------
(* A small instance of Sync: three tasks and Idle, so that two tasks can
   sleep on the mutex a third one keeps locking. *)
EXTENDS Sync

CONSTANTS idle, a, b, c

Tasks == {idle, a, b, c}
Order == <<a, b, c>>
=============================================================================
