------------------------------- MODULE MCSleep -------------------------------
(* A small instance of Sleep: the waker and two tasks that sleep. *)
EXTENDS Sleep

CONSTANTS idle, waker, a, b

Tasks == {idle, waker, a, b}
Order == <<waker, a, b>>
=============================================================================
