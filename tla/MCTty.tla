-------------------------------- MODULE MCTty --------------------------------
(* A small instance of Tty: two readers, a buffer that fills and wraps. *)
EXTENDS Tty

Bytes == 0..2 * MaxBytes + 1
=============================================================================
