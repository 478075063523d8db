--------------------------- MODULE CircularBuffer ---------------------------
(***************************************************************************)
(* CircularBuffer<T, S> of src/src/kernel/templates/CircularBuffer.hpp, the *)
(* buffer of received characters of a terminal: an array and two indices,  *)
(* -1 while the buffer is empty.                                           *)
(***************************************************************************)
EXTENDS Integers, Sequences

CONSTANTS
  S,    \* the size of the array
  Elem  \* what T can hold

ASSUME BufferAssumption == S \in Nat \ {0}

VARIABLES data, front, back

bufVars == <<data, front, back>>

full == (front = 0 /\ back = S - 1) \/ front = back + 1

empty == front = -1

push_back(what) ==
  /\ ~full
  /\ front' = IF front = -1 THEN 0 ELSE front
  /\ back' = (back + 1) % S
  /\ data' = [data EXCEPT ![back'] = what]

\* Mutant of pop_back: the last element does not empty the buffer.
pop_backNoReset ==
  /\ ~empty
  /\ front' = (front + 1) % S
  /\ UNCHANGED <<data, back>>

pop_back ==
  /\ ~empty
  /\ front' = IF front = back THEN -1 ELSE (front + 1) % S
  /\ back' = IF front = back THEN -1 ELSE back
  /\ UNCHANGED data

\* Mutant of popped: the newest element.
poppedNewest == data[back]

\* What pop_back returns.
popped == data[front]

\* The array is not initialised by the constructor.
BufInit == front = -1 /\ back = -1 /\ data \in [0..S - 1 -> Elem]

BufNext == pop_back \/ \E what \in Elem : push_back(what)

BufSpec == BufInit /\ [][BufNext]_bufVars

BufTypeOK ==
  /\ data \in [0..S - 1 -> Elem]
  /\ front \in -1..S - 1
  /\ back \in -1..S - 1
  /\ front = -1 <=> back = -1

-----------------------------------------------------------------------------
\* The number of elements, and the elements, oldest first, when the indices
\* are f and b and the array is d.
Count(f, b) ==
  IF f = -1 THEN 0 ELSE IF b >= f THEN b - f + 1 ELSE b - f + 1 + S

ContentsOf(d, f, b) == [i \in 1..Count(f, b) |-> d[(f + i - 1) % S]]

Contents == ContentsOf(data, front, back)

Queue == INSTANCE BoundedQueue WITH queue <- Contents, Capacity <- S

\* The buffer is a first-in first-out queue of at most S elements: no stale
\* element of the array is ever returned, none is lost, none comes twice,
\* whatever the indices have wrapped around to (push_back, pop_back, full).
FifoSpec == Queue!Spec
=============================================================================
