------------------------------ MODULE TtyProofs ------------------------------
(***************************************************************************)
(* Proofs about Tty, for every number of tasks, size of the buffer and     *)
(* size of the device: no reader is left waiting while there is a          *)
(* character, and the keyboard's pooler never spins for a byte it was      *)
(* promised.  IInv is inductive: the mutex conjuncts say who may change    *)
(* the buffer, the third who owes the readers a notification.              *)
(***************************************************************************)
EXTENDS Tty, TLAPS

\* The invariant holds at the start (SerialTty, PS2Keyboard constructors).
LEMMA InitIInv == Init => IInv
  BY TtyAssumption DEF Init, IInv, BufInit, empty, Task, PoolerHolds, WillNotify, MayNotify

\* A step of the device (isr).
LEMMA ArriveIInv == IInv /\ Arrive => IInv'
<1> SUFFICES ASSUME IInv, Arrive PROVE IInv'
  OBVIOUS
<1>1. PICK byte \in {Odd, arrived'} : fifo' = Append(fifo, byte)
  BY DEF Arrive
<1>a. arrived' \in Nat
  BY DEF IInv, Arrive
<1>b. byte \in Nat
  BY <1>1, <1>a DEF Odd
<1>2. fifo' \in Seq(Nat) /\ fifo' # <<>>
  BY <1>1, <1>b DEF IInv
<1>3. /\ DOMAIN pc' = Task /\ \A u \in User : pc'[u] = pc[u]
      /\ pc'[Pooler] = IF pc[Pooler] = "p_waiting" THEN "p_relock" ELSE pc[Pooler]
  BY TtyAssumption DEF Arrive, IInv, Task
<1>4. UNCHANGED <<mutex, read_something, empty>>
  BY DEF Arrive, bufVars, empty
<1> QED
  BY <1>a, <1>2, <1>3, <1>4 DEF IInv, PoolerHolds, WillNotify, MayNotify

\* A step of the serial pooler (read, this_pooler).
LEMMA SerialIInv == IInv /\ (SerialRead \/ SerialReadNothing \/ SerialNap) => IInv'
<1> SUFFICES ASSUME IInv, SerialRead \/ SerialReadNothing \/ SerialNap PROVE IInv'
  OBVIOUS
<1>1. pc[Pooler] \in PoolerHolds /\ mutex = Pooler /\ UNCHANGED <<mutex, arrived>>
  BY DEF IInv, SerialRead, SerialReadNothing, SerialNap, ReadPcs, PoolerHolds
<1>2. DOMAIN pc' = Task /\ \A u \in User : pc'[u] = pc[u]
  BY TtyAssumption DEF IInv, SerialRead, SerialReadNothing, SerialNap, Goto, Task
<1>a. fifo # <<>> => Tail(fifo) \in Seq(Nat)
  BY DEF IInv
<1>b. fifo' = fifo \/ fifo' = <<>> \/ (fifo # <<>> /\ fifo' = Tail(fifo))
  BY DEF SerialRead, SerialReadNothing, SerialNap, Available
<1>c. <<>> \in Seq(Nat)
  OBVIOUS
<1>3. fifo' \in Seq(Nat)
  BY <1>a, <1>b, <1>c DEF IInv
<1>4. CASE SerialRead
  <2>1. pc'[Pooler] = "p_readmore"
    BY <1>4 DEF IInv, SerialRead, Goto, Task
  <2> QED
    BY <1>1, <1>2, <1>3, <2>1 DEF IInv, PoolerHolds, WillNotify
<1>5. CASE SerialReadNothing
  <2>1. \/ pc[Pooler] = "p_read" /\ pc'[Pooler] = "p_wait"
        \/ pc[Pooler] \in WillNotify /\ pc'[Pooler] \in WillNotify
    BY <1>5 DEF IInv, SerialReadNothing, Goto, Task, ReadPcs, WillNotify
  <2>2. UNCHANGED <<empty, read_something>>
    BY <1>5 DEF SerialReadNothing, bufVars, empty
  <2> QED
    BY <1>1, <1>2, <1>3, <2>1, <2>2 DEF IInv, PoolerHolds, WillNotify, MayNotify
<1>6. CASE SerialNap
  <2>1. pc'[Pooler] = "p_readlast"
    BY <1>6 DEF IInv, SerialNap, Goto, Task
  <2> QED
    BY <1>1, <1>2, <1>3, <2>1 DEF IInv, PoolerHolds, WillNotify
<1> QED
  BY <1>4, <1>5, <1>6

\* A step of the keyboard's pooler (wait_in, this_pooler).
LEMMA KeyIInv ==
  IInv /\ (KeyWaitIn \/ KeyRead \/ KeyEnter \/ KeySkip \/ KeyLoopEnd) => IInv'
<1> SUFFICES ASSUME IInv, KeyWaitIn \/ KeyRead \/ KeyEnter \/ KeySkip \/ KeyLoopEnd
             PROVE  IInv'
  OBVIOUS
<1>1. pc[Pooler] \in PoolerHolds /\ mutex = Pooler /\ UNCHANGED <<mutex, arrived>>
  BY DEF IInv, KeyWaitIn, KeyRead, KeyEnter, KeySkip, KeyLoopEnd, PoolerHolds
<1>2. DOMAIN pc' = Task /\ \A u \in User : pc'[u] = pc[u]
  BY TtyAssumption DEF IInv, KeyWaitIn, KeyRead, KeyEnter, KeySkip, KeyLoopEnd, Goto, Task
<1>a. fifo # <<>> => Tail(fifo) \in Seq(Nat)
  BY DEF IInv
<1>b. fifo' = fifo \/ (fifo # <<>> /\ fifo' = Tail(fifo))
  BY DEF KeyWaitIn, KeyRead, KeyEnter, KeySkip, KeyLoopEnd
<1>3. fifo' \in Seq(Nat)
  BY <1>a, <1>b DEF IInv
<1>4. CASE KeyWaitIn
  <2>1. pc[Pooler] = "k_in" /\ pc'[Pooler] = "k_loop" /\ UNCHANGED empty
    BY <1>4 DEF IInv, KeyWaitIn, Goto, Task, bufVars, empty
  <2> QED
    BY <1>1, <1>2, <1>3, <2>1 DEF IInv, PoolerHolds, WillNotify, MayNotify
<1>5. CASE KeyRead
  <2>1. pc[Pooler] = "k_loop" /\ pc'[Pooler] \in MayNotify
    BY <1>5 DEF IInv, KeyRead, Goto, Task, MayNotify
  <2>2. \/ read_something' = TRUE
        \/ UNCHANGED <<empty, read_something>> /\ pc'[Pooler] # "k_enter"
    BY <1>5, <2>1 DEF IInv, KeyRead, Goto, Task, bufVars, empty
  <2> QED
    BY <1>1, <1>2, <1>3, <2>1, <2>2 DEF IInv, PoolerHolds, WillNotify, MayNotify
<1>6. CASE KeyEnter
  <2>1. pc[Pooler] = "k_enter" /\ pc'[Pooler] = "k_loop" /\ UNCHANGED read_something
    BY <1>6 DEF IInv, KeyEnter, Goto, Task
  <2> QED
    BY <1>1, <1>2, <1>3, <2>1 DEF IInv, PoolerHolds, WillNotify, MayNotify
<1>7. CASE KeySkip
  <2>1. /\ pc[Pooler] = "k_skip" /\ pc'[Pooler] = "k_loop"
        /\ UNCHANGED <<empty, read_something>>
    BY <1>7 DEF IInv, KeySkip, Goto, Task, bufVars, empty
  <2> QED
    BY <1>1, <1>2, <1>3, <2>1 DEF IInv, PoolerHolds, WillNotify, MayNotify
<1>8. CASE KeyLoopEnd
  <2>1. /\ pc[Pooler] = "k_loop" /\ UNCHANGED <<empty, read_something>>
        /\ pc'[Pooler] = IF read_something THEN "p_notify" ELSE "p_wait"
    BY <1>8 DEF IInv, KeyLoopEnd, Goto, Task, bufVars, empty
  <2> QED
    BY <1>1, <1>2, <1>3, <2>1 DEF IInv, PoolerHolds, WillNotify, MayNotify
<1> QED
  BY <1>4, <1>5, <1>6, <1>7, <1>8

\* A step that both poolers take (lock, notify_all, wait).
LEMMA PoolerIInv == IInv /\ (PoolerLock \/ PoolerNotify \/ PoolerWait) => IInv'
<1> SUFFICES ASSUME IInv, PoolerLock \/ PoolerNotify \/ PoolerWait PROVE IInv'
  OBVIOUS
<1>1. UNCHANGED <<fifo, arrived, read_something, empty>>
  BY DEF PoolerLock, PoolerNotify, PoolerWait, bufVars, empty
<1>2. CASE PoolerLock
  <2>1. /\ DOMAIN pc' = Task /\ \A u \in User : pc'[u] = pc[u]
        /\ mutex = None /\ mutex' = Pooler
    BY <1>2, TtyAssumption DEF IInv, PoolerLock, Lock, Goto, Task
  <2>2. \/ pc[Pooler] = "p_lock" /\ pc'[Pooler] \in {"p_read", "p_wait"}
        \/ pc[Pooler] = "p_relock" /\ pc'[Pooler] \in {"p_read", "k_in"}
    BY <1>2 DEF IInv, PoolerLock, Lock, Goto, Task
  <2>3. \A u \in User : u # None /\ u # Pooler
    BY TtyAssumption
  <2> QED
    BY <1>1, <2>1, <2>2, <2>3 DEF IInv, PoolerHolds, WillNotify, MayNotify
<1>3. CASE PoolerNotify
  <2>1. /\ DOMAIN pc' = Task /\ UNCHANGED mutex
        /\ pc[Pooler] = "p_notify" /\ pc'[Pooler] = "p_wait"
        /\ \A u \in User : pc'[u] = IF pc[u] = "u_waiting" THEN "u_lock" ELSE pc[u]
    BY <1>3, TtyAssumption DEF PoolerNotify, Task
  <2> QED
    BY <1>1, <2>1 DEF IInv, PoolerHolds
<1>4. CASE PoolerWait
  <2>1. /\ DOMAIN pc' = Task /\ \A u \in User : pc'[u] = pc[u]
        /\ pc[Pooler] = "p_wait" /\ pc'[Pooler] = "p_waiting" /\ mutex' = None
    BY <1>4, TtyAssumption DEF IInv, PoolerWait, Goto, Task
  <2>2. /\ None # Pooler /\ mutex = Pooler
        /\ \A u \in User : u # None /\ u # Pooler
    BY <2>1, TtyAssumption DEF IInv, PoolerHolds
  <2> QED
    BY <1>1, <2>1, <2>2 DEF IInv, PoolerHolds, WillNotify, MayNotify
<1> QED
  BY <1>2, <1>3, <1>4

\* A step of a user task (readchar, putchar).
LEMMA UserIInv == ASSUME NEW u \in User PROVE IInv /\ (Request(u) \/ UserStep(u)) => IInv'
<1> SUFFICES ASSUME IInv, Request(u) \/ UserStep(u) PROVE IInv'
  OBVIOUS
<1>1. /\ UNCHANGED <<fifo, arrived, read_something>>
      /\ DOMAIN pc' = Task
      /\ \A t \in Task \ {u} : pc'[t] = pc[t]
  BY DEF IInv, Request, UserStep, UserLock, Lock, ReadWait, ReadPop, Put, Goto, Task
<1>2. u \in Task /\ u # Pooler /\ u # None /\ Pooler # None /\ Pooler \in Task
  BY TtyAssumption DEF Task
<1>3. /\ pc'[Pooler] = pc[Pooler]
      /\ \A v \in User : v # u => pc'[v] = pc[v]
      /\ \A v \in User : v # None /\ v # Pooler
  BY <1>1, <1>2, TtyAssumption DEF Task
<1>4. CASE Request(u)
  <2>1. /\ pc[u] = "u_free" /\ pc'[u] \in {"u_putlock", "u_lock"}
        /\ UNCHANGED <<mutex, empty>>
    BY <1>2, <1>4 DEF IInv, Request, Goto, bufVars, empty
  <2> QED
    BY <1>1, <1>3, <2>1 DEF IInv
<1>5. CASE UserLock(u)
  <2>1. /\ pc[u] \in {"u_lock", "u_putlock"} /\ pc'[u] \in {"u_read", "u_put"}
        /\ mutex = None /\ mutex' = u /\ UNCHANGED empty
    BY <1>2, <1>5 DEF IInv, UserLock, Lock, Goto, bufVars, empty
  <2> QED
    BY <1>1, <1>2, <1>3, <2>1 DEF IInv
<1>6. CASE ReadWait(u)
  <2>1. /\ pc[u] = "u_read" /\ pc'[u] = "u_waiting"
        /\ mutex = u /\ mutex' = None /\ empty /\ UNCHANGED empty
    BY <1>2, <1>6 DEF IInv, ReadWait, Goto, bufVars, empty
  <2> QED
    BY <1>1, <1>2, <1>3, <2>1 DEF IInv
<1>7. CASE ReadPop(u)
  <2>1. /\ pc[u] = "u_read" /\ pc'[u] \in {"u_lock", "u_free"}
        /\ mutex = u /\ mutex' = None /\ ~empty
    BY <1>2, <1>7 DEF IInv, ReadPop, Goto
  <2>2. \A v \in User : pc[v] # "u_waiting"
    BY <1>2, <2>1 DEF IInv, PoolerHolds, WillNotify, MayNotify
  <2> QED
    BY <1>1, <1>2, <1>3, <2>1, <2>2 DEF IInv
<1>8. CASE Put(u)
  <2>1. /\ pc[u] = "u_put" /\ pc'[u] = "u_free"
        /\ mutex = u /\ mutex' = None /\ UNCHANGED empty
    BY <1>2, <1>8 DEF IInv, Put, Goto, bufVars, empty
  <2> QED
    BY <1>1, <1>2, <1>3, <2>1 DEF IInv
<1> QED
  BY <1>4, <1>5, <1>6, <1>7, <1>8 DEF UserStep

\* Every step preserves the invariant.
LEMMA NextIInv == IInv /\ [Next]_vars => IInv'
<1> SUFFICES ASSUME IInv, [Next]_vars PROVE IInv'
  OBVIOUS
<1>1. CASE PoolerStep
  BY <1>1, PoolerIInv, SerialIInv, KeyIInv DEF PoolerStep
<1>2. CASE UNCHANGED vars
  BY <1>2 DEF vars, bufVars, IInv, empty
<1> QED
  BY <1>1, <1>2, ArriveIInv, UserIInv DEF Next

\* The invariant holds in every behaviour of the terminal.
THEOREM IInvariant == Spec => []IInv
<1> QED
  BY InitIInv, NextIInv, PTL DEF Spec

\* No reader waits while there is a character, except when the pooler holds the
\* mutex and is about to notify all readers, for any number of readers and any
\* sizes of buffer and device (this_pooler, readchar).
THEOREM NoReaderForgotten == Spec => []ReadersNotified
<1>1. IInv => ReadersNotified
  BY DEF IInv, ReadersNotified, PoolerHolds, WillNotify, MayNotify
<1> QED
  BY IInvariant, <1>1, PTL

\* The keyboard's pooler finds the byte it was notified of, so wait_in() never
\* spins with the mutex locked (PS2Keyboard.cpp).
THEOREM NeverSpinsForKey == Spec => []KeyReady
<1>1. IInv => KeyReady
  BY DEF IInv, KeyReady
<1> QED
  BY IInvariant, <1>1, PTL
=============================================================================
