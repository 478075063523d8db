--------------------------------- MODULE Tty ---------------------------------
(***************************************************************************)
(* A terminal: the serial port of src/src/arch/x86/SerialTty.cpp or the    *)
(* PS/2 keyboard of src/src/arch/x86/PS2Keyboard.cpp.  The interrupt       *)
(* handler notifies isrcv, a pooler task moves bytes from the device to    *)
(* the buffer and notifies readercv, user tasks read and print characters. *)
(* Both devices have one mutex and two condition variables.                *)
(*                                                                         *)
(* The module rests on what Sync and Sleep show: the mutex excludes, wait  *)
(* releases it and joins the waiters in one step, sleep_self returns some  *)
(* time later.  A task that waits is at a statement of its own.            *)
(*                                                                         *)
(* Bytes are numbered in the order in which they arrive; Odd is the byte a *)
(* pooler treats specially: 0xFF on the serial line, which read() returns  *)
(* as -1, and the break code 0xF0 of the keyboard.                         *)
(***************************************************************************)
EXTENDS CircularBuffer, FiniteSets

CONSTANTS
  Pooler,    \* the task that runs this_pooler
  User,      \* the tasks that use the terminal
  None,      \* no task
  Devices,   \* the devices considered: "serial", "keyboard"
  FifoSize,  \* bytes the device can hold
  MaxBytes,  \* bound: bytes that arrive
  MaxNum     \* bound: characters a task asks TtyPipe::read for

ASSUME TtyAssumption ==
  /\ Pooler \notin User /\ None \notin User \cup {Pooler}
  /\ Devices \subseteq {"serial", "keyboard"}
  /\ Elem = 0..2 * MaxBytes + 1

VARIABLES
  mutex,           \* the task that has the mutex locked
  pc,              \* next statement of a task
  device,          \* which terminal this is
  fifo,            \* bytes the device has received and not yet handed over
  arrived,         \* number of bytes that have arrived
  read_something,  \* local variable of the keyboard's pooler
  num,             \* characters a task in TtyPipe::read still wants
  last             \* the character readchar returned last

vars == <<mutex, pc, device, fifo, arrived, read_something, num, last, bufVars>>

Task == User \cup {Pooler}

Odd == 0

Goto(t, p) == pc' = [pc EXCEPT ![t] = p]

\* mutex.lock(), and the lock() at the end of wait(): when it returns.
Lock(t, p) == mutex = None /\ mutex' = t /\ Goto(t, p)

-----------------------------------------------------------------------------
(***************************************************************************)
(* The device.  It raises its interrupt for every byte it takes in; when   *)
(* it is full it drops bytes and raises none.                              *)
(***************************************************************************)
\* A byte arrives and isr() notifies isrcv.  A break code is not the last byte.
Arrive ==
  /\ arrived < MaxBytes
  /\ Len(fifo) < FifoSize
  /\ arrived' = arrived + 1
  /\ \E byte \in {Odd, arrived'} :
       /\ byte = Odd /\ device = "keyboard" => arrived' < MaxBytes
       /\ fifo' = Append(fifo, byte)
  /\ pc' = [pc EXCEPT ![Pooler] = IF @ = "p_waiting" THEN "p_relock" ELSE @]
  /\ UNCHANGED <<mutex, device, read_something, num, last, bufVars>>

\* The character a byte stands for; the enter key of the keyboard stands for
\* two, Char(byte) and Char(byte) + 1.
Char(byte) == 2 * byte

\* if (!buf.full()) buf.push_back(r)
Store(r) == IF full THEN UNCHANGED bufVars ELSE push_back(r)

-----------------------------------------------------------------------------
(***************************************************************************)
(* The poolers                                                             *)
(***************************************************************************)
PoolerLock ==
  /\ \/ pc[Pooler] = "p_lock" /\ Lock(Pooler, IF device = "serial" THEN "p_read" ELSE "p_wait")
     \/ pc[Pooler] = "p_relock" /\ Lock(Pooler, IF device = "serial" THEN "p_read" ELSE "k_in")
  /\ UNCHANGED <<device, fifo, arrived, read_something, num, last, bufVars>>

\* The serial pooler calls read() in three places: before the loop, at the end
\* of its body, and there once more after a nap.
ReadPcs == {"p_read", "p_readmore", "p_readlast"}

\* read() would return a character.
Available == fifo # <<>> /\ fifo[1] # Odd

\* read() returned a character: the body of the loop up to the next read().
SerialRead ==
  /\ pc[Pooler] \in ReadPcs
  /\ Available
  /\ Store(Char(fifo[1]))
  /\ fifo' = Tail(fifo)
  /\ Goto(Pooler, "p_readmore")
  /\ UNCHANGED <<mutex, device, arrived, read_something, num, last>>

\* read() returned -1: for want of a byte, or because the byte was 0xFF.
SerialReadNothing ==
  /\ pc[Pooler] \in ReadPcs
  /\ ~Available
  /\ fifo' = IF fifo = <<>> THEN <<>> ELSE Tail(fifo)
  /\ Goto(Pooler, CASE pc[Pooler] = "p_read"     -> "p_wait"
                    [] pc[Pooler] = "p_readmore" -> "p_nap"
                    [] pc[Pooler] = "p_readlast" -> "p_notify")
  /\ UNCHANGED <<mutex, device, arrived, read_something, num, last, bufVars>>

\* sleep_self(100), with the mutex locked.
SerialNap ==
  /\ pc[Pooler] = "p_nap"
  /\ Goto(Pooler, "p_readlast")
  /\ UNCHANGED <<mutex, device, fifo, arrived, read_something, num, last, bufVars>>

\* wait_in(): spin until the device has a byte, with the mutex locked.
KeyWaitIn ==
  /\ pc[Pooler] = "k_in" /\ fifo # <<>>
  /\ Goto(Pooler, "k_loop")
  /\ read_something' = FALSE
  /\ UNCHANGED <<mutex, device, fifo, arrived, num, last, bufVars>>

\* The body of the loop: a break code, a letter, the enter key, another key.
KeyRead ==
  /\ pc[Pooler] = "k_loop" /\ fifo # <<>>
  /\ fifo' = Tail(fifo)
  /\ \/ /\ fifo[1] = Odd
        /\ Goto(Pooler, "k_skip")
        /\ UNCHANGED <<bufVars, read_something>>
     \/ /\ fifo[1] # Odd
        /\ Store(Char(fifo[1]))
        /\ read_something' = TRUE
        /\ \/ UNCHANGED pc
           \/ ~full /\ Goto(Pooler, "k_enter")
     \/ /\ fifo[1] # Odd
        /\ UNCHANGED <<pc, bufVars, read_something>>
  /\ UNCHANGED <<mutex, device, arrived, num, last>>

\* The second character of the enter key, after the one just stored.
KeyEnter ==
  /\ pc[Pooler] = "k_enter"
  /\ Store(data[back] + 1)
  /\ Goto(Pooler, "k_loop")
  /\ UNCHANGED <<mutex, device, fifo, arrived, read_something, num, last>>

\* Wait for the byte after a break code and drop it.
KeySkip ==
  /\ pc[Pooler] = "k_skip" /\ fifo # <<>>
  /\ fifo' = Tail(fifo)
  /\ Goto(Pooler, "k_loop")
  /\ UNCHANGED <<mutex, device, arrived, read_something, num, last, bufVars>>

\* Mutant of KeyLoopEnd: wait for the next byte at once.
KeyLoopEndSpin ==
  /\ pc[Pooler] = "k_loop" /\ fifo = <<>>
  /\ Goto(Pooler, IF read_something THEN "p_notify" ELSE "k_in")
  /\ UNCHANGED <<mutex, device, fifo, arrived, read_something, num, last, bufVars>>

\* Mutant of KeyLoopEnd: the readers are forgotten.
KeyLoopEndSilent ==
  /\ pc[Pooler] = "k_loop" /\ fifo = <<>>
  /\ Goto(Pooler, "p_wait")
  /\ UNCHANGED <<mutex, device, fifo, arrived, read_something, num, last, bufVars>>

KeyLoopEnd ==
  /\ pc[Pooler] = "k_loop" /\ fifo = <<>>
  /\ Goto(Pooler, IF read_something THEN "p_notify" ELSE "p_wait")
  /\ UNCHANGED <<mutex, device, fifo, arrived, read_something, num, last, bufVars>>

\* Mutant of PoolerNotify: notify_one.
PoolerNotifyOne ==
  /\ pc[Pooler] = "p_notify"
  /\ LET w == {u \in User : pc[u] = "u_waiting"} IN
     \/ w = {} /\ Goto(Pooler, "p_wait")
     \/ \E u \in w : pc' = [pc EXCEPT ![u] = "u_lock", ![Pooler] = "p_wait"]
  /\ UNCHANGED <<mutex, device, fifo, arrived, read_something, num, last, bufVars>>

\* readercv.notify_all()
PoolerNotify ==
  /\ pc[Pooler] = "p_notify"
  /\ pc' = [t \in Task |-> IF t = Pooler THEN "p_wait"
                           ELSE IF pc[t] = "u_waiting" THEN "u_lock" ELSE pc[t]]
  /\ UNCHANGED <<mutex, device, fifo, arrived, read_something, num, last, bufVars>>

\* isrcv.wait(mutex)
PoolerWait ==
  /\ pc[Pooler] = "p_wait"
  /\ mutex' = None
  /\ Goto(Pooler, "p_waiting")
  /\ UNCHANGED <<device, fifo, arrived, read_something, num, last, bufVars>>

PoolerStep ==
  \/ PoolerLock \/ PoolerNotify \/ PoolerWait
  \/ SerialRead \/ SerialReadNothing \/ SerialNap
  \/ KeyWaitIn \/ KeyRead \/ KeyEnter \/ KeySkip \/ KeyLoopEnd

-----------------------------------------------------------------------------
(***************************************************************************)
(* User tasks                                                              *)
(***************************************************************************)
\* Call TtyPipe::read, or putchar.
Request(u) ==
  /\ pc[u] = "u_free"
  /\ \/ Goto(u, "u_putlock") /\ UNCHANGED num
     \/ /\ Goto(u, "u_lock")
        /\ \E n \in 1..MaxNum : num' = [num EXCEPT ![u] = n]
  /\ UNCHANGED <<mutex, device, fifo, arrived, read_something, last, bufVars>>

UserLock(u) ==
  /\ \/ pc[u] = "u_lock" /\ Lock(u, "u_read")
     \/ pc[u] = "u_putlock" /\ Lock(u, "u_put")
  /\ UNCHANGED <<device, fifo, arrived, read_something, num, last, bufVars>>

\* readchar: wait while the buffer is empty, ...
ReadWait(u) ==
  /\ pc[u] = "u_read" /\ empty
  /\ mutex' = None
  /\ Goto(u, "u_waiting")
  /\ UNCHANGED <<device, fifo, arrived, read_something, num, last, bufVars>>

\* ... take a character and unlock.  TtyPipe::read returns when it has num
\* characters or a '\r': the enter key's second, or any from the serial line.
ReadPop(u) ==
  /\ pc[u] = "u_read" /\ ~empty
  /\ last' = popped
  /\ pop_back
  /\ mutex' = None
  /\ \E cr \in BOOLEAN :
       LET more == num[u] > 1 /\ ~cr IN
       /\ device = "keyboard" => cr = (popped % 2 = 1)
       /\ num' = [num EXCEPT ![u] = IF more THEN @ - 1 ELSE 0]
       /\ Goto(u, IF more THEN "u_lock" ELSE "u_free")
  /\ UNCHANGED <<device, fifo, arrived, read_something>>

\* putchar: the character goes to the device under the mutex.
Put(u) ==
  /\ pc[u] = "u_put"
  /\ mutex' = None
  /\ Goto(u, "u_free")
  /\ UNCHANGED <<device, fifo, arrived, read_something, num, last, bufVars>>

UserStep(u) == UserLock(u) \/ ReadWait(u) \/ ReadPop(u) \/ Put(u)

Init ==
  /\ mutex = None
  /\ pc = [t \in Task |-> IF t = Pooler THEN "p_lock" ELSE "u_free"]
  /\ BufInit /\ data = [i \in 0..S - 1 |-> 0]  \* 0 stands for any garbage
  /\ device \in Devices
  /\ fifo = <<>> /\ arrived = 0
  /\ read_something = FALSE
  /\ num = [u \in User |-> 0] /\ last = 0

Next ==
  \/ Arrive
  \/ PoolerStep
  \/ \E u \in User : Request(u) \/ UserStep(u)

Spec == Init /\ [][Next]_vars

(***************************************************************************)
(* Every task runs again and again, and gets the mutex if it is released   *)
(* again and again.  The second byte of a break code arrives.              *)
(***************************************************************************)
FairSpec ==
  /\ Spec
  /\ SF_vars(PoolerStep)
  /\ \A u \in User : SF_vars(UserStep(u))
  /\ WF_vars(pc[Pooler] = "k_skip" /\ Arrive)

-----------------------------------------------------------------------------
TypeOK ==
  /\ BufTypeOK
  /\ mutex \in Task \cup {None}
  /\ pc[Pooler] \in ReadPcs \cup {"p_lock", "p_relock", "p_nap", "p_notify", "p_wait",
       "p_waiting", "k_in", "k_loop", "k_enter", "k_skip"}
  /\ \A u \in User : pc[u] \in {"u_free", "u_lock", "u_putlock", "u_read", "u_put",
                               "u_waiting"}
  /\ device \in Devices
  /\ fifo \in Seq(0..MaxBytes) /\ Len(fifo) <= FifoSize
  /\ arrived \in 0..MaxBytes
  /\ read_something \in BOOLEAN
  /\ num \in [User -> 0..MaxNum]
  /\ last \in Elem

\* Characters are read in the order in which they arrived, none twice and no
\* garbage of the array, whatever is dropped when the buffer is full
\* (this_pooler, readchar, CircularBuffer).
InOrder ==
  LET letters == SelectSeq(fifo, LAMBDA b : b # Odd)
      chars   == <<last>> \o Contents \o [i \in DOMAIN letters |-> Char(letters[i])]
  IN  TypeOK /\ \A i, j \in DOMAIN chars : i < j => chars[i] < chars[j]

\* A reader that waits while there is a character is about to be woken: the
\* pooler holds the mutex and has not notified readercv yet (this_pooler,
\* readchar).
ReadersNotified ==
  (\E u \in User : pc[u] = "u_waiting") /\ ~empty => mutex = Pooler

\* wait_in() of the keyboard never spins with the mutex locked: when the pooler
\* has been notified, the byte is still there (PS2Keyboard.cpp).
KeyReady == pc[Pooler] = "k_in" => fifo # <<>>

-----------------------------------------------------------------------------
\* The statements of the pooler inside the critical section; those after which
\* it will notify the readers whatever read_something is; the keyboard's, where
\* it depends on read_something.
PoolerHolds == {"p_read", "p_readmore", "p_readlast", "p_nap", "p_notify", "p_wait",
                "k_in", "k_loop", "k_enter", "k_skip"}
WillNotify == {"p_readmore", "p_readlast", "p_nap", "p_notify"}
MayNotify == {"k_loop", "k_enter", "k_skip"}

\* The inductive invariant behind ReadersNotified and KeyReady: the mutex is
\* held by the task whose statement needs it; if a reader waits although there
\* is a character, the pooler has yet to notify it; a pooler that was notified
\* has a byte to read (this_pooler, readchar).
IInv ==
  /\ DOMAIN pc = Task /\ fifo \in Seq(Nat) /\ arrived \in Nat
  /\ mutex = Pooler <=> pc[Pooler] \in PoolerHolds
  /\ \A u \in User : mutex = u <=> pc[u] \in {"u_read", "u_put"}
  /\ (\E u \in User : pc[u] = "u_waiting") /\ ~empty =>
       \/ pc[Pooler] \in WillNotify
       \/ pc[Pooler] \in MayNotify /\ read_something
  /\ pc[Pooler] = "k_enter" => read_something
  /\ pc[Pooler] \in {"p_relock", "k_in"} => fifo # <<>>

\* A task in readchar gets a character if there is one (this_pooler, readchar).
ReadersServed ==
  []<>(empty \/ \A u \in User : pc[u] \in {"u_free", "u_putlock", "u_put"})
=============================================================================
