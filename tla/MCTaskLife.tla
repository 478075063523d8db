---------------------------- MODULE MCTaskLife ----------------------------
(* Small instances of TaskLife: pids 0 (the freer), 1 (the dummy task), 2 (a
   task without a parent) and the ones its forks use. *)
EXTENDS TaskLife

OneRoot == <<2>>

Others ==
  \/ \E t \in Task : Kernel(t)
  \/ IdleYield
  \/ Preempt

\* The program of src/src/test/hello2.c: fork, wait(NULL); the child exits.
HelloRequest(t) ==
  \/ t = 2 /\ (Fork(t) \/ Waitpid(t, Any))
  \/ t # 2 /\ Exit(t)

HelloNext == ~hcf /\ ((\E t \in User : HelloRequest(t)) \/ Others)

\* The timer keeps firing, and a task inside the kernel that is given the CPU
\* again and again executes instructions.  Nothing is assumed of the programs.
HelloSpec ==
  /\ Init /\ [][HelloNext]_vars
  /\ WF_vars(Preempt)
  /\ \A t \in Task : SF_vars(Kernel(t))
=============================================================================
