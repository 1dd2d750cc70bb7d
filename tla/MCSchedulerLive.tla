---------------------------- MODULE MCSchedulerLive ----------------------------
(***************************************************************************)
(* Scheduler under fairness, with the number of tasks that running threads *)
(* create bounded so that creation comes to an end.                        *)
(***************************************************************************)
EXTENDS MCScheduler

CONSTANT MaxCalls   \* bound on the calls of run_thread and run_process

VARIABLE calls

(***************************************************************************)
(* A step, with the calls made by running threads counted.  Tasks are      *)
(* numbers here, and kmalloc hands out the lowest free address (first fit  *)
(* in bitmap_alloc_range).                                                 *)
(***************************************************************************)
Counted(A) ==
  /\ A
  /\ calls' = calls + Cardinality({c \in CPU : pc[c] = "run" /\ pc'[c] = "spin"})
  /\ calls' <= MaxCalls
  /\ \A t \in allocd' \ allocd, u \in Task \ allocd : t <= u

fvars == <<vars, calls>>

(***************************************************************************)
(* Fairness.  A CPU that can take its next step eventually takes it.  The  *)
(* periodic LAPIC timer stays pending while interrupts are off and is      *)
(* delivered when they come back on, hence strong fairness for it.  Task   *)
(* code is under no obligation: it may run for ever, exit, or create.      *)
(***************************************************************************)
KernelStep(c) ==
  \/ At(c, "boot") /\ EnterCreate(c, "thread")
  \/ Create(c) /\ ~At(c, "run") /\ ~At(c, "boot")
  \/ kerntask_exit_sched(c)
  \/ Schedule(c)

FairSpec ==
  /\ Init /\ calls = 0
  /\ [][Counted(Next)]_fvars
  /\ \A c \in Online : /\ WF_fvars(Counted(KernelStep(c)))
                       /\ SF_fvars(Counted(lapic_timer_handler(c)))

(***************************************************************************)
(* Round robin starves nobody: a task in a ready queue is eventually the   *)
(* current task of that CPU.                                               *)
(***************************************************************************)
ReadyRuns ==
  \A t \in Task, c \in Online : t \in Elems(readyq[c]) ~> current[c] = t

(***************************************************************************)
(* The structure and stacks of a task that has exited are freed.           *)
(***************************************************************************)
ExitReaped ==
  \A t \in Task : t \in allocd /\ status[t] = "EXIT" /\ flags[t] # "none"
                    ~> t \notin allocd
================================================================================
