---------------------------- MODULE SchedulerProofs ----------------------------
(***************************************************************************)
(* The task layer keeps its invariant, for any number of CPUs and tasks:   *)
(* the timer interrupt, the ends of tasks, scheduler() and the placement   *)
(* of new tasks, then the theorems.                                        *)
(***************************************************************************)
EXTENDS SchedulerInvariant, WellFoundedInduction

\* The timer interrupts a task.
LEMMA lapic_timer_handler_step ==
  ASSUME IInv, NEW c \in CPU, lapic_timer_handler(c)
  PROVE  IInv'
<1>1. TypeOK /\ CpuInv(c) /\ Own(c)
  BY OwnCpu
<1>2. /\ pc[c] \in {"run", "kexit"} /\ pc'[c] = "reap"
      /\ ret'[c] = [pc |-> pc[c], iret |-> TRUE]
      /\ current'[c] = current[c] /\ sp'[c] = sp[c] /\ lk'[c] = lk[c]
      /\ ntask'[c] = ntask[c] /\ nxt'[c] = nxt[c] /\ first'[c] = first[c]
      /\ UNCHANGED <<flags, status, ctx, mmLeaked>>
  BY <1>1, NullAssumption DEF TypeOK, RetPoint, Locks, lapic_timer_handler, queues,
     tcb, cpu, creating, At, Goto
<1>3. TypeOK'
  BY <1>2, <1>1, NullAssumption, ZenonT(40) DEF TypeOK, Locks, PC, Status, RetPoint, NoReturn,
     lapic_timer_handler, queues, tcb, cpu, creating, At, Goto
<1>4. Quiet(c)
  BY <1>2, <1>1, NullAssumption DEF Quiet, OthersKeep, TypeOK, Own, lapic_timer_handler,
     queues, tcb, cpu, creating, At, Goto
<1>5. CreationLocked'
  <2>1. (InCreate(c)' <=> InCreate(c)) /\ UNCHANGED <<lock, lk>>
    BY <1>2 DEF InCreate, lapic_timer_handler, queues, tcb, cpu, creating, At, Goto
  <2> QED BY <1>4, <2>1, LocksKept, Zenon DEF Quiet
<1>6. Control(c)
  BY <1>2, <1>1 DEF Control, CpuInv, LocalsSet, FirstRuns, At
<1> QED BY <1>3, <1>4, <1>5, <1>6, QuietStep DEF IInv

\* kerntask_exit marks the task.
LEMMA kerntask_exit_step ==
  ASSUME IInv, NEW c \in CPU, kerntask_exit(c)
  PROVE  IInv'
<1>1. TypeOK /\ CpuInv(c) /\ Own(c)
  BY OwnCpu
<1>2. /\ pc[c] = "run" /\ pc'[c] = "kexit" /\ current[c] # first[c] /\ irq'[c] = irq[c]
      /\ current'[c] = current[c] /\ sp'[c] = sp[c] /\ lk'[c] = lk[c]
      /\ ntask'[c] = ntask[c] /\ nxt'[c] = nxt[c] /\ first'[c] = first[c]
      /\ status'[current[c]] = "EXIT" /\ UNCHANGED <<flags, ctx, mmLeaked>>
      /\ \A x \in Task \ {current[c]} : status'[x] = status[x]
  BY <1>1, NullAssumption DEF TypeOK, RetPoint, Locks, kerntask_exit, KernelThread,
     queues, tcb, cpu, creating, At, Goto
<1>3. TypeOK'
  BY <1>2, <1>1, NullAssumption, ZenonT(40) DEF TypeOK, Locks, PC, Status, RetPoint, NoReturn,
     kerntask_exit, KernelThread, queues, tcb, cpu, creating, At, Goto
<1>4. Quiet(c)
  BY <1>2, <1>1, NullAssumption DEF Quiet, OthersKeep, TypeOK, Own, kerntask_exit,
     queues, tcb, cpu, creating, At, Goto
<1>5. CreationLocked'
  <2>1. (InCreate(c)' <=> InCreate(c)) /\ UNCHANGED <<lock, lk>>
    BY <1>2 DEF InCreate, kerntask_exit, KernelThread, queues, tcb, cpu, creating,
       At, Goto
  <2> QED BY <1>4, <2>1, LocksKept, Zenon DEF Quiet
<1>6. Control(c)
  BY <1>2, <1>1, Zenon DEF Control, CpuInv, LocalsSet, IrqOn
<1> QED BY <1>3, <1>4, <1>5, <1>6, QuietStep, Zenon DEF IInv

\* kerntask_exit calls scheduler.
LEMMA kerntask_exit_sched_step ==
  ASSUME IInv, NEW c \in CPU, kerntask_exit_sched(c)
  PROVE  IInv'
<1>1. TypeOK /\ CpuInv(c) /\ Own(c)
  BY OwnCpu
<1>2. /\ pc[c] = "kexit" /\ pc'[c] = "reap"
      /\ current'[c] = current[c] /\ sp'[c] = sp[c] /\ lk'[c] = lk[c]
      /\ ntask'[c] = ntask[c] /\ nxt'[c] = nxt[c] /\ first'[c] = first[c]
      /\ UNCHANGED <<flags, status, ctx, mmLeaked>>
  BY <1>1 DEF TypeOK, kerntask_exit_sched, queues, tcb, creating, At, Goto
<1>3. TypeOK'
  BY <1>1, NullAssumption, Zenon DEF TypeOK, Locks, PC, Status, RetPoint,
       kerntask_exit_sched, queues, tcb, cpu, creating, Goto
<1>4. Quiet(c)
  BY <1>2, <1>1, NullAssumption DEF Quiet, OthersKeep, TypeOK, Own, kerntask_exit_sched,
     queues, tcb, cpu, creating, At, Goto
<1>5. CreationLocked'
  <2>1. (InCreate(c)' <=> InCreate(c)) /\ UNCHANGED <<lock, lk>>
    BY <1>2, Zenon DEF InCreate, kerntask_exit_sched, queues, tcb, cpu, creating, At, Goto
  <2> QED BY <1>4, <2>1, LocksKept, Zenon DEF Quiet
<1>6. Control(c)
  BY <1>2, <1>1 DEF Control, CpuInv, LocalsSet, FirstRuns, At
<1> QED BY <1>3, <1>4, <1>5, <1>6, QuietStep DEF IInv

\* usertask_exit marks the task and calls scheduler.
LEMMA usertask_exit_step ==
  ASSUME IInv, NEW c \in CPU, usertask_exit(c)
  PROVE  IInv'
<1>1. TypeOK /\ CpuInv(c) /\ Own(c)
  BY OwnCpu
<1>2. /\ pc[c] = "run" /\ pc'[c] = "reap" /\ flags[current[c]] = "user"
      /\ current'[c] = current[c] /\ sp'[c] = sp[c] /\ lk'[c] = lk[c]
      /\ ntask'[c] = ntask[c] /\ nxt'[c] = nxt[c] /\ first'[c] = first[c]
      /\ status'[current[c]] = "EXIT" /\ UNCHANGED <<flags, ctx, mmLeaked>>
      /\ \A x \in Task \ {current[c]} : status'[x] = status[x]
  BY <1>1, NullAssumption DEF TypeOK, RetPoint, Locks, usertask_exit, queues, tcb,
     cpu, creating, At, Goto
<1>3. TypeOK'
  BY <1>1, Zenon DEF TypeOK, PC, Status, RetPoint, NoReturn, usertask_exit, queues,
       tcb, cpu, creating, At, Goto
<1>4. Quiet(c)
  BY <1>2, <1>1, NullAssumption DEF Quiet, OthersKeep, TypeOK, Own, usertask_exit,
     queues, tcb, cpu, creating, At, Goto
<1>5. CreationLocked'
  <2>1. (InCreate(c)' <=> InCreate(c)) /\ UNCHANGED <<lock, lk>>
    BY <1>2, Zenon DEF InCreate, usertask_exit, queues, tcb, cpu, creating, At, Goto
  <2> QED BY <1>4, <2>1, LocksKept, Zenon DEF Quiet
<1>6. Control(c)
  BY <1>2, <1>1, Zenon DEF Control, CpuInv, LocalsSet, FirstStays
<1> QED BY <1>3, <1>4, <1>5, <1>6, QuietStep, Zenon DEF IInv

\* scheduler frees the head of the exit queue.
LEMMA Reap_step ==
  ASSUME IInv, NEW c \in CPU, Reap(c)
  PROVE  IInv'
<1> DEFINE t == Head(exitq[c])
<1>1. TypeOK /\ CpuInv(c) /\ Own(c) /\ OnePlace
  BY OwnCpu DEF IInv
<1>2. /\ t \in Task /\ exitq'[c] \in Seq(Task)
      /\ Elems(exitq[c]) = Elems(exitq'[c]) \cup {t}
      /\ Distinct(exitq'[c]) /\ t \notin Elems(exitq'[c])
  <2>1. exitq[c] \in Seq(Task) /\ exitq[c] # <<>> /\ exitq'[c] = queue_dequeue(exitq[c])
    BY <1>1, Zenon DEF TypeOK, Reap, Reaping
  <2>2. Distinct(exitq[c])
    BY <1>1, Zenon DEF OnePlace
  <2> QED BY <2>1, <2>2, DequeueElems
<1>3. /\ pc[c] = "reap" /\ UNCHANGED <<readyq, pc, irq, ret, lk, lock>>
      /\ UNCHANGED <<current, sp, ntask, nxt, first, flags, status, mmLeaked>>
      /\ allocd' \subseteq allocd /\ allocd \ allocd' \subseteq {t}
      /\ \A x \in Task \ {t} : ctx'[x] = ctx[x]
  BY <1>1, Zenon DEF Reap, Reaping, At, TypeOK, cpu, creating
<1> HIDE DEF t
<1>4. TypeOK'
  <2>1. exitq' \in [CPU -> Seq(Task)]
    BY <1>1, <1>2, Zenon DEF TypeOK, Reap
  <2>2. ctx' \in [Task -> {"none", "saved", "live"}] /\ UNCHANGED tgt
    BY <1>1, Zenon DEF TypeOK, Reap, creating
  <2> QED BY <1>1, <1>3, <2>1, <2>2, Zenon DEF TypeOK
<1>5. t \in Held(c) /\ t \in Elems(exitq[c])
  BY <1>1, <1>2, Zenon DEF Own
<1>6. OthersKeep(c) /\ TasksKeep(c)
  <2>1. \A d \in CPU \ {c} : exitq'[d] = exitq[d]
    BY <1>1, Zenon DEF TypeOK, Reap
  <2> QED BY <1>1, <1>3, <1>5, <2>1, Zenon DEF OthersKeep, TasksKeep, Own
<1>7. InHand(c)' = InHand(c) /\ t \notin InHand(c)
  BY <1>1, <1>3, <1>5 DEF InHand, At, Own
<1>8. OnePlace' /\ \A d \in CPU \ {c} : CpuInv(d)'
  <2>1. /\ Distinct(readyq'[c]) /\ Elems(readyq'[c]) \cap Elems(exitq'[c]) = {}
        /\ Queued(c)' \subseteq Queued(c) \ {t} /\ Queued(c) \cap InHand(c) = {}
        /\ Held(c) \subseteq allocd
    BY <1>1, <1>2, <1>3, Zenon DEF OnePlace, Queued, Held
  <2>2. Queued(c)' \cap InHand(c)' = {} /\ Held(c)' \subseteq Held(c) \cap allocd'
    BY <2>1, <1>3, <1>7, Zenon DEF Held
  <2>3. allocd \ allocd' \subseteq Held(c)
    BY <1>3, <1>5
  <2> QED BY <1>2, <1>6, <2>1, <2>2, <2>3, OwnQueueStep, Zenon
<1>9. CreationLocked'
  BY <1>3, <1>6, LocksKept DEF InCreate, TasksKeep
<1>10. LocalsSet(c)' /\ IrqOn(c)' /\ StuckWhy(c)' /\ OldIsQueued(c)'
  BY <1>1, <1>3, Zenon DEF CpuInv, LocalsSet, IrqOn, StuckWhy, OldIsQueued, At
<1>11. FirstStays(c)' /\ FirstRuns(c)' /\ InFlight(c)'
  BY <1>1, <1>3, Zenon DEF CpuInv, FirstStays, FirstRuns, InFlight, At
<1>12. ExitQueueDead(c)'
  BY <1>1, <1>2, <1>3 DEF CpuInv, ExitQueueDead
<1>13. ContextSaved(c)'
  <2>1. \A x \in Elems(readyq[c]) : x \in Task /\ x # t
    BY <1>1, <1>5, Zenon DEF Own
  <2>2. ntask[c] = NULL /\ nxt[c] = NULL
    BY <1>1, <1>3, Zenon DEF CpuInv, LocalsSet
  <2> QED BY <1>1, <1>3, <2>1, <2>2, Zenon DEF CpuInv, ContextSaved, HasContext, At
<1> QED BY <1>4, <1>8, <1>9, <1>10, <1>11, <1>12, <1>13 DEF IInv, CpuInv

\* scheduler takes the head of the ready queue.
LEMMA PickNext_step ==
  ASSUME IInv, NEW c \in CPU, PickNext(c)
  PROVE  IInv'
<1> DEFINE n == Head(readyq[c])
<1>1. TypeOK /\ CpuInv(c) /\ Own(c) /\ OnePlace
  BY OwnCpu DEF IInv
<1>2. /\ n \in Task /\ readyq'[c] \in Seq(Task)
      /\ Elems(readyq[c]) = Elems(readyq'[c]) \cup {n}
      /\ Distinct(readyq'[c]) /\ n \notin Elems(readyq'[c])
  <2>1. /\ readyq[c] \in Seq(Task) /\ readyq[c] # <<>>
        /\ readyq'[c] = queue_dequeue(readyq[c])
    BY <1>1 DEF TypeOK, PickNext
  <2>2. Distinct(readyq[c])
    BY <1>1 DEF OnePlace
  <2> QED BY <2>1, <2>2, DequeueElems
<1>3. /\ pc[c] = "reap" /\ pc'[c] = "put" /\ nxt'[c] = n
      /\ UNCHANGED <<exitq, irq, ret, lk, lock, allocd, tgt>>
      /\ UNCHANGED <<current, sp, ntask, first, flags, ctx, mmLeaked>>
      /\ status'[n] = "RUNNING" /\ \A x \in Task \ {n} : status'[x] = status[x]
  BY <1>1, <1>2, Zenon DEF PickNext, At, Goto, TypeOK, cpu, creating
<1> HIDE DEF n
<1>4. TypeOK'
  <2>1. readyq' \in [CPU -> Seq(Task)]
    BY <1>1, <1>2 DEF TypeOK, PickNext
  <2>2. pc' \in [CPU -> PC] /\ status' \in [Task -> Status] /\ nxt' \in [CPU -> Task \cup {NULL}]
    BY <1>1, <1>2, Zenon DEF TypeOK, PickNext, Goto, PC, Status, n
  <2> QED BY <1>1, <1>3, <2>1, <2>2, Zenon DEF TypeOK
<1>5. n \in Held(c) /\ n \in Elems(readyq[c]) /\ n # current[c] /\ n # NULL
  BY <1>1, <1>2, <1>3, NullAssumption DEF Own, At
<1>6. OthersKeep(c) /\ TasksKeep(c)
  <2>1. \A d \in CPU \ {c} : readyq'[d] = readyq[d] /\ pc'[d] = pc[d] /\ nxt'[d] = nxt[d]
    BY <1>1 DEF TypeOK, PickNext, Goto
  <2> QED BY <1>1, <1>3, <1>5, <2>1, Zenon DEF OthersKeep, TasksKeep, Own
<1>7. InHand(c)' = InHand(c) \cup {n}
  <2>1. nxt[c] = NULL
    BY <1>1, <1>3 DEF CpuInv, LocalsSet
  <2> QED BY <1>3, <1>5, <2>1 DEF InHand, At
<1>8. OnePlace' /\ \A d \in CPU \ {c} : CpuInv(d)'
  <2>1. /\ Distinct(exitq'[c]) /\ Elems(readyq'[c]) \cap Elems(exitq'[c]) = {}
        /\ Queued(c)' \subseteq Queued(c) \ {n} /\ Queued(c) \cap InHand(c) = {}
        /\ Held(c) \subseteq allocd
    BY <1>1, <1>2, <1>3, <1>5, ZenonT(40) DEF OnePlace, Queued, Held
  <2>2. Queued(c)' \cap InHand(c)' = {} /\ Held(c)' \subseteq Held(c) \cap allocd'
    BY <2>1, <1>3, <1>5, <1>7 DEF Held
  <2>3. allocd \ allocd' \subseteq Held(c)
    BY <1>3
  <2> QED BY <1>2, <1>6, <2>1, <2>2, <2>3, OwnQueueStep, Zenon
<1>9. CreationLocked'
  BY <1>3, <1>6, LocksKept DEF InCreate, TasksKeep
<1>10. LocalsSet(c)' /\ IrqOn(c)' /\ StuckWhy(c)' /\ OldIsQueued(c)'
  BY <1>1, <1>3, <1>5, ZenonT(40) DEF CpuInv, LocalsSet, IrqOn, StuckWhy,
     OldIsQueued, At
<1>11. FirstStays(c)'
  <2>1. nxt[c] = NULL
    BY <1>1, <1>3 DEF CpuInv, LocalsSet
  <2> QED BY <1>1, <1>2, <1>3, <2>1, Zenon DEF CpuInv, FirstStays, At
<1>12. FirstRuns(c)' /\ InFlight(c)'
  <2>1. current[c] \in Task /\ ntask[c] = NULL
    BY <1>1, <1>3, ZenonT(40) DEF CpuInv, LocalsSet, TypeOK
  <2> QED BY <1>1, <1>3, <1>5, <2>1, Zenon DEF CpuInv, FirstRuns, InFlight, At
<1>13. ExitQueueDead(c)'
  <2>1. \A x \in Elems(exitq[c]) : x \in Task /\ x # n
    BY <1>1, <1>5, Zenon DEF Own
  <2> QED BY <1>1, <1>3, <2>1, Zenon DEF CpuInv, ExitQueueDead
<1>14. ContextSaved(c)'
  BY <1>1, <1>2, <1>3, Zenon DEF CpuInv, ContextSaved, HasContext, At
<1> QED BY <1>4, <1>8, <1>9, <1>10, <1>11, <1>12, <1>13, <1>14, Zenon DEF IInv, CpuInv

\* scheduler finds nothing to run.
LEMMA SchedulerReturns_step ==
  ASSUME IInv, NEW c \in CPU, SchedulerReturns(c)
  PROVE  IInv'
<1>1. TypeOK /\ CpuInv(c) /\ Own(c)
  BY OwnCpu
<1>2. /\ pc[c] = "reap" /\ pc'[c] = ret[c].pc /\ irq'[c] = ret[c].iret
      /\ ret[c].pc \in {"run", "kexit"} /\ ret[c].iret \in BOOLEAN
      /\ Elems(readyq[c]) = {}
      /\ current'[c] = current[c] /\ sp'[c] = sp[c] /\ lk'[c] = lk[c]
      /\ ntask'[c] = ntask[c] /\ nxt'[c] = nxt[c] /\ first'[c] = first[c]
      /\ UNCHANGED <<flags, status, ctx, mmLeaked>>
  BY EmptyElems, <1>1, NullAssumption, Zenon DEF TypeOK, RetPoint, SchedulerReturns, tcb,
     creating, At, Goto
<1>3. TypeOK'
  BY <1>2, EmptyElems, <1>1, NullAssumption, ZenonT(40) DEF TypeOK, Locks, PC, Status, RetPoint,
     NoReturn, SchedulerReturns, queues, tcb, cpu, creating, At, Goto
<1>4. Quiet(c)
  BY <1>2, <1>1, NullAssumption DEF Quiet, OthersKeep, TypeOK, Own, SchedulerReturns,
     queues, tcb, cpu, creating, At, Goto
<1>5. CreationLocked'
  <2>1. (InCreate(c)' <=> InCreate(c)) /\ UNCHANGED <<lock, lk>>
    BY <1>2, Zenon DEF InCreate, SchedulerReturns, queues, tcb, cpu, creating, At, Goto
  <2> QED BY <1>4, <2>1, LocksKept, Zenon DEF Quiet
<1>6. Control(c)
  <2>1. current[c] = first[c] /\ ret[c].iret
    BY <1>2, <1>1, Zenon DEF CpuInv, LocalsSet, FirstStays, FirstRuns, At
  <2> QED BY <1>2, <1>1, <2>1, Zenon DEF Control, CpuInv, LocalsSet, FirstRuns, At
<1> QED BY <1>3, <1>4, <1>5, <1>6, QuietStep, Zenon DEF IInv

\* scheduler puts the old task back, or among the tasks to be freed.
LEMMA PutOld_step ==
  ASSUME IInv, NEW c \in CPU, PutOld(c)
  PROVE  IInv'
<1> DEFINE o == current[c]
<1>1. TypeOK /\ CpuInv(c) /\ Own(c) /\ OnePlace
  BY OwnCpu DEF IInv
<1>2. /\ pc[c] = "put" /\ pc'[c] = "switch" /\ o \in Task /\ nxt[c] # o /\ nxt[c] # NULL
      /\ UNCHANGED <<irq, ret, lk, lock, allocd, tgt, nxt, status>>
      /\ UNCHANGED <<current, sp, ntask, first, flags, ctx, mmLeaked>>
  BY <1>1, Zenon DEF PutOld, At, Goto, TypeOK, cpu, creating, tcb, CpuInv, LocalsSet
<1>3. o \in Held(c) /\ o \notin Elems(readyq[c]) \cup Elems(exitq[c])
  BY <1>1, <1>2, NullAssumption, Zenon DEF Own, At
<1>4. /\ readyq[c] \in Seq(Task) /\ exitq[c] \in Seq(Task)
      /\ Distinct(readyq[c]) /\ Distinct(exitq[c])
      /\ Elems(readyq[c]) \cap Elems(exitq[c]) = {}
  BY <1>1, ZenonT(40) DEF TypeOK, OnePlace
<1>5. \/ /\ status[o] = "RUNNING" /\ exitq' = exitq
         /\ readyq' = [readyq EXCEPT ![c] = queue_enqueue(@, o)]
      \/ /\ status[o] = "EXIT" /\ readyq' = readyq
         /\ exitq' = [exitq EXCEPT ![c] = queue_enqueue(@, o)]
  <2>1. status[o] = "RUNNING" \/ status[o] = "EXIT"
    BY <1>1, <1>2, NullAssumption, Zenon DEF CpuInv, FirstRuns
  <2> QED BY <2>1, Zenon DEF PutOld, Requeued, Buried
<1>6. \/ /\ status[o] = "RUNNING" /\ exitq'[c] = exitq[c]
         /\ readyq'[c] = queue_enqueue(readyq[c], o)
      \/ /\ status[o] = "EXIT" /\ readyq'[c] = readyq[c]
         /\ exitq'[c] = queue_enqueue(exitq[c], o)
  BY <1>1, <1>5 DEF TypeOK
<1> HIDE DEF o
<1>7. /\ readyq'[c] \in Seq(Task) /\ exitq'[c] \in Seq(Task)
      /\ Distinct(readyq'[c]) /\ Distinct(exitq'[c])
      /\ \/ /\ status[o] = "RUNNING" /\ Elems(exitq'[c]) = Elems(exitq[c])
            /\ Elems(readyq'[c]) = Elems(readyq[c]) \cup {o}
         \/ /\ status[o] = "EXIT" /\ Elems(readyq'[c]) = Elems(readyq[c])
            /\ Elems(exitq'[c]) = Elems(exitq[c]) \cup {o}
  <2>1. /\ queue_enqueue(readyq[c], o) \in Seq(Task)
        /\ Elems(queue_enqueue(readyq[c], o)) = Elems(readyq[c]) \cup {o}
        /\ Distinct(queue_enqueue(readyq[c], o))
    BY <1>2, <1>3, <1>4, EnqueueElems
  <2>2. /\ queue_enqueue(exitq[c], o) \in Seq(Task)
        /\ Elems(queue_enqueue(exitq[c], o)) = Elems(exitq[c]) \cup {o}
        /\ Distinct(queue_enqueue(exitq[c], o))
    BY <1>2, <1>3, <1>4, EnqueueElems
  <2> QED BY <1>4, <1>6, <2>1, <2>2, Zenon
<1>8. TypeOK'
  <2>1. readyq' \in [CPU -> Seq(Task)] /\ exitq' \in [CPU -> Seq(Task)]
    BY <1>1, <1>5, <1>6, <1>7, Zenon DEF TypeOK
  <2>2. pc' \in [CPU -> PC]
    BY <1>1 DEF TypeOK, PutOld, Goto, PC
  <2> QED BY <1>1, <1>2, <2>1, <2>2, Zenon DEF TypeOK
<1>9. OthersKeep(c) /\ TasksKeep(c)
  <2>1. \A d \in CPU \ {c} : readyq'[d] = readyq[d] /\ exitq'[d] = exitq[d] /\ pc'[d] = pc[d]
    BY <1>1, <1>5, Zenon DEF TypeOK, PutOld, Goto
  <2> QED BY <1>2, <2>1, Zenon DEF OthersKeep, TasksKeep
<1>10. /\ Queued(c)' = Queued(c) \cup {o} /\ o \in InHand(c)
       /\ InHand(c)' = InHand(c) \ {o}
  <2>1. ntask[c] = NULL /\ o # NULL
    BY <1>1, <1>2, NullAssumption, Zenon DEF CpuInv, LocalsSet
  <2>2. InHand(c) = {nxt[c], o} /\ InHand(c)' = {nxt[c]}
    BY <1>2, <2>1, Zenon DEF InHand, At, o
  <2> QED BY <1>2, <1>7, <2>2, Zenon DEF Queued
<1>11. OnePlace' /\ \A d \in CPU \ {c} : CpuInv(d)'
  <2>1. Queued(c) \cap InHand(c) = {} /\ Held(c) \subseteq allocd
    BY <1>1, Zenon DEF OnePlace, Held
  <2>2. Queued(c)' \cap InHand(c)' = {} /\ Held(c)' \subseteq Held(c) \cap allocd'
    BY <2>1, <1>2, <1>10 DEF Held
  <2>3. Elems(readyq'[c]) \cap Elems(exitq'[c]) = {} /\ allocd \ allocd' \subseteq Held(c)
    BY <1>2, <1>3, <1>4, <1>7, Zenon
  <2> QED BY <1>7, <1>9, <2>2, <2>3, OwnQueueStep, Zenon
<1>12. CreationLocked'
  BY <1>2, <1>9, LocksKept, Zenon DEF InCreate, TasksKeep
<1>13. LocalsSet(c)' /\ IrqOn(c)' /\ StuckWhy(c)'
  BY <1>1, <1>2, Zenon DEF CpuInv, LocalsSet, IrqOn, StuckWhy, At
<1>14. OldIsQueued(c)' /\ FirstStays(c)'
  <2>1. OldIsQueued(c)'
    BY <1>2, <1>10, Zenon DEF OldIsQueued, o
  <2>2. FirstStays(c)'
    BY <1>1, <1>2, <1>7, Zenon DEF CpuInv, FirstStays, FirstRuns, o
  <2> QED BY <2>1, <2>2
<1>15. FirstRuns(c)' /\ InFlight(c)' /\ ExitQueueDead(c)'
  BY <1>1, <1>2, <1>7, ZenonT(40) DEF CpuInv, FirstRuns, InFlight, ExitQueueDead, At
<1>16. ContextSaved(c)'
  BY <1>1, <1>2, <1>7, ZenonT(40) DEF CpuInv, ContextSaved, HasContext, At, o
<1> QED BY <1>8, <1>11, <1>12, <1>13, <1>14, <1>15, <1>16 DEF IInv, CpuInv

\* The CPU moves to the next task.
LEMMA context_switch_step ==
  ASSUME IInv, NEW c \in CPU, context_switch(c)
  PROVE  IInv'
<1>1. TypeOK /\ CpuInv(c) /\ Own(c)
  BY OwnCpu
<1>2. /\ pc[c] = "switch" /\ nxt'[c] = NULL /\ nxt[c] \in Task /\ current[c] \in Task
      /\ current'[c] = nxt[c] /\ sp'[c] = nxt[c] /\ ntask'[c] = ntask[c]
      /\ IF ctx[nxt[c]] = "saved" THEN pc'[c] = "run" /\ irq'[c] ELSE pc'[c] = "stuck"
      /\ first'[c] = first[c] /\ ctx'[current[c]] = "saved" /\ UNCHANGED <<flags, status, mmLeaked>>
      /\ \A x \in Task \ {current[c], nxt[c]} : ctx'[x] = ctx[x]
  BY <1>1, NullAssumption, ZenonT(40) DEF TypeOK, CpuInv, LocalsSet, RetPoint, Locks,
     context_switch, SwitchContexts, queues, tcb, cpu, creating, At, Goto
<1>3. TypeOK'
  BY <1>2, <1>1, NullAssumption, ZenonT(40) DEF TypeOK, Locks, PC, Status, RetPoint, NoReturn,
     context_switch, SwitchContexts, queues, tcb, cpu, creating, At, Goto
<1>4. OthersKeep(c) /\ TasksKeep(c)
  BY <1>1, NullAssumption DEF OthersKeep, TasksKeep, Own, TypeOK,
       context_switch, SwitchContexts, queues, tcb, creating, At, Goto
<1>5. /\ allocd' = allocd \cup {} /\ {} \cap allocd = {}
      /\ UNCHANGED queues
  BY <1>2, ZenonT(40) DEF context_switch, SwitchContexts, queues, tcb, cpu,
     creating, At, Goto
<1>6. InHand(c)' \subseteq InHand(c) \cup {}
  BY <1>2, <1>1, NullAssumption, Zenon DEF InHand, CpuInv, LocalsSet, At
<1>7. OnePlace' /\ \A d \in CPU \ {c} : CpuInv(d)'
  BY <1>4, <1>5, <1>6, NoQueueStep, Zenon
<1>8. CreationLocked'
  <2>1. (InCreate(c)' <=> InCreate(c)) /\ UNCHANGED <<lock, lk>>
    BY <1>2, Zenon DEF InCreate, context_switch, SwitchContexts, queues, tcb, cpu, creating, At,
       Goto
  <2> QED BY <1>4, <2>1, LocksKept, ZenonT(40) DEF TasksKeep
<1>9. LocalsSet(c)'
  BY <1>2, <1>5, <1>1, NullAssumption, Zenon DEF CpuInv, LocalsSet, At, queues, Own
<1>10. IrqOn(c)' /\ StuckWhy(c)'
  BY <1>2, <1>5, <1>1, NullAssumption, Zenon DEF CpuInv, IrqOn, StuckWhy, FirstStays,
       ContextSaved, HasContext, At, queues
<1>11. OldIsQueued(c)' /\ FirstStays(c)'
  BY <1>2, <1>5, <1>1, NullAssumption, Zenon DEF CpuInv, OldIsQueued, FirstStays,
       FirstRuns, At, queues
<1>12. FirstRuns(c)'
  BY <1>2, <1>5, <1>1, Zenon DEF CpuInv, FirstRuns, InFlight, At, Own
<1>13. InFlight(c)' /\ ExitQueueDead(c)'
  BY <1>2, <1>5, <1>1, Zenon DEF CpuInv, LocalsSet, InFlight, ExitQueueDead, queues
<1>14. ContextSaved(c)'
  BY <1>2, <1>5, <1>1, NullAssumption, ZenonT(60) DEF CpuInv, LocalsSet, ContextSaved,
     HasContext, At, queues, Own
<1> QED BY <1>3, <1>7, <1>8, <1>9, <1>10, <1>11, <1>12, <1>13, <1>14, Zenon DEF IInv,
     CpuInv

--------------------------------------------------------------------------------
(***************************************************************************)
(* sched_enqueue_balanced: the smallest load exists, so the chosen queue   *)
(* is the queue of some CPU.                                               *)
(***************************************************************************)
\* A set of natural numbers that is not empty has a smallest one.
LEMMA NatMinimum ==
  ASSUME NEW T, T \subseteq Nat, T # {}
  PROVE  \E m \in T : \A n \in T : m <= n
<1>1. PICK m \in T : \A n \in T : ~(<<n, m>> \in OpToRel(<, Nat))
  BY WFMin, NatLessThanWellFounded, Zenon
<1>2. \A n \in T : ~(n < m)
  BY <1>1, Zenon DEF OpToRel
<1> QED BY <1>2

\* CPU 0 is always up.
LEMMA OnlineCpu == Online \subseteq CPU /\ 0 \in CPU
  BY CpuAssumption DEF Online, CPU

\* find_extreme_index returns an index of the array.
LEMMA ExtremeIndex ==
  ASSUME NEW arr \in [CPU -> Nat]
  PROVE  find_extreme_index(arr) \in CPU
<1> DEFINE Loads == {arr[i] : i \in CPU}
<1>1. PICK m \in Loads : \A n \in Loads : m <= n
  <2>1. Loads \subseteq Nat /\ Loads # {}
    BY OnlineCpu
  <2> QED BY <2>1, NatMinimum, Zenon
<1> DEFINE Idx == {i \in CPU : arr[i] = m}
<1>2. PICK k \in Idx : \A j \in Idx : k <= j
  <2>1. Idx \subseteq Nat
    BY CpuAssumption DEF CPU
  <2>2. Idx # {}
    BY <1>1
  <2> HIDE DEF Idx
  <2> QED BY <2>1, <2>2, NatMinimum, Zenon
<1>3. \E i \in CPU : /\ \A j \in CPU : arr[i] <= arr[j]
                     /\ \A j \in CPU : arr[j] = arr[i] => i <= j
  BY <1>1, <1>2
<1> QED BY <1>3 DEF find_extreme_index

\* ap_ids[] turns it into a CPU.
LEMMA LightestCpu == TypeOK => Lightest \in CPU
<1> SUFFICES ASSUME TypeOK PROVE Lightest \in CPU
  OBVIOUS
<1>1. [i \in CPU |-> Len(readyq[i])] \in [CPU -> Nat]
  BY DEF TypeOK
<1>2. find_extreme_index([i \in CPU |-> Len(readyq[i])]) \in CPU
  BY <1>1, ExtremeIndex
<1> QED BY <1>2, CpuAssumption DEF Lightest

\* sched_enqueue_balanced reads the loads.
LEMMA ReadLoads_step ==
  ASSUME IInv, NEW c \in CPU, ReadLoads(c)
  PROVE  IInv'
<1>1. TypeOK /\ CpuInv(c) /\ Own(c)
  BY OwnCpu
<1>2. /\ pc[c] = "place" /\ pc'[c] = "enqueue" /\ (lk[c] = "thread" => current[c] # NULL)
      /\ lk[c] \in {"thread", "process"}
      /\ current'[c] = current[c] /\ sp'[c] = sp[c] /\ lk'[c] = lk[c]
      /\ ntask'[c] = ntask[c] /\ nxt'[c] = nxt[c] /\ first'[c] = first[c]
      /\ UNCHANGED <<flags, status, ctx, mmLeaked>>
  BY <1>1 DEF TypeOK, Locks, ReadLoads, tcb, cpu, creating, At, Goto
<1>3. TypeOK'
  BY <1>2, LightestCpu, <1>1, NullAssumption, ZenonT(40) DEF TypeOK, Locks, PC, Status,
     RetPoint, NoReturn, ReadLoads, queues, tcb, cpu, creating, At, Goto
<1>4. Quiet(c)
  BY <1>2, <1>1, NullAssumption DEF Quiet, OthersKeep, TypeOK, Own, ReadLoads,
     queues, tcb, cpu, creating, At, Goto
<1>5. CreationLocked'
  <2>1. (InCreate(c)' <=> InCreate(c)) /\ UNCHANGED <<lock, lk>>
    BY <1>2, Zenon DEF InCreate, ReadLoads, queues, tcb, cpu, creating, At, Goto
  <2> QED BY <1>4, <2>1, LocksKept, Zenon DEF Quiet
<1>6. Control(c)
  BY <1>2, <1>1, Zenon DEF Control, CpuInv, LocalsSet
<1> QED BY <1>3, <1>4, <1>5, <1>6, QuietStep DEF IInv

\* run_thread and run_process put the new task in the chosen ready queue, which
\* may be that of another CPU, at any point of what that CPU does.
LEMMA EnqueueNew_step ==
  ASSUME IInv, NEW c \in CPU, EnqueueNew(c)
  PROVE  IInv'
<1>0. PICK t, k : t = ntask[c] /\ k = tgt[c]
  OBVIOUS
<1>1. TypeOK /\ CpuInv(c) /\ Own(c) /\ OnePlace /\ k \in CPU /\ CpuInv(k) /\ Own(k)
  <2>1. TypeOK /\ k \in CPU
    BY <1>0 DEF IInv, TypeOK
  <2> QED BY <2>1, OwnCpu DEF IInv
<1>2. /\ pc[c] = "enqueue" /\ pc'[c] = "run" /\ irq'[c] /\ ntask'[c] = NULL
      /\ nxt[c] = NULL /\ current[c] # NULL /\ t # NULL /\ t \in Task /\ t # current[c]
      /\ UNCHANGED <<exitq, current, sp, ret, lk, nxt, mmLeaked, first>>
      /\ UNCHANGED <<allocd, flags, status, ctx>>
  BY <1>0, <1>1, Zenon DEF EnqueueNew, At, Goto, TypeOK, tcb, CpuInv, LocalsSet
<1>3. t \in InHand(c) /\ InHand(c)' = InHand(c) \ {t} /\ t \in allocd
  BY <1>0, <1>1, <1>2, ZenonT(40) DEF InHand, At, OnePlace
<1>4. t \notin Queued(k)
  BY <1>1, <1>3 DEF OnePlace
<1>5. \A d \in CPU \ {c} : /\ pc'[d] = pc[d] /\ irq'[d] = irq[d]
                           /\ ntask'[d] = ntask[d]
  BY <1>1 DEF EnqueueNew, Goto, TypeOK
<1>6. /\ readyq'[k] = queue_enqueue(readyq[k], t)
      /\ \A d \in CPU \ {k} : readyq'[d] = readyq[d]
  BY <1>0, <1>1, Zenon DEF EnqueueNew, TypeOK
<1>7. /\ readyq'[k] \in Seq(Task) /\ Distinct(readyq'[k])
      /\ Elems(readyq'[k]) = Elems(readyq[k]) \cup {t}
  <2>1. readyq[k] \in Seq(Task) /\ Distinct(readyq[k]) /\ t \notin Elems(readyq[k])
    BY <1>1, <1>4, Zenon DEF TypeOK, OnePlace, Queued
  <2>2. t \in Task
    BY <1>2, Zenon
  <2> DEFINE r == queue_enqueue(readyq[k], t)
  <2>3. r \in Seq(Task) /\ Distinct(r) /\ Elems(r) = Elems(readyq[k]) \cup {t}
    BY <2>1, <2>2, EnqueueElems
  <2> HIDE DEF r
  <2>4. readyq'[k] = r
    BY <1>6, Zenon DEF r
  <2> QED BY <2>3, <2>4, Zenon
<1>8. TypeOK'
  <2>1. readyq' \in [CPU -> Seq(Task)]
    BY <1>1, <1>6, <1>7, Zenon DEF TypeOK, EnqueueNew
  <2>2. /\ pc' \in [CPU -> PC] /\ irq' \in [CPU -> BOOLEAN] /\ tgt' \in [CPU -> CPU]
        /\ ntask' \in [CPU -> Task \cup {NULL}] /\ lock' \in [Locks -> CPU \cup {NULL}]
    BY <1>1, OnlineCpu, Zenon DEF TypeOK, EnqueueNew, Goto, Unlock, PC
  <2> QED BY <1>1, <1>2, <2>1, <2>2, Zenon DEF TypeOK
<1>9. /\ Queued(k)' = Queued(k) \cup {t}
      /\ \A d \in CPU \ {k} : Queued(d)' = Queued(d)
      /\ \A d \in CPU \ {c} : InHand(d)' = InHand(d)
  <2>1. Queued(k)' = Queued(k) \cup {t}
    BY <1>2, <1>7 DEF Queued
  <2>2. \A d \in CPU \ {k} : Queued(d)' = Queued(d)
    BY <1>2, <1>6 DEF Queued
  <2>3. \A d \in CPU \ {c} : InHand(d)' = InHand(d)
    BY <1>2, <1>5 DEF InHand, At
  <2> QED BY <2>1, <2>2, <2>3
<1>10. OnePlace'
  <2>1. \A d \in CPU : /\ Distinct(readyq'[d]) /\ Distinct(exitq'[d])
                       /\ Elems(readyq'[d]) \cap Elems(exitq'[d]) = {}
    <3>1. \A d \in CPU : /\ Distinct(readyq[d]) /\ Distinct(exitq[d])
                         /\ Elems(readyq[d]) \cap Elems(exitq[d]) = {}
      BY <1>1, Zenon DEF OnePlace
    <3>2. t \notin Elems(exitq[k])
      BY <1>4, Zenon DEF Queued
    <3> QED BY <1>2, <1>6, <1>7, <3>1, <3>2, ZenonT(40)
  <2>2. \A d \in CPU : t \in Queued(d) \cup InHand(d) => d = c
    BY <1>1, <1>3 DEF OnePlace
  <2>3. \A d \in CPU : Queued(d)' \cap InHand(d)' = {}
    BY <1>1, <1>3, <1>9, <2>2 DEF OnePlace
  <2>4. ASSUME NEW d \in CPU
        PROVE  /\ Queued(d)' \cup InHand(d)' \subseteq allocd'
               /\ t \in Queued(d)' \cup InHand(d)' => d = k
               /\ (Queued(d)' \cup InHand(d)') \ {t} \subseteq Queued(d) \cup InHand(d)
    <3>1. Queued(d) \cup InHand(d) \subseteq allocd
      BY <1>1, Zenon DEF OnePlace
    <3>2. t \in allocd /\ allocd' = allocd
      BY <1>1, <1>2, <1>3, Zenon DEF OnePlace
    <3>3. Queued(d)' = (IF d = k THEN Queued(d) \cup {t} ELSE Queued(d))
      BY <1>9, Zenon
    <3>4. InHand(d)' \subseteq InHand(d) /\ t \notin InHand(d)'
      BY <1>3, <1>9, <2>2, Zenon
    <3>5. t \notin Queued(d)
      BY <2>2, <1>1, <1>3, Zenon DEF OnePlace
    <3> QED BY <3>1, <3>2, <3>3, <3>4, <3>5
  <2>5. ASSUME NEW d \in CPU, NEW e \in CPU \ {d}
        PROVE  (Queued(d) \cup InHand(d))' \cap (Queued(e) \cup InHand(e))' = {}
    <3>1. (Queued(d) \cup InHand(d)) \cap (Queued(e) \cup InHand(e)) = {}
      BY <1>1, Zenon DEF OnePlace
    <3> QED BY <2>4, <3>1
  <2> QED BY <2>1, <2>3, <2>4, <2>5 DEF OnePlace
<1>11. CreationLocked'
  <2>1. InCreate(c) /\ ~InCreate(c)' /\ Unlock(c) /\ UNCHANGED <<lk, mmLeaked>>
    BY <1>2, Zenon DEF InCreate, EnqueueNew
  <2>2. \A d \in CPU \ {c} : InCreate(d)' <=> InCreate(d)
    BY <1>5 DEF InCreate
  <2> QED BY <2>1, <2>2, LocksReleased, Zenon
<1>12. ASSUME NEW d \in CPU PROVE CpuInv(d)'
  <2>1. CpuInv(d)
    BY DEF IInv
  <2>2. LocalsSet(d)' /\ IrqOn(d)' /\ StuckWhy(d)' /\ InFlight(d)'
    BY <1>2, <1>5, <2>1, Zenon DEF CpuInv, LocalsSet, IrqOn, StuckWhy, InFlight, At
  <2>3. /\ Elems(readyq[d]) \subseteq Elems(readyq'[d])
        /\ Elems(readyq'[d]) \subseteq Elems(readyq[d]) \cup {t}
        /\ Queued(d) \subseteq Queued(d)'
        /\ At(d, "switch")' <=> At(d, "switch")
    BY <1>2, <1>5, <1>6, <1>7, <1>9, Zenon DEF At
  <2>4. OldIsQueued(d)' /\ ExitQueueDead(d)'
    BY <1>2, <2>1, <2>3, Zenon DEF CpuInv, OldIsQueued, ExitQueueDead
  <2>5. FirstStays(d)'
    BY <1>2, <2>1, <2>3, Zenon DEF CpuInv, FirstStays
  <2>6. FirstRuns(d)'
    BY <1>2, <1>5, <2>1, Zenon DEF CpuInv, FirstRuns, At
  <2>7. ContextSaved(d)'
    <3>1. HasContext(t)' /\ \A x : HasContext(x)' <=> HasContext(x)
      BY <1>0, <1>1, <1>2, Zenon DEF CpuInv, ContextSaved, HasContext
    <3>2. ntask'[d] # NULL => ntask'[d] = ntask[d]
      BY <1>2, <1>5, Zenon
    <3> QED BY <1>2, <2>1, <2>3, <3>1, <3>2, Zenon DEF CpuInv, ContextSaved
  <2> QED BY <2>2, <2>4, <2>5, <2>6, <2>7 DEF CpuInv
<1> QED BY <1>8, <1>10, <1>11, <1>12 DEF IInv

--------------------------------------------------------------------------------
\* When the tick starts only the first thread of each CPU exists, and it runs.
LEMMA InitInv == Init => IInv
<1> SUFFICES ASSUME Init PROVE IInv
  OBVIOUS
<1>1. TypeOK
  <2>1. <<>> \in Seq(Task) /\ NoReturn \in RetPoint /\ "EXIT" \in Status
    BY DEF NoReturn, RetPoint, Status
  <2>2. /\ readyq \in [CPU -> Seq(Task)] /\ exitq \in [CPU -> Seq(Task)]
        /\ ret \in [CPU -> RetPoint] /\ status \in [Task -> Status] /\ tgt \in [CPU -> CPU]
    BY <2>1, OnlineCpu DEF Init
  <2> QED BY <2>2, Zenon DEF Init, TypeOK, Locks, PC
<1>2. \A c \in CPU : Elems(readyq[c]) = {} /\ Elems(exitq[c]) = {} /\ Queued(c) = {}
  BY EmptyElems DEF Init, Queued
<1>3. \A c \in CPU : InHand(c) = {}
  BY Zenon DEF Init, InHand, At
<1>4. OnePlace
  BY <1>2, <1>3, EmptyElems DEF OnePlace, Init
<1>5. CreationLocked
  BY NullAssumption DEF CreationLocked, InCreate, Init
<1>6. ASSUME NEW c \in CPU PROVE CpuInv(c)
  <2>1. /\ pc[c] = "boot" /\ current[c] = NULL /\ sp[c] = NULL
        /\ ntask[c] = NULL /\ nxt[c] = NULL
    BY DEF Init
  <2> QED BY <1>2, <2>1, Zenon DEF CpuInv, LocalsSet, OldIsQueued, FirstStays, FirstRuns,
             InFlight, ExitQueueDead, IrqOn, ContextSaved, StuckWhy, At
<1> QED BY <1>1, <1>4, <1>5, <1>6 DEF IInv

\* The invariant reads no state but the variables of the task layer.
LEMMA StutterInv == IInv /\ UNCHANGED vars => IInv'
<1> SUFFICES ASSUME IInv, UNCHANGED vars PROVE IInv'
  OBVIOUS
<1> USE DEF vars, queues, tcb, cpu, creating
<1>1. TypeOK' /\ CreationLocked'
  BY Zenon DEF IInv, TypeOK, CreationLocked, InCreate
<1>2. \A c \in CPU : Queued(c)' = Queued(c) /\ InHand(c)' = InHand(c)
  BY Zenon DEF Queued, InHand, At
<1>3. OnePlace'
  BY <1>2, Zenon DEF IInv, OnePlace
<1>4. ASSUME NEW c \in CPU PROVE CpuInv(c)'
  <2>1. CpuInv(c)
    BY DEF IInv
  <2> QED BY <1>2, <2>1, ZenonT(40) DEF CpuInv, LocalsSet, OldIsQueued, FirstStays, FirstRuns,
             InFlight, ExitQueueDead, IrqOn, ContextSaved, HasContext, StuckWhy, At
<1> QED BY <1>1, <1>3, <1>4 DEF IInv

\* Every step of every CPU, of the creation calls, of the timer interrupt and of
\* scheduler, preserves the invariant: one lemma above per step.
LEMMA NextInv == IInv /\ [Next]_vars => IInv'
<1> SUFFICES ASSUME IInv, [Next]_vars PROVE IInv'
  OBVIOUS
<1>1. ASSUME NEW c \in Online, Create(c) \/ Exit(c) \/ lapic_timer_handler(c) \/ Schedule(c)
      PROVE  IInv'
  <2>1. c \in CPU
    BY OnlineCpu
  <2>2. CASE Create(c)
    BY <2>1, <2>2, EnterCreate_step, LockCreate_step, RunThreadCreate_step,
         RunThreadNoMem_step, RunThreadFirst_step, RunProcessCreate_step,
         RunProcessErr_step, RunProcessReturnLocked_step, RunProcessNoMem_step,
         ReadLoads_step, EnqueueNew_step, Zenon DEF Create
  <2>3. CASE Exit(c)
    BY <2>1, <2>3, kerntask_exit_step, kerntask_exit_sched_step, usertask_exit_step DEF Exit
  <2>4. CASE lapic_timer_handler(c)
    BY <2>1, <2>4, lapic_timer_handler_step
  <2>5. CASE Schedule(c)
    BY <2>1, <2>5, Reap_step, PickNext_step, SchedulerReturns_step, PutOld_step,
         context_switch_step, Zenon DEF Schedule
  <2> QED BY <1>1, <2>2, <2>3, <2>4, <2>5
<1> QED BY <1>1, StutterInv DEF Next

\* The inductive invariant holds of every behaviour of the task layer.
THEOREM Invariance == Spec => []IInv
  BY InitInv, NextInv, PTL DEF Spec

\* Type correctness of the task layer.
THEOREM TypeCorrect == Spec => []TypeOK
<1>1. IInv => TypeOK
  BY DEF IInv
<1> QED BY <1>1, Invariance, PTL

\* However the CPUs interleave, a task is in one queue of one CPU, once, or in
\* the hands of one CPU: scheduler and the creation calls never duplicate it.
THEOREM TasksInOnePlace == Spec => []OnePlace
<1>1. IInv => OnePlace
  BY DEF IInv
<1> QED BY <1>1, Invariance, PTL

\* No CPU runs on a freed stack and no two CPUs on the same one.
THEOREM StacksSafe == Spec => []StackSafe
<1>1. IInv => StackSafe
  <2> SUFFICES ASSUME IInv, NEW c \in CPU, sp[c] # NULL
               PROVE  sp[c] \in allocd /\ \A d \in CPU \ {c} : sp[d] # sp[c]
    BY DEF StackSafe
  <2>1. \A d \in CPU : sp[d] = current[d] /\ (current[d] # NULL => current[d] \in Held(d))
    BY OwnCpu, Zenon DEF CpuInv, LocalsSet, Own
  <2>2. ASSUME NEW d \in CPU \ {c} PROVE sp[d] # sp[c]
    BY <2>1, HeldApart, Zenon DEF IInv
  <2>3. sp[c] \in allocd
    BY <2>1, OwnCpu, Zenon DEF Own
  <2> QED BY <2>2, <2>3
<1> QED BY <1>1, Invariance, PTL

\* A task runs with interrupts on, unless an allocation has failed: no task gets
\* back from kerntask_exit, since the first thread of its CPU is always ready.
THEOREM AlwaysPreemptible == Spec => []Preemptible
<1>1. IInv => Preemptible
  BY Zenon DEF IInv, CpuInv, IrqOn, Preemptible, At
<1> QED BY <1>1, Invariance, PTL

\* Only an exhausted heap or an ELF32 image loses a CPU.
THEOREM DispatchesSafe == Spec => []DispatchSafe
<1>1. IInv => DispatchSafe
  BY Zenon DEF IInv, CpuInv, StuckWhy, DispatchSafe, At
<1> QED BY <1>1, Invariance, PTL

\* The creation calls exclude themselves.
THEOREM CreationExclusive == Spec => []CreationLocked
<1>1. IInv => CreationLocked
  BY DEF IInv
<1> QED BY <1>1, Invariance, PTL

\* scheduler frees only tasks that have exited and that nobody can reach.
THEOREM ReapingSafe == Spec => ReapSafe
<1> DEFINE Freed ==
      \A t \in allocd \ allocd' :
        /\ status[t] = "EXIT"
        /\ \A c \in CPU : /\ sp[c] # t /\ current[c] # t
                          /\ t \notin InHand(c)
                          /\ t \notin Queued(c)'
<1>1. IInv /\ IInv' /\ [Next]_vars => [Freed]_vars
  <2> SUFFICES ASSUME IInv, IInv', Next, NEW t \in allocd \ allocd', NEW c \in CPU
               PROVE  /\ status[t] = "EXIT" /\ sp[c] # t /\ current[c] # t
                      /\ t \notin InHand(c) /\ t \notin Queued(c)'
    <3>1. CPU # {}
      BY OnlineCpu
    <3> QED BY <3>1
  <2>1. PICK r \in CPU : Reap(r)
    <3>1. PICK q \in CPU : Create(q) \/ Exit(q) \/ lapic_timer_handler(q) \/ Schedule(q)
      BY OnlineCpu DEF Next
    <3>2. ~Create(q)
      BY ZenonT(40) DEF Create, EnterCreate, LockCreate, RunThreadCreate, RunThreadNoMem,
         RunThreadFirst, RunProcessCreate, RunProcessErr, RunProcessReturnLocked,
         RunProcessNoMem, ReadLoads, EnqueueNew, AllocTask, tcb
    <3>3. ~Exit(q) /\ ~lapic_timer_handler(q)
      BY Zenon DEF Exit, lapic_timer_handler, kerntask_exit, kerntask_exit_sched, usertask_exit,
         tcb
    <3>4. ~PickNext(q) /\ ~SchedulerReturns(q) /\ ~PutOld(q) /\ ~context_switch(q)
      BY Zenon DEF PickNext, SchedulerReturns, PutOld, context_switch, tcb
    <3> QED BY <3>1, <3>2, <3>3, <3>4 DEF Schedule
  <2>2. TypeOK /\ CpuInv(r) /\ Own(r) /\ CpuInv(c) /\ Own(c) /\ OnePlace
    BY OwnCpu DEF IInv
  <2>3. exitq[r] \in Seq(Task) /\ exitq[r] # <<>> /\ t = Head(exitq[r]) /\ pc[r] = "reap"
    BY <2>1, <2>2, Zenon DEF Reap, Reaping, At, TypeOK
  <2>4. t \in Elems(exitq[r])
    BY <2>3, DequeueElems
  <2>5. status[t] = "EXIT" /\ t \in Held(r) /\ t # NULL
    BY <2>2, <2>4, NullAssumption, Zenon DEF CpuInv, ExitQueueDead, Own
  <2>6. t \notin InHand(c) /\ t # current[c]
    <3>1. CASE c = r
      BY <2>2, <2>3, <2>4, <2>5, <3>1, ZenonT(40) DEF Own, InHand, At
    <3>2. CASE c # r
      <4>1. t \notin Held(c)
        BY <2>2, <2>5, <3>2, HeldApart, ZenonT(40)
      <4> QED BY <2>2, <2>5, <4>1, Zenon DEF Held, Own
    <3> QED BY <3>1, <3>2
  <2>7. sp[c] # t
    BY <2>2, <2>6, Zenon DEF CpuInv, LocalsSet
  <2>8. Queued(c)' \subseteq allocd'
    BY Zenon DEF IInv, OnePlace
  <2> QED BY <2>5, <2>6, <2>7, <2>8, Zenon
<1> QED BY <1>1, Invariance, PTL DEF Spec, ReapSafe

================================================================================
