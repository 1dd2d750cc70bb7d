------------------------------- MODULE Scheduler -------------------------------
(***************************************************************************)
(* The task layer of the kernel (src/task.c, src/queue.c, src/algo.c,      *)
(* src/timer.c): per-CPU current task, ready queue and exit queue, the     *)
(* creation of kernel threads and user processes, exit, and the round-     *)
(* robin scheduler that the LAPIC timer enters on every CPU.               *)
(*                                                                         *)
(* Each CPU executes one kernel path at a time; pc[c] is its position in   *)
(* it.  A step is what a CPU does between two accesses to state another    *)
(* CPU can reach (the ready queues, the two creation locks, the kernel     *)
(* heap).  Queue operations are atomic: queue.c holds q->lock throughout.  *)
(***************************************************************************)
EXTENDS Integers, Sequences, FiniteSets

CONSTANTS
  MaxCpus,     \* MAX_CPUS: length of the per-CPU arrays
  ApIds,       \* ap_ids[], indexed 0 .. MaxCpus-1; unfilled entries are 0
  ApCount,     \* ap_count: how many entries the ACPI tables filled
  Task,        \* addresses kzalloc may return for a struct task_struct
  NULL,
  Images,      \* what the files handed to run_process look like
  MayExhaust   \* whether kmalloc may fail: no memory left, or an empty file

CPU == 0 .. MaxCpus - 1

ImageKinds == {"elf64", "elf32", "noelf", "noopen", "nostat"}

ASSUME CpuAssumption ==
  /\ MaxCpus \in Nat \ {0}
  /\ ApIds \in [CPU -> CPU]
  /\ ApCount \in 1 .. MaxCpus
ASSUME NullAssumption == NULL \notin Task /\ NULL \notin CPU
\* A file that cannot be stat'ed has an arbitrary size.
ASSUME InputAssumption ==
  /\ Images \subseteq ImageKinds /\ MayExhaust \in BOOLEAN
  /\ "nostat" \in Images => MayExhaust

Online == {ApIds[i] : i \in 0 .. ApCount - 1}

VARIABLES
  current,     \* current[cpu]
  readyq,      \* task_readyqueue[cpu], head first
  exitq,       \* task_exitqueue[cpu]
  allocd,      \* task structures that are allocated
  flags,       \* task->flags: "kern", "user" or "none" (zeroed)
  status,      \* task->status
  ctx,         \* "saved": task->rsp holds a context; "live": on a CPU; "none"
  sp,          \* the task whose stack a CPU runs on (NULL: its boot stack)
  irq,         \* IF flag of a CPU
  pc,          \* position of a CPU
  ret,         \* where scheduler() returns to on a CPU, and whether by iretq
  lk,          \* the lock of the creation call a CPU is in
  ntask,       \* `task` of run_thread / run_process
  nxt,         \* `new_task` of scheduler
  tgt,         \* queue chosen by sched_enqueue_balanced
  lock,        \* holder of run_thread_spinlock and run_process_spinlock
  mmLeaked,    \* a failed kmalloc returned with mm_spinlock held
  first        \* the thread a CPU was started with, which never exits

queues   == <<readyq, exitq>>
tcb      == <<allocd, flags, status, ctx>>
cpu      == <<current, sp, irq, ret>>
creating == <<lk, ntask, tgt>>
vars     == <<queues, tcb, cpu, pc, creating, nxt, lock, mmLeaked, first>>

Locks == {"thread", "process"}
Status == {"EXIT", "DEAD", "READY", "RUNNING", "BLOCKED"}
PC == {"boot", "run", "kexit", "spin", "create", "place", "enqueue",
       "reap", "put", "switch", "stuck"}

RetPoint == [pc : {"run", "kexit"}, iret : BOOLEAN]

TypeOK ==
  /\ current \in [CPU -> Task \cup {NULL}]
  /\ readyq \in [CPU -> Seq(Task)]
  /\ exitq \in [CPU -> Seq(Task)]
  /\ allocd \subseteq Task
  /\ flags \in [Task -> {"kern", "user", "none"}]
  /\ status \in [Task -> Status]
  /\ ctx \in [Task -> {"none", "saved", "live"}]
  /\ sp \in [CPU -> Task \cup {NULL}]
  /\ irq \in [CPU -> BOOLEAN]
  /\ pc \in [CPU -> PC]
  /\ ret \in [CPU -> RetPoint]
  /\ lk \in [CPU -> Locks]
  /\ ntask \in [CPU -> Task \cup {NULL}]
  /\ nxt \in [CPU -> Task \cup {NULL}]
  /\ tgt \in [CPU -> CPU]
  /\ lock \in [Locks -> CPU \cup {NULL}]
  /\ mmLeaked \in BOOLEAN
  /\ first \in [CPU -> Task \cup {NULL}]

--------------------------------------------------------------------------------
(***************************************************************************)
(* task_init, and the state of every CPU before its first run_thread.      *)
(***************************************************************************)
NoReturn == [pc |-> "run", iret |-> TRUE]

Init ==
  /\ current = [c \in CPU |-> NULL]
  /\ readyq = [c \in CPU |-> <<>>]
  /\ exitq = [c \in CPU |-> <<>>]
  /\ allocd = {}
  /\ flags = [t \in Task |-> "none"]
  /\ status = [t \in Task |-> "EXIT"]
  /\ ctx = [t \in Task |-> "none"]
  /\ sp = [c \in CPU |-> NULL]
  /\ irq = [c \in CPU |-> FALSE]
  /\ pc = [c \in CPU |-> "boot"]
  /\ ret = [c \in CPU |-> NoReturn]
  /\ lk = [c \in CPU |-> "thread"]
  /\ ntask = [c \in CPU |-> NULL]
  /\ nxt = [c \in CPU |-> NULL]
  /\ tgt = [c \in CPU |-> 0]
  /\ lock = [l \in Locks |-> NULL]
  /\ mmLeaked = FALSE
  /\ first = [c \in CPU |-> NULL]

(***************************************************************************)
(* queue.c: in at the tail, out at the head.                               *)
(***************************************************************************)
\* Mutant: list_add where list_add_tail is meant.
queue_enqueue_head(q, t) == <<t>> \o q

queue_enqueue(q, t) == Append(q, t)
queue_dequeue(q) == Tail(q)

At(c, label) == pc[c] = label
Goto(c, label) == pc' = [pc EXCEPT ![c] = label]

KernelThread(c) == current[c] # NULL /\ flags[current[c]] = "kern"

(***************************************************************************)
(* run_thread and run_process: interrupts go off first, then the CPU spins *)
(* on the lock of the call.  run_thread is called by a booting CPU for its *)
(* first thread and by kernel threads; run_process by kernel threads.      *)
(***************************************************************************)
EnterCreate(c, l) ==
  /\ \/ At(c, "run") /\ KernelThread(c)
     \/ At(c, "boot") /\ l = "thread"
  /\ irq' = [irq EXCEPT ![c] = FALSE]
  /\ lk' = [lk EXCEPT ![c] = l]
  /\ Goto(c, "spin")
  /\ UNCHANGED <<queues, tcb, current, sp, ret, ntask, nxt, tgt, lock, mmLeaked,
                 first>>

LockCreate(c) ==
  /\ At(c, "spin")
  /\ lock[lk[c]] = NULL
  /\ lock' = [lock EXCEPT ![lk[c]] = c]
  /\ Goto(c, "create")
  /\ UNCHANGED <<queues, tcb, cpu, creating, nxt, mmLeaked, first>>

\* Mutant: the caller forgets spinlock_unlock.
Unlock_forgotten(c) == UNCHANGED lock

Unlock(c) == lock' = [lock EXCEPT ![lk[c]] = NULL]

\* kzalloc of a task structure: any free address, zeroed.
AllocTask(c, t, f, s, x) ==
  /\ ~mmLeaked
  /\ t \in Task \ allocd
  /\ allocd' = allocd \cup {t}
  /\ flags' = [flags EXCEPT ![t] = f]
  /\ status' = [status EXCEPT ![t] = s]
  /\ ctx' = [ctx EXCEPT ![t] = x]

(***************************************************************************)
(* run_thread with its three kzalloc calls.  A NULL task structure makes   *)
(* it return with the lock held and interrupts off; __kerntask_create's    *)
(* error is not looked at, so a thread whose stack could not be allocated  *)
(* is placed without a context, and a NULL rsp0 goes unnoticed.  Every     *)
(* failed kmalloc leaves mm_spinlock held.                                 *)
(***************************************************************************)
RunThreadCreate(c, t) ==
  /\ At(c, "create") /\ lk[c] = "thread"
  /\ \E stack, rsp0 \in IF MayExhaust THEN BOOLEAN ELSE {TRUE} :
       /\ AllocTask(c, t, "kern", "READY", IF stack THEN "saved" ELSE "none")
       /\ mmLeaked' = ~(stack /\ rsp0)
  /\ ntask' = [ntask EXCEPT ![c] = t]
  /\ Goto(c, "place")
  /\ UNCHANGED <<queues, cpu, lk, nxt, tgt, lock, first>>

RunThreadNoMem(c) ==
  /\ At(c, "create") /\ lk[c] = "thread"
  /\ MayExhaust /\ ~mmLeaked
  /\ mmLeaked' = TRUE
  /\ Goto(c, IF current[c] = NULL THEN "stuck" ELSE "run")
  /\ UNCHANGED <<queues, tcb, cpu, creating, nxt, lock, first>>

\* The CPU has no current task: it starts running the new one, on its stack.
RunThreadFirst(c) ==
  /\ At(c, "place") /\ lk[c] = "thread" /\ current[c] = NULL
  /\ LET t == ntask[c] IN
       /\ current' = [current EXCEPT ![c] = t]
       /\ first' = [first EXCEPT ![c] = t]
       /\ status' = [status EXCEPT ![t] = "RUNNING"]
       /\ sp' = [sp EXCEPT ![c] = t]
       /\ ctx' = [ctx EXCEPT ![t] = IF @ = "saved" THEN "live" ELSE @]
       /\ irq' = [irq EXCEPT ![c] = ctx[t] = "saved"]
       /\ Goto(c, IF ctx[t] = "saved" THEN "run" ELSE "stuck")
  /\ ntask' = [ntask EXCEPT ![c] = NULL]
  /\ Unlock(c)
  /\ UNCHANGED <<queues, allocd, flags, ret, lk, nxt, tgt, mmLeaked>>

(***************************************************************************)
(* run_process.  A path that cannot be stat'ed, or no memory for the file, *)
(* returns with the lock held; a file that cannot be opened or is no ELF   *)
(* goes through the error path, which does not free the task structure.    *)
(* An ELF32 image gets a zeroed structure that is queued all the same.     *)
(* fatfs_stat reports failure as a positive number, which is not looked    *)
(* at: st_size is then uninitialised, and kzalloc(0) or of a huge size     *)
(* fails, or the file turns out not to open.                               *)
(***************************************************************************)
RunProcessCreate(c, t, img) ==
  /\ At(c, "create") /\ lk[c] = "process"
  /\ \/ img = "elf64" /\ AllocTask(c, t, "user", "READY", "saved")
     \/ img = "elf32" /\ AllocTask(c, t, "none", "EXIT", "none")
  /\ ntask' = [ntask EXCEPT ![c] = t]
  /\ Goto(c, "place")
  /\ UNCHANGED <<queues, cpu, lk, nxt, tgt, lock, mmLeaked, first>>

RunProcessErr(c, t, img) ==
  /\ At(c, "create") /\ lk[c] = "process"
  /\ \/ img = "noelf" /\ AllocTask(c, t, "none", "EXIT", "none")
     \/ img \in {"noopen", "nostat"} /\ ~mmLeaked /\ UNCHANGED tcb
  /\ Unlock(c)
  /\ irq' = [irq EXCEPT ![c] = TRUE]
  /\ Goto(c, "run")
  /\ UNCHANGED <<queues, creating, current, sp, ret, nxt, mmLeaked, first>>

RunProcessReturnLocked(c, img) ==
  /\ At(c, "create") /\ lk[c] = "process"
  /\ \/ img = "nostat" /\ UNCHANGED mmLeaked
     \/ MayExhaust /\ ~mmLeaked /\ mmLeaked' = TRUE
  /\ irq' = [irq EXCEPT ![c] = TRUE]
  /\ Goto(c, "run")
  /\ UNCHANGED <<queues, tcb, creating, current, sp, ret, nxt, lock, first>>

\* Any later allocation failure: the next kmalloc or kfree(elf) spins for ever.
RunProcessNoMem(c) ==
  /\ At(c, "create") /\ lk[c] = "process"
  /\ MayExhaust /\ ~mmLeaked
  /\ mmLeaked' = TRUE
  /\ Goto(c, "stuck")
  /\ UNCHANGED <<queues, tcb, cpu, creating, nxt, lock, first>>

(***************************************************************************)
(* sched_enqueue_balanced: the loads are read without any queue's lock,    *)
(* then the task goes to the queue that ap_ids[] gives for the index of    *)
(* the first smallest load.                                                *)
(***************************************************************************)
find_extreme_index(arr) ==
  CHOOSE i \in CPU : /\ \A j \in CPU : arr[i] <= arr[j]
                     /\ \A j \in CPU : arr[j] = arr[i] => i <= j

Lightest == ApIds[find_extreme_index([i \in CPU |-> Len(readyq[i])])]

ReadLoads(c) ==
  /\ At(c, "place")
  /\ lk[c] = "thread" => current[c] # NULL
  /\ tgt' = [tgt EXCEPT ![c] = Lightest]
  /\ Goto(c, "enqueue")
  /\ UNCHANGED <<queues, tcb, cpu, lk, ntask, nxt, lock, mmLeaked, first>>

EnqueueNew(c) ==
  /\ At(c, "enqueue")
  /\ readyq' = [readyq EXCEPT ![tgt[c]] = queue_enqueue(@, ntask[c])]
  /\ ntask' = [ntask EXCEPT ![c] = NULL]
  /\ tgt' = [tgt EXCEPT ![c] = 0]
  /\ Unlock(c)
  /\ irq' = [irq EXCEPT ![c] = TRUE]
  /\ Goto(c, "run")
  /\ UNCHANGED <<tcb, current, exitq, sp, ret, lk, nxt, mmLeaked, first>>

(***************************************************************************)
(* The three ways into scheduler(): the timer interrupt, kerntask_exit     *)
(* (which marks the task before it turns interrupts off) and usertask_exit *)
(* (inside the system call, interrupts already off).  The first thread of  *)
(* a CPU (kernel_init, ap_idle_thread) loops for ever and never exits.     *)
(***************************************************************************)
lapic_timer_handler(c) ==
  /\ irq[c] /\ (At(c, "run") \/ At(c, "kexit"))
  /\ irq' = [irq EXCEPT ![c] = FALSE]
  /\ ret' = [ret EXCEPT ![c] = [pc |-> pc[c], iret |-> TRUE]]
  /\ Goto(c, "reap")
  /\ UNCHANGED <<queues, tcb, creating, current, sp, nxt, lock, mmLeaked,
                 first>>

kerntask_exit(c) ==
  /\ At(c, "run") /\ KernelThread(c) /\ current[c] # first[c]
  /\ status' = [status EXCEPT ![current[c]] = "EXIT"]
  /\ Goto(c, "kexit")
  /\ UNCHANGED <<queues, cpu, creating, allocd, flags, ctx, nxt, lock, mmLeaked,
                 first>>

kerntask_exit_sched(c) ==
  /\ At(c, "kexit")
  /\ irq' = [irq EXCEPT ![c] = FALSE]
  /\ ret' = [ret EXCEPT ![c] = [pc |-> "run", iret |-> FALSE]]
  /\ Goto(c, "reap")
  /\ UNCHANGED <<queues, tcb, creating, current, sp, nxt, lock, mmLeaked,
                 first>>

usertask_exit(c) ==
  /\ At(c, "run") /\ current[c] # NULL /\ flags[current[c]] = "user"
  /\ status' = [status EXCEPT ![current[c]] = "EXIT"]
  /\ irq' = [irq EXCEPT ![c] = FALSE]
  /\ ret' = [ret EXCEPT ![c] = [pc |-> "run", iret |-> TRUE]]
  /\ Goto(c, "reap")
  /\ UNCHANGED <<queues, creating, current, allocd, flags, ctx, sp, nxt, lock,
                 mmLeaked, first>>

(***************************************************************************)
(* scheduler().  First every task of the exit queue is freed; kfree and    *)
(* free_pages run here, inside the interrupt.  A zeroed structure matches  *)
(* no case of the switch on task->flags and stays allocated.               *)
(***************************************************************************)
\* Mutant: the exit queue is drained after the switch on old_task->status,
\* while the CPU is still on the outgoing stack.
Reaping_late(c) == (At(c, "reap") \/ At(c, "switch")) /\ exitq[c] # <<>>

Reaping(c) == At(c, "reap") /\ exitq[c] # <<>>

Reap(c) ==
  /\ Reaping(c)
  /\ LET t == Head(exitq[c]) IN
       IF flags[t] = "none"
       THEN UNCHANGED <<allocd, ctx>>
       ELSE /\ ~mmLeaked
            /\ allocd' = allocd \ {t}
            /\ ctx' = [ctx EXCEPT ![t] = "none"]
  /\ exitq' = [exitq EXCEPT ![c] = queue_dequeue(@)]
  /\ UNCHANGED <<cpu, creating, readyq, flags, status, pc, nxt, lock, mmLeaked,
                 first>>

\* Then the head of the ready queue is taken ...
PickNext(c) ==
  /\ At(c, "reap") /\ exitq[c] = <<>> /\ readyq[c] # <<>>
  /\ nxt' = [nxt EXCEPT ![c] = Head(readyq[c])]
  /\ readyq' = [readyq EXCEPT ![c] = queue_dequeue(@)]
  /\ status' = [status EXCEPT ![Head(readyq[c])] = "RUNNING"]
  /\ Goto(c, "put")
  /\ UNCHANGED <<cpu, creating, exitq, allocd, flags, ctx, lock, mmLeaked,
                 first>>

\* ... or, when it is empty, scheduler() returns to its caller.
SchedulerReturns(c) ==
  /\ At(c, "reap") /\ exitq[c] = <<>> /\ readyq[c] = <<>>
  /\ irq' = [irq EXCEPT ![c] = ret[c].iret]
  /\ Goto(c, ret[c].pc)
  /\ ret' = [ret EXCEPT ![c] = NoReturn]
  /\ UNCHANGED <<queues, tcb, creating, current, sp, nxt, lock, mmLeaked,
                 first>>

(***************************************************************************)
(* The switch on old_task->status: a running task goes to the tail of the  *)
(* ready queue, an exited one to the exit queue, any other nowhere.        *)
(***************************************************************************)
\* Mutants: a lone running task is not put back; the break after the first
\* case is missing, so a running task is also queued for exit.
Requeued_onlyIfOthers(c) == status[current[c]] = "RUNNING" /\ readyq[c] # <<>>
Buried_noBreak(c) == status[current[c]] \in {"RUNNING", "EXIT"}

Requeued(c) == status[current[c]] = "RUNNING"
Buried(c) == status[current[c]] = "EXIT"

PutOld(c) ==
  /\ At(c, "put")
  /\ readyq' = IF Requeued(c)
               THEN [readyq EXCEPT ![c] = queue_enqueue(@, current[c])]
               ELSE readyq
  /\ exitq' = IF Buried(c)
              THEN [exitq EXCEPT ![c] = queue_enqueue(@, current[c])]
              ELSE exitq
  /\ Goto(c, "switch")
  /\ UNCHANGED <<tcb, cpu, creating, nxt, lock, mmLeaked, first>>

(***************************************************************************)
(* context_switch: the old context is saved on the old stack, the CPU      *)
(* moves to the new one.  The resumed path (a new thread, or the rest of   *)
(* the interrupt that preempted it) ends with interrupts on.  A structure  *)
(* without a context sends the CPU into the void.                          *)
(***************************************************************************)
\* Mutant: the outgoing context is not stored through cur_rsp.
SwitchContexts_noSave(old, new) ==
  [ctx EXCEPT ![new] = IF @ = "saved" THEN "live" ELSE @]

SwitchContexts(old, new) ==
  [ctx EXCEPT ![old] = "saved", ![new] = IF @ = "saved" THEN "live" ELSE @]

context_switch(c) ==
  /\ At(c, "switch")
  /\ LET new == nxt[c]
     IN  /\ current' = [current EXCEPT ![c] = new]
         /\ sp' = [sp EXCEPT ![c] = new]
         /\ ctx' = SwitchContexts(current[c], new)
         /\ irq' = [irq EXCEPT ![c] = ctx[new] = "saved"]
         /\ Goto(c, IF ctx[new] = "saved" THEN "run" ELSE "stuck")
  /\ nxt' = [nxt EXCEPT ![c] = NULL]
  /\ ret' = [ret EXCEPT ![c] = NoReturn]
  /\ UNCHANGED <<queues, creating, allocd, flags, status, lock, mmLeaked,
                 first>>

--------------------------------------------------------------------------------
Create(c) ==
  \/ \E l \in Locks : EnterCreate(c, l)
  \/ LockCreate(c)
  \/ \E t \in Task :
       \/ RunThreadCreate(c, t)
       \/ \E img \in Images : RunProcessCreate(c, t, img) \/ RunProcessErr(c, t, img)
  \/ RunThreadNoMem(c)
  \/ RunThreadFirst(c)
  \/ \E img \in Images : RunProcessReturnLocked(c, img)
  \/ RunProcessNoMem(c)
  \/ ReadLoads(c)
  \/ EnqueueNew(c)

Exit(c) == kerntask_exit(c) \/ kerntask_exit_sched(c) \/ usertask_exit(c)

Schedule(c) ==
  \/ Reap(c) \/ PickNext(c) \/ SchedulerReturns(c)
  \/ PutOld(c) \/ context_switch(c)

Next == \E c \in Online : Create(c) \/ Exit(c) \/ lapic_timer_handler(c) \/ Schedule(c)

Spec == Init /\ [][Next]_vars

--------------------------------------------------------------------------------
Elems(q) == {q[i] : i \in DOMAIN q}
Distinct(q) == \A i, j \in DOMAIN q : q[i] = q[j] => i = j

Queued(c) == Elems(readyq[c]) \cup Elems(exitq[c])

\* Tasks a CPU has in hand.  Between PutOld and context_switch the outgoing
\* task is already in a queue while current[c] still names it.
InHand(c) ==
  {ntask[c], nxt[c], IF At(c, "switch") THEN NULL ELSE current[c]} \ {NULL}

(***************************************************************************)
(* A task is in one place: at most once in the queues of one CPU, or in    *)
(* the hands of one CPU, never both, and it is allocated.  A task in two   *)
(* places would be run by two CPUs on one stack, or freed while queued.    *)
(***************************************************************************)
OnePlace ==
  \A c \in CPU :
    /\ Distinct(readyq[c]) /\ Distinct(exitq[c])
    /\ Elems(readyq[c]) \cap Elems(exitq[c]) = {}
    /\ Queued(c) \cap InHand(c) = {}
    /\ Queued(c) \cup InHand(c) \subseteq allocd
    /\ \A d \in CPU \ {c} :
         (Queued(c) \cup InHand(c)) \cap (Queued(d) \cup InHand(d)) = {}

(***************************************************************************)
(* No CPU runs on a stack that has been freed, and no two CPUs run on one. *)
(* The exiting task is still on its stack when it enters the exit queue;   *)
(* only the next call of scheduler() on that CPU may free it.              *)
(***************************************************************************)
StackSafe ==
  \A c \in CPU : sp[c] # NULL =>
    /\ sp[c] \in allocd
    /\ \A d \in CPU \ {c} : sp[d] # sp[c]

(***************************************************************************)
(* Task code runs with interrupts on, so it can be preempted, unless a     *)
(* failed allocation has already broken run_thread.  In particular         *)
(* kerntask_exit never returns (it would return with interrupts off):      *)
(* the ready queue of the CPU then always holds its first thread.          *)
(***************************************************************************)
Preemptible == \A c \in CPU : At(c, "run") /\ ~irq[c] => mmLeaked

(***************************************************************************)
(* A CPU is lost only to an exhausted heap or to an ELF32 image: every     *)
(* other task it is switched to has a saved context.                       *)
(***************************************************************************)
DispatchSafe ==
  \A c \in CPU : At(c, "stuck") =>
    mmLeaked \/ (current[c] # NULL /\ flags[current[c]] = "none")

(***************************************************************************)
(* run_thread and run_process exclude themselves on their lock, and only a *)
(* failed allocation or a failed stat leaves the call with the lock held.  *)
(***************************************************************************)
InCreate(c) == pc[c] \in {"create", "place", "enqueue"}

CreationLocked ==
  /\ \A c \in CPU : InCreate(c) => lock[lk[c]] = c
  /\ \A l \in Locks, c \in CPU :
       lock[l] = c => \/ InCreate(c) /\ lk[c] = l
                      \/ mmLeaked
                      \/ l = "process" /\ "nostat" \in Images

(***************************************************************************)
(* A step that frees a task structure frees that of a task that has        *)
(* exited, that no CPU runs or is about to run, and that nobody queues.    *)
(***************************************************************************)
ReapSafe ==
  [][\A t \in allocd \ allocd' :
       /\ status[t] = "EXIT"
       /\ \A c \in CPU : /\ sp[c] # t /\ current[c] # t
                         /\ t \notin InHand(c)
                         /\ t \notin Queued(c)']_vars

================================================================================
