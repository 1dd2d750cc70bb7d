--------------------------- MODULE SchedulerInvariant ---------------------------
(***************************************************************************)
(* The inductive invariant of Scheduler, and the lemmas its proof rests on.*)
(***************************************************************************)
EXTENDS Scheduler, TLAPS

(***************************************************************************)
(* The inductive invariant.  CpuInv(c) speaks of one CPU and of the tasks  *)
(* it holds, so a step of another CPU that leaves both alone preserves it. *)
(***************************************************************************)
Held(c) == Queued(c) \cup InHand(c)

\* Locals are set exactly while the CPU is on the path that uses them.
LocalsSet(c) ==
  /\ ntask[c] # NULL <=> pc[c] \in {"place", "enqueue"}
  /\ nxt[c] # NULL <=> pc[c] \in {"put", "switch"}
  /\ pc[c] \in {"run", "kexit", "enqueue", "reap", "put", "switch"} => current[c] # NULL
  /\ pc[c] \in {"spin", "create", "place"} /\ lk[c] = "process" => current[c] # NULL
  /\ pc[c] = "boot" => current[c] = NULL
  /\ sp[c] = current[c]
  /\ ntask[c] # NULL => ntask[c] # current[c]
  /\ nxt[c] # NULL => nxt[c] # current[c]

\* Between PutOld and context_switch the current task is queued.
OldIsQueued(c) == At(c, "switch") => current[c] \in Queued(c)

\* The first thread of a CPU never leaves it: it is current, next or ready.
FirstStays(c) ==
  current[c] # NULL =>
    /\ first[c] # NULL /\ flags[first[c]] = "kern"
    /\ \/ first[c] \in Elems(readyq[c])
       \/ first[c] = nxt[c]
       \/ first[c] = current[c] /\ ~At(c, "switch")

\* It is never marked for exit, and only the path of an exiting task gives
\* scheduler() another way back than the iretq of an interrupted task.
FirstRuns(c) ==
  current[c] # NULL =>
    /\ status[current[c]] \in {"RUNNING", "EXIT"}
    /\ current[c] = first[c] => status[current[c]] = "RUNNING"
    /\ At(c, "kexit") => current[c] # first[c]
    /\ At(c, "reap") /\ ~(ret[c].iret /\ ret[c].pc = "run") => current[c] # first[c]

\* The task about to be dispatched is marked running; run_thread makes threads.
InFlight(c) ==
  /\ nxt[c] # NULL => status[nxt[c]] = "RUNNING"
  /\ ntask[c] # NULL /\ lk[c] = "thread" => flags[ntask[c]] = "kern"

\* Only tasks that have exited are in an exit queue.
ExitQueueDead(c) == \A t \in Elems(exitq[c]) : status[t] = "EXIT"

\* Task code is interruptible, on the way into kerntask_exit as well.
IrqOn(c) == pc[c] \in {"run", "kexit"} => irq[c] \/ mmLeaked

\* What waits to be dispatched has a context, heap exhaustion and ELF32 aside.
HasContext(t) == mmLeaked \/ flags[t] = "none" \/ ctx[t] = "saved"

ContextSaved(c) ==
  /\ \A t \in Elems(readyq[c]) : HasContext(t) \/ (At(c, "switch") /\ t = current[c])
  /\ ntask[c] # NULL => HasContext(ntask[c])
  /\ nxt[c] # NULL => HasContext(nxt[c])

StuckWhy(c) ==
  At(c, "stuck") => mmLeaked \/ (current[c] # NULL /\ flags[current[c]] = "none")

CpuInv(c) ==
  /\ LocalsSet(c) /\ OldIsQueued(c) /\ FirstStays(c) /\ FirstRuns(c) /\ InFlight(c)
  /\ ExitQueueDead(c) /\ IrqOn(c) /\ ContextSaved(c) /\ StuckWhy(c)

IInv ==
  /\ TypeOK /\ OnePlace /\ CreationLocked
  /\ \A c \in CPU : CpuInv(c)

--------------------------------------------------------------------------------
(***************************************************************************)
(* Sequences as queues.                                                    *)
(***************************************************************************)
\* queue_enqueue adds one element and, when it is new, keeps the queue free of
\* duplicates.
LEMMA EnqueueElems ==
  ASSUME NEW S, NEW q \in Seq(S), NEW t \in S
  PROVE  /\ queue_enqueue(q, t) \in Seq(S)
         /\ Elems(queue_enqueue(q, t)) = Elems(q) \cup {t}
         /\ Distinct(q) /\ t \notin Elems(q) => Distinct(queue_enqueue(q, t))
<1> DEFINE r == queue_enqueue(q, t)
<1>1. /\ r \in Seq(S)
      /\ DOMAIN q = 1 .. Len(q) /\ DOMAIN r = 1 .. Len(q) + 1
      /\ r[Len(q) + 1] = t
      /\ \A i \in 1 .. Len(q) : r[i] = q[i]
      /\ Len(q) \in Nat
  BY DEF queue_enqueue
<1> HIDE DEF r
<1>2. Elems(r) = Elems(q) \cup {t}
  <2>1. \A x \in Elems(r) : x \in Elems(q) \cup {t}
    BY <1>1 DEF Elems
  <2>2. \A x \in Elems(q) : x \in Elems(r)
    BY <1>1 DEF Elems
  <2>3. t \in Elems(r)
    BY <1>1 DEF Elems
  <2> QED BY <2>1, <2>2, <2>3
<1>3. ASSUME Distinct(q), t \notin Elems(q) PROVE Distinct(r)
  BY <1>1, <1>3 DEF Distinct, Elems
<1> QED BY <1>1, <1>2, <1>3 DEF r

\* queue_dequeue removes exactly the head from a queue without duplicates.
LEMMA DequeueElems ==
  ASSUME NEW S, NEW q \in Seq(S), q # <<>>
  PROVE  /\ Head(q) \in S
         /\ queue_dequeue(q) \in Seq(S)
         /\ Elems(q) = Elems(queue_dequeue(q)) \cup {Head(q)}
         /\ Distinct(q) => /\ Distinct(queue_dequeue(q))
                           /\ Head(q) \notin Elems(queue_dequeue(q))
<1> DEFINE r == queue_dequeue(q)
<1>1. /\ r \in Seq(S) /\ Head(q) \in S /\ Head(q) = q[1]
      /\ Len(q) \in Nat \ {0}
      /\ DOMAIN q = 1 .. Len(q) /\ DOMAIN r = 1 .. Len(q) - 1
      /\ \A i \in 1 .. Len(q) - 1 : r[i] = q[i + 1]
  BY DEF queue_dequeue
<1> HIDE DEF r
<1>2. \A i \in DOMAIN r : i \in Int /\ i + 1 \in DOMAIN q \ {1} /\ r[i] = q[i + 1]
  BY <1>1
<1>3. Elems(q) = Elems(r) \cup {Head(q)}
  <2>1. \A x \in Elems(r) : x \in Elems(q)
    BY <1>2 DEF Elems
  <2>2. ASSUME NEW i \in DOMAIN q PROVE q[i] \in Elems(r) \cup {Head(q)}
    <3>1. CASE i = 1
      BY <1>1, <3>1
    <3>2. CASE i # 1
      <4>1. i - 1 \in DOMAIN r /\ r[i - 1] = q[i]
        BY <1>1, <3>2
      <4> QED BY <4>1 DEF Elems
    <3> QED BY <3>1, <3>2
  <2>3. Head(q) \in Elems(q)
    BY <1>1 DEF Elems
  <2> QED BY <2>1, <2>2, <2>3 DEF Elems
<1>4. ASSUME Distinct(q) PROVE Distinct(r) /\ Head(q) \notin Elems(r)
  <2>1. 1 \in DOMAIN q
    BY <1>1
  <2>2. \A i \in DOMAIN r : r[i] # Head(q)
    BY <1>1, <1>2, <1>4, <2>1, Zenon DEF Distinct
  <2>3. ASSUME NEW i \in DOMAIN r, NEW j \in DOMAIN r, r[i] = r[j] PROVE i = j
    <3>1. i + 1 = j + 1
      BY <1>2, <1>4, <2>3 DEF Distinct
    <3> QED BY <1>2, <3>1
  <2> QED BY <2>2, <2>3 DEF Distinct, Elems
<1> QED BY <1>1, <1>3, <1>4 DEF r

\* A queue is created empty.
LEMMA EmptyElems == Elems(<<>>) = {} /\ Distinct(<<>>)
  BY DEF Elems, Distinct

--------------------------------------------------------------------------------
\* Steps that touch no queue: in-hand tasks change owner on no CPU, except that
\* the acting CPU may take fresh structures in hand.
LEMMA OnePlaceInHand ==
  ASSUME OnePlace, NEW c \in CPU, NEW Fresh,
         UNCHANGED queues,
         allocd' = allocd \cup Fresh, Fresh \cap allocd = {},
         \A d \in CPU \ {c} : InHand(d)' = InHand(d),
         InHand(c)' \subseteq InHand(c) \cup Fresh
  PROVE  OnePlace'
<1>1. \A d \in CPU : Queued(d)' = Queued(d)
  BY DEF Queued, queues
<1>2. \A d \in CPU : Queued(d) \cup InHand(d) \subseteq allocd
  BY DEF OnePlace
<1>3. \A d \in CPU : InHand(d)' \subseteq InHand(d) \cup (IF d = c THEN Fresh ELSE {})
  OBVIOUS
<1> SUFFICES ASSUME NEW d \in CPU
             PROVE  /\ Queued(d)' \cap InHand(d)' = {}
                    /\ Queued(d)' \cup InHand(d)' \subseteq allocd'
                    /\ \A e \in CPU \ {d} :
                         (Queued(d) \cup InHand(d))' \cap (Queued(e) \cup InHand(e))' = {}
  BY DEF OnePlace, queues
<1>4. Queued(d)' \cap InHand(d)' = {}
  BY <1>1, <1>2, <1>3 DEF OnePlace
<1>5. Queued(d)' \cup InHand(d)' \subseteq allocd'
  BY <1>1, <1>2, <1>3
<1>6. ASSUME NEW e \in CPU \ {d}
      PROVE  (Queued(d) \cup InHand(d))' \cap (Queued(e) \cup InHand(e))' = {}
  <2>1. (Queued(d) \cup InHand(d)) \cap (Queued(e) \cup InHand(e)) = {}
    BY DEF OnePlace
  <2> QED BY <2>1, <1>1, <1>2, <1>3
<1> QED BY <1>4, <1>5, <1>6

\* The current task and the first thread of a CPU are among the tasks it holds.
LEMMA HeldByCpu ==
  ASSUME NEW c \in CPU, CpuInv(c), current[c] # NULL
  PROVE  current[c] \in Held(c) /\ first[c] \in Held(c)
BY DEF CpuInv, OldIsQueued, FirstStays, LocalsSet, Held, InHand, Queued, At

\* Tasks held by different CPUs are different.
LEMMA HeldApart ==
  ASSUME OnePlace, NEW c \in CPU, NEW d \in CPU \ {c}, NEW t \in Held(d)
  PROVE  t \notin Held(c) /\ t \in allocd
BY DEF OnePlace, Held

\* What a step of CPU c leaves alone: the variables of the other CPUs, and the
\* tasks that c does not hold.
OthersKeep(c) ==
  \A d \in CPU \ {c} :
    /\ current'[d] = current[d] /\ readyq'[d] = readyq[d]
    /\ exitq'[d] = exitq[d]     /\ sp'[d] = sp[d]
    /\ irq'[d] = irq[d]         /\ pc'[d] = pc[d]
    /\ ret'[d] = ret[d]         /\ lk'[d] = lk[d]
    /\ ntask'[d] = ntask[d]     /\ nxt'[d] = nxt[d]
    /\ first'[d] = first[d]

TasksKeep(c) ==
  /\ mmLeaked => mmLeaked'
  /\ \A t \in allocd \ Held(c) :
       flags'[t] = flags[t] /\ status'[t] = status[t] /\ ctx'[t] = ctx[t]

\* Such a step preserves the invariant of the other CPUs.
LEMMA OtherCpus ==
  ASSUME IInv, NEW c \in CPU, OthersKeep(c), TasksKeep(c)
  PROVE  \A d \in CPU \ {c} : CpuInv(d)' /\ Queued(d)' = Queued(d) /\ InHand(d)' = InHand(d)
<1> SUFFICES ASSUME NEW d \in CPU \ {c}
             PROVE  CpuInv(d)' /\ Queued(d)' = Queued(d) /\ InHand(d)' = InHand(d)
  OBVIOUS
<1>1. CpuInv(d)
  BY DEF IInv
<1>2. \A t \in Held(d) : flags'[t] = flags[t] /\ status'[t] = status[t] /\ ctx'[t] = ctx[t]
  BY HeldApart DEF IInv, TasksKeep
<1>3. /\ Elems(readyq[d]) \subseteq Held(d) /\ Elems(exitq[d]) \subseteq Held(d)
      /\ ntask[d] # NULL => ntask[d] \in Held(d)
      /\ nxt[d] # NULL => nxt[d] \in Held(d)
  BY DEF Held, Queued, InHand
<1>4. current[d] # NULL => current[d] \in Held(d) /\ first[d] \in Held(d)
  BY <1>1, HeldByCpu
<1>5. LocalsSet(d)' /\ IrqOn(d)' /\ StuckWhy(d)'
  BY <1>1, <1>2, <1>4 DEF CpuInv, LocalsSet, IrqOn, StuckWhy, At,
       OthersKeep, TasksKeep
<1>6. OldIsQueued(d)' /\ Queued(d)' = Queued(d) /\ InHand(d)' = InHand(d)
  BY <1>1, Zenon DEF CpuInv, OldIsQueued, Queued, InHand, At, OthersKeep
<1>7. /\ pc'[d] = pc[d] /\ current'[d] = current[d] /\ first'[d] = first[d]
      /\ nxt'[d] = nxt[d] /\ ntask'[d] = ntask[d] /\ lk'[d] = lk[d] /\ ret'[d] = ret[d]
      /\ readyq'[d] = readyq[d] /\ exitq'[d] = exitq[d]
  BY Zenon DEF OthersKeep
<1>8. FirstStays(d)' /\ FirstRuns(d)'
  <2>1. FirstStays(d) /\ FirstRuns(d)
    BY <1>1, Zenon DEF CpuInv
  <2>2. current[d] # NULL => /\ flags'[first[d]] = flags[first[d]]
                             /\ status'[current[d]] = status[current[d]]
    BY <1>2, <1>4, Zenon
  <2>3. FirstStays(d)'
    BY <1>7, <2>1, <2>2 DEF FirstStays, At
  <2>4. FirstRuns(d)'
    BY <1>7, <2>1, <2>2 DEF FirstRuns, At
  <2> QED BY <2>3, <2>4
<1>9. InFlight(d)' /\ ExitQueueDead(d)' /\ ContextSaved(d)'
  <2>1. InFlight(d) /\ ExitQueueDead(d) /\ ContextSaved(d)
    BY <1>1, Zenon DEF CpuInv
  <2>2. InFlight(d)'
    BY <1>2, <1>3, <1>7, <2>1 DEF InFlight
  <2>3. ExitQueueDead(d)'
    BY <1>2, <1>3, <1>7, <2>1, Zenon DEF ExitQueueDead
  <2>4. \A t \in Held(d) : HasContext(t) => HasContext(t)'
    BY <1>2, Zenon DEF HasContext, TasksKeep
  <2>5. ContextSaved(d)'
    BY <1>3, <1>7, <2>1, <2>4 DEF ContextSaved, At
  <2> QED BY <2>2, <2>3, <2>5
<1> QED BY <1>5, <1>6, <1>8, <1>9 DEF CpuInv

\* When it touches no queue either, every task stays in one place.
LEMMA NoQueueStep ==
  ASSUME IInv, NEW c \in CPU, OthersKeep(c), TasksKeep(c), NEW Fresh,
         UNCHANGED queues, allocd' = allocd \cup Fresh, Fresh \cap allocd = {},
         InHand(c)' \subseteq InHand(c) \cup Fresh
  PROVE  OnePlace' /\ \A d \in CPU \ {c} : CpuInv(d)'
<1>1. \A d \in CPU \ {c} : CpuInv(d)' /\ InHand(d)' = InHand(d)
  BY OtherCpus
<1>2. OnePlace
  BY DEF IInv
<1>3. OnePlace'
  BY <1>1, <1>2, OnePlaceInHand
<1> QED BY <1>1, <1>3

\* The tasks a CPU holds are allocated, and what it has in hand is not queued.
Own(c) ==
  /\ Elems(readyq[c]) \cup Elems(exitq[c]) \subseteq Held(c)
  /\ Held(c) \subseteq allocd /\ allocd \subseteq Task
  /\ current[c] # NULL => current[c] \in Held(c) /\ first[c] \in Held(c)
  /\ ntask[c] # NULL => ntask[c] \in Held(c)
  /\ nxt[c] # NULL => nxt[c] \in Held(c)
  /\ \A t \in Elems(readyq[c]) :
       t # ntask[c] /\ t # nxt[c] /\ (t # current[c] \/ At(c, "switch"))
  /\ \A t \in Elems(exitq[c]) :
       /\ t # ntask[c] /\ t # nxt[c] /\ (t # current[c] \/ At(c, "switch"))
       /\ t \notin Elems(readyq[c])

\* This holds of every CPU.
LEMMA OwnCpu ==
  ASSUME IInv, NEW c \in CPU
  PROVE  TypeOK /\ CpuInv(c) /\ Own(c)
<1>1. TypeOK /\ OnePlace /\ CpuInv(c)
  BY DEF IInv
<1>2. /\ Elems(readyq[c]) \cup Elems(exitq[c]) \subseteq Held(c)
      /\ Held(c) \subseteq allocd /\ allocd \subseteq Task
  BY <1>1, Zenon DEF OnePlace, Held, Queued, TypeOK
<1>3. /\ current[c] # NULL => current[c] \in Held(c) /\ first[c] \in Held(c)
      /\ ntask[c] # NULL => ntask[c] \in Held(c)
      /\ nxt[c] # NULL => nxt[c] \in Held(c)
  BY <1>1, HeldByCpu, Zenon DEF Held, InHand
<1>4. \A t \in Elems(readyq[c]) \cup Elems(exitq[c]) :
        t # ntask[c] /\ t # nxt[c] /\ (t # current[c] \/ At(c, "switch"))
  <2>1. NULL \notin Elems(readyq[c]) \cup Elems(exitq[c])
    BY <1>2, NullAssumption
  <2>2. (Elems(readyq[c]) \cup Elems(exitq[c])) \cap InHand(c) = {}
    BY <1>1 DEF OnePlace, Queued
  <2> QED BY <2>1, <2>2 DEF InHand
<1>5. \A t \in Elems(exitq[c]) : t \notin Elems(readyq[c])
  BY <1>1 DEF OnePlace
<1> QED BY <1>1, <1>2, <1>3, <1>4, <1>5, Zenon DEF Own

\* In particular its current and its first task, and the queued ones.
LEMMA OwnAllocated ==
  ASSUME NEW c \in CPU, Own(c)
  PROVE  /\ current[c] # NULL => current[c] \in allocd /\ first[c] \in allocd
         /\ Elems(readyq[c]) \subseteq allocd /\ Elems(exitq[c]) \subseteq allocd
  BY DEF Own

\* A step that takes and releases no creation lock, and neither enters nor
\* leaves the locked part of a creation call.
LEMMA LocksKept ==
  ASSUME IInv, NEW c \in CPU, OthersKeep(c), mmLeaked => mmLeaked',
         UNCHANGED <<lock, lk>>, InCreate(c)' <=> InCreate(c)
  PROVE  CreationLocked'
<1>1. \A d \in CPU : InCreate(d)' <=> InCreate(d)
  BY DEF OthersKeep, InCreate
<1>2. CreationLocked
  BY DEF IInv
<1> QED BY <1>1, <1>2 DEF CreationLocked

\* A step that leaves a creation call through spinlock_unlock.
LEMMA LocksReleased ==
  ASSUME IInv, NEW c \in CPU, InCreate(c), ~InCreate(c)', Unlock(c), UNCHANGED <<lk, mmLeaked>>,
         \A d \in CPU \ {c} : InCreate(d)' <=> InCreate(d)
  PROVE  CreationLocked'
<1>1. TypeOK /\ CreationLocked
  BY DEF IInv
<1>2. /\ lock'[lk[c]] = NULL
      /\ \A l \in Locks \ {lk[c]} : lock'[l] = lock[l]
      /\ \A d \in CPU : lk[d] \in Locks
  BY <1>1 DEF TypeOK, Unlock
<1>3. ASSUME NEW d \in CPU, InCreate(d)' PROVE lock'[lk'[d]] = d
  <2>1. d # c /\ InCreate(d)
    BY <1>3
  <2>2. lock[lk[d]] = d /\ lock[lk[c]] = c
    BY <1>1, <2>1 DEF CreationLocked
  <2> QED BY <1>2, <2>1, <2>2
<1>4. ASSUME NEW l \in Locks, NEW d \in CPU, lock'[l] = d
      PROVE  \/ InCreate(d)' /\ lk'[d] = l
             \/ mmLeaked'
             \/ l = "process" /\ "nostat" \in Images
  <2>1. l # lk[c] /\ lock[l] = d
    BY <1>2, <1>4, NullAssumption
  <2> QED BY <1>1, <2>1 DEF CreationLocked
<1> QED BY <1>3, <1>4 DEF CreationLocked

\* kzalloc of a task structure: a new one, the others are left alone.
AllocFacts(t, f, x) ==
  /\ allocd' = allocd \cup {t} /\ t \notin allocd /\ ~mmLeaked
  /\ allocd' \subseteq Task
  /\ flags' \in [Task -> {"kern", "user", "none"}]
  /\ status' \in [Task -> Status]
  /\ ctx' \in [Task -> {"none", "saved", "live"}]
  /\ flags'[t] = f /\ ctx'[t] = x
  /\ \A y \in allocd : flags'[y] = flags[y] /\ status'[y] = status[y] /\ ctx'[y] = ctx[y]

\* What AllocTask writes, and what it leaves.
LEMMA AllocTaskFrame ==
  ASSUME TypeOK, NEW c, NEW t \in Task, NEW f \in {"kern", "user", "none"},
         NEW s \in Status, NEW x \in {"none", "saved", "live"}, AllocTask(c, t, f, s, x)
  PROVE  AllocFacts(t, f, x)
  BY DEF TypeOK, AllocTask, AllocFacts

\* A step on the queues of CPU c that brings in no task from elsewhere, and
\* frees none but its own.
LEMMA OwnQueueStep ==
  ASSUME IInv, NEW c \in CPU, OthersKeep(c), TasksKeep(c),
         Distinct(readyq'[c]), Distinct(exitq'[c]),
         Elems(readyq'[c]) \cap Elems(exitq'[c]) = {},
         Queued(c)' \cap InHand(c)' = {},
         Held(c)' \subseteq Held(c) \cap allocd',
         allocd \ allocd' \subseteq Held(c)
  PROVE  OnePlace' /\ \A d \in CPU \ {c} : CpuInv(d)'
<1>1. /\ \A d \in CPU \ {c} : CpuInv(d)' /\ Queued(d)' = Queued(d) /\ InHand(d)' = InHand(d)
      /\ \A d \in CPU \ {c} : readyq'[d] = readyq[d] /\ exitq'[d] = exitq[d]
      /\ OnePlace
  BY OtherCpus, Zenon DEF OthersKeep, IInv
<1>2. \A d \in CPU \ {c} : Held(d)' = Held(d) /\ Held(d) \cap Held(c) = {} /\ Held(d) \subseteq allocd'
  BY <1>1, Zenon DEF Held, OnePlace
<1>3. \A d, e \in CPU : d # e => Held(d)' \cap Held(e)' = {}
  <2> SUFFICES ASSUME NEW d \in CPU, NEW e \in CPU, d # e
               PROVE  Held(d)' \cap Held(e)' = {}
    OBVIOUS
  <2>1. Held(d) \cap Held(e) = {}
    BY <1>1, Zenon DEF Held, OnePlace
  <2> QED BY <1>2, <2>1
<1>4. ASSUME NEW d \in CPU
      PROVE  /\ Distinct(readyq'[d]) /\ Distinct(exitq'[d])
             /\ Elems(readyq'[d]) \cap Elems(exitq'[d]) = {}
             /\ Queued(d)' \cap InHand(d)' = {}
             /\ Held(d)' \subseteq allocd'
  BY <1>1, <1>2, Zenon DEF OnePlace
<1> QED BY <1>1, <1>3, <1>4, Zenon DEF OnePlace, Held

\* A quiet step of CPU c moves no task: it changes where the CPU is, its
\* interrupt flag and locks, perhaps the status of its current task, and may
\* allocate structures that it then loses.
Quiet(c) ==
  /\ OthersKeep(c) /\ UNCHANGED queues
  /\ current'[c] = current[c] /\ sp'[c] = sp[c] /\ first'[c] = first[c]
  /\ ntask'[c] = ntask[c] /\ nxt'[c] = nxt[c]
  /\ lk'[c] = lk[c] \/ ntask[c] = NULL
  /\ mmLeaked => mmLeaked'
  /\ allocd \subseteq allocd'
  /\ \A t \in allocd : /\ flags'[t] = flags[t] /\ ctx'[t] = ctx[t]
                       /\ t # current[c] => status'[t] = status[t]

\* What has to be shown of the place that the CPU comes to: the task it needs
\* is there, interrupts are on in task code, and only a task that is not the
\* first thread is marked for exit or on its way out.
Control(c) ==
  /\ pc[c] \notin {"put", "switch"} /\ pc'[c] \notin {"boot", "put", "switch"}
  /\ pc[c] \in {"place", "enqueue"} <=> pc'[c] \in {"place", "enqueue"}
  /\ pc'[c] \in {"run", "kexit", "enqueue", "reap"} => current[c] # NULL
  /\ pc'[c] \in {"spin", "create", "place"} /\ lk'[c] = "process" => current[c] # NULL
  /\ pc'[c] \in {"run", "kexit"} => irq'[c] \/ mmLeaked'
  /\ pc'[c] = "stuck" => mmLeaked'
  /\ pc'[c] = "kexit" => current[c] # first[c]
  /\ pc'[c] = "reap" /\ ~(ret'[c].iret /\ ret'[c].pc = "run") => current[c] # first[c]
  /\ current[c] # NULL =>
       \/ status'[current[c]] = status[current[c]]
       \/ status'[current[c]] = "EXIT" /\ current[c] # first[c]

\* A quiet step to such a place preserves the invariant of every CPU.
LEMMA QuietStep ==
  ASSUME IInv, NEW c \in CPU, Quiet(c), Control(c)
  PROVE  OnePlace' /\ \A d \in CPU : CpuInv(d)'
<1>1. CpuInv(c) /\ Own(c)
  BY OwnCpu
<1>2. OthersKeep(c) /\ TasksKeep(c)
  BY <1>1, NullAssumption, Zenon DEF Quiet, TasksKeep, Own
<1>3. InHand(c)' \subseteq InHand(c) \cup (allocd' \ allocd)
  BY Zenon DEF Quiet, Control, InHand, At
<1>4. OnePlace' /\ \A d \in CPU \ {c} : CpuInv(d)'
  <2>1. UNCHANGED queues /\ allocd' = allocd \cup (allocd' \ allocd)
    BY Zenon DEF Quiet
  <2>2. (allocd' \ allocd) \cap allocd = {}
    OBVIOUS
  <2> QED BY <1>2, <1>3, <2>1, <2>2, NoQueueStep, Zenon
<1>5. /\ readyq'[c] = readyq[c] /\ exitq'[c] = exitq[c]
      /\ Elems(readyq[c]) \subseteq allocd /\ Elems(exitq[c]) \subseteq allocd
      /\ \A t \in Elems(exitq[c]) : t # current[c]
  BY <1>1, Zenon DEF Quiet, Control, queues, Own, At
<1>6. LocalsSet(c)'
  BY <1>1, Zenon DEF Quiet, Control, CpuInv, LocalsSet
<1>7. IrqOn(c)' /\ StuckWhy(c)'
  BY Zenon DEF Control, IrqOn, StuckWhy, At
<1>8. OldIsQueued(c)' /\ FirstStays(c)'
  BY <1>1, <1>5, ZenonT(40) DEF Quiet, Control, CpuInv, OldIsQueued, FirstStays, Own, At
<1>9. FirstRuns(c)'
  BY <1>1, Zenon DEF Quiet, Control, CpuInv, FirstRuns, At
<1>10. InFlight(c)' /\ ExitQueueDead(c)'
  <2>1. /\ ntask[c] # NULL => ntask[c] \in allocd
        /\ nxt[c] # NULL => nxt[c] \in allocd /\ nxt[c] # current[c]
    BY <1>1, Zenon DEF Own, CpuInv, LocalsSet
  <2>2. InFlight(c)'
    BY <1>1, <2>1, Zenon DEF Quiet, CpuInv, InFlight
  <2>3. ExitQueueDead(c)'
    BY <1>1, <1>5, Zenon DEF Quiet, CpuInv, ExitQueueDead
  <2> QED BY <2>2, <2>3
<1>11. ContextSaved(c)'
  <2>1. \A t \in allocd : HasContext(t) => mmLeaked' \/ flags'[t] = "none" \/ ctx'[t] = "saved"
    BY Zenon DEF Quiet, HasContext
  <2>2. \A t \in Elems(readyq[c]) : t \in allocd /\ HasContext(t)
    BY <1>1, <1>5, Zenon DEF Control, CpuInv, ContextSaved, At
  <2>3. /\ ntask[c] # NULL => ntask[c] \in allocd /\ HasContext(ntask[c])
        /\ nxt[c] # NULL => nxt[c] \in allocd /\ HasContext(nxt[c])
    BY <1>1, Zenon DEF Own, CpuInv, ContextSaved
  <2> QED BY <1>5, <2>1, <2>2, <2>3, ZenonT(40) DEF Quiet, ContextSaved, HasContext
<1> QED BY <1>4, <1>6, <1>7, <1>8, <1>9, <1>10, <1>11, Zenon DEF CpuInv

--------------------------------------------------------------------------------
(***************************************************************************)
(* run_thread and run_process keep the invariant, up to the placement of   *)
(* the new task: one lemma per action.                                     *)
(***************************************************************************)
\* run_thread and run_process are entered.
LEMMA EnterCreate_step ==
  ASSUME IInv, NEW c \in CPU, NEW l \in Locks, EnterCreate(c, l)
  PROVE  IInv'
<1>1. TypeOK /\ CpuInv(c) /\ Own(c)
  BY OwnCpu
<1>2. /\ pc[c] \in {"run", "boot"} /\ pc'[c] = "spin" /\ lk'[c] = l
      /\ l \in {"thread", "process"} /\ (pc[c] = "boot" => l = "thread")
      /\ current'[c] = current[c] /\ sp'[c] = sp[c] /\ first'[c] = first[c]
      /\ ntask'[c] = ntask[c] /\ nxt'[c] = nxt[c]
      /\ UNCHANGED <<flags, status, ctx, mmLeaked>>
  BY <1>1, NullAssumption, Zenon DEF TypeOK, RetPoint, Locks, EnterCreate,
       KernelThread, queues, tcb, cpu, creating, At, Goto
<1>3. TypeOK'
  BY <1>2, <1>1, NullAssumption DEF TypeOK, Locks, PC, Status, RetPoint, NoReturn,
     EnterCreate, KernelThread, queues, tcb, cpu, creating, At, Goto
<1>4. Quiet(c)
  BY <1>2, <1>1 DEF Quiet, CpuInv, LocalsSet, OthersKeep, TypeOK, EnterCreate, queues,
     tcb, cpu, creating, At, Goto
<1>5. CreationLocked'
  <2>1. UNCHANGED <<lock, mmLeaked>> /\ ~InCreate(c) /\ ~InCreate(c)'
    BY <1>2, Zenon DEF EnterCreate, InCreate
  <2>2. \A d \in CPU \ {c} : (InCreate(d)' <=> InCreate(d)) /\ lk'[d] = lk[d]
    BY <1>4, Zenon DEF Quiet, OthersKeep, InCreate
  <2>3. CreationLocked
    BY Zenon DEF IInv
  <2> QED BY <2>1, <2>2, <2>3, Zenon DEF CreationLocked
<1>6. Control(c)
  BY <1>2, <1>1, Zenon DEF Control, CpuInv, LocalsSet
<1> QED BY <1>3, <1>4, <1>5, <1>6, QuietStep DEF IInv

\* The creation lock is taken.
LEMMA LockCreate_step ==
  ASSUME IInv, NEW c \in CPU, LockCreate(c)
  PROVE  IInv'
<1>1. TypeOK /\ CpuInv(c) /\ Own(c)
  BY OwnCpu
<1>2. /\ pc[c] = "spin" /\ pc'[c] = "create"
      /\ current'[c] = current[c] /\ sp'[c] = sp[c] /\ lk'[c] = lk[c]
      /\ ntask'[c] = ntask[c] /\ nxt'[c] = nxt[c] /\ first'[c] = first[c]
      /\ UNCHANGED <<flags, status, ctx, mmLeaked>>
  BY <1>1, NullAssumption DEF TypeOK, RetPoint, Locks, LockCreate, queues, tcb, cpu,
     creating, At, Goto
<1>3. TypeOK'
  BY <1>2, <1>1, NullAssumption, ZenonT(40) DEF TypeOK, Locks, PC, Status, RetPoint, NoReturn,
     LockCreate, queues, tcb, cpu, creating, At, Goto
<1>4. Quiet(c)
  BY <1>2, <1>1, NullAssumption DEF Quiet, OthersKeep, TypeOK, Own, LockCreate,
     queues, tcb, cpu, creating, At, Goto
<1>5. CreationLocked'
  <2>1. /\ UNCHANGED <<lk, mmLeaked>> /\ ~InCreate(c) /\ InCreate(c)' /\ lock[lk[c]] = NULL
        /\ lock' = [lock EXCEPT ![lk[c]] = c]
    BY <1>2, Zenon DEF LockCreate, InCreate, creating
  <2>2. DOMAIN lock = Locks /\ \A d \in CPU : lk[d] \in Locks /\ d # NULL
    BY <1>1, NullAssumption, Zenon DEF TypeOK
  <2>3. lock'[lk[c]] = c /\ \A l \in Locks \ {lk[c]} : lock'[l] = lock[l]
    BY <2>1, <2>2, Zenon
  <2>4. \A d \in CPU \ {c} : InCreate(d)' <=> InCreate(d)
    BY <1>4, Zenon DEF Quiet, OthersKeep, InCreate
  <2>5. CreationLocked
    BY Zenon DEF IInv
  <2>6. \A d \in CPU : InCreate(d)' => lock'[lk[d]] = d
    <3>1. \A d \in CPU \ {c} : InCreate(d) => lock[lk[d]] = d
      BY <2>5, Zenon DEF CreationLocked
    <3>2. \A d \in CPU \ {c} : InCreate(d) => lk[d] # lk[c]
      BY <3>1, <2>1, <2>2, Zenon
    <3> QED BY <2>2, <2>3, <2>4, <3>1, <3>2, Zenon
  <2>7. \A l \in Locks, d \in CPU : lock'[l] = d /\ lock[l] # d => d = c /\ l = lk[c]
    BY <2>3, Zenon
  <2> QED BY <2>1, <2>4, <2>5, <2>6, <2>7, ZenonT(40) DEF CreationLocked
<1>6. Control(c)
  BY <1>2, <1>1 DEF Control, CpuInv, LocalsSet
<1> QED BY <1>3, <1>4, <1>5, <1>6, QuietStep DEF IInv

\* run_thread makes a thread, with or without a stack.
LEMMA RunThreadCreate_step ==
  ASSUME IInv, NEW c \in CPU, NEW t \in Task, RunThreadCreate(c, t)
  PROVE  IInv'
<1>1. TypeOK /\ CpuInv(c) /\ Own(c)
  BY OwnCpu
<1>2. /\ pc[c] = "create" /\ pc'[c] = "place" /\ ntask'[c] = t
      /\ current'[c] = current[c] /\ sp'[c] = sp[c] /\ lk'[c] = lk[c]
      /\ nxt'[c] = nxt[c] /\ first'[c] = first[c]
      /\ flags'[t] = "kern" /\ ~mmLeaked /\ (mmLeaked' \/ ctx'[t] = "saved")
      /\ allocd' = allocd \cup {t} /\ t \notin allocd
      /\ allocd' \subseteq Task /\ flags' \in [Task -> {"kern", "user", "none"}]
      /\ status' \in [Task -> Status] /\ ctx' \in [Task -> {"none", "saved", "live"}]
      /\ \A x \in allocd : flags'[x] = flags[x] /\ status'[x] = status[x] /\ ctx'[x] = ctx[x]
  <2>1. PICK stack, rsp0 \in BOOLEAN :
          /\ AllocTask(c, t, "kern", "READY", IF stack THEN "saved" ELSE "none")
          /\ mmLeaked' = ~(stack /\ rsp0)
    BY Zenon DEF RunThreadCreate
  <2> DEFINE x == IF stack THEN "saved" ELSE "none"
  <2>2. x \in {"none", "saved", "live"} /\ (mmLeaked' \/ x = "saved") /\ "READY" \in Status
    BY <2>1, Zenon DEF Status
  <2> HIDE DEF x
  <2>3. AllocTask(c, t, "kern", "READY", x)
    BY <2>1 DEF x
  <2>4. AllocFacts(t, "kern", x)
    BY <1>1, <2>2, <2>3, AllocTaskFrame
  <2> QED BY <1>1, <2>2, <2>4 DEF AllocFacts, TypeOK, RunThreadCreate, queues, tcb, cpu, creating, At, Goto
<1>3. TypeOK'
  BY <1>2, <1>1, NullAssumption, Zenon DEF TypeOK, PC, RetPoint, NoReturn,
       RunThreadCreate, queues, tcb, cpu, creating, At, Goto
<1>4. OthersKeep(c) /\ TasksKeep(c)
  BY <1>2, <1>1, NullAssumption DEF OthersKeep, TasksKeep, Own, TypeOK,
     RunThreadCreate, queues, tcb, cpu, creating, At, Goto
<1>5. /\ allocd' = allocd \cup {t} /\ {t} \cap allocd = {}
      /\ UNCHANGED queues
  BY <1>2, Zenon DEF RunThreadCreate, queues, tcb, cpu, creating, At, Goto
<1>6. InHand(c)' \subseteq InHand(c) \cup {t}
  BY <1>2, <1>1, NullAssumption, Zenon DEF InHand, CpuInv, LocalsSet, At
<1>7. OnePlace' /\ \A d \in CPU \ {c} : CpuInv(d)'
  BY <1>4, <1>5, <1>6, NoQueueStep, ZenonT(40)
<1>8. CreationLocked'
  <2>1. (InCreate(c)' <=> InCreate(c)) /\ UNCHANGED <<lock, lk>>
    BY <1>2, Zenon DEF InCreate, RunThreadCreate, queues, tcb, cpu, creating, At, Goto
  <2> QED BY <1>4, <2>1, LocksKept, Zenon DEF TasksKeep
<1>9. LocalsSet(c)'
  BY <1>2, <1>5, <1>1, NullAssumption, Zenon DEF CpuInv, LocalsSet, At, queues, Own
<1>10. IrqOn(c)' /\ StuckWhy(c)'
  BY <1>2, <1>5, <1>1, NullAssumption, Zenon DEF CpuInv, LocalsSet, IrqOn, StuckWhy,
       FirstStays, FirstRuns, ContextSaved, HasContext, At, queues, Own
<1>11. OldIsQueued(c)' /\ FirstStays(c)'
  BY <1>2, <1>5, <1>1, NullAssumption, ZenonT(60) DEF CpuInv, OldIsQueued, FirstStays, InFlight,
     Queued, At, queues, Own
<1>12. /\ current[c] # NULL => current[c] \in allocd /\ first[c] \in allocd
       /\ Elems(readyq[c]) \subseteq allocd /\ Elems(exitq[c]) \subseteq allocd
  BY <1>1, OwnAllocated, Zenon
<1>13. nxt[c] = NULL /\ readyq'[c] = readyq[c] /\ exitq'[c] = exitq[c]
  BY <1>1, <1>2, <1>5, Zenon DEF CpuInv, LocalsSet, queues
<1>14. FirstRuns(c)'
  <2>1. FirstRuns(c)
    BY <1>1, Zenon DEF CpuInv
  <2>2. current[c] # NULL => status'[current[c]] = status[current[c]]
    BY <1>2, <1>12, Zenon
  <2>3. pc'[c] = "place" /\ current'[c] = current[c] /\ first'[c] = first[c]
    BY <1>2, Zenon
  <2> QED BY <2>1, <2>2, <2>3, Zenon DEF FirstRuns, At
<1>15. InFlight(c)' /\ ExitQueueDead(c)'
  <2>1. ExitQueueDead(c)
    BY <1>1, Zenon DEF CpuInv
  <2>2. ExitQueueDead(c)'
    <3>1. \A u \in allocd : status'[u] = status[u]
      BY <1>2, Zenon
    <3> QED BY <1>12, <1>13, <3>1, <2>1, Zenon DEF ExitQueueDead
  <2>3. nxt'[c] = NULL /\ ntask'[c] = t /\ flags'[t] = "kern"
    BY <1>2, <1>13, Zenon
  <2> QED BY <2>2, <2>3, Zenon DEF InFlight
<1>16. ContextSaved(c)'
  <2>1. ContextSaved(c)
    BY <1>1, Zenon DEF CpuInv
  <2> QED BY <1>2, <1>12, <1>13, <2>1, ZenonT(60) DEF ContextSaved, HasContext, At
<1> QED BY <1>3, <1>7, <1>8, <1>9, <1>10, <1>11, <1>14, <1>15, <1>16, Zenon DEF IInv, CpuInv

\* run_thread finds no memory.
LEMMA RunThreadNoMem_step ==
  ASSUME IInv, NEW c \in CPU, RunThreadNoMem(c)
  PROVE  IInv'
<1>1. TypeOK /\ CpuInv(c) /\ Own(c)
  BY OwnCpu
<1>2. /\ pc[c] = "create" /\ mmLeaked' /\ UNCHANGED <<flags, status, ctx>>
      /\ pc'[c] = IF current[c] = NULL THEN "stuck" ELSE "run"
      /\ current'[c] = current[c] /\ sp'[c] = sp[c] /\ lk'[c] = lk[c]
      /\ ntask'[c] = ntask[c] /\ nxt'[c] = nxt[c] /\ first'[c] = first[c]
  BY <1>1 DEF TypeOK, RunThreadNoMem, queues, tcb, cpu, creating, At, Goto
<1>3. TypeOK'
  BY <1>1 DEF TypeOK, PC, RetPoint, NoReturn, RunThreadNoMem, queues, tcb, cpu,
       creating, At, Goto
<1>4. Quiet(c)
  BY <1>2, <1>1, NullAssumption, Zenon DEF Quiet, OthersKeep, TypeOK, Own,
       RunThreadNoMem, queues, tcb, cpu, creating, At, Goto
<1>5. CreationLocked'
  BY <1>2, <1>1, NullAssumption, ZenonT(40) DEF IInv, CreationLocked, InCreate, Locks, TypeOK,
     RunThreadNoMem, queues, cpu, creating, At, Goto
<1>6. Control(c)
  BY <1>2, Zenon DEF Control
<1> QED BY <1>3, <1>4, <1>5, <1>6, QuietStep DEF IInv

\* The first thread of a CPU starts.
LEMMA RunThreadFirst_step ==
  ASSUME IInv, NEW c \in CPU, RunThreadFirst(c)
  PROVE  IInv'
<1>1. TypeOK /\ CpuInv(c) /\ Own(c)
  BY OwnCpu
<1>2. /\ pc[c] = "place" /\ lk[c] = "thread" /\ current[c] = NULL
      /\ ntask[c] \in Task /\ ntask'[c] = NULL
      /\ current'[c] = ntask[c] /\ first'[c] = ntask[c] /\ sp'[c] = ntask[c] /\ nxt'[c] = nxt[c]
      /\ status'[ntask[c]] = "RUNNING" /\ UNCHANGED <<flags, mmLeaked>>
      /\ IF ctx[ntask[c]] = "saved" THEN pc'[c] = "run" /\ irq'[c] ELSE pc'[c] = "stuck"
      /\ \A x \in Task \ {ntask[c]} : status'[x] = status[x] /\ ctx'[x] = ctx[x]
  BY <1>1, NullAssumption, ZenonT(60) DEF TypeOK, CpuInv, LocalsSet, RetPoint, Locks,
     RunThreadFirst, Unlock, queues, tcb, cpu, creating, At, Goto
<1>3. TypeOK'
  BY <1>2, <1>1, NullAssumption, ZenonT(40) DEF TypeOK, Locks, PC, Status, RetPoint,
     RunThreadFirst, Unlock, queues, tcb, cpu, creating, At, Goto
<1>4. OthersKeep(c) /\ TasksKeep(c)
  <2>1. OthersKeep(c)
    BY <1>1, ZenonT(40) DEF OthersKeep, TypeOK, RunThreadFirst, queues, creating, Goto
  <2>2. allocd \subseteq Task /\ ntask[c] \in Held(c)
    BY <1>1, <1>2, NullAssumption, Zenon DEF TypeOK, Held, InHand
  <2> QED BY <2>1, <2>2, <1>2, Zenon DEF TasksKeep
<1>5. /\ allocd' = allocd \cup {} /\ {} \cap allocd = {}
      /\ UNCHANGED queues
  BY <1>2, ZenonT(40) DEF RunThreadFirst, Unlock, queues, tcb, cpu, creating, At,
     Goto
<1>6. InHand(c)' \subseteq InHand(c) \cup {}
  BY <1>2, <1>1, NullAssumption, Zenon DEF InHand, CpuInv, LocalsSet, At
<1>7. OnePlace' /\ \A d \in CPU \ {c} : CpuInv(d)'
  BY <1>4, <1>5, <1>6, NoQueueStep, Zenon
<1>8. CreationLocked'
  <2>1. InCreate(c) /\ ~InCreate(c)' /\ Unlock(c) /\ UNCHANGED <<lk, mmLeaked>>
    BY <1>2 DEF InCreate, RunThreadFirst, Unlock, queues, tcb, cpu, creating, At,
       Goto
  <2>2. \A d \in CPU \ {c} : InCreate(d)' <=> InCreate(d)
    BY <1>4, ZenonT(40) DEF OthersKeep, InCreate
  <2> QED BY <2>1, <2>2, LocksReleased
<1>9. LocalsSet(c)'
  BY <1>2, <1>1, ZenonT(40) DEF CpuInv, LocalsSet, queues, Own
<1>10. IrqOn(c)' /\ StuckWhy(c)'
  BY <1>2, <1>5, <1>1, NullAssumption, ZenonT(60) DEF CpuInv, IrqOn, StuckWhy, FirstStays,
     FirstRuns, ContextSaved, HasContext, At, queues, Own
<1>11. OldIsQueued(c)' /\ FirstStays(c)'
  BY <1>2, <1>5, <1>1, NullAssumption, Zenon DEF CpuInv, OldIsQueued, FirstStays,
       FirstRuns, InFlight, Queued, At, queues, Own
<1>12. FirstRuns(c)'
  BY <1>2, <1>5, <1>1, Zenon DEF CpuInv, LocalsSet, FirstRuns, At, queues, Own
<1>13. InFlight(c)' /\ ExitQueueDead(c)'
  BY <1>2, <1>5, <1>1, NullAssumption, Zenon DEF CpuInv, LocalsSet, InFlight,
       ExitQueueDead, At, queues, Own
<1>14. ContextSaved(c)'
  BY <1>2, <1>5, <1>1, ZenonT(60) DEF CpuInv, LocalsSet, ContextSaved, HasContext, At, queues,
     Own
<1> QED BY <1>3, <1>7, <1>8, <1>9, <1>10, <1>11, <1>12, <1>13, <1>14, Zenon DEF IInv,
     CpuInv

\* run_process makes a process.
LEMMA RunProcessCreate_step ==
  ASSUME IInv, NEW c \in CPU, NEW t \in Task, NEW img \in Images, RunProcessCreate(c, t, img)
  PROVE  IInv'
<1>1. TypeOK /\ CpuInv(c) /\ Own(c)
  BY OwnCpu
<1>2. /\ pc[c] = "create" /\ pc'[c] = "place" /\ ntask'[c] = t /\ lk[c] = "process"
      /\ current'[c] = current[c] /\ sp'[c] = sp[c] /\ lk'[c] = lk[c]
      /\ nxt'[c] = nxt[c] /\ first'[c] = first[c]
      /\ (flags'[t] = "none" \/ ctx'[t] = "saved") /\ UNCHANGED mmLeaked
      /\ allocd' = allocd \cup {t} /\ t \notin allocd
      /\ allocd' \subseteq Task /\ flags' \in [Task -> {"kern", "user", "none"}]
      /\ status' \in [Task -> Status] /\ ctx' \in [Task -> {"none", "saved", "live"}]
      /\ \A x \in allocd : flags'[x] = flags[x] /\ status'[x] = status[x] /\ ctx'[x] = ctx[x]
  <2>1. AllocFacts(t, "user", "saved") \/ AllocFacts(t, "none", "none")
    BY <1>1, AllocTaskFrame DEF RunProcessCreate, Status
  <2> QED BY <1>1, <2>1, Zenon DEF AllocFacts, TypeOK, RunProcessCreate, tcb, cpu, At, Goto
<1>3. TypeOK'
  BY <1>2, <1>1, NullAssumption, Zenon DEF TypeOK, Locks, PC, Status, RetPoint,
       NoReturn, RunProcessCreate, queues, cpu, creating, At, Goto
<1>4. OthersKeep(c) /\ TasksKeep(c)
  BY <1>2, <1>1 DEF OthersKeep, TasksKeep, TypeOK, RunProcessCreate, queues,
       cpu, creating, At, Goto
<1>5. /\ allocd' = allocd \cup {t} /\ {t} \cap allocd = {}
      /\ UNCHANGED queues
  BY <1>2, ZenonT(40) DEF RunProcessCreate, queues, tcb, cpu, creating, At, Goto
<1>6. InHand(c)' \subseteq InHand(c) \cup {t}
  BY <1>2, Zenon DEF InHand, At
<1>7. OnePlace' /\ \A d \in CPU \ {c} : CpuInv(d)'
  BY <1>4, <1>5, <1>6, NoQueueStep, ZenonT(40)
<1>8. CreationLocked'
  <2>1. (InCreate(c)' <=> InCreate(c)) /\ UNCHANGED <<lock, lk>>
    BY <1>2, Zenon DEF InCreate, RunProcessCreate, queues, tcb, cpu, creating, At, Goto
  <2> QED BY <1>4, <2>1, LocksKept, Zenon DEF TasksKeep
<1>9. LocalsSet(c)'
  BY <1>2, <1>5, <1>1, NullAssumption, Zenon DEF CpuInv, LocalsSet, At, Own
<1>10. IrqOn(c)' /\ StuckWhy(c)' /\ OldIsQueued(c)'
  BY <1>2, Zenon DEF IrqOn, StuckWhy, OldIsQueued, At
<1>11. /\ current[c] # NULL => current[c] \in allocd /\ first[c] \in allocd
       /\ Elems(readyq[c]) \subseteq allocd /\ Elems(exitq[c]) \subseteq allocd
  BY <1>1, OwnAllocated, Zenon
<1>12. nxt[c] = NULL /\ readyq'[c] = readyq[c] /\ exitq'[c] = exitq[c]
  BY <1>1, <1>2, <1>5, Zenon DEF CpuInv, LocalsSet, queues
<1>13. FirstStays(c)' /\ FirstRuns(c)'
  <2>1. FirstStays(c) /\ FirstRuns(c)
    BY <1>1, Zenon DEF CpuInv
  <2>2. FirstStays(c)'
    BY <1>2, <1>11, <1>12, <2>1, ZenonT(60) DEF FirstStays, At
  <2>3. FirstRuns(c)'
    <3>1. current[c] # NULL => status'[current[c]] = status[current[c]]
      BY <1>2, <1>11, Zenon
    <3>2. pc'[c] = "place" /\ current'[c] = current[c] /\ first'[c] = first[c]
      BY <1>2, Zenon
    <3> QED BY <2>1, <3>1, <3>2, Zenon DEF FirstRuns, At
  <2> QED BY <2>2, <2>3
<1>14. InFlight(c)' /\ ExitQueueDead(c)'
  <2>1. ExitQueueDead(c)
    BY <1>1, Zenon DEF CpuInv
  <2>2. ExitQueueDead(c)'
    <3>1. \A u \in allocd : status'[u] = status[u]
      BY <1>2, Zenon
    <3> QED BY <1>11, <1>12, <3>1, <2>1, Zenon DEF ExitQueueDead
  <2> QED BY <1>2, <1>12, <2>2, Zenon DEF InFlight
<1>15. ContextSaved(c)'
  <2>1. ContextSaved(c)
    BY <1>1, Zenon DEF CpuInv
  <2> QED BY <1>2, <1>11, <1>12, <2>1, ZenonT(60) DEF ContextSaved, HasContext, At
<1> QED BY <1>3, <1>7, <1>8, <1>9, <1>10, <1>13, <1>14, <1>15, Zenon DEF IInv, CpuInv

\* run_process fails after the lock was taken.
LEMMA RunProcessErr_step ==
  ASSUME IInv, NEW c \in CPU, NEW t \in Task, NEW img \in Images, RunProcessErr(c, t, img)
  PROVE  IInv'
<1>1. TypeOK /\ CpuInv(c) /\ Own(c)
  BY OwnCpu
<1>2. /\ pc[c] = "create" /\ pc'[c] = "run" /\ irq'[c] /\ lk[c] = "process"
      /\ current'[c] = current[c] /\ sp'[c] = sp[c] /\ first'[c] = first[c]
      /\ ntask'[c] = ntask[c] /\ nxt'[c] = nxt[c]
      /\ UNCHANGED mmLeaked /\ allocd \subseteq allocd'
      /\ allocd' \subseteq Task /\ flags' \in [Task -> {"kern", "user", "none"}]
      /\ status' \in [Task -> Status] /\ ctx' \in [Task -> {"none", "saved", "live"}]
      /\ \A x \in allocd : flags'[x] = flags[x] /\ status'[x] = status[x] /\ ctx'[x] = ctx[x]
  <2>1. AllocFacts(t, "none", "none") \/ UNCHANGED tcb
    BY <1>1, AllocTaskFrame DEF RunProcessErr, Status
  <2> QED BY <1>1, <2>1, Zenon DEF AllocFacts, TypeOK, RunProcessErr, Unlock, queues, tcb, cpu,
             creating, At, Goto
<1>3. TypeOK'
  BY <1>2, <1>1, Zenon DEF TypeOK, Locks, PC, Status, RetPoint, RunProcessErr, Unlock,
       queues, tcb, cpu, creating, At, Goto
<1>4. Quiet(c)
  <2>1. UNCHANGED <<queues, lk>>
    BY Zenon DEF RunProcessErr, creating
  <2>2. OthersKeep(c)
    BY <1>1, ZenonT(40) DEF OthersKeep, TypeOK, RunProcessErr, queues, creating, Goto
  <2> QED BY <1>2, <2>1, <2>2, Zenon DEF Quiet
<1>5. CreationLocked'
  <2>1. InCreate(c) /\ ~InCreate(c)' /\ Unlock(c) /\ UNCHANGED <<lk, mmLeaked>>
    BY <1>2, Zenon DEF InCreate, RunProcessErr, Unlock, queues, tcb, cpu, creating, At, Goto
  <2>2. \A d \in CPU \ {c} : InCreate(d)' <=> InCreate(d)
    BY <1>4, Zenon DEF Quiet, OthersKeep, InCreate
  <2> QED BY <2>1, <2>2, LocksReleased
<1>6. Control(c)
  BY <1>2, <1>1, Zenon DEF Control, CpuInv, LocalsSet, Own
<1> QED BY <1>3, <1>4, <1>5, <1>6, QuietStep DEF IInv

\* run_process returns with its lock held.
LEMMA RunProcessReturnLocked_step ==
  ASSUME IInv, NEW c \in CPU, NEW img \in Images, RunProcessReturnLocked(c, img)
  PROVE  IInv'
<1>1. TypeOK /\ CpuInv(c) /\ Own(c)
  BY OwnCpu
<1>2. /\ pc[c] = "create" /\ pc'[c] = "run" /\ irq'[c] /\ lk[c] = "process"
      /\ UNCHANGED <<flags, status, ctx>> /\ (mmLeaked => mmLeaked')
      /\ mmLeaked' \/ "nostat" \in Images
      /\ current'[c] = current[c] /\ sp'[c] = sp[c] /\ lk'[c] = lk[c]
      /\ ntask'[c] = ntask[c] /\ nxt'[c] = nxt[c] /\ first'[c] = first[c]
  BY <1>1, NullAssumption, Zenon DEF TypeOK, RetPoint, Locks, RunProcessReturnLocked,
     queues, tcb, cpu, creating, At, Goto
<1>3. TypeOK'
  BY <1>2, <1>1, NullAssumption, ZenonT(60) DEF TypeOK, Locks, PC, Status, RetPoint, NoReturn,
     RunProcessReturnLocked, queues, tcb, cpu, creating, At, Goto
<1>4. Quiet(c)
  BY <1>2, <1>1, NullAssumption, ZenonT(40) DEF Quiet, OthersKeep, TypeOK, Own,
     RunProcessReturnLocked, queues, tcb, cpu, creating, At, Goto
<1>5. CreationLocked'
  BY <1>2 DEF IInv, CreationLocked, InCreate, TypeOK, RunProcessReturnLocked, tcb,
       cpu, creating, At, Goto
<1>6. Control(c)
  BY <1>2, <1>1, Zenon DEF Control, CpuInv, LocalsSet
<1> QED BY <1>3, <1>4, <1>5, <1>6, QuietStep DEF IInv

\* run_process runs into the leaked heap lock.
LEMMA RunProcessNoMem_step ==
  ASSUME IInv, NEW c \in CPU, RunProcessNoMem(c)
  PROVE  IInv'
<1>1. TypeOK /\ CpuInv(c) /\ Own(c)
  BY OwnCpu
<1>2. /\ pc[c] = "create" /\ pc'[c] = "stuck" /\ mmLeaked'
      /\ UNCHANGED <<flags, status, ctx>>
      /\ current'[c] = current[c] /\ sp'[c] = sp[c] /\ lk'[c] = lk[c]
      /\ ntask'[c] = ntask[c] /\ nxt'[c] = nxt[c] /\ first'[c] = first[c]
  BY <1>1, NullAssumption DEF TypeOK, RetPoint, Locks, RunProcessNoMem, queues, tcb,
     cpu, creating, At, Goto
<1>3. TypeOK'
  BY <1>1, Zenon DEF TypeOK, PC, Status, RetPoint, NoReturn, RunProcessNoMem, queues, tcb, cpu,
     creating, Goto
<1>4. Quiet(c)
  BY <1>2, <1>1, NullAssumption, Zenon DEF Quiet, OthersKeep, TypeOK, Own,
       RunProcessNoMem, queues, tcb, cpu, creating, At, Goto
<1>5. CreationLocked'
  BY <1>2, <1>4, ZenonT(40) DEF IInv, CreationLocked, InCreate, Quiet, OthersKeep,
     RunProcessNoMem, creating
<1>6. Control(c)
  BY <1>2, Zenon DEF Control
<1> QED BY <1>3, <1>4, <1>5, <1>6, QuietStep DEF IInv

================================================================================
