--------------------------------- MODULE SmpStart -------------------------------
(***************************************************************************)
(* Start-up of the application processors: smp_init and ap_startup on the  *)
(* boot processor, the trampoline and ap_start on the others.              *)
(*                                                                         *)
(* Until the first interprocessor interrupt only the boot processor runs,  *)
(* so what it prepares is one step; from then on every processor it starts *)
(* runs at its own pace.  One of the two SIPIs to a processor may be lost. *)
(***************************************************************************)
EXTENDS Integers, Sequences, Functions

CONSTANTS
  Madts,      \* tables the firmware may give: sequences of MadtEntry
  LoseSipi    \* whether a processor may miss a SIPI

MadtEntry == [type : {0, 1}, enabled : BOOLEAN, processor_id : Nat, apic_id : Nat]

\* A table lists at least one processor that may be used.
ASSUME MadtAssumption ==
  /\ \A m \in Madts : m \in Seq(MadtEntry) /\ \E i \in DOMAIN m : m[i].type = 0 /\ m[i].enabled
  /\ LoseSipi \in BOOLEAN

VARIABLES
  madt, bsp_id,   \* the table and the processor that boots
  ap_ids,         \* sequence; ap_count is its length
  stacks,         \* ap_stack_array: slot -> stack, named by the index it is for
  boot,           \* where smp_init is
  cont,           \* its loop index, from 0
  cpu, sp,        \* of each processor: where it is, its stack
  missed          \* processors that missed a SIPI

smpVars == <<madt, bsp_id, ap_ids, stacks, boot, cont, cpu, sp, missed>>

Apics(m) == {m[i].apic_id : i \in {j \in DOMAIN m : m[j].type = 0 /\ m[j].enabled}}
Apic == Apics(madt)

\* What an unwritten slot holds.
Junk == -1

\* acpi_madt_smp_counter: the processor ids of the enabled entries, in order.
acpi_madt_smp_counter(m) ==
  LET used == SelectSeq(m, LAMBDA e : e.type = 0 /\ e.enabled)
  IN  [i \in DOMAIN used |-> used[i].processor_id]

\* A table in whose list every processor finds the slot of its APIC id, and a
\* stack there: not behind the end, and not at the place of the processor that
\* boots, whichever that is.
Slotted(m) ==
  \A a, b \in Apics(m) : a # b =>
    /\ a \in 0 .. Len(acpi_madt_smp_counter(m)) - 1
    /\ acpi_madt_smp_counter(m)[a + 1] # b

SmpInit ==
  /\ madt \in Madts /\ bsp_id \in Apics(madt)
  /\ ap_ids = <<>> /\ stacks = <<>> /\ boot = "count" /\ cont = 0
  /\ cpu = [a \in Apic |-> IF a = bsp_id THEN "boot" ELSE "reset"]
  /\ sp = [a \in Apic |-> Junk] /\ missed = {}

--------------------------------------------------------------------------------
(***************************************************************************)
(* The boot processor.                                                     *)
(***************************************************************************)
\* Mutant: one stack for all.
StackFor_first(i) == 0

\* kzalloc for the i-th entry of ap_ids.
StackFor(i) == i

Prepare ==
  LET ids == acpi_madt_smp_counter(madt) IN
  /\ boot = "count"
  /\ ap_ids' = ids
  /\ stacks' = [i \in {j \in 0 .. Len(ids) - 1 : ids[j + 1] # bsp_id} |-> StackFor(i)]
  /\ boot' = "next"
  /\ UNCHANGED <<madt, bsp_id, cont, cpu, sp, missed>>

Target == ap_ids[cont + 1]

Skip ==
  /\ boot = "next" /\ cont < Len(ap_ids) /\ Target = bsp_id
  /\ cont' = cont + 1
  /\ UNCHANGED <<madt, bsp_id, ap_ids, stacks, boot, cpu, sp, missed>>

\* lapic_send_init: the processor of that APIC id, if there is one, waits for a
\* SIPI.
SendInit ==
  /\ boot = "next" /\ cont < Len(ap_ids) /\ Target # bsp_id
  /\ cpu' = [a \in Apic |-> IF a = Target THEN "wait" ELSE cpu[a]]
  /\ boot' = "sipi1"
  /\ UNCHANGED <<madt, bsp_id, ap_ids, stacks, cont, sp, missed>>

\* A processor that does not wait ignores a SIPI.
Woken(a) == cpu[a] = "wait"

\* Mutant: one SIPI only.
After_one(stage) == boot' = "next" /\ cont' = cont + 1

\* The second SIPI ends ap_startup.
After(stage) ==
  IF stage = "sipi1" THEN boot' = "sipi2" /\ UNCHANGED cont
                     ELSE boot' = "next" /\ cont' = cont + 1

SendSipi ==
  /\ boot \in {"sipi1", "sipi2"}
  /\ cpu' = [a \in Apic |-> IF a = Target /\ Woken(a) THEN "trampoline" ELSE cpu[a]]
  /\ After(boot)
  /\ UNCHANGED <<madt, bsp_id, ap_ids, stacks, sp, missed>>

\* The target misses it.
SipiLost ==
  /\ LoseSipi /\ boot \in {"sipi1", "sipi2"} /\ Target \notin missed
  /\ missed' = missed \cup {Target}
  /\ After(boot)
  /\ UNCHANGED <<madt, bsp_id, ap_ids, stacks, cpu, sp>>

Finish ==
  /\ boot = "next" /\ cont = Len(ap_ids)
  /\ boot' = "done"
  /\ UNCHANGED <<madt, bsp_id, ap_ids, stacks, cont, cpu, sp, missed>>

--------------------------------------------------------------------------------
(***************************************************************************)
(* The other processors.                                                   *)
(***************************************************************************)
\* ap_long: the slot of the processor's own APIC id becomes its stack.
LoadStack(a) ==
  /\ cpu[a] = "trampoline"
  /\ sp' = [sp EXCEPT ![a] = IF a \in DOMAIN stacks THEN stacks[a] ELSE Junk]
  /\ cpu' = [cpu EXCEPT ![a] = "ap_start"]
  /\ UNCHANGED <<madt, bsp_id, ap_ids, stacks, boot, cont, missed>>

\* ap_start: tables, interrupts and local APIC, then the idle thread.
ap_start(a) ==
  /\ cpu[a] = "ap_start"
  /\ cpu' = [cpu EXCEPT ![a] = "idle"]
  /\ UNCHANGED <<madt, bsp_id, ap_ids, stacks, boot, cont, sp, missed>>

smp_init == Prepare \/ Skip \/ SendInit \/ SendSipi \/ SipiLost \/ Finish

SmpNext == smp_init \/ \E a \in Apic : LoadStack(a) \/ ap_start(a)

\* No processor stops on its way; a SIPI is not always lost because of missed.
SmpSpec ==
  /\ SmpInit /\ [][SmpNext]_smpVars /\ WF_smpVars(smp_init)
  /\ \A a \in UNION {Apics(m) : m \in Madts} :
       WF_smpVars(a \in Apic /\ (LoadStack(a) \/ ap_start(a)))

--------------------------------------------------------------------------------
(***************************************************************************)
(* Properties.                                                             *)
(***************************************************************************)

\* "Allocate stack space for each AP" (src/smp.c:77): every processor that has
\* left the trampoline has a stack that was allocated, and shares it with no
\* other, whatever the order in which they get there.
OwnStack ==
  LET up == {a \in Apic : cpu[a] \in {"ap_start", "idle"}} IN
  /\ \A a \in up : sp[a] # Junk
  /\ \A a, b \in up : a # b => sp[a] # sp[b]

\* "The second SIPI is redundant, to be sure it is received" (src/smp.c:39):
\* every enabled processor comes up and is not reset again, although each may
\* miss one of the two.
AllUp == <>[](boot = "done" /\ \A a \in Apic \ {bsp_id} : cpu[a] = "idle")

================================================================================
