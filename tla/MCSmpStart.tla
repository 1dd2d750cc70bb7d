------------------------------- MODULE MCSmpStart -------------------------------
EXTENDS SmpStart

Lapic(id) == [type |-> 0, enabled |-> TRUE, processor_id |-> id, apic_id |-> id]
Disabled(id) == [Lapic(id) EXCEPT !.enabled = FALSE]
IoApic == [type |-> 1, enabled |-> TRUE, processor_id |-> 0, apic_id |-> 0]

\* Ids count the enabled processors in the order of the table.
DenseMadts ==
  {<<Lapic(0)>>, <<Lapic(0), Disabled(7), Lapic(1), IoApic>>,
   <<IoApic, Lapic(0), Lapic(1), Lapic(2), Lapic(3), Disabled(9)>>}

ASSUME DenseSlotted == \A m \in DenseMadts : Slotted(m)

================================================================================
