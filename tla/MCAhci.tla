--------------------------------- MODULE MCAhci ---------------------------------
EXTENDS Ahci

At(a, b, c) == [p \in 0 .. 2 |-> IF p = 0 THEN a ELSE IF p = 1 THEN b ELSE c]
MCRanges == {<<1, 2>>}
MCPlugs == {At("absent", "disk", "cdrom"), At("disk", "absent", "disk"), At("other", "nolink", "dead")}
================================================================================
