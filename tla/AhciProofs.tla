-------------------------------- MODULE AhciProofs ------------------------------
(***************************************************************************)
(* A transfer of src/ahci_block.c that no other CPU gets in the way of     *)
(* moves what was asked for, for any number of CPUs, ports and sectors.    *)
(***************************************************************************)
EXTENDS Ahci, FiniteSetTheorems, TLAPS

FisRec == [write : BOOLEAN, lba : Nat, count : Nat]
PortRec == [PxCI : BOOLEAN, PxIS : BOOLEAN, BSY : BOOLEAN, stopped : BOOLEAN,
            cmd : Seq([header : BOOLEAN, fis : Seq(FisRec)])]
Request == [write : BOOLEAN, port : Ports \cup {None}, lba : Nat, count : Nat,
            via : {"none", "fatfs", "blkdev"}]
Sector == 0 .. Sectors - 1

TypeOK ==
  /\ scan \in Nat /\ sata_dev \in Ports \cup {None} /\ drive \in Ports \cup {None}
  /\ reg \in [Ports -> PortRec]
  /\ table \in [write : BOOLEAN, fis : Seq(FisRec), prdt : Seq([cpu : CPUs, len : Nat])]
  /\ disk = [p \in Ports |-> [s \in Sector |-> disk[p][s]]]
  /\ buf = [c \in CPUs |-> [s \in Sector |-> buf[c][s]]]
  /\ pc \in [CPUs -> {"idle", "header", "fis", "prdt", "wait", "issue", "poll", "done"}]
  /\ req \in [CPUs -> Request] /\ ret \in [CPUs -> {0, -1}] /\ own \in [CPUs -> BOOLEAN]

\* No call before the ports are scanned.
Before == ~Ready => (\A c \in CPUs : pc[c] = "idle") /\ (\A p \in Ports : reg[p] = IdlePort)

\* A port works on a command only while the CPU that issued it polls, and one
\* that has failed works on none.
PortInv(p) ==
  /\ reg[p].BSY => reg[p].PxCI /\ ~reg[p].stopped
  /\ reg[p].PxIS => reg[p].stopped
  /\ reg[p].PxCI => reg[p].stopped \/ \E c \in CPUs : pc[c] = "poll" /\ req[c].port = p

Valid(c) ==
  pc[c] # "idle" => req[c].port \in Ports /\ <<req[c].lba, req[c].count>> \in Ranges

\* What the call asked for is done.
Moved(c) ==
  LET r == req[c]
  IN  \A s \in 0 .. r.count - 1 :
        IF r.write THEN disk[r.port][r.lba + s] = c ELSE buf[c][s] = disk[r.port][r.lba + s]

FisOf(c) == [write |-> req[c].write, lba |-> req[c].lba, count |-> req[c].count % COUNT]
PrdtOf(c) == [cpu |-> c, len |-> Descriptor(req[c].count % COUNT)]

\* What a CPU that has the table to itself knows at each place of its call.
Mine(c) ==
  /\ \A d \in CPUs \ {c} : ~Using(d)
  /\ req[c].write => \A s \in Sector : buf[c][s] = c
  /\ pc[c] \in {"fis", "prdt", "wait", "issue", "poll"} => table.write = req[c].write
  /\ pc[c] \in {"prdt", "wait", "issue", "poll"} => table.fis = <<FisOf(c)>>
  /\ pc[c] \in {"wait", "issue", "poll"} => table.prdt = <<PrdtOf(c)>>
  /\ pc[c] = "poll" /\ reg[req[c].port].BSY =>
       reg[req[c].port].cmd = <<[header |-> req[c].write, fis |-> <<FisOf(c)>>]>>
  /\ pc[c] = "poll" /\ ~reg[req[c].port].PxCI => Moved(c)
  /\ pc[c] = "done" /\ ret[c] = 0 => Moved(c)
  /\ pc[c] = "done" /\ ret[c] # 0 => reg[req[c].port].stopped

AhciInv ==
  /\ TypeOK /\ Before
  /\ \A p \in Ports : PortInv(p)
  /\ \A c \in CPUs : Valid(c)
  /\ \A c \in CPUs : own[c] /\ pc[c] # "idle" => Mine(c)

--------------------------------------------------------------------------------
(***************************************************************************)
(* Lemmas.                                                                 *)
(***************************************************************************)
\* The FIS and the descriptor of a request of n sectors both say n, although the
\* first has 16 bits and the second counts bytes less one in 22.
LEMMA Amount ==
  ASSUME NEW n \in Nat \ {0}, n <= PRD
  PROVE  LET k == n % COUNT
             m == IF k = 0 THEN COUNT ELSE k
         IN  (IF m < Descriptor(k) THEN m ELSE Descriptor(k)) = n
<1>1. PRD \in Nat \ {0} /\ COUNT \in Nat \ {0} /\ PRD <= COUNT
  BY AhciAssumption
<1>2. CASE n < COUNT
  <2>1. n % COUNT = n
    BY <1>1, <1>2
  <2>2. (n - 1) % PRD = n - 1
    BY <1>1
  <2> QED BY <1>1, <2>1, <2>2 DEF Descriptor
<1>3. CASE n = COUNT
  <2>1. n % COUNT = 0
    BY <1>1, <1>3
  <2> QED BY <1>1, <1>3, <2>1 DEF Descriptor
<1> QED BY <1>1, <1>2, <1>3

\* While a CPU uses the table no other one has it to itself.
LEMMA OnlyUser ==
  ASSUME AhciInv, NEW c \in CPUs, NEW d \in CPUs, c # d, Using(c), own[d]
  PROVE  pc[d] = "idle"
BY Zenon DEF AhciInv, Mine

\* A port that works on a command does so for a CPU that polls.
LEMMA Served ==
  ASSUME AhciInv, NEW p \in Ports, reg[p].BSY \/ (reg[p].PxCI /\ ~reg[p].stopped)
  PROVE  \E c \in CPUs : pc[c] = "poll" /\ req[c].port = p
BY DEF AhciInv, PortInv

\* If a CPU has the table to itself, that CPU is the one a port works for.
LEMMA ServedAlone ==
  ASSUME AhciInv, NEW p \in Ports, reg[p].BSY \/ (reg[p].PxCI /\ ~reg[p].stopped),
         NEW d \in CPUs, own[d], pc[d] # "idle"
  PROVE  pc[d] = "poll" /\ req[d].port = p
<1>1. PICK c \in CPUs : pc[c] = "poll" /\ req[c].port = p
  BY Served
<1>2. Using(c)
  BY <1>1 DEF Using
<1> QED BY <1>1, <1>2, OnlyUser

--------------------------------------------------------------------------------
(***************************************************************************)
(* Initialisation.                                                         *)
(***************************************************************************)
\* At first nobody calls and the ports are idle.
LEMMA Init_step == Init => AhciInv
<1> SUFFICES ASSUME Init PROVE AhciInv
  OBVIOUS
<1>1. IdlePort \in PortRec
  BY DEF IdlePort, PortRec
<1>2. EmptyTable \in [write : BOOLEAN, fis : Seq(FisRec), prdt : Seq([cpu : CPUs, len : Nat])]
  BY DEF EmptyTable
<1>3. NoRequest \in Request
  BY DEF NoRequest, Request
<1>4. TypeOK
  <2>1. disk = [p \in Ports |-> [s \in Sector |-> disk[p][s]]]
    BY DEF Init, Sector
  <2>2. buf = [c \in CPUs |-> [s \in Sector |-> buf[c][s]]]
    BY DEF Init, Sector
  <2> QED BY <1>1, <1>2, <1>3, <2>1, <2>2 DEF Init, TypeOK
<1>5. \A p \in Ports : reg[p] = IdlePort
  BY DEF Init
<1>6. \A p \in Ports : PortInv(p)
  BY <1>5 DEF PortInv, IdlePort
<1>7. \A c \in CPUs : pc[c] = "idle"
  BY DEF Init
<1> QED BY <1>4, <1>5, <1>6, <1>7 DEF AhciInv, Before, Valid

\* The scan of a port leaves the port idle.
LEMMA ahci_init_step ==
  ASSUME AhciInv, NEW p \in Ports, ahci_init(p)
  PROVE  AhciInv'
<1>1. ~Ready /\ UNCHANGED <<drive, disk, buf, pc, req, ret, own>>
  BY AhciAssumption DEF ahci_init, Ready, AhciInv, TypeOK, Ports
<1>2. (\A c \in CPUs : pc[c] = "idle") /\ (\A q \in Ports : reg[q] = IdlePort)
  BY <1>1 DEF AhciInv, Before
<1>3. IdlePort \in PortRec
  BY DEF IdlePort, PortRec
<1>4. EmptyTable \in [write : BOOLEAN, fis : Seq(FisRec), prdt : Seq([cpu : CPUs, len : Nat])]
  BY DEF EmptyTable
<1>5. reg' \in [Ports -> PortRec] /\ \A q \in Ports : reg'[q] = IdlePort
  BY <1>2, <1>3 DEF ahci_init, AhciInv, TypeOK
<1>6. scan' \in Nat /\ sata_dev' \in Ports \cup {None}
  BY DEF ahci_init, NextPort, AhciInv, TypeOK, Ports
<1>7. table' \in [write : BOOLEAN, fis : Seq(FisRec), prdt : Seq([cpu : CPUs, len : Nat])]
  BY <1>4 DEF ahci_init, AhciInv, TypeOK
<1>8. TypeOK'
  BY <1>1, <1>5, <1>6, <1>7 DEF AhciInv, TypeOK
<1>9. \A q \in Ports : PortInv(q)'
  BY <1>5 DEF PortInv, IdlePort
<1> QED BY <1>1, <1>2, <1>5, <1>8, <1>9 DEF AhciInv, Before, Valid

\* FatFs takes the last disk that was found.
LEMMA disk_initialize_step ==
  ASSUME AhciInv, disk_initialize
  PROVE  AhciInv'
<1>1. /\ Ready /\ Ready' /\ drive' = sata_dev
      /\ UNCHANGED <<scan, sata_dev, reg, table, disk, buf, pc, req, ret, own>>
  BY DEF disk_initialize, Ready
<1>2. TypeOK'
  BY <1>1 DEF AhciInv, TypeOK
<1>3. \A c \in CPUs : Mine(c)' <=> Mine(c)
  BY <1>1 DEF Mine, Moved, Using, FisOf, PrdtOf
<1> QED BY <1>1, <1>2, <1>3 DEF AhciInv, Before, PortInv, Valid

--------------------------------------------------------------------------------
(***************************************************************************)
(* ahci_dma_transfer.                                                      *)
(***************************************************************************)
\* The steps of a CPU that leave the ports alone keep what is known of them.
LEMMA PortsKept ==
  ASSUME AhciInv, reg' = reg, NEW c \in CPUs, pc[c] # "poll", req' = req,
         \A d \in CPUs \ {c} : pc'[d] = pc[d]
  PROVE  \A p \in Ports : PortInv(p)'
BY DEF AhciInv, PortInv

\* A request that is accepted: it clears PxIS and fills the buffer.
LEMMA Call_step ==
  ASSUME AhciInv, NEW c \in CPUs, NEW r \in Request, r.port \in Ports,
         <<r.lba, r.count>> \in Ranges, Call(c, r)
  PROVE  AhciInv'
<1>1. /\ Ready /\ Ready' /\ pc[c] = "idle" /\ pc' = [pc EXCEPT ![c] = "header"]
      /\ req' = [req EXCEPT ![c] = r] /\ UNCHANGED <<scan, sata_dev, drive, table, disk, ret>>
      /\ own' = [own EXCEPT ![c] = \A d \in CPUs \ {c} : ~Using(d)]
      /\ reg' = [reg EXCEPT ![r.port].PxIS = FALSE]
  BY DEF Call, Ready, init
<1>2. /\ reg' \in [Ports -> PortRec]
      /\ \A p \in Ports : /\ reg'[p].PxCI = reg[p].PxCI /\ reg'[p].BSY = reg[p].BSY
                          /\ reg'[p].stopped = reg[p].stopped /\ reg'[p].cmd = reg[p].cmd
                          /\ reg'[p].PxIS => reg[p].PxIS
  <2> DEFINE x == [reg[r.port] EXCEPT !.PxIS = FALSE]
  <2>1. /\ x \in PortRec /\ x.PxCI = reg[r.port].PxCI /\ x.BSY = reg[r.port].BSY
        /\ x.stopped = reg[r.port].stopped /\ x.cmd = reg[r.port].cmd /\ x.PxIS = FALSE
    <3>1. reg[r.port] \in PortRec
      BY DEF AhciInv, TypeOK
    <3> QED BY <3>1, Zenon DEF PortRec
  <2>2. reg' = [reg EXCEPT ![r.port] = x]
    BY <1>1
  <2> HIDE DEF x
  <2> QED BY <2>1, <2>2 DEF AhciInv, TypeOK
<1>3. /\ buf' = [d \in CPUs |-> [s \in Sector |-> buf'[d][s]]]
      /\ \A d \in CPUs \ {c} : buf'[d] = buf[d]
      /\ r.write => \A s \in Sector : buf'[c][s] = c
  <2>1. buf' = [buf EXCEPT ![c] = [s \in Sector |-> IF r.write THEN c ELSE 0]]
    BY DEF Call, Sector
  <2> QED BY <2>1, Zenon DEF AhciInv, TypeOK
<1>4. TypeOK'
  <2>1. own' \in [CPUs -> BOOLEAN]
    BY <1>1 DEF AhciInv, TypeOK
  <2>2. pc' \in [CPUs -> {"idle", "header", "fis", "prdt", "wait", "issue", "poll", "done"}]
        /\ req' \in [CPUs -> Request]
    BY <1>1 DEF AhciInv, TypeOK
  <2> QED BY <1>1, <1>2, <1>3, <2>1, <2>2 DEF AhciInv, TypeOK
<1>5. ASSUME NEW p \in Ports PROVE PortInv(p)'
  <2>1. \A d \in CPUs : pc[d] = "poll" /\ req[d].port = p => pc'[d] = "poll" /\ req'[d].port = p
    BY <1>1 DEF AhciInv, TypeOK
  <2>2. PortInv(p)
    BY Zenon DEF AhciInv
  <2> QED BY <1>2, <2>1, <2>2, Zenon DEF PortInv
<1>6. \A d \in CPUs : Valid(d)'
  BY <1>1, Zenon DEF AhciInv, TypeOK, Valid
<1>7. ASSUME NEW d \in CPUs, own'[d], pc'[d] # "idle" PROVE Mine(d)'
  <2>1. CASE d = c
    <3>1. pc'[c] = "header" /\ req'[c] = r /\ \A e \in CPUs \ {c} : ~Using(e)'
      BY <1>1, <1>7, <2>1 DEF AhciInv, TypeOK, Using
    <3> QED BY <1>3, <2>1, <3>1 DEF Mine
  <2>2. CASE d # c
    <3>1. /\ own[d] /\ pc'[d] = pc[d] /\ req'[d] = req[d] /\ Mine(d) /\ req[d].port \in Ports
          /\ \A e \in CPUs \ {d} : ~Using(e)'
      <4>1. own[d] /\ pc'[d] = pc[d] /\ req'[d] = req[d]
        BY <1>1, <1>7, <2>2 DEF AhciInv, TypeOK
      <4>2. Mine(d) /\ req[d].port \in Ports
        BY <1>7, <4>1, Zenon DEF AhciInv, Valid
      <4>3. pc'[c] = "header" /\ \A e \in CPUs \ {c} : pc'[e] = pc[e]
        BY <1>1 DEF AhciInv, TypeOK
      <4> QED BY <4>1, <4>2, <4>3, Zenon DEF Mine, Using
    <3>2. Moved(d)' <=> Moved(d)
      <4>1. disk' = disk /\ buf'[d] = buf[d] /\ req'[d] = req[d]
        BY <1>1, <1>3, <2>2, <3>1, Zenon
      <4> QED BY <4>1, Zenon DEF Moved
    <3>3. FisOf(d)' = FisOf(d) /\ PrdtOf(d)' = PrdtOf(d) /\ ret'[d] = ret[d] /\ table' = table
          /\ buf'[d] = buf[d]
      BY <1>1, <1>3, <2>2, <3>1, Zenon DEF FisOf, PrdtOf
    <3> QED BY <1>2, <3>1, <3>2, <3>3, ZenonT(40) DEF Mine
  <2> QED BY <2>1, <2>2
<1> QED BY <1>1, <1>4, <1>5, <1>6, <1>7 DEF AhciInv, Before

\* The steps of a CPU inside its call: what the others know is not touched, since
\* none of them has the table to itself.
LEMMA InCall ==
  ASSUME AhciInv, NEW c \in CPUs, pc[c] # "idle", UNCHANGED <<scan, drive, sata_dev, disk, buf>>,
         NEW to \in {"fis", "prdt", "wait", "issue", "poll", "done", "idle"},
         pc' = [pc EXCEPT ![c] = to], reg' \in [Ports -> PortRec],
         table' \in [write : BOOLEAN, fis : Seq(FisRec), prdt : Seq([cpu : CPUs, len : Nat])],
         req' \in [CPUs -> Request], ret' \in [CPUs -> {0, -1}], own' \in [CPUs -> BOOLEAN],
         \A d \in CPUs \ {c} : req'[d] = req[d] /\ (own'[d] => own[d]),
         Using(c) \/ (\A d \in CPUs \ {c} : own'[d] => pc[d] = "idle"),
         to # "idle" => req'[c] = req[c],
         \A p \in Ports : PortInv(p)',
         own'[c] /\ to # "idle" => Mine(c)'
  PROVE  AhciInv'
<1>1. Ready /\ Ready'
  BY Zenon DEF AhciInv, Before, Ready
<1>2. TypeOK'
  BY ZenonT(40) DEF AhciInv, TypeOK
<1>3. pc'[c] = to /\ \A d \in CPUs \ {c} : pc'[d] = pc[d]
  BY DEF AhciInv, TypeOK
<1>4. \A d \in CPUs : Valid(d)'
  BY <1>3, Zenon DEF AhciInv, Valid
<1>5. \A d \in CPUs \ {c} : own'[d] => pc'[d] = "idle"
  BY <1>3, OnlyUser, ZenonT(40)
<1>6. \A d \in CPUs : own'[d] /\ pc'[d] # "idle" => Mine(d)'
  BY <1>3, <1>5
<1> QED BY <1>1, <1>2, <1>4, <1>6, Zenon DEF AhciInv, Before

\* The header is written; who else is in a call has lost the table.
LEMMA Header_step ==
  ASSUME AhciInv, NEW c \in CPUs, Header(c)
  PROVE  AhciInv'
<1>1. /\ pc[c] = "header" /\ pc' = [pc EXCEPT ![c] = "fis"] /\ pc'[c] = "fis"
      /\ UNCHANGED <<scan, drive, sata_dev, reg, disk, buf, req, ret>>
      /\ \A d \in CPUs \ {c} : pc'[d] = pc[d]
  BY DEF AhciInv, TypeOK, Header, Step, init
<1>2. /\ table' = [table EXCEPT !.write = req[c].write] /\ own' \in [CPUs -> BOOLEAN]
      /\ own'[c] = own[c] /\ \A d \in CPUs \ {c} : own'[d] => own[d] /\ pc[d] = "idle"
  BY Zenon DEF AhciInv, TypeOK, Header
<1>3. /\ table' \in [write : BOOLEAN, fis : Seq(FisRec), prdt : Seq([cpu : CPUs, len : Nat])]
      /\ table'.write = req[c].write
  BY <1>2, Zenon DEF AhciInv, TypeOK, Request
<1>4. \A p \in Ports : PortInv(p)'
  BY <1>1, PortsKept
<1>5. own'[c] => Mine(c)'
  <2>1. SUFFICES ASSUME own[c] PROVE Mine(c)'
    BY <1>2, Zenon
  <2>2. Mine(c)
    BY <1>1, <2>1, Zenon DEF AhciInv
  <2>3. \A d \in CPUs \ {c} : ~Using(d)'
    BY <1>1, <2>2, Zenon DEF Mine, Using
  <2> QED BY <1>1, <1>3, <2>2, <2>3, Zenon DEF Mine
<1>6. /\ reg' \in [Ports -> PortRec] /\ req' \in [CPUs -> Request] /\ ret' \in [CPUs -> {0, -1}]
  BY <1>1 DEF AhciInv, TypeOK
<1> QED BY <1>1, <1>2, <1>3, <1>4, <1>5, <1>6, InCall, Zenon

\* The FIS is written, with 16 bits of the count.
LEMMA Fis_step ==
  ASSUME AhciInv, NEW c \in CPUs, Fis(c)
  PROVE  AhciInv'
<1>1. /\ pc[c] = "fis" /\ pc' = [pc EXCEPT ![c] = "prdt"] /\ pc'[c] = "prdt"
      /\ UNCHANGED <<scan, drive, sata_dev, reg, disk, buf, req, ret, own>>
      /\ \A d \in CPUs \ {c} : pc'[d] = pc[d]
  BY DEF AhciInv, TypeOK, Fis, Step, init
<1>2. table' = [table EXCEPT !.fis = <<FisOf(c)>>]
  BY DEF Fis, FisOf
<1>3. FisOf(c) \in FisRec
  <2>1. req[c].count % COUNT \in Nat
    <3>1. req[c].count \in Nat
      BY Zenon DEF AhciInv, TypeOK, Request
    <3>2. COUNT \in Nat \ {0}
      BY AhciAssumption
    <3> HIDE DEF AhciInv
    <3> QED BY <3>1, <3>2
  <2> QED BY <2>1 DEF AhciInv, TypeOK, Request, FisOf, FisRec
<1>4. /\ table' \in [write : BOOLEAN, fis : Seq(FisRec), prdt : Seq([cpu : CPUs, len : Nat])]
      /\ table'.write = table.write /\ table'.fis = <<FisOf(c)>>
  <2> DEFINE x == <<FisOf(c)>>
  <2>1. x \in Seq(FisRec)
    BY <1>3
  <2>2. table' = [table EXCEPT !.fis = x]
    BY <1>2
  <2> HIDE DEF x
  <2>3. /\ table' \in [write : BOOLEAN, fis : Seq(FisRec), prdt : Seq([cpu : CPUs, len : Nat])]
        /\ table'.write = table.write /\ table'.fis = x
    BY <2>1, <2>2, Zenon DEF AhciInv, TypeOK
  <2> QED BY <2>3 DEF x
<1>5. \A p \in Ports : PortInv(p)'
  BY <1>1, PortsKept
<1>6. FisOf(c)' = FisOf(c)
  BY <1>1 DEF FisOf
<1>7. own'[c] => Mine(c)'
  <2>1. SUFFICES ASSUME own[c] PROVE Mine(c)'
    BY <1>1, Zenon
  <2>2. Mine(c)
    BY <1>1, <2>1, Zenon DEF AhciInv
  <2>3. \A d \in CPUs \ {c} : ~Using(d)'
    BY <1>1, <2>2, Zenon DEF Mine, Using
  <2> QED BY <1>1, <1>4, <1>6, <2>2, <2>3, Zenon DEF Mine
<1>8. /\ reg' \in [Ports -> PortRec] /\ req' \in [CPUs -> Request] /\ ret' \in [CPUs -> {0, -1}]
      /\ own' \in [CPUs -> BOOLEAN] /\ Using(c)
  BY <1>1 DEF AhciInv, TypeOK, Using
<1> QED BY <1>1, <1>4, <1>5, <1>7, <1>8, InCall, Zenon

\* The descriptor is written.
LEMMA Prdt_step ==
  ASSUME AhciInv, NEW c \in CPUs, Prdt(c)
  PROVE  AhciInv'
<1>1. /\ pc[c] = "prdt" /\ pc' = [pc EXCEPT ![c] = "wait"] /\ pc'[c] = "wait"
      /\ UNCHANGED <<scan, drive, sata_dev, reg, disk, buf, req, ret, own>>
      /\ \A d \in CPUs \ {c} : pc'[d] = pc[d]
  BY DEF AhciInv, TypeOK, Prdt, Step, init
<1>2. table' = [table EXCEPT !.prdt = <<PrdtOf(c)>>]
  BY DEF Prdt, PrdtOf
<1>3. PrdtOf(c) \in [cpu : CPUs, len : Nat]
  <2>1. req[c].count % COUNT \in Nat
    <3>1. req[c].count \in Nat
      BY Zenon DEF AhciInv, TypeOK, Request
    <3>2. COUNT \in Nat \ {0}
      BY AhciAssumption
    <3> HIDE DEF AhciInv
    <3> QED BY <3>1, <3>2
  <2>2. Descriptor(req[c].count % COUNT) \in Nat
    BY <2>1, AhciAssumption DEF Descriptor
  <2> QED BY <2>2 DEF PrdtOf
<1>4. /\ table' \in [write : BOOLEAN, fis : Seq(FisRec), prdt : Seq([cpu : CPUs, len : Nat])]
      /\ table'.write = table.write /\ table'.fis = table.fis /\ table'.prdt = <<PrdtOf(c)>>
  <2> DEFINE x == <<PrdtOf(c)>>
             D == [cpu : CPUs, len : Nat]
  <2>1. x \in Seq(D)
    BY <1>3
  <2>2. table' = [table EXCEPT !.prdt = x]
    BY <1>2
  <2>3. table \in [write : BOOLEAN, fis : Seq(FisRec), prdt : Seq(D)]
    BY DEF AhciInv, TypeOK
  <2> HIDE DEF x, D
  <2>4. /\ table' \in [write : BOOLEAN, fis : Seq(FisRec), prdt : Seq(D)]
        /\ table'.write = table.write /\ table'.fis = table.fis /\ table'.prdt = x
    BY <2>1, <2>2, <2>3, Zenon
  <2> QED BY <2>4 DEF x, D
<1>5. \A p \in Ports : PortInv(p)'
  BY <1>1, PortsKept
<1>6. FisOf(c)' = FisOf(c) /\ PrdtOf(c)' = PrdtOf(c)
  BY <1>1 DEF FisOf, PrdtOf
<1>7. own'[c] => Mine(c)'
  <2>1. SUFFICES ASSUME own[c] PROVE Mine(c)'
    BY <1>1, Zenon
  <2>2. Mine(c)
    BY <1>1, <2>1, Zenon DEF AhciInv
  <2>3. \A d \in CPUs \ {c} : ~Using(d)'
    BY <1>1, <2>2, Zenon DEF Mine, Using
  <2> QED BY <1>1, <1>4, <1>6, <2>2, <2>3, Zenon DEF Mine
<1>8. /\ reg' \in [Ports -> PortRec] /\ req' \in [CPUs -> Request] /\ ret' \in [CPUs -> {0, -1}]
      /\ own' \in [CPUs -> BOOLEAN] /\ Using(c)
  BY <1>1 DEF AhciInv, TypeOK, Using
<1> QED BY <1>1, <1>4, <1>5, <1>7, <1>8, InCall, Zenon

\* The device is not busy.
LEMMA Wait_step ==
  ASSUME AhciInv, NEW c \in CPUs, Wait(c)
  PROVE  AhciInv'
<1>1. /\ pc[c] = "wait" /\ pc' = [pc EXCEPT ![c] = "issue"] /\ pc'[c] = "issue"
      /\ UNCHANGED <<scan, drive, sata_dev, reg, table, disk, buf, req, ret, own>>
      /\ \A d \in CPUs \ {c} : pc'[d] = pc[d]
  BY DEF AhciInv, TypeOK, Wait, Step, init
<1>2. \A p \in Ports : PortInv(p)'
  BY <1>1, PortsKept
<1>3. FisOf(c)' = FisOf(c) /\ PrdtOf(c)' = PrdtOf(c)
  BY <1>1, Zenon DEF FisOf, PrdtOf
<1>4. own'[c] => Mine(c)'
  <2>1. SUFFICES ASSUME own[c] PROVE Mine(c)'
    BY <1>1, Zenon
  <2>2. Mine(c)
    BY <1>1, <2>1, Zenon DEF AhciInv
  <2>3. \A d \in CPUs \ {c} : ~Using(d)'
    BY <1>1, <2>2, Zenon DEF Mine, Using
  <2> QED BY <1>1, <1>3, <2>2, <2>3, Zenon DEF Mine
<1>5. /\ reg' \in [Ports -> PortRec] /\ req' \in [CPUs -> Request] /\ ret' \in [CPUs -> {0, -1}]
      /\ own' \in [CPUs -> BOOLEAN] /\ Using(c)
      /\ table' \in [write : BOOLEAN, fis : Seq(FisRec), prdt : Seq([cpu : CPUs, len : Nat])]
  BY <1>1 DEF AhciInv, TypeOK, Using
<1> QED BY <1>1, <1>2, <1>4, <1>5, InCall, Zenon

\* The command is issued: the port has something to do, for a CPU that polls.
LEMMA Issue_step ==
  ASSUME AhciInv, NEW c \in CPUs, Issue(c)
  PROVE  AhciInv'
<1>1. /\ pc[c] = "issue" /\ pc' = [pc EXCEPT ![c] = "poll"] /\ pc'[c] = "poll"
      /\ UNCHANGED <<scan, drive, sata_dev, table, disk, buf, req, ret, own>>
      /\ \A d \in CPUs \ {c} : pc'[d] = pc[d]
  BY DEF AhciInv, TypeOK, Issue, Step, init
<1> DEFINE p == req[c].port
<1>2. p \in Ports
  BY <1>1, Zenon DEF AhciInv, Valid
<1>3. /\ reg' \in [Ports -> PortRec] /\ reg'[p].PxCI = TRUE
      /\ reg'[p].BSY = reg[p].BSY /\ reg'[p].PxIS = reg[p].PxIS
      /\ reg'[p].stopped = reg[p].stopped /\ reg'[p].cmd = reg[p].cmd
      /\ \A q \in Ports \ {p} : reg'[q] = reg[q]
  <2> DEFINE x == [reg[p] EXCEPT !.PxCI = TRUE]
  <2>1. reg[p] \in PortRec
    BY <1>2 DEF AhciInv, TypeOK
  <2>2. /\ x \in PortRec /\ x.PxCI = TRUE /\ x.BSY = reg[p].BSY /\ x.PxIS = reg[p].PxIS
        /\ x.stopped = reg[p].stopped /\ x.cmd = reg[p].cmd
    BY <2>1, Zenon DEF PortRec
  <2>3. reg' = [reg EXCEPT ![p] = x]
    BY DEF Issue
  <2> HIDE DEF x
  <2> QED BY <1>2, <2>2, <2>3 DEF AhciInv, TypeOK
<1>4. ASSUME NEW q \in Ports PROVE PortInv(q)'
  <2>1. \A d \in CPUs : pc[d] = "poll" /\ req[d].port = q => pc'[d] = "poll" /\ req'[d].port = q
    BY <1>1
  <2>2. q = p => pc'[c] = "poll" /\ req'[c].port = q
    BY <1>1
  <2>3. CASE q = p
    BY <1>3, <2>2, <2>3, Zenon DEF AhciInv, PortInv
  <2>4. CASE q # p
    BY <1>3, <2>1, <2>4, Zenon DEF AhciInv, PortInv
  <2> QED BY <2>3, <2>4
<1>5. FisOf(c)' = FisOf(c) /\ PrdtOf(c)' = PrdtOf(c) /\ req'[c].port = p
  BY <1>1 DEF FisOf, PrdtOf
<1>6. own'[c] => Mine(c)'
  <2>1. own[c] => ~reg[p].BSY
    BY <1>1, <1>2, ServedAlone
  <2>2. SUFFICES ASSUME own[c] PROVE Mine(c)'
    BY <1>1, Zenon
  <2>3. Mine(c)
    BY <1>1, <2>2, Zenon DEF AhciInv
  <2>4. \A d \in CPUs \ {c} : ~Using(d)'
    BY <1>1, <2>3, Zenon DEF Mine, Using
  <2> HIDE DEF p
  <2> QED BY <1>1, <1>3, <1>5, <2>1, <2>2, <2>3, <2>4, Zenon DEF Mine
<1>7. /\ req' \in [CPUs -> Request] /\ ret' \in [CPUs -> {0, -1}]
      /\ own' \in [CPUs -> BOOLEAN] /\ Using(c)
      /\ table' \in [write : BOOLEAN, fis : Seq(FisRec), prdt : Seq([cpu : CPUs, len : Nat])]
  BY <1>1 DEF AhciInv, TypeOK, Using
<1> QED BY <1>1, <1>3, <1>4, <1>6, <1>7, InCall, Zenon

\* The command is finished, or the port has failed.
LEMMA Poll_step ==
  ASSUME AhciInv, NEW c \in CPUs, Poll(c)
  PROVE  AhciInv'
<1>1. /\ pc[c] = "poll" /\ pc' = [pc EXCEPT ![c] = "done"] /\ pc'[c] = "done"
      /\ UNCHANGED <<scan, drive, sata_dev, reg, table, disk, buf, req, own>>
      /\ \A d \in CPUs \ {c} : pc'[d] = pc[d]
  BY DEF AhciInv, TypeOK, Poll, Step, init
<1> DEFINE p == req[c].port
<1>2. p \in Ports
  BY <1>1, Zenon DEF AhciInv, Valid
<1>3. /\ ret' \in [CPUs -> {0, -1}]
      /\ \/ ~reg[p].PxCI /\ ret'[c] = 0
         \/ reg[p].PxCI /\ reg[p].PxIS /\ ret'[c] = -1
  BY Zenon DEF Poll, Finished, Failed, AhciInv, TypeOK
<1>4. reg[p].PxCI => reg[p].PxIS
  BY <1>3
<1>5. ASSUME NEW q \in Ports PROVE PortInv(q)'
  <2>1. CASE q = p
    BY <1>1, <1>4, <2>1, Zenon DEF AhciInv, PortInv
  <2>2. CASE q # p
    <3>1. \A d \in CPUs : pc[d] = "poll" /\ req[d].port = q => pc'[d] = "poll" /\ req'[d].port = q
      BY <1>1, <2>2
    <3>2. PortInv(q) /\ reg' = reg
      BY <1>1, Zenon DEF AhciInv
    <3> QED BY <3>1, <3>2, Zenon DEF PortInv
  <2> QED BY <2>1, <2>2
<1>6. Moved(c)' <=> Moved(c)
  BY <1>1 DEF Moved
<1>7. own'[c] => Mine(c)'
  <2>1. reg[p].PxIS => reg[p].stopped
    BY <1>2, Zenon DEF AhciInv, PortInv
  <2>2. SUFFICES ASSUME own[c] PROVE Mine(c)'
    BY <1>1
  <2>3. Mine(c)
    BY <1>1, <2>2 DEF AhciInv
  <2>4. ret'[c] = 0 => Moved(c)
    <3>1. ret'[c] = 0 => ~reg[p].PxCI
      BY <1>3
    <3> QED BY <1>1, <2>3, <3>1, Zenon DEF Mine
  <2>5. ret'[c] # 0 => reg[p].stopped
    BY <1>3, <2>1
  <2>6. \A d \in CPUs \ {c} : ~Using(d)'
    BY <1>1, <2>3, Zenon DEF Mine, Using
  <2>7. req'[c].write => \A t \in Sector : buf'[c][t] = c
    BY <1>1, <2>3, Zenon DEF Mine
  <2> HIDE DEF p
  <2>8. reg'[req'[c].port].stopped = reg[p].stopped
    BY <1>1, Zenon DEF p
  <2> QED BY <1>1, <1>6, <2>4, <2>5, <2>6, <2>7, <2>8, Zenon DEF Mine
<1>8. /\ reg' \in [Ports -> PortRec] /\ req' \in [CPUs -> Request]
      /\ own' \in [CPUs -> BOOLEAN] /\ Using(c)
      /\ table' \in [write : BOOLEAN, fis : Seq(FisRec), prdt : Seq([cpu : CPUs, len : Nat])]
  BY <1>1 DEF AhciInv, TypeOK, Using
<1> QED BY <1>1, <1>3, <1>5, <1>7, <1>8, InCall, Zenon

\* The call returns.
LEMMA Return_step ==
  ASSUME AhciInv, NEW c \in CPUs, Return(c)
  PROVE  AhciInv'
<1>1. /\ pc[c] = "done" /\ pc' = [pc EXCEPT ![c] = "idle"] /\ pc'[c] = "idle"
      /\ UNCHANGED <<scan, drive, sata_dev, reg, table, disk, buf>>
      /\ \A d \in CPUs \ {c} : pc'[d] = pc[d]
  BY DEF AhciInv, TypeOK, Return, Step, init
<1>2. /\ req' \in [CPUs -> Request] /\ ret' \in [CPUs -> {0, -1}] /\ own' \in [CPUs -> BOOLEAN]
      /\ \A d \in CPUs \ {c} : req'[d] = req[d] /\ own'[d] = own[d]
  <2>1. NoRequest \in Request
    BY DEF NoRequest, Request
  <2> QED BY <2>1 DEF Return, AhciInv, TypeOK
<1>3. ASSUME NEW q \in Ports PROVE PortInv(q)'
  <2>1. \A d \in CPUs : pc[d] = "poll" /\ req[d].port = q => pc'[d] = "poll" /\ req'[d].port = q
    <3>1. \A d \in CPUs : pc[d] = "poll" => d # c
      BY <1>1
    <3> QED BY <1>1, <1>2, <3>1, Zenon
  <2>2. PortInv(q) /\ reg' = reg
    BY <1>1, Zenon DEF AhciInv
  <2> QED BY <2>1, <2>2, Zenon DEF PortInv
<1>4. /\ reg' \in [Ports -> PortRec] /\ Using(c)
      /\ table' \in [write : BOOLEAN, fis : Seq(FisRec), prdt : Seq([cpu : CPUs, len : Nat])]
  BY <1>1 DEF AhciInv, TypeOK, Using
<1> QED BY <1>1, <1>2, <1>3, <1>4, InCall, Zenon

\* The steps of a port: of the CPUs, the one the port works for may learn something.
LEMMA OnPort ==
  ASSUME AhciInv, NEW p \in Ports, reg[p].BSY \/ reg[p].PxCI,
         UNCHANGED <<init, table, pc, req, ret, own>>,
         reg' \in [Ports -> PortRec], \A q \in Ports \ {p} : reg'[q] = reg[q],
         disk' = [q \in Ports |-> [s \in Sector |-> disk'[q][s]]],
         buf' = [c \in CPUs |-> [s \in Sector |-> buf'[c][s]]],
         PortInv(p)',
         \A d \in CPUs : own[d] /\ pc[d] # "idle" => Mine(d)'
  PROVE  AhciInv'
<1>1. Ready /\ Ready'
  <2>1. ~IdlePort.BSY /\ ~IdlePort.PxCI
    BY DEF IdlePort
  <2>2. reg[p] # IdlePort
    BY <2>1
  <2> QED BY <2>2 DEF AhciInv, Before, Ready, init
<1>2. TypeOK'
  BY Zenon DEF AhciInv, TypeOK, init
<1>3. \A q \in Ports \ {p} : PortInv(q)'
  BY ZenonT(40) DEF AhciInv, PortInv
<1>4. \A d \in CPUs : Valid(d)'
  BY DEF AhciInv, Valid
<1> QED BY <1>1, <1>2, <1>3, <1>4 DEF AhciInv, Before

\* Replacing a row of an array of sectors leaves an array of sectors.
LEMMA Rows ==
  ASSUME NEW S, NEW f, f = [x \in S |-> [s \in Sector |-> f[x][s]]],
         NEW a \in S, NEW g, g = [s \in Sector |-> g[s]],
         NEW h, h = [f EXCEPT ![a] = g]
  PROVE  h = [x \in S |-> [s \in Sector |-> h[x][s]]] /\ h[a] = g
<1>1. h[a] = g /\ \A x \in S \ {a} : h[x] = f[x]
  OBVIOUS
<1>2. h = [x \in S |-> h[x]]
  OBVIOUS
<1>3. ASSUME NEW x \in S PROVE h[x] = [s \in Sector |-> h[x][s]]
  BY <1>1
<1> QED BY <1>1, <1>2, <1>3, Zenon

\* The device takes the command of the table.
LEMMA Fetch_step ==
  ASSUME AhciInv, NEW p \in Ports, Fetch(p)
  PROVE  AhciInv'
<1> DEFINE x == <<[header |-> table.write, fis |-> table.fis]>>
<1>1. /\ reg[p].PxCI /\ ~reg[p].stopped
      /\ UNCHANGED <<init, table, disk, buf, pc, req, ret, own>>
  BY DEF Fetch
<1>2. x \in Seq([header : BOOLEAN, fis : Seq(FisRec)])
  BY DEF AhciInv, TypeOK
<1>3. /\ reg' \in [Ports -> PortRec] /\ reg'[p].PxCI = reg[p].PxCI
      /\ reg'[p].BSY = TRUE /\ reg'[p].PxIS = reg[p].PxIS
      /\ reg'[p].stopped = reg[p].stopped /\ reg'[p].cmd = x
      /\ \A q \in Ports \ {p} : reg'[q] = reg[q]
  <2> DEFINE y == [reg[p] EXCEPT !.BSY = TRUE, !.cmd = x]
  <2>1. reg[p] \in PortRec
    BY DEF AhciInv, TypeOK
  <2>2. reg' = [reg EXCEPT ![p] = y]
    BY <2>1, Zenon DEF Fetch, AhciInv, TypeOK
  <2> HIDE DEF x
  <2>3. /\ y \in PortRec /\ y.PxCI = reg[p].PxCI /\ y.BSY = TRUE /\ y.PxIS = reg[p].PxIS
        /\ y.stopped = reg[p].stopped /\ y.cmd = x
    BY <1>2, <2>1, Zenon DEF PortRec
  <2> HIDE DEF y
  <2> QED BY <2>2, <2>3 DEF AhciInv, TypeOK
<1>4. PortInv(p)'
  BY <1>1, <1>3, Zenon DEF AhciInv, PortInv
<1>5. ASSUME NEW d \in CPUs, own[d], pc[d] # "idle" PROVE Mine(d)'
  <2>1. pc[d] = "poll" /\ req[d].port = p /\ Mine(d)
    BY <1>1, <1>5, ServedAlone, Zenon DEF AhciInv
  <2>2. x = <<[header |-> req[d].write, fis |-> <<FisOf(d)>>]>>
    BY <2>1, Zenon DEF Mine
  <2>3. FisOf(d)' = FisOf(d) /\ PrdtOf(d)' = PrdtOf(d)
    BY <1>1, Zenon DEF FisOf, PrdtOf
  <2> HIDE DEF x
  <2> QED BY <1>1, <1>3, <2>1, <2>2, <2>3, Zenon DEF Mine, Using
<1>6. /\ disk' = [q \in Ports |-> [s \in Sector |-> disk'[q][s]]]
      /\ buf' = [c \in CPUs |-> [s \in Sector |-> buf'[c][s]]]
  BY <1>1 DEF AhciInv, TypeOK
<1> QED BY <1>1, <1>3, <1>4, <1>5, <1>6, OnPort, Zenon

\* The command fails, and the port stops.
LEMMA Fail_step ==
  ASSUME AhciInv, NEW p \in Ports, Fail(p)
  PROVE  AhciInv'
<1>1. reg[p].BSY /\ UNCHANGED <<init, table, disk, buf, pc, req, ret, own>>
  BY DEF Fail
<1>2. reg[p].PxCI
  BY <1>1, Zenon DEF AhciInv, PortInv
<1>3. /\ reg' \in [Ports -> PortRec] /\ reg'[p].PxCI = reg[p].PxCI
      /\ reg'[p].BSY = FALSE /\ reg'[p].PxIS = TRUE /\ reg'[p].stopped = TRUE
      /\ \A q \in Ports \ {p} : reg'[q] = reg[q]
  <2> DEFINE z == <<>>
             y == [reg[p] EXCEPT !.BSY = FALSE, !.PxIS = TRUE, !.stopped = TRUE, !.cmd = z]
  <2>1. reg[p] \in PortRec /\ z \in Seq([header : BOOLEAN, fis : Seq(FisRec)])
    BY DEF AhciInv, TypeOK
  <2>2. reg' = [reg EXCEPT ![p] = y]
    BY <2>1, Zenon DEF Fail, AhciInv, TypeOK
  <2> HIDE DEF z
  <2>3. /\ y \in PortRec /\ y.PxCI = reg[p].PxCI /\ y.BSY = FALSE /\ y.PxIS = TRUE
        /\ y.stopped = TRUE
    BY <2>1, Zenon DEF PortRec
  <2> HIDE DEF y
  <2> QED BY <2>2, <2>3 DEF AhciInv, TypeOK
<1>4. PortInv(p)'
  BY <1>3 DEF PortInv
<1>5. ASSUME NEW d \in CPUs, own[d], pc[d] # "idle" PROVE Mine(d)'
  <2>1. pc[d] = "poll" /\ req[d].port = p /\ Mine(d)
    BY <1>1, <1>5, ServedAlone, Zenon DEF AhciInv
  <2>2. FisOf(d)' = FisOf(d) /\ PrdtOf(d)' = PrdtOf(d)
    BY <1>1, Zenon DEF FisOf, PrdtOf
  <2> QED BY <1>1, <1>2, <1>3, <2>1, <2>2, Zenon DEF Mine, Using
<1>6. /\ disk' = [q \in Ports |-> [s \in Sector |-> disk'[q][s]]]
      /\ buf' = [c \in CPUs |-> [s \in Sector |-> buf'[c][s]]]
  BY <1>1 DEF AhciInv, TypeOK
<1> QED BY <1>1, <1>3, <1>4, <1>5, <1>6, OnPort

\* The data move: what the table says, and so what a CPU that has it to itself
\* asked for.
LEMMA Move_step ==
  ASSUME AhciInv, NEW p \in Ports, Move(p)
  PROVE  AhciInv'
<1> DEFINE f == reg[p].cmd[1].fis[1]
           e == table.prdt[1]
           n == IF f.count = 0 THEN COUNT ELSE f.count
           moved == f.lba .. f.lba + (IF n < e.len THEN n ELSE e.len) - 1
           row == [s \in DOMAIN disk[p] |-> IF s \in moved THEN buf[e.cpu][s - f.lba] ELSE disk[p][s]]
           got == [s \in DOMAIN buf[e.cpu] |->
                     IF f.lba + s \in moved THEN disk[p][f.lba + s] ELSE buf[e.cpu][s]]
<1>1. reg[p].BSY /\ UNCHANGED <<init, table, pc, req, ret, own>>
  BY Zenon DEF Move
<1>2. /\ f.write => disk' = [disk EXCEPT ![p] = row] /\ buf' = buf
      /\ ~f.write => buf' = [buf EXCEPT ![e.cpu] = got] /\ disk' = disk
  BY Zenon DEF Move
<1>3. e.cpu \in CPUs
  <2> DEFINE D == [cpu : CPUs, len : Nat]
  <2>1. table.prdt \in Seq(D) /\ table.prdt # <<>>
    BY Zenon DEF AhciInv, TypeOK, Move, Coherent
  <2> HIDE DEF D
  <2>2. table.prdt[1] \in D
    BY <2>1
  <2> QED BY <2>2 DEF D
<1>4. DOMAIN disk[p] = Sector /\ DOMAIN buf[e.cpu] = Sector
  <2> HIDE DEF e
  <2> QED BY <1>3 DEF AhciInv, TypeOK
<1>5. row = [s \in Sector |-> row[s]] /\ got = [s \in Sector |-> got[s]]
  BY <1>4, Zenon
<1>6. /\ reg' \in [Ports -> PortRec] /\ reg'[p].PxCI = FALSE
      /\ reg'[p].BSY = FALSE /\ reg'[p].PxIS = reg[p].PxIS
      /\ reg'[p].stopped = reg[p].stopped
      /\ \A q \in Ports \ {p} : reg'[q] = reg[q]
  <2> DEFINE z == <<>>
             y == [reg[p] EXCEPT !.BSY = FALSE, !.PxCI = FALSE, !.cmd = z]
  <2>1. reg[p] \in PortRec /\ z \in Seq([header : BOOLEAN, fis : Seq(FisRec)])
    BY DEF AhciInv, TypeOK
  <2>2. reg' = [reg EXCEPT ![p] = y]
    BY <2>1, Zenon DEF Move, AhciInv, TypeOK
  <2> HIDE DEF z
  <2>3. /\ y \in PortRec /\ y.PxCI = FALSE /\ y.BSY = FALSE /\ y.PxIS = reg[p].PxIS
        /\ y.stopped = reg[p].stopped
    BY <2>1, Zenon DEF PortRec
  <2> HIDE DEF y
  <2> QED BY <2>2, <2>3 DEF AhciInv, TypeOK
<1>7. PortInv(p)'
  BY <1>6, Zenon DEF AhciInv, PortInv
<1> HIDE DEF f, e, n, moved, row, got
<1>8. /\ disk' = [q \in Ports |-> [s \in Sector |-> disk'[q][s]]]
      /\ buf' = [c \in CPUs |-> [s \in Sector |-> buf'[c][s]]]
      /\ f.write => disk'[p] = row
      /\ ~f.write => buf'[e.cpu] = got
  <2>1. /\ disk = [q \in Ports |-> [s \in Sector |-> disk[q][s]]]
        /\ buf = [c \in CPUs |-> [s \in Sector |-> buf[c][s]]]
    BY DEF AhciInv, TypeOK
  <2>2. CASE f.write
    <3> DEFINE h == disk'
    <3>1. h = [disk EXCEPT ![p] = row] /\ buf' = buf
      BY <1>2, <2>2
    <3> HIDE DEF h
    <3>2. h = [x \in Ports |-> [s \in Sector |-> h[x][s]]] /\ h[p] = row
      BY <1>5, <2>1, <3>1, Rows
    <3> QED BY <2>1, <2>2, <3>1, <3>2 DEF h
  <2>3. CASE ~f.write
    <3> DEFINE a == e.cpu
               h == buf'
    <3>1. a \in CPUs /\ h = [buf EXCEPT ![a] = got] /\ disk' = disk
      BY <1>2, <1>3, <2>3
    <3> HIDE DEF a, h
    <3>2. h = [x \in CPUs |-> [s \in Sector |-> h[x][s]]] /\ h[a] = got
      BY <1>5, <2>1, <3>1, Rows
    <3> QED BY <2>1, <2>3, <3>1, <3>2 DEF a, h
  <2> QED BY <2>2, <2>3
<1>9. ASSUME NEW d \in CPUs, own[d], pc[d] # "idle" PROVE Mine(d)'
  <2> DEFINE lba == req[d].lba
             count == req[d].count
  <2>1. pc[d] = "poll" /\ req[d].port = p /\ Mine(d)
    BY <1>1, <1>9, ServedAlone, Zenon DEF AhciInv
  <2>2. /\ reg[p].cmd = <<[header |-> req[d].write, fis |-> <<FisOf(d)>>]>>
        /\ table.prdt = <<PrdtOf(d)>>
    BY <1>1, <2>1, Zenon DEF Mine
  <2>3. f = FisOf(d) /\ e = PrdtOf(d)
    BY <2>2 DEF f, e
  <2>4. /\ f.write = req[d].write /\ f.lba = lba /\ f.count = count % COUNT
        /\ e.cpu = d /\ e.len = Descriptor(count % COUNT)
    BY <2>3, Zenon DEF FisOf, PrdtOf
  <2>5. lba \in Nat /\ count \in Nat \ {0} /\ count <= PRD /\ lba + count <= Sectors
    <3>1. <<lba, count>> \in Ranges
      BY <2>1 DEF AhciInv, Valid
    <3> QED BY <3>1, AhciAssumption, Zenon
  <2>6. moved = lba .. lba + count - 1
    BY <2>4, <2>5, Amount DEF moved, n
  <2>7. req[d].write => \A s \in Sector : buf[d][s] = d
    BY <2>1, Zenon DEF Mine
  <2>8. ASSUME NEW s \in 0 .. count - 1
        PROVE  IF req[d].write THEN disk'[p][lba + s] = d ELSE buf'[d][s] = disk'[p][lba + s]
    <3>1. /\ s \in Sector /\ lba + s \in Sector /\ lba + s \in moved /\ (lba + s) - lba = s
      <4> HIDE DEF lba, count
      <4>1. Sectors \in Nat
        BY AhciAssumption
      <4>2. s \in Int /\ 0 <= s /\ s < count
        BY <2>5
      <4> QED BY <2>5, <2>6, <4>1, <4>2 DEF Sector
    <3>2. CASE req[d].write
      <4>1. disk'[p][lba + s] = row[lba + s]
        BY <1>8, <2>4, <3>2
      <4>2. row[lba + s] = buf[d][(lba + s) - lba]
        BY <1>4, <2>4, <3>1 DEF row
      <4> QED BY <2>7, <3>1, <3>2, <4>1, <4>2
    <3>3. CASE ~req[d].write
      <4>1. buf'[d][s] = got[s] /\ disk' = disk
        BY <1>2, <1>8, <2>4, <3>3
      <4>2. got[s] = disk[p][lba + s]
        BY <1>4, <2>4, <3>1 DEF got
      <4> QED BY <3>3, <4>1, <4>2
    <3> QED BY <3>2, <3>3
  <2>9. Moved(d)'
    BY <1>1, <2>1, <2>8, Zenon DEF Moved
  <2>10. req[d].write => \A s \in Sector : buf'[d][s] = d
    BY <1>2, <2>4, <2>7
  <2>11. FisOf(d)' = FisOf(d) /\ PrdtOf(d)' = PrdtOf(d)
    BY <1>1, Zenon DEF FisOf, PrdtOf
  <2> QED BY <1>1, <1>6, <2>1, <2>9, <2>10, <2>11, Zenon DEF Mine, Using
<1> QED BY <1>1, <1>6, <1>7, <1>8, <1>9, OnPort

--------------------------------------------------------------------------------
(***************************************************************************)
(* The theorems.                                                           *)
(***************************************************************************)
\* What a CPU inside ahci_dma_transfer knows of the one command table and of its
\* port, at each place, holds in every interleaving of CPUs and devices.
THEOREM AhciInvariant == Spec => []AhciInv
<1>1. AhciInv /\ [Next]_vars => AhciInv'
  <2> SUFFICES ASSUME AhciInv, [Next]_vars PROVE AhciInv'
    OBVIOUS
  <2>1. ASSUME NEW p \in Ports, ahci_init(p) PROVE AhciInv'
    BY <2>1, ahci_init_step
  <2>2. ASSUME NEW p \in Ports, Device(p) PROVE AhciInv'
    BY <2>2, Fetch_step, Move_step, Fail_step DEF Device
  <2>3. CASE disk_initialize
    BY <2>3, disk_initialize_step
  <2>4. ASSUME NEW c \in CPUs, CpuStep(c) PROVE AhciInv'
    BY <2>4, Header_step, Fis_step, Prdt_step, Wait_step, Issue_step, Poll_step, Return_step
       DEF CpuStep
  <2>5. ASSUME NEW c \in CPUs, NEW w \in BOOLEAN, NEW x \in Ranges, NEW p \in Ports,
               NEW v \in {"fatfs", "blkdev"},
               Call(c, [write |-> w, port |-> p, lba |-> x[1], count |-> x[2], via |-> v])
        PROVE  AhciInv'
    <3> DEFINE r == [write |-> w, port |-> p, lba |-> x[1], count |-> x[2], via |-> v]
    <3>1. x[1] \in Nat /\ x[2] \in Nat /\ x = <<x[1], x[2]>>
      BY AhciAssumption
    <3>2. r \in Request /\ r.port = p /\ r.lba = x[1] /\ r.count = x[2]
      BY <3>1 DEF Request
    <3>3. Call(c, r)
      BY <2>5
    <3> HIDE DEF r
    <3> QED BY <3>1, <3>2, <3>3, Call_step
  <2>6. ASSUME NEW c \in CPUs, NEW w \in BOOLEAN, NEW x \in Ranges, DiskCall(c, w, x)
        PROVE  AhciInv'
    <3>1. drive \in Ports
      BY <2>6 DEF DiskCall, AhciInv, TypeOK
    <3> QED BY <2>5, <2>6, <3>1, Zenon DEF DiskCall
  <2>7. ASSUME NEW c \in CPUs, NEW w \in BOOLEAN, NEW x \in Ranges, NEW p \in Ports,
               BlkCall(c, w, p, x)
        PROVE  AhciInv'
    BY <2>5, <2>7, Zenon DEF BlkCall
  <2>8. CASE UNCHANGED vars
    <3>1. TypeOK' /\ Before'
      BY <2>8 DEF vars, AhciInv, TypeOK, Before, Ready
    <3>2. \A p \in Ports : PortInv(p)'
      BY <2>8, Zenon DEF vars, AhciInv, PortInv
    <3>3. \A c \in CPUs : Valid(c)'
      BY <2>8, Zenon DEF vars, AhciInv, Valid
    <3>4. ASSUME NEW c \in CPUs, own[c], pc[c] # "idle" PROVE Mine(c)'
      <4>1. Mine(c)
        BY <3>4 DEF AhciInv
      <4>2. FisOf(c)' = FisOf(c) /\ PrdtOf(c)' = PrdtOf(c) /\ (Moved(c)' <=> Moved(c))
        BY <2>8, Zenon DEF vars, FisOf, PrdtOf, Moved
      <4> QED BY <2>8, <4>1, <4>2, Zenon DEF vars, Mine, Using
    <3> QED BY <2>8, <3>1, <3>2, <3>3, <3>4, Zenon DEF vars, AhciInv
  <2> QED BY <2>1, <2>2, <2>3, <2>4, <2>6, <2>7, <2>8 DEF Next
<1> QED BY <1>1, Init_step, PTL DEF Spec

\* A call of ahci_dma_transfer that no other CPU gets in the way of moves what it
\* was asked to when it says so, for any number of CPUs, ports and sectors, and for
\* every request a descriptor covers.
THEOREM TransfersRight == Spec => []TransferRight
<1>1. AhciInv => TransferRight
  <2> SUFFICES ASSUME AhciInv, NEW c \in CPUs, pc[c] = "done", own[c], Answer(c) = 0,
                      req[c].via = "fatfs" => ~reg[req[c].port].stopped
               PROVE  Moved(c)
    BY Zenon DEF TransferRight, Moved
  <2>1. Mine(c)
    BY Zenon DEF AhciInv
  <2>2. ret[c] = 0
    BY <2>1, Zenon DEF Mine, Answer
  <2> QED BY <2>1, <2>2, Zenon DEF Mine
<1> QED BY <1>1, AhciInvariant, PTL

--------------------------------------------------------------------------------
(***************************************************************************)
(* The scan of the ports.                                                  *)
(***************************************************************************)
\* What ahci_init has found among the ports it has looked at.
ScanInv ==
  /\ scan \in 0 .. NP + 1 /\ blkdevs \in Seq(Ports)
  /\ \A i \in DOMAIN blkdevs : blkdevs[i] < scan /\ plug[blkdevs[i]] = "disk"
  /\ \A i, j \in DOMAIN blkdevs : blkdevs[i] = blkdevs[j] => i = j
  /\ \A p \in Ports : p < scan /\ plug[p] = "disk" => \E i \in DOMAIN blkdevs : blkdevs[i] = p
  /\ sata_dev = None => \A p \in Ports : p < scan => plug[p] # "disk"
  /\ sata_dev # None => /\ sata_dev \in Ports /\ sata_dev < scan /\ plug[sata_dev] = "disk"
                        /\ \A q \in Ports : sata_dev < q /\ q < scan => plug[q] # "disk"

\* One port more: ahci_init registers the disk there, or leaves the list.
LEMMA Scan_step ==
  ASSUME ScanInv, NEW p \in Ports, ahci_init(p)
  PROVE  ScanInv'
<1>1. /\ scan = p /\ scan' = p + 1 /\ plug' = plug /\ NP \in Nat /\ p \in 0 .. NP
      /\ blkdevs \in Seq(Ports)
  <2>1. scan = p /\ scan' = p + 1 /\ plug' = plug
    BY Zenon DEF ahci_init, NextPort
  <2>2. blkdevs \in Seq(Ports)
    BY Zenon DEF ScanInv
  <2>3. NP \in Nat /\ p \in 0 .. NP
    BY AhciAssumption, Zenon DEF Ports
  <2> QED BY <2>1, <2>2, <2>3, Zenon
<1>2. CASE plug[p] = "disk"
  <2>1. sata_dev' = p /\ blkdevs' = Append(blkdevs, p)
    BY <1>2 DEF ahci_init, HasLink, ahci_check_device_type, blkdev_register
  <2> DEFINE n == Len(blkdevs)
  <2>2. /\ n \in Nat /\ DOMAIN blkdevs = 1 .. n /\ DOMAIN blkdevs' = 1 .. n + 1
        /\ blkdevs' \in Seq(Ports) /\ blkdevs'[n + 1] = p
        /\ \A i \in 1 .. n : blkdevs'[i] = blkdevs[i] /\ blkdevs[i] \in Ports
    BY <1>1, <2>1
  <2> HIDE DEF n
  <2>3. \A i \in 1 .. n : blkdevs[i] < p /\ plug[blkdevs[i]] = "disk"
    BY <1>1, <2>2, Zenon DEF ScanInv
  <2>4. \A i \in 1 .. n : blkdevs'[i] # p
    BY <1>1, <2>2, <2>3 DEF Ports
  <2>5. \A i \in DOMAIN blkdevs' : blkdevs'[i] < scan' /\ plug'[blkdevs'[i]] = "disk"
    <3>1. ASSUME NEW i \in 1 .. n + 1 PROVE blkdevs'[i] < p + 1 /\ plug[blkdevs'[i]] = "disk"
      <4>1. CASE i = n + 1
        BY <1>1, <1>2, <2>2, <4>1
      <4>2. CASE i \in 1 .. n
        <5>1. /\ blkdevs'[i] \in Ports /\ blkdevs'[i] < p /\ plug[blkdevs'[i]] = "disk"
          BY <2>2, <2>3, <4>2, Zenon
        <5> QED BY <1>1, <5>1 DEF Ports
      <4> QED BY <2>2, <4>1, <4>2
    <3> QED BY <1>1, <2>2, <3>1, Zenon
  <2>6. \A i, j \in DOMAIN blkdevs' : blkdevs'[i] = blkdevs'[j] => i = j
    <3>1. \A i, j \in 1 .. n : blkdevs[i] = blkdevs[j] => i = j
      BY <2>2, Zenon DEF ScanInv
    <3>2. \A i \in 1 .. n + 1 : i \in 1 .. n \/ i = n + 1
      BY <2>2
    <3> QED BY <2>2, <2>4, <3>1, <3>2, Zenon
  <2>7. ASSUME NEW q \in Ports, q < scan', plug'[q] = "disk"
        PROVE  \E i \in DOMAIN blkdevs' : blkdevs'[i] = q
    <3>1. CASE q = p
      BY <2>2, <3>1
    <3>2. CASE q # p
      <4>1. q < scan /\ plug[q] = "disk"
        BY <1>1, <2>7, <3>2 DEF Ports
      <4>2. PICK i \in 1 .. n : blkdevs[i] = q
        BY <2>2, <4>1, Zenon DEF ScanInv
      <4> QED BY <2>2, <4>2
    <3> QED BY <3>1, <3>2
  <2>8. sata_dev' # None /\ \A q \in Ports : ~(p < q /\ q < p + 1)
    BY <1>1, <2>1 DEF None, Ports
  <2>9. scan' \in 0 .. NP + 1 /\ p < scan'
    BY <1>1
  <2> QED BY <1>1, <1>2, <2>1, <2>2, <2>5, <2>6, <2>7, <2>8, <2>9, Zenon DEF ScanInv
<1>3. CASE plug[p] # "disk"
  <2>1. UNCHANGED <<sata_dev, blkdevs>>
    BY <1>3, Zenon DEF ahci_init
  <2>2. scan' \in 0 .. NP + 1 /\ \A q \in Ports : (q < p => q < p + 1) /\ (q < p + 1 => q < p \/ q = p)
    BY <1>1 DEF Ports
  <2>3. \A i \in DOMAIN blkdevs : blkdevs[i] \in Ports
    BY <1>1
  <2>4. /\ \A i \in DOMAIN blkdevs' : blkdevs'[i] < scan' /\ plug'[blkdevs'[i]] = "disk"
        /\ \A i, j \in DOMAIN blkdevs' : blkdevs'[i] = blkdevs'[j] => i = j
        /\ blkdevs' \in Seq(Ports)
    BY <1>1, <2>1, <2>2, <2>3, Zenon DEF ScanInv
  <2>5. \A q \in Ports : q < scan' /\ plug'[q] = "disk" => \E i \in DOMAIN blkdevs' : blkdevs'[i] = q
    BY <1>1, <1>3, <2>1, <2>2, Zenon DEF ScanInv
  <2>6. sata_dev' = None => \A q \in Ports : q < scan' => plug'[q] # "disk"
    BY <1>1, <1>3, <2>1, <2>2, Zenon DEF ScanInv
  <2>7. sata_dev' # None =>
          /\ sata_dev' \in Ports /\ sata_dev' < scan' /\ plug'[sata_dev'] = "disk"
          /\ \A q \in Ports : sata_dev' < q /\ q < scan' => plug'[q] # "disk"
    BY <1>1, <1>3, <2>1, <2>2, Zenon DEF ScanInv
  <2> QED BY <2>2, <2>4, <2>5, <2>6, <2>7, Zenon DEF ScanInv
<1> QED BY <1>2, <1>3

\* Once the ports are scanned the list has every disk whose engine runs, once, and
\* FatFs is given the last of them: for any number of ports and any devices there.
THEOREM DisksFound == Spec => []AllFound
<1>1. Init => ScanInv
  BY AhciAssumption DEF Init, ScanInv, None, Ports
<1>2. ScanInv /\ [Next]_vars => ScanInv'
  <2> SUFFICES ASSUME ScanInv, [Next]_vars PROVE ScanInv'
    OBVIOUS
  <2>1. ASSUME NEW p \in Ports, ahci_init(p) PROVE ScanInv'
    BY <2>1, Scan_step
  <2>2. CASE UNCHANGED <<plug, scan, sata_dev, blkdevs>>
    BY <2>2, Zenon DEF ScanInv
  <2>3. ASSUME NEW p \in Ports, Device(p) PROVE UNCHANGED <<plug, scan, sata_dev, blkdevs>>
    BY <2>3, Zenon DEF Device, Fetch, Move, Fail, init
  <2>4. ASSUME NEW c \in CPUs, CpuStep(c) PROVE UNCHANGED <<plug, scan, sata_dev, blkdevs>>
    BY <2>4, Zenon DEF CpuStep, Header, Fis, Prdt, Wait, Issue, Poll, Return, init
  <2>5. ASSUME NEW c \in CPUs, NEW w \in BOOLEAN, NEW x \in Ranges,
               DiskCall(c, w, x) \/ \E p \in Ports : BlkCall(c, w, p, x)
        PROVE  UNCHANGED <<plug, scan, sata_dev, blkdevs>>
    BY <2>5, Zenon DEF DiskCall, BlkCall, Call, init
  <2>6. disk_initialize \/ UNCHANGED vars => UNCHANGED <<plug, scan, sata_dev, blkdevs>>
    BY Zenon DEF disk_initialize, vars
  <2> QED BY <2>1, <2>2, <2>3, <2>4, <2>5, <2>6, Zenon DEF Next
<1>3. ScanInv => AllFound
  <2> SUFFICES ASSUME ScanInv, Ready PROVE AllFound
    BY Zenon DEF AllFound
  <2>1. NP \in Nat /\ scan \in 0 .. NP + 1 /\ scan > NP
    BY AhciAssumption DEF ScanInv, Ready
  <2>2. \A p \in Ports : p < scan
    BY <2>1 DEF Ports
  <2>3. ASSUME NEW p \in Ports
        PROVE  Cardinality({i \in DOMAIN blkdevs : blkdevs[i] = p}) = IF plug[p] = "disk" THEN 1 ELSE 0
    <3>1. CASE plug[p] = "disk"
      <4>1. PICK i \in DOMAIN blkdevs : blkdevs[i] = p
        BY <2>2, <3>1, Zenon DEF ScanInv
      <4>2. {j \in DOMAIN blkdevs : blkdevs[j] = p} = {i}
        <5>1. \A j \in DOMAIN blkdevs : blkdevs[j] = p => j = i
          BY <4>1, Zenon DEF ScanInv
        <5> QED BY <4>1, <5>1
      <4> QED BY <3>1, <4>2, FS_Singleton, Zenon
    <3>2. CASE plug[p] # "disk"
      <4>1. {j \in DOMAIN blkdevs : blkdevs[j] = p} = {}
        <5>1. \A j \in DOMAIN blkdevs : blkdevs[j] # p
          BY <3>2, Zenon DEF ScanInv
        <5> QED BY <5>1
      <4> QED BY <3>2, <4>1, FS_EmptySet, Zenon
    <3> QED BY <3>1, <3>2
  <2> DEFINE Last(p) == plug[p] = "disk" /\ \A q \in p + 1 .. NP : plug[q] # "disk"
  <2>4. ASSUME NEW p \in Ports, plug[p] = "disk"
        PROVE  sata_dev = CHOOSE q \in Ports : Last(q)
    <3>1. sata_dev \in Ports /\ plug[sata_dev] = "disk"
          /\ \A q \in Ports : sata_dev < q => plug[q] # "disk"
      BY <2>2, <2>4, Zenon DEF ScanInv
    <3>2. Last(sata_dev)
      BY <2>1, <3>1 DEF Ports
    <3>3. \A q \in Ports : Last(q) => q = sata_dev
      BY <2>1, <3>1 DEF Ports
    <3> HIDE DEF Last
    <3> QED BY <3>1, <3>2, <3>3, Zenon
  <2>5. (\A p \in Ports : plug[p] # "disk") => sata_dev = None
    BY Zenon DEF ScanInv
  <2> QED BY <2>3, <2>4, <2>5, Zenon DEF AllFound
<1> QED BY <1>1, <1>2, <1>3, PTL DEF Spec

================================================================================
