---------------------------------- MODULE Ahci ----------------------------------
(***************************************************************************)
(* The AHCI driver (src/ahci_block.c), the registry of block devices       *)
(* (src/block_device.c) and the disk functions of FatFs above them         *)
(* (src/fs/diskio.c).                                                      *)
(*                                                                         *)
(* All ports share one command list and one command table, and a transfer  *)
(* takes no lock: a call fills the table, issues slot 0 and polls.  The    *)
(* controller reads header and FIS when it starts a command and the PRDT   *)
(* when it moves the data.                                                 *)
(***************************************************************************)
EXTENDS Integers, Sequences, FiniteSets

CONSTANTS
  CPUs,       \* callers; a CPU's number is what it writes
  NP,         \* value of CAP.NP: ports less one
  Plugs,      \* what may be at the ports: functions from 0 .. 31 or fewer
  Sectors,    \* sectors of a disk
  Ranges,     \* what is asked for: first sector and number of sectors
  PRD,        \* sectors a descriptor covers: 22 bits of bytes (8192)
  COUNT,      \* sector counts: 16 bits (65536)
  MaxCalls,   \* bound: calls
  MaxFails    \* bound: commands the devices fail

ASSUME AhciAssumption ==
  /\ {NP, MaxCalls, MaxFails} \subseteq Nat /\ {Sectors, PRD, COUNT} \subseteq Nat \ {0}
  /\ CPUs \subseteq Nat \ {0} /\ PRD <= COUNT
  /\ Ranges \subseteq Nat \X (Nat \ {0})
  /\ \A x \in Ranges : x[2] <= PRD /\ x[1] + x[2] <= Sectors

None == -1

VARIABLES
  plug,     \* port -> "absent", "nolink", "disk", "dead" (a disk whose engine
            \* does not start), "cdrom", "other"
  scan,     \* port that ahci_init looks at
  sata_dev, \* port of the disk for FatFs
  blkdevs,  \* blkdev_list: ports, which are the names too
  drive,    \* port FatFs uses, set by disk_initialize
  reg,      \* registers and state of the ports
  table,    \* command header, FIS and PRDT of slot 0
  disk,     \* port -> sector -> content
  buf,      \* buffer of a CPU
  pc, req,  \* where a call of a CPU is, and what it asked for
  ret,      \* result of ahci_dma_transfer
  own,      \* no other CPU has had the table since the call began
  calls, fails

vars == <<plug, scan, sata_dev, blkdevs, drive, reg, table, disk, buf, pc, req, ret, own,
          calls, fails>>
init == <<plug, scan, sata_dev, blkdevs, drive>>

Ports == 0 .. NP

--------------------------------------------------------------------------------
(***************************************************************************)
(* Initialisation.                                                         *)
(***************************************************************************)
\* The registers of a port that a transfer uses, and what is behind them: cmd is
\* the command the device works on, while BSY is set in PxTFD.
IdlePort == [PxCI |-> FALSE, PxIS |-> FALSE, BSY |-> FALSE, stopped |-> FALSE, cmd |-> <<>>]

EmptyTable == [write |-> FALSE, fis |-> <<>>, prdt |-> <<>>]
NoRequest == [write |-> FALSE, port |-> None, lba |-> 0, count |-> 0, via |-> "none"]

Init ==
  /\ plug \in Plugs /\ scan = 0 /\ sata_dev = None /\ blkdevs = <<>> /\ drive = None
  /\ reg = [p \in Ports |-> IdlePort] /\ table = EmptyTable
  /\ disk = [p \in Ports |-> [s \in 0 .. Sectors - 1 |-> 0]]
  /\ buf = [c \in CPUs |-> [s \in 0 .. Sectors - 1 |-> 0]]
  /\ pc = [c \in CPUs |-> "idle"] /\ req = [c \in CPUs |-> NoRequest]
  /\ ret = [c \in CPUs |-> 0] /\ own = [c \in CPUs |-> TRUE]
  /\ calls = 0 /\ fails = 0

\* The signature tells a disk from other devices, once there is a link.
ahci_check_device_type(p) ==
  CASE plug[p] \in {"disk", "dead"} -> "SATA"
    [] plug[p] = "cdrom" -> "SATAPI"
    [] OTHER -> "NONE"

HasLink(p) == plug[p] \notin {"absent", "nolink"}

\* Mutant: the search ends at a port that is not implemented.
NextPort_stop(p) == IF plug[p] = "absent" THEN NP + 1 ELSE p + 1

NextPort(p) == p + 1

blkdev_register(p) == Append(blkdevs, p)

\* One port: its lists are set up, and a disk whose engine runs is registered
\* and becomes the one for FatFs.
ahci_init(p) ==
  /\ scan = p /\ p <= NP
  /\ scan' = NextPort(p)
  /\ IF HasLink(p) /\ ahci_check_device_type(p) = "SATA" THEN
       /\ table' = EmptyTable
       /\ reg' = [reg EXCEPT ![p] = IdlePort]
       /\ IF plug[p] = "disk" THEN sata_dev' = p /\ blkdevs' = blkdev_register(p)
          ELSE UNCHANGED <<sata_dev, blkdevs>>
     ELSE UNCHANGED <<table, reg, sata_dev, blkdevs>>
  /\ UNCHANGED <<plug, drive, disk, buf, pc, req, ret, own, calls, fails>>

Ready == scan > NP

blkdev_get_by_name(p) == \E i \in DOMAIN blkdevs : blkdevs[i] = p

\* There is a disk: the code does not look.
disk_initialize ==
  /\ Ready /\ sata_dev # None
  /\ drive' = sata_dev
  /\ UNCHANGED <<plug, scan, sata_dev, blkdevs, reg, table, disk, buf, pc, req, ret, own, calls, fails>>

--------------------------------------------------------------------------------
(***************************************************************************)
(* ahci_dma_transfer.                                                      *)
(***************************************************************************)
\* Between filling the table and the return.
Using(c) == pc[c] \notin {"idle", "header"}

Call(c, r) ==
  /\ Ready /\ pc[c] = "idle" /\ calls < MaxCalls
  /\ req' = [req EXCEPT ![c] = r]
  /\ pc' = [pc EXCEPT ![c] = "header"]
  /\ reg' = [reg EXCEPT ![r.port].PxIS = FALSE]
  /\ buf' = [buf EXCEPT ![c] = [s \in 0 .. Sectors - 1 |-> IF r.write THEN c ELSE 0]]
  /\ own' = [own EXCEPT ![c] = \A d \in CPUs \ {c} : ~Using(d)]
  /\ calls' = calls + 1
  /\ UNCHANGED <<init, table, disk, ret, fails>>

\* disk_read and disk_write go to the port of disk_initialize.
DiskCall(c, w, x) ==
  drive # None /\ Call(c, [write |-> w, port |-> drive, lba |-> x[1], count |-> x[2], via |-> "fatfs"])

\* blkdev_ahci_read and blkdev_ahci_write go to the port of the block device.
BlkCall(c, w, p, x) ==
  /\ blkdev_get_by_name(p)
  /\ Call(c, [write |-> w, port |-> p, lba |-> x[1], count |-> x[2], via |-> "blkdev"])

Step(c, from, to) == pc[c] = from /\ pc' = [pc EXCEPT ![c] = to]

Header(c) ==
  /\ Step(c, "header", "fis")
  /\ table' = [table EXCEPT !.write = req[c].write]
  /\ own' = [d \in CPUs |-> own[d] /\ (d = c \/ pc[d] = "idle")]
  /\ UNCHANGED <<init, reg, disk, buf, req, ret, calls, fails>>

Fis(c) ==
  /\ Step(c, "fis", "prdt")
  /\ table' = [table EXCEPT !.fis = <<[write |-> req[c].write, lba |-> req[c].lba,
                                       count |-> req[c].count % COUNT]>>]
  /\ UNCHANGED <<init, reg, disk, buf, req, ret, own, calls, fails>>

\* Mutant: bytes, where the controller wants bytes less one.
Descriptor_bytes(n) == IF n % PRD = 0 THEN 1 ELSE n % PRD

\* Sectors of ((n * 512 - 1) & 0x3FFFFF) + 1 bytes.
Descriptor(n) == IF n = 0 THEN PRD ELSE ((n - 1) % PRD) + 1

Prdt(c) ==
  /\ Step(c, "prdt", "wait")
  /\ table' = [table EXCEPT !.prdt = <<[cpu |-> c, len |-> Descriptor(req[c].count % COUNT)]>>]
  /\ UNCHANGED <<init, reg, disk, buf, req, ret, own, calls, fails>>

\* Waiting while the device is busy, and clearing PxSERR.
Wait(c) ==
  /\ Step(c, "wait", "issue") /\ ~reg[req[c].port].BSY
  /\ UNCHANGED <<init, reg, table, disk, buf, req, ret, own, calls, fails>>

Issue(c) ==
  /\ Step(c, "issue", "poll")
  /\ reg' = [reg EXCEPT ![req[c].port].PxCI = TRUE]
  /\ UNCHANGED <<init, table, disk, buf, req, ret, own, calls, fails>>

\* Mutant: the way out after an error is not there.
Failed_never(p) == FALSE

Finished(p) == ~reg[p].PxCI
Failed(p) == reg[p].PxCI /\ reg[p].PxIS

Poll(c) ==
  /\ Step(c, "poll", "done")
  /\ LET p == req[c].port
     IN  \/ Finished(p) /\ ret' = [ret EXCEPT ![c] = 0]
         \/ Failed(p) /\ ret' = [ret EXCEPT ![c] = -1]
  /\ UNCHANGED <<init, reg, table, disk, buf, req, own, calls, fails>>

\* disk_read and disk_write answer RES_OK whatever the transfer returned, the
\* block device hands its result on.
Answer(c) == IF req[c].via = "fatfs" THEN 0 ELSE ret[c]

Return(c) ==
  /\ Step(c, "done", "idle")
  /\ own' = [own EXCEPT ![c] = TRUE]
  /\ req' = [req EXCEPT ![c] = NoRequest] /\ ret' = [ret EXCEPT ![c] = 0]
  /\ UNCHANGED <<init, reg, table, disk, buf, calls, fails>>

--------------------------------------------------------------------------------
(***************************************************************************)
(* The controller and the disk.  After an error a port works on no command *)
(* until it is stopped and started, which only ahci_init does.             *)
(***************************************************************************)
Fetch(p) ==
  /\ reg[p].PxCI /\ ~reg[p].BSY /\ ~reg[p].stopped
  /\ reg' = [reg EXCEPT ![p].BSY = TRUE,
                        ![p].cmd = <<[header |-> table.write, fis |-> table.fis]>>]
  /\ UNCHANGED <<init, table, disk, buf, pc, req, ret, own, calls, fails>>

\* Header and FIS that do not fit together, or no PRDT, are an error too.
Coherent(p) ==
  LET x == reg[p].cmd[1]
  IN  x.fis # <<>> /\ x.header = x.fis[1].write /\ table.prdt # <<>>

Move(p) ==
  /\ reg[p].BSY /\ Coherent(p)
  /\ LET f == reg[p].cmd[1].fis[1]
         d == table.prdt[1]
         n == IF f.count = 0 THEN COUNT ELSE f.count
         moved == f.lba .. f.lba + (IF n < d.len THEN n ELSE d.len) - 1
     IN  IF f.write
         THEN /\ disk' = [disk EXCEPT ![p] = [s \in DOMAIN @ |->
                            IF s \in moved THEN buf[d.cpu][s - f.lba] ELSE @[s]]]
              /\ UNCHANGED buf
         ELSE /\ buf' = [buf EXCEPT ![d.cpu] = [s \in DOMAIN @ |->
                           IF f.lba + s \in moved THEN disk[p][f.lba + s] ELSE @[s]]]
              /\ UNCHANGED disk
  /\ reg' = [reg EXCEPT ![p].BSY = FALSE, ![p].PxCI = FALSE, ![p].cmd = <<>>]
  /\ UNCHANGED <<init, table, pc, req, ret, own, calls, fails>>

Fail(p) ==
  /\ reg[p].BSY /\ (fails < MaxFails \/ ~Coherent(p))
  /\ reg' = [reg EXCEPT ![p].BSY = FALSE, ![p].PxIS = TRUE, ![p].stopped = TRUE, ![p].cmd = <<>>]
  /\ fails' = IF Coherent(p) THEN fails + 1 ELSE fails
  /\ UNCHANGED <<init, table, disk, buf, pc, req, ret, own, calls>>

--------------------------------------------------------------------------------
CpuStep(c) == Header(c) \/ Fis(c) \/ Prdt(c) \/ Wait(c) \/ Issue(c) \/ Poll(c) \/ Return(c)
Device(p) == Fetch(p) \/ Move(p) \/ Fail(p)

Next ==
  \/ \E p \in Ports : ahci_init(p) \/ Device(p)
  \/ disk_initialize
  \/ \E c \in CPUs : \/ CpuStep(c)
                     \/ \E w \in BOOLEAN, x \in Ranges :
                          DiskCall(c, w, x) \/ \E p \in Ports : BlkCall(c, w, p, x)

\* The CPUs go on and the devices answer.
Spec == /\ Init /\ [][Next]_vars
        /\ \A c \in CPUs : WF_vars(CpuStep(c))
        /\ \A p \in Ports : WF_vars(Device(p))

--------------------------------------------------------------------------------
(***************************************************************************)
(* Properties.                                                             *)
(***************************************************************************)
\* When no other CPU had the table from the call to the return, an answer that
\* says so means that the data are moved, as many sectors as were asked for.  To
\* have it from the header on is not enough: the command of another CPU may still
\* move data to the buffer of an earlier call.  disk_read and disk_write say so
\* after an error too, so for them only while the port has had none.
TransferRight ==
  \A c \in CPUs :
    LET r == req[c]
    IN  /\ pc[c] = "done" /\ own[c] /\ Answer(c) = 0
        /\ r.via = "fatfs" => ~reg[r.port].stopped
        => \A s \in 0 .. r.count - 1 :
             IF r.write THEN disk[r.port][r.lba + s] = c ELSE buf[c][s] = disk[r.port][r.lba + s]

\* A call returns, also the one whose command fails.  Only when another CPU took
\* the table, or when an earlier command on the port failed and a new call has
\* cleared its PxIS, may the loop in ahci_dma_transfer go on for ever.
Returns ==
  \A c \in CPUs :
    (pc[c] = "header") ~> (\/ pc[c] = "idle" \/ ~own[c]
                           \/ reg[req[c].port].stopped /\ ~reg[req[c].port].PxIS)

\* Once the ports are scanned the list has every disk whose engine runs, once,
\* whatever is at the ports between, and the disk of FatFs is the last of them.
AllFound ==
  Ready =>
    /\ \A p \in Ports : Cardinality({i \in DOMAIN blkdevs : blkdevs[i] = p})
                         = IF plug[p] = "disk" THEN 1 ELSE 0
    /\ sata_dev = IF \E p \in Ports : plug[p] = "disk"
                  THEN CHOOSE p \in Ports : plug[p] = "disk" /\ \A q \in p + 1 .. NP : plug[q] # "disk"
                  ELSE None

================================================================================
