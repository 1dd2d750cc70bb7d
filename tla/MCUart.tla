--------------------------------- MODULE MCUart ---------------------------------
(* A ring of three slots; six characters arrive, so head and tail go round   *)
(* twice and the ring fills while the reader is held up.                     *)
EXTENDS Uart

================================================================================
