--------------------------------- MODULE MCHeap ---------------------------------
(* Pages of two bytes, page tables of four entries: requests of nothing, of   *)
(* one, two and (rounded up) four pages.                                      *)
EXTENDS Heap

AllSizes == {0, 1, 4, 5}

================================================================================
