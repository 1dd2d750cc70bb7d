------------------------------- MODULE MCHeapUser -------------------------------
EXTENDS HeapUser

AllSizes == {0, 1, 4, 5}

================================================================================
