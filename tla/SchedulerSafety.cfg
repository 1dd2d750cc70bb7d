SPECIFICATION Spec
CONSTANTS
  MaxCpus = 2
  ApCount = 2
  ApIds <- TwoCpus
  Task = {t1, t2, t3, t4}
  NULL = NULL
  Images = {"elf64", "elf32", "noelf", "noopen", "nostat"}
  MayExhaust = TRUE
SYMMETRY TaskSymmetry
INVARIANTS OnePlace StackSafe Preemptible DispatchSafe 
PROPERTY ReapSafe
CHECK_DEADLOCK FALSE
