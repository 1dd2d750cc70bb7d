SPECIFICATION SmpSpec
CONSTANTS
  Madts <- DenseMadts
  LoseSipi = TRUE
INVARIANT OwnStack
 
CHECK_DEADLOCK FALSE
