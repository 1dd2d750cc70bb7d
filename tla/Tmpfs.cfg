SPECIFICATION Spec
CONSTANTS
  MaxNodes = 3
  Paths <- MCPaths
  Contents <- MCContents
  TooLong = {"long"}
INVARIANTS TreeSound AnswersAgree
 
CHECK_DEADLOCK FALSE
VIEW View
