SPECIFICATION FairSpec
CONSTANTS
  bA = bA
  bB = bB
  bC = bC
  bE = bE
  bV = bV
  bX = bX
  bP = bP
  bF = bF
  bM = bM
  bR = bR
  bS = bS
  Base <- MCBase
  Structure <- MCStructure
  MSVC = TRUE
  MaxAsked = 2
  MaxCalls = 12
INVARIANTS
  TypeOK
  InitializedBeforeRead
  WrittenOnce
PROPERTIES
  RefinesTypeOrder
  EverythingWritten
CHECK_DEADLOCK FALSE
