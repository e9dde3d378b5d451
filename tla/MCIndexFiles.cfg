SPECIFICATION Spec
CONSTANTS
  fA = fA
  fB = fB
  cV = cV
  cW = cW
  tV = tV
  tW = tW
  gA = gA
  gB = gB
  File <- MCFile
  Class = {cV, cW}
  TypedefName = {tV, tW}
  GroupName = {gA, gB}
  Empty = Empty
  Cut = Cut
  Absent = Absent
  NotVariable = NotVariable
  NotString = NotString
  Configs <- MCConfigs
  Cuts = {0, 1, 6}
  MaxChanges = 1
  MasterIndexes <- MCMasterIndexes
  LibraryModule = FALSE
CHECK_DEADLOCK FALSE
INVARIANTS
  TypeOK
  LookupsExact
  ModuleOfIndex
  SuccessMeansParsed
