SPECIFICATION Spec
CONSTANTS
  t1 = t1
  t2 = t2
  t3 = t3
  t4 = t4
  t5 = t5
  t6 = t6
  t7 = t7
  t8 = t8
  cP = cP
  cQ = cQ
  cR = cR
  cS = cS
  cT = cT
  nP = nP
  nQ = nQ
  nR = nR
  nS = nS
  nT = nT
  nInt = nInt
  nSigned = nSigned
  nVoid = nVoid
  nUnknown = nUnknown
  fInt = fInt
  fVoid = fVoid
  Null = Null
  CableType <- MCCableType
  Class <- MCClass
  Name <- MCName
  Fundamental = {fInt, fVoid}
  IdOfName <- MCIdOfName
  Programs <- MCPrograms
CHECK_DEADLOCK FALSE
INVARIANTS
  TypeOK
  TypesUnique
  LongestParentsKept
  ConversionsExact
