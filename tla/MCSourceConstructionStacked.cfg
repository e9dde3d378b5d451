SPECIFICATION Spec
CONSTANTS
  eG = eG
  eA = eA
  eC = eC
  eD = eD
  eF = eF
  eT = eT
  eP = eP
  eI = eI
  NoId = NoId
  Null = Null
  Id <- MCId
  Document <- MCStacked
INVARIANT
  TypesFaithful
