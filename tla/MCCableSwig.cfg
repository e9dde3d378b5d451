SPECIFICATION FairSpec
CONSTANTS
  kA = kA
  kB = kB
  kC = kC
  kD = kD
  kE = kE
  ns = ns
  Class <- MCClass
  Scope = {ns}
  Global = Global
  NoScope = NoScope
  Sources <- MCSources
INVARIANTS
  TypeOK
  BasesFirst
  BaseListExact
  HandedOnce
  WrappedExactly
  ProcessedExactly
PROPERTIES
  ProcessTerminates
