SPECIFICATION Spec
CONSTANTS
  kA = kA
  kB = kB
  kC = kC
  kD = kD
  kE = kE
  ns = ns
  Class <- MCClass
  Scope = {ns}
  Global = Global
  NoScope = NoScope
  Sources <- MCSources
INVARIANT
  AllParentsImported
