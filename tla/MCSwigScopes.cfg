SPECIFICATION Spec
CONSTANTS
  jA = jA
  jB = jB
  jC = jC
  Class <- MCClass
  Name <- MCName
  Decl = {"f()", "f(int)", "q(const).f()"}
  Global = Global
  NoContext = NoContext
  Programs <- MCPrograms
INVARIANTS
  TypeOK
  ClassUnderItsNamespace
  NamespaceHasOneScope
  MethodsInTheirClass
  ClassesKept
