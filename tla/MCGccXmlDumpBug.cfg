SPECIFICATION Spec
CONSTANTS
  g = g
  a = a
  b = b
  d = d
  l = l
  fb = fb
  fd = fd
  p = p
  td = td
  ca = ca
  t = t
  o = o
  h1 = h1
  h2 = h2
  Node <- MCNode
  File = {h1, h2}
  None = None
  Program <- MCProgram
INVARIANT
  NoDumpBug
