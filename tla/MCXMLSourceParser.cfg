SPECIFICATION Spec
CONSTANTS
  Tag <- MCTag
  Id = {i1, i2}
  NoId = NoId
  Null = Null
  MaxTags = 5
  MaxDepth = 4
SYMMETRY Symmetry
INVARIANTS
  TypeOK
  NoNullDereference
  ErrorIffNotAccepted
  MapIsDocument
  RepresentationOfDocument
