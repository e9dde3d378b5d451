------------------------- MODULE MCXMLSourceParser -------------------------
(* Values of the constants for model checking XMLSourceParser. *)
EXTENDS XMLSourceParser, TLC

\* One name for each way the handlers tell names apart.
MCTag == {"GCC_XML", "Argument", "EnumValue", "Base", "File", "CvQualifiedType",
          "Class", "Enumeration", "Function", "Unknown"}

\* No handler tells one id from another.
Symmetry == Permutations(Id)

=============================================================================
