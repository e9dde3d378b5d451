----------------------- MODULE MCSourceConstruction -----------------------
(***************************************************************************)
(* Small documents for model checking SourceConstruction:                  *)
(*                                                                         *)
(*   namespace G { class C;  class D : C { F(...); };  typedef ... T; }    *)
(*   namespace A = G;                                                      *)
(*                                                                         *)
(* with a type P made of T, and a fundamental type I.                      *)
(***************************************************************************)
EXTENDS SourceConstruction, TLC

CONSTANTS eG, eA, eC, eD, eF, eT, eP, eI

MCId == {eG, eA, eC, eD, eF, eT, eP, eI}

Plain(id) == [id |-> id, cv |-> {}]
Const(id) == [id |-> id, cv |-> {"const"}]
Volatile(id) == [id |-> id, cv |-> {"volatile"}]

Make(kind, context, elements, types) ==
  [ kind |-> kind, context |-> context, elements |-> elements, types |-> types,
    defect |-> "none", global |-> FALSE, attributes |-> FALSE ]

\* The document for one choice of what varies.
Text(cContext, dContext, tRef, pKind, pRef, fTypes) ==
  eG :> [Make("Namespace", NoId, << >>, << >>) EXCEPT !.global = TRUE]
  @@ eA :> Make("NamespaceAlias", eG, << eG >>, << >>)
  @@ eC :> Make("Class", cContext, << >>, << >>)
  @@ eD :> Make("Class", dContext, << eC >>, << >>)
  @@ eF :> Make("Function", eD, << >>, fTypes)
  @@ eT :> Make("Typedef", eG, << >>, << tRef >>)
  @@ eP :> Make(pKind, NoId,
               IF pKind \in {"MethodType", "OffsetType"} THEN << eC >> ELSE << >>, << pRef >>)
  @@ eI :> Make("FundamentalType", NoId, << >>, << >>)

\* Sound documents, and documents that qualify what cannot be qualified.
Texts ==
  { Text(cContext, dContext, tRef, pKind, pRef, fTypes) :
      cContext \in {eG, eA}, dContext \in {eG, eC},
      tRef \in {Const(eI), Volatile(eC)},
      pKind \in {"ArrayType", "MethodType", "OffsetType"},
      pRef \in {Plain(eT), Const(eT)},
      fTypes \in {<< >>, << Plain(eP), Const(eT) >>, << Const(eP), Plain(eD) >>} }

Sample == Text(eG, eG, Plain(eC), "PointerType", Const(eT), << Const(eP), Plain(eT) >>)

\* The sample without one of its elements, with one that is broken, and with one
\* whose context is a function.
Broken ==
  { [Sample EXCEPT ![x] = Null] : x \in MCId }
  \cup { [Sample EXCEPT ![x].defect = defect] : x \in MCId, defect \in {"early", "late"} }
  \cup { [Sample EXCEPT ![x].defect = "unfit"] : x \in {eF, eI} }
  \cup { [Sample EXCEPT ![x].attributes = TRUE, ![y].defect = "late"] :
           x \in {eG, eF, eT}, y \in {eF, eT} }
  \cup { [Sample EXCEPT ![eP].kind = "ArrayType", ![eP].types = << ref >>] :
           ref \in {Plain(eG), Const(eG)} }
  \cup { [Sample EXCEPT ![eD].elements = << x >>] : x \in {eG, eP} }
  \cup { [Sample EXCEPT ![eA].context = eF] }
  \cup { [Sample EXCEPT ![eP].kind = kind] : kind \in {"ReferenceType", "FunctionType"} }

MCDocument == Texts \cup Broken

\* Documents of GCC-XML: a function with attributes and with an argument of a type
\* that is written as an Unimplemented element, and a const typedef used as volatile.
MCFailing == { [Sample EXCEPT ![eF].attributes = TRUE, ![eP] = Null] }
MCStacked == { [Sample EXCEPT ![eT].types = << Const(eI) >>, ![eF].types = << Volatile(eT) >>] }
=============================================================================
