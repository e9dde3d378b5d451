---------------------------- MODULE MCTypeSystem ----------------------------
(***************************************************************************)
(* Source representations of eight types and up to five classes, for model *)
(* checking TypeSystem and Conversions.                                    *)
(***************************************************************************)
EXTENDS Conversions, TLC

CONSTANTS t1, t2, t3, t4, t5, t6, t7, t8, cP, cQ, cR, cS, cT,
          nP, nQ, nR, nS, nT, nInt, nSigned, nVoid, nUnknown, fInt, fVoid

MCCableType == {t1, t2, t3, t4, t5, t6, t7, t8}
MCClass == {cP, cQ, cR, cS, cT}
MCName == {nP, nQ, nR, nS, nT, nInt, nSigned, nVoid, nUnknown}
MCIdOfName ==
  [n \in MCName |-> CASE n \in {nInt, nSigned} -> fInt [] n = nVoid -> fVoid [] OTHER -> Null]

MadeOf(kind, to, more, length) ==
  [ kind |-> kind, target |-> to, args |-> << >>, class |-> Null, name |-> Null,
    cv |-> more, length |-> length ]
Basic(name, more) == [MadeOf("Fundamental", Null, more, 0) EXCEPT !.name = name]
PointerTo(to, more) == MadeOf("Pointer", to, more, 0)
ClassType(c, more) == [MadeOf("Class", Null, more, 0) EXCEPT !.class = c]
MemberOf(kind, c, to, arguments) ==
  [MadeOf(kind, to, {}, 0) EXCEPT !.class = c, !.args = arguments]

ClassNamed(name, bases, abstract, copies) ==
  [name |-> name, bases |-> bases, abstract |-> abstract, copies |-> copies]

\* With q: int, int*, int**, q int, q int*, q int**, q int* const and q int* const*.
Pointers(q) ==
  [ types |-> t1 :> Basic(nInt, {}) @@ t2 :> PointerTo(t1, {}) @@ t3 :> PointerTo(t2, {})
                @@ t4 :> Basic(nSigned, {q}) @@ t5 :> PointerTo(t4, {})
                @@ t6 :> PointerTo(t5, {}) @@ t7 :> PointerTo(t4, {"const"})
                @@ t8 :> PointerTo(t7, {}),
    classes |-> << >> ]

\* int* const** and const int* const**, with what they point to.
Chains ==
  [ types |-> t1 :> Basic(nInt, {}) @@ t2 :> Basic(nInt, {"const"})
                @@ t3 :> PointerTo(t1, {"const"}) @@ t4 :> PointerTo(t2, {"const"})
                @@ t5 :> PointerTo(t3, {}) @@ t6 :> PointerTo(t4, {})
                @@ t7 :> PointerTo(t5, {}) @@ t8 :> PointerTo(t6, {}),
    classes |-> << >> ]

\* Arrays of the same type, one with the qualifier outside, and an enumeration.
Arrays ==
  [ types |-> t1 :> Basic(nInt, {}) @@ t2 :> MadeOf("Array", t1, {"const"}, 2)
                @@ t3 :> Basic(nSigned, {"const"}) @@ t4 :> MadeOf("Array", t3, {}, 2)
                @@ t5 :> MadeOf("Array", t3, {}, 3)
                @@ t6 :> [Basic(nR, {}) EXCEPT !.kind = "Enumeration"]
                @@ t7 :> MadeOf("Reference", t2, {}, 0) @@ t8 :> Basic(nVoid, {}),
    classes |-> << >> ]

\* Methods, pointers to them, and to data members.
Members ==
  [ types |-> t1 :> ClassType(cP, {}) @@ t2 :> ClassType(cQ, {}) @@ t3 :> Basic(nVoid, {})
                @@ t4 :> MemberOf("Method", cQ, t3, << t1 >>)
                @@ t5 :> PointerTo(t4, {"const"}) @@ t6 :> MemberOf("Function", Null, t3, << t1 >>)
                @@ t7 :> [MemberOf("Offset", cP, t3, << >>) EXCEPT !.cv = {"const"}]
                @@ t8 :> PointerTo(t7, {}),
    classes |-> cP :> ClassNamed(nP, << >>, FALSE, FALSE)
                  @@ cQ :> ClassNamed(nQ, << cP >>, FALSE, TRUE) ]

\* A type that has no target, and one whose name is unknown.
Faulty(fault) ==
  [Members EXCEPT !.types[t3] = fault]

Classes(hierarchy) ==
  [ types |-> t1 :> ClassType(cP, {}) @@ t2 :> ClassType(cQ, {}) @@ t3 :> ClassType(cR, {})
                @@ t4 :> ClassType(cP, {"const"}) @@ t5 :> MadeOf("Reference", t4, {}, 0)
                @@ t6 :> MadeOf("Reference", t1, {}, 0) @@ t7 :> ClassType(cR, {"const"})
                @@ t8 :> PointerTo(t7, {}),
    classes |-> hierarchy ]

\* A hierarchy of three; a class with two bases, of which one is the other's base;
\* two classes with the same name; and a class that has the name of its base, with one
\* derived from it.
Hierarchies ==
  { cP :> ClassNamed(nP, << >>, TRUE, TRUE) @@ cQ :> ClassNamed(nQ, << cP >>, FALSE, TRUE)
      @@ cR :> ClassNamed(nR, << cQ >>, FALSE, FALSE),
    cP :> ClassNamed(nP, << >>, FALSE, TRUE) @@ cQ :> ClassNamed(nQ, << cP >>, FALSE, FALSE)
      @@ cR :> ClassNamed(nR, << cQ, cP >>, FALSE, TRUE),
    cP :> ClassNamed(nP, << >>, FALSE, TRUE) @@ cQ :> ClassNamed(nR, << cP >>, FALSE, FALSE)
      @@ cR :> ClassNamed(nR, << >>, FALSE, TRUE),
    cP :> ClassNamed(nP, << >>, FALSE, TRUE) @@ cQ :> ClassNamed(nP, << cP >>, FALSE, TRUE)
      @@ cR :> ClassNamed(nR, << cQ >>, FALSE, TRUE) }

\* Two classes with the same name and different bases.
Namesakes(bases, others) ==
  [ types |-> t1 :> ClassType(cP, {}) @@ t2 :> ClassType(cQ, {}) @@ t3 :> ClassType(cR, {})
                @@ t4 :> ClassType(cS, {}) @@ t5 :> ClassType(cT, {})
                @@ t6 :> MadeOf("Reference", t1, {}, 0) @@ t7 :> MadeOf("Reference", t4, {}, 0)
                @@ t8 :> PointerTo(t3, {}),
    classes |-> cP :> ClassNamed(nP, << >>, FALSE, TRUE)
                  @@ cQ :> ClassNamed(nR, bases, FALSE, TRUE)
                  @@ cR :> ClassNamed(nR, others, TRUE, TRUE)
                  @@ cS :> ClassNamed(nS, << >>, FALSE, FALSE)
                  @@ cT :> ClassNamed(nT, << >>, FALSE, TRUE) ]

MCPrograms ==
  { Pointers("const"), Pointers("volatile"), Chains, Arrays, Members,
    Faulty(Basic(nUnknown, {})), Faulty(PointerTo(Null, {})) }
    \cup {Classes(h) : h \in Hierarchies}
    \cup {Namesakes(<< cP >>, << cS >>), Namesakes(<< cP >>, << cS, cT >>)}
=============================================================================
