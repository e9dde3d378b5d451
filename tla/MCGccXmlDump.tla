---------------------------- MODULE MCGccXmlDump ----------------------------
(***************************************************************************)
(* Small translation units for model checking GccXmlDump:                  *)
(*                                                                         *)
(*   namespace g { class a;  class b { virtual f fb(); };                  *)
(*                 class d : b { f fd(...) { class l; } };                 *)
(*                 typedef ... td; }                                       *)
(*                                                                         *)
(* with a pointer type p, a const variant ca of a, the type t that td      *)
(* names, and a group o of the functions.  The types, the start nodes, the *)
(* befriending class of a and the context of l vary.                       *)
(***************************************************************************)
EXTENDS GccXmlDump, TLC

CONSTANTS g, a, b, d, l, fb, fd, p, td, ca, t, o

MCNode == {g, a, b, d, l, fb, fd, p, td, ca, t, o}

CONSTANTS h1, h2

Seq1(x) == << x >>
With(f) == f @@ [n \in MCNode |-> << >>]

\* The translation unit for one choice of everything that varies.
Unit(start, friend, lContext, result, argument, named, fbCode) ==
  [ code |-> (g :> "namespace" @@ a :> "record" @@ b :> "record" @@ d :> "record"
              @@ l :> "record" @@ fb :> fbCode @@ fd :> "function" @@ p :> "pointer"
              @@ td :> "typedef" @@ ca :> "variant" @@ t :> "variant"
              @@ o :> "group"),
    context |-> (a :> g @@ b :> g @@ d :> g @@ l :> lContext @@ fb :> b @@ fd :> d
                 @@ td :> g) @@ [n \in MCNode |-> None],
    target |-> [n \in MCNode |-> None],
    returns |-> With(fb :> Seq1(result)),
    throw |-> With(fd :> << >>),
    types |-> With(fd :> Seq1(argument) @@ p :> Seq1(a) @@ td :> Seq1(named)),
    members |-> With(g :> << a, b, d, td >> @@ b :> Seq1(fb) @@ d :> Seq1(fd)
                     @@ o :> << fb, fd >>),
    bases |-> With(d :> Seq1(b)),
    overrides |-> With(fd :> Seq1(fb)),
    befriending |-> With(a :> friend),
    main |-> (ca :> a @@ t :> named) @@ [n \in MCNode |-> n],
    name |-> (t :> td) @@ [n \in MCNode |-> None],
    qualified |-> [n \in MCNode |-> n = ca],
    defined |-> [n \in MCNode |-> n \in {b, d, l}],
    file |-> (a :> h1 @@ b :> h1 @@ fb :> h1 @@ d :> h2 @@ fd :> h2)
             @@ [n \in MCNode |-> None],
    start |-> start ]

\* Units with the other kinds of node: an alias a of g, a variable b of method type
\* l, an enumeration d in class o, a fundamental type fb, a function fd, and td
\* naming a pointer to const o.
OtherUnit(start, result, exception) ==
  [ code |-> (g :> "namespace" @@ a :> "alias" @@ b :> "variable" @@ d :> "enumeral"
              @@ l :> "compound" @@ fb :> "fundamental" @@ fd :> "function"
              @@ p :> "pointer" @@ td :> "typedef" @@ ca :> "variant" @@ t :> "variant"
              @@ o :> "record"),
    context |-> (a :> g @@ b :> g @@ d :> o @@ fd :> g @@ td :> g @@ o :> g)
                @@ [n \in MCNode |-> None],
    target |-> (a :> g @@ l :> o) @@ [n \in MCNode |-> None],
    returns |-> With(fd :> Seq1(result) @@ l :> Seq1(result)),
    throw |-> With(fd :> Seq1(exception)),
    types |-> With(fd :> Seq1(t) @@ l :> Seq1(fb) @@ b :> Seq1(l) @@ p :> Seq1(ca)
                   @@ td :> Seq1(p)),
    members |-> With(g :> << a, b, td, fd >> @@ o :> Seq1(d)),
    bases |-> With(o :> << >>),
    overrides |-> With(o :> << >>),
    befriending |-> With(fd :> Seq1(o)),
    main |-> (ca :> o @@ t :> p) @@ [n \in MCNode |-> n],
    name |-> (t :> td) @@ [n \in MCNode |-> None],
    qualified |-> [n \in MCNode |-> n = ca],
    defined |-> [n \in MCNode |-> n = o],
    file |-> (a :> h1 @@ b :> h1 @@ fd :> h2 @@ o :> h1) @@ [n \in MCNode |-> None],
    start |-> start ]

MCProgram ==
  { Unit(start, friend, lContext, result, argument, named, "function") :
      start \in {<< g >>, << a >>, << td >>, << d, a >>, << o >>},
      friend \in {<< >>, << d >>, << l >>},
      lContext \in {fd, fb, g},
      result \in {t, ca, d},
      argument \in {t, p},
      named \in {p, d} }
  \cup
  { Unit(start, << l >>, fd, t, p, d, "skipped") : start \in {<< g >>, << a >>, << o >>} }
  \cup
  { OtherUnit(start, result, exception) :
      start \in {<< g >>, << a >>, << b >>, << td >>, << fd, a >>, << l >>},
      result \in {t, d, ca},
      exception \in {fb, o} }
=============================================================================
