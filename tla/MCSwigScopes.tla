---------------------------- MODULE MCSwigScopes ----------------------------
(***************************************************************************)
(* Three classes, jA, jB and jC, in contexts of every kind, for model      *)
(* checking SwigScopes.                                                    *)
(***************************************************************************)
EXTENDS SwigScopes, TLC

CONSTANTS jA, jB, jC

MCClass == {jA, jB, jC}
MCName == {"V", "A", "X", "T<(int)>", "K::V", "print", "Print", "New"}

InScope(n, o) == [kind |-> "namespace", name |-> n, outer |-> o]
InClass(o) == [kind |-> "class", name |-> "T<(int)>", outer |-> o]

Routine(f, a, n, d, r) == [fid |-> f, access |-> a, name |-> n, decl |-> d,
                           returnsNested |-> r]

Methods(extra) ==
  << Routine("constructor", "public", "V", "f()", FALSE),
     Routine("method", "public", "print", "f()", FALSE),
     Routine("constructor", "protected", "V", "f(int)", FALSE),
     Routine("destructor", "protected", "V", "f()", FALSE) >> \o extra

MCMethods ==
  { (jA :> Methods(<< Routine("method", "private", "New", "f()", FALSE) >>) @@
     jB :> Methods(<< Routine("method", "public", "print", "q(const).f()", FALSE),
                      Routine("method", "public", "New", "f()", TRUE) >>) @@
     jC :> << Routine("constructor", "public", "V", "f()", FALSE),
              Routine("destructor", m, "V", "f()", FALSE),
              Routine("converter", "public", "X", "f()", FALSE),
              Routine("method", "private", "Print", "f()", FALSE),
              Routine("method", m, "print", "f()", FALSE) >>) :
      m \in {"private", "public"} }

MCContexts ==
  [MCClass -> {InScope(Global, NoContext), InScope("X", Global), InScope("X", "A"),
               InClass(Global), InClass("A")}]

Shapes ==
  { [ context   |-> x,
      name      |-> (jA :> "V" @@ jB :> b @@ jC :> "T<(int)>"),
      typedef   |-> (jA :> "V" @@ jB :> b @@ jC :> c),
      qualified |-> [q \in MCClass |-> "K::V"],
      methods   |-> m,
      language  |-> l ] :
      x \in MCContexts, b \in {"V", "X"}, c \in {"V", "A"}, m \in MCMethods,
      l \in {"python", "java", "tcl"} }

\* No two classes have the same qualified name, one at most is nested, and no class
\* and namespace in the global scope have the same name.
MCPrograms ==
  { p \in Shapes :
      /\ p.context[jA] = p.context[jB] => p.name[jA] # p.name[jB]
      /\ \A j, k \in MCClass :
           /\ p.context[j].kind = "class" /\ p.context[k].kind = "class" => j = k
           /\ p.context[j] = InScope(Global, NoContext)
                => p.context[k] # InScope(p.name[j], Global) }
=============================================================================
