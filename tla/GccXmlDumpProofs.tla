---------------------------- MODULE GccXmlDumpProofs ----------------------------
(***************************************************************************)
(* Proofs about GccXmlDump for every translation unit: the dump refers to  *)
(* no element that it does not write, writes none twice, and writes with   *)
(* their members exactly the nodes that the start nodes require.  The      *)
(* argument is IInv: an encountered node is written, queued or left for    *)
(* the second phase, a printed reference is to an encountered node or its  *)
(* call is to come, and in the second phase nothing becomes complete.      *)
(***************************************************************************)
EXTENDS GccXmlDump, SequenceTheorems, TLAPS

-----------------------------------------------------------------------------
(* Sequences and the sets of their elements. *)

LEMMA ToSetFacts ==
  ASSUME NEW T, NEW s \in Seq(T)
  PROVE  /\ ToSet(s) = {s[i] : i \in 1 .. Len(s)}
         /\ ToSet(s) \subseteq T
         /\ Len(s) \in Nat
         /\ s = << >> => ToSet(s) = {}
         /\ \A S : ToSet(s) \subseteq S => s \in Seq(S)
<1>1. /\ Len(s) \in Nat
      /\ s \in [1 .. Len(s) -> T]
      /\ DOMAIN s = 1 .. Len(s)
  BY LenProperties
<1>2. ToSet(s) = {s[i] : i \in 1 .. Len(s)}
  BY <1>1 DEF ToSet
<1>3. ToSet(s) \subseteq T
  BY <1>1, <1>2
<1>4. s = << >> => ToSet(s) = {}
  BY <1>2
<1>5. ASSUME NEW S, ToSet(s) \subseteq S PROVE s \in Seq(S)
  <2>1. s \in [1 .. Len(s) -> S]
    BY <1>1, <1>2, <1>5
  <2> QED
    BY <1>1, <2>1
<1> QED
  BY <1>1, <1>2, <1>3, <1>4, <1>5

LEMMA ToSetConcat ==
  ASSUME NEW T, NEW s \in Seq(T), NEW r \in Seq(T)
  PROVE  s \o r \in Seq(T) /\ ToSet(s \o r) = ToSet(s) \cup ToSet(r)
<1>1. /\ s \o r \in Seq(T)
      /\ Len(s \o r) = Len(s) + Len(r)
      /\ \A i \in 1 .. Len(s) + Len(r) :
           (s \o r)[i] = IF i <= Len(s) THEN s[i] ELSE r[i - Len(s)]
  BY ConcatProperties
<1>2. Len(s) \in Nat /\ Len(r) \in Nat
  BY LenProperties
<1>3. /\ ToSet(s) = {s[i] : i \in 1 .. Len(s)}
      /\ ToSet(r) = {r[i] : i \in 1 .. Len(r)}
      /\ ToSet(s \o r) = {(s \o r)[i] : i \in 1 .. Len(s) + Len(r)}
  BY <1>1, ToSetFacts
<1>4. ASSUME NEW x \in ToSet(s) PROVE x \in ToSet(s \o r)
  <2>1. PICK i \in 1 .. Len(s) : x = s[i]
    BY <1>3
  <2>2. i \in 1 .. Len(s) + Len(r) /\ (s \o r)[i] = x
    BY <1>1, <1>2, <2>1
  <2> QED
    BY <1>3, <2>2
<1>5. ASSUME NEW x \in ToSet(r) PROVE x \in ToSet(s \o r)
  <2>1. PICK i \in 1 .. Len(r) : x = r[i]
    BY <1>3
  <2>2. Len(s) + i \in 1 .. Len(s) + Len(r) /\ (s \o r)[Len(s) + i] = x
    BY <1>1, <1>2, <2>1
  <2> QED
    BY <1>3, <2>2
<1>6. ASSUME NEW x \in ToSet(s \o r) PROVE x \in ToSet(s) \cup ToSet(r)
  <2>1. PICK i \in 1 .. Len(s) + Len(r) : x = (s \o r)[i]
    BY <1>3
  <2>2. CASE i <= Len(s)
    BY <1>1, <1>2, <1>3, <2>1, <2>2
  <2>3. CASE ~ (i <= Len(s))
    <3>1. i - Len(s) \in 1 .. Len(r) /\ x = r[i - Len(s)]
      BY <1>1, <1>2, <2>1, <2>3
    <3> QED
      BY <1>3, <3>1
  <2> QED
    BY <2>2, <2>3
<1> QED
  BY <1>1, <1>4, <1>5, <1>6

LEMMA ToSetAppend ==
  ASSUME NEW T, NEW s \in Seq(T), NEW x \in T
  PROVE  /\ Append(s, x) \in Seq(T)
         /\ Len(Append(s, x)) = Len(s) + 1
         /\ \A i \in 1 .. Len(s) : Append(s, x)[i] = s[i]
         /\ Append(s, x)[Len(s) + 1] = x
         /\ ToSet(Append(s, x)) = ToSet(s) \cup {x}
<1>1. /\ Append(s, x) \in Seq(T)
      /\ Len(Append(s, x)) = Len(s) + 1
      /\ \A i \in 1 .. Len(s) : Append(s, x)[i] = s[i]
      /\ Append(s, x)[Len(s) + 1] = x
      /\ Len(s) \in Nat
  BY AppendProperties, LenProperties
<1>2. /\ ToSet(s) = {s[i] : i \in 1 .. Len(s)}
      /\ ToSet(Append(s, x)) = {Append(s, x)[i] : i \in 1 .. Len(s) + 1}
  BY <1>1, ToSetFacts
<1> QED
  BY <1>1, <1>2

LEMMA ToSetHeadTail ==
  ASSUME NEW T, NEW s \in Seq(T), s # << >>
  PROVE  /\ Head(s) \in T
         /\ Tail(s) \in Seq(T)
         /\ ToSet(s) = {Head(s)} \cup ToSet(Tail(s))
         /\ Head(s) = s[1]
         /\ Len(s) \in Nat \ {0}
         /\ Len(Tail(s)) = Len(s) - 1
         /\ \A i \in 1 .. Len(Tail(s)) : Tail(s)[i] = s[i + 1]
<1>1. /\ Head(s) \in T
      /\ Tail(s) \in Seq(T)
      /\ Len(Tail(s)) = Len(s) - 1
      /\ \A i \in 1 .. Len(Tail(s)) : Tail(s)[i] = s[i + 1]
      /\ Len(s) \in Nat \ {0}
  BY HeadTailProperties, EmptySeq
<1>2. Head(s) = s[1]
  BY <1>1
<1>3. /\ ToSet(s) = {s[i] : i \in 1 .. Len(s)}
      /\ ToSet(Tail(s)) = {Tail(s)[i] : i \in 1 .. Len(s) - 1}
  <2>1. ToSet(s) = {s[i] : i \in 1 .. Len(s)}
    BY ToSetFacts
  <2>2. ToSet(Tail(s)) = {Tail(s)[i] : i \in 1 .. Len(Tail(s))}
    BY <1>1, ToSetFacts
  <2> QED
    BY <1>1, <2>1, <2>2
<1>4. ASSUME NEW x \in ToSet(s) PROVE x \in {Head(s)} \cup ToSet(Tail(s))
  <2>1. PICK i \in 1 .. Len(s) : x = s[i]
    BY <1>3
  <2>2. CASE i = 1
    BY <1>2, <2>1, <2>2
  <2>3. CASE i # 1
    <3>1. i - 1 \in 1 .. Len(s) - 1 /\ Tail(s)[i - 1] = s[i]
      BY <1>1, <2>3
    <3> QED
      BY <1>3, <2>1, <3>1
  <2> QED
    BY <2>2, <2>3
<1>5. ASSUME NEW x \in ToSet(Tail(s)) PROVE x \in ToSet(s)
  <2>1. PICK i \in 1 .. Len(s) - 1 : x = Tail(s)[i]
    BY <1>3
  <2>2. i + 1 \in 1 .. Len(s) /\ s[i + 1] = x
    BY <1>1, <2>1
  <2> QED
    BY <1>3, <2>2
<1>6. Head(s) \in ToSet(s)
  BY <1>1, <1>2, <1>3
<1> QED
  BY <1>1, <1>2, <1>4, <1>5, <1>6

-----------------------------------------------------------------------------
(* The calls of the output functions. *)

LEMMA CallsFacts ==
  ASSUME NEW nodes \in Seq(Node), NEW op, NEW c
  PROVE  ToSet(Calls(op, nodes, c)) = {[op |-> op, node |-> m, complete |-> c] : m \in ToSet(nodes)}
<1>1. Len(nodes) \in Nat
  BY LenProperties
<1>2. DOMAIN Calls(op, nodes, c) = 1 .. Len(nodes)
  BY DEF Calls
<1>3. ToSet(nodes) = {nodes[i] : i \in 1 .. Len(nodes)}
  BY ToSetFacts
<1> QED
  BY <1>2, <1>3 DEF ToSet, Calls

LEMMA CallsIn ==
  ASSUME NEW nodes \in Seq(Node), NEW op, NEW c, NEW S,
         \A i \in 1 .. Len(nodes) : [op |-> op, node |-> nodes[i], complete |-> c] \in S
  PROVE  Calls(op, nodes, c) \in Seq(S)
<1>1. Len(nodes) \in Nat
  BY LenProperties
<1>2. Calls(op, nodes, c) \in [1 .. Len(nodes) -> S]
  BY DEF Calls
<1> HIDE DEF Calls
<1> QED
  BY <1>1, <1>2

LEMMA OptionalFacts ==
  ASSUME NEW x \in Node \cup {None}
  PROVE  /\ Optional(x) \in Seq(Node)
         /\ ToSet(Optional(x)) = IF x = None THEN {} ELSE {x}
         /\ \A i \in 1 .. Len(Optional(x)) : Optional(x)[i] = x /\ x # None
<1>1. CASE x = None
  BY <1>1 DEF Optional, ToSet
<1>2. CASE x # None
  <2>1. Optional(x) = << x >> /\ x \in Node
    BY <1>2 DEF Optional
  <2> QED
    BY <2>1, <1>2 DEF ToSet
<1> QED
  BY <1>1, <1>2

LEMMA ConcatIn ==
  ASSUME NEW S, NEW s \in Seq(S), NEW r \in Seq(S)
  PROVE  s \o r \in Seq(S)
BY ConcatProperties

LEMMA TreeFacts ==
  ASSUME tree \in Program, NEW n \in Node
  PROVE  /\ tree \in Tree /\ WellFormed(tree)
         /\ tree.code[n] \in Code
         /\ tree.context[n] \in Node \cup {None}
         /\ tree.target[n] \in Node \cup {None}
         /\ tree.name[n] \in Node \cup {None}
         /\ tree.main[n] \in Node
         /\ tree.returns[n] \in Seq(Node)
         /\ tree.throw[n] \in Seq(Node)
         /\ tree.types[n] \in Seq(Node)
         /\ tree.members[n] \in Seq(Node)
         /\ tree.bases[n] \in Seq(Node)
         /\ tree.overrides[n] \in Seq(Node)
         /\ tree.befriending[n] \in Seq(Node)
         /\ tree.qualified[n] \in BOOLEAN
         /\ tree.file[n] \in File \cup {None}
         /\ tree.start \in Seq(Node)
<1>1. tree \in Tree /\ WellFormed(tree)
  BY DumpAssumption
<1> QED
  BY <1>1 DEF Tree

\* What the front end guarantees of node n.
LEMMA FormFacts ==
  ASSUME tree \in Program, NEW n \in Node
  PROVE  /\ tree.context[n] # None => tree.code[tree.context[n]] \in {"namespace", "record", "function"}
         /\ tree.target[n] # None => tree.code[tree.target[n]] \in {"namespace", "record"}
         /\ \A i \in 1 .. Len(tree.returns[n]) :
              tree.code[tree.returns[n][i]] \in TypeCode \cup {"variant"}
         /\ \A i \in 1 .. Len(tree.throw[n]) :
              tree.code[tree.throw[n][i]] \in TypeCode \cup {"variant"}
         /\ \A i \in 1 .. Len(tree.types[n]) :
              tree.code[tree.types[n][i]] \in TypeCode \cup {"variant"}
         /\ \A i \in 1 .. Len(tree.befriending[n]) : tree.code[tree.befriending[n][i]] = "record"
         /\ tree.code[n] # "function" => tree.overrides[n] = << >>
         /\ tree.code[n] \in TypeCode \cup {"variant"} =>
              tree.code[tree.main[n]] \in TypeCode \cup {"skipped"}
         /\ tree.name[n] # None => tree.code[tree.name[n]] = "typedef"
         /\ tree.code[n] = "typedef" => Len(tree.types[n]) = 1
         /\ tree.code[n] = "group" => \A i \in 1 .. Len(tree.members[n]) :
              tree.code[tree.members[n][i]] \in Code \ {"group", "variant"}
         /\ tree.qualified[n] => tree.code[n] = "variant"
BY TreeFacts DEF WellFormed

LEMMA OutputIn ==
  ASSUME NEW n \in Node, NEW c, NEW S,
         tree.code[n] \in Code,
         Context(tree, n) \in Seq(S),
         Befriending(tree, n) \in Seq(S),
         Overrides(tree, n) \in Seq(S),
         Calls("idref", tree.returns[n], c) \in Seq(S),
         Calls("idref", tree.throw[n], c) \in Seq(S),
         Calls("idref", tree.types[n], c) \in Seq(S),
         Calls("idref", tree.types[n], FALSE) \in Seq(S),
         Calls("add", Optional(tree.target[n]), c) \in Seq(S),
         Calls("add", Optional(tree.target[n]), FALSE) \in Seq(S),
         c => Calls("add", tree.members[n], TRUE) \in Seq(S),
         c => Calls("add", tree.bases[n], TRUE) \in Seq(S),
         tree.code[n] = "variant" => GetIdref(tree, n, c) \in Seq(S)
  PROVE  Output(tree, n, c) \in Seq(S)
<1>0. << >> \in Seq(S)
  OBVIOUS
<1>1. CASE tree.code[n] = "namespace"
  <2>1. Output(tree, n, c) = OutputNamespace(tree, n, c)
    BY <1>1 DEF Output
  <2> QED
    BY <1>0, <2>1, ConcatIn DEF OutputNamespace
<1>2. CASE tree.code[n] = "alias"
  <2>1. Output(tree, n, c) = OutputAlias(tree, n, c)
    BY <1>2 DEF Output
  <2> QED
    BY <2>1, ConcatIn DEF OutputAlias
<1>3. CASE tree.code[n] = "function"
  <2>1. Output(tree, n, c) = OutputFunction(tree, n, c)
    BY <1>3 DEF Output
  <2> QED
    BY <2>1, ConcatIn DEF OutputFunction
<1>4. CASE tree.code[n] = "variable"
  <2>1. Output(tree, n, c) = OutputVariable(tree, n, c)
    BY <1>4 DEF Output
  <2> QED
    BY <2>1, ConcatIn DEF OutputVariable
<1>5. CASE tree.code[n] = "typedef"
  <2>1. Output(tree, n, c) = OutputTypedef(tree, n, c)
    BY <1>5 DEF Output
  <2> QED
    BY <2>1, ConcatIn DEF OutputTypedef
<1>6. CASE tree.code[n] = "record"
  <2>1. Output(tree, n, c) = OutputRecord(tree, n, c)
    BY <1>6 DEF Output
  <2> DEFINE m == IF c /\ tree.defined[n]
                  THEN Calls("add", tree.members[n], TRUE) \o Calls("add", tree.bases[n], TRUE)
                  ELSE << >>
  <2>2. m \in Seq(S)
    <3>1. CASE c /\ tree.defined[n]
      BY <3>1, ConcatIn
    <3>2. CASE ~ (c /\ tree.defined[n])
      BY <3>2, <1>0
    <3> QED
      BY <3>1, <3>2
  <2>3. OutputRecord(tree, n, c) = Context(tree, n) \o Befriending(tree, n) \o m
    BY DEF OutputRecord
  <2> HIDE DEF m
  <2> QED
    BY <2>1, <2>2, <2>3, ConcatIn
<1>7. CASE tree.code[n] = "pointer"
  <2>1. Output(tree, n, c) = OutputPointer(tree, n, c)
    BY <1>7 DEF Output
  <2> QED
    BY <2>1 DEF OutputPointer
<1>8. CASE tree.code[n] = "compound"
  <2>1. Output(tree, n, c) = OutputCompound(tree, n, c)
    BY <1>8 DEF Output
  <2> QED
    BY <2>1, ConcatIn DEF OutputCompound
<1>9. CASE tree.code[n] = "enumeral"
  <2>1. Output(tree, n, c) = OutputEnumeral(tree, n)
    BY <1>9 DEF Output
  <2> QED
    BY <2>1 DEF OutputEnumeral
<1>10. CASE tree.code[n] = "variant"
  <2>1. Output(tree, n, c) = GetIdref(tree, n, c)
    BY <1>10 DEF Output
  <2> QED
    BY <2>1, <1>10
<1>11. CASE tree.code[n] \in {"fundamental", "group", "skipped"}
  <2>1. Output(tree, n, c) = << >>
    BY <1>11 DEF Output
  <2> QED
    BY <1>0, <2>1
<1> QED
  BY <1>1, <1>2, <1>3, <1>4, <1>5, <1>6, <1>7, <1>8, <1>9, <1>10, <1>11 DEF Code

\* The calls that writing a node makes: types where types are referred to, only
\* plain mentions, and nothing complete for an incomplete node that overrides
\* nothing.
LEMMA OutputCalls ==
  ASSUME tree \in Program, NEW n \in Node, NEW c \in BOOLEAN
  PROVE  Output(tree, n, c) \in
           Seq({r \in Call : /\ TypeCall(r)
                             /\ LocalContextsPlain => Plain(r)
                             /\ ~ c /\ tree.overrides[n] = << >> => ~ r.complete})
<1> DEFINE S == {r \in Call : /\ TypeCall(r)
                              /\ LocalContextsPlain => Plain(r)
                              /\ ~ c /\ tree.overrides[n] = << >> => ~ r.complete}
           R(op, m, d) == [op |-> op, node |-> m, complete |-> d]
<1>1. \A m \in Node, d \in BOOLEAN : \A op \in {"idref", "add"} :
        R(op, m, d) \in S <=>
          /\ op = "idref" => tree.code[m] \in TypeCode \cup {"variant"}
          /\ LocalContextsPlain =>
               d \/ op = "idref" \/ (tree.code[m] # "group" /\ tree.overrides[m] = << >>)
          /\ ~ c /\ tree.overrides[n] = << >> => ~ d
  BY DEF Call, TypeCall, Plain
<1> HIDE DEF S
<1>2. \A m \in Node : tree.code[m] \notin {"function", "group"} => R("add", m, FALSE) \in S /\ R("add", m, c) \in S
  <2>1. \A m \in Node : tree.code[m] # "function" => tree.overrides[m] = << >>
    BY FormFacts
  <2> QED
    BY <1>1, <2>1
<1>3. \A nodes \in Seq(Node) :
        (\A i \in 1 .. Len(nodes) : nodes[i] \in Node /\ tree.code[nodes[i]] \in TypeCode \cup {"variant"})
          => Calls("idref", nodes, c) \in Seq(S) /\ Calls("idref", nodes, FALSE) \in Seq(S)
  BY <1>1, CallsIn
<1>4. Context(tree, n) \in Seq(S)
  <2>1. tree.context[n] # None => R("add", tree.context[n], FALSE) \in S
    <3>1. tree.context[n] # None => /\ tree.context[n] \in Node
                                    /\ tree.code[tree.context[n]] \in {"namespace", "record", "function"}
      BY TreeFacts, FormFacts
    <3>2. LocalContextsPlain /\ tree.context[n] # None => tree.overrides[tree.context[n]] = << >>
      BY DEF LocalContextsPlain
    <3> QED
      BY <1>1, <3>1, <3>2
  <2> QED
    BY ZenonT(30), <2>1, TreeFacts, OptionalFacts, CallsIn DEF Context
<1>5. Befriending(tree, n) \in Seq(S)
  BY ZenonT(30), <1>2, TreeFacts, FormFacts, ElementOfSeq, CallsIn DEF Befriending
<1>6. \A nodes \in Seq(Node) : (c \/ nodes = tree.overrides[n]) => Calls("add", nodes, TRUE) \in Seq(S)
  <2> SUFFICES ASSUME NEW nodes \in Seq(Node), c \/ nodes = tree.overrides[n],
                      NEW i \in 1 .. Len(nodes)
               PROVE  R("add", nodes[i], TRUE) \in S
    BY CallsIn
  <2>1. nodes[i] \in Node /\ nodes # << >>
    BY ElementOfSeq
  <2> QED
    BY <1>1, <2>1
<1>7. /\ Calls("add", Optional(tree.target[n]), c) \in Seq(S)
      /\ Calls("add", Optional(tree.target[n]), FALSE) \in Seq(S)
  <2>1. tree.target[n] # None => tree.target[n] \in Node /\ tree.code[tree.target[n]] \notin {"function", "group"}
    BY TreeFacts, FormFacts
  <2>2. /\ Optional(tree.target[n]) \in Seq(Node)
        /\ \A i \in 1 .. Len(Optional(tree.target[n])) :
             Optional(tree.target[n])[i] = tree.target[n] /\ tree.target[n] # None
    BY TreeFacts, OptionalFacts
  <2> QED
    BY <1>2, <2>1, <2>2, CallsIn
<1>8. tree.code[n] = "variant" => GetIdref(tree, n, c) \in Seq(S)
  <2> SUFFICES ASSUME tree.code[n] = "variant"
               PROVE  GetIdref(tree, n, c) \in Seq(S)
    OBVIOUS
  <2>1. tree.main[n] \in Node /\ tree.code[tree.main[n]] \notin {"function", "group"}
    BY TreeFacts, FormFacts DEF TypeCode
  <2>2. Calls("add", << tree.main[n] >>, c) \in Seq(S)
    <3>1. << tree.main[n] >> \in Seq(Node) /\ \A i \in 1 .. Len(<< tree.main[n] >>) : << tree.main[n] >>[i] = tree.main[n]
      BY <2>1
    <3> QED
      BY <1>2, <2>1, <3>1, CallsIn
  <2>3. tree.name[n] # None => tree.name[n] \in Node /\ tree.code[tree.name[n]] \notin {"function", "group"}
    BY TreeFacts, FormFacts
  <2>4. Calls("add", Optional(tree.name[n]), c) \in Seq(S)
    <3>1. /\ Optional(tree.name[n]) \in Seq(Node)
          /\ \A i \in 1 .. Len(Optional(tree.name[n])) :
               Optional(tree.name[n])[i] = tree.name[n] /\ tree.name[n] # None
      BY TreeFacts, OptionalFacts
    <3> QED
      BY <1>2, <2>3, <3>1, CallsIn
  <2> QED
    BY <2>2, <2>4, ConcatIn DEF GetIdref
<1>9. /\ Calls("idref", tree.returns[n], c) \in Seq(S)
      /\ Calls("idref", tree.throw[n], c) \in Seq(S)
      /\ Calls("idref", tree.types[n], c) \in Seq(S)
      /\ Calls("idref", tree.types[n], FALSE) \in Seq(S)
  BY ZenonT(30), <1>3, TreeFacts, FormFacts, ElementOfSeq
<1>10. Overrides(tree, n) \in Seq(S)
  BY <1>6, TreeFacts DEF Overrides
<1>11. c => Calls("add", tree.members[n], TRUE) \in Seq(S) /\ Calls("add", tree.bases[n], TRUE) \in Seq(S)
  BY <1>6, TreeFacts
<1>12. tree.code[n] \in Code
  BY TreeFacts
<1>13. Output(tree, n, c) \in Seq(S)
  BY <1>4, <1>5, <1>7, <1>8, <1>9, <1>10, <1>11, <1>12, OutputIn
<1> QED
  BY <1>13 DEF S

\* What a call of xml_print_type_idref or xml_add_node hands on.
LEMMA ExpandElements ==
  ASSUME tree \in Program, NEW r \in Call, r.op # "real"
  PROVE  LET n == r.node
             R(op, m) == [op |-> op, node |-> m, complete |-> r.complete]
         IN  /\ Expand(tree, r) \in Seq(Call)
             /\ ToSet(Expand(tree, r)) =
                  IF r.op = "idref"
                  THEN {R("add", tree.main[n])}
                         \cup (IF tree.name[n] = None THEN {} ELSE {R("add", tree.name[n])})
                         \cup (IF tree.qualified[n] THEN {R("add", n)} ELSE {})
                  ELSE IF tree.code[n] = "skipped" THEN {}
                  ELSE IF tree.code[n] = "group"
                  THEN {R("add", m) : m \in ToSet(tree.members[n])}
                  ELSE IF tree.code[n] = "typedef"
                  THEN {R("add", Named(tree, n))}
                         \cup (IF tree.code[Named(tree, n)] = "skipped" THEN {} ELSE {R("real", n)})
                  ELSE {R("real", n)}
<1> DEFINE n == r.node
           c == r.complete
           R(op, m) == [op |-> op, node |-> m, complete |-> c]
<1>1. n \in Node /\ c \in BOOLEAN /\ r.op \in {"idref", "add"}
  BY DEF Call
<1>2. \A nodes \in Seq(Node) : \A op \in {"idref", "add", "real"} :
        /\ Calls(op, nodes, c) \in Seq(Call)
        /\ ToSet(Calls(op, nodes, c)) = {R(op, m) : m \in ToSet(nodes)}
  <2> SUFFICES ASSUME NEW nodes \in Seq(Node), NEW op \in {"idref", "add", "real"}
               PROVE  /\ Calls(op, nodes, c) \in Seq(Call)
                      /\ ToSet(Calls(op, nodes, c)) = {R(op, m) : m \in ToSet(nodes)}
    OBVIOUS
  <2>1. \A i \in 1 .. Len(nodes) : R(op, nodes[i]) \in Call
    <3>1. \A i \in 1 .. Len(nodes) : nodes[i] \in Node
      BY ElementOfSeq
    <3> QED
      BY <1>1, <3>1 DEF Call
  <2> QED
    BY <2>1, CallsIn, CallsFacts
<1>3. \A m \in Node : \A op \in {"idref", "add", "real"} :
        /\ Calls(op, << m >>, c) \in Seq(Call)
        /\ ToSet(Calls(op, << m >>, c)) = {R(op, m)}
  <2> SUFFICES ASSUME NEW m \in Node, NEW op \in {"idref", "add", "real"}
               PROVE  /\ Calls(op, << m >>, c) \in Seq(Call)
                      /\ ToSet(Calls(op, << m >>, c)) = {R(op, m)}
    OBVIOUS
  <2>1. << m >> \in Seq(Node) /\ ToSet(<< m >>) = {m}
    BY DEF ToSet
  <2> DEFINE s == << m >>
  <2> HIDE DEF s
  <2>2. s \in Seq(Node) /\ ToSet(s) = {m}
    BY <2>1 DEF s
  <2>3. Calls(op, s, c) \in Seq(Call) /\ ToSet(Calls(op, s, c)) = {R(op, x) : x \in ToSet(s)}
    BY <1>2, <2>2
  <2>4. {R(op, x) : x \in ToSet(s)} = {R(op, m)}
    BY <2>2
  <2> QED
    BY <2>3, <2>4 DEF s
<1>4. << >> \in Seq(Call) /\ ToSet(<< >>) = {}
  BY DEF ToSet
<1> HIDE DEF n, c, R
<1>5. CASE r.op = "idref"
  <2>1. /\ Calls("add", << tree.main[n] >>, c) \in Seq(Call)
        /\ ToSet(Calls("add", << tree.main[n] >>, c)) = {R("add", tree.main[n])}
    BY <1>1, <1>3, TreeFacts
  <2>2. /\ Calls("add", Optional(tree.name[n]), c) \in Seq(Call)
        /\ ToSet(Calls("add", Optional(tree.name[n]), c)) =
             IF tree.name[n] = None THEN {} ELSE {R("add", tree.name[n])}
    <3>1. /\ Optional(tree.name[n]) \in Seq(Node)
          /\ ToSet(Optional(tree.name[n])) = IF tree.name[n] = None THEN {} ELSE {tree.name[n]}
      BY <1>1, TreeFacts, OptionalFacts
    <3> QED
      BY <3>1, <1>2
  <2>3. /\ GetIdref(tree, n, c) \in Seq(Call)
        /\ ToSet(GetIdref(tree, n, c)) = {R("add", tree.main[n])}
             \cup (IF tree.name[n] = None THEN {} ELSE {R("add", tree.name[n])})
    BY <2>1, <2>2, ToSetConcat DEF GetIdref
  <2> DEFINE q == IF tree.qualified[n] THEN Calls("add", << n >>, c) ELSE << >>
  <2>4. q \in Seq(Call) /\ ToSet(q) = IF tree.qualified[n] THEN {R("add", n)} ELSE {}
    BY <1>1, <1>3, <1>4
  <2>5. Expand(tree, r) = GetIdref(tree, n, c) \o q
    BY <1>5 DEF Expand, PrintTypeIdref, n, c
  <2> HIDE DEF q
  <2>6. /\ Expand(tree, r) \in Seq(Call)
        /\ ToSet(Expand(tree, r)) = ToSet(GetIdref(tree, n, c)) \cup ToSet(q)
    BY <2>3, <2>4, <2>5, ToSetConcat
  <2> QED
    BY <1>5, <2>3, <2>4, <2>6 DEF n, c, R
<1>6. CASE r.op # "idref" /\ tree.code[n] = "skipped"
  <2>1. Expand(tree, r) = << >>
    BY <1>6 DEF Expand, n
  <2> QED
    BY <1>6, <1>4, <2>1 DEF n
<1>7. CASE r.op # "idref" /\ tree.code[n] = "group"
  <2>1. Expand(tree, r) = Calls("add", tree.members[n], c)
    BY <1>7 DEF Expand, n, c
  <2>2. tree.members[n] \in Seq(Node)
    BY <1>1, TreeFacts
  <2> QED
    BY <1>7, <2>1, <2>2, <1>2 DEF n, c, R
<1>8. CASE r.op # "idref" /\ tree.code[n] = "typedef"
  <2>1. Expand(tree, r) = AddTypedef(tree, n, c)
    BY <1>8 DEF Expand, n, c
  <2>2. Named(tree, n) \in Node
    <3>0. Len(tree.types[n]) = 1
      BY <1>1, <1>8, FormFacts
    <3>1. 1 \in 1 .. Len(tree.types[n]) /\ tree.types[n] \in Seq(Node)
      BY <1>1, <3>0, TreeFacts
    <3>2. tree.types[n][1] \in Node
      BY <3>1, ElementOfSeq
    <3> QED
      BY <3>2, TreeFacts DEF Named
  <2> DEFINE q == IF tree.code[Named(tree, n)] = "skipped" THEN << >> ELSE Calls("real", << n >>, c)
  <2>3. q \in Seq(Call) /\ ToSet(q) = IF tree.code[Named(tree, n)] = "skipped" THEN {} ELSE {R("real", n)}
    BY <1>1, <1>3, <1>4
  <2>4. AddTypedef(tree, n, c) = Calls("add", << Named(tree, n) >>, c) \o q
    BY DEF AddTypedef
  <2> HIDE DEF q
  <2>5. /\ Calls("add", << Named(tree, n) >>, c) \in Seq(Call)
        /\ ToSet(Calls("add", << Named(tree, n) >>, c)) = {R("add", Named(tree, n))}
    BY <1>3, <2>2
  <2> DEFINE s == Calls("add", << Named(tree, n) >>, c)
  <2> HIDE DEF s
  <2>6. s \in Seq(Call) /\ ToSet(s) = {R("add", Named(tree, n))}
    BY <2>5 DEF s
  <2>7. s \o q \in Seq(Call) /\ ToSet(s \o q) = ToSet(s) \cup ToSet(q)
    BY <2>3, <2>6, ToSetConcat
  <2>8. Expand(tree, r) = s \o q
    BY <2>1, <2>4 DEF s
  <2> QED
    BY <1>8, <2>3, <2>6, <2>7, <2>8 DEF n, c, R
<1>9. CASE r.op # "idref" /\ tree.code[n] \notin {"skipped", "group", "typedef"}
  <2>1. Expand(tree, r) = Calls("real", << n >>, c)
    BY <1>9 DEF Expand, n, c
  <2> QED
    BY <1>1, <1>3, <1>9, <2>1 DEF n, c, R
<1> QED
  BY <1>5, <1>6, <1>7, <1>8, <1>9

LEMMA NamedFacts ==
  ASSUME tree \in Program, NEW n \in Node, tree.code[n] = "typedef"
  PROVE  Named(tree, n) \in Node /\ tree.code[Named(tree, n)] \in TypeCode \cup {"skipped"}
<1>0. Len(tree.types[n]) = 1
  BY FormFacts
<1>1. 1 \in 1 .. Len(tree.types[n]) /\ tree.types[n] \in Seq(Node)
  BY <1>0, TreeFacts
<1>2. tree.types[n][1] \in Node /\ tree.code[tree.types[n][1]] \in TypeCode \cup {"variant"}
  BY <1>1, FormFacts, ElementOfSeq
<1> QED
  BY <1>2, TreeFacts, FormFacts DEF Named

\* Handing a call on changes nothing of what it asks for.
LEMMA ExpandFacts ==
  ASSUME tree \in Program, NEW r \in Call, r.op # "real", TypeCall(r)
  PROVE  /\ Expand(tree, r) \in Seq(Call)
         /\ \A q \in ToSet(Expand(tree, r)) :
              /\ q \in Call
              /\ q.complete = r.complete
              /\ TypeCall(q)
              /\ (Plain(r) => Plain(q))
              /\ Added(tree, q) \subseteq Added(tree, r)
         /\ \A m \in Added(tree, r) : \E q \in ToSet(Expand(tree, r)) : m \in Added(tree, q)
         /\ \A m \in Printed(tree, r) : \E q \in ToSet(Expand(tree, r)) : m \in Printed(tree, q)
<1> DEFINE n == r.node
           c == r.complete
           R(op, m) == [op |-> op, node |-> m, complete |-> c]
           Add(m) == IF tree.code[m] = "typedef" /\ Returned(tree, m) # {}
                     THEN {m, Named(tree, m)} ELSE Returned(tree, m)
<1>1. n \in Node /\ c \in BOOLEAN /\ r.op \in {"idref", "add"}
  BY DEF Call
<1>2. Expand(tree, r) \in Seq(Call) /\ ToSet(Expand(tree, r)) \subseteq Call
  BY ExpandElements, ToSetFacts
<1>3. \A m : /\ Added(tree, R("real", m)) = {m}
             /\ tree.code[m] # "group" => Added(tree, R("add", m)) = Add(m)
             /\ Printed(tree, R("add", m)) = Returned(tree, m)
             /\ Printed(tree, R("real", m)) = Returned(tree, m)
             /\ TypeCall(R("add", m)) /\ TypeCall(R("real", m))
             /\ \A op : Plain(R(op, m)) <=>
                  c \/ op = "idref" \/ (tree.code[m] # "group" /\ tree.overrides[m] = << >>)
  BY DEF Added, Printed, TypeCall, Plain
<1>4. \A m \in Node : tree.code[m] # "function" => tree.overrides[m] = << >>
  BY FormFacts
<1>5. \A m : Returned(tree, m) \subseteq {m}
  BY DEF Returned
<1>6. \A m, op : R(op, m).complete = c
  OBVIOUS
<1> DEFINE E == ToSet(Expand(tree, r))
<1>7. CASE r.op = "idref"
  <2>1. E = {R("add", tree.main[n])}
              \cup (IF tree.name[n] = None THEN {} ELSE {R("add", tree.name[n])})
              \cup (IF tree.qualified[n] THEN {R("add", n)} ELSE {})
    BY <1>7, ExpandElements
  <2>2. /\ tree.code[tree.main[n]] \in TypeCode \cup {"skipped"}
        /\ tree.main[n] \in Node
    BY <1>1, <1>7, FormFacts, TreeFacts DEF TypeCall
  <2>3. tree.name[n] # None => tree.code[tree.name[n]] = "typedef" /\ tree.name[n] \in Node
    BY <1>1, FormFacts, TreeFacts
  <2>4. tree.qualified[n] => tree.code[n] = "variant" /\ Add(n) = {n} /\ Returned(tree, n) = {n}
    BY <1>1, FormFacts DEF Returned
  <2>5. Added(tree, r) = Add(tree.main[n]) \cup (IF tree.name[n] = None THEN {} ELSE Add(tree.name[n]))
                           \cup (IF tree.qualified[n] THEN {n} ELSE {})
    BY <1>7 DEF Added
  <2>6. Printed(tree, r) \subseteq
          Returned(tree, tree.main[n])
            \cup (IF tree.name[n] = None THEN {} ELSE Returned(tree, tree.name[n]))
            \cup (IF tree.qualified[n] THEN {n} ELSE {})
    BY <1>7 DEF Printed
  <2>7. /\ Added(tree, R("add", tree.main[n])) = Add(tree.main[n])
        /\ tree.name[n] # None => Added(tree, R("add", tree.name[n])) = Add(tree.name[n])
        /\ tree.qualified[n] => Added(tree, R("add", n)) = {n}
    BY <2>2, <2>3, <2>4, <1>3 DEF TypeCode
  <2>8. /\ Plain(R("add", tree.main[n]))
        /\ tree.name[n] # None => Plain(R("add", tree.name[n]))
        /\ tree.qualified[n] => Plain(R("add", n))
    BY <1>1, <1>3, <1>4, <2>2, <2>3, <2>4 DEF TypeCode
  <2> HIDE DEF R, E, Add
  <2>9. \A q \in E : /\ q.complete = c /\ TypeCall(q) /\ Plain(q)
                     /\ Added(tree, q) \subseteq Added(tree, r)
    BY <1>3, <1>6, <2>1, <2>5, <2>7, <2>8
  <2>10. \A m \in Added(tree, r) : \E q \in E : m \in Added(tree, q)
    BY <2>1, <2>5, <2>7
  <2>11. \A m \in Printed(tree, r) : \E q \in E : m \in Printed(tree, q)
    BY <1>3, <2>1, <2>4, <2>6
  <2> QED
    BY <1>2, <2>9, <2>10, <2>11 DEF E, c
<1>8. CASE r.op = "add"
  <2>0. /\ Printed(tree, r) = Returned(tree, n)
        /\ tree.code[n] # "group" => Added(tree, r) = Add(n)
        /\ Plain(r) <=> c \/ (tree.code[n] # "group" /\ tree.overrides[n] = << >>)
    BY <1>8 DEF Printed, Added, Plain
  <2>1. CASE tree.code[n] = "skipped"
    <3>1. E = {} /\ Returned(tree, n) = {} /\ Add(n) = {}
      BY <1>8, <2>1, ExpandElements DEF Returned
    <3> QED
      BY <1>2, <2>0, <2>1, <3>1
  <2>2. CASE tree.code[n] = "group"
    <3>1. E = {R("add", m) : m \in ToSet(tree.members[n])}
      BY <1>8, <2>2, ExpandElements
    <3>2. ToSet(tree.members[n]) = {tree.members[n][i] : i \in 1 .. Len(tree.members[n])}
      BY <1>1, TreeFacts, ToSetFacts
    <3>3. \A m \in ToSet(tree.members[n]) : tree.code[m] # "group"
      BY <1>1, <2>2, <3>2, FormFacts
    <3>4. Added(tree, r) = UNION {Add(m) : m \in ToSet(tree.members[n])}
      <4>1. Added(tree, r) = UNION {Add(tree.members[n][i]) : i \in 1 .. Len(tree.members[n])}
        BY <1>8, <2>2 DEF Added
      <4> HIDE DEF Add
      <4> QED
        BY <4>1, <3>2
    <3>5. Printed(tree, r) = {}
      BY <2>0, <2>2 DEF Returned
    <3> HIDE DEF R, E, Add
    <3>6. \A q \in E : /\ q.complete = c /\ TypeCall(q) /\ (Plain(r) => Plain(q))
                       /\ Added(tree, q) \subseteq Added(tree, r)
      BY <1>3, <1>6, <2>0, <2>2, <3>1, <3>3, <3>4
    <3>7. \A m \in Added(tree, r) : \E q \in E : m \in Added(tree, q)
      BY <1>3, <3>1, <3>3, <3>4
    <3> QED
      BY <1>2, <3>5, <3>6, <3>7 DEF E, c
  <2>3. CASE tree.code[n] = "typedef"
    <3>1. E = {R("add", Named(tree, n))}
                \cup (IF tree.code[Named(tree, n)] = "skipped" THEN {} ELSE {R("real", n)})
      BY <1>8, <2>3, ExpandElements
    <3>2. Named(tree, n) \in Node /\ tree.code[Named(tree, n)] \in TypeCode \cup {"skipped"}
      BY <1>1, <2>3, NamedFacts
    <3>3. Add(Named(tree, n)) = IF tree.code[Named(tree, n)] = "skipped" THEN {} ELSE {Named(tree, n)}
      BY <3>2 DEF Returned, TypeCode
    <3>4. /\ Returned(tree, n) = IF tree.code[Named(tree, n)] = "skipped" THEN {} ELSE {n}
          /\ Add(n) = IF tree.code[Named(tree, n)] = "skipped" THEN {} ELSE {n, Named(tree, n)}
      BY <2>3 DEF Returned
    <3>5. Added(tree, R("add", Named(tree, n))) = Add(Named(tree, n))
      BY <1>3, <3>2 DEF TypeCode
    <3>6. Plain(R("add", Named(tree, n))) /\ Plain(R("real", n))
      BY <1>1, <1>3, <1>4, <2>3, <3>2 DEF TypeCode
    <3> HIDE DEF R, E, Add
    <3>7. \A q \in E : /\ q.complete = c /\ TypeCall(q) /\ Plain(q)
                       /\ Added(tree, q) \subseteq Added(tree, r)
      BY <1>3, <1>6, <2>0, <2>3, <3>1, <3>3, <3>4, <3>5, <3>6
    <3>8. \A m \in Added(tree, r) : \E q \in E : m \in Added(tree, q)
      <4> SUFFICES ASSUME NEW m \in Added(tree, r) PROVE \E q \in E : m \in Added(tree, q)
        OBVIOUS
      <4>1. tree.code[Named(tree, n)] # "skipped" /\ m \in {n, Named(tree, n)}
        BY <2>0, <2>3, <3>4
      <4>2. R("add", Named(tree, n)) \in E /\ R("real", n) \in E
        BY <3>1, <4>1
      <4>3. CASE m = n
        BY <1>3, <4>2, <4>3
      <4>4. CASE m = Named(tree, n)
        BY <3>3, <3>5, <4>1, <4>2, <4>4
      <4> QED
        BY <4>1, <4>3, <4>4
    <3>9. \A m \in Printed(tree, r) : \E q \in E : m \in Printed(tree, q)
      BY <1>3, <2>0, <3>1, <3>4
    <3> QED
      BY <1>2, <3>7, <3>8, <3>9 DEF E, c
  <2>4. CASE tree.code[n] \notin {"skipped", "group", "typedef"}
    <3>1. E = {R("real", n)}
      BY <1>8, <2>4, ExpandElements
    <3>2. Returned(tree, n) = {n} /\ Add(n) = {n}
      BY <2>4 DEF Returned
    <3> HIDE DEF R, E, Add
    <3>3. \A q \in E : /\ q.complete = c /\ TypeCall(q) /\ (Plain(r) => Plain(q))
                       /\ Added(tree, q) \subseteq Added(tree, r)
      BY <1>3, <1>6, <2>0, <2>4, <3>1, <3>2
    <3>4. \A m \in Added(tree, r) : \E q \in E : m \in Added(tree, q)
      BY <1>3, <2>0, <2>4, <3>1, <3>2
    <3>5. \A m \in Printed(tree, r) : \E q \in E : m \in Printed(tree, q)
      BY <1>3, <2>0, <3>1, <3>2
    <3> QED
      BY <1>2, <3>3, <3>4, <3>5 DEF E, c
  <2> QED
    BY <2>1, <2>2, <2>3, <2>4
<1> QED
  BY <1>1, <1>7, <1>8

-----------------------------------------------------------------------------
(* The parts of the invariant. *)

LEMMA PrintedIn ==
  ASSUME tree \in Program, NEW r \in Call
  PROVE  Printed(tree, r) \subseteq Node
<1>1. r.node \in Node
  BY DEF Call
<1>2. \A n \in Node : Returned(tree, n) \subseteq Node
  BY DEF Returned
<1>3. /\ tree.main[r.node] \in Node
      /\ tree.name[r.node] # None => tree.name[r.node] \in Node
  BY <1>1, TreeFacts
<1> QED
  BY <1>1, <1>2, <1>3 DEF Printed

LEMMA AddedIn ==
  ASSUME tree \in Program, NEW r \in Call
  PROVE  Added(tree, r) \subseteq Node
<1> DEFINE Add(n) == IF tree.code[n] = "typedef" /\ Returned(tree, n) # {}
                     THEN {n, Named(tree, n)} ELSE Returned(tree, n)
<1>1. r.node \in Node /\ r.op \in {"idref", "add", "real"}
  BY DEF Call
<1>2. \A n \in Node : Add(n) \subseteq Node
  BY NamedFacts DEF Returned
<1>3. /\ tree.main[r.node] \in Node
      /\ tree.name[r.node] # None => tree.name[r.node] \in Node
      /\ tree.members[r.node] \in Seq(Node)
  BY <1>1, TreeFacts
<1>4. \A i \in 1 .. Len(tree.members[r.node]) : tree.members[r.node][i] \in Node
  BY <1>3, ElementOfSeq
<1>5. Added(tree, r) =
        CASE r.op = "real" -> {r.node}
          [] r.op = "idref" -> Add(tree.main[r.node])
               \cup (IF tree.name[r.node] = None THEN {} ELSE Add(tree.name[r.node]))
               \cup (IF tree.qualified[r.node] THEN {r.node} ELSE {})
          [] OTHER -> IF tree.code[r.node] = "group"
                      THEN UNION {Add(tree.members[r.node][i]) : i \in 1 .. Len(tree.members[r.node])}
                      ELSE Add(r.node)
  BY DEF Added
<1> HIDE DEF Add
<1> QED
  BY <1>1, <1>2, <1>3, <1>4, <1>5

\* xml_add_node_real adds its node, and returns its id.
LEMMA RealFacts ==
  ASSUME NEW r \in Call, r.op = "real"
  PROVE  Printed(tree, r) \subseteq {r.node} /\ Added(tree, r) = {r.node}
BY DEF Printed, Returned, Added

LEMMA TreeKept ==
  ASSUME tree' = tree
  PROVE  /\ \A r : TypeCall(r)' <=> TypeCall(r)
         /\ \A r : Plain(r)' <=> Plain(r)
         /\ LocalContextsPlain' <=> LocalContextsPlain
BY DEF TypeCall, Plain, LocalContextsPlain

LEMMA TypeFacts ==
  ASSUME IInv
  PROVE  /\ tree \in Program
         /\ index \in [Node -> Nat]
         /\ complete \in [Node -> BOOLEAN]
         /\ next_index \in Nat \ {0}
         /\ queue \in Seq(Node)
         /\ require_complete \in BOOLEAN
         /\ calls \in Seq(Call)
         /\ unvisited \subseteq Node
         /\ file_queue \in Seq(File)
         /\ written \in [Node -> Nat]
         /\ filesWritten \in Nat
         /\ ToSet(calls) \subseteq Call
         /\ ToSet(queue) \subseteq Node
         /\ calls = << >> => ToSet(calls) = {}
         /\ queue = << >> => ToSet(queue) = {}
BY ToSetFacts DEF IInv, TypeOK

\* In a closed set every call of a sequence finds the nodes it requires.
LEMMA ClosedFacts ==
  ASSUME tree \in Program, NEW S, S \subseteq Node
  PROVE  CompletionClosed(tree, S) <=>
           /\ \A r \in ToSet(Calls("add", tree.start, TRUE)) : r.complete => Added(tree, r) \subseteq S
           /\ \A n \in S : \A r \in ToSet(Output(tree, n, TRUE)) :
                r.complete => Added(tree, r) \subseteq S
<1>1. \A s \in Seq(Call) :
        (\A i \in 1 .. Len(s) : s[i].complete => Added(tree, s[i]) \subseteq S)
          <=> (\A r \in ToSet(s) : r.complete => Added(tree, r) \subseteq S)
  <2> SUFFICES ASSUME NEW s \in Seq(Call)
               PROVE  (\A i \in 1 .. Len(s) : s[i].complete => Added(tree, s[i]) \subseteq S)
                        <=> (\A r \in ToSet(s) : r.complete => Added(tree, r) \subseteq S)
    OBVIOUS
  <2>1. ToSet(s) = {s[i] : i \in 1 .. Len(s)}
    BY ToSetFacts
  <2> QED
    BY <2>1
<1>2. Calls("add", tree.start, TRUE) \in Seq(Call)
  <2>1. tree.start \in Seq(Node)
    BY DumpAssumption DEF Tree
  <2>2. \A i \in 1 .. Len(tree.start) :
          [op |-> "add", node |-> tree.start[i], complete |-> TRUE] \in Call
    BY <2>1, ElementOfSeq DEF Call
  <2> QED
    BY <2>1, <2>2, CallsIn
<1>3. \A n \in S : Output(tree, n, TRUE) \in Seq(Call)
  <2> SUFFICES ASSUME NEW n \in Node PROVE Output(tree, n, TRUE) \in Seq(Call)
    OBVIOUS
  <2> DEFINE T == {r \in Call : /\ TypeCall(r)
                                /\ LocalContextsPlain => Plain(r)
                                /\ ~ TRUE /\ tree.overrides[n] = << >> => ~ r.complete}
  <2>1. Output(tree, n, TRUE) \in Seq(T) /\ T \subseteq Call
    BY OutputCalls
  <2> HIDE DEF T
  <2>2. ToSet(Output(tree, n, TRUE)) \subseteq Call
    BY <2>1, ToSetFacts
  <2> QED
    BY <2>1, <2>2, ToSetFacts
<1> QED
  BY <1>1, <1>2, <1>3 DEF CompletionClosed

LEMMA OutputFacts ==
  ASSUME tree \in Program, NEW n \in Node, NEW c \in BOOLEAN
  PROVE  /\ Output(tree, n, c) \in Seq(Call)
         /\ \A r \in ToSet(Output(tree, n, c)) :
              /\ r \in Call
              /\ TypeCall(r)
              /\ (LocalContextsPlain => Plain(r))
              /\ (~ c /\ tree.overrides[n] = << >> => ~ r.complete)
<1> DEFINE T == {r \in Call : /\ TypeCall(r)
                              /\ LocalContextsPlain => Plain(r)
                              /\ ~ c /\ tree.overrides[n] = << >> => ~ r.complete}
<1>1. Output(tree, n, c) \in Seq(T)
  BY OutputCalls
<1>2. T \subseteq Call
  OBVIOUS
<1> HIDE DEF T
<1>3. ToSet(Output(tree, n, c)) \subseteq T
  BY <1>1, ToSetFacts
<1>4. Output(tree, n, c) \in Seq(Call)
  <2>1. ToSet(Output(tree, n, c)) \subseteq Call
    BY <1>2, <1>3
  <2> QED
    BY <1>1, <2>1, ToSetFacts
<1> QED
  BY <1>3, <1>4 DEF T

LEMMA StartFacts ==
  ASSUME tree \in Program
  PROVE  /\ Calls("add", tree.start, TRUE) \in Seq(Call)
         /\ \A r \in ToSet(Calls("add", tree.start, TRUE)) :
              r \in Call /\ r.complete /\ r.op = "add"
<1>1. tree.start \in Seq(Node)
  BY DumpAssumption DEF Tree
<1>2. \A i \in 1 .. Len(tree.start) :
        [op |-> "add", node |-> tree.start[i], complete |-> TRUE] \in Call
  BY <1>1, ElementOfSeq DEF Call
<1>3. Calls("add", tree.start, TRUE) \in Seq(Call)
  BY <1>1, <1>2, CallsIn
<1>4. ToSet(Calls("add", tree.start, TRUE)) =
        {[op |-> "add", node |-> m, complete |-> TRUE] : m \in ToSet(tree.start)}
  BY <1>1, CallsFacts
<1> DEFINE s == Calls("add", tree.start, TRUE)
<1> HIDE DEF s
<1>5. ToSet(s) \subseteq Call
  <2>1. s \in Seq(Call)
    BY <1>3 DEF s
  <2> QED
    BY <2>1, ToSetFacts
<1>6. \A r \in ToSet(s) : r.complete /\ r.op = "add"
  <2>1. \A r \in ToSet(Calls("add", tree.start, TRUE)) : r.complete = TRUE /\ r.op = "add"
    <3>1. \A m : LET r == [op |-> "add", node |-> m, complete |-> TRUE]
                 IN  r.complete = TRUE /\ r.op = "add"
      OBVIOUS
    <3> QED
      BY <1>4, <3>1, Zenon
  <2> QED
    BY <2>1 DEF s
<1> QED
  BY <1>3, <1>5, <1>6 DEF s

-----------------------------------------------------------------------------
(* The invariant is inductive. *)

LEMMA IInvInit == Init => IInv
<1> SUFFICES ASSUME Init PROVE IInv
  OBVIOUS
<1>1. /\ tree \in Program
      /\ index = [n \in Node |-> 0]
      /\ complete = [n \in Node |-> FALSE]
      /\ next_index = 1
      /\ queue = << >>
      /\ require_complete = TRUE
      /\ calls = Calls("add", tree.start, TRUE)
      /\ unvisited = {}
      /\ file_queue = << >>
      /\ phase = "complete"
      /\ written = [n \in Node |-> 0]
      /\ filesWritten = 0
      /\ dumpBug = FALSE
  BY DEF Init
<1>2. ToSet(queue) = {} /\ Len(file_queue) = 0
  BY <1>1 DEF ToSet
<1>3. /\ calls \in Seq(Call)
      /\ \A r \in ToSet(calls) : r \in Call /\ r.complete /\ r.op = "add"
  BY <1>1, StartFacts
<1>4. TypeOK
  <2>1. tree \in Tree
    BY <1>1, DumpAssumption
  <2>2. queue \in Seq(Node) /\ file_queue \in Seq(File)
    BY <1>1
  <2>3. calls \in Seq(Call)
    BY <1>3
  <2>4. /\ index \in [Node -> Nat] /\ complete \in [Node -> BOOLEAN]
        /\ written \in [Node -> Nat] /\ next_index \in Nat \ {0}
    BY <1>1
  <2>5. /\ require_complete \in BOOLEAN /\ dumpBug \in BOOLEAN
        /\ unvisited \subseteq Node /\ filesWritten \in Nat
        /\ phase \in {"complete", "foreach", "incomplete", "files", "done"}
    BY <1>1
  <2> QED
    BY <2>1, <2>2, <2>3, <2>4, <2>5 DEF TypeOK
<1>5. \A r \in ToSet(calls) : TypeCall(r)
  BY <1>3 DEF TypeCall
<1>6. Phases
  BY <1>1 DEF Phases
<1>7. NodesIndexed /\ NodesCovered /\ ReferencesCovered
  BY <1>1, <1>2 DEF NodesIndexed, NodesCovered, ReferencesCovered
<1>8. FilesQueued
  BY <1>1, <1>2 DEF FilesQueued
<1>9. MentionsPlain
  BY <1>1, <1>3 DEF MentionsPlain, Plain
<1>10. QueuedOnce
  <2>1. \A n \in Node : written[n] = 0
    BY <1>1
  <2>2. Len(queue) = 0
    BY <1>1
  <2> QED
    BY <1>2, <2>1, <2>2 DEF QueuedOnce
<1>11. RequestsKept
  BY <1>1, <1>3 DEF RequestsKept, Met
<1>12. OnlyRequired
  BY <1>1, <1>3, ClosedFacts DEF OnlyRequired
<1> QED
  BY <1>1, <1>4, <1>5, <1>6, <1>7, <1>8, <1>9, <1>10, <1>11, <1>12 DEF IInv

\* A call is handed on.
LEMMA IInvAddNode ==
  ASSUME IInv, AddNode
  PROVE  IInv'
<1> DEFINE r == Head(calls)
           E == Expand(tree, r)
<1>1. /\ calls # << >>
      /\ r.op # "real"
      /\ calls' = E \o Tail(calls)
      /\ tree' = tree /\ index' = index /\ complete' = complete
      /\ next_index' = next_index /\ queue' = queue /\ dumpBug' = dumpBug
      /\ require_complete' = require_complete /\ unvisited' = unvisited
      /\ file_queue' = file_queue /\ phase' = phase
      /\ written' = written /\ filesWritten' = filesWritten
  BY DEF AddNode, nodeVars, outputVars
<1>2. /\ r \in Call
      /\ Tail(calls) \in Seq(Call)
      /\ ToSet(calls) = {r} \cup ToSet(Tail(calls))
  BY <1>1, TypeFacts, ToSetHeadTail
<1>3. tree \in Program /\ TypeCall(r)
  BY <1>2 DEF IInv
<1>4. /\ E \in Seq(Call)
      /\ \A q \in ToSet(E) : /\ q \in Call
                             /\ q.complete = r.complete
                             /\ TypeCall(q)
                             /\ (Plain(r) => Plain(q))
                             /\ Added(tree, q) \subseteq Added(tree, r)
      /\ \A m \in Added(tree, r) : \E q \in ToSet(E) : m \in Added(tree, q)
      /\ \A m \in Printed(tree, r) : \E q \in ToSet(E) : m \in Printed(tree, q)
  BY <1>1, <1>2, <1>3, ExpandFacts
<1> HIDE DEF E, r
<1>5. calls' \in Seq(Call) /\ ToSet(calls') = ToSet(E) \cup ToSet(Tail(calls))
  <2>1. /\ E \o Tail(calls) \in Seq(Call)
        /\ ToSet(E \o Tail(calls)) = ToSet(E) \cup ToSet(Tail(calls))
    <3>1. E \in Seq(Call) /\ Tail(calls) \in Seq(Call)
      BY <1>2, <1>4
    <3> QED
      BY ZenonT(30), <3>1, ToSetConcat
  <2> QED
    BY <1>1, <2>1
<1>6. /\ \A q : TypeCall(q)' <=> TypeCall(q)
      /\ \A q : Plain(q)' <=> Plain(q)
      /\ LocalContextsPlain' <=> LocalContextsPlain
  BY <1>1, TreeKept
<1>7. TypeOK'
  BY <1>1, <1>5 DEF IInv, TypeOK
<1>8. (\A q \in ToSet(calls) : TypeCall(q))'
  BY <1>2, <1>4, <1>5, <1>6 DEF IInv
<1>9. Phases'
  BY <1>1 DEF IInv, Phases
<1>10. NodesIndexed' /\ NodesCovered' /\ FilesQueued'
  <2>1. NodesIndexed /\ NodesCovered /\ FilesQueued
    BY DEF IInv
  <2> QED
    BY <1>1, <2>1 DEF NodesIndexed, NodesCovered, FilesQueued
<1>11. ReferencesCovered'
  <2>1. \A m : Resolves(m) => Resolves(m)'
    BY <1>1, <1>2, <1>4, <1>5 DEF Resolves
  <2>2. ReferencesCovered
    BY DEF IInv
  <2> QED
    BY <1>1, <2>1, <2>2 DEF ReferencesCovered
<1>12. MentionsPlain'
  <2>1. MentionsPlain
    BY DEF IInv
  <2> QED
    BY <1>1, <1>2, <1>4, <1>5, <1>6, <2>1 DEF MentionsPlain
<1>13. QueuedOnce'
  <2>1. QueuedOnce
    BY DEF IInv
  <2> QED
    BY <1>1, <1>6, <2>1 DEF QueuedOnce
<1>14. RequestsKept'
  <2>1. \A q : Met(q) => Met(q)'
    BY <1>1, <1>2, <1>4, <1>5 DEF Met
  <2>2. RequestsKept
    BY DEF IInv
  <2> QED
    BY <1>1, <2>1, <2>2 DEF RequestsKept
<1>15. OnlyRequired'
  <2>1. OnlyRequired
    BY DEF IInv
  <2> QED
    BY <1>1, <1>2, <1>4, <1>5, <1>6, <2>1 DEF OnlyRequired
<1> QED
  BY <1>1, <1>3, <1>7, <1>8, <1>9, <1>10, <1>11, <1>12, <1>13, <1>14, <1>15 DEF IInv

\* What xml_add_node_real does to its node, new or not.
LEMMA RealStep ==
  ASSUME IInv, AddNodeReal
  PROVE  LET r == Head(calls)
             n == r.node
             Q == (r.complete /\ ~ complete[n]) \/ (index[n] = 0 /\ phase = "incomplete")
         IN  /\ n \in Node
             /\ phase \in {"complete", "incomplete"}
             /\ index' \in [Node -> Nat]
             /\ complete' \in [Node -> BOOLEAN]
             /\ next_index' \in Nat \ {0}
             /\ dumpBug' \in BOOLEAN
             /\ index'[n] # 0
             /\ \A m \in Node : m # n => index'[m] = index[m] /\ complete'[m] = complete[m]
             /\ complete'[n] <=> complete[n] \/ r.complete
             /\ Q => queue' = Append(queue, n)
             /\ ~ Q => queue' = queue
             /\ index[n] = 0 => written[n] = 0 /\ ~ complete[n] /\ n \notin ToSet(queue)
<1> DEFINE r == Head(calls)
           n == r.node
           c == r.complete
<1>1. /\ calls # << >>
      /\ r.op = "real"
      /\ Encountered(n, c) \/ NewNode(n, c)
  BY DEF AddNodeReal
<1>2. r \in Call
  BY <1>1, TypeFacts, ToSetHeadTail
<1>3. n \in Node /\ c \in BOOLEAN
  BY <1>2 DEF Call
<1>4. /\ phase \in {"complete", "incomplete"}
      /\ require_complete = (phase = "complete")
  <2>1. Phases
    BY DEF IInv
  <2> QED
    BY <1>1, <2>1 DEF Phases
<1>5. /\ index \in [Node -> Nat]
      /\ complete \in [Node -> BOOLEAN]
      /\ written \in [Node -> Nat]
      /\ next_index \in Nat \ {0}
      /\ dumpBug \in BOOLEAN
  BY DEF IInv, TypeOK
<1>6. index[n] = 0 => written[n] = 0 /\ ~ complete[n] /\ n \notin ToSet(queue)
  BY <1>3, <1>5 DEF IInv, NodesIndexed
<1> HIDE DEF n, c, r
<1>7. CASE Encountered(n, c)
  <2>1. /\ index[n] # 0
        /\ IF c /\ ~ complete[n]
           THEN complete' = [complete EXCEPT ![n] = TRUE] /\ queue' = Append(queue, n)
           ELSE complete' = complete /\ queue' = queue
        /\ index' = index /\ next_index' = next_index /\ dumpBug' = dumpBug
    BY <1>7 DEF Encountered
  <2>2. /\ complete' \in [Node -> BOOLEAN]
        /\ \A m \in Node : m # n => complete'[m] = complete[m]
        /\ complete'[n] <=> complete[n] \/ c
    BY <1>3, <1>5, <2>1
  <2> QED
    BY <1>3, <1>4, <1>5, <1>6, <2>1, <2>2 DEF n, c, r
<1>8. CASE NewNode(n, c)
  <2>1. /\ index[n] = 0
        /\ index' = [index EXCEPT ![n] = next_index]
        /\ next_index' = next_index + 1
        /\ complete' = [complete EXCEPT ![n] = c]
        /\ queue' = IF c \/ ~ require_complete THEN Append(queue, n) ELSE queue
        /\ dumpBug' = (dumpBug \/ (~ require_complete /\ c))
    BY <1>8 DEF NewNode
  <2>2. /\ index' \in [Node -> Nat] /\ complete' \in [Node -> BOOLEAN]
        /\ \A m \in Node : m # n => index'[m] = index[m] /\ complete'[m] = complete[m]
        /\ index'[n] = next_index
        /\ complete'[n] = c
    BY <1>3, <1>5, <2>1
  <2>3. next_index' \in Nat \ {0} /\ index'[n] # 0
    BY <1>5, <2>1, <2>2
  <2>4. dumpBug' \in BOOLEAN
    BY <2>1
  <2>5. ~ complete[n]
    BY <1>6, <2>1
  <2>6. complete'[n] <=> complete[n] \/ c
    BY <2>2, <2>5
  <2> QED
    BY <1>3, <1>4, <1>6, <2>1, <2>2, <2>3, <2>4, <2>5, <2>6 DEF n, c, r
<1> QED
  BY <1>1, <1>7, <1>8 DEF n, c, r

\* A node is added.
LEMMA IInvAddNodeReal ==
  ASSUME IInv, AddNodeReal
  PROVE  IInv'
<1> DEFINE r == Head(calls)
           n == r.node
           Q == (r.complete /\ ~ complete[n]) \/ (index[n] = 0 /\ phase = "incomplete")
<1>1. /\ calls # << >>
      /\ r.op = "real"
      /\ calls' = Tail(calls)
      /\ tree' = tree
      /\ require_complete' = require_complete /\ unvisited' = unvisited
      /\ file_queue' = file_queue /\ phase' = phase
      /\ written' = written /\ filesWritten' = filesWritten
  BY DEF AddNodeReal, outputVars
<1>2. /\ r \in Call
      /\ Tail(calls) \in Seq(Call)
      /\ ToSet(calls) = {r} \cup ToSet(Tail(calls))
  BY <1>1, TypeFacts, ToSetHeadTail
<1>3. /\ n \in Node
      /\ phase \in {"complete", "incomplete"}
      /\ index' \in [Node -> Nat]
      /\ complete' \in [Node -> BOOLEAN]
      /\ next_index' \in Nat \ {0}
      /\ dumpBug' \in BOOLEAN
      /\ index'[n] # 0
      /\ \A m \in Node : m # n => index'[m] = index[m] /\ complete'[m] = complete[m]
      /\ complete'[n] <=> complete[n] \/ r.complete
      /\ Q => queue' = Append(queue, n)
      /\ ~ Q => queue' = queue
      /\ index[n] = 0 => written[n] = 0 /\ ~ complete[n] /\ n \notin ToSet(queue)
  BY RealStep, Zenon
<1>4. Printed(tree, r) \subseteq {n} /\ Added(tree, r) = {n}
  BY <1>1, <1>2, RealFacts
<1>5. /\ \A q : TypeCall(q)' <=> TypeCall(q)
      /\ \A q : Plain(q)' <=> Plain(q)
      /\ LocalContextsPlain' <=> LocalContextsPlain
  BY <1>1, TreeKept
<1>6. Q \in BOOLEAN
  OBVIOUS
<1> HIDE DEF n, r
<1>7. /\ queue' \in Seq(Node)
      /\ ToSet(queue') = IF Q THEN ToSet(queue) \cup {n} ELSE ToSet(queue)
  <2>1. queue \in Seq(Node)
    BY TypeFacts
  <2>2. CASE Q
    <3>1. n \in Node /\ queue' = Append(queue, n)
      BY <1>3, <2>2
    <3>2. /\ Append(queue, n) \in Seq(Node)
          /\ ToSet(Append(queue, n)) = ToSet(queue) \cup {n}
      BY <2>1, <3>1, ToSetAppend
    <3> QED
      BY <2>2, <3>1, <3>2
  <2>3. CASE ~ Q
    BY <1>3, <2>1, <2>3
  <2> QED
    BY <2>2, <2>3
<1>8. /\ \A m \in Node : complete[m] => complete'[m]
      /\ \A m \in Node : index[m] # 0 => index'[m] # 0
  BY <1>3
<1>9. calls' \in Seq(Call) /\ ToSet(calls') = ToSet(Tail(calls))
  BY <1>1, <1>2
<1>10. TypeOK'
  <2>1. TypeOK
    BY DEF IInv
  <2> QED
    BY <1>1, <1>3, <1>7, <1>9, <2>1 DEF TypeOK
<1>11. (\A q \in ToSet(calls) : TypeCall(q))'
  BY <1>2, <1>5, <1>9 DEF IInv
<1>12. Phases'
  <2>1. Phases
    BY DEF IInv
  <2> QED
    BY <1>1, <1>3, <2>1 DEF Phases
<1>13. NodesIndexed'
  <2>1. NodesIndexed
    BY DEF IInv
  <2> QED
    BY <1>1, <1>3, <1>7, <2>1 DEF NodesIndexed
<1>14. NodesCovered'
  <2>1. NodesCovered
    BY DEF IInv
  <2> SUFFICES ASSUME NEW m \in Node, index'[m] # 0
               PROVE  \/ written'[m] > 0
                      \/ m \in ToSet(queue')
                      \/ ~ complete'[m] /\ (phase' = "complete" \/ m \in unvisited')
    BY DEF NodesCovered
  <2>2. CASE m # n
    BY <1>1, <1>3, <1>7, <2>1, <2>2 DEF NodesCovered
  <2>3. CASE m = n /\ Q
    BY <1>7, <2>3
  <2>4. CASE m = n /\ ~ Q
    <3>1. CASE index[n] = 0
      BY <1>1, <1>3, <2>4, <3>1
    <3>2. CASE index[n] # 0
      <4>1. complete'[n] <=> complete[n]
        BY <1>3, <2>4
      <4> QED
        BY <1>1, <1>3, <1>7, <2>1, <2>4, <3>2, <4>1 DEF NodesCovered
    <3> QED
      BY <3>1, <3>2
  <2> QED
    BY <2>2, <2>3, <2>4
<1>15. ReferencesCovered'
  <2>1. ReferencesCovered
    BY DEF IInv
  <2>2. \A q \in Call : \A m \in Printed(tree, q) : Resolves(m) => Resolves(m)'
    <3> SUFFICES ASSUME NEW q \in Call, NEW m \in Printed(tree, q), Resolves(m)
                 PROVE  Resolves(m)'
      OBVIOUS
    <3>1. m \in Node
      BY PrintedIn, TypeFacts
    <3>2. CASE index[m] # 0
      BY <1>8, <3>1, <3>2 DEF Resolves
    <3>3. CASE \E p \in ToSet(calls) : m \in Printed(tree, p)
      BY <1>1, <1>2, <1>3, <1>4, <1>9, <3>3 DEF Resolves
    <3> QED
      BY <3>2, <3>3 DEF Resolves
  <2> SUFFICES ASSUME NEW m \in Node, written'[m] > 0
               PROVE  \/ m \in ToSet(queue')
                      \/ \A q \in ToSet(Output(tree', m, complete'[m])) :
                           \A x \in Printed(tree', q) : Resolves(x)'
    BY DEF ReferencesCovered
  <2>3. CASE complete'[m] = complete[m]
    <3>1. \A q \in ToSet(Output(tree, m, complete[m])) : q \in Call
      BY OutputFacts, TypeFacts
    <3>2. \/ m \in ToSet(queue)
          \/ \A q \in ToSet(Output(tree, m, complete[m])) : \A x \in Printed(tree, q) : Resolves(x)
      BY <1>1, <2>1 DEF ReferencesCovered
    <3> QED
      BY <1>1, <1>7, <2>2, <2>3, <3>1, <3>2
  <2>4. CASE complete'[m] # complete[m]
    <3>1. m = n
      BY <1>3, <2>4
    <3>2. ~ complete[n] /\ r.complete
      <4>1. complete[n] \in BOOLEAN /\ complete'[n] \in BOOLEAN
        BY <1>3, TypeFacts
      <4> QED
        BY <1>3, <2>4, <3>1, <4>1
    <3> QED
      BY <1>7, <3>1, <3>2
  <2> QED
    BY <2>3, <2>4
<1>16. FilesQueued'
  <2>1. FilesQueued
    BY DEF IInv
  <2> QED
    BY <1>1, <2>1 DEF FilesQueued
<1>17. MentionsPlain'
  <2>1. MentionsPlain
    BY DEF IInv
  <2> SUFFICES ASSUME LocalContextsPlain PROVE MentionsPlain'
    BY <1>5 DEF MentionsPlain
  <2>2. \A q \in ToSet(calls') : Plain(q)'
    BY <1>2, <1>5, <1>9, <2>1 DEF MentionsPlain
  <2>3. phase' = "incomplete" => \A q \in ToSet(calls') : ~ q.complete
    BY <1>1, <1>2, <1>9, <2>1 DEF MentionsPlain
  <2>4. ASSUME NEW m \in Node, index'[m] # 0, ~ complete'[m]
        PROVE  tree.overrides[m] = << >>
    <3>1. CASE m = n
      <4>1. Plain(r) /\ ~ r.complete
        BY <1>2, <1>3, <2>1, <2>4, <3>1 DEF MentionsPlain
      <4> QED
        BY <1>1, <3>1, <4>1 DEF Plain, n
    <3>2. CASE m # n
      BY <1>3, <2>1, <2>4, <3>2 DEF MentionsPlain
    <3> QED
      BY <3>1, <3>2
  <2> QED
    BY <1>1, <2>2, <2>3, <2>4 DEF MentionsPlain
<1>18. QueuedOnce'
  <2>1. QueuedOnce /\ MentionsPlain
    BY DEF IInv
  <2> SUFFICES ASSUME LocalContextsPlain PROVE QueuedOnce'
    BY <1>5 DEF QueuedOnce
  <2>2. phase = "incomplete" => ~ r.complete
    BY <1>2, <2>1 DEF MentionsPlain
  <2>3. /\ queue \in Seq(Node)
        /\ complete \in [Node -> BOOLEAN]
        /\ written \in [Node -> Nat]
    BY TypeFacts
  <2>4. Q => n \notin ToSet(queue) /\ written[n] = 0 /\ complete'[n] = (phase = "complete")
    <3> SUFFICES ASSUME Q
                 PROVE  n \notin ToSet(queue) /\ written[n] = 0 /\ complete'[n] = (phase = "complete")
      OBVIOUS
    <3>1. CASE phase = "incomplete"
      <4>1. index[n] = 0
        BY <2>2, <3>1
      <4>2. ~ complete'[n]
        BY <1>3, <2>2, <3>1, <4>1
      <4>3. complete'[n] = FALSE
        BY <1>3, <4>2
      <4> QED
        BY <1>3, <3>1, <4>1, <4>3
    <3>2. CASE phase = "complete"
      <4>1. r.complete /\ ~ complete[n]
        BY <3>2
      <4>2. complete'[n] = TRUE
        BY <1>3, <4>1
      <4>3. n \notin ToSet(queue)
        BY <2>1, <3>2, <4>1 DEF QueuedOnce
      <4>4. ~ (written[n] > 0)
        BY <1>3, <2>1, <3>2, <4>1 DEF QueuedOnce
      <4>5. written[n] = 0
        BY <1>3, <2>3, <4>4
      <4> QED
        BY <3>2, <4>2, <4>3, <4>5
    <3> QED
      BY <1>3, <3>1, <3>2
  <2>5. \A m \in ToSet(queue) : m = n => complete'[n] = complete[n]
    <3> SUFFICES ASSUME n \in ToSet(queue) PROVE complete'[n] = complete[n]
      OBVIOUS
    <3>1. ~ Q
      BY <2>4
    <3>2. complete'[n] <=> complete[n]
      BY <1>3, <3>1
    <3> QED
      BY <1>3, <2>3, <3>2
  <2>6. \A m \in ToSet(queue') :
          written'[m] = 0 /\ complete'[m] = (phase' = "complete") /\ m \notin unvisited'
    <3>1. unvisited = {}
      <4>1. Phases
        BY DEF IInv
      <4> QED
        BY <1>3, <4>1 DEF Phases
    <3>2. \A m \in ToSet(queue) : m \in Node /\ written[m] = 0 /\ complete[m] = (phase = "complete")
      BY <2>1, TypeFacts DEF QueuedOnce
    <3>3. \A m \in ToSet(queue) : complete'[m] = complete[m]
      BY <1>3, <2>5, <3>2
    <3> HIDE DEF Q
    <3> QED
      BY <1>1, <1>7, <2>4, <3>1, <3>2, <3>3
  <2>7. \A i, j \in 1 .. Len(queue') : queue'[i] = queue'[j] => i = j
    <3>1. \A i, j \in 1 .. Len(queue) : queue[i] = queue[j] => i = j
      BY <2>1 DEF QueuedOnce
    <3>2. CASE Q
      <4>1. /\ queue' = Append(queue, n)
            /\ Len(queue') = Len(queue) + 1
            /\ \A i \in 1 .. Len(queue) : queue'[i] = queue[i]
            /\ queue'[Len(queue) + 1] = n
        BY <1>3, <2>3, <3>2, ToSetAppend
      <4>2. /\ \A i \in 1 .. Len(queue) : queue[i] # n
            /\ Len(queue) \in Nat
        BY <2>3, <2>4, <3>2, ToSetFacts
      <4> QED
        BY <3>1, <4>1, <4>2
    <3>3. CASE ~ Q
      BY <1>3, <3>1, <3>3
    <3> QED
      BY <3>2, <3>3
  <2>8. phase' \in {"complete", "foreach"} => \A m \in Node : written'[m] > 0 => complete'[m]
    BY <1>1, <1>8, <2>1 DEF QueuedOnce
  <2>9. \A m \in Node : written'[m] <= 1
    BY <1>1, <2>1 DEF QueuedOnce
  <2> QED
    BY <2>6, <2>7, <2>8, <2>9 DEF QueuedOnce
<1>19. RequestsKept'
  <2>1. RequestsKept
    BY DEF IInv
  <2>2. ASSUME NEW q \in Call, Met(q) PROVE Met(q)'
    <3> SUFFICES ASSUME NEW m \in Added(tree, q)
                 PROVE  complete'[m] \/ \E p \in ToSet(calls') : p.complete /\ m \in Added(tree, p)
      BY <1>1 DEF Met
    <3>0. m \in Node
      BY AddedIn, TypeFacts
    <3>1. complete[m] \/ \E p \in ToSet(calls) : p.complete /\ m \in Added(tree, p)
      BY <2>2 DEF Met
    <3>2. CASE complete[m]
      BY <1>8, <3>0, <3>2
    <3>3. CASE \E p \in ToSet(calls) : p.complete /\ m \in Added(tree, p)
      <4>1. PICK p \in ToSet(calls) : p.complete /\ m \in Added(tree, p)
        BY <3>3
      <4>2. CASE p = r
        BY <1>3, <1>4, <4>1, <4>2
      <4>3. CASE p # r
        BY <1>2, <1>9, <4>1, <4>3
      <4> QED
        BY <4>2, <4>3
    <3> QED
      BY <3>1, <3>2, <3>3
  <2>3. ASSUME NEW m \in Node, complete'[m]
        PROVE  m \in ToSet(queue') \/ \A q \in ToSet(Output(tree, m, TRUE)) : q.complete => Met(q)'
    <3>1. CASE complete[m]
      <4>1. \A q \in ToSet(Output(tree, m, TRUE)) : q \in Call
        BY OutputFacts, TypeFacts
      <4>2. m \in ToSet(queue) \/ \A q \in ToSet(Output(tree, m, TRUE)) : q.complete => Met(q)
        BY <2>1, <3>1 DEF RequestsKept
      <4> QED
        BY <1>7, <2>2, <4>1, <4>2
    <3>2. CASE ~ complete[m]
      BY <1>3, <1>7, <2>3, <3>2
    <3> QED
      BY <3>1, <3>2
  <2>4. \A q \in ToSet(Calls("add", tree.start, TRUE)) : Met(q)'
    <3>1. \A q \in ToSet(Calls("add", tree.start, TRUE)) : q \in Call
      BY StartFacts, TypeFacts
    <3> QED
      BY <2>1, <2>2, <3>1 DEF RequestsKept
  <2> QED
    BY <1>1, <2>3, <2>4 DEF RequestsKept
<1>20. OnlyRequired'
  <2>1. OnlyRequired
    BY DEF IInv
  <2> SUFFICES ASSUME LocalContextsPlain, NEW S \in SUBSET Node, CompletionClosed(tree, S)
               PROVE  /\ \A m \in Node : complete'[m] => m \in S
                      /\ \A q \in ToSet(calls') : q.complete => Added(tree, q) \subseteq S
    BY <1>1, <1>5 DEF OnlyRequired
  <2>2. /\ \A m \in Node : complete[m] => m \in S
        /\ \A q \in ToSet(calls) : q.complete => Added(tree, q) \subseteq S
    BY <2>1 DEF OnlyRequired
  <2> QED
    BY <1>2, <1>3, <1>4, <1>9, <2>2
<1> QED
  <2>1. tree \in Program
    BY DEF IInv
  <2> QED
    BY <1>1, <2>1, <1>10, <1>11, <1>12, <1>13, <1>14, <1>15, <1>16, <1>17, <1>18, <1>19, <1>20 DEF IInv

\* The file of an element is queued, once.
LEMMA QueueFileStep ==
  ASSUME file_queue \in Seq(File), NEW f \in File \cup {None}, QueueFile(f),
         \A i, j \in 1 .. Len(file_queue) : file_queue[i] = file_queue[j] => i = j
  PROVE  /\ file_queue' \in Seq(File)
         /\ \A i, j \in 1 .. Len(file_queue') : file_queue'[i] = file_queue'[j] => i = j
         /\ ToSet(file_queue) \subseteq ToSet(file_queue')
         /\ f # None => f \in ToSet(file_queue')
         /\ Len(file_queue) <= Len(file_queue')
<1>1. Len(file_queue) \in Nat /\ ToSet(file_queue) = {file_queue[i] : i \in 1 .. Len(file_queue)}
  BY ToSetFacts
<1>2. CASE f = None \/ (\E i \in 1 .. Len(file_queue) : file_queue[i] = f)
  <2>1. file_queue' = file_queue
    BY <1>2 DEF QueueFile
  <2> QED
    BY <1>1, <1>2, <2>1
<1>3. CASE ~ (f = None \/ (\E i \in 1 .. Len(file_queue) : file_queue[i] = f))
  <2>1. file_queue' = Append(file_queue, f) /\ f \in File
    BY <1>3 DEF QueueFile
  <2>2. /\ Append(file_queue, f) \in Seq(File)
        /\ Len(Append(file_queue, f)) = Len(file_queue) + 1
        /\ \A i \in 1 .. Len(file_queue) : Append(file_queue, f)[i] = file_queue[i]
        /\ Append(file_queue, f)[Len(file_queue) + 1] = f
        /\ ToSet(Append(file_queue, f)) = ToSet(file_queue) \cup {f}
    BY <2>1, ToSetAppend
  <2>3. /\ file_queue' \in Seq(File)
        /\ Len(file_queue') = Len(file_queue) + 1
        /\ \A i \in 1 .. Len(file_queue) : file_queue'[i] = file_queue[i]
        /\ file_queue'[Len(file_queue) + 1] = f
        /\ ToSet(file_queue') = ToSet(file_queue) \cup {f}
    BY <2>1, <2>2
  <2>4. \A i, j \in 1 .. Len(file_queue') : file_queue'[i] = file_queue'[j] => i = j
    BY <1>1, <1>3, <2>3
  <2> QED
    BY <1>1, <2>3, <2>4
<1> QED
  BY <1>2, <1>3

\* An element is written.
LEMMA IInvDump ==
  ASSUME IInv, Dump
  PROVE  IInv'
<1> DEFINE n == Head(queue)
           c == complete[n]
           out == Output(tree, n, c)
<1>1. /\ phase \in {"complete", "incomplete"}
      /\ calls = << >>
      /\ queue # << >>
      /\ written' = [written EXCEPT ![n] = @ + 1]
      /\ calls' = out
      /\ QueueFile(tree.file[n])
      /\ queue' = Tail(queue)
      /\ tree' = tree /\ index' = index /\ complete' = complete
      /\ next_index' = next_index /\ dumpBug' = dumpBug
      /\ require_complete' = require_complete /\ unvisited' = unvisited
      /\ phase' = phase /\ filesWritten' = filesWritten
  BY DEF Dump
<1>2. /\ tree \in Program
      /\ queue \in Seq(Node)
      /\ complete \in [Node -> BOOLEAN]
      /\ written \in [Node -> Nat]
      /\ file_queue \in Seq(File)
      /\ ToSet(calls) = {}
  BY <1>1, TypeFacts
<1>3. /\ n \in Node
      /\ Tail(queue) \in Seq(Node)
      /\ ToSet(queue) = {n} \cup ToSet(Tail(queue))
      /\ n = queue[1]
      /\ Len(queue) \in Nat \ {0}
      /\ Len(Tail(queue)) = Len(queue) - 1
      /\ \A i \in 1 .. Len(Tail(queue)) : Tail(queue)[i] = queue[i + 1]
  BY <1>1, <1>2, ToSetHeadTail
<1>4. c \in BOOLEAN
  BY <1>2, <1>3
<1>5. /\ out \in Seq(Call)
      /\ \A r \in ToSet(out) : /\ r \in Call
                               /\ TypeCall(r)
                               /\ (LocalContextsPlain => Plain(r))
                               /\ (~ c /\ tree.overrides[n] = << >> => ~ r.complete)
  BY <1>2, <1>3, <1>4, OutputFacts
<1>6. /\ \A q : TypeCall(q)' <=> TypeCall(q)
      /\ \A q : Plain(q)' <=> Plain(q)
      /\ LocalContextsPlain' <=> LocalContextsPlain
  BY <1>1, TreeKept
<1>7. tree.file[n] \in File \cup {None}
  BY <1>2, <1>3, TreeFacts
<1> HIDE DEF n, c, out
<1>8. /\ written' \in [Node -> Nat]
      /\ written'[n] = written[n] + 1
      /\ \A m \in Node : m # n => written'[m] = written[m]
  BY <1>1, <1>2, <1>3
<1>9. calls' \in Seq(Call) /\ ToSet(calls') = ToSet(out)
  BY <1>1, <1>5
<1>10. queue' \in Seq(Node) /\ ToSet(queue') = ToSet(Tail(queue))
  BY <1>1, <1>3
<1>11. index[n] # 0
  BY <1>3 DEF IInv, NodesIndexed
<1>12. FilesQueued
  BY DEF IInv
<1>13. /\ file_queue' \in Seq(File)
       /\ \A i, j \in 1 .. Len(file_queue') : file_queue'[i] = file_queue'[j] => i = j
       /\ ToSet(file_queue) \subseteq ToSet(file_queue')
       /\ tree.file[n] # None => tree.file[n] \in ToSet(file_queue')
       /\ Len(file_queue) <= Len(file_queue')
  <2>1. \A i, j \in 1 .. Len(file_queue) : file_queue[i] = file_queue[j] => i = j
    BY <1>12 DEF FilesQueued
  <2> QED
    BY <1>1, <1>2, <1>7, <2>1, QueueFileStep
<1>14. TypeOK'
  <2>1. TypeOK
    BY DEF IInv
  <2> QED
    BY <1>1, <1>8, <1>9, <1>10, <1>13, <2>1 DEF TypeOK
<1>15. (\A q \in ToSet(calls) : TypeCall(q))'
  BY <1>5, <1>6, <1>9
<1>16. Phases'
  <2>1. Phases
    BY DEF IInv
  <2> QED
    BY <1>1, <2>1 DEF Phases
<1>17. NodesIndexed'
  <2>1. NodesIndexed
    BY DEF IInv
  <2> SUFFICES ASSUME NEW m \in Node,
                      complete'[m] \/ written'[m] > 0 \/ m \in ToSet(queue') \/ m \in unvisited'
               PROVE  index'[m] # 0
    BY DEF NodesIndexed
  <2>2. CASE m = n
    BY <1>1, <1>11, <2>2
  <2>3. CASE m # n
    BY <1>1, <1>3, <1>8, <1>10, <2>1, <2>3 DEF NodesIndexed
  <2> QED
    BY <2>2, <2>3
<1>18. NodesCovered'
  <2>1. NodesCovered
    BY DEF IInv
  <2> SUFFICES ASSUME NEW m \in Node, index'[m] # 0
               PROVE  \/ written'[m] > 0
                      \/ m \in ToSet(queue')
                      \/ ~ complete'[m] /\ (phase' = "complete" \/ m \in unvisited')
    BY DEF NodesCovered
  <2>2. CASE m = n
    BY <1>2, <1>3, <1>8, <2>2
  <2>3. CASE m # n
    BY <1>1, <1>3, <1>8, <1>10, <2>1, <2>3 DEF NodesCovered
  <2> QED
    BY <2>2, <2>3
<1>19. ReferencesCovered'
  <2>1. ReferencesCovered
    BY DEF IInv
  <2>2. \A m : Resolves(m) => Resolves(m)'
    BY <1>1, <1>2 DEF Resolves
  <2> SUFFICES ASSUME NEW m \in Node, written'[m] > 0
               PROVE  \/ m \in ToSet(queue')
                      \/ \A q \in ToSet(Output(tree', m, complete'[m])) :
                           \A x \in Printed(tree', q) : Resolves(x)'
    BY DEF ReferencesCovered
  <2>3. CASE m = n
    <3>1. Output(tree', m, complete'[m]) = calls'
      BY <1>1, <2>3 DEF out, c
    <3> QED
      BY <3>1 DEF Resolves
  <2>4. CASE m # n
    <3>1. \/ m \in ToSet(queue)
          \/ \A q \in ToSet(Output(tree, m, complete[m])) : \A x \in Printed(tree, q) : Resolves(x)
      BY <1>8, <2>1, <2>4 DEF ReferencesCovered
    <3> QED
      BY <1>1, <1>3, <1>10, <2>2, <2>4, <3>1
  <2> QED
    BY <2>3, <2>4
<1>20. FilesQueued'
  <2>1. \A m \in Node : written'[m] > 0 /\ tree'.file[m] # None => tree'.file[m] \in ToSet(file_queue')
    <3> SUFFICES ASSUME NEW m \in Node, written'[m] > 0, tree.file[m] # None
                 PROVE  tree.file[m] \in ToSet(file_queue')
      BY <1>1
    <3>1. CASE m = n
      BY <1>13, <3>1
    <3>2. CASE m # n
      BY <1>8, <1>12, <1>13, <3>2 DEF FilesQueued
    <3> QED
      BY <3>1, <3>2
  <2>2. filesWritten' <= Len(file_queue')
    <3>1. Len(file_queue) \in Nat /\ Len(file_queue') \in Nat /\ filesWritten \in Nat
      BY <1>2, <1>13, TypeFacts, LenProperties
    <3>2. filesWritten <= Len(file_queue)
      BY <1>12 DEF FilesQueued
    <3> QED
      BY <1>1, <1>13, <3>1, <3>2
  <2>3. phase' # "done"
    BY <1>1
  <2> QED
    BY <1>13, <2>1, <2>2, <2>3 DEF FilesQueued
<1>21. ASSUME LocalContextsPlain
       PROVE  /\ written[n] = 0
              /\ complete[n] = (phase = "complete")
              /\ ~ c => tree.overrides[n] = << >>
  <2>1. QueuedOnce /\ MentionsPlain
    BY DEF IInv
  <2>2. written[n] = 0 /\ complete[n] = (phase = "complete")
    BY <1>3, <1>21, <2>1 DEF QueuedOnce
  <2>3. ~ c => tree.overrides[n] = << >>
    BY <1>3, <1>11, <1>21, <2>1 DEF MentionsPlain, c
  <2> QED
    BY <2>2, <2>3
<1>22. MentionsPlain'
  <2>1. MentionsPlain
    BY DEF IInv
  <2> SUFFICES ASSUME LocalContextsPlain PROVE MentionsPlain'
    BY <1>6 DEF MentionsPlain
  <2>2. \A q \in ToSet(calls') : Plain(q)'
    BY <1>5, <1>6, <1>9
  <2>3. phase' = "incomplete" => \A q \in ToSet(calls') : ~ q.complete
    <3> SUFFICES ASSUME phase = "incomplete" PROVE \A q \in ToSet(calls') : ~ q.complete
      BY <1>1
    <3>1. ~ c
      BY <1>21 DEF c
    <3> QED
      BY <1>5, <1>9, <1>21, <3>1
  <2>4. \A m \in Node : index'[m] # 0 /\ ~ complete'[m] => tree'.overrides[m] = << >>
    BY <1>1, <2>1 DEF MentionsPlain
  <2> QED
    BY <2>2, <2>3, <2>4 DEF MentionsPlain
<1>23. QueuedOnce'
  <2>1. QueuedOnce
    BY DEF IInv
  <2> SUFFICES ASSUME LocalContextsPlain PROVE QueuedOnce'
    BY <1>6 DEF QueuedOnce
  <2>2. \A i, j \in 1 .. Len(queue) : queue[i] = queue[j] => i = j
    BY <2>1 DEF QueuedOnce
  <2>3. \A i, j \in 1 .. Len(Tail(queue)) : Tail(queue)[i] = Tail(queue)[j] => i = j
    <3> SUFFICES ASSUME NEW i \in 1 .. Len(Tail(queue)), NEW j \in 1 .. Len(Tail(queue)),
                        Tail(queue)[i] = Tail(queue)[j]
                 PROVE  i = j
      OBVIOUS
    <3>1. /\ i + 1 \in 1 .. Len(queue) /\ j + 1 \in 1 .. Len(queue)
          /\ queue[i + 1] = queue[j + 1]
      BY <1>3
    <3>2. i + 1 = j + 1
      BY <2>2, <3>1
    <3> QED
      BY <3>2
  <2>4. n \notin ToSet(Tail(queue))
    <3> SUFFICES ASSUME n \in ToSet(Tail(queue)) PROVE FALSE
      OBVIOUS
    <3>1. ToSet(Tail(queue)) = {Tail(queue)[i] : i \in 1 .. Len(Tail(queue))}
      BY <1>3, ToSetFacts
    <3>2. PICK i \in 1 .. Len(Tail(queue)) : Tail(queue)[i] = n
      BY <3>1
    <3>3. 1 \in 1 .. Len(queue) /\ i + 1 \in 1 .. Len(queue) /\ queue[i + 1] = queue[1]
      BY <1>3, <3>2
    <3>4. i + 1 = 1
      BY <2>2, <3>3
    <3> QED
      BY <3>4
  <2>5. \A m \in ToSet(Tail(queue)) :
          m \in Node /\ written[m] = 0 /\ complete[m] = (phase = "complete") /\ m \notin unvisited
    BY <1>2, <1>3, <2>1, TypeFacts DEF QueuedOnce
  <2>6. \A m \in ToSet(queue') :
          written'[m] = 0 /\ complete'[m] = (phase' = "complete") /\ m \notin unvisited'
    BY <1>1, <1>8, <1>10, <2>4, <2>5
  <2>7. \A i, j \in 1 .. Len(queue') : queue'[i] = queue'[j] => i = j
    BY <1>1, <2>3
  <2>8. \A m \in Node : written'[m] <= 1
    <3>1. \A m \in Node : written[m] <= 1
      BY <2>1 DEF QueuedOnce
    <3> QED
      BY <1>3, <1>8, <1>21, <3>1
  <2>9. phase' \in {"complete", "foreach"} => \A m \in Node : written'[m] > 0 => complete'[m]
    <3> SUFFICES ASSUME phase = "complete", NEW m \in Node, written'[m] > 0 PROVE complete[m]
      BY <1>1
    <3>1. CASE m = n
      BY <1>21, <3>1
    <3>2. CASE m # n
      BY <1>8, <2>1, <3>2 DEF QueuedOnce
    <3> QED
      BY <3>1, <3>2
  <2> QED
    BY <2>6, <2>7, <2>8, <2>9 DEF QueuedOnce
<1>24. RequestsKept'
  <2>1. RequestsKept
    BY DEF IInv
  <2>2. \A q : Met(q) => Met(q)'
    BY <1>1, <1>2 DEF Met
  <2> SUFFICES ASSUME NEW m \in Node, complete[m]
               PROVE  m \in ToSet(queue') \/ \A q \in ToSet(Output(tree, m, TRUE)) : q.complete => Met(q)'
    BY <1>1, <2>1, <2>2 DEF RequestsKept
  <2>3. CASE m = n
    <3>1. c = TRUE
      BY <1>4, <2>3 DEF c
    <3>2. Output(tree, m, TRUE) = calls'
      BY <1>1, <2>3, <3>1 DEF out
    <3>3. \A q \in ToSet(calls') : q.complete => Met(q)'
      BY DEF Met
    <3> QED
      BY <3>2, <3>3
  <2>4. CASE m # n
    BY <1>3, <1>10, <2>1, <2>2, <2>4 DEF RequestsKept
  <2> QED
    BY <2>3, <2>4
<1>25. OnlyRequired'
  <2>1. OnlyRequired
    BY DEF IInv
  <2> SUFFICES ASSUME LocalContextsPlain, NEW S \in SUBSET Node, CompletionClosed(tree, S)
               PROVE  /\ \A m \in Node : complete[m] => m \in S
                      /\ \A q \in ToSet(out) : q.complete => Added(tree, q) \subseteq S
    BY <1>1, <1>6, <1>9 DEF OnlyRequired
  <2>2. \A m \in Node : complete[m] => m \in S
    BY <2>1 DEF OnlyRequired
  <2>3. CASE c = TRUE
    <3>1. n \in S
      BY <1>3, <2>2, <2>3 DEF c
    <3>2. out = Output(tree, n, TRUE)
      BY <2>3 DEF out
    <3>3. \A q \in ToSet(Output(tree, n, TRUE)) : q.complete => Added(tree, q) \subseteq S
      BY <1>2, <3>1, ClosedFacts
    <3> QED
      BY <2>2, <3>2, <3>3
  <2>4. CASE c = FALSE
    BY <1>5, <1>21, <2>2, <2>4
  <2> QED
    BY <1>4, <2>3, <2>4
<1> QED
  BY <1>1, <1>2, <1>14, <1>15, <1>16, <1>17, <1>18, <1>19, <1>20, <1>22, <1>23, <1>24, <1>25 DEF IInv

\* What the steps that begin and end the phases leave alone.
LEMMA PhaseStep ==
  ASSUME IInv, tree' = tree, UNCHANGED << nodeVars, calls, file_queue, outputVars >>,
         phase = "done" => phase' = "done"
  PROVE  /\ (\A q \in ToSet(calls) : TypeCall(q))'
         /\ ReferencesCovered'
         /\ RequestsKept'
         /\ OnlyRequired'
         /\ LocalContextsPlain' <=> LocalContextsPlain
<1>1. /\ tree' = tree /\ index' = index /\ complete' = complete /\ queue' = queue
      /\ calls' = calls /\ written' = written
  BY DEF nodeVars, outputVars
<1>2. /\ \A q : TypeCall(q)' <=> TypeCall(q)
      /\ LocalContextsPlain' <=> LocalContextsPlain
  BY <1>1, TreeKept
<1>3. (\A q \in ToSet(calls) : TypeCall(q))'
  <2>1. \A q \in ToSet(calls) : TypeCall(q)
    BY DEF IInv
  <2> QED
    BY <1>1, <1>2, <2>1
<1>4. ReferencesCovered'
  <2>1. ReferencesCovered
    BY DEF IInv
  <2>2. \A m : Resolves(m) <=> Resolves(m)'
    BY <1>1 DEF Resolves
  <2> QED
    BY <1>1, <2>1, <2>2 DEF ReferencesCovered
<1>5. RequestsKept'
  <2>1. RequestsKept
    BY DEF IInv
  <2>2. \A q : Met(q) <=> Met(q)'
    BY <1>1 DEF Met
  <2> QED
    BY <1>1, <2>1, <2>2 DEF RequestsKept
<1>6. OnlyRequired'
  <2>1. OnlyRequired
    BY DEF IInv
  <2> QED
    BY <1>1, <1>2, <2>1 DEF OnlyRequired
<1> QED
  BY <1>2, <1>3, <1>4, <1>5, <1>6

\* The first phase ends, or the second, or the files have been written.
LEMMA IInvEndComplete ==
  ASSUME IInv, EndComplete
  PROVE  IInv'
<1>1. /\ phase = "complete" /\ calls = << >> /\ queue = << >>
      /\ phase' = "foreach"
      /\ unvisited' = {n \in Node : index[n] # 0}
      /\ tree' = tree /\ index' = index /\ complete' = complete /\ queue' = queue
      /\ next_index' = next_index /\ dumpBug' = dumpBug
      /\ calls' = calls /\ written' = written /\ filesWritten' = filesWritten
      /\ require_complete' = require_complete /\ file_queue' = file_queue
  BY DEF EndComplete, nodeVars, outputVars
<1>2. /\ (\A q \in ToSet(calls) : TypeCall(q))'
      /\ ReferencesCovered' /\ RequestsKept' /\ OnlyRequired'
      /\ LocalContextsPlain' <=> LocalContextsPlain
  BY <1>1, PhaseStep DEF nodeVars, outputVars
<1>3. ToSet(queue) = {} /\ ToSet(calls) = {} /\ Len(queue) = 0
  BY <1>1, TypeFacts
<1>4. /\ TypeOK /\ Phases /\ NodesIndexed /\ NodesCovered /\ FilesQueued
      /\ MentionsPlain /\ QueuedOnce /\ tree \in Program
  BY DEF IInv
<1>5. TypeOK'
  BY <1>1, <1>4 DEF TypeOK
<1>6. Phases'
  BY <1>1, <1>4 DEF Phases
<1>7. NodesIndexed'
  BY <1>1, <1>4 DEF NodesIndexed
<1>8. NodesCovered'
  BY <1>1, <1>3, <1>4 DEF NodesCovered
<1>9. FilesQueued'
  BY <1>1, <1>4 DEF FilesQueued
<1>10. MentionsPlain'
  BY <1>1, <1>2, <1>3, <1>4 DEF MentionsPlain
<1>11. QueuedOnce'
  BY <1>1, <1>2, <1>3, <1>4 DEF QueuedOnce
<1> QED
  BY <1>1, <1>2, <1>4, <1>5, <1>6, <1>7, <1>8, <1>9, <1>10, <1>11 DEF IInv

LEMMA IInvEndForeach ==
  ASSUME IInv, EndForeach
  PROVE  IInv'
<1>1. /\ phase = "foreach" /\ unvisited = {}
      /\ phase' = "incomplete" /\ require_complete' = FALSE
      /\ tree' = tree /\ index' = index /\ complete' = complete /\ queue' = queue
      /\ next_index' = next_index /\ dumpBug' = dumpBug /\ unvisited' = unvisited
      /\ calls' = calls /\ written' = written /\ filesWritten' = filesWritten
      /\ file_queue' = file_queue
  BY DEF EndForeach, nodeVars, outputVars
<1>2. /\ (\A q \in ToSet(calls) : TypeCall(q))'
      /\ ReferencesCovered' /\ RequestsKept' /\ OnlyRequired'
      /\ LocalContextsPlain' <=> LocalContextsPlain
  BY <1>1, PhaseStep DEF nodeVars, outputVars
<1>4. /\ TypeOK /\ Phases /\ NodesIndexed /\ NodesCovered /\ FilesQueued
      /\ MentionsPlain /\ QueuedOnce /\ tree \in Program
  BY DEF IInv
<1>5. TypeOK'
  BY <1>1, <1>4 DEF TypeOK
<1>6. Phases'
  <2>1. (phase' \in {"complete", "foreach"}) = FALSE
    BY <1>1
  <2>2. calls' = << >> /\ unvisited' = {}
    BY <1>1, <1>4 DEF Phases
  <2> QED
    BY <1>1, <2>1, <2>2 DEF Phases
<1>7. NodesIndexed'
  BY <1>1, <1>4 DEF NodesIndexed
<1>8. NodesCovered'
  BY <1>1, <1>4 DEF NodesCovered
<1>9. FilesQueued'
  BY <1>1, <1>4 DEF FilesQueued
<1>10. MentionsPlain'
  <2>1. ToSet(calls) = {}
    BY <1>1, <1>4, TypeFacts DEF Phases
  <2> QED
    BY <1>1, <1>2, <1>4, <2>1 DEF MentionsPlain
<1>11. QueuedOnce'
  <2> SUFFICES ASSUME LocalContextsPlain PROVE QueuedOnce'
    BY <1>2 DEF QueuedOnce
  <2>1. \A m \in ToSet(queue) : written[m] = 0 /\ complete[m] = (phase = "complete") /\ m \notin unvisited
    BY <1>4 DEF QueuedOnce
  <2>2. (phase = "complete") = (phase' = "complete")
    BY <1>1
  <2>3. \A m \in ToSet(queue') :
          written'[m] = 0 /\ complete'[m] = (phase' = "complete") /\ m \notin unvisited'
    BY <1>1, <2>1, <2>2
  <2> QED
    BY <1>1, <1>4, <2>3 DEF QueuedOnce
<1> QED
  BY <1>1, <1>2, <1>4, <1>5, <1>6, <1>7, <1>8, <1>9, <1>10, <1>11 DEF IInv

LEMMA IInvEndIncomplete ==
  ASSUME IInv, EndIncomplete
  PROVE  IInv'
<1>1. /\ phase = "incomplete" /\ calls = << >> /\ queue = << >>
      /\ phase' = "files" /\ require_complete' = require_complete
      /\ tree' = tree /\ index' = index /\ complete' = complete /\ queue' = queue
      /\ next_index' = next_index /\ dumpBug' = dumpBug /\ unvisited' = unvisited
      /\ calls' = calls /\ written' = written /\ filesWritten' = filesWritten
      /\ file_queue' = file_queue
  BY DEF EndIncomplete, nodeVars, outputVars
<1>2. /\ (\A q \in ToSet(calls) : TypeCall(q))'
      /\ ReferencesCovered' /\ RequestsKept' /\ OnlyRequired'
      /\ LocalContextsPlain' <=> LocalContextsPlain
  BY <1>1, PhaseStep DEF nodeVars, outputVars
<1>3. ToSet(queue) = {} /\ ToSet(calls) = {} /\ Len(queue) = 0
  BY <1>1, TypeFacts
<1>4. /\ TypeOK /\ Phases /\ NodesIndexed /\ NodesCovered /\ FilesQueued
      /\ MentionsPlain /\ QueuedOnce /\ tree \in Program
  BY DEF IInv
<1>5. TypeOK'
  BY <1>1, <1>4 DEF TypeOK
<1>6. Phases'
  BY <1>1, <1>4 DEF Phases
<1>7. NodesIndexed'
  BY <1>1, <1>4 DEF NodesIndexed
<1>8. NodesCovered'
  BY <1>1, <1>4 DEF NodesCovered
<1>9. FilesQueued'
  BY <1>1, <1>4 DEF FilesQueued
<1>10. MentionsPlain'
  BY <1>1, <1>2, <1>3, <1>4 DEF MentionsPlain
<1>11. QueuedOnce'
  BY <1>1, <1>2, <1>3, <1>4 DEF QueuedOnce
<1> QED
  BY <1>1, <1>2, <1>4, <1>5, <1>6, <1>7, <1>8, <1>9, <1>10, <1>11 DEF IInv

LEMMA IInvFiles ==
  ASSUME IInv, DumpFile \/ Finish
  PROVE  IInv'
<1>1. /\ phase = "files" /\ phase' \in {"files", "done"}
      /\ require_complete' = require_complete
      /\ tree' = tree /\ index' = index /\ complete' = complete /\ queue' = queue
      /\ next_index' = next_index /\ dumpBug' = dumpBug /\ unvisited' = unvisited
      /\ calls' = calls /\ written' = written
      /\ file_queue' = file_queue
  BY DEF DumpFile, Finish, nodeVars, outputVars
<1>2. /\ filesWritten' \in Nat
      /\ filesWritten' <= Len(file_queue)
      /\ phase' = "done" => filesWritten' = Len(file_queue)
  <2>1. filesWritten \in Nat /\ Len(file_queue) \in Nat
    BY TypeFacts, LenProperties
  <2>2. CASE DumpFile
    BY <1>1, <2>1, <2>2 DEF DumpFile
  <2>3. CASE Finish
    BY <1>1, <2>1, <2>3 DEF Finish, outputVars
  <2> QED
    BY <2>2, <2>3
<1>3. ToSet(queue) = {} /\ ToSet(calls) = {} /\ Len(queue) = 0 /\ unvisited = {}
  BY <1>1, TypeFacts DEF IInv, Phases
<1>4. /\ TypeOK /\ Phases /\ NodesIndexed /\ NodesCovered /\ FilesQueued /\ ReferencesCovered
      /\ MentionsPlain /\ QueuedOnce /\ RequestsKept /\ OnlyRequired /\ tree \in Program
  BY DEF IInv
<1>5. /\ \A q : TypeCall(q)' <=> TypeCall(q)
      /\ LocalContextsPlain' <=> LocalContextsPlain
  BY <1>1, TreeKept
<1>6. TypeOK'
  BY <1>1, <1>2, <1>4 DEF TypeOK
<1>7. Phases'
  BY <1>1, <1>4 DEF Phases
<1>8. NodesIndexed' /\ NodesCovered'
  BY <1>1, <1>3, <1>4 DEF NodesIndexed, NodesCovered
<1>9. FilesQueued'
  BY <1>1, <1>2, <1>4 DEF FilesQueued
<1>10. MentionsPlain'
  BY <1>1, <1>3, <1>4, <1>5 DEF MentionsPlain
<1>11. QueuedOnce'
  BY <1>1, <1>3, <1>4, <1>5 DEF QueuedOnce
<1>12. ReferencesCovered'
  <2>1. \A m : Resolves(m) <=> Resolves(m)'
    BY <1>1 DEF Resolves
  <2> QED
    BY <1>1, <1>4, <2>1 DEF ReferencesCovered
<1>13. RequestsKept'
  <2>1. \A q : Met(q) <=> Met(q)'
    BY <1>1 DEF Met
  <2> QED
    BY <1>1, <1>4, <2>1 DEF RequestsKept
<1>14. OnlyRequired'
  BY <1>1, <1>4, <1>5 DEF OnlyRequired
<1>15. (\A q \in ToSet(calls) : TypeCall(q))'
  BY <1>1, <1>3
<1> QED
  BY <1>1, <1>4, <1>6, <1>7, <1>8, <1>9, <1>10, <1>11, <1>12, <1>13, <1>14, <1>15 DEF IInv

\* A node that never became complete is queued for the second phase.
LEMMA IInvVisit ==
  ASSUME IInv, NEW n \in Node, Visit(n)
  PROVE  IInv'
<1>1. /\ phase = "foreach" /\ n \in unvisited
      /\ unvisited' = unvisited \ {n}
      /\ queue' = IF complete[n] THEN queue ELSE Append(queue, n)
      /\ phase' = phase /\ require_complete' = require_complete
      /\ tree' = tree /\ index' = index /\ complete' = complete
      /\ next_index' = next_index /\ dumpBug' = dumpBug
      /\ calls' = calls /\ written' = written /\ filesWritten' = filesWritten
      /\ file_queue' = file_queue
  BY DEF Visit, outputVars
<1>2. /\ queue \in Seq(Node)
      /\ complete \in [Node -> BOOLEAN]
      /\ written \in [Node -> Nat]
      /\ ToSet(queue) \subseteq Node
  BY TypeFacts
<1>3. /\ queue' \in Seq(Node)
      /\ ToSet(queue') = IF complete[n] THEN ToSet(queue) ELSE ToSet(queue) \cup {n}
  <2>1. CASE complete[n]
    BY <1>1, <1>2, <2>1
  <2>2. CASE ~ complete[n]
    <3>1. /\ Append(queue, n) \in Seq(Node)
          /\ ToSet(Append(queue, n)) = ToSet(queue) \cup {n}
      BY <1>2, ToSetAppend
    <3> QED
      BY <1>1, <2>2, <3>1
  <2> QED
    BY <2>1, <2>2
<1>4. /\ TypeOK /\ Phases /\ NodesIndexed /\ NodesCovered /\ FilesQueued /\ ReferencesCovered
      /\ MentionsPlain /\ QueuedOnce /\ RequestsKept /\ OnlyRequired /\ tree \in Program
  BY DEF IInv
<1>5. /\ \A q : TypeCall(q)' <=> TypeCall(q)
      /\ LocalContextsPlain' <=> LocalContextsPlain
  BY <1>1, TreeKept
<1>6. TypeOK'
  BY <1>1, <1>3, <1>4 DEF TypeOK
<1>7. Phases'
  BY <1>1, <1>4 DEF Phases
<1>8. NodesIndexed'
  BY <1>1, <1>3, <1>4 DEF NodesIndexed
<1>9. NodesCovered'
  BY <1>1, <1>3, <1>4 DEF NodesCovered
<1>10. FilesQueued'
  BY <1>1, <1>4 DEF FilesQueued
<1>11. ToSet(calls) = {}
  BY <1>1, <1>4, TypeFacts DEF Phases
<1>12. MentionsPlain'
  BY <1>1, <1>4, <1>5, <1>11 DEF MentionsPlain
<1>13. QueuedOnce'
  <2> SUFFICES ASSUME LocalContextsPlain PROVE QueuedOnce'
    BY <1>5 DEF QueuedOnce
  <2>1. /\ \A m \in ToSet(queue) : written[m] = 0 /\ complete[m] = FALSE /\ m \notin unvisited
        /\ \A i, j \in 1 .. Len(queue) : queue[i] = queue[j] => i = j
        /\ \A m \in Node : written[m] > 0 => complete[m]
        /\ \A m \in Node : written[m] <= 1
    BY <1>1, <1>4 DEF QueuedOnce
  <2>2. (phase' = "complete") = FALSE
    BY <1>1
  <2>3. \A m \in ToSet(queue') :
          written'[m] = 0 /\ complete'[m] = FALSE /\ m \notin unvisited'
    <3>1. ~ complete[n] => written[n] = 0 /\ complete[n] = FALSE
      BY <1>2, <2>1
    <3> QED
      BY <1>1, <1>3, <2>1, <3>1
  <2>4. \A i, j \in 1 .. Len(queue') : queue'[i] = queue'[j] => i = j
    <3>1. CASE complete[n]
      BY <1>1, <2>1, <3>1
    <3>2. CASE ~ complete[n]
      <4>1. /\ queue' = Append(queue, n)
            /\ Len(queue') = Len(queue) + 1
            /\ \A i \in 1 .. Len(queue) : queue'[i] = queue[i]
            /\ queue'[Len(queue) + 1] = n
        BY <1>1, <1>2, <3>2, ToSetAppend
      <4>2. /\ \A i \in 1 .. Len(queue) : queue[i] # n
            /\ Len(queue) \in Nat
        BY <1>1, <1>2, <2>1, ToSetFacts
      <4> QED
        BY <2>1, <4>1, <4>2
    <3> QED
      BY <3>1, <3>2
  <2> QED
    BY <1>1, <2>1, <2>2, <2>3, <2>4 DEF QueuedOnce
<1>14. ReferencesCovered'
  <2>1. \A m : Resolves(m) <=> Resolves(m)'
    BY <1>1 DEF Resolves
  <2> QED
    BY <1>1, <1>3, <1>4, <2>1 DEF ReferencesCovered
<1>15. RequestsKept'
  <2>1. \A q : Met(q) <=> Met(q)'
    BY <1>1 DEF Met
  <2> QED
    BY <1>1, <1>3, <1>4, <2>1 DEF RequestsKept
<1>16. OnlyRequired'
  BY <1>1, <1>4, <1>5 DEF OnlyRequired
<1>17. (\A q \in ToSet(calls) : TypeCall(q))'
  BY <1>1, <1>11
<1> QED
  BY <1>1, <1>4, <1>6, <1>7, <1>8, <1>9, <1>10, <1>12, <1>13, <1>14, <1>15, <1>16, <1>17 DEF IInv

LEMMA IInvUnchanged ==
  ASSUME IInv, UNCHANGED vars
  PROVE  IInv'
<1>1. /\ tree' = tree /\ index' = index /\ complete' = complete /\ queue' = queue
      /\ next_index' = next_index /\ dumpBug' = dumpBug /\ unvisited' = unvisited
      /\ calls' = calls /\ written' = written /\ filesWritten' = filesWritten
      /\ file_queue' = file_queue /\ phase' = phase /\ require_complete' = require_complete
  BY DEF vars, nodeVars, outputVars
<1>2. /\ (\A q \in ToSet(calls) : TypeCall(q))'
      /\ ReferencesCovered' /\ RequestsKept' /\ OnlyRequired'
      /\ LocalContextsPlain' <=> LocalContextsPlain
  BY <1>1, PhaseStep DEF nodeVars, outputVars
<1>3. /\ TypeOK /\ Phases /\ NodesIndexed /\ NodesCovered /\ FilesQueued
      /\ MentionsPlain /\ QueuedOnce /\ tree \in Program
  BY DEF IInv
<1>4. TypeOK' /\ Phases'
  BY <1>1, <1>3 DEF TypeOK, Phases
<1>5. NodesIndexed' /\ NodesCovered' /\ FilesQueued'
  BY <1>1, <1>3 DEF NodesIndexed, NodesCovered, FilesQueued
<1>6. MentionsPlain'
  <2>1. \A q : Plain(q)' <=> Plain(q)
    BY <1>1, TreeKept
  <2> QED
    BY <1>1, <1>2, <1>3, <2>1 DEF MentionsPlain
<1>7. QueuedOnce'
  BY <1>1, <1>2, <1>3 DEF QueuedOnce
<1> QED
  BY <1>1, <1>2, <1>3, <1>4, <1>5, <1>6, <1>7 DEF IInv

LEMMA IInvNext ==
  ASSUME IInv, [Next]_vars
  PROVE  IInv'
<1>1. CASE AddNode
  BY <1>1, IInvAddNode
<1>2. CASE AddNodeReal
  BY <1>2, IInvAddNodeReal
<1>3. CASE Dump
  BY <1>3, IInvDump
<1>4. CASE EndComplete
  BY <1>4, IInvEndComplete
<1>5. CASE \E n \in Node : Visit(n)
  BY <1>5, IInvVisit
<1>6. CASE EndForeach
  BY <1>6, IInvEndForeach
<1>7. CASE EndIncomplete
  BY <1>7, IInvEndIncomplete
<1>8. CASE DumpFile \/ Finish
  BY <1>8, IInvFiles
<1>9. CASE Done \/ UNCHANGED vars
  BY <1>9, IInvUnchanged DEF Done
<1> QED
  BY <1>1, <1>2, <1>3, <1>4, <1>5, <1>6, <1>7, <1>8, <1>9 DEF Next

-----------------------------------------------------------------------------
(* The properties. *)

\* The invariant holds of every dump: nothing that is mentioned, asked for or
\* required is forgotten between the two phases of do_xml_output.
THEOREM InvariantHolds == Spec => []IInv
<1>1. Init => IInv
  BY IInvInit
<1>2. IInv /\ [Next]_vars => IInv'
  BY IInvNext
<1> QED
  BY <1>1, <1>2, PTL DEF Spec

\* Every variable of the dump has its type.
THEOREM TypeCorrect == Spec => []TypeOK
<1>1. IInv => TypeOK
  BY DEF IInv
<1> QED
  BY <1>1, InvariantHolds, PTL

\* When do_xml_output returns, every id that a written element refers to is the id
\* of a written element, and every file attribute that of one File element.
THEOREM NoDanglingReference == Spec => []ReferencesResolve
<1>1. IInv => ReferencesResolve
  <2> SUFFICES ASSUME IInv, phase = "done" PROVE
                 /\ FilesResolve
                 /\ \A n \in Node : written[n] > 0 =>
                      LET out == Output(tree, n, complete[n])
                      IN  \A i \in 1 .. Len(out) : \A m \in Printed(tree, out[i]) : written[m] > 0
    BY DEF ReferencesResolve
  <2>1. /\ Phases /\ NodesCovered /\ ReferencesCovered /\ FilesQueued /\ tree \in Program
    BY DEF IInv
  <2>2. ToSet(calls) = {} /\ ToSet(queue) = {} /\ unvisited = {}
    BY <2>1, TypeFacts DEF Phases
  <2>3. FilesResolve
    <3> SUFFICES ASSUME NEW n \in Node, written[n] > 0, tree.file[n] # None
                 PROVE  \E i \in 1 .. filesWritten :
                          /\ file_queue[i] = tree.file[n]
                          /\ \A j \in 1 .. filesWritten : file_queue[j] = file_queue[i] => j = i
      BY DEF FilesResolve
    <3>1. file_queue \in Seq(File) /\ filesWritten = Len(file_queue)
      BY <2>1, TypeFacts DEF FilesQueued
    <3>2. ToSet(file_queue) = {file_queue[i] : i \in 1 .. Len(file_queue)}
      BY <3>1, ToSetFacts
    <3>3. tree.file[n] \in ToSet(file_queue)
      BY <2>1 DEF FilesQueued
    <3>4. \A i, j \in 1 .. Len(file_queue) : file_queue[i] = file_queue[j] => i = j
      BY <2>1 DEF FilesQueued
    <3> QED
      BY <3>1, <3>2, <3>3, <3>4
  <2>4. ASSUME NEW n \in Node, written[n] > 0,
               NEW i \in 1 .. Len(Output(tree, n, complete[n])),
               NEW m \in Printed(tree, Output(tree, n, complete[n])[i])
        PROVE  written[m] > 0
    <3> DEFINE out == Output(tree, n, complete[n])
    <3>1. complete[n] \in BOOLEAN
      BY TypeFacts
    <3>2. out \in Seq(Call)
      BY <2>1, <3>1, OutputFacts
    <3> HIDE DEF out
    <3>3. out[i] \in ToSet(out) /\ out[i] \in Call
      BY <2>4, <3>2, ToSetFacts, ElementOfSeq DEF out
    <3>4. index[m] # 0
      <4>1. \A r \in ToSet(out) : \A x \in Printed(tree, r) : Resolves(x)
        BY <2>1, <2>2, <2>4 DEF ReferencesCovered, out
      <4> QED
        BY <2>2, <2>4, <3>3, <4>1 DEF Resolves, out
    <3>5. m \in Node
      BY <2>1, <2>4, <3>3, PrintedIn DEF out
    <3> QED
      BY <2>1, <2>2, <3>4, <3>5 DEF NodesCovered
  <2> QED
    BY <2>3, <2>4
<1> QED
  BY <1>1, InvariantHolds, PTL

\* No element is written twice, and every node that was encountered is written.
THEOREM EachElementOnce == Spec => []WrittenOnce
<1>1. IInv => WrittenOnce
  <2> SUFFICES ASSUME IInv, LocalContextsPlain, NEW n \in Node
               PROVE  /\ written[n] <= 1
                      /\ phase = "done" => (written[n] = 1 <=> index[n] # 0)
    BY DEF WrittenOnce
  <2>1. Phases /\ NodesIndexed /\ NodesCovered /\ QueuedOnce
    BY DEF IInv
  <2>2. written[n] <= 1 /\ written[n] \in Nat
    BY <2>1, TypeFacts DEF QueuedOnce
  <2>3. written[n] > 0 => index[n] # 0
    BY <2>1 DEF NodesIndexed
  <2>4. phase = "done" /\ index[n] # 0 => written[n] > 0
    <3>1. phase = "done" => ToSet(queue) = {} /\ unvisited = {}
      BY <2>1, TypeFacts DEF Phases
    <3> QED
      BY <2>1, <3>1 DEF NodesCovered
  <2> QED
    BY <2>2, <2>3, <2>4
<1> QED
  BY <1>1, InvariantHolds, PTL

\* The nodes written with all of their members are the least set that holds what
\* the start nodes and its own elements require complete.
THEOREM SelectionIsExact == Spec => []SelectionExact
<1>1. IInv => SelectionExact
  <2> SUFFICES ASSUME IInv, phase = "done", LocalContextsPlain
               PROVE  LET C == {n \in Node : complete[n]}
                      IN  /\ CompletionClosed(tree, C)
                          /\ \A S \in SUBSET C : CompletionClosed(tree, S) => S = C
    BY DEF SelectionExact
  <2> DEFINE C == {n \in Node : complete[n]}
  <2>1. Phases /\ RequestsKept /\ OnlyRequired /\ tree \in Program
    BY DEF IInv
  <2>2. ToSet(calls) = {} /\ ToSet(queue) = {}
    BY <2>1, TypeFacts DEF Phases
  <2>3. ASSUME NEW r \in Call, Met(r) PROVE Added(tree, r) \subseteq C
    <3>1. Added(tree, r) \subseteq Node
      BY <2>1, AddedIn
    <3> QED
      BY <2>2, <2>3, <3>1 DEF Met
  <2>4. \A r \in ToSet(Calls("add", tree.start, TRUE)) : Added(tree, r) \subseteq C
    <3>1. \A r \in ToSet(Calls("add", tree.start, TRUE)) : r \in Call /\ Met(r)
      BY <2>1, StartFacts DEF RequestsKept
    <3> QED
      BY <2>3, <3>1
  <2>5. \A n \in C : \A r \in ToSet(Output(tree, n, TRUE)) : r.complete => Added(tree, r) \subseteq C
    <3> SUFFICES ASSUME NEW n \in Node, complete[n], NEW r \in ToSet(Output(tree, n, TRUE)), r.complete
                 PROVE  Added(tree, r) \subseteq C
      OBVIOUS
    <3>1. Met(r)
      BY <2>1, <2>2 DEF RequestsKept
    <3>2. r \in Call
      BY <2>1, OutputFacts
    <3> QED
      BY <2>3, <3>1, <3>2
  <2>6. C \subseteq Node
    OBVIOUS
  <2>7. \A S \in SUBSET C : CompletionClosed(tree, S) => S = C
    <3> SUFFICES ASSUME NEW S \in SUBSET C, CompletionClosed(tree, S) PROVE C \subseteq S
      OBVIOUS
    <3>1. S \in SUBSET Node
      OBVIOUS
    <3> QED
      BY <2>1, <3>1 DEF OnlyRequired
  <2> HIDE DEF C
  <2>8. CompletionClosed(tree, C)
    BY <2>1, <2>4, <2>5, <2>6, ClosedFacts
  <2> QED
    BY <2>7, <2>8 DEF C
<1> QED
  BY <1>1, InvariantHolds, PTL

-----------------------------------------------------------------------------
(***************************************************************************)
(* The dump ends.  That it returns is a liveness property; the part of it  *)
(* that is about the code, and not about its scheduling, is that no step   *)
(* can be repeated for ever: each goes down in a well-founded order.       *)
(***************************************************************************)
Smaller(S, T) == S \subseteq T /\ S # T

Less(m, n) == m \in Nat /\ n \in Nat /\ m < n

PhasesLeft ==
  CASE phase = "complete" -> 4
    [] phase = "foreach" -> 3
    [] phase = "incomplete" -> 2
    [] phase = "files" -> 1
    [] OTHER -> 0

Unmet == {n \in Node : index[n] = 0}

Incomplete == {n \in Node : ~ complete[n]}

FilesLeft == Len(file_queue) - filesWritten

\* How often a call is handed on at most: a type leads to a typedef, a group to its
\* members, a typedef to the type it names, and that to xml_add_node_real.
Level(t, r) ==
  CASE r.op = "real" -> 0
    [] r.op = "idref" -> 3
    [] r.op = "add" /\ t.code[r.node] = "group" -> 3
    [] r.op = "add" /\ t.code[r.node] = "typedef" -> 2
    [] OTHER -> 1

\* How far from the end of s the calls are that are handed on k times or more.
Reach(t, s, k) == {Len(s) + 1 - i : i \in {j \in 1 .. Len(s) : Level(t, s[j]) >= k}}

\* A call gives way to calls of lower level.
CallsDescend ==
  \E k \in 0 .. 3 :
    /\ Smaller(Reach(tree', calls', k), Reach(tree, calls, k))
    /\ \A j \in k + 1 .. 3 : Reach(tree', calls', j) = Reach(tree, calls, j)

\* A step ends a phase, meets a new node, makes one complete, visits one, takes one
\* off the queue, writes a file or deals with a call, and nothing is undone that
\* comes before in this list.
Descends ==
  \/ Less(PhasesLeft', PhasesLeft)
  \/ UNCHANGED phase /\ Smaller(Unmet', Unmet)
  \/ UNCHANGED << phase, Unmet >> /\ Smaller(Incomplete', Incomplete)
  \/ UNCHANGED << phase, Unmet, Incomplete >> /\ Smaller(unvisited', unvisited)
  \/ UNCHANGED << phase, Unmet, Incomplete, unvisited >> /\ Less(Len(queue'), Len(queue))
  \/ /\ UNCHANGED << phase, Unmet, Incomplete, unvisited, queue >>
     /\ Less(FilesLeft', FilesLeft)
  \/ /\ UNCHANGED << phase, Unmet, Incomplete, unvisited, queue, FilesLeft >>
     /\ CallsDescend

LEMMA LevelFacts ==
  ASSUME NEW t, NEW r
  PROVE  Level(t, r) \in 0 .. 3
BY DEF Level

LEMMA ReachFacts ==
  ASSUME NEW t, NEW s, NEW k, NEW n, Len(s) = n
  PROVE  \A d : d \in Reach(t, s, k) <=> \E i \in 1 .. n : Level(t, s[i]) >= k /\ d = n + 1 - i
BY DEF Reach

\* Calls of lower level in front change nothing.
LEMMA ReachBehind ==
  ASSUME NEW t, NEW s \in Seq(Call), NEW r \in Seq(Call), NEW k \in 0 .. 4,
         \A q \in ToSet(s) : Level(t, q) < k
  PROVE  Reach(t, s \o r, k) = Reach(t, r, k)
<1>1. /\ Len(s \o r) = Len(s) + Len(r)
      /\ \A i \in 1 .. Len(s) + Len(r) :
           (s \o r)[i] = IF i <= Len(s) THEN s[i] ELSE r[i - Len(s)]
      /\ Len(s) \in Nat /\ Len(r) \in Nat
  BY ConcatProperties, LenProperties
<1>2. \A i \in 1 .. Len(s) : ~ (Level(t, s[i]) >= k)
  <2>1. ToSet(s) = {s[i] : i \in 1 .. Len(s)}
    BY ToSetFacts
  <2> QED
    BY <2>1, LevelFacts
<1> DEFINE m == Len(s)
           n == Len(r)
           x == s \o r
<1>3. /\ Len(x) = m + n /\ m \in Nat /\ n \in Nat
      /\ \A i \in 1 .. m + n : x[i] = IF i <= m THEN s[i] ELSE r[i - m]
      /\ \A i \in 1 .. m : ~ (Level(t, s[i]) >= k)
  BY <1>1, <1>2
<1>r. Len(r) = n
  OBVIOUS
<1> HIDE DEF m, n, x
<1>4. /\ \A d : d \in Reach(t, x, k) <=> \E i \in 1 .. m + n : Level(t, x[i]) >= k /\ d = m + n + 1 - i
      /\ \A d : d \in Reach(t, r, k) <=> \E i \in 1 .. n : Level(t, r[i]) >= k /\ d = n + 1 - i
  <2>1. Len(x) = m + n
    BY <1>3
  <2>2. \A d : d \in Reach(t, x, k) <=> \E i \in 1 .. m + n : Level(t, x[i]) >= k /\ d = m + n + 1 - i
    BY ONLY <2>1, ReachFacts
  <2>3. \A d : d \in Reach(t, r, k) <=> \E i \in 1 .. n : Level(t, r[i]) >= k /\ d = n + 1 - i
    BY ONLY <1>r, ReachFacts
  <2> QED
    BY <2>2, <2>3
<1>5. ASSUME NEW d \in Reach(t, x, k) PROVE d \in Reach(t, r, k)
  <2>1. PICK i \in 1 .. m + n : Level(t, x[i]) >= k /\ d = m + n + 1 - i
    BY <1>4
  <2>2. ~ (i <= m)
    <3> SUFFICES ASSUME i <= m PROVE FALSE
      OBVIOUS
    <3>1. i \in 1 .. m /\ x[i] = s[i]
      BY <1>3
    <3> QED
      BY <1>3, <2>1, <3>1
  <2>3. i - m \in 1 .. n /\ x[i] = r[i - m] /\ d = n + 1 - (i - m)
    BY <1>3, <2>1, <2>2
  <2> QED
    BY <1>4, <2>1, <2>3
<1>6. ASSUME NEW d \in Reach(t, r, k) PROVE d \in Reach(t, x, k)
  <2>1. PICK i \in 1 .. n : Level(t, r[i]) >= k /\ d = n + 1 - i
    BY <1>4
  <2>2. m + i \in 1 .. m + n /\ ~ (m + i <= m) /\ (m + i) - m = i /\ d = m + n + 1 - (m + i)
    BY <1>3, <2>1
  <2>3. x[m + i] = r[i]
    BY <1>3, <2>2
  <2> QED
    BY <1>4, <2>1, <2>2, <2>3
<1>7. Reach(t, x, k) = Reach(t, r, k)
  BY <1>5, <1>6
<1> QED
  BY <1>7 DEF x

\* The first call is the one furthest from the end.
LEMMA ReachHead ==
  ASSUME NEW t, NEW s \in Seq(Call), s # << >>, NEW k \in 0 .. 3
  PROVE  /\ Level(t, Head(s)) < k => Reach(t, Tail(s), k) = Reach(t, s, k)
         /\ Level(t, Head(s)) >= k => Smaller(Reach(t, Tail(s), k), Reach(t, s, k))
<1> DEFINE r == Tail(s)
           n == Len(s)
<1>1. /\ Head(s) = s[1]
      /\ n \in Nat \ {0}
      /\ Len(r) = n - 1
      /\ \A i \in 1 .. n - 1 : r[i] = s[i + 1]
  BY ToSetHeadTail
<1>s. Len(s) = n
  OBVIOUS
<1> HIDE DEF r, n
<1>2. /\ \A d : d \in Reach(t, s, k) <=> \E i \in 1 .. n : Level(t, s[i]) >= k /\ d = n + 1 - i
      /\ \A d : d \in Reach(t, r, k) <=> \E i \in 1 .. n - 1 : Level(t, r[i]) >= k /\ d = n - 1 + 1 - i
  <2>1. Len(r) = n - 1
    BY <1>1
  <2>2. \A d : d \in Reach(t, s, k) <=> \E i \in 1 .. n : Level(t, s[i]) >= k /\ d = n + 1 - i
    BY ONLY <1>s, ReachFacts
  <2>3. \A d : d \in Reach(t, r, k) <=> \E i \in 1 .. n - 1 : Level(t, r[i]) >= k /\ d = n - 1 + 1 - i
    BY ONLY <2>1, ReachFacts
  <2> QED
    BY <2>2, <2>3
<1>3. ASSUME NEW d \in Reach(t, r, k) PROVE d \in Reach(t, s, k) /\ d # n
  <2>1. PICK i \in 1 .. n - 1 : Level(t, r[i]) >= k /\ d = n - 1 + 1 - i
    BY <1>2
  <2>2. i + 1 \in 1 .. n /\ r[i] = s[i + 1] /\ d = n + 1 - (i + 1) /\ d # n
    BY <1>1, <2>1
  <2> QED
    BY <1>2, <2>1, <2>2
<1>4. CASE Level(t, Head(s)) < k
  <2>1. ASSUME NEW d \in Reach(t, s, k) PROVE d \in Reach(t, r, k)
    <3>1. PICK i \in 1 .. n : Level(t, s[i]) >= k /\ d = n + 1 - i
      BY <1>2
    <3>2. i # 1
      BY <1>1, <1>4, <3>1, LevelFacts
    <3>3. i - 1 \in 1 .. n - 1 /\ r[i - 1] = s[i] /\ d = n - 1 + 1 - (i - 1)
      BY <1>1, <3>1, <3>2
    <3> QED
      BY <1>2, <3>1, <3>3
  <2>2. Reach(t, r, k) = Reach(t, s, k)
    BY <1>3, <2>1
  <2>3. ~ (Level(t, Head(s)) >= k)
    BY <1>4, LevelFacts
  <2> QED
    BY <2>2, <2>3 DEF r
<1>5. CASE Level(t, Head(s)) >= k
  <2>1. 1 \in 1 .. n /\ n = n + 1 - 1
    BY <1>1
  <2>2. n \in Reach(t, s, k)
    BY <1>1, <1>2, <1>5, <2>1
  <2>3. Smaller(Reach(t, r, k), Reach(t, s, k))
    BY <1>3, <2>2 DEF Smaller
  <2>4. ~ (Level(t, Head(s)) < k)
    BY <1>5, LevelFacts
  <2> QED
    BY <2>3, <2>4 DEF r
<1> QED
  BY <1>4, <1>5, LevelFacts

\* A call gives way to calls of lower level, or to none.
LEMMA ReplacedDescends ==
  ASSUME calls \in Seq(Call), calls # << >>, tree' = tree, NEW E \in Seq(Call),
         calls' = E \o Tail(calls),
         \A q \in ToSet(E) : Level(tree, q) < Level(tree, Head(calls))
  PROVE  CallsDescend
<1> DEFINE l == Level(tree, Head(calls))
<1>1. l \in 0 .. 3 /\ Tail(calls) \in Seq(Call)
  BY LevelFacts, ToSetHeadTail
<1>2. \A q \in ToSet(E) : Level(tree, q) \in Nat /\ Level(tree, q) < l
  <2> TAKE q \in ToSet(E)
  <2>1. Level(tree, q) < l
    OBVIOUS
  <2>2. Level(tree, q) \in 0 .. 3
    BY ONLY LevelFacts
  <2> QED
    BY ONLY <2>1, <2>2, SMT
<1>3. ASSUME NEW k \in 0 .. 3, l <= k PROVE Reach(tree', calls', k) = Reach(tree, Tail(calls), k)
  <2>1. \A q \in ToSet(E) : Level(tree, q) < k
    <3> HIDE DEF l
    <3> QED
      BY <1>1, <1>2, <1>3
  <2>2. k \in 0 .. 4
    OBVIOUS
  <2> HIDE DEF l
  <2>3. Reach(tree, E \o Tail(calls), k) = Reach(tree, Tail(calls), k)
    BY ONLY <1>1, <2>1, <2>2, E \in Seq(Call), ReachBehind, Zenon
  <2> QED
    BY <2>3
<1>4. Smaller(Reach(tree, Tail(calls), l), Reach(tree, calls, l))
  BY <1>1, ReachHead
<1>5. \A j \in l + 1 .. 3 : Reach(tree, Tail(calls), j) = Reach(tree, calls, j)
  <2> TAKE j \in l + 1 .. 3
  <2>1. Level(tree, Head(calls)) < j /\ j \in 0 .. 4
    BY <1>1
  <2> QED
    BY <2>1, ReachHead
<1> HIDE DEF l
<1>6. /\ Smaller(Reach(tree', calls', l), Reach(tree, calls, l))
      /\ \A j \in l + 1 .. 3 : Reach(tree', calls', j) = Reach(tree, calls, j)
  BY <1>1, <1>3, <1>4, <1>5
<1> QED
  BY <1>1, <1>6 DEF CallsDescend

LEMMA AddNodeDescends ==
  ASSUME IInv, AddNode
  PROVE  Descends
<1> DEFINE r == Head(calls)
           n == r.node
           E == Expand(tree, r)
           R(op, m) == [op |-> op, node |-> m, complete |-> r.complete]
<1>1. /\ calls # << >>
      /\ r.op # "real"
      /\ calls' = E \o Tail(calls)
      /\ tree' = tree /\ index' = index /\ complete' = complete /\ queue' = queue
      /\ unvisited' = unvisited /\ file_queue' = file_queue /\ phase' = phase
      /\ filesWritten' = filesWritten
  BY DEF AddNode, nodeVars, outputVars
<1>2. /\ r \in Call
      /\ ToSet(calls) = {r} \cup ToSet(Tail(calls))
      /\ calls \in Seq(Call)
  BY <1>1, TypeFacts, ToSetHeadTail
<1>3. tree \in Program /\ TypeCall(r)
  BY <1>2 DEF IInv
<1>4. n \in Node /\ r.op \in {"idref", "add"}
  BY <1>1, <1>2 DEF Call
<1>5. /\ E \in Seq(Call)
      /\ ToSet(E) =
           IF r.op = "idref"
           THEN {R("add", tree.main[n])}
                  \cup (IF tree.name[n] = None THEN {} ELSE {R("add", tree.name[n])})
                  \cup (IF tree.qualified[n] THEN {R("add", n)} ELSE {})
           ELSE IF tree.code[n] = "skipped" THEN {}
           ELSE IF tree.code[n] = "group"
           THEN {R("add", m) : m \in ToSet(tree.members[n])}
           ELSE IF tree.code[n] = "typedef"
           THEN {R("add", Named(tree, n))}
                  \cup (IF tree.code[Named(tree, n)] = "skipped" THEN {} ELSE {R("real", n)})
           ELSE {R("real", n)}
  BY <1>1, <1>2, <1>3, ExpandElements
<1>6. \A m : /\ Level(tree, R("real", m)) = 0
             /\ tree.code[m] # "group" => Level(tree, R("add", m)) \in {1, 2}
             /\ tree.code[m] \notin {"group", "typedef"} => Level(tree, R("add", m)) = 1
  BY DEF Level
<1>7. /\ r.op = "idref" => Level(tree, r) = 3
      /\ r.op = "add" /\ tree.code[n] = "group" => Level(tree, r) = 3
      /\ r.op = "add" /\ tree.code[n] = "typedef" => Level(tree, r) = 2
      /\ r.op = "add" /\ tree.code[n] \notin {"group", "typedef"} => Level(tree, r) = 1
  BY DEF Level
<1>8. ASSUME r.op = "idref"
      PROVE  \A q \in ToSet(E) : Level(tree, q) < Level(tree, r)
  <2>1. tree.code[tree.main[n]] \in TypeCode \cup {"skipped"}
    BY <1>3, <1>4, <1>8, FormFacts DEF TypeCall
  <2>2. tree.name[n] # None => tree.code[tree.name[n]] = "typedef"
    BY <1>3, <1>4, FormFacts
  <2>3. tree.qualified[n] => tree.code[n] = "variant"
    BY <1>3, <1>4, FormFacts
  <2> HIDE DEF R, E, r, n
  <2>4. \A q \in ToSet(E) : Level(tree, q) \in {1, 2}
    BY <1>5, <1>6, <1>8, <2>1, <2>2, <2>3 DEF TypeCode
  <2> QED
    BY <1>7, <1>8, <2>4
<1>9. ASSUME r.op = "add" /\ tree.code[n] = "group"
      PROVE  \A q \in ToSet(E) : Level(tree, q) < Level(tree, r)
  <2>0. tree.members[n] \in Seq(Node)
    BY <1>3, <1>4, TreeFacts
  <2>1. ToSet(tree.members[n]) = {tree.members[n][i] : i \in 1 .. Len(tree.members[n])}
    BY <2>0, ToSetFacts
  <2>2. \A m \in ToSet(tree.members[n]) : tree.code[m] # "group"
    BY <1>3, <1>4, <1>9, <2>1, FormFacts
  <2> HIDE DEF R, E, r, n
  <2>3. \A q \in ToSet(E) : Level(tree, q) \in {1, 2}
    BY <1>5, <1>6, <1>9, <2>2
  <2> QED
    BY <1>7, <1>9, <2>3
<1>10. ASSUME r.op = "add" /\ tree.code[n] = "typedef"
      PROVE  \A q \in ToSet(E) : Level(tree, q) < Level(tree, r)
  <2>1. tree.code[Named(tree, n)] \in TypeCode \cup {"skipped"}
    BY <1>3, <1>4, <1>10, NamedFacts
  <2> HIDE DEF R, E, r, n
  <2>2. \A q \in ToSet(E) : Level(tree, q) \in {0, 1}
    BY <1>5, <1>6, <1>10, <2>1 DEF TypeCode
  <2> QED
    BY <1>7, <1>10, <2>2
<1>11. ASSUME r.op = "add" /\ tree.code[n] \notin {"group", "typedef"}
      PROVE  \A q \in ToSet(E) : Level(tree, q) < Level(tree, r)
  <2> HIDE DEF R, E, r, n
  <2>1. \A q \in ToSet(E) : Level(tree, q) = 0
    BY <1>5, <1>6, <1>11
  <2> QED
    BY <1>7, <1>11, <2>1
<1>12. \A q \in ToSet(E) : Level(tree, q) < Level(tree, r)
  BY <1>4, <1>8, <1>9, <1>10, <1>11
<1> HIDE DEF E, R, n
<1>13. CallsDescend
  BY <1>1, <1>2, <1>5, <1>12, ReplacedDescends
<1>14. UNCHANGED << phase, Unmet, Incomplete, unvisited, queue, FilesLeft >>
  BY <1>1 DEF Unmet, Incomplete, FilesLeft
<1> QED
  BY <1>13, <1>14 DEF Descends

LEMMA AddNodeRealDescends ==
  ASSUME IInv, AddNodeReal
  PROVE  Descends
<1> DEFINE r == Head(calls)
           n == r.node
           Q == (r.complete /\ ~ complete[n]) \/ (index[n] = 0 /\ phase = "incomplete")
<1>1. /\ calls # << >>
      /\ r.op = "real"
      /\ calls' = Tail(calls)
      /\ tree' = tree /\ unvisited' = unvisited /\ file_queue' = file_queue
      /\ phase' = phase /\ filesWritten' = filesWritten
  BY DEF AddNodeReal, outputVars
<1>2. calls \in Seq(Call) /\ Tail(calls) \in Seq(Call) /\ r \in Call
  BY <1>1, TypeFacts, ToSetHeadTail
<1>3. /\ n \in Node
      /\ index'[n] # 0
      /\ \A m \in Node : m # n => index'[m] = index[m] /\ complete'[m] = complete[m]
      /\ complete'[n] <=> complete[n] \/ r.complete
      /\ ~ Q => queue' = queue
  BY RealStep, Zenon
<1>4. CallsDescend
  <2>1. << >> \in Seq(Call) /\ ToSet(<< >>) = {} /\ << >> \o Tail(calls) = Tail(calls)
    BY <1>2, ConcatEmptySeq DEF ToSet
  <2> QED
    BY <1>1, <1>2, <2>1, ReplacedDescends
<1> HIDE DEF n, r
<1>5. CASE index[n] = 0
  <2>1. Smaller(Unmet', Unmet)
    BY <1>3, <1>5 DEF Unmet, Smaller
  <2> QED
    BY <1>1, <2>1 DEF Descends
<1>6. CASE index[n] # 0
  <2>1. Unmet' = Unmet
    BY <1>3, <1>6 DEF Unmet
  <2>2. CASE r.complete /\ ~ complete[n]
    <3>1. Smaller(Incomplete', Incomplete)
      BY <1>3, <2>2 DEF Incomplete, Smaller
    <3> QED
      BY <1>1, <2>1, <3>1 DEF Descends
  <2>3. CASE ~ (r.complete /\ ~ complete[n])
    <3>1. Incomplete' = Incomplete
      BY <1>3, <2>3 DEF Incomplete
    <3>2. queue' = queue
      BY <1>3, <1>6, <2>3
    <3> QED
      BY <1>1, <1>4, <2>1, <3>1, <3>2 DEF Descends, FilesLeft
  <2> QED
    BY <2>2, <2>3
<1> QED
  BY <1>5, <1>6

LEMMA DescendsNext ==
  ASSUME IInv, [Next]_vars
  PROVE  [Descends]_vars
<1>1. CASE AddNode
  BY <1>1, AddNodeDescends
<1>2. CASE AddNodeReal
  BY <1>2, AddNodeRealDescends
<1>3. CASE Dump
  <2>1. /\ queue # << >> /\ queue' = Tail(queue)
        /\ index' = index /\ complete' = complete /\ unvisited' = unvisited
        /\ phase' = phase
    BY <1>3 DEF Dump
  <2>2. Len(queue) \in Nat \ {0} /\ Len(queue') = Len(queue) - 1
    BY <2>1, TypeFacts, ToSetHeadTail
  <2>3. Less(Len(queue'), Len(queue))
    BY <2>2 DEF Less
  <2> QED
    BY <2>1, <2>3 DEF Descends, Unmet, Incomplete
<1>4. CASE EndComplete \/ EndForeach \/ EndIncomplete \/ Finish
  <2>1. \/ phase = "complete" /\ phase' = "foreach"
        \/ phase = "foreach" /\ phase' = "incomplete"
        \/ phase = "incomplete" /\ phase' = "files"
        \/ phase = "files" /\ phase' = "done"
    BY <1>4 DEF EndComplete, EndForeach, EndIncomplete, Finish
  <2>2. Less(PhasesLeft', PhasesLeft)
    BY <2>1 DEF PhasesLeft, Less
  <2> QED
    BY <2>2 DEF Descends
<1>5. ASSUME NEW n \in Node, Visit(n) PROVE Descends
  <2>1. /\ n \in unvisited /\ unvisited' = unvisited \ {n}
        /\ index' = index /\ complete' = complete /\ phase' = phase
    BY <1>5 DEF Visit
  <2>2. Smaller(unvisited', unvisited)
    BY <2>1 DEF Smaller
  <2> QED
    BY <2>1, <2>2 DEF Descends, Unmet, Incomplete
<1>6. CASE DumpFile
  <2>1. /\ filesWritten < Len(file_queue) /\ filesWritten' = filesWritten + 1
        /\ file_queue' = file_queue /\ queue' = queue /\ index' = index
        /\ complete' = complete /\ unvisited' = unvisited /\ phase' = phase
    BY <1>6 DEF DumpFile, nodeVars
  <2>2. Len(file_queue) \in Nat /\ filesWritten \in Nat
    BY TypeFacts, LenProperties
  <2>3. Less(FilesLeft', FilesLeft)
    BY <2>1, <2>2 DEF FilesLeft, Less
  <2> QED
    BY <2>1, <2>3 DEF Descends, Unmet, Incomplete
<1>7. CASE Done
  BY <1>7 DEF Done
<1> QED
  BY <1>1, <1>2, <1>3, <1>4, <1>5, <1>6, <1>7 DEF Next

\* For every translation unit, also one with cycles of references, and every order
\* of the visits: a dump of finitely many nodes has finitely many steps.
THEOREM DumpDescends == Spec => [][Descends]_vars
<1>1. IInv /\ [Next]_vars => [Descends]_vars
  BY DescendsNext
<1> QED
  BY <1>1, InvariantHolds, PTL DEF Spec
=============================================================================
