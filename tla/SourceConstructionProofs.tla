---------------------- MODULE SourceConstructionProofs ----------------------
(***************************************************************************)
(* Proofs about SourceConstruction for every acyclic document: where       *)
(* half-built objects can be, that a representation is returned exactly    *)
(* for a document in which everything is sound, and that it has each       *)
(* object in its context once and the types the document means.  The       *)
(* meaning of a type is a recursion along typedefs, reasoned about by      *)
(* induction over the references between elements; the rest is the         *)
(* invariant IInv.                                                         *)
(***************************************************************************)
EXTENDS SourceConstruction, SequenceTheorems, FiniteSetTheorems, TLAPS

-----------------------------------------------------------------------------
(* Sequences. *)

LEMMA LenZero ==
  ASSUME NEW T, NEW s \in Seq(T)
  PROVE  /\ Len(s) \in Nat
         /\ Len(s) = 0 <=> s = << >>
         /\ \A i \in 1 .. Len(s) : s[i] \in T
BY LenProperties, EmptySeq

LEMMA TailFacts ==
  ASSUME NEW T, NEW s \in Seq(T), s # << >>
  PROVE  /\ Head(s) \in T
         /\ Head(s) = s[1]
         /\ Tail(s) \in Seq(T)
         /\ Len(s) \in Nat \ {0}
         /\ Len(Tail(s)) = Len(s) - 1
         /\ \A i \in 1 .. Len(Tail(s)) : Tail(s)[i] = s[i + 1]
<1>1. /\ Head(s) \in T
      /\ Tail(s) \in Seq(T)
      /\ Len(Tail(s)) = Len(s) - 1
      /\ \A i \in 1 .. Len(Tail(s)) : Tail(s)[i] = s[i + 1]
      /\ Len(s) \in Nat \ {0}
  BY HeadTailProperties, EmptySeq
<1> QED
  BY <1>1

LEMMA Differences ==
  ASSUME NEW g \in Nat, NEW n \in Nat, NEW t \in Nat
  PROVE  /\ g - t + 1 <= g - n => t > n
         /\ g - t + 1 - (g - n) \in 1 .. n => t <= n
         /\ g - t + 1 - (g - n) = n - t + 1
OBVIOUS

LEMMA PushFacts ==
  ASSUME NEW T, NEW s \in Seq(T), NEW x \in T
  PROVE  /\ << x >> \o s \in Seq(T)
         /\ Len(<< x >> \o s) = Len(s) + 1
         /\ Len(s) \in Nat
         /\ (<< x >> \o s)[1] = x
         /\ \A i \in 2 .. Len(s) + 1 : (<< x >> \o s)[i] = s[i - 1]
         /\ << x >> \o s # << >>
<1>1. << x >> \in Seq(T) /\ Len(<< x >>) = 1 /\ << x >>[1] = x
  OBVIOUS
<1>2. /\ << x >> \o s \in Seq(T)
      /\ Len(<< x >> \o s) = 1 + Len(s)
      /\ \A i \in 1 .. 1 + Len(s) :
           (<< x >> \o s)[i] = IF i <= 1 THEN << x >>[i] ELSE s[i - 1]
  BY <1>1, ConcatProperties
<1>3. Len(s) \in Nat
  BY LenProperties
<1>4. << x >> \o s # << >>
  BY <1>2, <1>3, EmptySeq
<1> QED
  BY <1>1, <1>2, <1>3, <1>4

LEMMA AppendFacts ==
  ASSUME NEW T, NEW s \in Seq(T), NEW x \in T
  PROVE  /\ Append(s, x) \in Seq(T)
         /\ Len(Append(s, x)) = Len(s) + 1
         /\ Len(s) \in Nat
         /\ \A i \in 1 .. Len(s) : Append(s, x)[i] = s[i]
         /\ Append(s, x)[Len(s) + 1] = x
BY AppendProperties, LenProperties

LEMMA ConcatFacts ==
  ASSUME NEW T, NEW s \in Seq(T), NEW r \in Seq(T)
  PROVE  /\ s \o r \in Seq(T)
         /\ Len(s \o r) = Len(s) + Len(r)
         /\ Len(s) \in Nat /\ Len(r) \in Nat
         /\ \A i \in 1 .. Len(s) : (s \o r)[i] = s[i]
         /\ \A i \in 1 .. Len(r) : (s \o r)[Len(s) + i] = r[i]
<1>1. /\ s \o r \in Seq(T)
      /\ Len(s \o r) = Len(s) + Len(r)
      /\ \A i \in 1 .. Len(s) + Len(r) :
           (s \o r)[i] = IF i <= Len(s) THEN s[i] ELSE r[i - Len(s)]
  BY ConcatProperties
<1>2. Len(s) \in Nat /\ Len(r) \in Nat
  BY LenProperties
<1> QED
  BY <1>1, <1>2

-----------------------------------------------------------------------------
(* Documents. *)

LEMMA ElementFacts ==
  ASSUME NEW d \in Document, NEW id \in Id, d[id] # Null
  PROVE  /\ d[id] \in SourceElement
         /\ WellShaped(d[id])
         /\ d[id].elements \in Seq(Id)
         /\ d[id].types \in Seq(TypeRef)
         /\ d[id].context \in Id \cup {NoId}
         /\ Len(d[id].elements) \in Nat
         /\ Len(d[id].types) \in Nat
         /\ \A i \in 1 .. Len(d[id].elements) : d[id].elements[i] \in Id
         /\ \A i \in 1 .. Len(d[id].types) :
              /\ d[id].types[i] \in TypeRef
              /\ d[id].types[i].id \in Id
              /\ d[id].types[i].cv \in SUBSET Qualifier
         /\ References(d[id]) \subseteq Id
<1>1. d \in [Id -> SourceElement \cup {Null}] /\ WellShaped(d[id])
  BY ConstructionAssumption
<1>2. d[id] \in SourceElement
  BY <1>1
<1>3. /\ d[id].elements \in Seq(Id)
      /\ d[id].types \in Seq(TypeRef)
      /\ d[id].context \in Id \cup {NoId}
  BY <1>2 DEF SourceElement
<1>4. /\ Len(d[id].elements) \in Nat
      /\ \A i \in 1 .. Len(d[id].elements) : d[id].elements[i] \in Id
  BY <1>3, LenZero
<1>5. /\ Len(d[id].types) \in Nat
      /\ \A i \in 1 .. Len(d[id].types) : d[id].types[i] \in TypeRef
  BY <1>3, LenZero
<1>6. \A i \in 1 .. Len(d[id].types) :
        /\ d[id].types[i].id \in Id
        /\ d[id].types[i].cv \in SUBSET Qualifier
  BY <1>5 DEF TypeRef
<1>7. References(d[id]) \subseteq Id
  BY <1>3, <1>4, <1>6 DEF References
<1> QED
  BY <1>1, <1>2, <1>3, <1>4, <1>5, <1>6, <1>7

\* A set of elements that is not empty has one that refers to none of them.
LEMMA Lowest ==
  ASSUME NEW d \in Document, NEW S, S \subseteq Id, S # {}, \A id \in S : d[id] # Null
  PROVE  \E id \in S : References(d[id]) \cap S = {}
<1>1. Acyclic(d)
  BY ConstructionAssumption
<1>2. S \in SUBSET {id \in Id : d[id] # Null}
  OBVIOUS
<1> QED
  BY <1>1, <1>2 DEF Acyclic

\* Which goals an element has, and in which order.
LEMMA GoalsFacts ==
  ASSUME NEW e \in SourceElement
  PROVE  LET P == IF e.context = NoId THEN 0 ELSE 1
             M == Len(e.elements)
             N == Len(e.types)
             G == Goals(e)
         IN  /\ M \in Nat /\ N \in Nat
             /\ G \in Seq(Goal)
             /\ e.defect = "early" => Len(G) = 0
             /\ e.defect # "early" =>
                  /\ Len(G) = P + M + N
                  /\ P = 1 => G[1] = [op |-> "context", id |-> e.context, cv |-> {}]
                  /\ \A i \in 1 .. M :
                       G[P + i] = [op |-> "element", id |-> e.elements[i], cv |-> {}]
                  /\ \A i \in 1 .. N :
                       G[P + M + i] = [op |-> "type", id |-> e.types[i].id, cv |-> e.types[i].cv]
<1> DEFINE P == IF e.context = NoId THEN 0 ELSE 1
           M == Len(e.elements)
           N == Len(e.types)
           G == Goals(e)
           C == IF e.context = NoId THEN << >>
                ELSE << [op |-> "context", id |-> e.context, cv |-> {}] >>
           E == [i \in 1 .. M |-> [op |-> "element", id |-> e.elements[i], cv |-> {}]]
           T == [i \in 1 .. N |-> [op |-> "type", id |-> e.types[i].id, cv |-> e.types[i].cv]]
<1>1. /\ e.elements \in Seq(Id)
      /\ e.types \in Seq(TypeRef)
      /\ e.context \in Id \cup {NoId}
  BY DEF SourceElement
<1>2. /\ M \in Nat /\ N \in Nat
      /\ \A i \in 1 .. M : e.elements[i] \in Id
      /\ \A i \in 1 .. N : e.types[i].id \in Id /\ e.types[i].cv \in SUBSET Qualifier
  <2>1. M \in Nat /\ \A i \in 1 .. M : e.elements[i] \in Id
    BY <1>1, LenZero
  <2>2. N \in Nat /\ \A i \in 1 .. N : e.types[i] \in TypeRef
    BY <1>1, LenZero
  <2> QED
    BY <2>1, <2>2 DEF TypeRef
<1>3. /\ C \in Seq(Goal)
      /\ Len(C) = P
      /\ P = 1 => C[1] = [op |-> "context", id |-> e.context, cv |-> {}]
  <2>1. CASE e.context = NoId
    BY <2>1
  <2>2. CASE e.context # NoId
    <3>1. [op |-> "context", id |-> e.context, cv |-> {}] \in Goal
      BY <1>1, <2>2 DEF Goal
    <3> QED
      BY <2>2, <3>1
  <2> QED
    BY <2>1, <2>2
<1>4. E \in Seq(Goal) /\ Len(E) = M
  <2>1. \A i \in 1 .. M : E[i] \in Goal
    BY <1>2 DEF Goal
  <2>2. E \in [1 .. M -> Goal]
    BY <2>1
  <2> HIDE DEF E
  <2> QED
    BY <1>2, <2>2, IsASeq
<1>5. T \in Seq(Goal) /\ Len(T) = N
  <2>1. \A i \in 1 .. N : T[i] \in Goal
    BY <1>2 DEF Goal
  <2>2. T \in [1 .. N -> Goal]
    BY <2>1
  <2> HIDE DEF T
  <2> QED
    BY <1>2, <2>2, IsASeq
<1>6. /\ \A i \in 1 .. M : E[i] = [op |-> "element", id |-> e.elements[i], cv |-> {}]
      /\ \A i \in 1 .. N : T[i] = [op |-> "type", id |-> e.types[i].id, cv |-> e.types[i].cv]
  OBVIOUS
<1>7. G = IF e.defect = "early" THEN << >> ELSE C \o E \o T
  BY DEF Goals
<1>8. P \in Nat /\ (P = 1 => P # 0)
  OBVIOUS
<1> HIDE DEF C, E, T, G, P, M, N
<1>9. /\ C \o E \in Seq(Goal)
      /\ Len(C \o E) = P + M
      /\ \A i \in 1 .. P : (C \o E)[i] = C[i]
      /\ \A i \in 1 .. M : (C \o E)[P + i] = E[i]
  <2>1. C \in Seq(Goal) /\ E \in Seq(Goal) /\ Len(C) = P /\ Len(E) = M
    BY <1>3, <1>4
  <2>2. /\ C \o E \in Seq(Goal)
        /\ Len(C \o E) = Len(C) + Len(E)
        /\ \A i \in 1 .. Len(C) : (C \o E)[i] = C[i]
        /\ \A i \in 1 .. Len(E) : (C \o E)[Len(C) + i] = E[i]
    <3>1. C \in Seq(Goal)
      BY <2>1
    <3>2. E \in Seq(Goal)
      BY <2>1
    <3> QED
      BY <3>1, <3>2, ConcatFacts
  <2> QED
    BY <2>1, <2>2, Zenon
<1>10. /\ (C \o E) \o T \in Seq(Goal)
       /\ Len((C \o E) \o T) = P + M + N
       /\ \A i \in 1 .. P + M : ((C \o E) \o T)[i] = (C \o E)[i]
       /\ \A i \in 1 .. N : ((C \o E) \o T)[P + M + i] = T[i]
  <2> DEFINE D == C \o E
  <2>1. D \in Seq(Goal) /\ T \in Seq(Goal) /\ Len(D) = P + M /\ Len(T) = N
    BY <1>5, <1>9
  <2> HIDE DEF D
  <2>2. /\ D \o T \in Seq(Goal)
        /\ Len(D \o T) = Len(D) + Len(T)
        /\ \A i \in 1 .. Len(D) : (D \o T)[i] = D[i]
        /\ \A i \in 1 .. Len(T) : (D \o T)[Len(D) + i] = T[i]
    <3>1. D \in Seq(Goal)
      BY <2>1
    <3>2. T \in Seq(Goal)
      BY <2>1
    <3> QED
      BY <3>1, <3>2, ConcatFacts
  <2> QED
    BY <2>1, <2>2, Zenon DEF D
<1>11. G \in Seq(Goal) /\ (e.defect = "early" => Len(G) = 0)
  BY <1>7, <1>10
<1>12. ASSUME e.defect # "early"
       PROVE  /\ Len(G) = P + M + N
              /\ P = 1 => G[1] = [op |-> "context", id |-> e.context, cv |-> {}]
              /\ \A i \in 1 .. M :
                   G[P + i] = [op |-> "element", id |-> e.elements[i], cv |-> {}]
              /\ \A i \in 1 .. N :
                   G[P + M + i] = [op |-> "type", id |-> e.types[i].id, cv |-> e.types[i].cv]
  <2>1. G = (C \o E) \o T
    BY <1>7, <1>12
  <2>2. P = 1 => G[1] = C[1]
    BY <1>2, <1>9, <1>10, <2>1 DEF M
  <2>3. ASSUME NEW i \in 1 .. M PROVE G[P + i] = E[i]
    <3>1. P + i \in 1 .. P + M
      BY <1>2, <1>8, <2>3 DEF M
    <3> QED
      BY <1>9, <1>10, <2>1, <3>1
  <2> QED
    BY <1>3, <1>6, <1>10, <2>1, <2>2, <2>3
<1> QED
  BY <1>2, <1>11, <1>12 DEF G, P, M, N

\* What a goal says of its place, and the other way round.
LEMMA GoalAt ==
  ASSUME NEW e \in SourceElement
  PROVE  LET N == Len(e.types)
             G == Goals(e)
         IN  /\ e.defect = "early" => Len(G) = 0
             /\ e.defect # "early" => Len(G) >= N
             /\ \A j \in 1 .. Len(G) :
                  /\ G[j].op \in {"context", "element", "type"}
                  /\ G[j].op = "context" => j = 1 /\ e.context # NoId /\ G[j].id = e.context
                  /\ G[j].op = "element" =>
                       /\ j <= Len(G) - N
                       /\ \E i \in 1 .. Len(e.elements) : G[j].id = e.elements[i]
                  /\ G[j].op = "type" =>
                       /\ j - (Len(G) - N) \in 1 .. N
                       /\ G[j].id = e.types[j - (Len(G) - N)].id
                       /\ G[j].cv = e.types[j - (Len(G) - N)].cv
                  /\ G[j].op = "context" => j <= Len(G) - N
                  /\ G[j].id \in References(e)
             /\ e.defect # "early" =>
                  /\ e.context # NoId => Len(G) >= 1 /\ G[1].op = "context"
                  /\ \A i \in 1 .. Len(e.elements) :
                       \E j \in 1 .. Len(G) : G[j].op = "element" /\ G[j].id = e.elements[i]
<1> DEFINE P == IF e.context = NoId THEN 0 ELSE 1
           M == Len(e.elements)
           N == Len(e.types)
           G == Goals(e)
<1>1. /\ M \in Nat /\ N \in Nat
      /\ G \in Seq(Goal)
      /\ e.defect = "early" => Len(G) = 0
      /\ e.defect # "early" =>
           /\ Len(G) = P + M + N
           /\ P = 1 => G[1] = [op |-> "context", id |-> e.context, cv |-> {}]
           /\ \A i \in 1 .. M : G[P + i] = [op |-> "element", id |-> e.elements[i], cv |-> {}]
           /\ \A i \in 1 .. N :
                G[P + M + i] = [op |-> "type", id |-> e.types[i].id, cv |-> e.types[i].cv]
  BY GoalsFacts
<1>2. /\ P \in {0, 1}
      /\ P = 1 <=> e.context # NoId
  OBVIOUS
<1> HIDE DEF P, G, N
<1>0. /\ Len(G) \in Nat
      /\ P \in Int /\ M \in Int /\ N \in Int /\ Len(G) \in Int
      /\ P >= 0 /\ M >= 0 /\ N >= 0
      /\ e.defect # "early" => Len(G) - N = P + M
  BY <1>1, <1>2, LenProperties
<1>3. e.defect = "early" => Len(G) = 0
  BY <1>1
<1>4. e.defect # "early" => Len(G) >= N
  BY <1>0, <1>1
<1>5. ASSUME NEW j \in 1 .. Len(G)
      PROVE  /\ G[j].op \in {"context", "element", "type"}
             /\ G[j].op = "context" => j = 1 /\ e.context # NoId /\ G[j].id = e.context
             /\ G[j].op = "element" =>
                  /\ j <= Len(G) - N
                  /\ \E i \in 1 .. Len(e.elements) : G[j].id = e.elements[i]
             /\ G[j].op = "type" =>
                  /\ j - (Len(G) - N) \in 1 .. N
                  /\ G[j].id = e.types[j - (Len(G) - N)].id
                  /\ G[j].cv = e.types[j - (Len(G) - N)].cv
             /\ G[j].op = "context" => j <= Len(G) - N
             /\ G[j].id \in References(e)
  <2>1. e.defect # "early"
    BY <1>3, <1>5
  <2>2. CASE P = 1 /\ j = 1
    <3>1. G[j] = [op |-> "context", id |-> e.context, cv |-> {}]
      BY <1>1, <2>1, <2>2
    <3>2. G[j].op = "context" /\ G[j].id = e.context /\ e.context # NoId
      BY <1>2, <2>2, <3>1
    <3>3. e.context \in References(e)
      BY <3>2 DEF References
    <3>4. j <= Len(G) - N
      BY <1>0, <2>1, <2>2
    <3> QED
      BY <2>2, <3>2, <3>3, <3>4
  <2>3. CASE j > P /\ j <= P + M
    <3>1. j - P \in 1 .. M /\ P + (j - P) = j
      BY <1>1, <1>2, <2>3
    <3>2. G[j] = [op |-> "element", id |-> e.elements[j - P], cv |-> {}]
      <4>1. G[P + (j - P)] = [op |-> "element", id |-> e.elements[j - P], cv |-> {}]
        BY <1>1, <2>1, <3>1
      <4> QED
        BY <3>1, <4>1
    <3>3. e.elements[j - P] \in References(e)
      BY <3>1 DEF References
    <3>4. j <= Len(G) - N
      BY <1>0, <2>1, <2>3
    <3> QED
      BY <3>1, <3>2, <3>3, <3>4
  <2>4. CASE j > P + M
    <3>1. /\ j - (P + M) \in 1 .. N
          /\ (P + M) + (j - (P + M)) = j
          /\ Len(G) - N = P + M
      BY <1>0, <2>1, <2>4
    <3>2. G[j] = [op |-> "type", id |-> e.types[j - (P + M)].id, cv |-> e.types[j - (P + M)].cv]
      <4>1. G[P + M + (j - (P + M))]
              = [op |-> "type", id |-> e.types[j - (P + M)].id, cv |-> e.types[j - (P + M)].cv]
        BY <1>1, <2>1, <3>1
      <4> QED
        BY <3>1, <4>1
    <3>3. e.types[j - (P + M)].id \in References(e)
      BY <3>1 DEF References, N
    <3> QED
      <4>1. /\ G[j].op = "type"
            /\ G[j].id = e.types[j - (P + M)].id
            /\ G[j].cv = e.types[j - (P + M)].cv
        BY <3>2
      <4>2. j - (Len(G) - N) = j - (P + M)
        BY <3>1
      <4> QED
        BY <3>1, <3>3, <4>1, <4>2
  <2>5. j \in Int /\ j >= 1 /\ M \in Nat
    BY <1>1
  <2> QED
    BY <1>2, <2>2, <2>3, <2>4, <2>5
<1>6. ASSUME e.defect # "early"
      PROVE  /\ e.context # NoId => Len(G) >= 1 /\ G[1].op = "context"
             /\ \A i \in 1 .. Len(e.elements) :
                  \E j \in 1 .. Len(G) : G[j].op = "element" /\ G[j].id = e.elements[i]
  <2>1. e.context # NoId => Len(G) >= 1 /\ G[1].op = "context"
    <3> SUFFICES ASSUME e.context # NoId PROVE Len(G) >= 1 /\ G[1].op = "context"
      OBVIOUS
    <3>1. P = 1
      BY <1>2
    <3>2. G[1] = [op |-> "context", id |-> e.context, cv |-> {}]
      BY <1>1, <1>6, <3>1
    <3>3. Len(G) >= 1
      BY <1>0, <1>6, <3>1
    <3> QED
      BY <3>2, <3>3
  <2>2. ASSUME NEW i \in 1 .. M
        PROVE  \E j \in 1 .. Len(G) : G[j].op = "element" /\ G[j].id = e.elements[i]
    <3>1. P + i \in 1 .. Len(G)
      BY <1>0, <1>6
    <3>2. G[P + i] = [op |-> "element", id |-> e.elements[i], cv |-> {}]
      BY <1>1, <1>6
    <3>3. G[P + i].op = "element" /\ G[P + i].id = e.elements[i]
      BY <3>2
    <3> QED
      BY <3>1, <3>3
  <2> QED
    BY <2>1, <2>2
<1> QED
  BY <1>3, <1>4, <1>5, <1>6 DEF G, N

-----------------------------------------------------------------------------
(* What a type id means. *)

\* One step of the recursion.
Means(d, f, id) ==
  IF d[id] = Null THEN Null
  ELSE CASE d[id].kind = "Typedef" ->
              IF f[d[id].types[1].id] = Null THEN Null
              ELSE [f[d[id].types[1].id] EXCEPT !.cv = @ \cup d[id].types[1].cv]
         [] d[id].kind \in {"Class", "Enumeration"} \cup TypeKind -> [of |-> id, cv |-> {}]
         [] OTHER -> Null

LEMMA MeansFacts ==
  ASSUME NEW d \in Document, NEW f, NEW id \in Id,
         \A x \in Id : (d[id] # Null /\ x \in References(d[id])) => f[x] \in Type \cup {Null}
  PROVE  /\ Means(d, f, id) \in Type \cup {Null}
         /\ \A h : (\A x \in Id : d[id] # Null /\ x \in References(d[id]) => h[x] = f[x])
                     => Means(d, h, id) = Means(d, f, id)
<1>1. ASSUME d[id] # Null, d[id].kind = "Typedef"
      PROVE  /\ d[id].types[1].id \in Id
             /\ d[id].types[1].id \in References(d[id])
             /\ d[id].types[1].cv \in SUBSET Qualifier
  <2>1. Len(d[id].types) = 1
    BY <1>1, ElementFacts DEF WellShaped
  <2>2. 1 \in 1 .. Len(d[id].types)
    BY <2>1
  <2> QED
    BY <1>1, <2>2, ElementFacts DEF References
<1>2. Means(d, f, id) \in Type \cup {Null}
  <2>1. CASE d[id] = Null
    BY <2>1 DEF Means
  <2>2. CASE d[id] # Null /\ d[id].kind = "Typedef"
    <3>1. f[d[id].types[1].id] \in Type \cup {Null}
      BY <1>1, <2>2
    <3> QED
      BY <1>1, <2>2, <3>1 DEF Means, Type
  <2>3. CASE d[id] # Null /\ d[id].kind # "Typedef"
    BY <2>3 DEF Means, Type
  <2> QED
    BY <2>1, <2>2, <2>3
<1>3. ASSUME NEW h, \A x \in Id : d[id] # Null /\ x \in References(d[id]) => h[x] = f[x]
      PROVE  Means(d, h, id) = Means(d, f, id)
  <2>1. CASE d[id] # Null /\ d[id].kind = "Typedef"
    <3>1. h[d[id].types[1].id] = f[d[id].types[1].id]
      BY <1>1, <1>3, <2>1
    <3> QED
      BY <3>1 DEF Means
  <2>2. CASE d[id] = Null
    BY <2>2 DEF Means
  <2>3. CASE d[id] # Null /\ d[id].kind # "Typedef"
    BY <2>3 DEF Means
  <2> QED
    BY <2>1, <2>2, <2>3
<1> QED
  BY <1>2, <1>3

LEMMA MeaningExists ==
  ASSUME NEW d \in Document
  PROVE  \E f \in [Id -> Type \cup {Null}] : \A id \in Id : f[id] = Means(d, f, id)
<1> DEFINE Fs == [Id -> Type \cup {Null}]
           Refs(id) == {x \in Id : d[id] # Null /\ x \in References(d[id])}
           Solves(f, S) == /\ \A id \in S : id \in Id /\ Refs(id) \subseteq S
                           /\ \A id \in S : f[id] = Means(d, f, id)
<1>1. ASSUME NEW f \in Fs, NEW h, NEW id \in Id, \A x \in Refs(id) : h[x] = f[x]
      PROVE  Means(d, h, id) = Means(d, f, id)
  BY <1>1, MeansFacts
<1>2. ASSUME NEW f \in Fs, NEW id \in Id PROVE Means(d, f, id) \in Type \cup {Null}
  BY MeansFacts
<1>lo. ASSUME NEW S, S \subseteq Id, S # {}
       PROVE  \E id \in S : Refs(id) \cap S = {}
  <2>1. CASE \A id \in S : d[id] # Null
    BY <1>lo, <2>1, Lowest
  <2>2. CASE \E id \in S : d[id] = Null
    BY <2>2
  <2> QED
    BY <2>1, <2>2
<1>ri. \A id \in Id : Refs(id) \subseteq Id
  OBVIOUS
<1> HIDE DEF Refs
<1>3. ASSUME NEW f \in Fs, NEW h \in Fs, NEW S, NEW R, Solves(f, S), Solves(h, R),
             NEW x \in S \cap R
      PROVE  f[x] = h[x]
  <2> DEFINE T == {id \in S \cap R : f[id] # h[id]}
  <2> SUFFICES ASSUME T # {} PROVE FALSE
    OBVIOUS
  <2>1. PICK id \in T : Refs(id) \cap T = {}
    BY <1>3, <1>lo
  <2>2. \A y \in Refs(id) : h[y] = f[y]
    BY <1>3, <2>1
  <2>3. f[id] = Means(d, f, id) /\ h[id] = Means(d, h, id) /\ id \in Id
    BY <1>3, <2>1
  <2> QED
    BY <1>1, <2>1, <2>2, <2>3
<1> DEFINE G == {id \in Id : \E f \in Fs, S \in SUBSET Id : Solves(f, S) /\ id \in S}
           At(id) == CHOOSE f \in Fs : \E S \in SUBSET Id : Solves(f, S) /\ id \in S
           F == [id \in Id |-> IF id \in G THEN At(id)[id] ELSE Null]
<1>4. \A id \in G : At(id) \in Fs /\ \E S \in SUBSET Id : Solves(At(id), S) /\ id \in S
  <2> HIDE DEF Solves, Fs
  <2> QED
    OBVIOUS
<1> HIDE DEF At
<1>5. F \in Fs
  <2>1. \A id \in G : At(id)[id] \in Type \cup {Null}
    BY <1>4
  <2> HIDE DEF G
  <2> QED
    BY <2>1
<1>6. ASSUME NEW f \in Fs, NEW S \in SUBSET Id, Solves(f, S), NEW id \in S
      PROVE  F[id] = f[id] /\ id \in G
  <2>1. id \in G
    BY <1>6
  <2>2. PICK R \in SUBSET Id : Solves(At(id), R) /\ id \in R
    BY <1>4, <2>1
  <2>3. At(id)[id] = f[id]
    <3>1. At(id) \in Fs
      BY <1>4, <2>1
    <3> HIDE DEF Solves, Fs
    <3> QED
      BY <1>3, <1>6, <2>2, <3>1
  <2>4. F[id] = At(id)[id]
    BY <2>1
  <2> QED
    BY <2>1, <2>3, <2>4
<1> HIDE DEF F
<1>7. Solves(F, G)
  <2> SUFFICES ASSUME NEW id \in G
               PROVE  Refs(id) \subseteq G /\ F[id] = Means(d, F, id)
    OBVIOUS
  <2>1. PICK S \in SUBSET Id : Solves(At(id), S) /\ id \in S
    BY <1>4
  <2>2. \A x \in S : F[x] = At(id)[x] /\ x \in G
    <3> HIDE DEF Solves, G, Fs
    <3> QED
      BY <1>4, <1>6, <2>1
  <2>3. Refs(id) \subseteq S /\ At(id)[id] = Means(d, At(id), id)
    BY <2>1
  <2>4. \A x \in Refs(id) : F[x] = At(id)[x]
    BY <2>2, <2>3
  <2>5. Means(d, F, id) = Means(d, At(id), id)
    <3>1. At(id) \in Fs
      BY <1>4
    <3> QED
      BY <1>1, <2>4, <3>1
  <2> QED
    BY <2>1, <2>2, <2>3, <2>5
<1>8. G = Id
  <2> SUFFICES ASSUME Id \ G # {} PROVE FALSE
    OBVIOUS
  <2>1. PICK m \in Id \ G : Refs(m) \cap (Id \ G) = {}
    <3> HIDE DEF G
    <3>1. Id \ G \subseteq Id
      OBVIOUS
    <3> QED
      BY <3>1, <1>lo
  <2>2. Refs(m) \subseteq G
    BY <1>ri, <2>1
  <2> DEFINE f == [id \in Id |-> IF id = m THEN Means(d, F, m) ELSE F[id]]
  <2>3. f \in Fs
    BY <1>2, <1>5
  <2>4. \A id \in G : f[id] = F[id]
    BY <2>1
  <2>5. f[m] = Means(d, F, m)
    OBVIOUS
  <2> HIDE DEF f
  <2>6. \A id \in G \cup {m} : f[id] = Means(d, f, id)
    <3> SUFFICES ASSUME NEW id \in G \cup {m} PROVE f[id] = Means(d, f, id)
      OBVIOUS
    <3>1. Refs(id) \subseteq G
      BY <1>7, <2>2
    <3>2. \A x \in Refs(id) : f[x] = F[x]
      BY <2>4, <3>1
    <3>3. Means(d, f, id) = Means(d, F, id)
      BY <1>1, <1>5, <3>2
    <3> QED
      BY <1>7, <2>4, <2>5, <3>3
  <2>7. Solves(f, G \cup {m})
    BY <1>7, <2>2, <2>6
  <2>8. G \cup {m} \in SUBSET Id
    OBVIOUS
  <2> HIDE DEF Solves, Fs
  <2>9. m \in G
    BY <1>6, <2>3, <2>7, <2>8
  <2> QED
    BY <2>9
<1>9. \A id \in Id : F[id] = Means(d, F, id)
  <2>1. \A id \in G : F[id] = Means(d, F, id)
    BY <1>7
  <2> HIDE DEF G
  <2> QED
    BY <1>8, <2>1
<1> QED
  BY <1>5, <1>9

LEMMA MeaningUnfold ==
  ASSUME NEW d \in Document
  PROVE  /\ Meaning(d) \in [Id -> Type \cup {Null}]
         /\ \A id \in Id : Meaning(d)[id] = Means(d, Meaning(d), id)
<1> DEFINE all == Meaning(d)
<1>1. \E f : f = [id \in Id |-> Means(d, f, id)]
  <2>1. PICK f \in [Id -> Type \cup {Null}] : \A id \in Id : f[id] = Means(d, f, id)
    BY MeaningExists
  <2>2. f = [id \in Id |-> f[id]]
    OBVIOUS
  <2>3. f = [id \in Id |-> Means(d, f, id)]
    BY <2>1, <2>2
  <2> QED
    BY <2>3
<1>2. all = [id \in Id |-> Means(d, all, id)]
  <2>1. all = CHOOSE f : f = [id \in Id |-> Means(d, f, id)]
    BY DEF Meaning, Means
  <2> HIDE DEF all
  <2> QED
    BY <1>1, <2>1
<1> HIDE DEF all
<1>3. \A id \in Id : all[id] = Means(d, all, id)
  BY <1>2
<1>4. \A id \in Id : all[id] \in Type \cup {Null}
  <2> DEFINE T == {id \in Id : all[id] \notin Type \cup {Null}}
  <2> SUFFICES ASSUME T # {} PROVE FALSE
    OBVIOUS
  <2>1. \A id \in T : d[id] # Null
    BY <1>3 DEF Means
  <2>2. PICK id \in T : References(d[id]) \cap T = {}
    <3>1. T \subseteq Id
      OBVIOUS
    <3> QED
      BY <2>1, <3>1, Lowest
  <2>3. \A x \in Id : d[id] # Null /\ x \in References(d[id]) => all[x] \in Type \cup {Null}
    BY <2>2
  <2>4. Means(d, all, id) \in Type \cup {Null}
    BY <2>3, MeansFacts
  <2> QED
    BY <1>3, <2>4
<1>5. all \in [Id -> Type \cup {Null}]
  <2>1. all = [id \in Id |-> all[id]]
    BY <1>2, <1>3
  <2> QED
    BY <1>4, <2>1
<1> QED
  BY <1>3, <1>5 DEF all

LEMMA Requalified ==
  ASSUME NEW m \in Type, NEW q, NEW c, m.cv \cup q = c
  PROVE  [m EXCEPT !.cv = @ \cup q] = [of |-> m.of, cv |-> c]
<1>1. PICK u : u = m.cv \cup q
  OBVIOUS
<1>2. [m EXCEPT !.cv = @ \cup q] = [m EXCEPT !.cv = u]
  BY <1>1
<1>3. u = c
  BY <1>1
<1>4. [m EXCEPT !.cv = u] = [of |-> m.of, cv |-> u]
  BY DEF Type
<1> QED
  BY <1>2, <1>3, <1>4, Zenon

\* TypeOf gives a type exactly when the document means one, and then the same but
\* for qualifiers that a typedef was to add to others.
LEMMA ResolvedType ==
  ASSUME TypeOK, document \in Document, RegisteredSound(document, registered, target),
         NEW id \in registered
  PROVE  /\ TypeOf(id) \in Type \cup {Null}
         /\ Meaning(document)[id] \in Type \cup {Null}
         /\ TypeOf(id) = Null <=> Meaning(document)[id] = Null
         /\ TypeOf(id) # Null => /\ TypeOf(id).of = Meaning(document)[id].of
                                 /\ TypeOf(id).of \in registered
         /\ TypeOf(id) # Null /\ QualifiersPlain(document) => TypeOf(id) = Meaning(document)[id]
<1> DEFINE all == Meaning(document)
<1>1. /\ id \in Id /\ document[id] # Null /\ registered \subseteq Id
      /\ target[id] \in Seq(Type \cup {Null})
  BY DEF TypeOK
<1>2. all[id] \in Type \cup {Null} /\ all[id] = Means(document, all, id)
  BY <1>1, MeaningUnfold
<1>3. Null \notin Type
  BY ConstructionAssumption
<1>4. CASE document[id].kind = "Typedef"
  <2> DEFINE ref == document[id].types[1]
             t == target[id][1]
  <2>1. Len(document[id].types) = 1
    BY <1>1, <1>4, ElementFacts DEF WellShaped
  <2>2. 1 \in 1 .. Len(document[id].types) /\ ref \in TypeRef /\ ref.id \in Id
    BY <1>1, <2>1, ElementFacts
  <2>3. ObjectSound(document, registered, document[id], target[id])
    BY DEF RegisteredSound
  <2>4. Len(target[id]) = 1 /\ TypeDone(document, registered, document[id], 1, t)
    BY <2>1, <2>3 DEF ObjectSound
  <2>5. /\ t # Null
        /\ t.of \in registered /\ all[ref.id] # Null /\ t.of = all[ref.id].of
        /\ QualifiersPlain(document) => t = [all[ref.id] EXCEPT !.cv = @ \cup ref.cv]
    BY <1>4, <2>4 DEF TypeDone
  <2>6. t \in Type \cup {Null}
    BY <1>1, <2>4, LenZero
  <2>7. all[ref.id] \in Type
    BY <2>2, <2>5, MeaningUnfold
  <2>8. all[id] = [all[ref.id] EXCEPT !.cv = @ \cup ref.cv]
    <3>1. Means(document, all, id) = [all[ref.id] EXCEPT !.cv = @ \cup ref.cv]
      BY <1>1, <1>4, <2>5 DEF Means, TypeKind
    <3> QED
      BY <1>2, <3>1
  <2>9. all[id] # Null /\ all[id].of = all[ref.id].of
    <3>1. all[id] \in Type
      BY <2>2, <2>7, <2>8 DEF Type, TypeRef
    <3> QED
      BY <1>3, <2>7, <2>8, <3>1 DEF Type
  <2>10. TypeOf(id) = t
    BY <1>4 DEF TypeOf, TypeKind
  <2> HIDE DEF t, all
  <2> QED
    BY <1>2, <2>5, <2>6, <2>8, <2>9, <2>10 DEF all
<1>5. CASE document[id].kind \in {"Class", "Enumeration"} \cup TypeKind
  <2>1. document[id].kind # "Typedef"
    BY <1>5 DEF TypeKind
  <2>2. TypeOf(id) = [of |-> id, cv |-> {}]
    BY <1>5, <2>1 DEF TypeOf
  <2>3. all[id] = [of |-> id, cv |-> {}]
    BY <1>1, <1>2, <1>5, <2>1 DEF Means
  <2>4. [of |-> id, cv |-> {}] \in Type /\ [of |-> id, cv |-> {}].of = id
    BY <1>1 DEF Type
  <2> QED
    BY <1>3, <2>2, <2>3, <2>4
<1>6. CASE /\ document[id].kind # "Typedef"
           /\ document[id].kind \notin {"Class", "Enumeration"} \cup TypeKind
  BY <1>1, <1>2, <1>6 DEF TypeOf, Means
<1> QED
  BY <1>4, <1>5, <1>6

\* What GetTypeFromId finds is what the document means.
LEMMA TypeFound ==
  ASSUME TypeOK, document \in Document, RegisteredSound(document, registered, target),
         NEW id \in Id, document[id] # Null,
         NEW i \in 1 .. Len(document[id].types),
         NEW ref, ref.id = document[id].types[i].id, ref.cv = document[id].types[i].cv,
         ref.id \in registered,
         ref.cv # {} => TypeOf(ref.id) # Null,
         GetTypeFromId(ref) # Null
  PROVE  /\ GetTypeFromId(ref) \in Type
         /\ TypeDone(document, registered, document[id], i, GetTypeFromId(ref))
<1> DEFINE m == Meaning(document)[ref.id]
           t == TypeOf(ref.id)
           g == GetTypeFromId(ref)
<1>1. /\ t \in Type \cup {Null} /\ m \in Type \cup {Null}
      /\ t = Null <=> m = Null
      /\ t # Null => t.of = m.of /\ t.of \in registered
      /\ t # Null /\ QualifiersPlain(document) => t = m
  BY ResolvedType
<1>2. ref.cv \in SUBSET Qualifier
  BY ElementFacts
<1>3. g = IF ref.cv = {} THEN t
          ELSE IF document[t.of].kind \in Unqualifiable THEN Null
          ELSE [of |-> t.of, cv |-> ref.cv]
  BY DEF GetTypeFromId
<1>4. QualifiersPlain(document) /\ ref.cv # {} /\ m # Null => m.cv \subseteq ref.cv
  BY DEF QualifiersPlain
<1> HIDE DEF m, t, g
<1>5. t # Null /\ m # Null /\ t \in Type /\ m \in Type
  BY <1>1, <1>3 DEF t, g
<1>6. g \in Type /\ g.of = t.of
  <2>1. CASE ref.cv = {}
    BY <1>3, <1>5, <2>1
  <2>2. CASE ref.cv # {}
    <3>1. g = [of |-> t.of, cv |-> ref.cv]
      BY <1>3, <2>2 DEF g
    <3> QED
      BY <1>2, <1>5, <3>1 DEF Type
  <2> QED
    BY <2>1, <2>2
<1>7. ref.cv # {} => document[g.of].kind \notin Unqualifiable
  BY <1>3, <1>6 DEF g
<1>8. QualifiersPlain(document) => g = [m EXCEPT !.cv = @ \cup ref.cv]
  <2> SUFFICES ASSUME QualifiersPlain(document) PROVE g = [m EXCEPT !.cv = @ \cup ref.cv]
    OBVIOUS
  <2>1. t = m
    BY <1>1, <1>5
  <2>2. m = [of |-> m.of, cv |-> m.cv]
    BY <1>5 DEF Type
  <2>3. CASE ref.cv = {}
    <3>1. [m EXCEPT !.cv = @ \cup ref.cv] = [of |-> m.of, cv |-> m.cv]
      BY <2>2, <2>3
    <3> QED
      BY <1>3, <2>1, <2>2, <2>3, <3>1
  <2>4. CASE ref.cv # {}
    <3>1. m.cv \cup ref.cv = ref.cv
      BY <1>4, <1>5, <2>4
    <3>2. [m EXCEPT !.cv = @ \cup ref.cv] = [of |-> m.of, cv |-> ref.cv]
      BY <1>5, <3>1, Requalified, Zenon
    <3>3. g = [of |-> m.of, cv |-> ref.cv]
      BY <1>3, <2>1, <2>4 DEF g
    <3> QED
      BY <3>2, <3>3
  <2> QED
    BY <2>3, <2>4
<1>9. TypeDone(document, registered, document[id], i, g)
  <2>1. g # Null
    BY DEF g
  <2>2. g.of = m.of /\ g.of \in registered
    BY <1>1, <1>5, <1>6
  <2> QED
    BY <1>5, <1>7, <1>8, <2>1, <2>2 DEF TypeDone, m
<1> QED
  BY <1>6, <1>9 DEF g

\* A type that is not found, or that cannot be qualified, is one the document is
\* not sound without.
LEMMA TypeNotFound ==
  ASSUME TypeOK, document \in Document, RegisteredSound(document, registered, target),
         NEW id \in Id, document[id] # Null,
         NEW i \in 1 .. Len(document[id].types),
         NEW ref, ref.id = document[id].types[i].id, ref.cv = document[id].types[i].cv,
         \/ document[ref.id] = Null
         \/ ref.id \in registered /\ TypeOf(ref.id) = Null
         \/ ref.id \in registered /\ GetTypeFromId(ref) = Null
  PROVE  ~ Constructible(document)
<1> DEFINE m == Meaning(document)[ref.id]
<1> SUFFICES ASSUME Constructible(document) PROVE FALSE
  OBVIOUS
<1>1. m # Null /\ (ref.cv # {} => document[m.of].kind \notin Unqualifiable)
  BY DEF Constructible
<1>2. ref.id \in Id
  BY ElementFacts
<1>3. document[ref.id] # Null
  BY <1>1, <1>2, MeaningUnfold DEF Means
<1>4. ref.id \in registered
  BY <1>3
<1>5. TypeOf(ref.id) # Null /\ TypeOf(ref.id).of = m.of
  BY <1>1, <1>4, ResolvedType
<1>6. TypeOf(ref.id) \in Type
  BY <1>4, <1>5, ResolvedType
<1>7. GetTypeFromId(ref) = Null
  BY <1>3, <1>5
<1>8. CASE ref.cv = {}
  BY <1>5, <1>7, <1>8 DEF GetTypeFromId
<1>9. CASE ref.cv # {}
  <2>1. GetTypeFromId(ref) = [of |-> TypeOf(ref.id).of, cv |-> ref.cv]
    BY <1>1, <1>5, <1>9 DEF GetTypeFromId
  <2>2. [of |-> TypeOf(ref.id).of, cv |-> ref.cv] \in Type
    BY <1>6, ElementFacts DEF Type
  <2> QED
    BY <1>7, <2>1, <2>2, ConstructionAssumption
<1> QED
  BY <1>8, <1>9

-----------------------------------------------------------------------------
(* Frames. *)

\* What is sound stays so when more elements are registered.
LEMMA Monotone ==
  ASSUME NEW d, NEW r, NEW q, r \subseteq q, NEW e
  PROVE  /\ \A id : ElementDone(d, r, e, id) => ElementDone(d, q, e, id)
         /\ \A i, t : TypeDone(d, r, e, i, t) => TypeDone(d, q, e, i, t)
         /\ \A types : ObjectSound(d, r, e, types) => ObjectSound(d, q, e, types)
<1>1. \A id : ElementDone(d, r, e, id) => ElementDone(d, q, e, id)
  BY DEF ElementDone
<1>2. ASSUME NEW i, NEW t, TypeDone(d, r, e, i, t) PROVE TypeDone(d, q, e, i, t)
  <2>1. CASE t = Null
    BY <1>2, <2>1 DEF TypeDone
  <2>2. CASE t # Null
    <3>1. e.types[i].id \in q /\ t.of \in q
      BY <1>2, <2>2, Zenon DEF TypeDone
    <3> QED
      BY <1>2, <2>2, <3>1, Zenon DEF TypeDone
  <2> QED
    BY <2>1, <2>2
<1>3. ASSUME NEW types, ObjectSound(d, r, e, types) PROVE ObjectSound(d, q, e, types)
  BY <1>1, <1>2, <1>3, Zenon DEF ObjectSound
<1> QED
  BY <1>1, <1>2, <1>3

LEMMA FrameMonotone ==
  ASSUME NEW d, NEW r, NEW q, r \subseteq q, NEW f, FrameSound(d, r, f), f.id \notin q
  PROVE  FrameSound(d, q, f)
BY Monotone, Zenon DEF FrameSound

LEMMA FrameFacts ==
  ASSUME NEW d \in Document, NEW r, NEW f \in Frame, FrameSound(d, r, f)
  PROVE  /\ f.id \in Id /\ d[f.id] # Null /\ d[f.id] \in SourceElement
         /\ f.todo \in Seq(Goal) /\ f.types \in Seq(Type \cup {Null})
         /\ Goals(d[f.id]) \in Seq(Goal)
         /\ Len(f.todo) \in Nat /\ Len(Goals(d[f.id])) \in Nat /\ Len(f.types) \in Nat
         /\ Len(d[f.id].types) \in Nat
         /\ Len(f.todo) <= Len(Goals(d[f.id]))
         /\ f.todo # << >> =>
              /\ f.todo[1] = Goals(d[f.id])[Len(Goals(d[f.id])) - Len(f.todo) + 1]
              /\ Len(Goals(d[f.id])) - Len(f.todo) + 1 \in 1 .. Len(Goals(d[f.id]))
              /\ Len(f.todo) > 0
              /\ f.todo[1].id \in References(d[f.id])
              /\ f.todo[1].id \in Id
              /\ f.todo[1] \in Goal
<1> DEFINE G == Goals(d[f.id])
<1>1. /\ f.id \in Id /\ f.todo \in Seq(Goal) /\ f.types \in Seq(Type \cup {Null})
      /\ d[f.id] # Null
  BY DEF Frame, FrameSound
<1>2. d[f.id] \in SourceElement /\ References(d[f.id]) \subseteq Id
  BY <1>1, ElementFacts
<1>3. G \in Seq(Goal) /\ Len(d[f.id].types) \in Nat
  BY <1>2, GoalsFacts
<1>4. Len(f.todo) \in Nat /\ Len(G) \in Nat /\ Len(f.types) \in Nat
  BY <1>1, <1>3, LenProperties
<1>5. /\ Len(G) - Len(f.todo) >= 0
      /\ \A j \in 1 .. Len(f.todo) : f.todo[j] = G[Len(G) - Len(f.todo) + j]
  BY DEF FrameSound
<1>6. Len(f.todo) <= Len(G)
  BY <1>4, <1>5
<1>7. ASSUME f.todo # << >>
      PROVE  /\ f.todo[1] = G[Len(G) - Len(f.todo) + 1]
             /\ Len(G) - Len(f.todo) + 1 \in 1 .. Len(G)
             /\ Len(f.todo) > 0
             /\ f.todo[1].id \in References(d[f.id])
             /\ f.todo[1].id \in Id
             /\ f.todo[1] \in Goal
  <2>1. Len(f.todo) > 0
    BY <1>1, <1>4, <1>7, EmptySeq
  <2>2. f.todo[1] = G[Len(G) - Len(f.todo) + 1]
    <3>1. 1 \in 1 .. Len(f.todo)
      BY <1>4, <2>1
    <3> HIDE DEF G
    <3> QED
      BY <1>5, <3>1
  <2>3. Len(G) - Len(f.todo) + 1 \in 1 .. Len(G)
    BY <1>4, <1>5, <2>1
  <2>4. G[Len(G) - Len(f.todo) + 1].id \in References(d[f.id])
    BY <1>2, <2>3, GoalAt
  <2>5. f.todo[1] \in Goal
    BY <1>1, <1>4, <2>1, LenZero
  <2> QED
    BY <1>2, <2>1, <2>2, <2>3, <2>4, <2>5
<1> QED
  BY <1>1, <1>2, <1>3, <1>4, <1>6, <1>7

\* The current reference of call f has given these types.
Answers(d, r, f, types) ==
  \/ f.todo[1].op = "context" /\ types = << >>
  \/ /\ f.todo[1].op = "element" /\ types = << >>
     /\ ElementDone(d, r, d[f.id], f.todo[1].id)
  \/ /\ f.todo[1].op = "type"
     /\ \E t \in Type \cup {Null} :
          /\ types = << t >>
          /\ \A i \in 1 .. Len(d[f.id].types) :
               (/\ d[f.id].types[i].id = f.todo[1].id
                /\ d[f.id].types[i].cv = f.todo[1].cv) => TypeDone(d, r, d[f.id], i, t)

After(f, types) == [f EXCEPT !.todo = Tail(@), !.types = @ \o types]

\* A call that is done with its current reference stays sound.
LEMMA FrameProceeds ==
  ASSUME NEW d \in Document, NEW r, NEW f \in Frame, FrameSound(d, r, f), f.todo # << >>,
         NEW types, Answers(d, r, f, types),
         NEW g, g = After(f, types)
  PROVE  /\ g \in Frame
         /\ FrameSound(d, r, g)
         /\ g.id = f.id
         /\ Len(g.todo) = Len(f.todo) - 1
         /\ Len(g.todo) < Len(Goals(d[g.id]))
<1> DEFINE e == d[f.id]
           G == Goals(e)
           N == Len(e.types)
           done == Len(G) - Len(f.todo)
<1>1. /\ f.id \in Id /\ e # Null /\ e \in SourceElement
      /\ f.todo \in Seq(Goal) /\ f.types \in Seq(Type \cup {Null})
      /\ Len(f.todo) \in Nat /\ Len(G) \in Nat /\ Len(f.types) \in Nat /\ N \in Nat
      /\ f.todo[1] = G[done + 1]
      /\ done + 1 \in 1 .. Len(G)
      /\ Len(f.todo) > 0
  BY FrameFacts
<1>2. /\ Tail(f.todo) \in Seq(Goal)
      /\ Len(Tail(f.todo)) = Len(f.todo) - 1
      /\ \A i \in 1 .. Len(Tail(f.todo)) : Tail(f.todo)[i] = f.todo[i + 1]
  BY <1>1, TailFacts
<1>3. /\ types \in Seq(Type \cup {Null})
      /\ f.todo[1].op # "type" => types = << >>
      /\ f.todo[1].op = "type" => Len(types) = 1 /\ types = << types[1] >>
  <2>1. CASE types = << >> /\ f.todo[1].op # "type"
    BY <2>1
  <2>2. CASE f.todo[1].op = "type" /\ \E t \in Type \cup {Null} : types = << t >>
    BY <2>2
  <2> QED
    BY <2>1, <2>2 DEF Answers
<1>4. f = [id |-> f.id, todo |-> f.todo, types |-> f.types]
  BY DEF Frame
<1>5. g = [id |-> f.id, todo |-> Tail(f.todo), types |-> f.types \o types]
  BY <1>4 DEF After
<1>6. /\ f.types \o types \in Seq(Type \cup {Null})
      /\ Len(f.types \o types) = Len(f.types) + Len(types)
      /\ \A i \in 1 .. Len(f.types) : (f.types \o types)[i] = f.types[i]
      /\ \A i \in 1 .. Len(types) : (f.types \o types)[Len(f.types) + i] = types[i]
  <2>1. types \in Seq(Type \cup {Null})
    BY <1>3
  <2>2. f.types \in Seq(Type \cup {Null})
    BY <1>1
  <2> QED
    BY <2>1, <2>2, ConcatFacts
<1>7. /\ g.id = f.id /\ g.todo = Tail(f.todo) /\ g.types = f.types \o types
      /\ g \in Frame
  BY <1>1, <1>2, <1>5, <1>6 DEF Frame
<1>8. /\ f.id \notin r
      /\ \A j \in 1 .. Len(f.todo) : f.todo[j] = G[done + j]
      /\ \A j \in 1 .. done : G[j].op = "element" => ElementDone(d, r, e, G[j].id)
      /\ Len(f.types) = IF e.defect = "early" \/ Len(f.todo) >= N THEN 0 ELSE N - Len(f.todo)
      /\ \A i \in 1 .. Len(f.types) : TypeDone(d, r, e, i, f.types[i])
  BY DEF FrameSound
<1>9. /\ e.defect # "early"
      /\ Len(G) >= N
      /\ f.todo[1].op \in {"context", "element", "type"}
      /\ f.todo[1].op \in {"context", "element"} => done + 1 <= Len(G) - N
      /\ f.todo[1].op = "type" =>
           /\ done + 1 - (Len(G) - N) \in 1 .. N
           /\ f.todo[1].id = e.types[done + 1 - (Len(G) - N)].id
           /\ f.todo[1].cv = e.types[done + 1 - (Len(G) - N)].cv
  <2>1. e.defect # "early"
    <3>1. e.defect = "early" => Len(G) = 0
      BY <1>1, GoalAt
    <3> QED
      BY <1>1, <3>1
  <2>2. Len(G) >= N
    BY <1>1, <2>1, GoalAt
  <2>3. ASSUME NEW j \in 1 .. Len(G)
        PROVE  /\ G[j].op \in {"context", "element", "type"}
               /\ G[j].op \in {"context", "element"} => j <= Len(G) - N
               /\ G[j].op = "type" =>
                    /\ j - (Len(G) - N) \in 1 .. N
                    /\ G[j].id = e.types[j - (Len(G) - N)].id
                    /\ G[j].cv = e.types[j - (Len(G) - N)].cv
    <3>1. e \in SourceElement
      BY <1>1
    <3>2. /\ G[j].op \in {"context", "element", "type"}
          /\ G[j].op = "element" => j <= Len(G) - N
          /\ G[j].op = "type" =>
               /\ j - (Len(G) - N) \in 1 .. N
               /\ G[j].id = e.types[j - (Len(G) - N)].id
               /\ G[j].cv = e.types[j - (Len(G) - N)].cv
          /\ G[j].op = "context" => j <= Len(G) - N
      <4> HIDE DEF e
      <4> QED
        BY <3>1, GoalAt
    <3> QED
      BY <3>2
  <2>4. done + 1 \in 1 .. Len(G)
    BY <1>1
  <2>5. /\ G[done + 1].op \in {"context", "element", "type"}
        /\ G[done + 1].op \in {"context", "element"} => done + 1 <= Len(G) - N
        /\ G[done + 1].op = "type" =>
             /\ done + 1 - (Len(G) - N) \in 1 .. N
             /\ G[done + 1].id = e.types[done + 1 - (Len(G) - N)].id
             /\ G[done + 1].cv = e.types[done + 1 - (Len(G) - N)].cv
    <3>1. PICK k \in 1 .. Len(G) : k = done + 1
      BY <2>4
    <3>2. /\ G[k].op \in {"context", "element", "type"}
          /\ G[k].op \in {"context", "element"} => k <= Len(G) - N
          /\ G[k].op = "type" =>
               /\ k - (Len(G) - N) \in 1 .. N
               /\ G[k].id = e.types[k - (Len(G) - N)].id
               /\ G[k].cv = e.types[k - (Len(G) - N)].cv
      <4> HIDE DEF G, N, done
      <4> QED
        BY <2>3, Zenon
    <3>ty. done \in Int /\ Len(G) \in Nat /\ N \in Nat
      BY <1>1
    <3> HIDE DEF G, N, done, e
    <3>3. k - (Len(G) - N) = done + 1 - (Len(G) - N)
      BY <3>ty, <3>1
    <3>4. G[k] = G[done + 1]
      BY <3>1
    <3>5. G[done + 1].op \in {"context", "element", "type"}
      BY <3>2, <3>4
    <3>6. G[done + 1].op \in {"context", "element"} => done + 1 <= Len(G) - N
      BY <3>1, <3>2, <3>4
    <3>7. G[done + 1].op = "type" =>
            /\ done + 1 - (Len(G) - N) \in 1 .. N
            /\ G[done + 1].id = e.types[done + 1 - (Len(G) - N)].id
            /\ G[done + 1].cv = e.types[done + 1 - (Len(G) - N)].cv
      <4> SUFFICES ASSUME G[k].op = "type"
                   PROVE  /\ done + 1 - (Len(G) - N) \in 1 .. N
                          /\ G[done + 1].id = e.types[done + 1 - (Len(G) - N)].id
                          /\ G[done + 1].cv = e.types[done + 1 - (Len(G) - N)].cv
        BY <3>4, Zenon
      <4> QED
        BY <3>2, <3>3, <3>4, Zenon
    <3> QED
      BY <3>5, <3>6, <3>7, Zenon
  <2> QED
    BY <1>1, <2>1, <2>2, <2>5, Zenon
<1> HIDE DEF G, N
<1>10. /\ done \in Nat
       /\ Len(G) - Len(g.todo) = done + 1
       /\ Len(g.todo) = Len(f.todo) - 1
       /\ Len(f.todo) \in Nat /\ Len(g.todo) \in Nat
  <2>1. Len(g.todo) = Len(f.todo) - 1
    BY <1>2, <1>7
  <2>2. Len(f.todo) \in Nat /\ Len(G) \in Nat /\ Len(f.todo) > 0
    BY <1>1
  <2>3. done + 1 >= 1
    BY <1>1
  <2> QED
    BY <2>1, <2>2, <2>3
<1>11. \A j \in 1 .. Len(g.todo) : g.todo[j] = G[done + 1 + j]
  <2> SUFFICES ASSUME NEW j \in 1 .. Len(g.todo) PROVE g.todo[j] = G[done + 1 + j]
    OBVIOUS
  <2>1. j + 1 \in 1 .. Len(f.todo) /\ g.todo[j] = f.todo[j + 1]
    BY <1>1, <1>2, <1>7
  <2>2. f.todo[j + 1] = G[done + (j + 1)]
    BY <1>8, <2>1
  <2>3. done + (j + 1) = done + 1 + j
    <3>1. done \in Nat
      BY <1>10
    <3> HIDE DEF done
    <3> QED
      BY <3>1
  <2> QED
    BY <2>1, <2>2, <2>3
<1>12. \A j \in 1 .. done + 1 : G[j].op = "element" => ElementDone(d, r, e, G[j].id)
  <2> SUFFICES ASSUME NEW j \in 1 .. done + 1, G[j].op = "element"
               PROVE  ElementDone(d, r, e, G[j].id)
    OBVIOUS
  <2>1. CASE j \in 1 .. done
    BY <1>8, <2>1
  <2>2. CASE j = done + 1
    <3>1. f.todo[1].op = "element" /\ G[j].id = f.todo[1].id
      BY <1>1, <2>2
    <3> QED
      BY <3>1 DEF Answers
  <2>3. j \in 1 .. done \/ j = done + 1
    <3>1. done \in Nat
      BY <1>10
    <3> HIDE DEF done
    <3> QED
      BY <3>1
  <2> QED
    BY <2>1, <2>2, <2>3
<1>13. /\ f.todo[1].op # "type" => Len(f.todo) > N
       /\ f.todo[1].op = "type" =>
            /\ Len(f.todo) <= N
            /\ done + 1 - (Len(G) - N) = Len(f.types) + 1
            /\ Len(f.types) = N - Len(f.todo)
  <2>1. N \in Nat /\ Len(f.todo) \in Nat /\ Len(G) \in Nat
    BY <1>1
  <2>2. /\ done + 1 <= Len(G) - N => Len(f.todo) > N
        /\ done + 1 - (Len(G) - N) \in 1 .. N => Len(f.todo) <= N
        /\ done + 1 - (Len(G) - N) = N - Len(f.todo) + 1
    BY <2>1, Differences
  <2>3. f.todo[1].op # "type" => done + 1 <= Len(G) - N
    BY <1>9, Zenon
  <2>4. f.todo[1].op = "type" => done + 1 - (Len(G) - N) \in 1 .. N
    BY <1>9, Zenon
  <2> HIDE DEF done
  <2>5. f.todo[1].op = "type" => Len(f.types) = N - Len(f.todo)
    <3> SUFFICES ASSUME f.todo[1].op = "type" PROVE Len(f.types) = N - Len(f.todo)
      OBVIOUS
    <3>1. Len(f.todo) <= N /\ e.defect # "early"
      BY <1>9, <2>2, <2>4, Zenon
    <3>2. Len(f.types) = IF e.defect = "early" \/ Len(f.todo) >= N THEN 0 ELSE N - Len(f.todo)
      BY <1>8
    <3> QED
      BY <2>1, <3>1, <3>2
  <2> QED
    BY <2>2, <2>3, <2>4, <2>5
<1>14. Len(g.types) = IF e.defect = "early" \/ Len(g.todo) >= N THEN 0 ELSE N - Len(g.todo)
  <2>0. N \in Nat /\ Len(f.todo) \in Nat /\ Len(g.types) = Len(f.types) + Len(types)
    BY <1>1, <1>6, <1>7
  <2>1. CASE f.todo[1].op # "type"
    <3>1. Len(types) = 0
      BY <1>3, <2>1
    <3>2. Len(f.types) = 0
      BY <1>8, <1>13, <2>0, <2>1
    <3> QED
      BY <1>10, <1>13, <2>0, <2>1, <3>1, <3>2
  <2>2. CASE f.todo[1].op = "type"
    <3>1. Len(types) = 1
      BY <1>3, <2>2
    <3>2. Len(g.types) = N - Len(f.todo) + 1
      BY <1>13, <2>0, <2>2, <3>1
    <3>3. ~ (Len(g.todo) >= N) /\ N - Len(g.todo) = N - Len(f.todo) + 1
      BY <1>10, <1>13, <2>0, <2>2
    <3> QED
      BY <1>9, <3>2, <3>3
  <2> QED
    BY <2>1, <2>2
<1>15. \A i \in 1 .. Len(g.types) : TypeDone(d, r, e, i, g.types[i])
  <2> SUFFICES ASSUME NEW i \in 1 .. Len(g.types) PROVE TypeDone(d, r, e, i, g.types[i])
    OBVIOUS
  <2>0. Len(f.types) \in Nat /\ Len(g.types) = Len(f.types) + Len(types)
    BY <1>1, <1>6, <1>7
  <2>1. CASE i \in 1 .. Len(f.types)
    <3>1. g.types[i] = f.types[i]
      BY <1>6, <1>7, <2>1
    <3> QED
      BY <1>8, <2>1, <3>1
  <2>2. CASE i \notin 1 .. Len(f.types)
    <3>1. f.todo[1].op = "type"
      <4>1. f.todo[1].op # "type" => Len(types) = 0
        BY <1>3
      <4> QED
        BY <2>0, <2>2, <4>1
    <3>2. Len(types) = 1 /\ i = Len(f.types) + 1
      <4>1. Len(types) = 1
        BY <1>3, <3>1
      <4> QED
        BY <2>0, <2>2, <4>1
    <3>3. g.types[i] = types[1]
      BY <1>6, <1>7, <3>2
    <3>4. i \in 1 .. N /\ f.todo[1].id = e.types[i].id /\ f.todo[1].cv = e.types[i].cv
      BY <1>9, <1>13, <3>1, <3>2
    <3>5. PICK t \in Type \cup {Null} :
            /\ types = << t >>
            /\ \A k \in 1 .. Len(d[f.id].types) :
                 (/\ d[f.id].types[k].id = f.todo[1].id
                  /\ d[f.id].types[k].cv = f.todo[1].cv) => TypeDone(d, r, d[f.id], k, t)
      BY <3>1 DEF Answers
    <3>6. TypeDone(d, r, e, i, t)
      BY <3>4, <3>5 DEF N
    <3> QED
      BY <3>3, <3>5, <3>6
  <2> QED
    BY <2>1, <2>2
<1>16. FrameSound(d, r, g)
  <2>1. done + 1 >= 0
    BY <1>10
  <2>2. d[g.id] = e /\ e # Null /\ g.id \notin r
    BY <1>1, <1>7, <1>8
  <2>3. /\ Len(G) - Len(g.todo) >= 0
        /\ \A j \in 1 .. Len(g.todo) : g.todo[j] = G[Len(G) - Len(g.todo) + j]
        /\ \A j \in 1 .. Len(G) - Len(g.todo) :
             G[j].op = "element" => ElementDone(d, r, e, G[j].id)
    <3>1. Len(G) - Len(g.todo) = done + 1
      BY <1>10
    <3> HIDE DEF done
    <3> QED
      BY <1>11, <1>12, <2>1, <3>1
  <2> HIDE DEF done
  <2> QED
    BY <1>14, <1>15, <2>2, <2>3, Zenon DEF FrameSound, G, N
<1>17. Len(g.todo) < Len(G)
  BY <1>1, <1>10
<1> QED
  BY <1>7, <1>10, <1>16, <1>17 DEF G

-----------------------------------------------------------------------------
(* The stack. *)

\* A new call of an element that is not registered.
LEMMA EnterFacts ==
  ASSUME document \in Document, NEW r, NEW id \in Id, document[id] # Null, id \notin r
  PROVE  /\ Enter(id) \in Frame
         /\ Enter(id).id = id
         /\ Enter(id).todo = Goals(document[id])
         /\ FrameSound(document, r, Enter(id))
<1> DEFINE e == document[id]
           G == Goals(e)
<1>1. e \in SourceElement
  BY ElementFacts
<1>2. G \in Seq(Goal) /\ Len(e.types) \in Nat
  BY <1>1, GoalsFacts
<1>3. Len(G) \in Nat
  BY <1>2, LenProperties
<1>4. Enter(id) = [id |-> id, todo |-> G, types |-> << >>]
  BY DEF Enter
<1>5. Enter(id) \in Frame
  BY <1>2, <1>4 DEF Frame
<1>6. e.defect = "early" \/ Len(G) >= Len(e.types)
  BY <1>1, GoalAt
<1>7. FrameSound(document, r, Enter(id))
  <2> PICK f : f = Enter(id)
    OBVIOUS
  <2>1. f.id = id /\ f.todo = G /\ f.types = << >>
    BY <1>4
  <2>2. /\ Len(G) - Len(f.todo) = 0
        /\ Len(f.types) = 0
    BY <1>3, <2>1
  <2>3. \A j \in 1 .. Len(f.todo) : f.todo[j] = G[0 + j]
    BY <1>3, <2>1
  <2>4. /\ \A j \in 1 .. 0 : G[j].op = "element" => ElementDone(document, r, e, G[j].id)
        /\ \A i \in 1 .. 0 : TypeDone(document, r, e, i, f.types[i])
    OBVIOUS
  <2>5. Len(f.types) = IF e.defect = "early" \/ Len(f.todo) >= Len(e.types) THEN 0
                       ELSE Len(e.types) - Len(f.todo)
    BY <1>6, <2>1, <2>2
  <2>6. document[f.id] = e /\ e # Null /\ f.id \notin r
    BY <2>1
  <2>7. /\ Len(G) - Len(f.todo) >= 0
        /\ \A j \in 1 .. Len(f.todo) : f.todo[j] = G[Len(G) - Len(f.todo) + j]
        /\ \A j \in 1 .. Len(G) - Len(f.todo) :
             G[j].op = "element" => ElementDone(document, r, e, G[j].id)
        /\ \A i \in 1 .. Len(f.types) : TypeDone(document, r, e, i, f.types[i])
    <3> HIDE DEF G, e
    <3>1. Len(G) - Len(f.todo) >= 0
      BY <2>2
    <3>2. \A j \in 1 .. Len(f.todo) : f.todo[j] = G[Len(G) - Len(f.todo) + j]
      BY <2>2, <2>3, Zenon
    <3>3. \A j \in 1 .. Len(G) - Len(f.todo) :
             G[j].op = "element" => ElementDone(document, r, e, G[j].id)
      BY <2>2, <2>4, Zenon
    <3>4. \A i \in 1 .. Len(f.types) : TypeDone(document, r, e, i, f.types[i])
      BY <2>2, <2>4, Zenon
    <3> QED
      BY <3>1, <3>2, <3>3, <3>4
  <2>8. FrameSound(document, r, f)
    BY <2>5, <2>6, <2>7, Zenon DEF FrameSound
  <2> QED
    BY <2>8
<1> QED
  BY <1>4, <1>5, <1>7

LEMMA Pushed ==
  ASSUME NEW d \in Document, NEW r, NEW s \in Seq(Frame), AllSound(d, r, s), Nested(s),
         NEW f \in Frame, FrameSound(d, r, f),
         s # << >> => s[1].todo # << >> /\ s[1].todo[1].id = f.id
  PROVE  /\ << f >> \o s \in Seq(Frame)
         /\ AllSound(d, r, << f >> \o s)
         /\ Nested(<< f >> \o s)
         /\ \A id : Outermost(<< f >> \o s, id) <=> IF s = << >> THEN id = f.id
                                                   ELSE Outermost(s, id)
         /\ Len(f.todo) = Len(Goals(d[f.id])) =>
              \A id : Placed(d, r, << f >> \o s, id) <=> Placed(d, r, s, id)
<1> PICK p : p = << f >> \o s
  OBVIOUS
<1>1. /\ p \in Seq(Frame)
      /\ Len(p) = Len(s) + 1
      /\ Len(s) \in Nat
      /\ p[1] = f
      /\ \A i \in 2 .. Len(s) + 1 : p[i] = s[i - 1]
      /\ p # << >>
  BY PushFacts
<1>2. \A i \in 1 .. Len(p) : i = 1 \/ (i \in 2 .. Len(p) /\ i - 1 \in 1 .. Len(s) /\ p[i] = s[i - 1])
  BY <1>1
<1>3. AllSound(d, r, p)
  <2> SUFFICES ASSUME NEW i \in 1 .. Len(p) PROVE FrameSound(d, r, p[i])
    BY DEF AllSound
  <2>1. CASE i = 1
    BY <1>1, <2>1
  <2>2. CASE i - 1 \in 1 .. Len(s) /\ p[i] = s[i - 1]
    BY <2>2 DEF AllSound
  <2> QED
    BY <1>2, <2>1, <2>2
<1>4. \A i \in 2 .. Len(p) : p[i].todo # << >> /\ p[i].todo[1].id = p[i - 1].id
  <2> SUFFICES ASSUME NEW i \in 2 .. Len(p)
               PROVE  p[i].todo # << >> /\ p[i].todo[1].id = p[i - 1].id
    OBVIOUS
  <2>1. p[i] = s[i - 1] /\ i - 1 \in 1 .. Len(s)
    BY <1>1
  <2>2. CASE i = 2
    <3>1. s # << >> /\ p[i] = s[1] /\ p[i - 1] = f
      BY <1>1, <2>1, <2>2, LenZero
    <3> QED
      BY <3>1
  <2>3. CASE i # 2
    <3>1. i - 1 \in 2 .. Len(s) /\ p[i - 1] = s[i - 1 - 1]
      BY <1>1, <2>1, <2>3
    <3>2. s[i - 1].todo # << >> /\ s[i - 1].todo[1].id = s[i - 1 - 1].id
      BY <3>1 DEF Nested
    <3> QED
      BY <2>1, <3>1, <3>2
  <2> QED
    BY <2>2, <2>3
<1>5. \A k \in 1 .. Len(s) : s[k].id # f.id
  <2> SUFFICES ASSUME NEW k \in 1 .. Len(s), s[k].id = f.id PROVE FALSE
    OBVIOUS
  <2> DEFINE S == {p[j].id : j \in 2 .. k + 1}
  <2>1. \A j \in 2 .. k + 1 : /\ j \in 1 .. Len(p)
                              /\ p[j] \in Frame /\ FrameSound(d, r, p[j])
                              /\ p[j].todo # << >> /\ p[j].todo[1].id = p[j - 1].id
    <3> SUFFICES ASSUME NEW j \in 2 .. k + 1
                 PROVE  /\ j \in 1 .. Len(p)
                        /\ p[j] \in Frame /\ FrameSound(d, r, p[j])
                        /\ p[j].todo # << >> /\ p[j].todo[1].id = p[j - 1].id
      OBVIOUS
    <3>1. j \in 1 .. Len(p) /\ j \in 2 .. Len(p)
      BY <1>1
    <3>2. p[j] \in Frame
      BY <1>1, <3>1, LenZero
    <3>3. FrameSound(d, r, p[j])
      BY <1>3, <3>1 DEF AllSound
    <3> QED
      BY <1>4, <3>1, <3>2, <3>3
  <2>2. \A j \in 2 .. k + 1 : /\ p[j].id \in Id /\ d[p[j].id] # Null
                              /\ p[j - 1].id \in References(d[p[j].id])
    BY <2>1, FrameFacts
  <2>3. p[k + 1].id = f.id /\ p[1].id = f.id /\ k + 1 \in 2 .. k + 1
    BY <1>1
  <2>4. S \subseteq Id /\ S # {} /\ \A id \in S : d[id] # Null
    <3>1. p[k + 1].id \in S
      BY <2>3
    <3> QED
      BY <2>2, <3>1
  <2>5. PICK id \in S : References(d[id]) \cap S = {}
    <3> HIDE DEF S
    <3> QED
      BY <2>4, Lowest
  <2>6. PICK j \in 2 .. k + 1 : id = p[j].id
    OBVIOUS
  <2>7. p[j - 1].id \in S
    <3>1. CASE j = 2
      <4>1. p[j - 1].id = p[k + 1].id
        BY <2>3, <3>1
      <4> QED
        BY <2>3, <4>1
    <3>2. CASE j # 2
      <4>1. j - 1 \in 2 .. k + 1
        BY <3>2
      <4> QED
        BY <4>1
    <3> QED
      BY <3>1, <3>2
  <2> QED
    BY <2>2, <2>5, <2>6, <2>7
<1>6. \A i, j \in 1 .. Len(p) : p[i].id = p[j].id => i = j
  <2> SUFFICES ASSUME NEW i \in 1 .. Len(p), NEW j \in 1 .. Len(p), p[i].id = p[j].id
               PROVE  i = j
    OBVIOUS
  <2>1. \A a, b \in 1 .. Len(s) : s[a].id = s[b].id => a = b
    BY DEF Nested
  <2>2. CASE i = 1 /\ j # 1
    BY <1>1, <1>2, <1>5, <2>2
  <2>3. CASE i # 1 /\ j = 1
    BY <1>1, <1>2, <1>5, <2>3
  <2>4. CASE i # 1 /\ j # 1
    <3>1. i - 1 \in 1 .. Len(s) /\ j - 1 \in 1 .. Len(s) /\ s[i - 1].id = s[j - 1].id
      BY <1>2, <2>4
    <3>2. i - 1 = j - 1
      BY <2>1, <3>1
    <3> QED
      BY <3>2
  <2> QED
    BY <2>2, <2>3, <2>4
<1>7. Nested(p)
  BY <1>4, <1>6 DEF Nested
<1>8. ASSUME NEW id
      PROVE  Outermost(p, id) <=> IF s = << >> THEN id = f.id ELSE Outermost(s, id)
  <2>1. CASE s = << >>
    <3>1. Len(p) = 1
      BY <1>1, <2>1
    <3> QED
      BY <1>1, <2>1, <3>1 DEF Outermost
  <2>2. CASE s # << >>
    <3>1. Len(s) # 0
      BY <2>2, LenZero
    <3>2. p[Len(p)] = s[Len(s)]
      BY <1>1, <3>1
    <3> QED
      BY <1>1, <2>2, <3>2 DEF Outermost
  <2> QED
    BY <2>1, <2>2
<1>9. ASSUME Len(f.todo) = Len(Goals(d[f.id])), NEW id
      PROVE  Placed(d, r, p, id) <=> Placed(d, r, s, id)
  <2>1. ASSUME NEW i \in 1 .. Len(p), p[i].id = id, Len(p[i].todo) < Len(Goals(d[id]))
        PROVE  Placed(d, r, s, id)
    <3>1. i # 1
      <4> SUFFICES ASSUME i = 1 PROVE FALSE
        OBVIOUS
      <4>1. p[i] = f
        BY <1>1
      <4>2. Len(f.todo) < Len(f.todo) /\ Len(f.todo) \in Nat
        BY <1>9, <2>1, <4>1, FrameFacts
      <4> QED
        BY <4>2
    <3>2. i - 1 \in 1 .. Len(s) /\ p[i] = s[i - 1]
      BY <1>2, <3>1
    <3> QED
      BY <2>1, <3>2 DEF Placed
  <2>2. ASSUME NEW i \in 1 .. Len(s), s[i].id = id, Len(s[i].todo) < Len(Goals(d[id]))
        PROVE  Placed(d, r, p, id)
    <3>1. i + 1 \in 1 .. Len(p) /\ p[i + 1] = s[i]
      <4>1. i + 1 \in 2 .. Len(s) + 1 /\ i + 1 - 1 = i
        BY <1>1
      <4> QED
        BY <1>1, <4>1
    <3> QED
      BY <2>2, <3>1 DEF Placed
  <2> QED
    BY <2>1, <2>2 DEF Placed
<1> QED
  BY <1>1, <1>3, <1>7, <1>8, <1>9

\* The innermost call goes on.
LEMMA Replaced ==
  ASSUME NEW d, NEW r, NEW s \in Seq(Frame), AllSound(d, r, s), Nested(s), s # << >>,
         NEW g \in Frame, FrameSound(d, r, g), g.id = s[1].id
  PROVE  /\ << g >> \o Tail(s) \in Seq(Frame)
         /\ AllSound(d, r, << g >> \o Tail(s))
         /\ Nested(<< g >> \o Tail(s))
         /\ \A id : Outermost(<< g >> \o Tail(s), id) <=> Outermost(s, id)
         /\ << g >> \o Tail(s) # << >>
         /\ Len(g.todo) < Len(Goals(d[g.id])) =>
              \A id : Placed(d, r, << g >> \o Tail(s), id) <=> Placed(d, r, s, id) \/ id = g.id
<1> PICK p : p = << g >> \o Tail(s)
  OBVIOUS
<1>1. /\ Tail(s) \in Seq(Frame)
      /\ Len(Tail(s)) = Len(s) - 1
      /\ \A i \in 1 .. Len(Tail(s)) : Tail(s)[i] = s[i + 1]
      /\ Len(s) \in Nat \ {0}
  BY TailFacts
<1>2. /\ p \in Seq(Frame)
      /\ Len(p) = Len(Tail(s)) + 1
      /\ p[1] = g
      /\ \A i \in 2 .. Len(Tail(s)) + 1 : p[i] = Tail(s)[i - 1]
      /\ p # << >>
  BY <1>1, PushFacts
<1>3. Len(p) = Len(s)
  BY <1>1, <1>2
<1>4. \A i \in 2 .. Len(s) : p[i] = s[i]
  <2> SUFFICES ASSUME NEW i \in 2 .. Len(s) PROVE p[i] = s[i]
    OBVIOUS
  <2>1. i - 1 \in 1 .. Len(Tail(s)) /\ i \in 2 .. Len(Tail(s)) + 1 /\ (i - 1) + 1 = i
    BY <1>1
  <2> QED
    BY <1>1, <1>2, <2>1
<1>5. \A i \in 1 .. Len(s) : p[i].id = s[i].id /\ (i = 1 \/ i \in 2 .. Len(s))
  BY <1>2, <1>4
<1>6. AllSound(d, r, p)
  <2> SUFFICES ASSUME NEW i \in 1 .. Len(s) PROVE FrameSound(d, r, p[i])
    BY <1>3 DEF AllSound
  <2>1. CASE i = 1
    BY <1>2, <2>1
  <2>2. CASE i \in 2 .. Len(s)
    BY <1>4, <2>2 DEF AllSound
  <2> QED
    BY <1>5, <2>1, <2>2
<1>7. Nested(p)
  <2>1. \A i \in 2 .. Len(p) : p[i].todo # << >> /\ p[i].todo[1].id = p[i - 1].id
    <3> SUFFICES ASSUME NEW i \in 2 .. Len(s)
                 PROVE  p[i].todo # << >> /\ p[i].todo[1].id = p[i - 1].id
      BY <1>3
    <3>1. s[i].todo # << >> /\ s[i].todo[1].id = s[i - 1].id
      BY DEF Nested
    <3>2. i - 1 \in 1 .. Len(s)
      BY <1>1
    <3>3. p[i - 1].id = s[i - 1].id /\ p[i] = s[i]
      BY <1>4, <1>5, <3>2
    <3> QED
      BY <3>1, <3>3
  <2>2. \A i, j \in 1 .. Len(p) : p[i].id = p[j].id => i = j
    BY <1>3, <1>5 DEF Nested
  <2> QED
    BY <2>1, <2>2 DEF Nested
<1>8. ASSUME NEW id PROVE Outermost(p, id) <=> Outermost(s, id)
  <2>1. Len(s) \in 1 .. Len(s)
    BY <1>1
  <2>2. p[Len(s)].id = s[Len(s)].id
    BY <1>5, <2>1
  <2> QED
    BY <1>2, <1>3, <2>2 DEF Outermost
<1>9. ASSUME Len(g.todo) < Len(Goals(d[g.id])), NEW id
      PROVE  Placed(d, r, p, id) <=> Placed(d, r, s, id) \/ id = g.id
  <2>1. ASSUME NEW i \in 1 .. Len(s), p[i].id = id, Len(p[i].todo) < Len(Goals(d[id]))
        PROVE  Placed(d, r, s, id) \/ id = g.id
    <3>1. CASE i = 1
      BY <1>2, <2>1, <3>1
    <3>2. CASE i \in 2 .. Len(s)
      BY <1>4, <2>1, <3>2 DEF Placed
    <3> QED
      BY <1>5, <3>1, <3>2
  <2>2. ASSUME NEW i \in 1 .. Len(s), s[i].id = id, Len(s[i].todo) < Len(Goals(d[id]))
        PROVE  Placed(d, r, p, id) \/ id = g.id
    <3>1. CASE i = 1
      BY <2>2, <3>1
    <3>2. CASE i \in 2 .. Len(s)
      BY <1>3, <1>4, <2>2, <3>2 DEF Placed
    <3> QED
      BY <1>5, <3>1, <3>2
  <2>3. ASSUME id = g.id PROVE Placed(d, r, p, id)
    <3>1. 1 \in 1 .. Len(p)
      BY <1>1, <1>3
    <3> QED
      BY <1>2, <1>9, <2>3, <3>1 DEF Placed
  <2> QED
    BY <1>3, <2>1, <2>2, <2>3 DEF Placed
<1> QED
  BY <1>2, <1>6, <1>7, <1>8, <1>9

\* The innermost call returns.
LEMMA Popped ==
  ASSUME NEW d, NEW r, NEW s \in Seq(Frame), AllSound(d, r, s), Nested(s), s # << >>
  PROVE  /\ Tail(s) \in Seq(Frame)
         /\ AllSound(d, r, Tail(s))
         /\ AllSound(d, r \cup {s[1].id}, Tail(s))
         /\ Nested(Tail(s))
         /\ \A id : Outermost(s, id) => IF Tail(s) = << >> THEN id = s[1].id
                                        ELSE Outermost(Tail(s), id)
         /\ Len(s[1].todo) < Len(Goals(d[s[1].id])) =>
              \A id : Placed(d, r \cup {s[1].id}, Tail(s), id) <=> Placed(d, r, s, id)
         /\ \A id : id # s[1].id =>
              (Placed(d, r \cup {s[1].id}, Tail(s), id) <=> Placed(d, r, s, id))
<1> PICK p : p = Tail(s)
  OBVIOUS
<1> PICK q : q = r \cup {s[1].id}
  OBVIOUS
<1>1. /\ p \in Seq(Frame)
      /\ Len(p) = Len(s) - 1
      /\ \A i \in 1 .. Len(p) : p[i] = s[i + 1]
      /\ Len(s) \in Nat \ {0}
  BY TailFacts
<1>2. \A i \in 1 .. Len(p) : i + 1 \in 1 .. Len(s) /\ i + 1 \in 2 .. Len(s)
  BY <1>1
<1>3. \A i \in 1 .. Len(s) : i = 1 \/ (i - 1 \in 1 .. Len(p) /\ p[i - 1] = s[i])
  <2> SUFFICES ASSUME NEW i \in 1 .. Len(s), i # 1
               PROVE  i - 1 \in 1 .. Len(p) /\ p[i - 1] = s[i]
    OBVIOUS
  <2>1. i - 1 \in 1 .. Len(p) /\ (i - 1) + 1 = i
    BY <1>1
  <2> QED
    BY <1>1, <2>1
<1>4. AllSound(d, r, p)
  BY <1>1, <1>2 DEF AllSound
<1>5. \A i \in 1 .. Len(p) : p[i].id # s[1].id
  <2> SUFFICES ASSUME NEW i \in 1 .. Len(p), p[i].id = s[1].id PROVE FALSE
    OBVIOUS
  <2>1. i + 1 \in 1 .. Len(s) /\ 1 \in 1 .. Len(s) /\ s[i + 1].id = s[1].id
    BY <1>1, <1>2
  <2>2. i + 1 = 1
    BY <2>1 DEF Nested
  <2> QED
    BY <2>2
<1>6. AllSound(d, q, p)
  <2> SUFFICES ASSUME NEW i \in 1 .. Len(p) PROVE FrameSound(d, q, p[i])
    BY DEF AllSound
  <2>1. FrameSound(d, r, p[i])
    BY <1>4 DEF AllSound
  <2>2. p[i].id \notin q
    BY <1>5, <2>1 DEF FrameSound
  <2>3. r \subseteq q
    OBVIOUS
  <2> QED
    BY <2>1, <2>2, <2>3, FrameMonotone
<1>7. Nested(p)
  <2>1. \A i \in 2 .. Len(p) : p[i].todo # << >> /\ p[i].todo[1].id = p[i - 1].id
    <3> SUFFICES ASSUME NEW i \in 2 .. Len(p)
                 PROVE  p[i].todo # << >> /\ p[i].todo[1].id = p[i - 1].id
      OBVIOUS
    <3>1. /\ i \in 1 .. Len(p) /\ i - 1 \in 1 .. Len(p)
          /\ i + 1 \in 2 .. Len(s) /\ (i + 1) - 1 = i /\ (i - 1) + 1 = i
      BY <1>1
    <3>2. p[i] = s[i + 1] /\ p[i - 1] = s[i]
      BY <1>1, <3>1
    <3>3. s[i + 1].todo # << >> /\ s[i + 1].todo[1].id = s[(i + 1) - 1].id
      BY <3>1 DEF Nested
    <3> QED
      BY <3>1, <3>2, <3>3
  <2>2. \A i, j \in 1 .. Len(p) : p[i].id = p[j].id => i = j
    <3> SUFFICES ASSUME NEW i \in 1 .. Len(p), NEW j \in 1 .. Len(p), p[i].id = p[j].id
                 PROVE  i = j
      OBVIOUS
    <3>1. s[i + 1].id = s[j + 1].id /\ i + 1 \in 1 .. Len(s) /\ j + 1 \in 1 .. Len(s)
      BY <1>1, <1>2
    <3>2. i + 1 = j + 1
      BY <3>1 DEF Nested
    <3> QED
      BY <3>2
  <2> QED
    BY <2>1, <2>2 DEF Nested
<1>8. ASSUME NEW id, Outermost(s, id)
      PROVE  IF p = << >> THEN id = s[1].id ELSE Outermost(p, id)
  <2>1. CASE p = << >>
    <3>1. Len(s) = 1
      <4>1. Len(p) = 0
        BY <1>1, <2>1, LenZero
      <4> QED
        BY <1>1, <4>1
    <3> QED
      BY <1>8, <2>1, <3>1 DEF Outermost
  <2>2. CASE p # << >>
    <3>1. Len(p) \in 1 .. Len(p) /\ Len(p) + 1 = Len(s)
      <4>1. Len(p) # 0
        BY <1>1, <2>2, LenZero
      <4> QED
        BY <1>1, <4>1
    <3>2. p[Len(p)] = s[Len(s)]
      <4>1. p[Len(p)] = s[Len(p) + 1]
        BY <1>1, <3>1
      <4> QED
        BY <3>1, <4>1
    <3> QED
      BY <1>8, <2>2, <3>2 DEF Outermost
  <2> QED
    BY <2>1, <2>2
<1>9. ASSUME NEW id, id # s[1].id \/ Len(s[1].todo) < Len(Goals(d[s[1].id]))
      PROVE  Placed(d, q, p, id) <=> Placed(d, r, s, id)
  <2>1. ASSUME NEW i \in 1 .. Len(p), p[i].id = id, Len(p[i].todo) < Len(Goals(d[id]))
        PROVE  Placed(d, r, s, id)
    <3>1. i + 1 \in 1 .. Len(s) /\ p[i] = s[i + 1]
      BY <1>1, <1>2
    <3> QED
      BY <2>1, <3>1 DEF Placed
  <2>2. ASSUME id = s[1].id PROVE Placed(d, r, s, id) /\ Placed(d, q, p, id)
    <3>1. 1 \in 1 .. Len(s)
      BY <1>1
    <3>2. Len(s[1].todo) < Len(Goals(d[id]))
      BY <1>9, <2>2
    <3> QED
      BY <2>2, <3>1, <3>2 DEF Placed
  <2>3. ASSUME NEW i \in 1 .. Len(s), s[i].id = id, Len(s[i].todo) < Len(Goals(d[id]))
        PROVE  Placed(d, q, p, id)
    <3>1. CASE i = 1
      BY <2>2, <2>3, <3>1
    <3>2. CASE i - 1 \in 1 .. Len(p) /\ p[i - 1] = s[i]
      BY <2>3, <3>2 DEF Placed
    <3> QED
      BY <1>3, <3>1, <3>2
  <2>4. id \in q => id \in r \/ id = s[1].id
    OBVIOUS
  <2>5. id \in r => id \in q
    OBVIOUS
  <2>6. Placed(d, q, p, id) => Placed(d, r, s, id)
    BY <2>1, <2>2, <2>4 DEF Placed
  <2>7. Placed(d, r, s, id) => Placed(d, q, p, id)
    BY <2>3, <2>5 DEF Placed
  <2> QED
    BY <2>6, <2>7
<1> QED
  BY <1>1, <1>4, <1>6, <1>7, <1>8, <1>9

\* The member maps stay sound when no object with a context is placed.
LEMMA MembersSame ==
  ASSUME NEW d, NEW r, NEW s, NEW m, MembersSound(d, r, s, m), NEW q, NEW p,
         \A id \in Id : d[id] # Null /\ ContextOf(d, id) \in Id =>
           (Placed(d, q, p, id) <=> Placed(d, r, s, id))
  PROVE  MembersSound(d, q, p, m)
BY DEF MembersSound

-----------------------------------------------------------------------------
(* Initial states and steps. *)

LEMMA IInvInit == Init => IInv
<1> SUFFICES ASSUME Init PROVE IInv
  OBVIOUS
<1> USE DEF Init
<1>1. document \in Document /\ document \in [Id -> SourceElement \cup {Null}]
  BY ConstructionAssumption
<1>2. TypeOK
  <2>1. << >> \in Seq(Type \cup {Null}) /\ << >> \in Seq(Id) /\ << >> \in Seq(Frame)
    OBVIOUS
  <2> QED
    BY <1>1, <2>1 DEF TypeOK
<1>3. RegisteredSound(document, registered, target)
  BY DEF RegisteredSound
<1>4. AllSound(document, registered, stack)
  BY DEF AllSound
<1>5. Nested(stack)
  BY DEF Nested
<1>6. NoneForgotten
  BY DEF NoneForgotten
<1>7. \A c \in Id : members[c] = << >>
  OBVIOUS
<1>8. \A id : ~ Placed(document, registered, stack, id)
  BY DEF Placed
<1>9. MembersSound(document, registered, stack, members)
  <2> SUFFICES ASSUME NEW c \in Id
               PROVE  /\ \A i, j \in 1 .. Len(members[c]) : members[c][i] = members[c][j] => i = j
                      /\ \A id \in Id : ~ \E i \in 1 .. Len(members[c]) : members[c][i] = id
    BY <1>8, Zenon DEF MembersSound
  <2>1. Len(members[c]) = 0
    BY <1>7
  <2> QED
    BY <2>1
<1>10. NeverFails
  BY <1>9, Zenon DEF NeverFails
<1> QED
  BY <1>1, <1>2, <1>3, <1>4, <1>5, <1>6, <1>10 DEF IInv

\* The innermost call.
LEMMA TopFacts ==
  ASSUME IInv, stack # << >>
  PROVE  /\ Top \in Frame
         /\ Top = stack[1]
         /\ FrameSound(document, registered, Top)
         /\ Top.id \in Id /\ Element # Null /\ Element \in SourceElement
         /\ Top.id \notin registered
         /\ Top.todo # << >> => /\ Current = Top.todo[1]
                                /\ Current \in Goal
                                /\ Current.id \in Id
                                /\ Current.id \in References(Element)
<1>1. stack \in Seq(Frame) /\ document \in Document
  BY DEF IInv, TypeOK
<1>2. Top \in Frame /\ Top = stack[1] /\ 1 \in 1 .. Len(stack)
  BY <1>1, TailFacts DEF Top
<1>3. FrameSound(document, registered, Top)
  BY <1>2 DEF IInv, AllSound
<1>4. /\ Top.id \in Id /\ Element # Null /\ Element \in SourceElement
      /\ Top.todo \in Seq(Goal)
      /\ Top.todo # << >> => /\ Top.todo[1].id \in References(Element)
                             /\ Top.todo[1].id \in Id
                             /\ Top.todo[1] \in Goal
  BY <1>1, <1>2, <1>3, FrameFacts DEF Element
<1>5. Top.todo # << >> => Current = Top.todo[1]
  BY <1>4 DEF Current
<1>6. Top.id \notin registered
  BY <1>3 DEF FrameSound
<1> QED
  BY <1>2, <1>3, <1>4, <1>5, <1>6

LEMMA IInvAddElement == \A id \in Id : IInv /\ AddElement(id) => IInv'
<1> SUFFICES ASSUME NEW id \in Id, IInv, AddElement(id) PROVE IInv'
  OBVIOUS
<1>1. /\ phase = "elements" /\ stack = << >> /\ ~ null /\ id \in remaining
      /\ remaining' = remaining \ {id}
      /\ stack' = IF id \in registered THEN << >> ELSE << Enter(id) >>
      /\ document' = document /\ registered' = registered /\ target' = target
      /\ members' = members /\ m_GlobalNamespaceId' = m_GlobalNamespaceId
      /\ null' = null /\ phase' = phase /\ result' = result
  BY DEF AddElement, objects
<1>2. /\ document \in Document /\ RegisteredSound(document, registered, target)
      /\ AllSound(document, registered, stack) /\ Nested(stack)
      /\ \A x \in remaining : document[x] # Null
      /\ TypeOK /\ NoneForgotten /\ NeverFails
  BY DEF IInv, NoneForgotten
<1>3. ~ result
  BY <1>1, <1>2 DEF NoneForgotten
<1>4. /\ stack' \in Seq(Frame)
      /\ AllSound(document, registered, stack')
      /\ Nested(stack')
      /\ \A x : Placed(document, registered, stack', x) <=> Placed(document, registered, stack, x)
      /\ id \in registered \/ Outermost(stack', id)
  <2>1. CASE id \in registered
    <3>1. stack' = stack
      BY <1>1, <2>1
    <3> QED
      BY <1>1, <1>2, <2>1, <3>1
  <2>2. CASE id \notin registered
    <3>1. /\ Enter(id) \in Frame /\ Enter(id).id = id
          /\ Enter(id).todo = Goals(document[id])
          /\ FrameSound(document, registered, Enter(id))
      BY <1>1, <1>2, <2>2, EnterFacts
    <3> PICK f : f = Enter(id)
      OBVIOUS
    <3>2. << f >> \o stack = stack'
      BY <1>1, <2>2
    <3>3. stack \in Seq(Frame)
      BY <1>1
    <3>4. /\ << f >> \o stack \in Seq(Frame)
          /\ AllSound(document, registered, << f >> \o stack)
          /\ Nested(<< f >> \o stack)
          /\ \A x : Outermost(<< f >> \o stack, x) <=> IF stack = << >> THEN x = f.id
                                                       ELSE Outermost(stack, x)
          /\ Len(f.todo) = Len(Goals(document[f.id])) =>
               \A x : Placed(document, registered, << f >> \o stack, x)
                        <=> Placed(document, registered, stack, x)
      BY <1>1, <1>2, <3>1, <3>3, Pushed
    <3> QED
      BY <1>1, <3>1, <3>2, <3>4
  <2> QED
    BY <2>1, <2>2
<1>5. TypeOK'
  BY <1>1, <1>2, <1>4 DEF TypeOK
<1>6. NoneForgotten'
  <2>1. \A x \in remaining' : document'[x] # Null
    BY <1>1, <1>2
  <2>2. ASSUME NEW x \in Id, document[x] # Null
        PROVE  x \in registered \cup remaining' \/ Outermost(stack', x)
    <3>1. x \in registered \cup remaining
      BY <1>1, <1>2, <2>2 DEF NoneForgotten, Outermost
    <3> QED
      BY <1>1, <1>4, <3>1
  <2> QED
    BY <1>1, <1>3, <2>1, <2>2 DEF NoneForgotten
<1>7. NeverFails'
  <2>1. Constructible(document) => MembersSound(document, registered, stack', members)
    BY <1>2, <1>4, MembersSame DEF NeverFails
  <2> QED
    BY <1>1, <1>2, <2>1 DEF NeverFails
<1> QED
  BY <1>1, <1>2, <1>4, <1>5, <1>6, <1>7 DEF IInv

LEMMA IInvAddElementRepresentation == IInv /\ AddElementRepresentation => IInv'
<1> SUFFICES ASSUME IInv, AddElementRepresentation PROVE IInv'
  OBVIOUS
<1>1. /\ phase = "elements" /\ stack # << >> /\ Top.todo # << >> /\ ~ Answered
      /\ stack' = << Enter(Current.id) >> \o stack
      /\ document' = document /\ registered' = registered /\ target' = target
      /\ members' = members /\ m_GlobalNamespaceId' = m_GlobalNamespaceId
      /\ null' = null /\ remaining' = remaining /\ phase' = phase /\ result' = result
  BY DEF AddElementRepresentation, objects
<1>2. /\ document \in Document /\ RegisteredSound(document, registered, target)
      /\ AllSound(document, registered, stack) /\ Nested(stack)
      /\ TypeOK /\ NoneForgotten /\ NeverFails
  BY DEF IInv
<1>3. ~ result /\ ~ null
  BY <1>1, <1>2 DEF NoneForgotten, Answered
<1>4. /\ stack' \in Seq(Frame)
      /\ AllSound(document, registered, stack')
      /\ Nested(stack')
      /\ \A x : Placed(document, registered, stack', x) <=> Placed(document, registered, stack, x)
      /\ \A x : Outermost(stack', x) <=> Outermost(stack, x)
  <2> PICK f : f = Enter(Current.id)
    OBVIOUS
  <2>1. /\ Current.id \in Id /\ document[Current.id] # Null /\ Current.id \notin registered
        /\ Top = stack[1] /\ Current = Top.todo[1]
    BY <1>1, TopFacts DEF Answered
  <2>2. /\ f \in Frame /\ f.id = Current.id
        /\ f.todo = Goals(document[Current.id])
        /\ FrameSound(document, registered, f)
    BY <1>2, <2>1, EnterFacts
  <2>3. stack \in Seq(Frame)
    BY <1>2 DEF TypeOK
  <2>4. stack # << >> => stack[1].todo # << >> /\ stack[1].todo[1].id = f.id
    BY <1>1, <2>1, <2>2
  <2>5. /\ << f >> \o stack \in Seq(Frame)
        /\ AllSound(document, registered, << f >> \o stack)
        /\ Nested(<< f >> \o stack)
        /\ \A x : Outermost(<< f >> \o stack, x) <=> IF stack = << >> THEN x = f.id
                                                     ELSE Outermost(stack, x)
        /\ Len(f.todo) = Len(Goals(document[f.id])) =>
             \A x : Placed(document, registered, << f >> \o stack, x)
                      <=> Placed(document, registered, stack, x)
    BY <1>2, <2>2, <2>3, <2>4, Pushed
  <2> QED
    BY <1>1, <2>2, <2>5
<1>5. TypeOK'
  BY <1>1, <1>2, <1>4 DEF TypeOK
<1>6. NoneForgotten'
  BY <1>1, <1>2, <1>3, <1>4 DEF NoneForgotten
<1>7. NeverFails'
  <2>1. Constructible(document) => MembersSound(document, registered, stack', members)
    BY <1>2, <1>4, MembersSame DEF NeverFails
  <2> QED
    BY <1>1, <1>2, <2>1 DEF NeverFails
<1> QED
  BY <1>1, <1>2, <1>4, <1>5, <1>6, <1>7 DEF IInv

\* In a document that is not sound a step may crash.
LEMMA IInvCrash ==
  ASSUME IInv, phase = "elements", ~ Constructible(document), Crash
  PROVE  IInv'
<1>1. /\ phase' = "crashed"
      /\ document' = document /\ registered' = registered /\ target' = target
      /\ members' = members /\ m_GlobalNamespaceId' = m_GlobalNamespaceId
      /\ stack' = stack /\ null' = null /\ remaining' = remaining /\ result' = result
  BY DEF Crash, objects
<1>2. /\ document \in Document /\ RegisteredSound(document, registered, target)
      /\ AllSound(document, registered, stack) /\ Nested(stack)
      /\ TypeOK /\ NoneForgotten
  BY DEF IInv
<1>3. ~ result
  BY <1>2 DEF NoneForgotten
<1>4. TypeOK'
  BY <1>1, <1>2 DEF TypeOK
<1>5. NoneForgotten'
  BY <1>1, <1>2, <1>3 DEF NoneForgotten
<1>6. NeverFails'
  BY <1>1 DEF NeverFails
<1> QED
  BY <1>1, <1>2, <1>4, <1>5, <1>6 DEF IInv

\* Or a call may fail.
LEMMA IInvFail ==
  ASSUME IInv, phase = "elements", stack # << >>, ~ Constructible(document), Fail
  PROVE  IInv'
<1>1. CASE Element.attributes /\ Crash
  BY <1>1, IInvCrash
<1>2. CASE ~ (Element.attributes /\ Crash)
  <2>1. /\ stack' = Tail(stack) /\ null' = TRUE /\ phase' = phase
        /\ document' = document /\ registered' = registered /\ target' = target
        /\ members' = members /\ m_GlobalNamespaceId' = m_GlobalNamespaceId
        /\ remaining' = remaining /\ result' = result
    BY <1>2 DEF Fail, objects
  <2>2. /\ document \in Document /\ RegisteredSound(document, registered, target)
        /\ AllSound(document, registered, stack) /\ Nested(stack)
        /\ TypeOK /\ NoneForgotten /\ stack \in Seq(Frame)
    BY DEF IInv, TypeOK
  <2>3. ~ result
    BY <2>2 DEF NoneForgotten
  <2>4. /\ Tail(stack) \in Seq(Frame)
        /\ AllSound(document, registered, Tail(stack))
        /\ Nested(Tail(stack))
        /\ \A id : Outermost(stack, id) => IF Tail(stack) = << >> THEN id = stack[1].id
                                           ELSE Outermost(Tail(stack), id)
    BY <2>2, Popped
  <2>5. TypeOK'
    BY <2>1, <2>2, <2>4 DEF TypeOK
  <2>6. NoneForgotten'
    <3>1. \A x \in remaining' : document'[x] # Null
      BY <2>1, <2>2 DEF NoneForgotten
    <3>2. ASSUME NEW x \in Id, document[x] # Null
          PROVE  \/ x \in registered \cup remaining
                 \/ Outermost(stack', x)
                 \/ stack' = << >>
      <4>1. x \in registered \cup remaining \/ Outermost(stack, x)
        BY <2>2, <3>2 DEF NoneForgotten
      <4> QED
        BY <2>1, <2>4, <4>1
    <3> QED
      BY <2>1, <2>3, <3>1, <3>2 DEF NoneForgotten
  <2>7. NeverFails'
    BY <2>1 DEF NeverFails
  <2> QED
    BY <2>1, <2>2, <2>4, <2>5, <2>6, <2>7 DEF IInv
<1> QED
  BY <1>1, <1>2

\* A reference is done with.
LEMMA IInvProceed ==
  ASSUME IInv, phase = "elements", stack # << >>, Top.todo # << >>,
         NEW types, Answers(document, registered, Top, types), Proceed(types),
         UNCHANGED << registered, target, m_GlobalNamespaceId >>,
         members' \in [Id -> Seq(Id)],
         Constructible(document) => MembersSound(document, registered, stack', members')
  PROVE  IInv'
<1>1. /\ stack' = << After(Top, types) >> \o Tail(stack)
      /\ null' = FALSE /\ phase' = phase
      /\ document' = document /\ registered' = registered /\ target' = target
      /\ m_GlobalNamespaceId' = m_GlobalNamespaceId
      /\ remaining' = remaining /\ result' = result
  BY DEF Proceed, After
<1>2. /\ document \in Document /\ RegisteredSound(document, registered, target)
      /\ AllSound(document, registered, stack) /\ Nested(stack)
      /\ TypeOK /\ NoneForgotten /\ stack \in Seq(Frame)
  BY DEF IInv, TypeOK
<1>3. ~ result
  BY <1>2 DEF NoneForgotten
<1> PICK g : g = After(Top, types)
  OBVIOUS
<1>4. Top \in Frame /\ Top = stack[1] /\ FrameSound(document, registered, Top)
  BY TopFacts
<1>5. /\ g \in Frame /\ FrameSound(document, registered, g)
      /\ g.id = Top.id
  BY <1>2, <1>4, FrameProceeds
<1>6. /\ stack' \in Seq(Frame)
      /\ AllSound(document, registered, stack')
      /\ Nested(stack')
      /\ \A id : Outermost(stack', id) <=> Outermost(stack, id)
      /\ stack' # << >>
  <2>1. /\ << g >> \o Tail(stack) \in Seq(Frame)
        /\ AllSound(document, registered, << g >> \o Tail(stack))
        /\ Nested(<< g >> \o Tail(stack))
        /\ \A id : Outermost(<< g >> \o Tail(stack), id) <=> Outermost(stack, id)
        /\ << g >> \o Tail(stack) # << >>
    BY <1>2, <1>4, <1>5, Replaced
  <2> QED
    BY <1>1, <2>1
<1>7. TypeOK'
  BY <1>1, <1>2, <1>6 DEF TypeOK
<1>8. NoneForgotten'
  <2>1. \A x \in remaining' : document'[x] # Null
    BY <1>1, <1>2 DEF NoneForgotten
  <2>2. \A x \in Id : document[x] # Null => x \in registered \cup remaining \/ Outermost(stack', x)
    BY <1>2, <1>6 DEF NoneForgotten
  <2> QED
    BY <1>1, <1>3, <2>1, <2>2 DEF NoneForgotten
<1>9. NeverFails'
  BY <1>1 DEF NeverFails
<1> QED
  BY <1>1, <1>2, <1>6, <1>7, <1>8, <1>9 DEF IInv

\* A call has given its element to its context once it is past its first goal.
LEMMA ContextFirst ==
  ASSUME NEW d \in Document, NEW r, NEW f \in Frame, FrameSound(d, r, f)
  PROVE  /\ f.todo # << >> /\ f.todo[1].op = "context" =>
              /\ Len(f.todo) = Len(Goals(d[f.id]))
              /\ d[f.id].context # NoId /\ f.todo[1].id = d[f.id].context
         /\ (/\ d[f.id].context # NoId
             /\ IF f.todo = << >> THEN d[f.id].defect # "early" ELSE f.todo[1].op # "context")
              => Len(f.todo) < Len(Goals(d[f.id]))
<1> PICK G : G = Goals(d[f.id])
  OBVIOUS
<1> PICK t : t = Len(f.todo)
  OBVIOUS
<1>1. /\ d[f.id] \in SourceElement
      /\ t \in Nat /\ Len(G) \in Nat /\ t <= Len(G)
      /\ f.todo \in Seq(Goal)
      /\ f.todo # << >> =>
           /\ f.todo[1] = G[Len(G) - t + 1]
           /\ Len(G) - t + 1 \in 1 .. Len(G)
  BY FrameFacts
<1>2. /\ d[f.id].defect = "early" => Len(G) = 0
      /\ \A j \in 1 .. Len(G) :
           G[j].op = "context" => j = 1 /\ d[f.id].context # NoId /\ G[j].id = d[f.id].context
      /\ d[f.id].defect # "early" /\ d[f.id].context # NoId => Len(G) >= 1 /\ G[1].op = "context"
  BY <1>1, GoalAt
<1>3. ASSUME f.todo # << >>, f.todo[1].op = "context"
      PROVE  t = Len(G) /\ d[f.id].context # NoId /\ f.todo[1].id = d[f.id].context
  <2> PICK j : j = Len(G) - t + 1
    OBVIOUS
  <2>1. j \in 1 .. Len(G) /\ f.todo[1] = G[j]
    BY <1>1, <1>3
  <2>2. j = 1 /\ d[f.id].context # NoId /\ G[j].id = d[f.id].context
    BY <1>2, <1>3, <2>1
  <2>3. t = Len(G)
    <3>1. Len(G) - t + 1 = 1
      BY <2>2
    <3> QED
      BY <1>1, <3>1
  <2> QED
    BY <2>1, <2>2, <2>3
<1>4. ASSUME d[f.id].context # NoId,
             IF f.todo = << >> THEN d[f.id].defect # "early" ELSE f.todo[1].op # "context"
      PROVE  t < Len(G)
  <2>1. CASE f.todo = << >>
    <3>1. t = 0
      BY <2>1
    <3>2. Len(G) >= 1
      BY <1>2, <1>4, <2>1
    <3> QED
      BY <1>1, <3>1, <3>2
  <2>2. CASE f.todo # << >>
    <3>1. f.todo[1] = G[Len(G) - t + 1] /\ Len(G) - t + 1 \in 1 .. Len(G)
      BY <1>1, <2>2
    <3>2. Len(G) # 0
      BY <1>1, <3>1
    <3>3. G[1].op = "context"
      BY <1>2, <1>4, <3>2
    <3>4. Len(G) - t + 1 # 1
      BY <1>4, <2>2, <3>1, <3>3
    <3> QED
      BY <1>1, <3>4
  <2> QED
    BY <2>1, <2>2
<1> QED
  BY <1>3, <1>4

\* An element that is in a member map has a context.
LEMMA InContext ==
  ASSUME NEW d, NEW id, ContextOf(d, id) \in Id
  PROVE  d[id].context # NoId
<1>1. NoId \notin Id
  BY ConstructionAssumption
<1> QED
  BY <1>1 DEF ContextOf

\* When a goal that is not the context is done with, the member maps stay sound.
LEMMA MembersProceed ==
  ASSUME IInv, Constructible(document), stack # << >>, Top.todo # << >>,
         Top.todo[1].op # "context",
         NEW types, Answers(document, registered, Top, types)
  PROVE  MembersSound(document, registered, << After(Top, types) >> \o Tail(stack), members)
<1> PICK g : g = After(Top, types)
  OBVIOUS
<1>1. /\ document \in Document /\ AllSound(document, registered, stack) /\ Nested(stack)
      /\ stack \in Seq(Frame)
      /\ MembersSound(document, registered, stack, members)
  BY DEF IInv, TypeOK, NeverFails
<1>2. Top \in Frame /\ Top = stack[1] /\ FrameSound(document, registered, Top)
  BY TopFacts
<1>3. /\ g \in Frame /\ FrameSound(document, registered, g)
      /\ g.id = Top.id
      /\ Len(g.todo) < Len(Goals(document[g.id]))
  BY <1>1, <1>2, FrameProceeds
<1>4. \A id : Placed(document, registered, << g >> \o Tail(stack), id)
                <=> Placed(document, registered, stack, id) \/ id = g.id
  BY <1>1, <1>2, <1>3, Replaced
<1>5. \A id \in Id : document[id] # Null /\ ContextOf(document, id) \in Id =>
        (Placed(document, registered, << g >> \o Tail(stack), id)
           <=> Placed(document, registered, stack, id))
  <2> SUFFICES ASSUME NEW id \in Id, ContextOf(document, id) \in Id, id = g.id
               PROVE  Placed(document, registered, stack, id)
    BY <1>4
  <2>1. document[Top.id].context # NoId
    BY <1>3, InContext
  <2>2. Len(Top.todo) < Len(Goals(document[Top.id]))
    BY <1>1, <1>2, <2>1, ContextFirst
  <2>3. 1 \in 1 .. Len(stack)
    BY <1>1, LenZero
  <2> QED
    BY <1>2, <1>3, <2>2, <2>3 DEF Placed
<1> QED
  BY <1>1, <1>5, MembersSame

LEMMA IInvSetContext == IInv /\ SetContext => IInv'
<1> SUFFICES ASSUME IInv, SetContext PROVE IInv'
  OBVIOUS
<1> DEFINE Joins == Found /\ document[Current.id].kind \in ContextKind
           c0 == MemberMapOf(document, Current.id)
<1>1. /\ phase = "elements" /\ stack # << >> /\ Top.todo # << >> /\ Current.op = "context"
      /\ Answered
      /\ members' = IF Joins THEN [members EXCEPT ![c0] = Append(@, Top.id)] ELSE members
      /\ Proceed(<< >>)
      /\ UNCHANGED << registered, target, m_GlobalNamespaceId >>
  BY DEF SetContext, Working
<1>2. /\ document \in Document /\ AllSound(document, registered, stack) /\ Nested(stack)
      /\ stack \in Seq(Frame) /\ members \in [Id -> Seq(Id)]
      /\ registered \subseteq {id \in Id : document[id] # Null}
      /\ NeverFails
  BY DEF IInv, TypeOK
<1>3. /\ Top \in Frame /\ Top = stack[1] /\ FrameSound(document, registered, Top)
      /\ Top.id \in Id /\ Element # Null /\ Top.id \notin registered
      /\ Current = Top.todo[1] /\ Current.id \in Id
  BY <1>1, TopFacts
<1>4. /\ Len(Top.todo) = Len(Goals(document[Top.id]))
      /\ document[Top.id].context # NoId
      /\ Current.id = document[Top.id].context
  BY <1>1, <1>2, <1>3, ContextFirst
<1>5. Answers(document, registered, Top, << >>)
  BY <1>1, <1>3 DEF Answers
<1>6. Joins => c0 \in Id /\ ContextOf(document, Top.id) = c0
  <2> SUFFICES ASSUME Joins PROVE c0 \in Id /\ ContextOf(document, Top.id) = c0
    OBVIOUS
  <2>1. document[Current.id] # Null /\ document[Current.id].kind \in ContextKind
    BY <1>2 DEF Found
  <2>2. c0 \in Id
    <3>1. CASE document[Current.id].kind = "NamespaceAlias"
      <4>1. Len(document[Current.id].elements) = 1
        BY <1>2, <1>3, <2>1, <3>1, ElementFacts DEF WellShaped
      <4>2. 1 \in 1 .. Len(document[Current.id].elements)
        BY <4>1
      <4>3. document[Current.id].elements[1] \in Id
        BY <1>2, <1>3, <2>1, <4>2, ElementFacts
      <4> QED
        BY <3>1, <4>3 DEF MemberMapOf
    <3>2. CASE document[Current.id].kind # "NamespaceAlias"
      BY <1>3, <3>2 DEF MemberMapOf
    <3> QED
      BY <3>1, <3>2
  <2>3. ContextOf(document, Top.id) = c0
    BY <1>4, <2>1 DEF ContextOf, MemberMapOf
  <2> QED
    BY <2>2, <2>3
<1>7. members' \in [Id -> Seq(Id)]
  <2>1. CASE Joins
    <3>1. members[c0] \in Seq(Id)
      BY <1>2, <1>6, <2>1
    <3>2. Append(members[c0], Top.id) \in Seq(Id)
      BY <1>3, <3>1, AppendProperties
    <3> HIDE DEF Joins, c0
    <3> QED
      BY <1>1, <1>2, <2>1, <3>2
  <2>2. CASE ~ Joins
    BY <1>1, <1>2, <2>2
  <2> QED
    BY <2>1, <2>2
<1>8. ASSUME Constructible(document)
      PROVE  MembersSound(document, registered, stack', members')
  <2> PICK g : g = After(Top, << >>)
    OBVIOUS
  <2> PICK p : p = << g >> \o Tail(stack)
    OBVIOUS
  <2>0. stack' = p
    BY <1>1 DEF Proceed, After
  <2>1. /\ MembersSound(document, registered, stack, members) /\ ~ null
    BY <1>2, <1>8 DEF NeverFails
  <2>2. /\ g \in Frame /\ FrameSound(document, registered, g)
        /\ g.id = Top.id
        /\ Len(g.todo) < Len(Goals(document[g.id]))
    BY <1>1, <1>2, <1>3, <1>5, FrameProceeds
  <2>3. \A id : Placed(document, registered, p, id)
                  <=> Placed(document, registered, stack, id) \/ id = Top.id
    BY <1>1, <1>2, <1>3, <2>2, Replaced
  <2>4. ~ Placed(document, registered, stack, Top.id)
    <3> SUFFICES ASSUME NEW i \in 1 .. Len(stack), stack[i].id = Top.id,
                        Len(stack[i].todo) < Len(Goals(document[Top.id]))
                 PROVE  FALSE
      BY <1>3 DEF Placed
    <3>1. 1 \in 1 .. Len(stack)
      BY <1>1, <1>2, LenZero
    <3>2. i = 1
      BY <1>3, <3>1 DEF Nested, IInv
    <3>3. Len(Top.todo) < Len(Top.todo) /\ Len(Top.todo) \in Nat
      BY <1>2, <1>3, <1>4, <3>2, FrameFacts
    <3> QED
      BY <3>3
  <2>5. CASE ~ Joins
    <3>1. ContextOf(document, Top.id) \notin Id
      <4>1. document[Current.id] = Null \/ Current.id \in registered
        BY <1>1, <2>1 DEF Answered
      <4>2. document[Current.id] = Null \/ document[Current.id].kind \notin ContextKind
        BY <2>1, <2>5, <4>1 DEF Found
      <4>3. ContextOf(document, Top.id) = NoId
        BY <1>4, <4>2 DEF ContextOf
      <4> QED
        BY <4>3, ConstructionAssumption
    <3>2. \A id \in Id : document[id] # Null /\ ContextOf(document, id) \in Id =>
            (Placed(document, registered, p, id) <=> Placed(document, registered, stack, id))
      BY <2>3, <3>1
    <3>3. MembersSound(document, registered, p, members)
      BY <2>1, <3>2, MembersSame
    <3>4. members' = members
      BY <1>1, <2>5
    <3> QED
      BY <2>0, <3>3, <3>4
  <2>6. CASE Joins
    <3> PICK c : c = c0
      OBVIOUS
    <3> PICK m : m = members'
      OBVIOUS
    <3>1. /\ c \in Id /\ ContextOf(document, Top.id) = c
          /\ m = [members EXCEPT ![c] = Append(@, Top.id)]
      BY <1>1, <1>6, <2>6
    <3> HIDE DEF Joins, c0
    <3>2. /\ m[c] = Append(members[c], Top.id)
          /\ \A x \in Id : x # c => m[x] = members[x]
      BY <1>2, <3>1
    <3>3. members[c] \in Seq(Id)
      BY <1>2, <3>1
    <3>4. /\ Len(m[c]) = Len(members[c]) + 1
          /\ Len(members[c]) \in Nat
          /\ \A i \in 1 .. Len(members[c]) : m[c][i] = members[c][i]
          /\ m[c][Len(members[c]) + 1] = Top.id
      BY <1>3, <3>2, <3>3, AppendFacts
    <3>5. \A x \in Id :
            /\ \A i, j \in 1 .. Len(members[x]) : members[x][i] = members[x][j] => i = j
            /\ \A id \in Id :
                 (\E i \in 1 .. Len(members[x]) : members[x][i] = id)
                   <=> document[id] # Null /\ ContextOf(document, id) = x
                         /\ Placed(document, registered, stack, id)
      BY <2>1 DEF MembersSound
    <3>6. \A i \in 1 .. Len(members[c]) : members[c][i] # Top.id
      BY <1>3, <2>4, <3>1, <3>5
    <3>7. \A i \in 1 .. Len(m[c]) : i \in 1 .. Len(members[c]) \/ i = Len(members[c]) + 1
      BY <3>4
    <3>8. \A i, j \in 1 .. Len(m[c]) : m[c][i] = m[c][j] => i = j
      <4> SUFFICES ASSUME NEW i \in 1 .. Len(m[c]), NEW j \in 1 .. Len(m[c]), m[c][i] = m[c][j]
                   PROVE  i = j
        OBVIOUS
      <4>1. CASE i \in 1 .. Len(members[c]) /\ j \in 1 .. Len(members[c])
        BY <3>1, <3>4, <3>5, <4>1
      <4>2. CASE i \in 1 .. Len(members[c]) /\ j = Len(members[c]) + 1
        BY <3>4, <3>6, <4>2
      <4>3. CASE i = Len(members[c]) + 1 /\ j \in 1 .. Len(members[c])
        BY <3>4, <3>6, <4>3
      <4> QED
        BY <3>7, <4>1, <4>2, <4>3
    <3>9. ASSUME NEW id \in Id
          PROVE  (\E i \in 1 .. Len(m[c]) : m[c][i] = id)
                   <=> document[id] # Null /\ ContextOf(document, id) = c
                         /\ Placed(document, registered, p, id)
      <4>1. (\E i \in 1 .. Len(m[c]) : m[c][i] = id)
              <=> (\E i \in 1 .. Len(members[c]) : members[c][i] = id) \/ id = Top.id
        <5>1. ASSUME NEW i \in 1 .. Len(m[c]), m[c][i] = id
              PROVE  (\E k \in 1 .. Len(members[c]) : members[c][k] = id) \/ id = Top.id
          BY <3>4, <3>7, <5>1
        <5>2. ASSUME NEW i \in 1 .. Len(members[c]), members[c][i] = id
              PROVE  \E k \in 1 .. Len(m[c]) : m[c][k] = id
          <6>1. i \in 1 .. Len(m[c]) /\ m[c][i] = id
            BY <3>4, <5>2
          <6> QED
            BY <6>1
        <5>3. \E k \in 1 .. Len(m[c]) : m[c][k] = Top.id
          <6>1. Len(members[c]) + 1 \in 1 .. Len(m[c])
            BY <3>4
          <6> QED
            BY <3>4, <6>1
        <5> QED
          BY <5>1, <5>2, <5>3
      <4>2. document[Top.id] # Null
        BY <1>3 DEF Element
      <4> QED
        BY <2>3, <3>1, <3>5, <4>1, <4>2
    <3>10. ASSUME NEW x \in Id, x # c, NEW id \in Id
           PROVE  (\E i \in 1 .. Len(m[x]) : m[x][i] = id)
                    <=> document[id] # Null /\ ContextOf(document, id) = x
                          /\ Placed(document, registered, p, id)
      <4>1. m[x] = members[x]
        BY <3>2, <3>10
      <4>2. id = Top.id => ContextOf(document, id) # x
        BY <3>1, <3>10
      <4> QED
        BY <2>3, <3>5, <3>10, <4>1, <4>2
    <3>11. \A x \in Id : x # c =>
             \A i, j \in 1 .. Len(m[x]) : m[x][i] = m[x][j] => i = j
      BY <3>2, <3>5
    <3>12. MembersSound(document, registered, p, m)
      BY <3>8, <3>9, <3>10, <3>11 DEF MembersSound
    <3> QED
      BY <2>0, <3>12
  <2> QED
    BY <2>5, <2>6
<1> QED
  BY <1>1, <1>5, <1>7, <1>8, IInvProceed

LEMMA IInvUseElement == IInv /\ UseElement => IInv'
<1> SUFFICES ASSUME IInv, UseElement PROVE IInv'
  OBVIOUS
<1>1. /\ phase = "elements" /\ stack # << >> /\ Top.todo # << >> /\ Current.op = "element"
      /\ Answered
  BY DEF UseElement, Working
<1>2. /\ document \in Document /\ NeverFails /\ TypeOK
      /\ members \in [Id -> Seq(Id)]
  BY DEF IInv, TypeOK
<1>3. /\ Top \in Frame /\ FrameSound(document, registered, Top)
      /\ Top.id \in Id /\ Element # Null /\ Element \in SourceElement
      /\ Current = Top.todo[1] /\ Current.id \in Id
  BY <1>1, TopFacts
<1>4. PICK i \in 1 .. Len(Element.elements) : Current.id = Element.elements[i]
  <2> PICK j : j = Len(Goals(Element)) - Len(Top.todo) + 1
    OBVIOUS
  <2>1. j \in 1 .. Len(Goals(Element)) /\ Top.todo[1] = Goals(Element)[j]
    BY <1>1, <1>2, <1>3, FrameFacts DEF Element
  <2>2. Goals(Element)[j].op = "element" =>
          \E n \in 1 .. Len(Element.elements) : Goals(Element)[j].id = Element.elements[n]
    <3>1. Element \in SourceElement
      BY <1>3
    <3>2. \A k \in 1 .. Len(Goals(Element)) : Goals(Element)[k].op = "element" =>
            \E n \in 1 .. Len(Element.elements) : Goals(Element)[k].id = Element.elements[n]
      BY <3>1, GoalAt
    <3> QED
      BY <2>1, <3>2
  <2> QED
    BY <1>1, <1>3, <2>1, <2>2
<1>5. Constructible(document) =>
        Found /\ document[Current.id] # Null /\ document[Current.id].kind = Wanted(Element)
  <2> SUFFICES ASSUME Constructible(document)
               PROVE  Found /\ document[Current.id] # Null
                      /\ document[Current.id].kind = Wanted(Element)
    OBVIOUS
  <2>1. document[Current.id] # Null /\ document[Current.id].kind = Wanted(Element)
    BY <1>3, <1>4 DEF Constructible, Element
  <2>2. ~ null
    BY <1>2 DEF NeverFails
  <2> QED
    BY <1>1, <2>1, <2>2 DEF Answered, Found
<1>6. CASE document[Current.id] = Null /\ Element.kind = "Class" /\ Crash
  BY <1>1, <1>5, <1>6, IInvCrash
<1>7. CASE Found /\ document[Current.id].kind = Wanted(Element) /\ Proceed(<< >>)
           /\ UNCHANGED objects
  <2>1. Answers(document, registered, Top, << >>)
    BY <1>1, <1>3, <1>7 DEF Answers, ElementDone, Found, Element
  <2>2. Constructible(document) => MembersSound(document, registered, stack', members')
    <3> SUFFICES ASSUME Constructible(document)
                 PROVE  MembersSound(document, registered, stack', members')
      OBVIOUS
    <3>1. MembersSound(document, registered, << After(Top, << >>) >> \o Tail(stack), members)
      BY <1>1, <1>3, <2>1, MembersProceed
    <3>2. members' = members /\ stack' = << After(Top, << >>) >> \o Tail(stack)
      BY <1>7 DEF Proceed, After, objects
    <3> QED
      BY <3>1, <3>2
  <2>3. members' \in [Id -> Seq(Id)] /\ UNCHANGED << registered, target, m_GlobalNamespaceId >>
    BY <1>2, <1>7 DEF objects
  <2> QED
    BY <1>1, <1>7, <2>1, <2>2, <2>3, IInvProceed
<1>8. CASE ~ (Found /\ document[Current.id].kind = Wanted(Element)) /\ Fail
  BY <1>1, <1>5, <1>8, IInvFail
<1> QED
  BY <1>6, <1>7, <1>8 DEF UseElement

LEMMA IInvUseType == IInv /\ UseType => IInv'
<1> SUFFICES ASSUME IInv, UseType PROVE IInv'
  OBVIOUS
<1> DEFINE type == IF Found THEN GetTypeFromId(Current) ELSE Null
<1>1. /\ phase = "elements" /\ stack # << >> /\ Top.todo # << >> /\ Current.op = "type"
      /\ Answered
  BY DEF UseType, Working
<1>2. /\ document \in Document /\ NeverFails /\ TypeOK
      /\ members \in [Id -> Seq(Id)]
      /\ RegisteredSound(document, registered, target)
  BY DEF IInv, TypeOK
<1>3. /\ Top \in Frame /\ FrameSound(document, registered, Top)
      /\ Top.id \in Id /\ Element # Null /\ Element \in SourceElement
      /\ Current = Top.todo[1] /\ Current.id \in Id
  BY <1>1, TopFacts
<1>4. PICK n \in 1 .. Len(Element.types) :
        Current.id = Element.types[n].id /\ Current.cv = Element.types[n].cv
  <2> PICK j : j = Len(Goals(Element)) - Len(Top.todo) + 1
    OBVIOUS
  <2>1. j \in 1 .. Len(Goals(Element)) /\ Top.todo[1] = Goals(Element)[j]
    BY <1>1, <1>2, <1>3, FrameFacts DEF Element
  <2> PICK k : k = j - (Len(Goals(Element)) - Len(Element.types))
    OBVIOUS
  <2>2. Goals(Element)[j].op = "type" =>
          /\ k \in 1 .. Len(Element.types)
          /\ Goals(Element)[j].id = Element.types[k].id
          /\ Goals(Element)[j].cv = Element.types[k].cv
    <3>1. Goals(Element)[j].op = "type" =>
            /\ j - (Len(Goals(Element)) - Len(Element.types)) \in 1 .. Len(Element.types)
            /\ Goals(Element)[j].id
                 = Element.types[j - (Len(Goals(Element)) - Len(Element.types))].id
            /\ Goals(Element)[j].cv
                 = Element.types[j - (Len(Goals(Element)) - Len(Element.types))].cv
      <4>1. Element \in SourceElement
        BY <1>3
      <4> QED
        BY <2>1, <4>1, GoalAt
    <3> QED
      BY <3>1
  <2> QED
    BY <1>1, <1>3, <2>1, <2>2
<1>5. ASSUME \/ ~ Found
             \/ Found /\ TypeOf(Current.id) = Null
             \/ Found /\ GetTypeFromId(Current) = Null
      PROVE  ~ Constructible(document)
  <2>1. CASE null
    BY <1>2, <2>1 DEF NeverFails
  <2>2. CASE ~ null
    <3>1. \/ document[Current.id] = Null
          \/ Current.id \in registered /\ TypeOf(Current.id) = Null
          \/ Current.id \in registered /\ GetTypeFromId(Current) = Null
      BY <1>1, <1>5, <2>2 DEF Answered, Found
    <3>2. document[Top.id] # Null /\ Element = document[Top.id]
      BY <1>3 DEF Element
    <3> PICK ref : ref = Current
      OBVIOUS
    <3>3. ref.id = document[Top.id].types[n].id /\ ref.cv = document[Top.id].types[n].cv
      BY <1>4, <3>2
    <3>4. n \in 1 .. Len(document[Top.id].types)
      BY <1>4, <3>2
    <3> QED
      BY <1>2, <1>3, <3>1, <3>2, <3>3, <3>4, TypeNotFound
  <2> QED
    BY <2>1, <2>2
<1>6. CASE Found /\ Current.cv # {} /\ TypeOf(Current.id) = Null /\ Crash
  BY <1>1, <1>5, <1>6, IInvCrash
<1>7. CASE /\ Found /\ Current.cv # {} => TypeOf(Current.id) # Null
           /\ type # Null \/ Element.kind = "ArrayType"
           /\ Proceed(<< type >>) /\ UNCHANGED objects
  <2>1. /\ type \in Type \cup {Null}
        /\ \A i \in 1 .. Len(document[Top.id].types) :
             (/\ document[Top.id].types[i].id = Top.todo[1].id
              /\ document[Top.id].types[i].cv = Top.todo[1].cv)
               => TypeDone(document, registered, document[Top.id], i, type)
    <3>1. CASE type = Null
      <4>1. ~ Constructible(document)
        BY <1>5, <3>1
      <4>2. document[Top.id].kind = "ArrayType"
        BY <1>7, <3>1 DEF Element
      <4>3. \A i : TypeDone(document, registered, document[Top.id], i, type)
        BY <3>1, <4>1, <4>2 DEF TypeDone
      <4> QED
        BY <3>1, <4>3
    <3>2. CASE type # Null
      <4>1. Found /\ type = GetTypeFromId(Current) /\ Current.id \in registered
        BY <3>2 DEF Found
      <4>2. document[Top.id] # Null /\ Element = document[Top.id]
        BY <1>3 DEF Element
      <4>3. Current.cv # {} => TypeOf(Current.id) # Null
        BY <1>7, <4>1
      <4> PICK ref : ref = Current
        OBVIOUS
      <4>4. ref.id \in registered /\ (ref.cv # {} => TypeOf(ref.id) # Null)
            /\ GetTypeFromId(ref) # Null /\ type = GetTypeFromId(ref)
        BY <3>2, <4>1, <4>3
      <4>5. ASSUME NEW i \in 1 .. Len(document[Top.id].types),
                   document[Top.id].types[i].id = ref.id, document[Top.id].types[i].cv = ref.cv
            PROVE  /\ GetTypeFromId(ref) \in Type
                   /\ TypeDone(document, registered, document[Top.id], i, GetTypeFromId(ref))
        BY <1>2, <1>3, <4>2, <4>4, <4>5, TypeFound
      <4>6. type \in Type
        BY <1>4, <4>2, <4>4, <4>5
      <4> HIDE DEF type
      <4> QED
        BY <1>3, <4>4, <4>5, <4>6
    <3> QED
      BY <3>1, <3>2
  <2> HIDE DEF type
  <2>2. Answers(document, registered, Top, << type >>)
    BY <1>1, <1>3, <2>1 DEF Answers
  <2>3. Constructible(document) => MembersSound(document, registered, stack', members')
    <3> SUFFICES ASSUME Constructible(document)
                 PROVE  MembersSound(document, registered, stack', members')
      OBVIOUS
    <3>1. MembersSound(document, registered, << After(Top, << type >>) >> \o Tail(stack), members)
      BY <1>1, <1>3, <2>2, MembersProceed
    <3>2. members' = members /\ stack' = << After(Top, << type >>) >> \o Tail(stack)
      BY <1>7 DEF Proceed, After, objects
    <3> QED
      BY <3>1, <3>2
  <2>4. members' \in [Id -> Seq(Id)] /\ UNCHANGED << registered, target, m_GlobalNamespaceId >>
    BY <1>2, <1>7 DEF objects
  <2> QED
    BY <1>1, <1>7, <2>2, <2>3, <2>4, IInvProceed
<1>8. CASE ~ (type # Null \/ Element.kind = "ArrayType") /\ Fail
  BY <1>1, <1>5, <1>8, IInvFail
<1> QED
  BY <1>6, <1>7, <1>8 DEF UseType

\* A call that has resolved all references of its element has its object ready.
LEMMA FrameFinished ==
  ASSUME NEW d \in Document, NEW r, NEW f \in Frame, FrameSound(d, r, f), f.todo = << >>,
         d[f.id].defect \in {"none", "unfit"}
  PROVE  ObjectSound(d, r, d[f.id], f.types)
<1> PICK e : e = d[f.id]
  OBVIOUS
<1> PICK G : G = Goals(e)
  OBVIOUS
<1>1. e \in SourceElement /\ Len(G) \in Nat /\ Len(e.types) \in Nat
  BY FrameFacts
<1>2. e.defect # "early" /\ e.defect \in {"none", "unfit"}
  OBVIOUS
<1>3. Len(f.todo) = 0
  OBVIOUS
<1>4. /\ \A j \in 1 .. Len(G) - Len(f.todo) : G[j].op = "element" => ElementDone(d, r, e, G[j].id)
      /\ Len(f.types) = IF e.defect = "early" \/ Len(f.todo) >= Len(e.types) THEN 0
                        ELSE Len(e.types) - Len(f.todo)
      /\ \A i \in 1 .. Len(f.types) : TypeDone(d, r, e, i, f.types[i])
  BY DEF FrameSound
<1>5. Len(f.types) = Len(e.types)
  BY <1>1, <1>2, <1>3, <1>4
<1>6. \A i \in 1 .. Len(e.elements) : ElementDone(d, r, e, e.elements[i])
  <2> SUFFICES ASSUME NEW i \in 1 .. Len(e.elements) PROVE ElementDone(d, r, e, e.elements[i])
    OBVIOUS
  <2>1. PICK j \in 1 .. Len(G) : G[j].op = "element" /\ G[j].id = e.elements[i]
    <3>1. e \in SourceElement
      BY <1>1
    <3>2. e.defect # "early" => \A n \in 1 .. Len(e.elements) :
            \E j \in 1 .. Len(Goals(e)) : Goals(e)[j].op = "element" /\ Goals(e)[j].id = e.elements[n]
      BY <3>1, GoalAt
    <3> QED
      BY <1>2, <3>2
  <2>2. j \in 1 .. Len(G) - Len(f.todo)
    BY <1>1, <1>3
  <2>3. ElementDone(d, r, e, G[j].id)
    BY <1>4, <2>1, <2>2
  <2> QED
    BY <2>1, <2>3
<1> QED
  BY <1>2, <1>4, <1>5, <1>6 DEF ObjectSound

LEMMA IInvSetSourceObject == IInv /\ SetSourceObject => IInv'
<1> SUFFICES ASSUME IInv, SetSourceObject PROVE IInv'
  OBVIOUS
<1>1. phase = "elements" /\ stack # << >> /\ Top.todo = << >>
  BY DEF SetSourceObject
<1>2. /\ document \in Document /\ RegisteredSound(document, registered, target)
      /\ AllSound(document, registered, stack) /\ Nested(stack)
      /\ TypeOK /\ NoneForgotten /\ NeverFails /\ stack \in Seq(Frame)
  BY DEF IInv, TypeOK
<1>3. /\ Top \in Frame /\ Top = stack[1] /\ FrameSound(document, registered, Top)
      /\ Top.id \in Id /\ Element # Null /\ Top.id \notin registered
      /\ Element = document[Top.id]
  BY <1>1, TopFacts DEF Element
<1>4. CASE Element.defect \in {"early", "late"} /\ Fail
  <2>1. ~ Constructible(document)
    BY <1>3, <1>4 DEF Constructible
  <2> QED
    BY <1>1, <1>4, <2>1, IInvFail
<1>5. CASE /\ Element.defect \in {"none", "unfit"}
           /\ registered' = registered \cup {Top.id}
           /\ target' = [target EXCEPT ![Top.id] = Top.types]
           /\ m_GlobalNamespaceId' = IF Element.global THEN Top.id ELSE m_GlobalNamespaceId
           /\ stack' = Tail(stack)
           /\ null' = FALSE
           /\ UNCHANGED << document, members, remaining, phase, result >>
  <2> PICK q : q = registered \cup {Top.id}
    OBVIOUS
  <2>1. ~ result
    BY <1>1, <1>2 DEF NoneForgotten
  <2>2. /\ Tail(stack) \in Seq(Frame)
        /\ AllSound(document, q, Tail(stack))
        /\ Nested(Tail(stack))
        /\ \A id : Outermost(stack, id) => IF Tail(stack) = << >> THEN id = Top.id
                                           ELSE Outermost(Tail(stack), id)
        /\ Len(Top.todo) < Len(Goals(document[Top.id])) =>
             \A id : Placed(document, q, Tail(stack), id) <=> Placed(document, registered, stack, id)
        /\ \A id : id # Top.id =>
             (Placed(document, q, Tail(stack), id) <=> Placed(document, registered, stack, id))
    BY <1>1, <1>2, <1>3, Popped
  <2>3. target \in [Id -> Seq(Type \cup {Null})] /\ Top.types \in Seq(Type \cup {Null})
    BY <1>2, <1>3 DEF TypeOK, Frame
  <2>4. /\ target' \in [Id -> Seq(Type \cup {Null})]
        /\ target'[Top.id] = Top.types
        /\ \A id \in Id : id # Top.id => target'[id] = target[id]
    BY <1>3, <1>5, <2>3
  <2>5. registered \subseteq {id \in Id : document[id] # Null}
    BY <1>2 DEF TypeOK
  <2>6. TypeOK'
    <3>1. q \subseteq {id \in Id : document[id] # Null}
      BY <1>3, <2>5
    <3>2. m_GlobalNamespaceId' \in Id \cup {NoId}
      BY <1>2, <1>3, <1>5 DEF TypeOK
    <3> QED
      BY <1>2, <1>5, <2>2, <2>4, <3>1, <3>2 DEF TypeOK
  <2>7. RegisteredSound(document, q, target')
    <3> SUFFICES ASSUME NEW id \in q PROVE ObjectSound(document, q, document[id], target'[id])
      BY DEF RegisteredSound
    <3>0. registered \subseteq q
      OBVIOUS
    <3>1. CASE id = Top.id
      <4>1. ObjectSound(document, registered, document[Top.id], Top.types)
        BY <1>1, <1>2, <1>3, <1>5, FrameFinished
      <4>2. ObjectSound(document, q, document[Top.id], Top.types)
        BY <3>0, <4>1, Monotone
      <4> QED
        BY <2>4, <3>1, <4>2
    <3>2. CASE id # Top.id
      <4>1. id \in registered /\ target'[id] = target[id]
        BY <2>4, <2>5, <3>2
      <4>2. ObjectSound(document, registered, document[id], target[id])
        BY <1>2, <4>1 DEF RegisteredSound
      <4>3. ObjectSound(document, q, document[id], target[id])
        BY <3>0, <4>2, Monotone
      <4> QED
        BY <4>1, <4>3
    <3> QED
      BY <3>1, <3>2
  <2>8. NoneForgotten'
    <3>1. \A x \in remaining' : document'[x] # Null
      BY <1>2, <1>5 DEF NoneForgotten
    <3>2. ASSUME NEW x \in Id, document[x] # Null
          PROVE  x \in q \cup remaining \/ Outermost(stack', x)
      <4>1. x \in registered \cup remaining \/ Outermost(stack, x)
        BY <1>1, <1>2, <3>2 DEF NoneForgotten
      <4> QED
        BY <1>5, <2>2, <4>1
    <3> QED
      BY <1>5, <2>1, <3>1, <3>2 DEF NoneForgotten
  <2>9. Constructible(document) => MembersSound(document, q, Tail(stack), members)
    <3> SUFFICES ASSUME Constructible(document)
                 PROVE  MembersSound(document, q, Tail(stack), members)
      OBVIOUS
    <3>1. MembersSound(document, registered, stack, members)
      BY <1>2 DEF NeverFails
    <3>2. \A id \in Id : document[id] # Null /\ ContextOf(document, id) \in Id =>
            (Placed(document, q, Tail(stack), id) <=> Placed(document, registered, stack, id))
      <4> SUFFICES ASSUME NEW id \in Id, ContextOf(document, id) \in Id, id = Top.id
                   PROVE  (Placed(document, q, Tail(stack), id)
                             <=> Placed(document, registered, stack, id))
        BY <2>2
      <4>1. document[Top.id].context # NoId
        BY InContext
      <4>2. document[Top.id].defect # "early"
        BY <1>3, <1>5
      <4>3. Len(Top.todo) < Len(Goals(document[Top.id]))
        BY <1>1, <1>2, <1>3, <4>1, <4>2, ContextFirst
      <4> QED
        BY <2>2, <4>3
    <3> QED
      BY <3>1, <3>2, MembersSame
  <2>10. NeverFails'
    <3> SUFFICES ASSUME Constructible(document)
                 PROVE  /\ ~ null' /\ phase' # "crashed" /\ (phase' = "done" => result')
                        /\ MembersSound(document', registered', stack', members')
      BY <1>5 DEF NeverFails
    <3>1. MembersSound(document', registered', stack', members')
      BY <1>5, <2>9
    <3> QED
      BY <1>1, <1>5, <3>1
  <2> QED
    BY <1>2, <1>5, <2>2, <2>6, <2>7, <2>8, <2>10 DEF IInv
<1> QED
  BY <1>4, <1>5 DEF SetSourceObject

\* In a sound document every type object can be created.
LEMMA AllCreated ==
  ASSUME IInv, Constructible(document)
  PROVE  CreateCxxTypes
<1> SUFFICES ASSUME NEW id \in registered
             PROVE  /\ document[id].defect # "unfit"
                    /\ \A i \in 1 .. Len(target[id]) : target[id][i] # Null
  BY DEF CreateCxxTypes
<1>1. id \in Id /\ document[id] # Null
  BY DEF IInv, TypeOK
<1>2. ObjectSound(document, registered, document[id], target[id])
  BY DEF IInv, RegisteredSound
<1>3. \A i \in 1 .. Len(target[id]) : TypeDone(document, registered, document[id], i, target[id][i])
  BY <1>2 DEF ObjectSound
<1>4. document[id].defect = "none"
  BY <1>1 DEF Constructible
<1>5. \A i \in 1 .. Len(target[id]) : target[id][i] # Null
  BY <1>3 DEF TypeDone
<1> QED
  BY <1>4, <1>5

LEMMA IInvEndElements == IInv /\ EndElements => IInv'
<1> SUFFICES ASSUME IInv, EndElements PROVE IInv'
  OBVIOUS
<1>1. /\ phase = "elements" /\ stack = << >> /\ phase' = "done"
      /\ \/ null /\ result' = FALSE
         \/ ~ null /\ remaining = {} /\ result' = CreateCxxTypes
      /\ document' = document /\ registered' = registered /\ target' = target
      /\ members' = members /\ m_GlobalNamespaceId' = m_GlobalNamespaceId
      /\ stack' = stack /\ null' = null /\ remaining' = remaining
  BY DEF EndElements, objects
<1>2. /\ document \in Document /\ RegisteredSound(document, registered, target)
      /\ AllSound(document, registered, stack) /\ Nested(stack)
      /\ TypeOK /\ NoneForgotten /\ NeverFails
  BY DEF IInv
<1>3. CreateCxxTypes' <=> CreateCxxTypes
  BY <1>1 DEF CreateCxxTypes
<1>4. result' \in BOOLEAN
  BY <1>1 DEF CreateCxxTypes
<1>5. TypeOK'
  BY <1>1, <1>2, <1>4 DEF TypeOK
<1>6. NoneForgotten'
  <2>1. \A x \in remaining' : document'[x] # Null
    BY <1>1, <1>2 DEF NoneForgotten
  <2>2. ~ null => \A x \in Id : document[x] # Null => x \in registered \cup remaining
    BY <1>1, <1>2 DEF NoneForgotten, Outermost
  <2>3. result' => CreateCxxTypes /\ \A x \in Id : document[x] # Null => x \in registered
    BY <1>1, <2>2
  <2> QED
    BY <1>1, <1>3, <2>1, <2>3 DEF NoneForgotten
<1>7. NeverFails'
  <2> SUFFICES ASSUME Constructible(document)
               PROVE  /\ ~ null' /\ phase' # "crashed" /\ (phase' = "done" => result')
                      /\ MembersSound(document', registered', stack', members')
    BY <1>1 DEF NeverFails
  <2>1. ~ null /\ MembersSound(document, registered, stack, members)
    BY <1>2 DEF NeverFails
  <2>2. CreateCxxTypes
    BY AllCreated
  <2>3. result'
    BY <1>1, <2>1, <2>2
  <2>4. MembersSound(document', registered', stack', members')
    BY <1>1, <2>1
  <2> QED
    BY <1>1, <2>1, <2>3, <2>4
<1> QED
  BY <1>1, <1>2, <1>5, <1>6, <1>7 DEF IInv

LEMMA IInvUnchanged == IInv /\ UNCHANGED vars => IInv'
BY DEF vars, objects, IInv, TypeOK, NoneForgotten, NeverFails, CreateCxxTypes

LEMMA IInvNext == IInv /\ [Next]_vars => IInv'
<1> SUFFICES ASSUME IInv, [Next]_vars PROVE IInv'
  OBVIOUS
<1>1. CASE \E id \in Id : AddElement(id)
  BY <1>1, IInvAddElement
<1>2. CASE AddElementRepresentation
  BY <1>2, IInvAddElementRepresentation
<1>3. CASE SetContext
  BY <1>3, IInvSetContext
<1>4. CASE UseElement
  BY <1>4, IInvUseElement
<1>5. CASE UseType
  BY <1>5, IInvUseType
<1>6. CASE SetSourceObject
  BY <1>6, IInvSetSourceObject
<1>7. CASE EndElements
  BY <1>7, IInvEndElements
<1>8. CASE Done \/ UNCHANGED vars
  BY <1>8, IInvUnchanged DEF Done
<1> QED
  BY <1>1, <1>2, <1>3, <1>4, <1>5, <1>6, <1>7, <1>8 DEF Next

-----------------------------------------------------------------------------
(* The theorems. *)

\* Whatever order the elements are constructed in, what is registered and what the
\* active calls have resolved so far is what the document means.
THEOREM InvariantHolds == Spec => []IInv
<1>1. Init => IInv
  BY IInvInit
<1>2. IInv /\ [Next]_vars => IInv'
  BY IInvNext
<1> QED
  BY <1>1, <1>2, PTL DEF Spec

\* Every variable has its type.
THEOREM TypeCorrect == Spec => []TypeOK
<1>1. IInv => TypeOK
  BY DEF IInv
<1> QED
  BY <1>1, InvariantHolds, PTL

\* ConstructSourceRepresentation returns a representation exactly for the documents
\* in which every element and all it refers to is sound, in whatever order the ids
\* make it construct them.
THEOREM ResultIsExact == Spec => []ResultExact
<1>1. IInv => ResultExact
  <2> SUFFICES ASSUME IInv, phase \in {"done", "crashed"}
               PROVE  result <=> Constructible(document)
    BY DEF ResultExact
  <2>1. ASSUME Constructible(document) PROVE result
    BY <2>1 DEF IInv, NeverFails
  <2>2. ASSUME result PROVE Constructible(document)
    <3>1. /\ CreateCxxTypes
          /\ \A id \in Id : document[id] # Null => id \in registered
          /\ registered \subseteq {id \in Id : document[id] # Null}
          /\ document \in Document
      BY <2>2 DEF IInv, NoneForgotten, TypeOK
    <3>2. ASSUME NEW id \in Id, document[id] # Null
          PROVE  /\ document[id].defect = "none"
                 /\ \A i \in 1 .. Len(document[id].elements) :
                      /\ document[document[id].elements[i]] # Null
                      /\ document[document[id].elements[i]].kind = Wanted(document[id])
                 /\ \A i \in 1 .. Len(document[id].types) :
                      /\ Meaning(document)[document[id].types[i].id] # Null
                      /\ document[id].types[i].cv # {} =>
                           document[Meaning(document)[document[id].types[i].id].of].kind
                             \notin Unqualifiable
      <4>1. id \in registered /\ ObjectSound(document, registered, document[id], target[id])
        BY <3>1, <3>2 DEF IInv, RegisteredSound
      <4>2. document[id].defect = "none"
        BY <3>1, <4>1 DEF CreateCxxTypes, ObjectSound
      <4>3. \A i \in 1 .. Len(document[id].elements) :
              /\ document[document[id].elements[i]] # Null
              /\ document[document[id].elements[i]].kind = Wanted(document[id])
        BY <3>1, <4>1 DEF ObjectSound, ElementDone
      <4>4. ASSUME NEW i \in 1 .. Len(document[id].types)
            PROVE  /\ Meaning(document)[document[id].types[i].id] # Null
                   /\ document[id].types[i].cv # {} =>
                        document[Meaning(document)[document[id].types[i].id].of].kind
                          \notin Unqualifiable
        <5>1. i \in 1 .. Len(target[id])
          BY <4>1 DEF ObjectSound
        <5>2. target[id][i] # Null
          BY <3>1, <4>1, <5>1 DEF CreateCxxTypes
        <5>3. TypeDone(document, registered, document[id], i, target[id][i])
          BY <4>1, <5>1 DEF ObjectSound
        <5> QED
          BY <5>2, <5>3 DEF TypeDone
      <4> QED
        BY <4>2, <4>3, <4>4
    <3> QED
      BY <3>2 DEF Constructible
  <2> QED
    BY <2>1, <2>2 DEF IInv, TypeOK
<1> QED
  BY <1>1, InvariantHolds, PTL

\* A registered object refers, by its elements and types, only to registered ones in
\* every state of the construction, failures included.  The member maps, which
\* SetupNamed fills before an element is finished, hold an unregistered object only
\* during its call or in a document with a broken element, and never in a
\* representation.
THEOREM HalfBuiltIsConfined == Spec => []HalfBuiltConfined
<1>1. ASSUME IInv, NEW id \in registered
      PROVE  /\ \A i \in 1 .. Len(document[id].elements) :
                  document[id].elements[i] \in registered
             /\ Len(target[id]) = Len(document[id].types)
             /\ \A i \in 1 .. Len(target[id]) : target[id][i] # Null =>
                  target[id][i].of \in registered /\ document[id].types[i].id \in registered
  <2>1. ObjectSound(document, registered, document[id], target[id])
    BY <1>1 DEF IInv, RegisteredSound
  <2> QED
    BY <2>1 DEF ObjectSound, ElementDone, TypeDone
<1>2. ASSUME IInv, ResultExact, NEW c \in Id, NEW i \in 1 .. Len(members[c]),
             members[c][i] \notin registered
      PROVE  /\ ~ result
             /\ \/ \E k \in 1 .. Len(stack) : stack[k].id = members[c][i]
                \/ ~ Constructible(document)
  <2>1. members[c][i] \in Id
    BY <1>2, LenZero DEF IInv, TypeOK
  <2>2. result => Constructible(document)
    BY <1>2 DEF IInv, NoneForgotten, ResultExact
  <2>3. ASSUME Constructible(document)
        PROVE  /\ document[members[c][i]] # Null
               /\ Placed(document, registered, stack, members[c][i])
    <3>1. MembersSound(document, registered, stack, members)
      BY <1>2, <2>3 DEF IInv, NeverFails
    <3> QED
      BY <1>2, <2>1, <3>1 DEF MembersSound
  <2>4. ~ result
    BY <1>2, <2>1, <2>2, <2>3 DEF IInv, NoneForgotten
  <2> QED
    BY <1>2, <2>3, <2>4 DEF Placed
<1>3. IInv /\ ResultExact => HalfBuiltConfined
  BY <1>1, <1>2 DEF HalfBuiltConfined
<1> QED
  BY <1>3, InvariantHolds, ResultIsExact, PTL

\* In a representation that is returned SetupNamed has given each object to its
\* context exactly once, through an alias to the namespace, and to no other.
THEOREM MembersAreExact == Spec => []MembersExact
<1>1. IInv /\ ResultExact => MembersExact
  <2> SUFFICES ASSUME IInv, ResultExact, result, NEW c \in Id, NEW id \in Id
               PROVE  Cardinality({i \in 1 .. Len(members[c]) : members[c][i] = id})
                        = IF document[id] # Null /\ ContextOf(document, id) = c THEN 1 ELSE 0
    BY DEF MembersExact
  <2>1. /\ phase = "done"
        /\ document[id] # Null => id \in registered
    BY DEF IInv, NoneForgotten
  <2>2. MembersSound(document, registered, stack, members)
    BY <2>1 DEF IInv, NeverFails, ResultExact
  <2>3. /\ \A i, j \in 1 .. Len(members[c]) : members[c][i] = members[c][j] => i = j
        /\ (\E i \in 1 .. Len(members[c]) : members[c][i] = id)
             <=> document[id] # Null /\ ContextOf(document, id) = c
    BY <2>1, <2>2 DEF MembersSound, Placed
  <2> DEFINE I == {i \in 1 .. Len(members[c]) : members[c][i] = id}
  <2>4. CASE document[id] # Null /\ ContextOf(document, id) = c
    <3>1. PICK k \in 1 .. Len(members[c]) : members[c][k] = id
      BY <2>3, <2>4
    <3>2. I = {k}
      BY <2>3, <3>1
    <3>3. Cardinality({k}) = 1
      BY FS_Singleton
    <3> QED
      BY <2>4, <3>2, <3>3
  <2>5. CASE ~ (document[id] # Null /\ ContextOf(document, id) = c)
    <3>1. I = {}
      BY <2>3, <2>5
    <3>2. Cardinality({}) = 0
      BY FS_EmptySet
    <3> QED
      BY <2>5, <3>1, <3>2
  <2> QED
    BY <2>4, <2>5
<1> QED
  BY <1>1, InvariantHolds, ResultIsExact, PTL

\* In a representation that is returned each object has the types its document
\* means, as long as no typedef of a qualified type is qualified by something else:
\* what GetTypeFromId has found along the typedefs then is all that they say.
THEOREM TypesAreExact == Spec => []TypesExact
<1>1. IInv => TypesExact
  <2> SUFFICES ASSUME IInv, QualifiersPlain(document), result, NEW id \in registered,
                      NEW i \in 1 .. Len(target[id])
               PROVE  target[id][i] = [Meaning(document)[document[id].types[i].id]
                                         EXCEPT !.cv = @ \cup document[id].types[i].cv]
    BY DEF TypesExact, TypesFaithful
  <2>1. CreateCxxTypes /\ ObjectSound(document, registered, document[id], target[id])
    BY DEF IInv, NoneForgotten, RegisteredSound
  <2>2. target[id][i] # Null
    BY <2>1 DEF CreateCxxTypes
  <2>3. TypeDone(document, registered, document[id], i, target[id][i])
    BY <2>1 DEF ObjectSound
  <2> QED
    BY <2>2, <2>3, Zenon DEF TypeDone
<1> QED
  BY <1>1, InvariantHolds, PTL

-----------------------------------------------------------------------------
(* The recursion ends. *)

Smaller(S, T) == S \subseteq T /\ S # T

Less(m, n) == m \in Nat /\ n \in Nat /\ m < n

\* The top call has the answer to its current reference.
HasAnswer == stack # << >> /\ Top.todo # << >> /\ Answered

\* What is left to do for the k-th call of s from the outside: a reference is first
\* looked at, then waits for the calls inside it, and then is answered.
Weight(s, k, answered) ==
  3 * Len(s[Len(s) + 1 - k].todo)
    - (IF k < Len(s) THEN 1 ELSE IF answered THEN 2 ELSE 0)

\* A call gets on, whatever happens to those inside it, and those outside it stay as
\* they are; or the outermost call returns.
StackDescends ==
  \/ stack # << >> /\ stack' = << >>
  \/ \E k \in 1 .. Len(stack) :
       /\ k <= Len(stack')
       /\ Less(Weight(stack', k, HasAnswer'), Weight(stack, k, HasAnswer))
       /\ \A j \in 1 .. k - 1 : Weight(stack', j, HasAnswer') = Weight(stack, j, HasAnswer)

Descends ==
  \/ phase = "elements" /\ phase' # "elements"
  \/ UNCHANGED phase /\ Smaller(remaining', remaining)
  \/ UNCHANGED << phase, remaining >> /\ StackDescends

\* No element is constructed while it is being constructed.
NoCallTwice == \A i, j \in 1 .. Len(stack) : stack[i].id = stack[j].id => i = j


\* A call is made for the current reference: the call outside it waits.
LEMMA PushDescends ==
  ASSUME IInv, stack # << >>, Top.todo # << >>, ~ Answered,
         NEW f \in Frame, stack' = << f >> \o stack
  PROVE  StackDescends
<1> DEFINE n == Len(stack)
           m == Len(Top.todo)
<1>1. stack \in Seq(Frame) /\ Top = stack[1] /\ Top.todo \in Seq(Goal)
  BY TopFacts DEF IInv, TypeOK, Frame
<1>2. n \in Nat \ {0} /\ m \in Nat \ {0}
  BY <1>1, LenZero
<1>3. /\ Len(stack') = n + 1
      /\ \A i \in 2 .. n + 1 : stack'[i] = stack[i - 1]
  <2> HIDE DEF n
  <2> QED
    BY <1>1, PushFacts DEF n
<1>4. ~ HasAnswer
  BY DEF HasAnswer
<1> HIDE DEF n
<1>5. \A j \in 1 .. n : n + 1 + 1 - j \in 2 .. n + 1 /\ n + 1 + 1 - j - 1 = n + 1 - j /\ j < n + 1
  BY <1>2
<1>6. \A j \in 1 .. n : stack'[Len(stack') + 1 - j] = stack[n + 1 - j]
  BY <1>3, <1>5
<1>7. \A j \in 1 .. n : Weight(stack', j, HasAnswer') = 3 * Len(stack[n + 1 - j].todo) - 1
  BY <1>3, <1>5, <1>6 DEF Weight
<1>8. \A j \in 1 .. n - 1 : Weight(stack, j, HasAnswer) = 3 * Len(stack[n + 1 - j].todo) - 1
  <2> TAKE j \in 1 .. n - 1
  <2>1. j < n
    BY <1>2
  <2> QED
    BY <2>1 DEF Weight, n
<1>9. Weight(stack, n, HasAnswer) = 3 * m /\ Weight(stack', n, HasAnswer') = 3 * m - 1
  <2>1. n + 1 - n = 1 /\ n \in 1 .. n /\ ~ (n < n)
    BY <1>2
  <2>2. Weight(stack, n, HasAnswer) = 3 * m - 0
    BY <1>1, <1>4, <2>1 DEF Weight, n
  <2>3. Weight(stack', n, HasAnswer') = 3 * m - 1
    BY <1>1, <1>7, <2>1
  <2> HIDE DEF m
  <2> QED
    BY <1>2, <2>2, <2>3
<1>10. Less(Weight(stack', n, HasAnswer'), Weight(stack, n, HasAnswer))
  <2> HIDE DEF m
  <2> QED
    BY <1>2, <1>9 DEF Less
<1>11. \A j \in 1 .. n - 1 : Weight(stack', j, HasAnswer') = Weight(stack, j, HasAnswer)
  <2> TAKE j \in 1 .. n - 1
  <2>1. j \in 1 .. n
    BY <1>2
  <2>2. Weight(stack', j, HasAnswer') = 3 * Len(stack[n + 1 - j].todo) - 1
    BY <1>7, <2>1
  <2>3. Weight(stack, j, HasAnswer) = 3 * Len(stack[n + 1 - j].todo) - 1
    BY <1>8
  <2> QED
    BY ONLY <2>2, <2>3
<1>12. n \in 1 .. Len(stack) /\ n <= Len(stack')
  BY <1>2, <1>3 DEF n
<1> QED
  BY <1>10, <1>11, <1>12 DEF StackDescends

\* The current reference is answered.
LEMMA ReplaceDescends ==
  ASSUME IInv, stack # << >>, Top.todo # << >>, Answered,
         NEW f, f.todo = Tail(Top.todo), stack' = << f >> \o Tail(stack), f \in Frame
  PROVE  StackDescends
<1> DEFINE n == Len(stack)
           m == Len(Top.todo)
<1>1. stack \in Seq(Frame) /\ Top = stack[1] /\ Top.todo \in Seq(Goal)
  BY TopFacts DEF IInv, TypeOK, Frame
<1>2. /\ n \in Nat \ {0} /\ Tail(stack) \in Seq(Frame) /\ Len(Tail(stack)) = n - 1
      /\ \A i \in 1 .. n - 1 : Tail(stack)[i] = stack[i + 1]
  BY <1>1, TailFacts
<1>3. m \in Nat \ {0} /\ Len(f.todo) = m - 1
  BY <1>1, TailFacts
<1>4. /\ Len(stack') = n - 1 + 1
      /\ stack'[1] = f
      /\ \A i \in 2 .. n - 1 + 1 : stack'[i] = Tail(stack)[i - 1]
  <2> HIDE DEF n
  <2>1. Len(Tail(stack)) = n - 1
    BY <1>2
  <2> QED
    BY ONLY <1>2, <2>1, PushFacts, f \in Frame, stack' = << f >> \o Tail(stack)
<1>5. HasAnswer
  BY DEF HasAnswer
<1> HIDE DEF n
<1>6. Len(stack') = n /\ \A i \in 2 .. n : stack'[i] = stack[i]
  <2>1. \A i \in 2 .. n : i \in 2 .. n - 1 + 1 /\ i - 1 \in 1 .. n - 1 /\ i - 1 + 1 = i
    BY <1>2
  <2> QED
    BY <1>2, <1>4, <2>1
<1>7. \A j \in 1 .. n - 1 : Weight(stack', j, HasAnswer') = Weight(stack, j, HasAnswer)
  <2> TAKE j \in 1 .. n - 1
  <2>1. n + 1 - j \in 2 .. n /\ j < n
    BY <1>2
  <2>2. stack'[n + 1 - j] = stack[n + 1 - j]
    BY <1>6, <2>1
  <2> QED
    BY <1>6, <2>1, <2>2 DEF Weight, n
<1>8. Weight(stack, n, HasAnswer) = 3 * m - 2
  <2>1. n + 1 - n = 1 /\ ~ (n < n)
    BY <1>2
  <2> QED
    BY <1>1, <1>5, <2>1 DEF Weight, n
<1>9. Weight(stack', n, HasAnswer') = 3 * (m - 1) - (IF HasAnswer' THEN 2 ELSE 0)
  <2>1. n + 1 - n = 1 /\ ~ (n < n)
    BY <1>2
  <2> QED
    BY <1>3, <1>4, <1>6, <2>1 DEF Weight
<1>10. HasAnswer' => m - 1 # 0
  <2>1. ASSUME HasAnswer' PROVE f.todo # << >>
    <3>1. stack' # << >> => Top' = stack'[1]
      BY <1>6, <1>2 DEF Top
    <3> QED
      BY <2>1, <3>1, <1>4 DEF HasAnswer
  <2>2. f.todo \in Seq(Goal)
    BY DEF Frame
  <2> QED
    BY <1>3, <2>1, <2>2, LenZero
<1>11. Less(Weight(stack', n, HasAnswer'), Weight(stack, n, HasAnswer))
  <2> HIDE DEF m
  <2> QED
    BY <1>3, <1>8, <1>9, <1>10 DEF Less
<1>12. n \in 1 .. Len(stack) /\ n <= Len(stack')
  BY <1>2, <1>6 DEF n
<1> QED
  BY <1>7, <1>11, <1>12 DEF StackDescends

\* A call returns, and has answered the one outside it.
LEMMA PopDescends ==
  ASSUME IInv, stack # << >>, stack' = Tail(stack), document' = document,
         null' \/ Top.id \in registered'
  PROVE  StackDescends
<1> DEFINE n == Len(stack)
<1>1. stack \in Seq(Frame) /\ Top = stack[1]
  BY TopFacts DEF IInv, TypeOK
<1>2. /\ n \in Nat \ {0} /\ Tail(stack) \in Seq(Frame) /\ Len(Tail(stack)) = n - 1
      /\ \A i \in 1 .. n - 1 : Tail(stack)[i] = stack[i + 1]
  BY <1>1, TailFacts
<1>3. CASE stack' = << >>
  BY <1>3 DEF StackDescends
<1>4. CASE stack' # << >>
  <2> DEFINE m == Len(stack[2].todo)
  <2>1. n - 1 \in Nat \ {0}
    <3>1. Len(Tail(stack)) # 0
      BY <1>2, <1>4, LenZero
    <3> QED
      BY <1>2, <3>1
  <2>2. 2 \in 1 .. n /\ 2 \in 2 .. n /\ 1 \in 1 .. n - 1
    BY <1>2, <2>1
  <2>3. /\ stack[2].todo # << >> /\ stack[2].todo[1].id = Top.id
        /\ stack[2].todo \in Seq(Goal)
    <3>1. Nested(stack)
      BY DEF IInv
    <3>2. stack[2] \in Frame
      BY <1>1, <2>2, LenZero
    <3> QED
      BY <1>1, <2>2, <3>1, <3>2 DEF Nested, Frame
  <2>4. m \in Nat \ {0} /\ Head(stack[2].todo) = stack[2].todo[1]
    BY <2>3, TailFacts
  <2>5. stack'[1] = stack[2] /\ Top' = stack[2]
    <3>1. 1 + 1 = 2
      OBVIOUS
    <3>2. stack'[1] = stack[2]
      BY <1>2, <2>2, <3>1
    <3>3. Top' = stack'[1]
      BY <1>2, <1>4, TailFacts DEF Top
    <3> QED
      BY <3>2, <3>3
  <2>6. HasAnswer'
    <3>1. Top'.todo # << >> /\ Current' = Head(stack[2].todo)
      BY <2>3, <2>5 DEF Current
    <3>2. Current'.id = Top.id
      BY <3>1, <2>3, <2>4
    <3>3. Answered'
      BY <3>2 DEF Answered
    <3> QED
      BY <1>4, <3>1, <3>3 DEF HasAnswer
  <2> HIDE DEF n, m
  <2>7. \A j \in 1 .. n - 1 : stack'[n - 1 + 1 - j] = stack[n + 1 - j]
    <3> TAKE j \in 1 .. n - 1
    <3>1. n - 1 + 1 - j \in 1 .. n - 1 /\ n - 1 + 1 - j + 1 = n + 1 - j
      BY <1>2
    <3> QED
      BY <1>2, <3>1
  <2>8. \A j \in 1 .. n - 1 - 1 : Weight(stack', j, HasAnswer') = Weight(stack, j, HasAnswer)
    <3> TAKE j \in 1 .. n - 1 - 1
    <3>1. j \in 1 .. n - 1 /\ j < n - 1 /\ j < n
      BY <1>2
    <3> QED
      BY <1>2, <2>7, <3>1 DEF Weight, n
  <2>9. Weight(stack, n - 1, HasAnswer) = 3 * m - 1
    <3>1. n + 1 - (n - 1) = 2 /\ n - 1 < n
      BY <1>2
    <3> QED
      BY <3>1 DEF Weight, n, m
  <2>10. Weight(stack', n - 1, HasAnswer') = 3 * m - 2
    <3>1. n - 1 + 1 - (n - 1) = 1 /\ ~ (n - 1 < n - 1)
      BY <1>2
    <3> QED
      BY <1>2, <2>5, <2>6, <3>1 DEF Weight, m
  <2>11. Less(Weight(stack', n - 1, HasAnswer'), Weight(stack, n - 1, HasAnswer))
    BY <2>4, <2>9, <2>10 DEF Less
  <2>12. n - 1 \in 1 .. Len(stack) /\ n - 1 <= Len(stack')
    BY <1>2, <2>1 DEF n
  <2> QED
    BY <2>8, <2>11, <2>12 DEF StackDescends
<1> QED
  BY <1>3, <1>4

LEMMA FailDescends ==
  ASSUME IInv, phase = "elements", stack # << >>, Fail
  PROVE  Descends
<1>1. CASE Crash
  BY <1>1 DEF Crash, Descends
<1>2. CASE ~ Crash
  <2>1. /\ stack' = Tail(stack) /\ null' = TRUE /\ document' = document
        /\ phase' = phase /\ remaining' = remaining
    BY <1>2 DEF Fail
  <2>2. StackDescends
    BY <2>1, PopDescends
  <2> QED
    BY <2>1, <2>2 DEF Descends
<1> QED
  BY <1>1, <1>2

LEMMA ProceedDescends ==
  ASSUME IInv, IInv', stack # << >>, Top.todo # << >>, Answered, NEW types, Proceed(types)
  PROVE  Descends
<1> DEFINE f == [Top EXCEPT !.todo = Tail(@), !.types = @ \o types]
<1>1. /\ stack' = << f >> \o Tail(stack)
      /\ phase' = phase /\ remaining' = remaining
  BY DEF Proceed
<1>2. Top \in Frame /\ stack \in Seq(Frame) /\ stack' \in Seq(Frame)
  BY TopFacts DEF IInv, TypeOK
<1>3. f.todo = Tail(Top.todo)
  BY <1>2 DEF Frame
<1>4. f \in Frame
  <2> HIDE DEF f
  <2>1. Tail(stack) \in Seq(Frame)
    BY <1>2, TailFacts
  <2>2. Len(stack') \in Nat /\ stack'[1] = f /\ 1 \in 1 .. Len(stack')
    BY <1>1, <2>1
  <2> QED
    BY <1>2, <2>2, LenZero
<1>5. StackDescends
  <2> HIDE DEF f
  <2> QED
    BY <1>1, <1>3, <1>4, ReplaceDescends
<1> QED
  BY <1>1, <1>5 DEF Descends

LEMMA DescendsNext == IInv /\ [Next]_vars => [Descends]_vars
<1> SUFFICES ASSUME IInv, Next PROVE Descends \/ UNCHANGED vars
  OBVIOUS
<1>0. IInv'
  BY IInvNext
<1>1. ASSUME NEW id \in Id, AddElement(id) PROVE Descends
  <2>1. Smaller(remaining', remaining) /\ phase' = phase
    BY <1>1 DEF AddElement, Smaller
  <2> QED
    BY <2>1 DEF Descends
<1>2. CASE AddElementRepresentation
  <2>1. /\ stack # << >> /\ Top.todo # << >> /\ ~ Answered
        /\ stack' = << Enter(Current.id) >> \o stack
        /\ phase' = phase /\ remaining' = remaining
    BY <1>2 DEF AddElementRepresentation
  <2>2. Enter(Current.id) \in Frame
    <3>1. /\ document \in Document /\ Current.id \in Id /\ document[Current.id] # Null
          /\ Current.id \notin registered
      BY <2>1, TopFacts DEF IInv, Answered
    <3> QED
      BY <3>1, EnterFacts
  <2>3. StackDescends
    BY <2>1, <2>2, PushDescends
  <2> QED
    BY <2>1, <2>3 DEF Descends
<1>3. CASE SetContext
  <2>1. stack # << >> /\ Top.todo # << >> /\ Answered /\ Proceed(<< >>)
    BY <1>3 DEF SetContext, Working
  <2> QED
    BY <1>0, <2>1, ProceedDescends
<1>4. CASE UseElement
  <2>1. phase = "elements" /\ stack # << >> /\ Top.todo # << >> /\ Answered
    BY <1>4 DEF UseElement, Working
  <2>2. Crash \/ Proceed(<< >>) \/ Fail
    BY <1>4 DEF UseElement
  <2>3. CASE Crash
    BY <2>1, <2>3 DEF Crash, Descends
  <2> QED
    BY <1>0, <2>1, <2>2, <2>3, ProceedDescends, FailDescends
<1>5. CASE UseType
  <2>1. phase = "elements" /\ stack # << >> /\ Top.todo # << >> /\ Answered
    BY <1>5 DEF UseType, Working
  <2>2. Crash \/ (\E type : Proceed(<< type >>)) \/ Fail
    BY <1>5, Zenon DEF UseType
  <2>3. CASE Crash
    BY <2>1, <2>3 DEF Crash, Descends
  <2> QED
    BY <1>0, <2>1, <2>2, <2>3, ProceedDescends, FailDescends
<1>6. CASE SetSourceObject
  <2>1. phase = "elements" /\ stack # << >>
    BY <1>6 DEF SetSourceObject
  <2>2. CASE Fail
    BY <2>1, <2>2, FailDescends
  <2>3. CASE ~ Fail
    <3>1. /\ registered' = registered \cup {Top.id} /\ stack' = Tail(stack)
          /\ document' = document /\ phase' = phase /\ remaining' = remaining
      BY <1>6, <2>3 DEF SetSourceObject
    <3>2. StackDescends
      BY <2>1, <3>1, PopDescends
    <3> QED
      BY <3>1, <3>2 DEF Descends
  <2> QED
    BY <2>2, <2>3
<1>7. CASE EndElements
  BY <1>7 DEF EndElements, Descends
<1>8. CASE Done
  BY <1>8 DEF Done
<1> QED
  BY <1>1, <1>2, <1>3, <1>4, <1>5, <1>6, <1>7, <1>8 DEF Next

\* AddElementRepresentation never gets to an element that it is in the course of
\* constructing, whichever element the main loop began with: its recursion is no
\* deeper than there are elements.
THEOREM NeverReentered == Spec => []NoCallTwice
<1>1. IInv => NoCallTwice
  BY DEF IInv, Nested, NoCallTwice
<1> QED
  BY <1>1, InvariantHolds, PTL

\* For every acyclic document and every order of the main loop, also when elements
\* fail and are tried again for each reference to them: with finitely many elements
\* ConstructSourceRepresentation has finitely many steps.
THEOREM ConstructionDescends == Spec => [][Descends]_vars
<1>1. IInv /\ [Next]_vars => [Descends]_vars
  BY DescendsNext
<1> QED
  BY <1>1, InvariantHolds, PTL DEF Spec
=============================================================================
