------------------------ MODULE TypeSystemProofs ------------------------
(***************************************************************************)
(* Proofs that TypeSystem keeps the invariant IInv, and with it that its   *)
(* variables have their types, that a C++ type has one object, that        *)
(* merging classes of one name leaves the longest of their parent lists,   *)
(* and that the rules of Conversions are exact, for every source           *)
(* representation that the parser can make: where the recursion of         *)
(* IsSubclassOf ends, what depends on it.                                  *)
(*                                                                         *)
(* A key is a term over references to older objects, so that each object   *)
(* stands for a type (Stands).  Two keys that stand for the same type are  *)
(* equal (TypeOfKeyInjective), and the key that a cable type requests      *)
(* stands for what the cable type denotes (KeyMeant), so that a new object *)
(* keeps objects and types one to one.                                     *)
(*                                                                         *)
(* Objects refer to older ones, and where no class is its own ancestor     *)
(* parents have fewer superclasses, so that the loops and recursions of    *)
(* Conversions are followed by induction, each of them against what it     *)
(* should compute (ConvertsUnfold, SubclassExact, SearchExact).            *)
(***************************************************************************)
EXTENDS Conversions, SequenceTheorems, FiniteSetTheorems, WellFoundedInduction, TLAPS

-----------------------------------------------------------------------------
(* Numbers and sequences. *)

\* Of a set of numbers there is a smallest one.
LEMMA SmallestOf ==
  ASSUME NEW T, T \subseteq Nat, T # {}
  PROVE  \E n \in T : \A m \in T : n <= m
<1>1. \E n \in T : \A m \in T : << m, n >> \notin OpToRel(<, Nat)
  BY NatLessThanWellFounded, WFMin
<1>2. \A m, n \in Nat : m < n => << m, n >> \in OpToRel(<, Nat)
  BY DEF OpToRel
<1>3. \E n \in T : \A m \in T : ~ (m < n)
  BY <1>1, <1>2, Zenon
<1> QED
  BY <1>3

LEMMA LenZero ==
  ASSUME NEW T, NEW s \in Seq(T)
  PROVE  /\ Len(s) \in Nat
         /\ Len(s) = 0 <=> s = << >>
         /\ DOMAIN s = 1 .. Len(s)
         /\ \A i \in 1 .. Len(s) : s[i] \in T
BY LenProperties, EmptySeq

LEMMA TailFacts ==
  ASSUME NEW T, NEW s \in Seq(T), s # << >>
  PROVE  /\ Head(s) \in T
         /\ Head(s) = s[1]
         /\ Tail(s) \in Seq(T)
         /\ Len(s) \in Nat \ {0}
         /\ Len(Tail(s)) = Len(s) - 1
         /\ \A i \in 1 .. Len(Tail(s)) : Tail(s)[i] = s[i + 1]
<1>1. /\ Head(s) \in T
      /\ Tail(s) \in Seq(T)
      /\ Len(Tail(s)) = Len(s) - 1
      /\ \A i \in 1 .. Len(Tail(s)) : Tail(s)[i] = s[i + 1]
      /\ Len(s) \in Nat \ {0}
  BY HeadTailProperties, EmptySeq
<1> QED
  BY <1>1

LEMMA AppendFacts ==
  ASSUME NEW T, NEW s \in Seq(T), NEW x \in T
  PROVE  /\ Append(s, x) \in Seq(T)
         /\ Len(Append(s, x)) = Len(s) + 1
         /\ Len(s) \in Nat
         /\ \A i \in 1 .. Len(s) : Append(s, x)[i] = s[i]
         /\ Append(s, x)[Len(s) + 1] = x
BY AppendProperties, LenProperties

LEMMA ConcatFacts ==
  ASSUME NEW T, NEW s \in Seq(T), NEW r \in Seq(T)
  PROVE  /\ s \o r \in Seq(T)
         /\ Len(s \o r) = Len(s) + Len(r)
         /\ Len(s) \in Nat /\ Len(r) \in Nat
         /\ DOMAIN (s \o r) = 1 .. Len(s) + Len(r)
         /\ \A i \in 1 .. Len(s) : (s \o r)[i] = s[i]
         /\ \A i \in 1 .. Len(r) : (s \o r)[Len(s) + i] = r[i]
<1>1. /\ s \o r \in Seq(T)
      /\ Len(s \o r) = Len(s) + Len(r)
      /\ \A i \in 1 .. Len(s) + Len(r) :
           (s \o r)[i] = IF i <= Len(s) THEN s[i] ELSE r[i - Len(s)]
  BY ConcatProperties
<1>2. Len(s) \in Nat /\ Len(r) \in Nat
  BY LenProperties
<1>3. DOMAIN (s \o r) = 1 .. Len(s) + Len(r)
  BY <1>1, LenProperties
<1> QED
  BY <1>1, <1>2, <1>3

LEMMA FunctionFacts ==
  ASSUME NEW T, NEW n \in Nat, NEW s \in [1 .. n -> T]
  PROVE  s \in Seq(T) /\ Len(s) = n
<1>1. s \in Seq(T)
  BY SeqDef
<1>2. DOMAIN s = 1 .. Len(s) /\ Len(s) \in Nat /\ DOMAIN s = 1 .. n
  BY <1>1, LenProperties
<1> QED
  BY <1>1, <1>2

\* The elements of a sequence that starts with one or two others.
LEMMA ElementsAfter ==
  ASSUME NEW T, NEW a \in T, NEW b \in T, NEW s \in Seq(T)
  PROVE  /\ << a >> \o s \in Seq(T)
         /\ Len(<< a >> \o s) = Len(s) + 1
         /\ (<< a >> \o s)[1] = a
         /\ \A i \in 1 .. Len(s) : (<< a >> \o s)[i + 1] = s[i]
         /\ << a, b >> \o s \in Seq(T)
         /\ Len(<< a, b >> \o s) = Len(s) + 2
         /\ (<< a, b >> \o s)[1] = a
         /\ (<< a, b >> \o s)[2] = b
         /\ \A i \in 1 .. Len(s) : (<< a, b >> \o s)[i + 2] = s[i]
<1>1. /\ << a >> \in Seq(T) /\ Len(<< a >>) = 1 /\ << a >>[1] = a
      /\ << a, b >> \in Seq(T) /\ Len(<< a, b >>) = 2
      /\ << a, b >>[1] = a /\ << a, b >>[2] = b
  OBVIOUS
<1>2. Len(s) \in Nat
  BY LenZero
<1>3. /\ << a >> \o s \in Seq(T)
      /\ Len(<< a >> \o s) = 1 + Len(s)
      /\ \A i \in 1 .. 1 : (<< a >> \o s)[i] = << a >>[i]
      /\ \A i \in 1 .. Len(s) : (<< a >> \o s)[1 + i] = s[i]
  BY <1>1, ConcatFacts
<1>4. /\ << a, b >> \o s \in Seq(T)
      /\ Len(<< a, b >> \o s) = 2 + Len(s)
      /\ \A i \in 1 .. 2 : (<< a, b >> \o s)[i] = << a, b >>[i]
      /\ \A i \in 1 .. Len(s) : (<< a, b >> \o s)[2 + i] = s[i]
  BY <1>1, ConcatFacts
<1>5. \A i \in Nat : 1 + i = i + 1 /\ 2 + i = i + 2
  OBVIOUS
<1>6. \A i \in 1 .. Len(s) : i \in Nat
  BY <1>2
<1>7. /\ (<< a >> \o s)[1] = a
      /\ (<< a, b >> \o s)[1] = a
      /\ (<< a, b >> \o s)[2] = b
  BY <1>1, <1>3, <1>4
<1>8. /\ \A i \in 1 .. Len(s) : (<< a >> \o s)[i + 1] = s[i]
      /\ \A i \in 1 .. Len(s) : (<< a, b >> \o s)[i + 2] = s[i]
  BY <1>3, <1>4, <1>5, <1>6
<1> QED
  BY <1>2, <1>3, <1>4, <1>7, <1>8

-----------------------------------------------------------------------------
(* Source representations and the calls of a frame. *)

LEMMA TypeFacts ==
  ASSUME program \in Programs, NEW t \in CableType
  PROVE  /\ Info(t) \in CableTypeInfo
         /\ Info(t).kind \in {"Fundamental", "Enumeration", "Class", "Pointer", "Reference",
                              "Array", "Function", "Method", "Offset"}
         /\ Info(t).target \in CableType \cup {Null}
         /\ Info(t).args \in Seq(CableType)
         /\ Len(Info(t).args) \in Nat
         /\ \A i \in 1 .. Len(Info(t).args) : Info(t).args[i] \in CableType
         /\ Info(t).cv \in SUBSET Qualifier
         /\ Info(t).length \in Nat
         /\ Info(t).kind \in {"Class", "Method", "Offset"}
              => Info(t).class \in DOMAIN program.classes
         /\ Info(t).kind \in {"Fundamental", "Enumeration"} => Info(t).name \in Name
         /\ Info(t).kind \in {"Function", "Method", "Reference"} => Info(t).cv = {}
         /\ Null \notin CableType
<1>1. IsProgram(program) /\ Null \notin CableType
  BY TypeSystemAssumption
<1>2. Info(t) \in CableTypeInfo
  BY <1>1 DEF IsProgram, Info
<1>3. /\ Info(t).kind \in {"Class", "Method", "Offset"}
           => Info(t).class \in DOMAIN program.classes
      /\ Info(t).kind \in {"Fundamental", "Enumeration"} => Info(t).name # Null
      /\ Info(t).kind \in {"Function", "Method", "Reference"} => Info(t).cv = {}
  BY TypeSystemAssumption DEF Info
<1>4. /\ Info(t).kind \in {"Fundamental", "Enumeration", "Class", "Pointer", "Reference",
                           "Array", "Function", "Method", "Offset"}
      /\ Info(t).target \in CableType \cup {Null}
      /\ Info(t).args \in Seq(CableType)
      /\ Info(t).cv \in SUBSET Qualifier
      /\ Info(t).length \in Nat
      /\ Info(t).name \in Name \cup {Null}
  BY <1>2 DEF CableTypeInfo
<1>5. /\ Len(Info(t).args) \in Nat
      /\ \A i \in 1 .. Len(Info(t).args) : Info(t).args[i] \in CableType
  BY <1>4, LenZero
<1> HIDE DEF Info
<1> QED
  BY <1>1, <1>2, <1>3, <1>4, <1>5

LEMMA ClassFacts ==
  ASSUME program \in Programs, NEW c \in DOMAIN program.classes
  PROVE  /\ c \in Class
         /\ Bases(c) = program.classes[c].bases
         /\ Bases(c) \in Seq(DOMAIN program.classes)
         /\ Len(Bases(c)) \in Nat
         /\ \A k \in 1 .. Len(Bases(c)) : Bases(c)[k] \in DOMAIN program.classes
         /\ Range(Bases(c)) = {Bases(c)[k] : k \in 1 .. Len(Bases(c))}
         /\ Range(Bases(c)) \subseteq DOMAIN program.classes
         /\ ClassName(c) \in Name
         /\ ClassName(c) # Null
         /\ program.classes[c].abstract \in BOOLEAN
         /\ program.classes[c].copies \in BOOLEAN
<1>1. IsProgram(program) /\ Null \notin Name
  BY TypeSystemAssumption
<1>2. c \in Class /\ program.classes[c] \in ClassInfo
  BY <1>1 DEF IsProgram
<1>3. /\ Bases(c) \in Seq(Class)
      /\ ClassName(c) \in Name
      /\ program.classes[c].abstract \in BOOLEAN
      /\ program.classes[c].copies \in BOOLEAN
  BY <1>2 DEF ClassInfo, Bases, ClassName
<1>4. Range(Bases(c)) \subseteq DOMAIN program.classes
  BY TypeSystemAssumption DEF Bases
<1>5. /\ Len(Bases(c)) \in Nat
      /\ DOMAIN Bases(c) = 1 .. Len(Bases(c))
      /\ Bases(c) \in [1 .. Len(Bases(c)) -> Class]
  BY <1>3, LenProperties
<1>6. Range(Bases(c)) = {Bases(c)[k] : k \in 1 .. Len(Bases(c))}
  BY <1>5 DEF Range
<1>7. \A k \in 1 .. Len(Bases(c)) : Bases(c)[k] \in DOMAIN program.classes
  BY <1>4, <1>6
<1>8. Bases(c) \in [1 .. Len(Bases(c)) -> DOMAIN program.classes]
  BY <1>5, <1>7
<1>9. Bases(c) \in Seq(DOMAIN program.classes)
  BY <1>5, <1>8, FunctionFacts
<1>10. Bases(c) = program.classes[c].bases
  BY DEF Bases
<1> HIDE DEF Bases, ClassName
<1> QED
  BY <1>1, <1>2, <1>3, <1>4, <1>5, <1>6, <1>7, <1>9, <1>10

LEMMA CallForms ==
  /\ \A t \in CableType \cup {Null} :
       /\ TypeCall(t) \in Frame
       /\ TypeCall(t).at = "type" /\ TypeCall(t).of = t /\ TypeCall(t).next = 1
  /\ \A c \in DOMAIN program.classes :
       /\ ClassCall(c) \in Frame
       /\ ClassCall(c).at = "class" /\ ClassCall(c).of = c /\ ClassCall(c).next = 1
  /\ \A f \in Frame :
       /\ f.at \in {"type", "class"}
       /\ f.next \in Nat \ {0}
       /\ f.at = "type" => f.of \in CableType \cup {Null}
       /\ f.at = "class" => f.of \in DOMAIN program.classes
       /\ f = [at |-> f.at, of |-> f.of, next |-> f.next]
BY DEF TypeCall, ClassCall, Frame

\* The calls of CreateCxxType, for each kind of type.
LEMMA PartsFacts ==
  ASSUME program \in Programs, NEW t \in CableType
  PROVE  /\ Parts(t) \in Seq({f \in Frame : f.next = 1})
         /\ Info(t).kind \in {"Pointer", "Reference", "Array", "Function", "Offset"} =>
              /\ 1 \in 1 .. Len(Parts(t))
              /\ Parts(t)[1] = TypeCall(Info(t).target)
         /\ Info(t).kind = "Method" =>
              /\ 2 \in 1 .. Len(Parts(t))
              /\ Parts(t)[2] = TypeCall(Info(t).target)
         /\ Info(t).kind \in {"Class", "Method"} =>
              /\ 1 \in 1 .. Len(Parts(t))
              /\ Parts(t)[1] = ClassCall(Info(t).class)
         /\ Info(t).kind = "Offset" =>
              /\ 2 \in 1 .. Len(Parts(t))
              /\ Parts(t)[2] = ClassCall(Info(t).class)
         /\ Info(t).kind = "Function" => \A i \in 1 .. Len(Info(t).args) :
              /\ i + 1 \in 1 .. Len(Parts(t))
              /\ Parts(t)[i + 1] = TypeCall(Info(t).args[i])
         /\ Info(t).kind = "Method" => \A i \in 1 .. Len(Info(t).args) :
              /\ i + 2 \in 1 .. Len(Parts(t))
              /\ Parts(t)[i + 2] = TypeCall(Info(t).args[i])
<1> DEFINE F == {f \in Frame : f.next = 1}
           arguments == [i \in 1 .. Len(Info(t).args) |-> TypeCall(Info(t).args[i])]
           k == Info(t).kind
<1>1. \A u \in CableType \cup {Null} : TypeCall(u) \in F
  BY CallForms
<1>2. \A c \in DOMAIN program.classes : ClassCall(c) \in F
  BY CallForms
<1>3. /\ Len(Info(t).args) \in Nat
      /\ \A i \in 1 .. Len(Info(t).args) : Info(t).args[i] \in CableType
      /\ Info(t).target \in CableType \cup {Null}
      /\ k \in {"Class", "Method", "Offset"} => Info(t).class \in DOMAIN program.classes
  BY TypeFacts
<1> HIDE DEF F
<1>4. arguments \in [1 .. Len(Info(t).args) -> F]
  BY <1>1, <1>3
<1>5. /\ arguments \in Seq(F)
      /\ Len(arguments) = Len(Info(t).args)
      /\ \A i \in 1 .. Len(Info(t).args) : arguments[i] = TypeCall(Info(t).args[i])
  BY <1>3, <1>4, FunctionFacts
<1> DEFINE n == Len(Info(t).args)
<1>6. TypeCall(Info(t).target) \in F
  BY <1>1, <1>3
<1> HIDE DEF arguments, n
<1>7. CASE k \in {"Pointer", "Reference", "Array"}
  <2>1. Parts(t) = << TypeCall(Info(t).target) >>
    BY <1>7 DEF Parts
  <2> QED
    BY <1>6, <1>7, <2>1 DEF F
<1>8. CASE k = "Class"
  <2>1. Parts(t) = << ClassCall(Info(t).class) >>
    BY <1>8 DEF Parts
  <2> QED
    BY <1>2, <1>3, <1>8, <2>1 DEF F
<1>9. CASE k = "Offset"
  <2>1. Parts(t) = << TypeCall(Info(t).target), ClassCall(Info(t).class) >>
    BY <1>9 DEF Parts
  <2> QED
    BY <1>2, <1>3, <1>6, <1>9, <2>1 DEF F
<1>10. CASE k = "Function"
  <2>1. Parts(t) = << TypeCall(Info(t).target) >> \o arguments
    BY <1>10 DEF Parts, arguments
  <2>2. /\ Parts(t) \in Seq(F)
        /\ Len(Parts(t)) = n + 1
        /\ Parts(t)[1] = TypeCall(Info(t).target)
        /\ \A i \in 1 .. n : Parts(t)[i + 1] = arguments[i]
        /\ n \in Nat
    BY <1>3, <1>5, <1>6, <2>1, ElementsAfter DEF n
  <2>3. /\ 1 \in 1 .. n + 1
        /\ \A i \in 1 .. n : i + 1 \in 1 .. n + 1
    BY <2>2
  <2> QED
    BY <1>5, <1>10, <2>2, <2>3 DEF F, n
<1>11. CASE k = "Method"
  <2>1. Parts(t) = << ClassCall(Info(t).class), TypeCall(Info(t).target) >> \o arguments
    BY <1>11 DEF Parts, arguments
  <2>2. ClassCall(Info(t).class) \in F
    BY <1>2, <1>3, <1>11
  <2>3. /\ Parts(t) \in Seq(F)
        /\ Len(Parts(t)) = n + 2
        /\ Parts(t)[1] = ClassCall(Info(t).class)
        /\ Parts(t)[2] = TypeCall(Info(t).target)
        /\ \A i \in 1 .. n : Parts(t)[i + 2] = arguments[i]
        /\ n \in Nat
    BY <1>3, <1>5, <1>6, <2>1, <2>2, ElementsAfter DEF n
  <2>4. /\ 1 \in 1 .. n + 2
        /\ 2 \in 1 .. n + 2
        /\ \A i \in 1 .. n : i + 2 \in 1 .. n + 2
    BY <2>3
  <2> QED
    BY <1>5, <1>11, <2>3, <2>4 DEF F, n
<1>12. CASE k \in {"Fundamental", "Enumeration"}
  <2>1. Parts(t) = << >>
    BY <1>12 DEF Parts
  <2> QED
    BY <1>12, <2>1 DEF F
<1> QED
  BY <1>7, <1>8, <1>9, <1>10, <1>11, <1>12, TypeFacts

LEMMA CallsFacts ==
  ASSUME program \in Programs, NEW f \in Frame, f.at = "type" => f.of # Null
  PROVE  /\ Calls(f) \in Seq(Frame)
         /\ Len(Calls(f)) \in Nat
         /\ \A k \in 1 .. Len(Calls(f)) :
              /\ Calls(f)[k] \in Frame
              /\ Calls(f)[k].next = 1
         /\ f.at = "type" => f.of \in CableType /\ Calls(f) = Parts(f.of)
         /\ f.at = "class" =>
              /\ f.of \in DOMAIN program.classes
              /\ Len(Calls(f)) = Len(Bases(f.of))
              /\ \A k \in 1 .. Len(Bases(f.of)) : Calls(f)[k] = ClassCall(Bases(f.of)[k])
<1> DEFINE F == {g \in Frame : g.next = 1}
<1>1. ASSUME Calls(f) \in Seq(F)
      PROVE  /\ Calls(f) \in Seq(Frame)
             /\ Len(Calls(f)) \in Nat
             /\ \A k \in 1 .. Len(Calls(f)) :
                  /\ Calls(f)[k] \in Frame
                  /\ Calls(f)[k].next = 1
  <2>1. /\ Len(Calls(f)) \in Nat
        /\ \A k \in 1 .. Len(Calls(f)) : Calls(f)[k] \in F
    BY <1>1, LenZero
  <2>2. F \subseteq Frame
    OBVIOUS
  <2>3. Calls(f) \in Seq(Frame)
    BY <1>1, <2>2, SeqMonotonic
  <2> QED
    BY <2>1, <2>3
<1>2. CASE f.at = "type"
  <2>1. f.of \in CableType /\ Calls(f) = Parts(f.of)
    BY <1>2, CallForms DEF Calls
  <2>2. Calls(f) \in Seq(F)
    BY <2>1, PartsFacts
  <2> QED
    BY <1>1, <1>2, <2>1, <2>2
<1>3. CASE f.at = "class"
  <2> DEFINE n == Len(Bases(f.of))
  <2>1. /\ f.of \in DOMAIN program.classes
        /\ Calls(f) = [i \in 1 .. n |-> ClassCall(Bases(f.of)[i])]
    BY <1>3, CallForms DEF Calls, Bases
  <2>2. n \in Nat /\ \A i \in 1 .. n : Bases(f.of)[i] \in DOMAIN program.classes
    BY <2>1, ClassFacts
  <2>3. \A c \in DOMAIN program.classes : ClassCall(c) \in F
    BY CallForms
  <2> HIDE DEF n, F
  <2>4. Calls(f) \in [1 .. n -> F]
    BY <2>1, <2>2, <2>3
  <2>5. /\ Calls(f) \in Seq(F)
        /\ Len(Calls(f)) = n
        /\ \A i \in 1 .. n : Calls(f)[i] = ClassCall(Bases(f.of)[i])
    BY <2>1, <2>2, <2>4, FunctionFacts
  <2> QED
    BY <1>1, <1>3, <2>1, <2>5 DEF F, n
<1> QED
  BY <1>2, <1>3, CallForms

\* When all calls of CreateCxxType are done, the type is made of what is created.
LEMMA PartsDone ==
  ASSUME program \in Programs, NEW t \in CableType,
         \A k \in 1 .. Len(Parts(t)) : Done(Parts(t)[k])
  PROVE  /\ Info(t).kind \in {"Pointer", "Reference", "Array", "Function", "Method", "Offset"} =>
              Info(t).target \in CableType /\ Cxx(Info(t).target) # NoCxxType
         /\ Info(t).kind \in {"Function", "Method"} =>
              \A i \in 1 .. Len(Info(t).args) : Cxx(Info(t).args[i]) # NoCxxType
         /\ Info(t).kind \in {"Class", "Method", "Offset"} => ClassDone(Info(t).class)
<1>1. \A u \in CableType \cup {Null} : Done(TypeCall(u)) => u # Null /\ Cxx(u) # NoCxxType
  BY CallForms DEF Done
<1>2. \A c \in DOMAIN program.classes : Done(ClassCall(c)) => ClassDone(c)
  BY CallForms DEF Done
<1>3. /\ Info(t).target \in CableType \cup {Null}
      /\ \A i \in 1 .. Len(Info(t).args) : Info(t).args[i] \in CableType
      /\ Info(t).kind \in {"Class", "Method", "Offset"}
              => Info(t).class \in DOMAIN program.classes
  BY TypeFacts
<1>4. Info(t).kind \in {"Pointer", "Reference", "Array", "Function", "Method", "Offset"} =>
        Done(TypeCall(Info(t).target))
  BY PartsFacts
<1>5. Info(t).kind \in {"Function", "Method"} =>
        \A i \in 1 .. Len(Info(t).args) : Done(TypeCall(Info(t).args[i]))
  <2>1. CASE Info(t).kind = "Function"
    BY <2>1, PartsFacts
  <2>2. CASE Info(t).kind = "Method"
    BY <2>2, PartsFacts
  <2> QED
    BY <2>1, <2>2
<1>6. Info(t).kind \in {"Class", "Method", "Offset"} => Done(ClassCall(Info(t).class))
  BY PartsFacts
<1>7. Info(t).kind \in {"Pointer", "Reference", "Array", "Function", "Method", "Offset"} =>
        Info(t).target \in CableType /\ Cxx(Info(t).target) # NoCxxType
  BY <1>1, <1>3, <1>4
<1>8. Info(t).kind \in {"Function", "Method"} =>
        \A i \in 1 .. Len(Info(t).args) : Cxx(Info(t).args[i]) # NoCxxType
  BY <1>1, <1>3, <1>5
<1>9. Info(t).kind \in {"Class", "Method", "Offset"} => ClassDone(Info(t).class)
  BY <1>2, <1>3, <1>6
<1> QED
  BY <1>7, <1>8, <1>9

-----------------------------------------------------------------------------
(* What a cable type denotes. *)

\* The types that t is made of.
MadeOf(t) == ({Info(t).target} \ {Null}) \cup Range(Info(t).args)

\* Of a set of types there is one that is made of none of the others.
LEMMA Lowest ==
  ASSUME program \in Programs, NEW S, S \subseteq CableType, S # {}
  PROVE  \E t \in S : MadeOf(t) \cap S = {}
<1>1. WellFounded(program)
  BY TypeSystemAssumption
<1>2. \A R \in SUBSET CableType : R # {} => \E t \in R : MadeOf(t) \cap R = {}
  BY <1>1 DEF WellFounded, MadeOf, Info
<1> QED
  BY <1>2

LEMMA MadeOfFacts ==
  ASSUME program \in Programs, NEW t \in CableType
  PROVE  /\ MadeOf(t) \subseteq CableType
         /\ Info(t).target # Null => Info(t).target \in MadeOf(t)
         /\ \A i \in 1 .. Len(Info(t).args) : Info(t).args[i] \in MadeOf(t)
<1>1. /\ Info(t).args \in Seq(CableType)
      /\ Info(t).target \in CableType \cup {Null}
  BY TypeFacts
<1>2. /\ DOMAIN Info(t).args = 1 .. Len(Info(t).args)
      /\ \A i \in 1 .. Len(Info(t).args) : Info(t).args[i] \in CableType
  BY <1>1, LenZero
<1>3. Range(Info(t).args) = {Info(t).args[i] : i \in 1 .. Len(Info(t).args)}
  BY <1>2 DEF Range
<1> QED
  BY <1>1, <1>2, <1>3 DEF MadeOf

\* What t denotes depends on what the types denote that it is made of.
LEMMA DenotedSame ==
  ASSUME program \in Programs, NEW t \in CableType, NEW f, NEW h,
         f[Null] = h[Null], \A u \in MadeOf(t) : f[u] = h[u]
  PROVE  Denoted(t, f) = Denoted(t, h)
<1>1. f[Info(t).target] = h[Info(t).target]
  BY MadeOfFacts
<1>2. \A i \in 1 .. Len(Info(t).args) : f[Info(t).args[i]] = h[Info(t).args[i]]
  BY MadeOfFacts
<1>3. [i \in 1 .. Len(Info(t).args) |-> f[Info(t).args[i]]]
        = [i \in 1 .. Len(Info(t).args) |-> h[Info(t).args[i]]]
  BY <1>2
<1> QED
  BY <1>1, <1>3 DEF Denoted

LEMMA MeaningExists ==
  ASSUME program \in Programs
  PROVE  \E f : f = [t \in CableType \cup {Null} |-> IF t = Null THEN Null ELSE Denoted(t, f)]
<1> DEFINE Solves(f, S) ==
             /\ f[Null] = Null
             /\ \A t \in S : /\ t \in CableType
                             /\ MadeOf(t) \subseteq S
                             /\ f[t] = Denoted(t, f)
<1>0. Null \notin CableType
  BY TypeSystemAssumption
<1>1. ASSUME NEW f, NEW h, NEW S, NEW R, Solves(f, S), Solves(h, R), NEW x \in S \cap R
      PROVE  f[x] = h[x]
  <2> DEFINE T == {t \in S \cap R : f[t] # h[t]}
  <2> SUFFICES ASSUME T # {} PROVE FALSE
    OBVIOUS
  <2>1. PICK t \in T : MadeOf(t) \cap T = {}
    BY <1>1, Lowest
  <2>2. \A u \in MadeOf(t) : f[u] = h[u]
    BY <1>1, <2>1
  <2>3. f[t] = Denoted(t, f) /\ h[t] = Denoted(t, h) /\ t \in CableType
    BY <1>1, <2>1
  <2>4. f[Null] = h[Null]
    BY <1>1
  <2> QED
    BY <2>1, <2>2, <2>3, <2>4, DenotedSame
<1> DEFINE G == {t \in CableType : \E f : \E S \in SUBSET CableType : Solves(f, S) /\ t \in S}
           At(t) == CHOOSE f : \E S \in SUBSET CableType : Solves(f, S) /\ t \in S
           F == [t \in CableType \cup {Null} |-> IF t = Null THEN Null ELSE At(t)[t]]
<1>2. \A t \in G : \E S \in SUBSET CableType : Solves(At(t), S) /\ t \in S
  <2> HIDE DEF Solves
  <2> QED
    OBVIOUS
<1> HIDE DEF At
<1>3. F[Null] = Null
  OBVIOUS
<1>4. ASSUME NEW f, NEW S \in SUBSET CableType, Solves(f, S), NEW t \in S
      PROVE  F[t] = f[t] /\ t \in G
  <2>1. t \in G
    BY <1>4
  <2>2. PICK R \in SUBSET CableType : Solves(At(t), R) /\ t \in R
    BY <1>2, <2>1
  <2>3. At(t)[t] = f[t]
    <3> HIDE DEF Solves
    <3> QED
      BY <1>1, <1>4, <2>2
  <2>4. F[t] = At(t)[t]
    BY <1>0
  <2> QED
    BY <2>1, <2>3, <2>4
<1> HIDE DEF F
<1>5. Solves(F, G)
  <2> SUFFICES ASSUME NEW t \in G
               PROVE  MadeOf(t) \subseteq G /\ F[t] = Denoted(t, F)
    BY <1>3
  <2>1. PICK S \in SUBSET CableType : Solves(At(t), S) /\ t \in S
    BY <1>2
  <2>2. \A x \in S : F[x] = At(t)[x] /\ x \in G
    <3> HIDE DEF Solves, G
    <3> QED
      BY <1>4, <2>1
  <2>3. /\ MadeOf(t) \subseteq S
        /\ At(t)[t] = Denoted(t, At(t))
        /\ At(t)[Null] = Null
    BY <2>1
  <2>4. \A u \in MadeOf(t) : F[u] = At(t)[u]
    BY <2>2, <2>3
  <2>5. Denoted(t, F) = Denoted(t, At(t))
    BY <1>3, <2>3, <2>4, DenotedSame
  <2> QED
    BY <2>1, <2>2, <2>3, <2>5
<1>6. G = CableType
  <2> SUFFICES ASSUME CableType \ G # {} PROVE FALSE
    OBVIOUS
  <2>1. PICK m \in CableType \ G : MadeOf(m) \cap (CableType \ G) = {}
    <3> HIDE DEF G
    <3>1. CableType \ G \subseteq CableType
      OBVIOUS
    <3> QED
      BY <3>1, Lowest
  <2>2. MadeOf(m) \subseteq G
    BY <2>1, MadeOfFacts
  <2> DEFINE f == [t \in CableType \cup {Null} |-> IF t = m THEN Denoted(m, F) ELSE F[t]]
  <2>3. f[Null] = Null
    BY <1>0, <1>3
  <2>4. \A t \in G : f[t] = F[t]
    BY <2>1
  <2>5. f[m] = Denoted(m, F)
    OBVIOUS
  <2> HIDE DEF f
  <2>6. \A t \in G \cup {m} : f[t] = Denoted(t, f)
    <3> SUFFICES ASSUME NEW t \in G \cup {m} PROVE f[t] = Denoted(t, f)
      OBVIOUS
    <3>1. MadeOf(t) \subseteq G
      BY <1>5, <2>2
    <3>2. \A u \in MadeOf(t) : f[u] = F[u]
      BY <2>4, <3>1
    <3>3. Denoted(t, f) = Denoted(t, F)
      BY <1>3, <2>3, <3>2, DenotedSame
    <3> QED
      BY <1>5, <2>4, <2>5, <3>3
  <2>7. Solves(f, G \cup {m})
    BY <1>5, <2>2, <2>3, <2>6
  <2>8. m \in G
    <3>1. G \cup {m} \in SUBSET CableType
      OBVIOUS
    <3> HIDE DEF Solves
    <3> QED
      BY <1>4, <2>7, <3>1
  <2> QED
    BY <2>1, <2>8
<1>7. F = [t \in CableType \cup {Null} |-> IF t = Null THEN Null ELSE Denoted(t, F)]
  <2>1. \A t \in CableType : F[t] = Denoted(t, F)
    BY <1>5, <1>6
  <2>2. F = [t \in CableType \cup {Null} |-> F[t]]
    BY DEF F
  <2> HIDE DEF G
  <2> QED
    BY <1>3, <2>1, <2>2
<1> QED
  BY <1>7

\* A cable type denotes what it makes of the types that its parts denote.
LEMMA MeaningUnfold ==
  ASSUME program \in Programs, NEW t \in CableType
  PROVE  Meaning[t] = Denoted(t, Meaning)
<1> DEFINE Fn(f) == [u \in CableType \cup {Null} |-> IF u = Null THEN Null ELSE Denoted(u, f)]
<1>1. Meaning = CHOOSE f : f = Fn(f)
  BY DEF Meaning
<1>2. \E f : f = Fn(f)
  BY MeaningExists
<1> HIDE DEF Fn
<1>3. Meaning = Fn(Meaning)
  BY <1>1, <1>2
<1>4. Null \notin CableType
  BY TypeSystemAssumption
<1>5. Fn(Meaning)[t] = Denoted(t, Meaning)
  BY <1>4 DEF Fn
<1> QED
  BY <1>3, <1>5

-----------------------------------------------------------------------------
(* Class::HasPublicCopyConstructor. *)

\* All of the lineage of c can be copied.
Copies(c) == \A d \in Lineage(c) : program.classes[d].copies

\* A set of classes with all of their bases.
ClosedSet(S) ==
  /\ S \subseteq DOMAIN program.classes
  /\ \A d \in S : Range(Bases(d)) \subseteq S

LEMMA LineageFacts ==
  ASSUME NEW c \in DOMAIN program.classes
  PROVE  /\ \A d : d \in Lineage(c) <=>
              /\ d \in DOMAIN program.classes
              /\ \A S : ClosedSet(S) /\ c \in S => d \in S
         /\ c \in Lineage(c)
<1>1. \A d : d \in Lineage(c) <=>
        /\ d \in DOMAIN program.classes
        /\ \A S : ClosedSet(S) /\ c \in S => d \in S
  BY DEF Lineage, ClosedSet, Bases
<1> QED
  BY <1>1

\* The lineage of a class is the class and the lineages of its bases.
LEMMA LineageUnfold ==
  ASSUME program \in Programs, NEW c \in DOMAIN program.classes
  PROVE  /\ \A b \in Range(Bases(c)) : Lineage(b) \subseteq Lineage(c)
         /\ \A d \in Lineage(c) : d = c \/ \E b \in Range(Bases(c)) : d \in Lineage(b)
<1>0. \A d \in DOMAIN program.classes : Range(Bases(d)) \subseteq DOMAIN program.classes
  BY ClassFacts
<1>1. ASSUME NEW b \in Range(Bases(c)), NEW d \in Lineage(b) PROVE d \in Lineage(c)
  <2>1. b \in DOMAIN program.classes
    BY <1>0
  <2>2. \A S : ClosedSet(S) /\ c \in S => b \in S
    BY DEF ClosedSet
  <2> QED
    BY <2>1, <2>2, LineageFacts
<1>2. ASSUME NEW d \in Lineage(c) PROVE d = c \/ \E b \in Range(Bases(c)) : d \in Lineage(b)
  <2> DEFINE S == {c} \cup UNION {Lineage(b) : b \in Range(Bases(c))}
  <2>1. S \subseteq DOMAIN program.classes
    BY DEF Lineage
  <2>2. ASSUME NEW e \in S, NEW x \in Range(Bases(e)) PROVE x \in S
    <3>1. CASE e = c
      <4>1. x \in DOMAIN program.classes
        BY <1>0, <3>1
      <4>2. x \in Lineage(x)
        BY <4>1, LineageFacts
      <4> QED
        BY <3>1, <4>2
    <3>2. CASE e # c
      <4>1. PICK b \in Range(Bases(c)) : e \in Lineage(b)
        BY <3>2
      <4>2. b \in DOMAIN program.classes /\ e \in DOMAIN program.classes
        BY <1>0, <2>1
      <4>3. x \in DOMAIN program.classes
        BY <1>0, <4>2
      <4>4. \A R : ClosedSet(R) /\ b \in R => x \in R
        BY <4>1, <4>2, LineageFacts DEF ClosedSet
      <4>5. x \in Lineage(b)
        BY <4>2, <4>3, <4>4, LineageFacts
      <4> QED
        BY <4>5
    <3> QED
      BY <3>1, <3>2
  <2>3. ClosedSet(S)
    BY <2>1, <2>2 DEF ClosedSet
  <2>4. d \in S
    <3>1. c \in S
      OBVIOUS
    <3> HIDE DEF S
    <3> QED
      BY <2>3, <3>1, LineageFacts
  <2> QED
    BY <2>4
<1> QED
  BY <1>1, <1>2

LEMMA CopiesUnfold ==
  ASSUME program \in Programs, NEW c \in DOMAIN program.classes
  PROVE  Copies(c) <=> program.classes[c].copies /\ \A b \in Range(Bases(c)) : Copies(b)
<1>1. \A b \in Range(Bases(c)) : b \in DOMAIN program.classes
  BY ClassFacts
<1>2. c \in Lineage(c)
  BY LineageFacts
<1> QED
  BY <1>1, <1>2, LineageUnfold DEF Copies

\* The recursion through the bases asks for all of the lineage.
LEMMA CopyConstructorExact ==
  ASSUME program \in Programs, NEW c \in DOMAIN program.classes
  PROVE  HasPublicCopyConstructor[c] <=> Copies(c)
<1> DEFINE D == DOMAIN program.classes
           Fn(f) == [d \in D |-> /\ program.classes[d].copies
                                 /\ \A b \in Range(program.classes[d].bases) : f[b]]
           H == [d \in D |-> Copies(d)]
<1>1. HasPublicCopyConstructor = CHOOSE f : f = Fn(f)
  BY DEF HasPublicCopyConstructor
<1>2. \A d \in D : Range(program.classes[d].bases) \subseteq D
  BY ClassFacts DEF Bases
<1>3. H = Fn(H)
  <2>1. ASSUME NEW d \in D
        PROVE  Copies(d) = ( /\ program.classes[d].copies
                             /\ \A b \in Range(program.classes[d].bases) : H[b] )
    <3>1. Copies(d) <=> /\ program.classes[d].copies
                        /\ \A b \in Range(program.classes[d].bases) : Copies(b)
      BY CopiesUnfold, Zenon DEF Bases
    <3>2. \A b \in Range(program.classes[d].bases) : H[b] = Copies(b)
      BY <1>2
    <3>3. Copies(d) \in BOOLEAN
      BY DEF Copies
    <3> HIDE DEF H
    <3> QED
      BY <3>1, <3>2, <3>3
  <2> QED
    BY <2>1
<1>4. HasPublicCopyConstructor = Fn(HasPublicCopyConstructor)
  <2> HIDE DEF Fn, H
  <2> QED
    BY <1>1, <1>3
<1> DEFINE has == HasPublicCopyConstructor
           T == {d \in D : ~ (has[d] <=> Copies(d))}
<1>5. \A d \in D : has[d] <=> /\ program.classes[d].copies
                              /\ \A b \in Range(program.classes[d].bases) : has[b]
  <2>1. PICK h : h = has
    OBVIOUS
  <2>2. h = Fn(h)
    BY <1>4, <2>1
  <2>3. \A d \in D : h[d] <=> /\ program.classes[d].copies
                              /\ \A b \in Range(program.classes[d].bases) : h[b]
    BY <2>2, Zenon
  <2> HIDE DEF Fn
  <2> QED
    BY <2>1, <2>3, Zenon
<1> HIDE DEF Fn, H, has
<1>6. ASSUME T # {} PROVE FALSE
  <2>1. T \in SUBSET D
    OBVIOUS
  <2>2. WellFounded(program)
    BY TypeSystemAssumption
  <2>3. PICK d \in T : Range(program.classes[d].bases) \cap T = {}
    <3> HIDE DEF T
    <3> QED
      BY <1>6, <2>1, <2>2 DEF WellFounded
  <2>4. d \in D
    BY <2>1, <2>3
  <2>5. \A b \in Range(program.classes[d].bases) : b \in D /\ b \notin T
    BY <1>2, <2>3, <2>4
  <2>6. \A b \in Range(program.classes[d].bases) : has[b] <=> Copies(b)
    BY <2>5
  <2>7. Copies(d) <=> /\ program.classes[d].copies
                      /\ \A b \in Range(program.classes[d].bases) : Copies(b)
    BY CopiesUnfold, Zenon DEF Bases
  <2>8. has[d] <=> Copies(d)
    BY <1>5, <2>6, <2>7, Zenon
  <2> QED
    BY <2>8
<1> QED
  BY <1>6 DEF has

-----------------------------------------------------------------------------
(* The objects of a TypeSystem and the types they stand for. *)

LEMMA FindFacts ==
  ASSUME NEW objs, NEW key
  PROVE  /\ Find(objs, key) # 0 =>
              Find(objs, key) \in 1 .. Len(objs) /\ objs[Find(objs, key)] = key
         /\ Find(objs, key) = 0 => \A i \in 1 .. Len(objs) : objs[i] # key
<1> DEFINE found == {i \in 1 .. Len(objs) : objs[i] = key}
<1>1. Find(objs, key) = IF found = {} THEN 0 ELSE CHOOSE i \in found : TRUE
  BY DEF Find
<1>2. found # {} => (CHOOSE i \in found : TRUE) \in found
  OBVIOUS
<1>3. \A i \in found : i # 0
  BY DEF found
<1> HIDE DEF found
<1>4. Find(objs, key) # 0 => Find(objs, key) \in found
  BY <1>1, <1>2
<1>5. Find(objs, key) = 0 => found = {}
  BY <1>1, <1>2, <1>3
<1> QED
  BY <1>4, <1>5 DEF found

LEMMA FindAt ==
  ASSUME NEW objs, ObjectsSound(objs), NEW i \in 1 .. Len(objs)
  PROVE  Find(objs, objs[i]) = i
BY FindFacts DEF ObjectsSound

LEMMA KeyFields ==
  ASSUME NEW key \in ObjectKey
  PROVE  /\ key.kind \in ObjectKind
         /\ key.name \in Name \cup Fundamental \cup {Null}
         /\ key.parts \in Seq([of : Nat, cv : SUBSET Qualifier])
         /\ key.class \in Nat
         /\ key.length \in Nat
         /\ key = Key(key.kind, key.name, key.parts, key.class, key.length)
BY DEF ObjectKey, Key

\* A key refers to more objects still.
LEMMA KeySoundKept ==
  ASSUME NEW objs, NEW more, NEW n \in Nat, NEW m \in Nat, n <= m, NEW key,
         KeySound(objs, n, key), \A i \in 1 .. n : more[i] = objs[i]
  PROVE  KeySound(more, m, key)
<1> DEFINE S(k) == [of : 1 .. k, cv : SUBSET Qualifier]
<1>1. 1 .. n \subseteq 1 .. m /\ 0 .. n \subseteq 0 .. m
  OBVIOUS
<1>2. S(n) \subseteq S(m)
  BY <1>1
<1>3. key.parts \in Seq(S(n))
  BY DEF KeySound
<1>4. key.parts \in Seq(S(m))
  <2> HIDE DEF S
  <2> QED
    BY <1>2, <1>3, SeqMonotonic
<1>5. key.class # 0 => key.class \in 1 .. n
  BY DEF KeySound
<1>6. /\ key \in ObjectKey
      /\ key.class \in 0 .. n
      /\ key.class # 0 => objs[key.class].kind = "Class"
      /\ key.kind = "PointerToMember" => key.class # 0
      /\ key.kind = "Class" =>
           \E c \in DOMAIN program.classes : key = ClassTypeKey(ClassName(c))
  BY DEF KeySound
<1>7. key.class # 0 => more[key.class].kind = "Class"
  BY <1>5, <1>6
<1>8. key.class \in 0 .. m
  BY <1>1, <1>6
<1> QED
  BY <1>4, <1>6, <1>7, <1>8 DEF KeySound

\* Objects are only added.
Extends(objs, more) ==
  /\ Len(objs) <= Len(more)
  /\ \A i \in 1 .. Len(objs) : more[i] = objs[i]

LEMMA FindKept ==
  ASSUME NEW objs, NEW more, ObjectsSound(objs), ObjectsSound(more), Extends(objs, more),
         NEW key, Find(objs, key) # 0
  PROVE  Find(more, key) = Find(objs, key)
<1>1. Find(objs, key) \in 1 .. Len(objs) /\ objs[Find(objs, key)] = key
  BY FindFacts
<1>2. Len(objs) \in Nat /\ Len(more) \in Nat
  BY LenZero DEF ObjectsSound
<1>3. Find(objs, key) \in 1 .. Len(more) /\ more[Find(objs, key)] = key
  BY <1>1, <1>2 DEF Extends
<1> QED
  BY <1>3, FindAt

LEMMA InternGrows ==
  ASSUME NEW objs, ObjectsSound(objs), NEW key, KeySound(objs, Len(objs), key)
  PROVE  /\ ObjectsSound(Intern(objs, key))
         /\ Extends(objs, Intern(objs, key))
         /\ Find(Intern(objs, key), key) \in 1 .. Len(Intern(objs, key))
         /\ Intern(objs, key)[Find(Intern(objs, key), key)] = key
         /\ \A i \in 1 .. Len(Intern(objs, key)) :
              i \in 1 .. Len(objs) \/ Intern(objs, key)[i] = key
         /\ Find(objs, key) # 0 =>
              Intern(objs, key) = objs /\ Find(Intern(objs, key), key) = Find(objs, key)
         /\ Find(objs, key) = 0 =>
              /\ Intern(objs, key) = Append(objs, key)
              /\ Find(Intern(objs, key), key) = Len(objs) + 1
              /\ Len(Intern(objs, key)) = Len(objs) + 1
<1> DEFINE more == Intern(objs, key)
           n == Len(objs)
<1>0. objs \in Seq(ObjectKey) /\ key \in ObjectKey
  BY DEF ObjectsSound, KeySound
<1>1. n \in Nat
  BY <1>0, LenZero
<1>2. CASE Find(objs, key) # 0
  <2>1. more = objs
    BY <1>2 DEF Intern
  <2>2. Find(objs, key) \in 1 .. n /\ objs[Find(objs, key)] = key
    BY <1>2, FindFacts
  <2> QED
    BY <1>1, <1>2, <2>1, <2>2 DEF Extends
<1>3. CASE Find(objs, key) = 0
  <2>1. more = Append(objs, key)
    BY <1>3 DEF Intern
  <2>2. /\ more \in Seq(ObjectKey)
        /\ Len(more) = n + 1
        /\ \A i \in 1 .. n : more[i] = objs[i]
        /\ more[n + 1] = key
    BY <1>0, <2>1, AppendFacts
  <2> HIDE DEF more
  <2>3. \A i \in 1 .. n + 1 : i \in 1 .. n \/ i = n + 1
    BY <1>1
  <2>4. \A i \in 1 .. n : objs[i] # key
    BY <1>3, FindFacts
  <2>5. \A i, j \in 1 .. n + 1 : more[i] = more[j] => i = j
    <3>1. \A i, j \in 1 .. n : objs[i] = objs[j] => i = j
      BY DEF ObjectsSound
    <3> QED
      BY <2>2, <2>3, <2>4, <3>1
  <2>6. ASSUME NEW i \in 1 .. n + 1 PROVE KeySound(more, i - 1, more[i])
    <3>1. CASE i \in 1 .. n
      <4>1. KeySound(objs, i - 1, objs[i])
        BY <3>1 DEF ObjectsSound
      <4>2. \A j \in 1 .. i - 1 : more[j] = objs[j]
        BY <1>1, <2>2, <3>1
      <4>3. i - 1 \in Nat /\ i - 1 <= i - 1
        BY <1>1, <3>1
      <4>4. KeySound(more, i - 1, objs[i])
        BY <4>1, <4>2, <4>3, KeySoundKept
      <4> QED
        BY <2>2, <3>1, <4>4
    <3>2. CASE i = n + 1
      <4>1. i - 1 = n
        BY <1>1, <3>2
      <4>2. KeySound(more, n, key)
        <5>1. n <= n
          BY <1>1
        <5> QED
          BY <1>1, <2>2, <5>1, KeySoundKept
      <4> QED
        BY <2>2, <3>2, <4>1, <4>2
    <3> QED
      BY <2>3, <3>1, <3>2
  <2>7. ObjectsSound(more)
    BY <2>2, <2>5, <2>6 DEF ObjectsSound
  <2>8. n + 1 \in 1 .. n + 1
    BY <1>1
  <2>9. Find(more, key) = n + 1
    BY <2>2, <2>7, <2>8, FindAt
  <2>10. Extends(objs, more)
    BY <1>1, <2>2 DEF Extends
  <2> QED
    BY <1>3, <2>1, <2>2, <2>3, <2>7, <2>8, <2>9, <2>10 DEF more
<1> QED
  BY <1>2, <1>3

\* The fields of a term.
LEMMA TermFacts ==
  ASSUME NEW k, NEW n, NEW p, NEW c, NEW l, NEW v
  PROVE  /\ Term(k, n, p, c, l).kind = k
         /\ Term(k, n, p, c, l).name = n
         /\ Term(k, n, p, c, l).parts = p
         /\ Term(k, n, p, c, l).class = c
         /\ Term(k, n, p, c, l).length = l
         /\ Term(k, n, p, c, l).cv = {}
         /\ Qualified(Term(k, n, p, c, l), v) =
              [kind |-> k, name |-> n, parts |-> p, class |-> c, length |-> l, cv |-> v]
         /\ GetMoreQualifiedType(Term(k, n, p, c, l), v) = Qualified(Term(k, n, p, c, l), v)
         /\ Qualified(Term(k, n, p, c, l), {}) = Term(k, n, p, c, l)
BY DEF Term, Qualified, GetMoreQualifiedType

\* A CvQualifiedType stands for the type of its object, with its qualifiers.
LEMMA AsFacts ==
  ASSUME NEW objs, NEW types, Stands(objs, types),
         NEW q \in [of : 1 .. Len(objs), cv : SUBSET Qualifier]
  PROVE  /\ As(types, q) =
              [ kind   |-> types[q.of].kind,
                name   |-> types[q.of].name,
                parts  |-> types[q.of].parts,
                class  |-> types[q.of].class,
                length |-> types[q.of].length,
                cv     |-> q.cv ]
         /\ types[q.of] =
              [ kind   |-> types[q.of].kind,
                name   |-> types[q.of].name,
                parts  |-> types[q.of].parts,
                class  |-> types[q.of].class,
                length |-> types[q.of].length,
                cv     |-> {} ]
<1>1. PICK i \in 1 .. Len(objs) : i = q.of
  OBVIOUS
<1>2. PICK k, n, p, c, l : types[i] = Term(k, n, p, c, l)
  <2>1. types[i] = TypeOfKey(objs[i], types)
    BY DEF Stands
  <2>2. \E k, n, p, c, l : TypeOfKey(objs[i], types) = Term(k, n, p, c, l)
    BY Zenon DEF TypeOfKey
  <2> QED
    BY <2>1, <2>2
<1>3. types[q.of] = Term(k, n, p, c, l)
  BY <1>1, <1>2
<1>4. PICK v : v = q.cv
  OBVIOUS
<1>5. As(types, q) = Qualified(Term(k, n, p, c, l), v)
  BY <1>3, <1>4 DEF As
<1>6. As(types, q) =
        [kind |-> k, name |-> n, parts |-> p, class |-> c, length |-> l, cv |-> q.cv]
  BY <1>4, <1>5, TermFacts
<1>7. types[q.of] =
        [kind |-> k, name |-> n, parts |-> p, class |-> c, length |-> l, cv |-> {}]
  BY <1>3 DEF Term
<1> QED
  BY <1>6, <1>7

LEMMA AsInjective ==
  ASSUME NEW objs, NEW types, Stands(objs, types),
         NEW q \in [of : 1 .. Len(objs), cv : SUBSET Qualifier],
         NEW r \in [of : 1 .. Len(objs), cv : SUBSET Qualifier],
         As(types, q) = As(types, r)
  PROVE  q = r
<1>1. /\ As(types, q) =
           [ kind |-> types[q.of].kind, name |-> types[q.of].name,
             parts |-> types[q.of].parts, class |-> types[q.of].class,
             length |-> types[q.of].length, cv |-> q.cv ]
      /\ types[q.of] =
           [ kind |-> types[q.of].kind, name |-> types[q.of].name,
             parts |-> types[q.of].parts, class |-> types[q.of].class,
             length |-> types[q.of].length, cv |-> {} ]
  BY AsFacts
<1>2. /\ As(types, r) =
           [ kind |-> types[r.of].kind, name |-> types[r.of].name,
             parts |-> types[r.of].parts, class |-> types[r.of].class,
             length |-> types[r.of].length, cv |-> r.cv ]
      /\ types[r.of] =
           [ kind |-> types[r.of].kind, name |-> types[r.of].name,
             parts |-> types[r.of].parts, class |-> types[r.of].class,
             length |-> types[r.of].length, cv |-> {} ]
  BY AsFacts
<1>3. /\ types[q.of].kind = types[r.of].kind
      /\ types[q.of].name = types[r.of].name
      /\ types[q.of].parts = types[r.of].parts
      /\ types[q.of].class = types[r.of].class
      /\ types[q.of].length = types[r.of].length
      /\ q.cv = r.cv
  <2> DEFINE a == As(types, q)
             b == As(types, r)
  <2>1. /\ a.kind = types[q.of].kind /\ a.name = types[q.of].name
        /\ a.parts = types[q.of].parts /\ a.class = types[q.of].class
        /\ a.length = types[q.of].length /\ a.cv = q.cv
    BY <1>1
  <2>2. /\ b.kind = types[r.of].kind /\ b.name = types[r.of].name
        /\ b.parts = types[r.of].parts /\ b.class = types[r.of].class
        /\ b.length = types[r.of].length /\ b.cv = r.cv
    BY <1>2
  <2>3. a = b
    OBVIOUS
  <2> HIDE DEF a, b
  <2> QED
    BY <2>1, <2>2, <2>3
<1>4. types[q.of] = types[r.of]
  BY <1>1, <1>2, <1>3
<1>5. q.of \in 1 .. Len(objs) /\ r.of \in 1 .. Len(objs)
  OBVIOUS
<1>6. q.of = r.of
  BY <1>4, <1>5 DEF Stands
<1> QED
  BY <1>3, <1>6

LEMMA PartOfKey ==
  ASSUME NEW objs, NEW n, NEW key, KeySound(objs, n, key)
  PROVE  /\ DOMAIN key.parts = 1 .. Len(key.parts)
         /\ Len(key.parts) \in Nat
         /\ \A p \in DOMAIN key.parts : key.parts[p] \in [of : 1 .. n, cv : SUBSET Qualifier]
<1> DEFINE S == [of : 1 .. n, cv : SUBSET Qualifier]
<1>1. key.parts \in Seq(S)
  BY DEF KeySound
<1> HIDE DEF S
<1>2. /\ DOMAIN key.parts = 1 .. Len(key.parts)
      /\ Len(key.parts) \in Nat
      /\ \A p \in 1 .. Len(key.parts) : key.parts[p] \in S
  BY <1>1, LenZero
<1> QED
  BY <1>2 DEF S

\* An object for a class has the key of a class.
LEMMA ClassKey ==
  ASSUME program \in Programs, NEW objs, ObjectsSound(objs), NEW i \in 1 .. Len(objs),
         objs[i].kind = "Class"
  PROVE  /\ objs[i] = ClassTypeKey(objs[i].name)
         /\ objs[i].name # Null
<1>1. KeySound(objs, i - 1, objs[i])
  BY DEF ObjectsSound
<1>2. PICK c \in DOMAIN program.classes : objs[i] = ClassTypeKey(ClassName(c))
  BY <1>1 DEF KeySound
<1>3. objs[i].name = ClassName(c)
  BY <1>2 DEF ClassTypeKey, Key
<1>4. ClassName(c) # Null
  BY ClassFacts
<1> QED
  BY <1>2, <1>3, <1>4

\* The type of a key depends on the objects it refers to.
LEMMA TypeOfKeySame ==
  ASSUME NEW objs, NEW n, NEW key, KeySound(objs, n, key), NEW f, NEW h,
         \A i \in 1 .. n : f[i] = h[i]
  PROVE  TypeOfKey(key, f) = TypeOfKey(key, h)
<1>1. \A p \in DOMAIN key.parts : As(f, key.parts[p]) = As(h, key.parts[p])
  <2> SUFFICES ASSUME NEW p \in DOMAIN key.parts
               PROVE  As(f, key.parts[p]) = As(h, key.parts[p])
    OBVIOUS
  <2>1. key.parts[p] \in [of : 1 .. n, cv : SUBSET Qualifier]
    BY PartOfKey
  <2>2. f[key.parts[p].of] = h[key.parts[p].of]
    BY <2>1
  <2> QED
    BY <2>2 DEF As
<1>2. [p \in DOMAIN key.parts |-> As(f, key.parts[p])]
        = [p \in DOMAIN key.parts |-> As(h, key.parts[p])]
  BY <1>1
<1>3. key.class # 0 => f[key.class] = h[key.class]
  <2>1. key.class \in 0 .. n
    BY DEF KeySound
  <2> QED
    BY <2>1
<1>4. (IF key.class = 0 THEN Null ELSE f[key.class].name)
        = (IF key.class = 0 THEN Null ELSE h[key.class].name)
  BY <1>3
<1> QED
  BY <1>2, <1>4 DEF TypeOfKey

\* Two keys of the same type are equal.
LEMMA TypeOfKeyInjective ==
  ASSUME program \in Programs, NEW objs, ObjectsSound(objs), NEW types, Stands(objs, types),
         NEW k1, KeySound(objs, Len(objs), k1), NEW k2, KeySound(objs, Len(objs), k2),
         TypeOfKey(k1, types) = TypeOfKey(k2, types)
  PROVE  k1 = k2
<1> DEFINE Q == [of : 1 .. Len(objs), cv : SUBSET Qualifier]
           parts(k) == [p \in DOMAIN k.parts |-> As(types, k.parts[p])]
           class(k) == IF k.class = 0 THEN Null ELSE types[k.class].name
<1>1. /\ k1 \in ObjectKey
      /\ k2 \in ObjectKey
  BY DEF KeySound
<1>2. \A k : /\ TypeOfKey(k, types).kind = k.kind
             /\ TypeOfKey(k, types).name = k.name
             /\ TypeOfKey(k, types).parts = parts(k)
             /\ TypeOfKey(k, types).class = class(k)
             /\ TypeOfKey(k, types).length = k.length
  <2> SUFFICES ASSUME NEW k
               PROVE  /\ TypeOfKey(k, types).kind = k.kind
                      /\ TypeOfKey(k, types).name = k.name
                      /\ TypeOfKey(k, types).parts = parts(k)
                      /\ TypeOfKey(k, types).class = class(k)
                      /\ TypeOfKey(k, types).length = k.length
    OBVIOUS
  <2>1. TypeOfKey(k, types) = Term(k.kind, k.name, parts(k), class(k), k.length)
    BY DEF TypeOfKey
  <2> HIDE DEF parts, class
  <2> QED
    BY <2>1 DEF Term
<1>3. /\ k1.kind = k2.kind
      /\ k1.name = k2.name
      /\ parts(k1) = parts(k2)
      /\ class(k1) = class(k2)
      /\ k1.length = k2.length
  <2> HIDE DEF parts, class
  <2>1. \A k : /\ TypeOfKey(k, types) = TypeOfKey(k1, types) =>
                   /\ k.kind = k1.kind
                   /\ k.name = k1.name
                   /\ parts(k) = parts(k1)
                   /\ class(k) = class(k1)
                   /\ k.length = k1.length
    BY <1>2
  <2> QED
    BY <2>1
<1>4. k1.parts = k2.parts
  <2>1. DOMAIN k1.parts = DOMAIN k2.parts
    <3>1. DOMAIN parts(k1) = DOMAIN k1.parts /\ DOMAIN parts(k2) = DOMAIN k2.parts
      OBVIOUS
    <3> HIDE DEF parts
    <3> QED
      BY <1>3, <3>1
  <2>2. ASSUME NEW p \in DOMAIN k1.parts PROVE k1.parts[p] = k2.parts[p]
    <3>1. k1.parts[p] \in Q /\ k2.parts[p] \in Q
      BY <2>1, PartOfKey
    <3>2. parts(k1)[p] = As(types, k1.parts[p]) /\ parts(k2)[p] = As(types, k2.parts[p])
      BY <2>1
    <3> HIDE DEF parts
    <3>3. As(types, k1.parts[p]) = As(types, k2.parts[p])
      BY <1>3, <3>2
    <3> QED
      BY <3>1, <3>3, AsInjective
  <2>3. \A k \in ObjectKey : k.parts = [p \in DOMAIN k.parts |-> k.parts[p]]
    <3> SUFFICES ASSUME NEW k \in ObjectKey
                 PROVE  k.parts = [p \in DOMAIN k.parts |-> k.parts[p]]
      OBVIOUS
    <3>1. k.parts \in Seq([of : Nat, cv : SUBSET Qualifier])
      BY KeyFields
    <3>2. k.parts \in [1 .. Len(k.parts) -> [of : Nat, cv : SUBSET Qualifier]]
      BY <3>1, LenProperties
    <3> QED
      BY <3>2
  <2>4. [p \in DOMAIN k1.parts |-> k1.parts[p]] = [p \in DOMAIN k2.parts |-> k2.parts[p]]
    BY <2>1, <2>2
  <2> QED
    BY <1>1, <2>3, <2>4
<1>5. ASSUME NEW i \in 1 .. Len(objs), objs[i].kind = "Class"
      PROVE  /\ types[i].name = objs[i].name
             /\ types[i].name # Null
             /\ objs[i] = ClassTypeKey(types[i].name)
  <2>1. types[i].name = objs[i].name
    <3>1. types[i] = TypeOfKey(objs[i], types)
      BY DEF Stands
    <3> QED
      BY <1>2, <3>1
  <2> QED
    BY <1>5, <2>1, ClassKey
<1>6. k1.class = k2.class
  <2>1. \A k : KeySound(objs, Len(objs), k) /\ k.class # 0 =>
          k.class \in 1 .. Len(objs) /\ objs[k.class].kind = "Class"
    BY KeyFields DEF KeySound
  <2>2. CASE k1.class = 0 \/ k2.class = 0
    BY <1>3, <1>5, <2>1, <2>2
  <2>3. CASE k1.class # 0 /\ k2.class # 0
    <3>1. types[k1.class].name = types[k2.class].name
      BY <1>3, <2>3
    <3>2. /\ objs[k1.class] = ClassTypeKey(types[k1.class].name)
          /\ objs[k2.class] = ClassTypeKey(types[k2.class].name)
      BY <1>5, <2>1, <2>3
    <3>3. objs[k1.class] = objs[k2.class]
      BY <3>1, <3>2
    <3> QED
      BY <2>1, <2>3, <3>3 DEF ObjectsSound
  <2> QED
    BY <2>2, <2>3
<1> QED
  BY <1>1, <1>3, <1>4, <1>6, KeyFields

\* A request keeps objects and types one to one, and the types of older objects.
LEMMA InternStands ==
  ASSUME program \in Programs, NEW objs, ObjectsSound(objs), NEW types, Stands(objs, types),
         NEW key, KeySound(objs, Len(objs), key)
  PROVE  \E all :
           /\ Stands(Intern(objs, key), all)
           /\ \A i \in 1 .. Len(objs) : all[i] = types[i]
           /\ all[Find(Intern(objs, key), key)] = TypeOfKey(key, types)
<1> DEFINE n == Len(objs)
           more == Intern(objs, key)
<1>0. n \in Nat
  BY LenZero DEF ObjectsSound
<1>1. CASE Find(objs, key) # 0
  <2>1. more = objs /\ Find(more, key) = Find(objs, key)
    BY <1>1, InternGrows
  <2>2. Find(objs, key) \in 1 .. n /\ objs[Find(objs, key)] = key
    BY <1>1, FindFacts
  <2>3. types[Find(objs, key)] = TypeOfKey(key, types)
    BY <2>2 DEF Stands
  <2> HIDE DEF more
  <2>4. /\ Stands(more, types)
        /\ \A i \in 1 .. Len(objs) : types[i] = types[i]
        /\ types[Find(more, key)] = TypeOfKey(key, types)
    BY <2>1, <2>3
  <2> QED
    BY <2>4 DEF more
<1>2. CASE Find(objs, key) = 0
  <2>1. /\ ObjectsSound(more)
        /\ Len(more) = n + 1
        /\ \A i \in 1 .. n : more[i] = objs[i]
        /\ Find(more, key) = n + 1
        /\ more[n + 1] = key
    BY <1>2, InternGrows DEF Extends
  <2>2. \A i \in 1 .. n : objs[i] # key
    BY <1>2, FindFacts
  <2> HIDE DEF more
  <2> DEFINE all == [i \in 1 .. n + 1 |-> IF i = n + 1 THEN TypeOfKey(key, types)
                                          ELSE types[i]]
  <2>3. /\ \A i \in 1 .. n : i \in 1 .. n + 1 /\ i # n + 1
        /\ n + 1 \in 1 .. n + 1
        /\ \A i \in 1 .. n + 1 : i \in 1 .. n \/ i = n + 1
    BY <1>0
  <2>4. /\ \A i \in 1 .. n : all[i] = types[i]
        /\ all[n + 1] = TypeOfKey(key, types)
    BY <2>3
  <2> HIDE DEF all
  <2>5. ASSUME NEW i \in 1 .. n PROVE KeySound(objs, n, objs[i])
    <3>1. KeySound(objs, i - 1, objs[i])
      BY DEF ObjectsSound
    <3>2. i - 1 \in Nat /\ i - 1 <= n
      BY <1>0
    <3> QED
      BY <1>0, <3>1, <3>2, KeySoundKept
  <2>6. \A k : KeySound(objs, n, k) => TypeOfKey(k, all) = TypeOfKey(k, types)
    BY <2>4, TypeOfKeySame
  <2>7. \A i \in 1 .. n : TypeOfKey(objs[i], all) = types[i]
    BY <2>5, <2>6 DEF Stands
  <2>8. TypeOfKey(key, all) = TypeOfKey(key, types)
    BY <2>6
  <2>9. \A i \in 1 .. n + 1 : all[i] = TypeOfKey(more[i], all)
    BY <2>1, <2>3, <2>4, <2>7, <2>8
  <2>10. \A i \in 1 .. n : types[i] # TypeOfKey(key, types)
    <3> SUFFICES ASSUME NEW i \in 1 .. n, types[i] = TypeOfKey(key, types) PROVE FALSE
      OBVIOUS
    <3>1. TypeOfKey(objs[i], types) = TypeOfKey(key, types)
      BY DEF Stands
    <3>2. objs[i] = key
      BY <2>5, <3>1, TypeOfKeyInjective
    <3> QED
      BY <2>2, <3>2
  <2>11. \A i, j \in 1 .. n + 1 : all[i] = all[j] => i = j
    <3>1. \A i, j \in 1 .. n : types[i] = types[j] => i = j
      BY DEF Stands
    <3> QED
      BY <2>3, <2>4, <2>10, <3>1
  <2>12. Stands(more, all)
    BY <2>1, <2>9, <2>11 DEF Stands
  <2> QED
    BY <2>1, <2>4, <2>12 DEF more
<1> QED
  BY <1>1, <1>2

-----------------------------------------------------------------------------
(* The keys that a cable type requests stand for what it denotes. *)

\* A key that refers to the first m objects.
LEMMA MakeKey ==
  ASSUME NEW objs, NEW m \in Nat,
         NEW k \in ObjectKind, k # "Class", NEW n \in Name \cup Fundamental \cup {Null},
         NEW p \in Seq([of : 1 .. m, cv : SUBSET Qualifier]),
         NEW c \in 0 .. m, c # 0 => objs[c].kind = "Class", k = "PointerToMember" <=> c # 0,
         k \in {"Pointer", "PointerToMember", "Reference"} => Len(p) = 1,
         NEW l \in Nat
  PROVE  KeySound(objs, m, Key(k, n, p, c, l))
<1> DEFINE key == Key(k, n, p, c, l)
<1>1. /\ key.kind = k /\ key.name = n /\ key.parts = p /\ key.class = c /\ key.length = l
  BY DEF Key
<1>2. p \in Seq([of : Nat, cv : SUBSET Qualifier])
  <2> DEFINE S == [of : 1 .. m, cv : SUBSET Qualifier]
             R == [of : Nat, cv : SUBSET Qualifier]
  <2>1. S \subseteq R /\ p \in Seq(S)
    OBVIOUS
  <2> HIDE DEF S, R
  <2>2. p \in Seq(R)
    BY <2>1, SeqMonotonic
  <2> QED
    BY <2>2 DEF R
<1>3. c \in Nat
  OBVIOUS
<1>4. key \in ObjectKey
  BY <1>2, <1>3 DEF Key, ObjectKey
<1> HIDE DEF key
<1>5. KeySound(objs, m, key)
  BY <1>1, <1>4 DEF KeySound
<1> QED
  BY <1>5 DEF key

\* More qualifiers on a reference are more qualifiers on what it stands for.
LEMMA MoreQualified ==
  ASSUME NEW types, Stands(objects, types), NEW q \in CvQualifiedType,
         NEW v \in SUBSET Qualifier
  PROVE  /\ GetMoreQualifiedType(q, v) \in CvQualifiedType
         /\ GetMoreQualifiedType(q, v) = [of |-> q.of, cv |-> q.cv \cup v]
         /\ As(types, GetMoreQualifiedType(q, v)) = GetMoreQualifiedType(As(types, q), v)
<1>1. GetMoreQualifiedType(q, v) = [of |-> q.of, cv |-> q.cv \cup v]
  <2>1. PICK o, w : q = [of |-> o, cv |-> w]
    BY DEF CvQualifiedType
  <2> QED
    BY <2>1 DEF GetMoreQualifiedType
<1>2. PICK r : r = [of |-> q.of, cv |-> q.cv \cup v]
  OBVIOUS
<1>3. r \in [of : 1 .. Len(objects), cv : SUBSET Qualifier]
  BY <1>2 DEF CvQualifiedType
<1>4. q \in [of : 1 .. Len(objects), cv : SUBSET Qualifier]
  BY DEF CvQualifiedType
<1>a. \A x \in [of : 1 .. Len(objects), cv : SUBSET Qualifier] :
        As(types, x) =
          [ kind |-> types[x.of].kind, name |-> types[x.of].name,
            parts |-> types[x.of].parts, class |-> types[x.of].class,
            length |-> types[x.of].length, cv |-> x.cv ]
  <2> TAKE x \in [of : 1 .. Len(objects), cv : SUBSET Qualifier]
  <2>1. /\ As(types, x) =
             [ kind |-> types[x.of].kind, name |-> types[x.of].name,
               parts |-> types[x.of].parts, class |-> types[x.of].class,
               length |-> types[x.of].length, cv |-> x.cv ]
        /\ types[x.of] =
             [ kind |-> types[x.of].kind, name |-> types[x.of].name,
               parts |-> types[x.of].parts, class |-> types[x.of].class,
               length |-> types[x.of].length, cv |-> {} ]
    BY AsFacts
  <2> QED
    BY <2>1
<1>b. r.of = q.of /\ r.cv = q.cv \cup v
  BY <1>2
<1>5. As(types, r) =
        [ kind |-> types[q.of].kind, name |-> types[q.of].name,
          parts |-> types[q.of].parts, class |-> types[q.of].class,
          length |-> types[q.of].length, cv |-> q.cv \cup v ]
  BY <1>3, <1>a, <1>b
<1>6. As(types, q) =
        [ kind |-> types[q.of].kind, name |-> types[q.of].name,
          parts |-> types[q.of].parts, class |-> types[q.of].class,
          length |-> types[q.of].length, cv |-> q.cv ]
  BY <1>4, <1>a
<1>7. GetMoreQualifiedType(As(types, q), v) =
        [ kind |-> types[q.of].kind, name |-> types[q.of].name,
          parts |-> types[q.of].parts, class |-> types[q.of].class,
          length |-> types[q.of].length, cv |-> q.cv \cup v ]
  BY <1>6 DEF GetMoreQualifiedType
<1> QED
  BY <1>1, <1>2, <1>3, <1>5, <1>7 DEF CvQualifiedType

\* A key without parts.
LEMMA MakeNamedKey ==
  ASSUME NEW types, NEW m \in Nat, NEW k \in ObjectKind,
         k \notin {"Class", "Pointer", "PointerToMember", "Reference"},
         NEW n \in Name \cup Fundamental \cup {Null}
  PROVE  /\ KeySound(objects, m, Key(k, n, << >>, 0, 0))
         /\ Key(k, n, << >>, 0, 0).kind = k
         /\ TypeOfKey(Key(k, n, << >>, 0, 0), types) = Term(k, n, << >>, Null, 0)
<1> DEFINE key == Key(k, n, << >>, 0, 0)
<1>1. /\ key.kind = k /\ key.name = n /\ key.parts = << >> /\ key.class = 0 /\ key.length = 0
  BY DEF Key
<1>2. [x \in DOMAIN << >> |-> As(types, << >>[x])] = << >>
  OBVIOUS
<1>3. key \in ObjectKey
  BY DEF Key, ObjectKey
<1> HIDE DEF key
<1>4. TypeOfKey(key, types) = Term(k, n, << >>, Null, 0)
  BY <1>1, <1>2 DEF TypeOfKey
<1>5. << >> \in Seq([of : 1 .. m, cv : SUBSET Qualifier]) /\ 0 \in 0 .. m
  OBVIOUS
<1>6. KeySound(objects, m, key)
  BY <1>1, <1>3, <1>5 DEF KeySound
<1> QED
  BY <1>1, <1>4, <1>6 DEF key

LEMMA OnePart ==
  ASSUME NEW types, NEW q \in CvQualifiedType
  PROVE  /\ << q >> \in Seq([of : 1 .. Len(objects), cv : SUBSET Qualifier])
         /\ [x \in DOMAIN << q >> |-> As(types, << q >>[x])] = << As(types, q) >>
<1>1. << q >> \in Seq([of : 1 .. Len(objects), cv : SUBSET Qualifier])
  BY DEF CvQualifiedType
<1>2. DOMAIN << q >> = 1 .. 1 /\ << q >>[1] = q
  OBVIOUS
<1>3. [x \in DOMAIN << q >> |-> As(types, << q >>[x])] = [x \in 1 .. 1 |-> As(types, q)]
  BY <1>2
<1>4. << As(types, q) >> = [x \in 1 .. 1 |-> As(types, q)]
  OBVIOUS
<1> QED
  BY <1>1, <1>3, <1>4

\* The parts of a function type.
LEMMA FunctionParts ==
  ASSUME NEW types, NEW q \in CvQualifiedType, NEW n \in Nat,
         NEW qs \in [1 .. n -> CvQualifiedType]
  PROVE  /\ << q >> \o qs \in Seq([of : 1 .. Len(objects), cv : SUBSET Qualifier])
         /\ [x \in DOMAIN (<< q >> \o qs) |-> As(types, (<< q >> \o qs)[x])]
              = << As(types, q) >> \o [i \in 1 .. n |-> As(types, qs[i])]
<1> DEFINE Q == [of : 1 .. Len(objects), cv : SUBSET Qualifier]
           s == << q >> \o qs
           T == {As(types, r) : r \in CvQualifiedType}
           ms == [i \in 1 .. n |-> As(types, qs[i])]
           m == << As(types, q) >> \o ms
           map == [x \in DOMAIN s |-> As(types, s[x])]
<1>1. q \in Q /\ qs \in [1 .. n -> Q]
  BY DEF CvQualifiedType
<1> HIDE DEF Q
<1>2. qs \in Seq(Q) /\ Len(qs) = n
  BY <1>1, FunctionFacts
<1>3. /\ s \in Seq(Q)
      /\ Len(s) = n + 1
      /\ s[1] = q
      /\ \A i \in 1 .. n : s[i + 1] = qs[i]
  BY <1>1, <1>2, ElementsAfter
<1>4. ms \in [1 .. n -> T] /\ As(types, q) \in T
  OBVIOUS
<1> HIDE DEF T
<1>5. ms \in Seq(T) /\ Len(ms) = n /\ \A i \in 1 .. n : ms[i] = As(types, qs[i])
  BY <1>4, FunctionFacts
<1> HIDE DEF ms
<1>6. /\ m \in Seq(T)
      /\ Len(m) = n + 1
      /\ m[1] = As(types, q)
      /\ \A i \in 1 .. n : m[i + 1] = ms[i]
  BY <1>4, <1>5, ElementsAfter
<1>7. DOMAIN s = 1 .. n + 1 /\ m \in [1 .. n + 1 -> T]
  BY <1>3, <1>6, LenProperties
<1> HIDE DEF s, m
<1>8. ASSUME NEW x \in 1 .. n + 1 PROVE As(types, s[x]) = m[x]
  <2>1. CASE x = 1
    BY <1>3, <1>6, <2>1
  <2>2. CASE x # 1
    <3>1. PICK i \in 1 .. n : x = i + 1
      <4>1. x - 1 \in 1 .. n /\ x = (x - 1) + 1
        BY <2>2
      <4> QED
        BY <4>1
    <3>2. s[x] = qs[i] /\ m[x] = ms[i]
      BY <1>3, <1>6, <3>1
    <3> QED
      BY <1>5, <3>2
  <2> QED
    BY <2>1, <2>2
<1>9. map = m
  BY <1>7, <1>8
<1> QED
  BY <1>3, <1>9 DEF s, m, ms, Q, map

\* What a type needs is created.
Made(t) ==
  /\ Info(t).kind \in {"Pointer", "Reference", "Array", "Function", "Method", "Offset"} =>
       Info(t).target \in CableType /\ Cxx(Info(t).target) # NoCxxType
  /\ Info(t).kind \in {"Function", "Method"} =>
       \A i \in 1 .. Len(Info(t).args) : Cxx(Info(t).args[i]) # NoCxxType
  /\ Info(t).kind \in {"Class", "Method", "Offset"} => ClassDone(Info(t).class)

\* A key for t, of which there is a class already.
Meant(t, key, types) ==
  /\ KeySound(objects, Len(objects), key)
  /\ key.kind = "Class" => Find(objects, key) # 0
  /\ Meaning[t] = Qualified(TypeOfKey(key, types), TopQualifiers(t))

\* The types of the objects and of the cable types that are created.
Known(types) ==
  /\ program \in Programs
  /\ ObjectsSound(objects)
  /\ Stands(objects, types)
  /\ Denotes(types)

LEMMA NamedKeyMeant ==
  ASSUME NEW types, Known(types), NEW t \in CableType, Made(t),
         Info(t).kind \in {"Fundamental", "Enumeration", "Class"},
         ~ Broken(t)
  PROVE  \E key : Keys(t) = << key >> /\ Meant(t, key, types)
<1> DEFINE k == Info(t).kind
           n == Len(objects)
<1>0. program \in Programs /\ n \in Nat
  BY LenZero DEF Known, ObjectsSound
<1>1. /\ Info(t).kind \in {"Fundamental", "Enumeration"} => Info(t).name \in Name
      /\ Info(t).kind = "Class" => Info(t).class \in DOMAIN program.classes
      /\ Null \notin CableType
      /\ Info(t).cv \in SUBSET Qualifier
  BY <1>0, TypeFacts
<1>2. TopQualifiers(t) = Info(t).cv
  BY DEF TopQualifiers
<1>3. Meaning[t] = Denoted(t, Meaning)
  BY <1>0, MeaningUnfold
<1>4. << >> \in Seq([of : 1 .. n, cv : SUBSET Qualifier])
  OBVIOUS
<1>5. [x \in DOMAIN << >> |-> As(types, << >>[x])] = << >>
  OBVIOUS
<1>6. CASE k = "Fundamental"
  <2> DEFINE id == IdOfName[Info(t).name]
             key == FundamentalTypeKey(id)
  <2>1. id \in Fundamental
    BY <1>1, <1>6, TypeSystemAssumption DEF Broken
  <2>2. Keys(t) = << key >>
    BY <1>6 DEF Keys
  <2>3. /\ KeySound(objects, n, key)
        /\ key.kind = "Fundamental"
        /\ TypeOfKey(key, types) = Term("Fundamental", id, << >>, Null, 0)
    <3> HIDE DEF id, n
    <3>1. "Fundamental" \in ObjectKind
      BY DEF ObjectKind
    <3>2. /\ KeySound(objects, n, Key("Fundamental", id, << >>, 0, 0))
          /\ Key("Fundamental", id, << >>, 0, 0).kind = "Fundamental"
          /\ TypeOfKey(Key("Fundamental", id, << >>, 0, 0), types) =
               Term("Fundamental", id, << >>, Null, 0)
      BY <1>0, <2>1, <3>1, MakeNamedKey
    <3> QED
      BY <3>2 DEF FundamentalTypeKey
  <2>4. Meaning[t] = GetMoreQualifiedType(Term("Fundamental", id, << >>, Null, 0), Info(t).cv)
    BY <1>3, <1>6 DEF Denoted, PointsToMember
  <2> HIDE DEF key, id
  <2>5. Meaning[t] = Qualified(TypeOfKey(key, types), TopQualifiers(t))
    BY <1>2, <2>3, <2>4, TermFacts
  <2>6. Meant(t, key, types)
    BY <2>3, <2>5 DEF Meant
  <2> QED
    BY <2>2, <2>6
<1>7. CASE k = "Enumeration"
  <2> DEFINE name == Info(t).name
             key == EnumerationTypeKey(name)
  <2>1. name \in Name
    BY <1>1, <1>7
  <2>2. Keys(t) = << key >>
    BY <1>7 DEF Keys
  <2>3. /\ KeySound(objects, n, key)
        /\ key.kind = "Enumeration"
        /\ TypeOfKey(key, types) = Term("Enumeration", name, << >>, Null, 0)
    <3> HIDE DEF name, n
    <3>1. "Enumeration" \in ObjectKind
      BY DEF ObjectKind
    <3>2. /\ KeySound(objects, n, Key("Enumeration", name, << >>, 0, 0))
          /\ Key("Enumeration", name, << >>, 0, 0).kind = "Enumeration"
          /\ TypeOfKey(Key("Enumeration", name, << >>, 0, 0), types) =
               Term("Enumeration", name, << >>, Null, 0)
      BY <1>0, <2>1, <3>1, MakeNamedKey
    <3> QED
      BY <3>2 DEF EnumerationTypeKey
  <2>4. Meaning[t] = GetMoreQualifiedType(Term("Enumeration", name, << >>, Null, 0), Info(t).cv)
    BY <1>3, <1>7 DEF Denoted, PointsToMember
  <2> HIDE DEF key, name
  <2>5. Meaning[t] = Qualified(TypeOfKey(key, types), TopQualifiers(t))
    BY <1>2, <2>3, <2>4, TermFacts
  <2>6. Meant(t, key, types)
    BY <2>3, <2>5 DEF Meant
  <2> QED
    BY <2>2, <2>6
<1>8. CASE k = "Class"
  <2> DEFINE c == Info(t).class
             name == ClassName(c)
             key == ClassTypeKey(name)
  <2>1. c \in DOMAIN program.classes /\ ClassObject(c) # 0
    BY <1>1, <1>8 DEF Made, ClassDone
  <2>2. Keys(t) = << key >>
    BY <1>8 DEF Keys
  <2>3. Find(objects, key) # 0
    BY <2>1 DEF ClassObject
  <2>4. /\ Find(objects, key) \in 1 .. n
        /\ objects[Find(objects, key)] = key
    BY <2>3, FindFacts
  <2> HIDE DEF n
  <2>5. KeySound(objects, n, key)
    <3>1. PICK i \in 1 .. n : objects[i] = key
      BY <2>4
    <3>2. KeySound(objects, i - 1, key)
      BY <3>1 DEF Known, ObjectsSound, n
    <3>3. i - 1 \in Nat /\ i - 1 <= n
      BY <1>0
    <3> QED
      BY <1>0, <3>2, <3>3, KeySoundKept
  <2>6. TypeOfKey(key, types) = Term("Class", name, << >>, Null, 0)
    <3> HIDE DEF name
    <3>1. /\ key.kind = "Class" /\ key.name = name /\ key.parts = << >>
          /\ key.class = 0 /\ key.length = 0
      BY DEF ClassTypeKey, Key
    <3> HIDE DEF key
    <3> QED
      BY <1>5, <3>1 DEF TypeOfKey
  <2>7. Meaning[t] = GetMoreQualifiedType(Term("Class", name, << >>, Null, 0), Info(t).cv)
    BY <1>3, <1>8 DEF Denoted, PointsToMember
  <2> HIDE DEF key, name, c
  <2>8. Meaning[t] = Qualified(TypeOfKey(key, types), TopQualifiers(t))
    BY <1>2, <2>6, <2>7, TermFacts
  <2>9. Meant(t, key, types)
    BY <2>3, <2>5, <2>8 DEF Meant, n
  <2> QED
    BY <2>2, <2>9
<1> QED
  BY <1>6, <1>7, <1>8

LEMMA CreatedMeaning ==
  ASSUME NEW types, Known(types), NEW u \in CableType, Cxx(u) # NoCxxType
  PROVE  Cxx(u) \in CvQualifiedType /\ Meaning[u] = As(types, Cxx(u))
BY DEF Known, Denotes

LEMMA ClassObjectNamed ==
  ASSUME NEW types, Known(types), NEW c \in DOMAIN program.classes, ClassObject(c) # 0
  PROVE  /\ ClassObject(c) \in 1 .. Len(objects)
         /\ objects[ClassObject(c)] = ClassTypeKey(ClassName(c))
         /\ objects[ClassObject(c)].kind = "Class"
         /\ types[ClassObject(c)].name = ClassName(c)
<1> DEFINE i == ClassObject(c)
<1>1. i \in 1 .. Len(objects) /\ objects[i] = ClassTypeKey(ClassName(c))
  BY FindFacts DEF ClassObject
<1> HIDE DEF i
<1>2. objects[i].kind = "Class" /\ objects[i].name = ClassName(c)
  BY <1>1 DEF ClassTypeKey, Key
<1>3. types[i] = TypeOfKey(objects[i], types)
  BY <1>1 DEF Known, Stands
<1>4. types[i].name = objects[i].name
  BY <1>3 DEF TypeOfKey, Term
<1> QED
  BY <1>1, <1>2, <1>4 DEF i

\* A key with one part.
LEMMA MakeOnePartKey ==
  ASSUME NEW types, Len(objects) \in Nat, NEW k \in ObjectKind, k # "Class",
         NEW q \in CvQualifiedType,
         NEW c \in 0 .. Len(objects), c # 0 => objects[c].kind = "Class",
         k = "PointerToMember" <=> c # 0, NEW l \in Nat
  PROVE  /\ KeySound(objects, Len(objects), Key(k, Null, << q >>, c, l))
         /\ Key(k, Null, << q >>, c, l).kind = k
         /\ TypeOfKey(Key(k, Null, << q >>, c, l), types) =
              Term(k, Null, << As(types, q) >>, IF c = 0 THEN Null ELSE types[c].name, l)
<1> DEFINE key == Key(k, Null, << q >>, c, l)
<1>1. /\ key.kind = k /\ key.name = Null /\ key.parts = << q >> /\ key.class = c
      /\ key.length = l
  BY DEF Key
<1>2. /\ << q >> \in Seq([of : 1 .. Len(objects), cv : SUBSET Qualifier])
      /\ [x \in DOMAIN << q >> |-> As(types, << q >>[x])] = << As(types, q) >>
  BY OnePart
<1>3. /\ KeySound(objects, Len(objects), key)
      /\ TypeOfKey(key, types) =
           Term( k, Null, [x \in DOMAIN << q >> |-> As(types, << q >>[x])],
                 IF c = 0 THEN Null ELSE types[c].name, l )
  <2>1. Null \in Name \cup Fundamental \cup {Null}
    OBVIOUS
  <2>2. key \in ObjectKey
    <3>1. << q >> \in Seq([of : Nat, cv : SUBSET Qualifier])
      BY DEF CvQualifiedType
    <3>2. c \in Nat
      OBVIOUS
    <3> QED
      BY <2>1, <3>1, <3>2 DEF Key, ObjectKey
  <2> HIDE DEF key
  <2>3. KeySound(objects, Len(objects), key)
    <3>1. Len(<< q >>) = 1
      OBVIOUS
    <3> QED
      BY <1>1, <1>2, <2>2, <3>1 DEF KeySound
  <2>4. TypeOfKey(key, types) =
           Term( k, Null, [x \in DOMAIN << q >> |-> As(types, << q >>[x])],
                 IF c = 0 THEN Null ELSE types[c].name, l )
    BY <1>1 DEF TypeOfKey
  <2> QED
    BY <2>3, <2>4
<1> HIDE DEF key
<1> QED
  BY <1>1, <1>2, <1>3 DEF key

LEMMA OnePartKeyMeant ==
  ASSUME NEW types, Known(types), NEW t \in CableType, Made(t),
         Info(t).kind \in {"Pointer", "Reference", "Array", "Offset"},
         ~ PointsToMember(t)
  PROVE  \E key : Keys(t) = << key >> /\ Meant(t, key, types)
<1> DEFINE k == Info(t).kind
           n == Len(objects)
           u == Info(t).target
           q == Cxx(u)
           r == GetMoreQualifiedType(q, Info(t).cv)
           T == Meaning[u]
           M == GetMoreQualifiedType(T, Info(t).cv)
<1>0. program \in Programs /\ n \in Nat /\ Stands(objects, types)
  BY LenZero DEF Known, ObjectsSound
<1>1. /\ Info(t).cv \in SUBSET Qualifier
      /\ Info(t).length \in Nat
      /\ k = "Reference" => Info(t).cv = {}
      /\ k = "Offset" => Info(t).class \in DOMAIN program.classes
  BY <1>0, TypeFacts
<1>2. u \in CableType /\ q # NoCxxType
  BY DEF Made
<1>3. q \in CvQualifiedType /\ T = As(types, q)
  BY <1>2, CreatedMeaning
<1>4. r \in CvQualifiedType /\ M = As(types, r)
  BY <1>0, <1>1, <1>3, MoreQualified
<1>5. Meaning[t] = Denoted(t, Meaning)
  BY <1>0, MeaningUnfold
<1>6. \A a \in ObjectKind : a \notin {"Class", "PointerToMember"} =>
        \A x \in CvQualifiedType, l \in Nat :
          /\ KeySound(objects, n, Key(a, Null, << x >>, 0, l))
          /\ Key(a, Null, << x >>, 0, l).kind = a
          /\ TypeOfKey(Key(a, Null, << x >>, 0, l), types) =
               Term(a, Null, << As(types, x) >>, Null, l)
  <2> SUFFICES ASSUME NEW a \in ObjectKind, a \notin {"Class", "PointerToMember"},
                      NEW x \in CvQualifiedType, NEW l \in Nat
               PROVE  /\ KeySound(objects, n, Key(a, Null, << x >>, 0, l))
                      /\ Key(a, Null, << x >>, 0, l).kind = a
                      /\ TypeOfKey(Key(a, Null, << x >>, 0, l), types) =
                           Term(a, Null, << As(types, x) >>, Null, l)
    BY Zenon
  <2>1. 0 \in 0 .. n
    BY <1>0
  <2> HIDE DEF n
  <2>2. /\ KeySound(objects, n, Key(a, Null, << x >>, 0, l))
        /\ Key(a, Null, << x >>, 0, l).kind = a
        /\ TypeOfKey(Key(a, Null, << x >>, 0, l), types) =
             Term(a, Null, << As(types, x) >>, IF 0 = 0 THEN Null ELSE types[0].name, l)
    BY <1>0, <2>1, MakeOnePartKey DEF n
  <2> QED
    BY <2>2
<1> HIDE DEF n, u, q, r, T, M
<1>7. CASE k = "Pointer"
  <2> DEFINE key == PointerTypeKey(q)
  <2>1. Keys(t) = << key >>
    BY <1>7 DEF Keys, q, u
  <2>2. /\ KeySound(objects, n, key)
        /\ key.kind = "Pointer"
        /\ TypeOfKey(key, types) = Term("Pointer", Null, << T >>, Null, 0)
    <3>1. "Pointer" \in ObjectKind
      BY DEF ObjectKind
    <3> QED
      BY <1>3, <1>6, <3>1 DEF PointerTypeKey
  <2>3. TopQualifiers(t) = Info(t).cv
    BY <1>7 DEF TopQualifiers
  <2>4. Meaning[t] = GetMoreQualifiedType(Term("Pointer", Null, << T >>, Null, 0), Info(t).cv)
    BY <1>5, <1>7 DEF Denoted, T, u
  <2> HIDE DEF key
  <2>5. Meaning[t] = Qualified(TypeOfKey(key, types), TopQualifiers(t))
    BY <2>2, <2>3, <2>4, TermFacts
  <2>6. Meant(t, key, types)
    BY <2>2, <2>5 DEF Meant, n
  <2> QED
    BY <2>1, <2>6
<1>8. CASE k = "Reference"
  <2> DEFINE key == ReferenceTypeKey(q)
  <2>1. Keys(t) = << key >>
    BY <1>8 DEF Keys, q, u
  <2>2. /\ KeySound(objects, n, key)
        /\ key.kind = "Reference"
        /\ TypeOfKey(key, types) = Term("Reference", Null, << T >>, Null, 0)
    <3>1. "Reference" \in ObjectKind
      BY DEF ObjectKind
    <3> QED
      BY <1>3, <1>6, <3>1 DEF ReferenceTypeKey
  <2>3. TopQualifiers(t) = {}
    BY <1>1, <1>8 DEF TopQualifiers
  <2>4. Meaning[t] = Term("Reference", Null, << T >>, Null, 0)
    BY <1>5, <1>8 DEF Denoted, PointsToMember, T, u
  <2> HIDE DEF key
  <2>5. Meaning[t] = Qualified(TypeOfKey(key, types), TopQualifiers(t))
    BY <2>2, <2>3, <2>4, TermFacts
  <2>6. Meant(t, key, types)
    BY <2>2, <2>5 DEF Meant, n
  <2> QED
    BY <2>1, <2>6
<1>9. CASE k = "Array"
  <2> DEFINE l == Info(t).length
             key == ArrayTypeKey(r, l)
  <2>1. Keys(t) = << key >>
    BY <1>9 DEF Keys, r, q, u
  <2>2. /\ KeySound(objects, n, key)
        /\ key.kind = "Array"
        /\ TypeOfKey(key, types) = Term("Array", Null, << M >>, Null, l)
    <3>1. "Array" \in ObjectKind
      BY DEF ObjectKind
    <3> QED
      BY <1>1, <1>4, <1>6, <3>1 DEF ArrayTypeKey
  <2>3. TopQualifiers(t) = {}
    BY <1>9 DEF TopQualifiers
  <2>4. Meaning[t] = Term("Array", Null, << M >>, Null, l)
    BY <1>5, <1>9 DEF Denoted, PointsToMember, M, T, u
  <2> HIDE DEF key, l
  <2>5. Meaning[t] = Qualified(TypeOfKey(key, types), TopQualifiers(t))
    BY <2>2, <2>3, <2>4, TermFacts
  <2>6. Meant(t, key, types)
    BY <2>2, <2>5 DEF Meant, n
  <2> QED
    BY <2>1, <2>6
<1>10. CASE k = "Offset"
  <2> DEFINE c == Info(t).class
             o == ClassObject(c)
             key == PointerToMemberTypeKey(r, o)
  <2>1. Keys(t) = << key >>
    BY <1>10 DEF Keys, r, q, u
  <2>2. c \in DOMAIN program.classes /\ o # 0
    BY <1>1, <1>10 DEF Made, ClassDone
  <2>3. /\ o \in 1 .. n
        /\ objects[o].kind = "Class"
        /\ types[o].name = ClassName(c)
    BY <2>2, ClassObjectNamed DEF n
  <2> HIDE DEF o, c
  <2>4. /\ KeySound(objects, n, key)
        /\ key.kind = "PointerToMember"
        /\ TypeOfKey(key, types) = Term("PointerToMember", Null, << M >>, ClassName(c), 0)
    <3>1. "PointerToMember" \in ObjectKind /\ o \in 0 .. n /\ n \in Nat
      BY <1>0, <2>3 DEF ObjectKind, n
    <3>2. /\ KeySound(objects, n, Key("PointerToMember", Null, << r >>, o, 0))
          /\ Key("PointerToMember", Null, << r >>, o, 0).kind = "PointerToMember"
          /\ TypeOfKey(Key("PointerToMember", Null, << r >>, o, 0), types) =
               Term("PointerToMember", Null, << As(types, r) >>,
                    IF o = 0 THEN Null ELSE types[o].name, 0)
      BY <1>4, <2>2, <2>3, <3>1, MakeOnePartKey DEF n
    <3> QED
      BY <1>4, <2>2, <2>3, <3>2 DEF PointerToMemberTypeKey
  <2>5. TopQualifiers(t) = {}
    BY <1>10 DEF TopQualifiers
  <2>6. Meaning[t] = Term("PointerToMember", Null, << M >>, ClassName(c), 0)
    BY <1>5, <1>10 DEF Denoted, PointsToMember, M, T, u, c
  <2>7. Keys(t) = << key >>
    BY <2>1 DEF o, c
  <2> HIDE DEF key
  <2>8. Meaning[t] = Qualified(TypeOfKey(key, types), TopQualifiers(t))
    BY <2>4, <2>5, <2>6, TermFacts
  <2>9. Meant(t, key, types)
    BY <2>4, <2>8 DEF Meant, n
  <2> QED
    BY <2>7, <2>9
<1> QED
  BY <1>7, <1>8, <1>9, <1>10

\* The type of the function that t is, or that it is a pointer to as a member.
FunctionMeaning(t) ==
  Term( "Function", Null,
        << Meaning[Info(t).target] >> \o [i \in 1 .. Len(Info(t).args) |-> Meaning[Info(t).args[i]]],
        Null, 0 )

LEMMA FunctionKeyMeant ==
  ASSUME NEW types, Known(types), NEW t \in CableType, Made(t),
         Info(t).kind \in {"Function", "Method"}
  PROVE  /\ KeySound(objects, Len(objects), FunctionKey(t))
         /\ FunctionKey(t).kind = "Function"
         /\ TypeOfKey(FunctionKey(t), types) = FunctionMeaning(t)
<1> DEFINE n == Len(objects)
           a == Len(Info(t).args)
           q == Cxx(Info(t).target)
           qs == [i \in 1 .. a |-> Cxx(Info(t).args[i])]
           ms == [i \in 1 .. a |-> Meaning[Info(t).args[i]]]
           key == FunctionKey(t)
<1>0. program \in Programs /\ n \in Nat
  BY LenZero DEF Known, ObjectsSound
<1>1. /\ a \in Nat
      /\ \A i \in 1 .. a : Info(t).args[i] \in CableType
  BY <1>0, TypeFacts
<1>2. /\ Info(t).target \in CableType
      /\ q # NoCxxType
      /\ \A i \in 1 .. a : Cxx(Info(t).args[i]) # NoCxxType
  BY DEF Made
<1>3. q \in CvQualifiedType /\ Meaning[Info(t).target] = As(types, q)
  BY <1>2, CreatedMeaning
<1>4. \A i \in 1 .. a : /\ Cxx(Info(t).args[i]) \in CvQualifiedType
                        /\ Meaning[Info(t).args[i]] = As(types, Cxx(Info(t).args[i]))
  BY <1>1, <1>2, CreatedMeaning
<1> HIDE DEF a, q
<1>5. qs \in [1 .. a -> CvQualifiedType]
  BY <1>4
<1>6. ms = [i \in 1 .. a |-> As(types, qs[i])]
  BY <1>4
<1>7. key = Key("Function", Null, << q >> \o qs, 0, 0)
  BY DEF FunctionKey, FunctionTypeKey, q, a
<1> HIDE DEF qs, ms, key
<1> DEFINE p == << q >> \o qs
<1>8. /\ p \in Seq([of : 1 .. n, cv : SUBSET Qualifier])
      /\ [x \in DOMAIN p |-> As(types, p[x])] = << As(types, q) >> \o ms
  <2>1. /\ p \in Seq([of : 1 .. Len(objects), cv : SUBSET Qualifier])
        /\ [x \in DOMAIN p |-> As(types, p[x])]
             = << As(types, q) >> \o [i \in 1 .. a |-> As(types, qs[i])]
    BY <1>1, <1>3, <1>5, FunctionParts, ZenonT(30)
  <2> HIDE DEF p
  <2> QED
    BY <1>6, <2>1
<1> HIDE DEF p
<1>9. /\ key.kind = "Function" /\ key.name = Null /\ key.parts = p /\ key.class = 0
      /\ key.length = 0
  BY <1>7 DEF p, Key
<1>10. key \in ObjectKey
  <2>1. p \in Seq([of : Nat, cv : SUBSET Qualifier])
    <3> DEFINE S == [of : 1 .. n, cv : SUBSET Qualifier]
               R == [of : Nat, cv : SUBSET Qualifier]
    <3>1. S \subseteq R /\ p \in Seq(S)
      BY <1>8
    <3> HIDE DEF S, R
    <3>2. p \in Seq(R)
      BY <3>1, SeqMonotonic
    <3> QED
      BY <3>2 DEF R
  <2>2. "Function" \in ObjectKind /\ Null \in Name \cup Fundamental \cup {Null} /\ 0 \in Nat
    BY DEF ObjectKind
  <2> QED
    BY <1>7, <2>1, <2>2 DEF p, Key, ObjectKey
<1>11. KeySound(objects, n, key)
  <2>1. 0 \in 0 .. n
    BY <1>0
  <2> HIDE DEF n
  <2> QED
    BY <1>8, <1>9, <1>10, <2>1 DEF KeySound
<1>12. TypeOfKey(key, types) = Term("Function", Null, << As(types, q) >> \o ms, Null, 0)
  BY <1>8, <1>9 DEF TypeOfKey
<1>13. FunctionMeaning(t) = Term("Function", Null, << As(types, q) >> \o ms, Null, 0)
  BY <1>3 DEF FunctionMeaning, ms, a
<1> QED
  BY <1>9, <1>11, <1>12, <1>13 DEF key

LEMMA KeyMeant ==
  ASSUME NEW types, Known(types), NEW t \in CableType, Made(t), ~ Broken(t),
         ~ PointsToMember(t), Info(t).kind # "Method"
  PROVE  \E key : Keys(t) = << key >> /\ Meant(t, key, types)
<1>0. program \in Programs
  BY DEF Known
<1>1. CASE Info(t).kind = "Function"
  <2>1. Keys(t) = << FunctionKey(t) >>
    BY <1>1 DEF Keys
  <2>2. /\ KeySound(objects, Len(objects), FunctionKey(t))
        /\ FunctionKey(t).kind = "Function"
        /\ TypeOfKey(FunctionKey(t), types) = FunctionMeaning(t)
    BY <1>1, FunctionKeyMeant
  <2>3. Meaning[t] = FunctionMeaning(t)
    BY <1>0, <1>1, MeaningUnfold DEF Denoted, PointsToMember, FunctionMeaning
  <2>4. TopQualifiers(t) = {}
    BY <1>0, <1>1, TypeFacts DEF TopQualifiers
  <2>5. Qualified(FunctionMeaning(t), {}) = FunctionMeaning(t)
    BY TermFacts DEF FunctionMeaning
  <2>6. Meaning[t] = Qualified(TypeOfKey(FunctionKey(t), types), TopQualifiers(t))
    BY <2>2, <2>3, <2>4, <2>5
  <2>7. Meant(t, FunctionKey(t), types)
    BY <2>2, <2>6 DEF Meant
  <2> QED
    BY <2>1, <2>7
<1>2. CASE Info(t).kind \in {"Fundamental", "Enumeration", "Class"}
  BY <1>2, NamedKeyMeant
<1>3. CASE Info(t).kind \in {"Pointer", "Reference", "Array", "Offset"}
  BY <1>3, OnePartKeyMeant
<1> QED
  BY <1>0, <1>1, <1>2, <1>3, TypeFacts

\* What a step of CreateCxxType for t leaves: objects, an object for t, and their types.
Requested(t, types) ==
  LET more == Interned(objects, Keys(t))
      o    == Find(more, Keys(t)[Len(Keys(t))])
  IN  /\ ObjectsSound(more)
      /\ Extends(objects, more)
      /\ \A i \in 1 .. Len(more) : i \in 1 .. Len(objects) \/ more[i].kind # "Class"
      /\ o \in 1 .. Len(more)
      /\ \E all :
           /\ Stands(more, all)
           /\ \A i \in 1 .. Len(objects) : all[i] = types[i]
           /\ Meaning[t] = As(all, [of |-> o, cv |-> TopQualifiers(t)])

LEMMA AsForm ==
  ASSUME NEW types, NEW o, NEW v
  PROVE  As(types, [of |-> o, cv |-> v]) = Qualified(types[o], v)
BY DEF As

LEMMA OneRequest ==
  ASSUME NEW types, Known(types), NEW t \in CableType, NEW key, Keys(t) = << key >>,
         Meant(t, key, types)
  PROVE  Requested(t, types)
<1> DEFINE more == Intern(objects, key)
           o == Find(more, key)
<1>0. /\ program \in Programs
      /\ ObjectsSound(objects)
      /\ Stands(objects, types)
      /\ KeySound(objects, Len(objects), key)
  BY DEF Known, Meant
<1>1. Interned(objects, Keys(t)) = more /\ Keys(t)[Len(Keys(t))] = key
  BY DEF Interned
<1>2. /\ ObjectsSound(more)
      /\ Extends(objects, more)
      /\ o \in 1 .. Len(more)
      /\ \A i \in 1 .. Len(more) : i \in 1 .. Len(objects) \/ more[i] = key
      /\ Find(objects, key) # 0 => more = objects
  BY <1>0, InternGrows
<1>3. PICK all :
        /\ Stands(more, all)
        /\ \A i \in 1 .. Len(objects) : all[i] = types[i]
        /\ all[o] = TypeOfKey(key, types)
  BY <1>0, InternStands
<1> HIDE DEF more, o
<1>4. Meaning[t] = As(all, [of |-> o, cv |-> TopQualifiers(t)])
  BY <1>3, AsForm DEF Meant
<1>5. \A i \in 1 .. Len(more) : i \in 1 .. Len(objects) \/ more[i].kind # "Class"
  BY <1>2 DEF Meant
<1>6. Find(Interned(objects, Keys(t)), Keys(t)[Len(Keys(t))]) = o
  BY <1>1 DEF o
<1> QED
  BY <1>1, <1>2, <1>3, <1>4, <1>5, <1>6 DEF Requested

LEMMA TwoRequests ==
  ASSUME NEW types, Known(types), NEW t \in CableType, Made(t), Info(t).kind = "Method"
  PROVE  Requested(t, types)
<1> DEFINE k1   == FunctionKey(t)
           objs == Intern(objects, k1)
           f    == Find(objs, k1)
           ref  == [of |-> f, cv |-> {}]
           c    == Info(t).class
           o    == ClassObject(c)
           k2   == PointerToMemberTypeKey(ref, o)
           more == Intern(objs, k2)
<1>0. /\ program \in Programs
      /\ ObjectsSound(objects)
      /\ Stands(objects, types)
      /\ Len(objects) \in Nat
  BY LenZero DEF Known, ObjectsSound
<1>1. /\ KeySound(objects, Len(objects), k1)
      /\ k1.kind = "Function"
      /\ TypeOfKey(k1, types) = FunctionMeaning(t)
  BY FunctionKeyMeant
<1>2. Keys(t) = << k1, k2 >>
  BY DEF Keys, MethodKeys
<1>3. Interned(objects, Keys(t)) = more /\ Keys(t)[Len(Keys(t))] = k2
  BY <1>2 DEF Interned
<1> HIDE DEF k1
<1>4. /\ ObjectsSound(objs)
      /\ Extends(objects, objs)
      /\ f \in 1 .. Len(objs)
      /\ \A i \in 1 .. Len(objs) : i \in 1 .. Len(objects) \/ objs[i] = k1
  BY <1>0, <1>1, InternGrows
<1>5. PICK known :
        /\ Stands(objs, known)
        /\ \A i \in 1 .. Len(objects) : known[i] = types[i]
        /\ known[f] = FunctionMeaning(t)
  BY <1>0, <1>1, InternStands
<1>6. /\ c \in DOMAIN program.classes
      /\ o # 0
  BY <1>0, TypeFacts DEF Made, ClassDone
<1>7. /\ o \in 1 .. Len(objects)
      /\ objects[o].kind = "Class"
      /\ types[o].name = ClassName(c)
  BY <1>6, ClassObjectNamed
<1> HIDE DEF objs, f, o, c
<1>8. /\ Len(objs) \in Nat
      /\ o \in 0 .. Len(objs)
      /\ objs[o].kind = "Class"
      /\ known[o].name = ClassName(c)
  <2>1. Len(objs) \in Nat
    BY <1>4, LenZero DEF ObjectsSound
  <2>2. objs[o] = objects[o] /\ known[o] = types[o] /\ Len(objects) <= Len(objs)
    BY <1>4, <1>5, <1>7 DEF Extends
  <2> QED
    BY <1>0, <1>7, <2>1, <2>2
<1>9. ref \in [of : 1 .. Len(objs), cv : SUBSET Qualifier]
  BY <1>4
<1>10. /\ << ref >> \in Seq([of : 1 .. Len(objs), cv : SUBSET Qualifier])
       /\ [x \in DOMAIN << ref >> |-> As(known, << ref >>[x])] = << FunctionMeaning(t) >>
  <2>1. As(known, ref) = FunctionMeaning(t)
    <3>1. As(known, ref) = Qualified(FunctionMeaning(t), {})
      <4>1. As(known, [of |-> f, cv |-> {}]) = Qualified(known[f], {})
        BY AsForm
      <4> QED
        BY <1>5, <4>1
    <3> QED
      BY <3>1, TermFacts DEF FunctionMeaning
  <2> HIDE DEF ref
  <2>2. DOMAIN << ref >> = 1 .. 1 /\ << ref >>[1] = ref
    OBVIOUS
  <2>3. [x \in DOMAIN << ref >> |-> As(known, << ref >>[x])]
          = [x \in 1 .. 1 |-> FunctionMeaning(t)]
    BY <2>1, <2>2
  <2>4. << FunctionMeaning(t) >> = [x \in 1 .. 1 |-> FunctionMeaning(t)]
    OBVIOUS
  <2> QED
    BY <1>9, <2>3, <2>4
<1> HIDE DEF ref
<1>11. /\ KeySound(objs, Len(objs), k2)
       /\ k2.kind = "PointerToMember"
       /\ TypeOfKey(k2, known) =
            Term("PointerToMember", Null, << FunctionMeaning(t) >>, ClassName(c), 0)
  <2>1. "PointerToMember" \in ObjectKind /\ Null \in Name \cup Fundamental \cup {Null} /\ 0 \in Nat
    BY DEF ObjectKind
  <2> DEFINE p == << ref >>
             n == Len(objs)
  <2>2. /\ p \in Seq([of : 1 .. n, cv : SUBSET Qualifier])
        /\ [x \in DOMAIN p |-> As(known, p[x])] = << FunctionMeaning(t) >>
        /\ Len(p) = 1
    BY <1>10
  <2>3. n \in Nat /\ o \in 0 .. n
    BY <1>8
  <2>4. k2 = Key("PointerToMember", Null, p, o, 0)
    BY DEF PointerToMemberTypeKey, k2
  <2> HIDE DEF p, n
  <2>5. KeySound(objs, n, Key("PointerToMember", Null, p, o, 0))
    BY <1>6, <1>8, <2>1, <2>2, <2>3, MakeKey
  <2>6. /\ k2.kind = "PointerToMember" /\ k2.name = Null /\ k2.parts = p /\ k2.class = o
        /\ k2.length = 0
    BY <2>4 DEF Key
  <2> HIDE DEF k2
  <2> QED
    BY <1>6, <1>8, <2>2, <2>4, <2>5, <2>6 DEF n, TypeOfKey
<1> HIDE DEF k2
<1> DEFINE m == Find(more, k2)
<1>12. /\ ObjectsSound(more)
       /\ Extends(objs, more)
       /\ m \in 1 .. Len(more)
       /\ \A i \in 1 .. Len(more) : i \in 1 .. Len(objs) \/ more[i] = k2
  BY <1>4, <1>11, InternGrows
<1>13. PICK all :
         /\ Stands(more, all)
         /\ \A i \in 1 .. Len(objs) : all[i] = known[i]
         /\ all[m] = TypeOfKey(k2, known)
  BY <1>0, <1>4, <1>5, <1>11, InternStands
<1>14. Find(Interned(objects, Keys(t)), Keys(t)[Len(Keys(t))]) = m
  BY <1>3
<1> HIDE DEF more, m
<1>15. /\ Extends(objects, more)
       /\ \A i \in 1 .. Len(objects) : i \in 1 .. Len(objs)
  <2>1. \A i \in 1 .. Len(objects) : i \in 1 .. Len(objs)
    BY <1>0, <1>4, <1>8 DEF Extends
  <2>2. Len(more) \in Nat
    BY <1>12, LenZero DEF ObjectsSound
  <2> QED
    BY <1>0, <1>4, <1>8, <1>12, <2>1, <2>2 DEF Extends
<1>16. ASSUME NEW i \in 1 .. Len(more)
       PROVE  i \in 1 .. Len(objects) \/ more[i].kind # "Class"
  <2>1. CASE i \in 1 .. Len(objs)
    <3>1. more[i] = objs[i]
      BY <1>12, <2>1 DEF Extends
    <3> QED
      BY <1>1, <1>4, <2>1, <3>1
  <2>2. CASE more[i] = k2
    BY <1>11, <2>2
  <2> QED
    BY <1>12, <2>1, <2>2
<1>17. \A i \in 1 .. Len(objects) : all[i] = types[i]
  BY <1>5, <1>13, <1>15
<1>18. Meaning[t] = Term("PointerToMember", Null, << FunctionMeaning(t) >>, ClassName(c), 0)
  BY <1>0, MeaningUnfold DEF Denoted, PointsToMember, FunctionMeaning, c
<1>19. TopQualifiers(t) = {}
  BY <1>0, TypeFacts DEF TopQualifiers
<1>20. As(all, [of |-> m, cv |-> TopQualifiers(t)]) = Meaning[t]
  <2>1. As(all, [of |-> m, cv |-> {}]) = Qualified(TypeOfKey(k2, known), {})
    <3>1. As(all, [of |-> m, cv |-> {}]) = Qualified(all[m], {})
      BY AsForm
    <3> QED
      BY <1>13, <3>1
  <2> QED
    BY <1>11, <1>18, <1>19, <2>1, TermFacts
<1> QED
  BY <1>3, <1>12, <1>13, <1>14, <1>15, <1>16, <1>17, <1>20 DEF Requested

LEMMA RequestFacts ==
  ASSUME NEW types, Known(types), NEW t \in CableType, Made(t), ~ Broken(t),
         ~ PointsToMember(t)
  PROVE  Requested(t, types)
<1>1. CASE Info(t).kind = "Method"
  BY <1>1, TwoRequests
<1>2. CASE Info(t).kind # "Method"
  BY <1>2, KeyMeant, OneRequest
<1> QED
  BY <1>1, <1>2

-----------------------------------------------------------------------------
(* What a step keeps: it only adds to the TypeSystem and to what is created. *)

Kept ==
  /\ UNCHANGED program
  /\ ObjectsSound(objects)
  /\ ObjectsSound(objects)'
  /\ Extends(objects, objects')
  /\ \A u \in CableType : Cxx(u) # NoCxxType => m_CxxType'[u] = Cxx(u)
  /\ m_Copyable \subseteq m_Copyable'
  /\ Len(m_Parents) = Len(objects)
  /\ \A i \in 1 .. Len(objects) : /\ Len(m_Parents[i]) \in Nat
                                  /\ Len(m_Parents'[i]) \in Nat
                                  /\ Len(m_Parents[i]) <= Len(m_Parents'[i])

LEMMA ProgramSame ==
  ASSUME UNCHANGED program
  PROVE  /\ \A t : Info(t)' = Info(t)
         /\ \A f : Calls(f)' = Calls(f)
         /\ \A t : Broken(t)' <=> Broken(t)
         /\ \A c : ClassName(c)' = ClassName(c) /\ Bases(c)' = Bases(c)
         /\ HasPublicCopyConstructor' = HasPublicCopyConstructor
         /\ \A c : IsCopyable(c)' <=> IsCopyable(c)
         /\ Meaning' = Meaning
         /\ Frame' = Frame
<1>1. \A t : Info(t)' = Info(t)
  BY DEF Info
<1>2. \A c : ClassName(c)' = ClassName(c) /\ Bases(c)' = Bases(c)
  BY DEF ClassName, Bases
<1>3. \A t : Parts(t)' = Parts(t)
  BY <1>1 DEF Parts
<1>4. \A f : Calls(f)' = Calls(f)
  BY <1>3 DEF Calls
<1>5. \A t : Broken(t)' <=> Broken(t)
  BY <1>1 DEF Broken
<1>6. HasPublicCopyConstructor' = HasPublicCopyConstructor
  BY DEF HasPublicCopyConstructor
<1>7. \A c : IsCopyable(c)' <=> IsCopyable(c)
  BY <1>6 DEF IsCopyable
<1>8. Meaning' = Meaning
  BY DEF Meaning, Denoted, Info, ClassName, PointsToMember
<1>9. Frame' = Frame
  BY DEF Frame
<1> QED
  BY <1>1, <1>2, <1>4, <1>5, <1>6, <1>7, <1>8, <1>9

LEMMA ObjectsSoundNext ==
  ASSUME UNCHANGED program
  PROVE  ObjectsSound(objects)' <=> ObjectsSound(objects')
<1>1. \A c : ClassName(c)' = ClassName(c)
  BY DEF ClassName
<1>2. \A n, key : KeySound(objects, n, key)' <=> KeySound(objects', n, key)
  BY <1>1 DEF KeySound, ClassTypeKey, Key
<1> QED
  BY <1>2 DEF ObjectsSound

LEMMA ClassObjectKept ==
  ASSUME Kept, NEW c, ClassObject(c) # 0
  PROVE  ClassObject(c)' = ClassObject(c)
<1>1. ClassName(c)' = ClassName(c)
  BY ProgramSame DEF Kept
<1>2. PICK key : key = ClassTypeKey(ClassName(c))
  OBVIOUS
<1>3. ClassTypeKey(ClassName(c))' = key
  BY <1>1, <1>2 DEF ClassTypeKey, Key
<1>4. ClassObject(c) = Find(objects, key) /\ ClassObject(c)' = Find(objects', key)
  BY <1>2, <1>3 DEF ClassObject
<1>5. ObjectsSound(objects') 
  BY ObjectsSoundNext DEF Kept
<1> QED
  BY <1>4, <1>5, FindKept DEF Kept

LEMMA DoneKept ==
  ASSUME program \in Programs, Kept
  PROVE  /\ \A c \in DOMAIN program.classes : ClassDone(c) => ClassDone(c)'
         /\ \A call \in Frame : Done(call) => Done(call)'
<1>1. ASSUME NEW c \in DOMAIN program.classes, ClassDone(c) PROVE ClassDone(c)'
  <2>1. PICK o : o = ClassObject(c)
    OBVIOUS
  <2>2. o # 0 /\ (IsCopyable(c) => o \in m_Copyable) /\ Len(Bases(c)) <= Len(m_Parents[o])
    BY <1>1, <2>1 DEF ClassDone
  <2>3. o \in 1 .. Len(objects)
    BY <2>1, <2>2, FindFacts DEF ClassObject
  <2>4. ClassObject(c)' = o
    BY <2>1, <2>2, ClassObjectKept
  <2>5. (IsCopyable(c)' <=> IsCopyable(c)) /\ Bases(c)' = Bases(c)
    BY ProgramSame DEF Kept
  <2>6. /\ Len(m_Parents[o]) \in Nat
        /\ Len(m_Parents'[o]) \in Nat
        /\ Len(m_Parents[o]) <= Len(m_Parents'[o])
        /\ Len(Bases(c)) \in Nat
    BY <2>3, ClassFacts DEF Kept
  <2>7. Len(Bases(c)) <= Len(m_Parents'[o])
    BY <2>2, <2>6
  <2>8. IsCopyable(c) => o \in m_Copyable'
    BY <2>2 DEF Kept
  <2> QED
    BY <2>2, <2>4, <2>5, <2>7, <2>8 DEF ClassDone
<1>2. ASSUME NEW call \in Frame, Done(call) PROVE Done(call)'
  <2>1. CASE call.at = "type"
    <3>1. call.of \in CableType /\ Cxx(call.of) # NoCxxType
      BY <1>2, <2>1, CallForms DEF Done
    <3>2. m_CxxType'[call.of] = Cxx(call.of)
      BY <3>1 DEF Kept
    <3>3. m_CxxType'[call.of] # NoCxxType /\ call.of # Null
      BY <1>2, <2>1, <3>1, <3>2 DEF Done
    <3> QED
      BY <2>1, <3>3 DEF Done, Cxx
  <2>2. CASE call.at = "class"
    <3>1. call.of \in DOMAIN program.classes /\ ClassDone(call.of)
      BY <1>2, <2>2, CallForms DEF Done
    <3>2. PICK c \in DOMAIN program.classes : c = call.of
      BY <3>1
    <3>3. ClassDone(c)'
      BY <1>1, <3>1, <3>2
    <3>4. ClassDone(call.of)'
      BY <3>2, <3>3
    <3> QED
      BY <2>2, <3>4 DEF Done
  <2> QED
    BY <2>1, <2>2, CallForms
<1> QED
  BY <1>1, <1>2

\* Done asks for the function and its argument.
LEMMA DoneSame ==
  ASSUME NEW call, NEW f, call.at = f.at, call.of = f.of
  PROVE  /\ Done(call) <=> Done(f)
         /\ Done(call)' <=> Done(f)'
BY DEF Done

LEMMA ParentsKept ==
  ASSUME program \in Programs, Kept, NEW i \in 1 .. Len(objects), m_Parents'[i] = m_Parents[i],
         NEW c \in DOMAIN program.classes, ParentsFrom(i, c)
  PROVE  ParentsFrom(i, c)'
<1>1. /\ ClassName(c)' = ClassName(c)
      /\ Bases(c)' = Bases(c)
      /\ objects'[i] = objects[i]
  BY ProgramSame DEF Kept, Extends
<1> DEFINE b == Bases(c)
<1>2. \A k \in 1 .. Len(b) : ClassObject(b[k]) # 0
  BY DEF ParentsFrom
<1>3. \A k \in 1 .. Len(b) : ClassObject(Bases(c)[k])' = ClassObject(b[k])
  <2> TAKE k \in 1 .. Len(b)
  <2>1. PICK d : d = b[k]
    OBVIOUS
  <2>2. ClassObject(d)' = ClassObject(d)
    BY <1>2, <2>1, ClassObjectKept
  <2>3. Bases(c)'[k] = d
    BY <1>1, <2>1
  <2> QED
    BY <2>1, <2>2, <2>3
<1>4. m_Parents'[i] = [k \in 1 .. Len(b) |-> ClassObject(b[k])]
  BY DEF ParentsFrom
<1>5. m_Parents'[i] = [k \in 1 .. Len(b) |-> ClassObject(Bases(c)[k])']
  BY <1>3, <1>4
<1>6. objects[i].name = ClassName(c)
  BY DEF ParentsFrom
<1>7. /\ objects'[i].name = ClassName(c)'
      /\ m_Parents'[i] = [k \in 1 .. Len(Bases(c)') |-> ClassObject(Bases(c)[k])']
      /\ \A k \in 1 .. Len(Bases(c)') : ClassObject(Bases(c)[k])' # 0
  BY <1>1, <1>2, <1>3, <1>5, <1>6
<1> QED
  BY <1>7 DEF ParentsFrom

-----------------------------------------------------------------------------
(* The stack. *)

LEMMA FrameKept ==
  ASSUME program \in Programs, Kept, NEW g \in Frame, FrameSound(g)
  PROVE  /\ FrameSound(g)'
         /\ Runs(g) => Runs(g)'
         /\ \A f : Waits(g, f) => Waits(g, f)'
         /\ \A f : Waits(g, f) /\ Done(f)' => Runs(g)'
<1> DEFINE n == Len(Calls(g))
<1>1. /\ Calls(g)' = Calls(g)
      /\ Broken(g.of)' <=> Broken(g.of)
  BY ProgramSame DEF Kept
<1>2. FrameSound(g)'
  BY <1>1 DEF FrameSound
<1>3. g.next \in Nat \ {0}
  BY CallForms
<1>4. ASSUME g.next > 1
      PROVE  /\ g.next - 1 \in 1 .. n
             /\ \A k \in 1 .. g.next - 1 : k \in 1 .. n /\ Calls(g)[k] \in Frame
             /\ \A k \in 1 .. g.next - 1 : k = g.next - 1 \/ k \in 1 .. g.next - 2
             /\ \A k \in 1 .. g.next - 2 : k \in 1 .. g.next - 1
  <2>1. (g.at = "type" => ~ Broken(g.of)) /\ g.next <= n + 1
    BY <1>4 DEF FrameSound
  <2>2. g.at = "type" => g.of # Null
    BY <2>1 DEF Broken
  <2>3. n \in Nat /\ \A k \in 1 .. n : Calls(g)[k] \in Frame
    BY <2>2, CallsFacts
  <2> QED
    BY <1>3, <1>4, <2>1, <2>3
<1>5. ASSUME NEW k \in 1 .. g.next - 1, Done(Calls(g)[k]) PROVE Done(Calls(g)[k])'
  <2>1. g.next > 1
    BY <1>3
  <2>2. PICK call \in Frame : call = Calls(g)[k]
    BY <1>4, <2>1
  <2>3. Done(call)'
    BY <1>5, <2>2, DoneKept
  <2>4. Calls(g)'[k] = call
    BY <1>1, <2>2
  <2> QED
    BY <2>3, <2>4
<1>6. Runs(g) => Runs(g)'
  BY <1>5 DEF Runs
<1>7. ASSUME NEW f, Waits(g, f)
      PROVE  /\ Waits(g, f)'
             /\ Done(f)' => Runs(g)'
  <2>1. /\ g.next > 1
        /\ Calls(g)[g.next - 1].at = f.at
        /\ Calls(g)[g.next - 1].of = f.of
        /\ \A k \in 1 .. g.next - 2 : Done(Calls(g)[k])
    BY <1>7 DEF Waits
  <2>2. \A k \in 1 .. g.next - 2 : Done(Calls(g)[k])'
    BY <1>4, <1>5, <2>1
  <2>3. Waits(g, f)'
    BY <1>1, <2>1, <2>2 DEF Waits
  <2>4. ASSUME Done(f)' PROVE Runs(g)'
    <3>1. PICK call : call = Calls(g)[g.next - 1]
      OBVIOUS
    <3>2. Done(call)'
      BY <2>1, <2>4, <3>1, DoneSame
    <3>3. Calls(g)'[g.next - 1] = call
      BY <1>1, <3>1
    <3>4. Done(Calls(g)[g.next - 1])'
      BY <3>2, <3>3
    <3>5. \A k \in 1 .. g.next - 1 : Done(Calls(g)[k])'
      BY <1>4, <2>1, <2>2, <3>4
    <3> QED
      BY <3>5 DEF Runs
  <2> QED
    BY <2>3, <2>4
<1> QED
  BY <1>2, <1>6, <1>7

\* The call at the top is done and returns.
LEMMA PopStack ==
  ASSUME program \in Programs, Nested(stack), stack # << >>, Kept, stack' = Tail(stack),
         NEW f, f = Head(stack), Done(f)'
  PROVE  /\ Nested(stack)'
         /\ f \in Frame
         /\ stack' # << >> => stack'[Len(stack')] = stack[Len(stack)]
         /\ stack' = << >> => stack[Len(stack)] = f
<1>1. PICK s : s = stack
  OBVIOUS
<1>2. PICK r : r = Tail(s)
  OBVIOUS
<1> DEFINE n == Len(s)
<1>3. s \in Seq(Frame) /\ s # << >>
  BY <1>1 DEF Nested
<1>4. /\ f = s[1]
      /\ f \in Frame
      /\ r \in Seq(Frame)
      /\ n \in Nat \ {0}
      /\ Len(r) = n - 1
      /\ \A i \in 1 .. n - 1 : r[i] = s[i + 1]
  BY <1>1, <1>2, <1>3, TailFacts
<1>5. /\ \A i \in 1 .. n : s[i] \in Frame
      /\ r = << >> <=> n = 1
  BY <1>3, <1>4, LenZero
<1>6. /\ \A i \in 1 .. n : FrameSound(s[i])
      /\ \A i \in 1 .. n - 1 : Waits(s[i + 1], s[i])
      /\ Runs(s[1])
      /\ s[n].at = "type"
  BY <1>1, <1>3 DEF Nested
<1> HIDE DEF n
<1>7. /\ \A i \in 1 .. n - 1 : i + 1 \in 1 .. n /\ i \in 1 .. n
      /\ \A i \in 1 .. n - 1 - 1 : i \in 1 .. n - 1 /\ i + 1 \in 1 .. n - 1
  BY <1>4
<1>8. \A i \in 1 .. n - 1 : r[i] \in Frame /\ FrameSound(r[i])
  BY <1>4, <1>5, <1>6, <1>7
<1>9. \A i \in 1 .. n - 1 : FrameSound(r[i])'
  BY <1>8, FrameKept
<1>10. \A i \in 1 .. n - 1 - 1 : Waits(r[i + 1], r[i])'
  <2> TAKE i \in 1 .. n - 1 - 1
  <2>1. Waits(r[i + 1], r[i])
    BY <1>4, <1>6, <1>7
  <2>2. r[i + 1] \in Frame /\ FrameSound(r[i + 1])
    BY <1>7, <1>8
  <2> QED
    BY <2>1, <2>2, FrameKept
<1>11. ASSUME r # << >>
       PROVE  /\ Runs(r[1])'
              /\ r[n - 1] = s[n]
  <2>1. 1 \in 1 .. n - 1 /\ n - 1 \in 1 .. n - 1 /\ n - 1 + 1 = n
    BY <1>4, <1>5, <1>11
  <2>2. r[n - 1] = s[n] /\ Waits(s[1 + 1], s[1]) /\ r[1] = s[1 + 1]
    BY <1>4, <1>6, <2>1
  <2>3. Waits(r[1], f) /\ r[1] \in Frame /\ FrameSound(r[1])
    BY <1>4, <1>8, <2>1, <2>2
  <2>4. Runs(r[1])'
    BY <2>3, FrameKept
  <2> QED
    BY <2>2, <2>4
<1>12. Frame' = Frame
  BY ProgramSame DEF Kept
<1>13. stack' = r
  BY <1>1, <1>2
<1>14. r # << >> => Runs(r[1])' /\ r[Len(r)].at = "type"
  BY <1>4, <1>6, <1>11
<1>15. Nested(stack)'
  <2>1. stack' \in Seq(Frame')
    BY <1>4, <1>12, <1>13
  <2>2. \A i \in 1 .. Len(stack') : FrameSound(stack[i])'
    BY <1>4, <1>9, <1>13
  <2>3. \A i \in 1 .. Len(stack') - 1 : Waits(stack[i + 1], stack[i])'
    BY <1>4, <1>10, <1>13
  <2>4. stack' # << >> => Runs(stack[1])' /\ stack'[Len(stack')].at = "type"
    BY <1>13, <1>14
  <2> QED
    BY <2>1, <2>2, <2>3, <2>4 DEF Nested
<1>16. r # << >> => r[Len(r)] = s[n]
  BY <1>4, <1>11
<1>17. r = << >> => s[n] = f
  BY <1>4, <1>5
<1> QED
  BY <1>1, <1>4, <1>13, <1>15, <1>16, <1>17 DEF n

\* The call at the top calls another one.
LEMMA PushStack ==
  ASSUME program \in Programs, Nested(stack), Kept, stack # << >>, Working,
         Top.next <= Len(Calls(Top)),
         stack' = << Calls(Top)[Top.next], [Top EXCEPT !.next = @ + 1] >> \o Tail(stack)
  PROVE  /\ Nested(stack)'
         /\ stack' # << >>
         /\ stack'[Len(stack')].of = stack[Len(stack)].of
<1>1. PICK s : s = stack
  OBVIOUS
<1>2. PICK f : f = Top
  OBVIOUS
<1>3. PICK rest : rest = Tail(s)
  OBVIOUS
<1> DEFINE n == Len(s)
<1>4. s \in Seq(Frame) /\ s # << >>
  BY <1>1 DEF Nested
<1>5. /\ f = s[1]
      /\ f \in Frame
      /\ rest \in Seq(Frame)
      /\ n \in Nat \ {0}
      /\ Len(rest) = n - 1
      /\ \A i \in 1 .. n - 1 : rest[i] = s[i + 1]
  BY <1>1, <1>2, <1>3, <1>4, TailFacts DEF Top
<1>6. /\ \A i \in 1 .. n : FrameSound(s[i])
      /\ \A i \in 1 .. n - 1 : Waits(s[i + 1], s[i])
      /\ Runs(s[1])
      /\ s[n].at = "type"
      /\ \A i \in 1 .. n : s[i] \in Frame
  BY <1>1, <1>4, LenZero DEF Nested
<1>7. /\ f.at = "type" => ~ Broken(f.of)
      /\ f.next \in Nat \ {0}
      /\ f.next <= Len(Calls(f))
  BY <1>2, <1>5, CallForms DEF Working
<1>8. f.at = "type" => f.of # Null
  BY <1>7 DEF Broken
<1>9. PICK call \in Frame : call = Calls(f)[f.next] /\ call.next = 1
  BY <1>5, <1>7, <1>8, CallsFacts
<1>10. PICK g : g = [f EXCEPT !.next = @ + 1]
  OBVIOUS
<1>11. /\ g \in Frame
       /\ g.at = f.at /\ g.of = f.of /\ g.next = f.next + 1
  <2>1. f = [at |-> f.at, of |-> f.of, next |-> f.next]
    BY <1>5, CallForms
  <2>2. g = [at |-> f.at, of |-> f.of, next |-> f.next + 1]
    BY <1>10, <2>1
  <2>3. f.next + 1 \in Nat \ {0}
    BY <1>7
  <2>4. g \in Frame
    BY <1>5, <2>2, <2>3 DEF Frame
  <2> QED
    BY <2>2, <2>4
<1>12. Calls(g) = Calls(f)
  BY <1>11 DEF Calls
<1>13. Len(Calls(f)) \in Nat
  BY <1>5, <1>8, CallsFacts
<1>14. FrameSound(g) /\ FrameSound(call)
  BY <1>7, <1>9, <1>11, <1>12, <1>13 DEF FrameSound
<1>15. Waits(g, call)
  <2>1. g.next > 1 /\ g.next - 1 = f.next /\ g.next - 2 = f.next - 1
    BY <1>7, <1>11
  <2>2. \A k \in 1 .. f.next - 1 : Done(Calls(f)[k])
    BY <1>5, <1>6 DEF Runs
  <2> QED
    BY <1>9, <1>12, <2>1, <2>2 DEF Waits
<1> DEFINE r == << call, g >> \o rest
<1>16. /\ r \in Seq(Frame)
       /\ Len(r) = n + 1
       /\ r[1] = call
       /\ r[2] = g
       /\ \A i \in 1 .. n - 1 : r[i + 2] = rest[i]
  <2>1. /\ r \in Seq(Frame)
        /\ Len(r) = (n - 1) + 2
        /\ r[1] = call
        /\ r[2] = g
        /\ \A i \in 1 .. n - 1 : r[i + 2] = rest[i]
    BY <1>5, <1>9, <1>11, ElementsAfter
  <2>2. (n - 1) + 2 = n + 1
    BY <1>5
  <2> QED
    BY <2>1, <2>2
<1>17. stack' = r
  <2>1. stack' = << Calls(f)[f.next], [f EXCEPT !.next = @ + 1] >> \o Tail(s)
    BY <1>1, <1>2
  <2> QED
    BY <1>3, <1>9, <1>10, <2>1
<1> HIDE DEF r, n
<1>18. \A i \in 3 .. n + 1 : r[i] = s[i - 1]
  <2> TAKE i \in 3 .. n + 1
  <2>1. i - 2 \in 1 .. n - 1 /\ (i - 2) + 2 = i /\ (i - 2) + 1 = i - 1
    BY <1>5
  <2> QED
    BY <1>5, <1>16, <2>1
<1>19. \A i \in 1 .. n + 1 : r[i] \in Frame /\ FrameSound(r[i])
  <2> TAKE i \in 1 .. n + 1
  <2>1. CASE i = 1
    BY <1>9, <1>14, <1>16, <2>1
  <2>2. CASE i = 2
    BY <1>11, <1>14, <1>16, <2>2
  <2>3. CASE i \in 3 .. n + 1
    <3>1. i - 1 \in 1 .. n
      BY <1>5, <2>3
    <3>2. r[i] = s[i - 1]
      BY <1>18, <2>3
    <3> QED
      BY <1>6, <3>1, <3>2
  <2>4. i = 1 \/ i = 2 \/ i \in 3 .. n + 1
    BY <1>5
  <2> QED
    BY <2>1, <2>2, <2>3, <2>4
<1>20. \A i \in 1 .. n : Waits(r[i + 1], r[i])
  <2> TAKE i \in 1 .. n
  <2>1. CASE i = 1
    BY <1>15, <1>16, <2>1
  <2>2. CASE i = 2
    <3>1. 1 \in 1 .. n - 1 /\ i + 1 = 3 /\ 3 \in 3 .. n + 1 /\ 3 - 1 = 1 + 1
      BY <1>5, <2>2
    <3>2. Waits(s[1 + 1], s[1]) /\ r[i + 1] = s[1 + 1] /\ r[i] = g
      BY <1>6, <1>16, <1>18, <2>2, <3>1
    <3>3. Waits(s[1 + 1], f)
      BY <1>5, <3>2
    <3>4. Waits(s[1 + 1], g)
      BY <1>11, <3>3 DEF Waits
    <3> QED
      BY <3>2, <3>4
  <2>3. CASE i \in 3 .. n
    <3>1. /\ i - 1 \in 1 .. n - 1
          /\ i + 1 \in 3 .. n + 1
          /\ i \in 3 .. n + 1
          /\ (i + 1) - 1 = (i - 1) + 1
      BY <1>5, <2>3
    <3>2. r[i + 1] = s[(i - 1) + 1] /\ r[i] = s[i - 1]
      BY <1>18, <3>1
    <3> QED
      BY <1>6, <3>1, <3>2
  <2>4. i = 1 \/ i = 2 \/ i \in 3 .. n
    BY <1>5
  <2> QED
    BY <2>1, <2>2, <2>3, <2>4
<1>21. Runs(r[1])
  BY <1>9, <1>16 DEF Runs
<1>22. r # << >> /\ r[n + 1].of = s[n].of /\ r[n + 1].at = s[n].at
  <2>1. r # << >>
    BY <1>5, <1>16, LenZero
  <2>2. CASE n = 1
    BY <1>5, <1>11, <1>16, <2>1, <2>2
  <2>3. CASE n # 1
    <3>1. n + 1 \in 3 .. n + 1 /\ (n + 1) - 1 = n
      BY <1>5, <2>3
    <3> QED
      BY <1>18, <2>1, <3>1
  <2> QED
    BY <2>1, <2>2, <2>3
<1>23. /\ \A i \in 1 .. n + 1 : FrameSound(r[i])'
       /\ \A i \in 1 .. n : Waits(r[i + 1], r[i])'
       /\ Runs(r[1])'
  <2>1. \A i \in 1 .. n + 1 : FrameSound(r[i])'
    BY <1>19, FrameKept
  <2>2. \A i \in 1 .. n : i + 1 \in 1 .. n + 1
    BY <1>5
  <2>3. \A i \in 1 .. n : Waits(r[i + 1], r[i])'
    BY <1>19, <1>20, <2>2, FrameKept
  <2>4. 1 \in 1 .. n + 1
    BY <1>5
  <2> QED
    BY <1>19, <1>21, <2>1, <2>3, <2>4, FrameKept
<1>24. Frame' = Frame /\ (n + 1) - 1 = n
  BY <1>5, ProgramSame DEF Kept
<1>25. Nested(stack)'
  <2>1. stack' \in Seq(Frame')
    BY <1>16, <1>17, <1>24
  <2>2. \A i \in 1 .. Len(stack') : FrameSound(stack[i])'
    BY <1>16, <1>17, <1>23
  <2>3. \A i \in 1 .. Len(stack') - 1 : Waits(stack[i + 1], stack[i])'
    BY <1>16, <1>17, <1>23, <1>24
  <2>4. Runs(stack[1])' /\ stack'[Len(stack')].at = "type"
    BY <1>6, <1>16, <1>17, <1>22, <1>23
  <2> QED
    BY <2>1, <2>2, <2>3, <2>4 DEF Nested
<1> QED
  BY <1>1, <1>16, <1>17, <1>22, <1>25 DEF n
-----------------------------------------------------------------------------
(* The invariant: the visits and the calls. *)

\* What the invariant says of the types and the TypeSystem.
DataSound ==
  /\ program \in Programs
  /\ m_CxxType \in [CableType -> [of : Nat, cv : SUBSET Qualifier]]
  /\ ObjectsSound(objects)
  /\ \E types : Stands(objects, types) /\ Denotes(types)
  /\ ClassesSound

LEMMA IInvParts == IInv <=> DataSound /\ Nested(stack) /\ VisitsSound
BY DEF IInv, DataSound

LEMMA ClassesSame ==
  ASSUME DataSound, UNCHANGED << program, objects, m_Parents, m_Copyable >>
  PROVE  /\ ObjectsSound(objects)'
         /\ ClassesSound'
         /\ \A c : ClassDone(c)' <=> ClassDone(c)
<1>1. \A c : ClassObject(c)' = ClassObject(c)
  BY DEF ClassObject, ClassTypeKey, ClassName, Key
<1>2. \A c : ClassDone(c)' <=> ClassDone(c)
  BY <1>1, ProgramSame DEF ClassDone
<1>3. ObjectsSound(objects)'
  BY ObjectsSoundNext DEF DataSound
<1>4. ClassesSound'
  <2>1. \A i, c : ParentsFrom(i, c)' <=> ParentsFrom(i, c)
    BY <1>1, ProgramSame DEF ParentsFrom
  <2> QED
    BY <2>1, ProgramSame DEF DataSound, ClassesSound
<1> QED
  BY <1>2, <1>3, <1>4

LEMMA DataSame ==
  ASSUME DataSound, UNCHANGED << program, m_CxxType, system >>
  PROVE  /\ DataSound'
         /\ Kept
         /\ \A t : Cxx(t)' = Cxx(t)
         /\ \A c : ClassDone(c)' <=> ClassDone(c)
<1>0. UNCHANGED << program, m_CxxType, objects, m_Parents, m_Copyable >>
  BY DEF system
<1>1. \A t : Cxx(t)' = Cxx(t)
  BY <1>0 DEF Cxx
<1>2. /\ ObjectsSound(objects)'
      /\ ClassesSound'
      /\ \A c : ClassDone(c)' <=> ClassDone(c)
  BY <1>0, ClassesSame
<1>3. (\E types : Stands(objects, types) /\ Denotes(types))'
  <2>1. \A types : Denotes(types)' <=> Denotes(types)
    BY <1>0, <1>1, ProgramSame DEF Denotes, CvQualifiedType
  <2> QED
    BY <1>0, <2>1 DEF DataSound
<1>4. DataSound'
  BY <1>0, <1>2, <1>3 DEF DataSound
<1>5. Kept
  <2>1. \A i \in 1 .. Len(objects) : Len(m_Parents[i]) \in Nat
    <3>1. \A i \in 1 .. Len(objects) : m_Parents[i] \in Seq(1 .. Len(objects))
      BY DEF DataSound, ClassesSound
    <3> QED
      BY <3>1, LenZero
  <2>2. Len(objects) \in Nat
    BY LenZero DEF DataSound, ObjectsSound
  <2>3. Len(m_Parents) = Len(objects)
    BY DEF DataSound, ClassesSound
  <2>4. Extends(objects, objects')
    BY <1>0, <2>2 DEF Extends
  <2> QED
    BY <1>0, <1>1, <1>2, <2>1, <2>3, <2>4 DEF Kept, DataSound, Cxx
<1> QED
  BY <1>1, <1>2, <1>4, <1>5

\* The call at the top is done and returns to the loop or to another call.
LEMMA PopVisits ==
  ASSUME program \in Programs, Nested(stack), VisitsSound, Kept, stack # << >>,
         stack' = Tail(stack), NEW f, f = Head(stack), Done(f)',
         UNCHANGED << remaining, phase, result >>,
         \A t \in CableType :
           Cxx(t)' # NoCxxType /\ Info(t).kind = "Class" => ClassDone(Info(t).class)'
  PROVE  Nested(stack)' /\ VisitsSound'
<1>1. /\ Nested(stack)'
      /\ stack' # << >> => stack'[Len(stack')] = stack[Len(stack)]
      /\ stack' = << >> => stack[Len(stack)] = f
  BY PopStack
<1>2. stack[Len(stack)].at = "type"
  BY DEF Nested
<1>3. phase = "types" /\ ~ result
  BY DEF VisitsSound
<1>4. \A t \in CableType : Cxx(t) # NoCxxType => Cxx(t)' # NoCxxType
  BY DEF Kept, Cxx
<1>5. ASSUME NEW t \in CableType \ remaining
      PROVE  Cxx(t)' # NoCxxType \/ (stack' # << >> /\ stack'[Len(stack')].of = t)
  <2>1. Cxx(t) # NoCxxType \/ stack[Len(stack)].of = t
    BY <1>3 DEF VisitsSound
  <2>2. CASE Cxx(t) # NoCxxType
    BY <1>4, <2>2
  <2>3. CASE stack[Len(stack)].of = t /\ stack' # << >>
    BY <1>1, <2>3
  <2>4. CASE stack[Len(stack)].of = t /\ stack' = << >>
    <3>1. f.at = "type" /\ f.of = t
      BY <1>1, <1>2, <2>4
    <3>2. Cxx(f.of)' # NoCxxType
      BY <3>1 DEF Done
    <3>3. m_CxxType'[f.of] # NoCxxType
      BY <3>2 DEF Cxx
    <3> QED
      BY <3>1, <3>3 DEF Cxx
  <2> QED
    BY <2>1, <2>2, <2>3, <2>4
<1>6. \A t : Info(t)' = Info(t)
  BY ProgramSame DEF Kept
<1>7. \A t \in CableType :
        Cxx(t)' # NoCxxType /\ Info(t)'.kind = "Class" => ClassDone(Info(t).class)'
  BY <1>6
<1>8. VisitsSound'
  <2>1. /\ remaining' \subseteq CableType
        /\ phase' = "types"
        /\ ~ result' /\ result' \in BOOLEAN
        /\ remaining' = remaining
    BY <1>3 DEF VisitsSound
  <2> QED
    BY <1>5, <1>7, <2>1 DEF VisitsSound
<1> QED
  BY <1>1, <1>8

-----------------------------------------------------------------------------
(* The steps of the calls. *)

LEMMA IInvInit == Init => IInv
<1> SUFFICES ASSUME Init PROVE IInv
  OBVIOUS
<1>0. /\ program \in Programs
      /\ m_CxxType = [t \in CableType |-> NoCxxType]
      /\ objects = << >> /\ m_Parents = << >> /\ m_Copyable = {} /\ stack = << >>
      /\ remaining = CableType /\ phase = "types" /\ result = FALSE
  BY DEF Init
<1>1. \A t \in CableType : Cxx(t) = NoCxxType
  BY <1>0 DEF Cxx
<1>2. m_CxxType \in [CableType -> [of : Nat, cv : SUBSET Qualifier]]
  BY <1>0 DEF NoCxxType
<1>3. Len(objects) = 0 /\ 1 .. Len(objects) = {} /\ Len(m_Parents) = 0
  BY <1>0
<1>4. ObjectsSound(objects)
  <2>1. objects \in Seq(ObjectKey)
    BY <1>0
  <2> QED
    BY <1>3, <2>1 DEF ObjectsSound
<1>5. \A types : Stands(objects, types) /\ Denotes(types)
  BY <1>1, <1>3 DEF Stands, Denotes
<1>6. ClassesSound
  <2>1. m_Parents \in Seq(Seq(Nat))
    BY <1>0
  <2> QED
    BY <1>0, <1>3, <2>1 DEF ClassesSound
<1>7. Nested(stack)
  <2>1. stack \in Seq(Frame) /\ Len(stack) = 0
    BY <1>0
  <2>2. 1 .. Len(stack) = {} /\ 1 .. Len(stack) - 1 = {}
    BY <2>1
  <2> QED
    BY <1>0, <2>1, <2>2 DEF Nested
<1>8. VisitsSound
  BY <1>0, <1>1 DEF VisitsSound
<1> QED
  BY <1>0, <1>2, <1>4, <1>5, <1>6, <1>7, <1>8 DEF IInv

LEMMA IInvCreateCxxTypes ==
  ASSUME IInv, NEW t \in CableType, CreateCxxTypes(t)
  PROVE  IInv'
<1>0. /\ phase = "types" /\ stack = << >> /\ t \in remaining
      /\ remaining' = remaining \ {t}
      /\ stack' = << TypeCall(t) >>
      /\ UNCHANGED << program, m_CxxType, system >>
      /\ phase' = phase /\ result' = result
  BY DEF CreateCxxTypes
<1>1. DataSound /\ VisitsSound
  BY IInvParts
<1>2. DataSound' /\ Kept
  BY <1>0, <1>1, DataSame
<1>3. (\A u : Cxx(u)' = Cxx(u)) /\ (\A c : ClassDone(c)' <=> ClassDone(c))
  BY <1>0, <1>1, DataSame
<1>4. Nested(stack)'
  <2>1. PICK f \in Frame : f = TypeCall(t)
    BY CallForms
  <2>2. f.next = 1 /\ f.at = "type" /\ f.of = t
    BY <2>1, CallForms
  <2>3. stack' = << f >>
    BY <1>0, <2>1
  <2>4. stack' \in Seq(Frame) /\ Len(stack') = 1 /\ stack'[1] = f /\ stack' # << >>
    BY <2>3
  <2>5. FrameSound(f)' /\ Runs(f)'
    BY <2>2 DEF FrameSound, Runs
  <2>6. Frame' = Frame
    BY <1>0, ProgramSame
  <2>7. \A i \in 1 .. Len(stack') : FrameSound(stack[i])'
    BY <2>4, <2>5
  <2>8. \A i \in 1 .. Len(stack') - 1 : Waits(stack[i + 1], stack[i])'
    BY <2>4
  <2>9. Runs(stack[1])' /\ stack'[Len(stack')].at = "type"
    BY <2>2, <2>4, <2>5
  <2> QED
    BY <2>4, <2>6, <2>7, <2>8, <2>9 DEF Nested
<1>5. VisitsSound'
  <2>1. /\ stack' # << >> /\ stack'[Len(stack')].of = t
    BY <1>0 DEF TypeCall
  <2>2. phase' = "types" /\ ~ result' /\ result' \in BOOLEAN /\ remaining' \subseteq CableType
    BY <1>0, <1>1 DEF VisitsSound
  <2>3. ASSUME NEW u \in CableType \ remaining'
        PROVE  Cxx(u)' # NoCxxType \/ (stack' # << >> /\ stack'[Len(stack')].of = u)
    <3>1. CASE u = t
      BY <2>1, <3>1
    <3>2. CASE u # t
      <4>1. u \in CableType \ remaining
        BY <1>0, <3>2
      <4>2. Cxx(u) # NoCxxType
        BY <1>0, <1>1, <2>2, <4>1 DEF VisitsSound
      <4> QED
        BY <1>3, <4>2
    <3> QED
      BY <3>1, <3>2
  <2>4. ASSUME NEW u \in CableType, Cxx(u)' # NoCxxType, Info(u)'.kind = "Class"
        PROVE  ClassDone(Info(u).class)'
    <3>1. Info(u)' = Info(u)
      BY <1>0, ProgramSame
    <3>2. ClassDone(Info(u).class)
      BY <1>1, <1>3, <2>4, <3>1 DEF VisitsSound
    <3>3. PICK c : c = Info(u).class
      OBVIOUS
    <3>4. ClassDone(c)' /\ Info(u)'.class = c
      BY <1>3, <3>1, <3>2, <3>3
    <3> QED
      BY <3>4
  <2> QED
    BY <2>2, <2>3, <2>4 DEF VisitsSound
<1> QED
  BY <1>2, <1>4, <1>5 DEF IInv, DataSound

LEMMA VisitedClasses ==
  ASSUME VisitsSound, UNCHANGED program, \A c : ClassDone(c)' <=> ClassDone(c),
         NEW t \in CableType, Cxx(t) # NoCxxType, Info(t).kind = "Class"
  PROVE  ClassDone(Info(t).class)'
<1>1. Info(t)' = Info(t)
  BY ProgramSame
<1>2. PICK c : c = Info(t).class
  OBVIOUS
<1>3. ClassDone(c)
  BY <1>2 DEF VisitsSound
<1>4. ClassDone(c)' /\ Info(t)'.class = c
  BY <1>1, <1>2, <1>3
<1> QED
  BY <1>4

LEMMA IInvAlreadyCreated ==
  ASSUME IInv, AlreadyCreated
  PROVE  IInv'
<1>0. /\ stack # << >> /\ stack' = Tail(stack)
      /\ UNCHANGED << program, m_CxxType, system >>
      /\ UNCHANGED << remaining, phase, result >>
  BY DEF AlreadyCreated
<1>1. DataSound /\ Nested(stack) /\ VisitsSound /\ program \in Programs
  BY IInvParts DEF DataSound
<1>2. DataSound' /\ Kept
  BY <1>0, <1>1, DataSame
<1>3. (\A u : Cxx(u)' = Cxx(u)) /\ (\A c : ClassDone(c)' <=> ClassDone(c))
  BY <1>0, <1>1, DataSame
<1>4. PICK f : f = Head(stack)
  OBVIOUS
<1>5. f.at = "type" /\ f.of # Null /\ Cxx(f.of) # NoCxxType
  BY <1>4 DEF AlreadyCreated, Top
<1>6. Done(f)'
  BY <1>3, <1>5 DEF Done
<1>7. \A t \in CableType :
        Cxx(t)' # NoCxxType /\ Info(t).kind = "Class" => ClassDone(Info(t).class)'
  BY <1>0, <1>1, <1>3, VisitedClasses
<1>8. Nested(stack)' /\ VisitsSound'
  BY <1>0, <1>1, <1>2, <1>4, <1>6, <1>7, PopVisits
<1> QED
  BY <1>2, <1>8 DEF IInv, DataSound

LEMMA IInvCreatePart ==
  ASSUME IInv, CreatePart
  PROVE  IInv'
<1>0. /\ stack # << >> /\ Working /\ Top.next <= Len(Calls(Top))
      /\ stack' = << Calls(Top)[Top.next], [Top EXCEPT !.next = @ + 1] >> \o Tail(stack)
      /\ UNCHANGED << program, m_CxxType, system >>
      /\ UNCHANGED << remaining, phase, result >>
  BY DEF CreatePart, Working
<1>1. DataSound /\ Nested(stack) /\ VisitsSound /\ program \in Programs
  BY IInvParts DEF DataSound
<1>2. DataSound' /\ Kept
  BY <1>0, <1>1, DataSame
<1>3. (\A u : Cxx(u)' = Cxx(u)) /\ (\A c : ClassDone(c)' <=> ClassDone(c))
  BY <1>0, <1>1, DataSame
<1>4. /\ Nested(stack)'
      /\ stack' # << >>
      /\ stack'[Len(stack')].of = stack[Len(stack)].of
  BY <1>0, <1>1, <1>2, PushStack
<1>5. VisitsSound'
  <2>1. phase = "types" /\ ~ result /\ remaining \subseteq CableType /\ result \in BOOLEAN
    BY <1>0, <1>1 DEF VisitsSound
  <2>2. \A t \in CableType \ remaining :
          Cxx(t) # NoCxxType \/ stack[Len(stack)].of = t
    BY <1>1, <2>1 DEF VisitsSound
  <2>3. \A t \in CableType \ remaining :
          Cxx(t)' # NoCxxType \/ (stack' # << >> /\ stack'[Len(stack')].of = t)
    BY <1>3, <1>4, <2>2
  <2>4. \A t \in CableType :
          Cxx(t)' # NoCxxType /\ Info(t)'.kind = "Class" => ClassDone(Info(t).class)'
    BY <1>0, <1>1, <1>3, VisitedClasses, ProgramSame
  <2> QED
    BY <1>0, <2>1, <2>3, <2>4 DEF VisitsSound
<1> QED
  BY <1>2, <1>4, <1>5 DEF IInv, DataSound

\* Everything but the end of the loop stays as it is.
LEMMA LoopEnds ==
  ASSUME IInv, UNCHANGED << program, m_CxxType, system, remaining >>,
         stack' = << >>, phase' = "done", result' \in BOOLEAN,
         result' => phase = "types" /\ stack = << >> /\ remaining = {}
  PROVE  IInv'
<1>1. DataSound /\ VisitsSound
  BY IInvParts
<1>2. DataSound'
  BY <1>1, DataSame
<1>3. (\A u : Cxx(u)' = Cxx(u)) /\ (\A c : ClassDone(c)' <=> ClassDone(c))
  BY <1>1, DataSame
<1>4. Nested(stack)'
  <2>1. stack' \in Seq(Frame') /\ Len(stack') = 0
    OBVIOUS
  <2>2. 1 .. Len(stack') = {} /\ 1 .. Len(stack') - 1 = {}
    BY <2>1
  <2> QED
    BY <2>1, <2>2 DEF Nested
<1>5. VisitsSound'
  <2>1. remaining \subseteq CableType
    BY <1>1 DEF VisitsSound
  <2>2. \A t \in CableType \ remaining : Cxx(t)' # NoCxxType \/ ~ result'
    <3> SUFFICES ASSUME NEW t \in CableType \ remaining PROVE Cxx(t)' # NoCxxType \/ ~ result'
      OBVIOUS
    <3>1. result' => Cxx(t) # NoCxxType
      BY <1>1 DEF VisitsSound
    <3> QED
      BY <1>3, <3>1
  <2>3. \A t \in CableType :
          Cxx(t)' # NoCxxType /\ Info(t)'.kind = "Class" => ClassDone(Info(t).class)'
    BY <1>1, <1>3, VisitedClasses, ProgramSame
  <2> QED
    BY <2>1, <2>2, <2>3 DEF VisitsSound
<1> QED
  BY <1>2, <1>4, <1>5 DEF IInv, DataSound

LEMMA IInvFail ==
  ASSUME IInv, Fail
  PROVE  IInv'
<1>1. /\ stack' = << >> /\ phase' = "done" /\ result' = result /\ stack # << >>
      /\ UNCHANGED << program, m_CxxType, system, remaining >>
  BY DEF Fail
<1>2. ~ result /\ result \in BOOLEAN
  BY <1>1 DEF IInv, VisitsSound
<1> QED
  BY <1>1, <1>2, LoopEnds

LEMMA IInvEndTypes ==
  ASSUME IInv, EndTypes
  PROVE  IInv'
<1>1. /\ stack' = << >> /\ phase' = "done" /\ result' = TRUE /\ stack = << >>
      /\ phase = "types" /\ remaining = {}
      /\ UNCHANGED << program, m_CxxType, system, remaining >>
  BY DEF EndTypes
<1> QED
  BY <1>1, LoopEnds

LEMMA IInvUnchanged ==
  ASSUME IInv, UNCHANGED vars
  PROVE  IInv'
<1>0. /\ UNCHANGED << program, m_CxxType, system >>
      /\ UNCHANGED << stack, remaining, phase, result >>
  BY DEF vars
<1>1. DataSound /\ Nested(stack) /\ VisitsSound
  BY IInvParts
<1>2. DataSound' /\ Kept
  BY <1>0, <1>1, DataSame
<1>3. (\A u : Cxx(u)' = Cxx(u)) /\ (\A c : ClassDone(c)' <=> ClassDone(c))
  BY <1>0, <1>1, DataSame
<1>4. \A call : Done(call)' <=> Done(call)
  BY <1>3 DEF Done
<1>5. Nested(stack)'
  <2>1. \A f : /\ FrameSound(f)' <=> FrameSound(f)
               /\ Runs(f)' <=> Runs(f)
               /\ \A g : Waits(f, g)' <=> Waits(f, g)
    <3>1. /\ \A f : Calls(f)' = Calls(f)
          /\ \A t : Broken(t)' <=> Broken(t)
      BY <1>0, ProgramSame
    <3> QED
      BY <1>4, <3>1 DEF FrameSound, Runs, Waits
  <2>2. Frame' = Frame
    BY <1>0, ProgramSame
  <2> QED
    BY <1>0, <1>1, <2>1, <2>2 DEF Nested
<1>6. VisitsSound'
  <2>1. \A t : Info(t)' = Info(t)
    BY <1>0, ProgramSame
  <2> QED
    BY <1>0, <1>1, <1>3, <2>1 DEF VisitsSound
<1> QED
  BY <1>2, <1>5, <1>6 DEF IInv, DataSound

-----------------------------------------------------------------------------
(* The steps that create a type. *)

LEMMA ReadyFacts ==
  ASSUME IInv, NEW at \in {"type", "class"}, Ready(at), NEW f, f = Head(stack)
  PROVE  /\ f \in Frame /\ f.at = at
         /\ \A k \in 1 .. Len(Calls(f)) : Done(Calls(f)[k])
         /\ at = "type" => /\ f.of \in CableType
                           /\ ~ Broken(f.of)
                           /\ Cxx(f.of) = NoCxxType
                           /\ Made(f.of)
         /\ at = "class" => /\ f.of \in DOMAIN program.classes
                            /\ \A k \in 1 .. Len(Bases(f.of)) : ClassDone(Bases(f.of)[k])
<1>0. /\ stack # << >>
      /\ f.at = "type" => ~ Broken(f.of) /\ Cxx(f.of) = NoCxxType
      /\ f.at = at
      /\ f.next > Len(Calls(f))
  BY DEF Ready, Working, Top
<1>1. program \in Programs /\ Nested(stack)
  BY DEF IInv
<1>2. PICK s : s = stack
  OBVIOUS
<1>3. s \in Seq(Frame) /\ s # << >> /\ f = Head(s)
  BY <1>0, <1>1, <1>2 DEF Nested
<1>4. f \in Frame /\ f = s[1] /\ Len(s) \in Nat \ {0}
  BY <1>3, TailFacts
<1>5. FrameSound(f) /\ Runs(f)
  <2>1. 1 \in 1 .. Len(s)
    BY <1>4
  <2> QED
    BY <1>0, <1>1, <1>2, <1>4, <2>1 DEF Nested
<1>6. f.at = "type" => f.of # Null
  BY <1>0 DEF Broken
<1>7. Len(Calls(f)) \in Nat /\ f.next \in Nat \ {0}
  BY <1>1, <1>4, <1>6, CallsFacts, CallForms
<1>8. \A k \in 1 .. Len(Calls(f)) : Done(Calls(f)[k])
  <2>1. \A k \in 1 .. Len(Calls(f)) : k \in 1 .. f.next - 1
    BY <1>0, <1>7
  <2> QED
    BY <1>5, <2>1 DEF Runs
<1>9. CASE at = "type"
  <2>1. f.of \in CableType /\ Calls(f) = Parts(f.of)
    BY <1>0, <1>1, <1>4, <1>6, <1>9, CallsFacts
  <2>2. PICK t \in CableType : t = f.of
    BY <2>1
  <2>3. \A k \in 1 .. Len(Parts(t)) : Done(Parts(t)[k])
    BY <1>8, <2>1, <2>2
  <2>4. Made(t)
    BY <1>1, <2>3, PartsDone DEF Made
  <2> QED
    BY <1>0, <1>4, <1>8, <1>9, <2>1, <2>2, <2>4
<1>10. CASE at = "class"
  <2>1. /\ f.of \in DOMAIN program.classes
        /\ Len(Calls(f)) = Len(Bases(f.of))
        /\ \A k \in 1 .. Len(Bases(f.of)) : Calls(f)[k] = ClassCall(Bases(f.of)[k])
    BY <1>0, <1>1, <1>4, <1>6, <1>10, CallsFacts
  <2>2. \A k \in 1 .. Len(Bases(f.of)) : Done(ClassCall(Bases(f.of)[k]))
    BY <1>8, <2>1
  <2>3. \A c : Done(ClassCall(c)) => ClassDone(c)
    BY DEF Done, ClassCall
  <2> QED
    BY <1>0, <1>4, <1>8, <1>10, <2>1, <2>2, <2>3
<1> QED
  BY <1>9, <1>10

\* The type at the top is there now and its call returns.
LEMMA TypeReturns ==
  ASSUME IInv, Ready("type"), Kept, NEW f, f = Head(stack), stack' = Tail(stack),
         UNCHANGED << remaining, phase, result >>, NEW q, q # NoCxxType,
         m_CxxType' = [m_CxxType EXCEPT ![f.of] = q]
  PROVE  Nested(stack)' /\ VisitsSound'
<1>0. program \in Programs /\ Nested(stack) /\ VisitsSound /\ stack # << >>
  BY DEF IInv, Ready, Working
<1>1. PICK t \in CableType : t = f.of /\ f.at = "type" /\ Made(t)
  BY ReadyFacts
<1>2. m_CxxType'[t] = q /\ \A u \in CableType : u # t => m_CxxType'[u] = m_CxxType[u]
  BY <1>1 DEF IInv
<1>3. Cxx(t)' # NoCxxType /\ \A u \in CableType : u # t => Cxx(u)' = Cxx(u)
  BY <1>2 DEF Cxx
<1>4. Done(f)'
  <2>1. t # Null
    BY <1>0, TypeFacts
  <2> QED
    BY <1>1, <1>3, <2>1 DEF Done
<1>5. ASSUME NEW u \in CableType, Cxx(u)' # NoCxxType, Info(u).kind = "Class"
      PROVE  ClassDone(Info(u).class)'
  <2>1. ClassDone(Info(u).class)
    <3>1. CASE u = t
      BY <1>1, <1>5, <3>1 DEF Made
    <3>2. CASE u # t
      BY <1>0, <1>3, <1>5, <3>2 DEF VisitsSound
    <3> QED
      BY <3>1, <3>2
  <2>2. PICK c \in DOMAIN program.classes : c = Info(u).class
    BY <1>0, <1>5, TypeFacts
  <2>3. ClassDone(c)'
    BY <1>0, <2>1, <2>2, DoneKept
  <2>4. Info(u)'.class = c
    BY <2>2, ProgramSame DEF Kept
  <2> QED
    BY <2>3, <2>4
<1> QED
  BY <1>0, <1>4, <1>5, PopVisits

\* The types of the objects there are, with one more type created.
LEMMA DenotesMore ==
  ASSUME DataSound, UNCHANGED program, Extends(objects, objects'), Len(objects') \in Nat,
         NEW types, Denotes(types), NEW all, \A i \in 1 .. Len(objects) : all[i] = types[i],
         NEW t \in CableType, NEW q \in [of : 1 .. Len(objects'), cv : SUBSET Qualifier],
         m_CxxType' = [m_CxxType EXCEPT ![t] = q], Meaning[t] = As(all, q)
  PROVE  /\ Denotes(all)'
         /\ m_CxxType' \in [CableType -> [of : Nat, cv : SUBSET Qualifier]]
         /\ q # NoCxxType
<1>1. m_CxxType \in [CableType -> [of : Nat, cv : SUBSET Qualifier]]
  BY DEF DataSound
<1>2. /\ m_CxxType'[t] = q
      /\ \A u \in CableType : u # t => m_CxxType'[u] = m_CxxType[u]
  BY <1>1
<1>3. q \in [of : Nat, cv : SUBSET Qualifier]
  OBVIOUS
<1>4. q # NoCxxType
  BY DEF NoCxxType
<1>5. m_CxxType' \in [CableType -> [of : Nat, cv : SUBSET Qualifier]]
  BY <1>1, <1>3
<1>6. Meaning' = Meaning
  BY ProgramSame
<1>7. ASSUME NEW u \in CableType, m_CxxType'[u] # NoCxxType
      PROVE  /\ m_CxxType'[u] \in [of : 1 .. Len(objects'), cv : SUBSET Qualifier]
             /\ Meaning[u] = As(all, m_CxxType'[u])
  <2>1. CASE u = t
    BY <1>2, <2>1
  <2>2. CASE u # t
    <3>1. m_CxxType'[u] = m_CxxType[u]
      BY <1>2, <2>2
    <3>2. PICK r : r = m_CxxType[u]
      OBVIOUS
    <3>3. r \in [of : 1 .. Len(objects), cv : SUBSET Qualifier] /\ Meaning[u] = As(types, r)
      BY <1>7, <3>1, <3>2 DEF Denotes, CvQualifiedType, Cxx
    <3>4. Len(objects) \in Nat /\ Len(objects) <= Len(objects')
      BY LenZero DEF DataSound, ObjectsSound, Extends
    <3>5. r \in [of : 1 .. Len(objects'), cv : SUBSET Qualifier]
      BY <3>3, <3>4
    <3>6. As(all, r) = As(types, r)
      BY <3>3 DEF As
    <3> QED
      BY <3>1, <3>2, <3>3, <3>5, <3>6
  <2> QED
    BY <2>1, <2>2
<1> QED
  BY <1>4, <1>5, <1>6, <1>7 DEF Denotes, CvQualifiedType, Cxx

LEMMA ParentsLengths ==
  ASSUME DataSound
  PROVE  /\ Len(objects) \in Nat
         /\ Len(m_Parents) = Len(objects)
         /\ \A i \in 1 .. Len(objects) : Len(m_Parents[i]) \in Nat
<1>1. \A i \in 1 .. Len(objects) : m_Parents[i] \in Seq(1 .. Len(objects))
  BY DEF DataSound, ClassesSound
<1>2. \A i \in 1 .. Len(objects) : Len(m_Parents[i]) \in Nat
  BY <1>1, LenZero
<1>3. Len(objects) \in Nat
  BY LenZero DEF DataSound, ObjectsSound
<1> QED
  BY <1>2, <1>3 DEF DataSound, ClassesSound

LEMMA IInvCreatePointerToMember ==
  ASSUME IInv, CreatePointerToMember
  PROVE  IInv'
<1>1. PICK f : f = Head(stack)
  OBVIOUS
<1>2. /\ Ready("type") /\ stack' = Tail(stack) /\ PointsToMember(f.of)
      /\ UNCHANGED << program, objects, m_Parents, m_Copyable >>
      /\ UNCHANGED << remaining, phase, result >>
      /\ m_CxxType' = [m_CxxType EXCEPT ![f.of] =
                         GetMoreQualifiedType(Cxx(Info(f.of).target), Info(f.of).cv)]
  BY <1>1 DEF CreatePointerToMember, Top, system
<1>3. PICK t \in CableType : t = f.of /\ Made(t) /\ Cxx(t) = NoCxxType
  BY <1>1, <1>2, ReadyFacts
<1>4. DataSound /\ program \in Programs
  BY IInvParts DEF DataSound
<1>5. PICK u \in CableType : u = Info(t).target /\ Cxx(u) # NoCxxType
  <2>1. Info(t).kind = "Pointer"
    BY <1>2, <1>3 DEF PointsToMember
  <2> QED
    BY <1>3, <2>1 DEF Made
<1>6. Info(t).cv \in SUBSET Qualifier
  BY <1>4, TypeFacts
<1>7. PICK q : q = GetMoreQualifiedType(Cxx(u), Info(t).cv)
  OBVIOUS
<1>8. PICK types : Stands(objects, types) /\ Denotes(types)
  BY <1>4 DEF DataSound
<1>9. Cxx(u) \in CvQualifiedType /\ Meaning[u] = As(types, Cxx(u))
  BY <1>5, <1>8 DEF Denotes
<1>10. /\ q \in CvQualifiedType
       /\ As(types, q) = GetMoreQualifiedType(Meaning[u], Info(t).cv)
  BY <1>6, <1>7, <1>8, <1>9, MoreQualified
<1>11. Meaning[t] = As(types, q)
  <2>1. PointsToMember(t) /\ Info(t).kind = "Pointer"
    BY <1>2, <1>3 DEF PointsToMember
  <2>2. Denoted(t, Meaning) = GetMoreQualifiedType(Meaning[u], Info(t).cv)
    BY <1>5, <2>1 DEF Denoted
  <2> QED
    BY <1>4, <1>10, <2>2, MeaningUnfold
<1>12. m_CxxType' = [m_CxxType EXCEPT ![t] = q]
  BY <1>2, <1>3, <1>5, <1>7
<1>13. Len(objects) \in Nat /\ Extends(objects, objects')
  BY <1>2, <1>4, ParentsLengths DEF Extends
<1>14. q \in [of : 1 .. Len(objects'), cv : SUBSET Qualifier]
  BY <1>2, <1>10 DEF CvQualifiedType
<1>15. /\ Denotes(types)'
       /\ m_CxxType' \in [CableType -> [of : Nat, cv : SUBSET Qualifier]]
       /\ q # NoCxxType
  BY <1>2, <1>4, <1>8, <1>11, <1>12, <1>13, <1>14, DenotesMore
<1>16. ClassesSound' /\ ObjectsSound(objects)'
  BY <1>2, <1>4, ClassesSame
<1>17. (\E all : Stands(objects, all) /\ Denotes(all))'
  BY <1>2, <1>8, <1>15
<1>18. DataSound'
  BY <1>2, <1>4, <1>15, <1>16, <1>17 DEF DataSound
<1>19. Kept
  <2>1. \A x \in CableType : Cxx(x) # NoCxxType => m_CxxType'[x] = Cxx(x)
    BY <1>3, <1>4, <1>12 DEF DataSound, Cxx
  <2> QED
    BY <1>2, <1>4, <1>13, <1>16, <2>1, ParentsLengths DEF Kept, DataSound
<1>20. Nested(stack)' /\ VisitsSound'
  BY <1>1, <1>2, <1>3, <1>12, <1>15, <1>19, TypeReturns
<1> QED
  BY <1>18, <1>20 DEF IInv, DataSound

\* The objects that are added are not classes, and what is known of those there are stays.
LEMMA ClassesPadded ==
  ASSUME DataSound, Kept, UNCHANGED << program, m_Copyable >>,
         \A i \in 1 .. Len(objects') : i \in 1 .. Len(objects) \/ objects'[i].kind # "Class",
         m_Parents' = m_Parents \o [i \in 1 .. Len(objects') - Len(objects) |-> << >>]
  PROVE  ClassesSound'
<1> DEFINE n == Len(objects)
           m == Len(objects')
           d == m - n
           pad == [i \in 1 .. d |-> << >>]
<1>0. n \in Nat /\ m \in Nat /\ n <= m
  BY LenZero DEF Kept, Extends, ObjectsSound
<1>1. d \in Nat /\ n + d = m
  BY <1>0
<1>2. \A i \in 1 .. n : objects'[i] = objects[i]
  BY DEF Kept, Extends
<1>3. /\ m_Parents \in Seq(Seq(Nat))
      /\ Len(m_Parents) = n
      /\ \A i \in 1 .. n : m_Parents[i] \in Seq(1 .. n)
      /\ m_Copyable \subseteq 1 .. n
  BY DEF DataSound, ClassesSound
<1>4. pad \in Seq(Seq(Nat)) /\ Len(pad) = d /\ \A i \in 1 .. d : pad[i] = << >>
  <2>1. pad \in [1 .. d -> Seq(Nat)]
    OBVIOUS
  <2> HIDE DEF d
  <2>2. pad \in Seq(Seq(Nat)) /\ Len(pad) = d
    BY <1>1, <2>1, FunctionFacts
  <2> QED
    BY <2>2
<1>5. m_Parents' = m_Parents \o pad
  OBVIOUS
<1> HIDE DEF pad, d, n, m
<1>6. /\ m_Parents' \in Seq(Seq(Nat))
      /\ Len(m_Parents') = m
      /\ \A i \in 1 .. n : m_Parents'[i] = m_Parents[i]
      /\ \A i \in 1 .. d : m_Parents'[n + i] = << >>
  <2> DEFINE S == Seq(Nat)
  <2>1. m_Parents \in Seq(S) /\ pad \in Seq(S)
    BY <1>3, <1>4
  <2> HIDE DEF S
  <2>2. /\ m_Parents \o pad \in Seq(S)
        /\ Len(m_Parents \o pad) = Len(m_Parents) + Len(pad)
        /\ \A i \in 1 .. Len(m_Parents) : (m_Parents \o pad)[i] = m_Parents[i]
        /\ \A i \in 1 .. Len(pad) : (m_Parents \o pad)[Len(m_Parents) + i] = pad[i]
    BY <2>1, ConcatFacts
  <2> QED
    BY ONLY <1>1, <1>3, <1>4, <1>5, <2>2 DEF S
<1>7. \A i \in 1 .. m : i \in 1 .. n \/ (i - n \in 1 .. d /\ n + (i - n) = i)
  BY <1>0, <1>1
<1>8. \A i \in 1 .. m : m_Parents'[i] \in Seq(1 .. m)
  <2> SUFFICES ASSUME NEW i \in 1 .. m PROVE m_Parents'[i] \in Seq(1 .. m)
    OBVIOUS
  <2>1. CASE i \in 1 .. n
    <3>1. m_Parents'[i] \in Seq(1 .. n) /\ 1 .. n \subseteq 1 .. m
      BY <1>0, <1>3, <1>6, <2>1
    <3> QED
      BY <3>1, SeqMonotonic
  <2>2. CASE i - n \in 1 .. d /\ n + (i - n) = i
    <3>1. m_Parents'[i] = << >>
      BY <1>6, <2>2
    <3>2. << >> \in Seq(1 .. m)
      OBVIOUS
    <3> QED
      BY <3>1, <3>2
  <2> QED
    BY <1>7, <2>1, <2>2
<1>9. ASSUME NEW i \in 1 .. m, objects'[i].kind = "Class"
      PROVE  \E c \in DOMAIN program.classes : ParentsFrom(i, c)'
  <2>1. i \in 1 .. n /\ objects[i].kind = "Class"
    BY <1>2, <1>9 DEF n, m
  <2>2. PICK c \in DOMAIN program.classes : ParentsFrom(i, c)
    BY <2>1 DEF DataSound, ClassesSound, n
  <2>3. ParentsFrom(i, c)'
    BY <1>6, <2>1, <2>2, ParentsKept DEF DataSound, n
  <2> QED
    BY <2>3
<1>10. m_Copyable' \subseteq 1 .. m
  BY <1>0, <1>3
<1>11. ASSUME NEW i \in m_Copyable'
       PROVE  \E c \in DOMAIN program.classes :
                objects'[i].name = ClassName(c)' /\ IsCopyable(c)'
  <2>1. i \in m_Copyable /\ objects'[i] = objects[i]
    BY <1>2, <1>3
  <2>2. PICK c \in DOMAIN program.classes : objects[i].name = ClassName(c) /\ IsCopyable(c)
    BY <2>1 DEF DataSound, ClassesSound
  <2> QED
    BY <2>1, <2>2, ProgramSame
<1>12. ASSUME NEW i \in 1 .. m, objects'[i].kind # "Class" PROVE m_Parents'[i] = << >>
  <2>1. CASE i \in 1 .. n
    <3>1. objects[i].kind # "Class"
      BY <1>2, <1>12, <2>1
    <3> QED
      BY <1>6, <2>1, <3>1 DEF DataSound, ClassesSound, n
  <2>2. CASE i - n \in 1 .. d /\ n + (i - n) = i
    BY <1>6, <2>2
  <2> QED
    BY <1>7, <2>1, <2>2
<1> QED
  BY <1>6, <1>8, <1>9, <1>10, <1>11, <1>12 DEF ClassesSound, m

LEMMA IInvCreateCxxType ==
  ASSUME IInv, CreateCxxType
  PROVE  IInv'
<1>1. PICK f : f = Head(stack)
  OBVIOUS
<1>2. PICK t \in CableType :
        t = f.of /\ Made(t) /\ ~ Broken(t) /\ ~ PointsToMember(t) /\ Cxx(t) = NoCxxType
  BY <1>1, ReadyFacts DEF CreateCxxType, Top
<1>3. PICK keys : keys = Keys(t)
  OBVIOUS
<1>4. PICK q : q = [of |-> Find(objects', keys[Len(keys)]), cv |-> TopQualifiers(t)]
  OBVIOUS
<1>5. /\ Ready("type") /\ stack' = Tail(stack)
      /\ objects' = Interned(objects, Keys(t))
      /\ m_Parents' = m_Parents \o [i \in 1 .. Len(objects') - Len(objects) |-> << >>]
      /\ UNCHANGED << program, m_Copyable >>
      /\ UNCHANGED << remaining, phase, result >>
  BY <1>1, <1>2 DEF CreateCxxType, Top
<1>6. m_CxxType' = [m_CxxType EXCEPT ![t] = q]
  <2>1. m_CxxType' = [m_CxxType EXCEPT ![Top.of] =
                        [of |-> Find(objects', Keys(Top.of)[Len(Keys(Top.of))]),
                         cv |-> TopQualifiers(Top.of)]]
    BY DEF CreateCxxType
  <2>2. Top.of = t
    BY <1>1, <1>2 DEF Top
  <2> QED
    BY <1>3, <1>4, <2>1, <2>2
<1>7. DataSound /\ program \in Programs
  BY IInvParts DEF DataSound
<1>8. PICK types : Stands(objects, types) /\ Denotes(types)
  BY <1>7 DEF DataSound
<1>9. Requested(t, types)
  <2>1. Known(types)
    BY <1>7, <1>8 DEF DataSound, Known
  <2> QED
    BY <1>2, <2>1, RequestFacts
<1>10. /\ ObjectsSound(objects')
       /\ Extends(objects, objects')
       /\ \A i \in 1 .. Len(objects') : i \in 1 .. Len(objects) \/ objects'[i].kind # "Class"
       /\ q.of \in 1 .. Len(objects')
       /\ \E all :
            /\ Stands(objects', all)
            /\ \A i \in 1 .. Len(objects) : all[i] = types[i]
            /\ Meaning[t] = As(all, q)
  BY <1>3, <1>4, <1>5, <1>9 DEF Requested
<1>11. PICK all :
         /\ Stands(objects', all)
         /\ \A i \in 1 .. Len(objects) : all[i] = types[i]
         /\ Meaning[t] = As(all, q)
  BY <1>10
<1>12. q \in [of : 1 .. Len(objects'), cv : SUBSET Qualifier]
  <2>1. TopQualifiers(t) \in SUBSET Qualifier
    BY <1>7, TypeFacts DEF TopQualifiers
  <2>2. q = [of |-> q.of, cv |-> q.cv] /\ q.cv = TopQualifiers(t)
    BY <1>4
  <2> QED
    BY <1>10, <2>1, <2>2
<1>13. Len(objects') \in Nat
  BY <1>10, LenZero DEF ObjectsSound
<1>14. /\ Denotes(all)'
       /\ m_CxxType' \in [CableType -> [of : Nat, cv : SUBSET Qualifier]]
       /\ q # NoCxxType
  <2>1. UNCHANGED program /\ Extends(objects, objects')
    BY <1>5, <1>10
  <2>2. Denotes(types) /\ \A i \in 1 .. Len(objects) : all[i] = types[i]
    BY <1>8, <1>11
  <2>3. Meaning[t] = As(all, q)
    BY <1>11
  <2> QED
    BY <1>6, <1>7, <1>12, <1>13, <2>1, <2>2, <2>3, DenotesMore
<1>15. ObjectsSound(objects)'
  BY <1>5, <1>10, ObjectsSoundNext
<1>16. Kept
  <2>1. \A x \in CableType : Cxx(x) # NoCxxType => m_CxxType'[x] = Cxx(x)
    BY <1>2, <1>6, <1>7 DEF DataSound, Cxx
  <2>2. \A i \in 1 .. Len(objects) : m_Parents'[i] = m_Parents[i]
    <3> DEFINE d == Len(objects') - Len(objects)
               pad == [i \in 1 .. d |-> << >>]
    <3>1. d \in Nat
      BY <1>7, <1>10, <1>13, ParentsLengths DEF Extends
    <3>2. pad \in [1 .. d -> Seq(Nat)]
      OBVIOUS
    <3>3. m_Parents' = m_Parents \o pad
      BY <1>5
    <3> HIDE DEF d
    <3>4. pad \in Seq(Seq(Nat))
      BY <3>1, <3>2, FunctionFacts
    <3>5. m_Parents \in Seq(Seq(Nat)) /\ Len(m_Parents) = Len(objects)
      BY <1>7 DEF DataSound, ClassesSound
    <3> HIDE DEF pad
    <3> QED
      BY <3>3, <3>4, <3>5, ConcatFacts
  <2> QED
    BY <1>5, <1>7, <1>10, <1>15, <2>1, <2>2, ParentsLengths DEF Kept, DataSound
<1>17. ClassesSound'
  BY <1>5, <1>7, <1>10, <1>16, ClassesPadded
<1>18. (\E x : Stands(objects, x) /\ Denotes(x))'
  <2>1. Stands(objects, all)'
    BY <1>11 DEF Stands
  <2> QED
    BY <1>14, <2>1
<1>19. DataSound'
  BY <1>5, <1>7, <1>14, <1>15, <1>17, <1>18 DEF DataSound
<1>20. Nested(stack)' /\ VisitsSound'
  BY <1>1, <1>2, <1>5, <1>6, <1>14, <1>16, TypeReturns
<1> QED
  BY <1>19, <1>20 DEF IInv, DataSound

-----------------------------------------------------------------------------
(* The step that creates a class. *)

\* The parents that GetCxxClassType gives for c.
ParentsOf(c) == [k \in 1 .. Len(Bases(c)) |-> ClassObject(Bases(c)[k])]

\* The parents of the objects after a request for a class.
MergedParents(key, parents) ==
  IF Find(objects, key) = 0 THEN Append(m_Parents, parents)
  ELSE [m_Parents EXCEPT ![Find(objects, key)] = MergeParents(@, parents)]

LEMMA ParentsOfFacts ==
  ASSUME DataSound, NEW c \in DOMAIN program.classes,
         \A k \in 1 .. Len(Bases(c)) : ClassDone(Bases(c)[k])
  PROVE  /\ ParentsOf(c) \in Seq(1 .. Len(objects))
         /\ ParentsOf(c) \in Seq(Nat)
         /\ Len(ParentsOf(c)) = Len(Bases(c))
         /\ Len(Bases(c)) \in Nat
         /\ \A k \in 1 .. Len(Bases(c)) : ClassObject(Bases(c)[k]) # 0
<1>1. \A k \in 1 .. Len(Bases(c)) : ClassObject(Bases(c)[k]) # 0
  BY DEF ClassDone
<1>2. \A k \in 1 .. Len(Bases(c)) : ClassObject(Bases(c)[k]) \in 1 .. Len(objects)
  BY <1>1, FindFacts DEF ClassObject
<1>3. Len(Bases(c)) \in Nat
  BY ClassFacts DEF DataSound
<1>4. ParentsOf(c) \in [1 .. Len(Bases(c)) -> 1 .. Len(objects)]
  BY <1>2 DEF ParentsOf
<1>5. ParentsOf(c) \in Seq(1 .. Len(objects)) /\ Len(ParentsOf(c)) = Len(Bases(c))
  BY <1>3, <1>4, FunctionFacts
<1>6. 1 .. Len(objects) \subseteq Nat
  BY LenZero DEF DataSound, ObjectsSound
<1>7. ParentsOf(c) \in Seq(Nat)
  BY <1>5, <1>6, SeqMonotonic
<1> QED
  BY <1>1, <1>3, <1>5, <1>7

\* What the step does, for the object of the class.
LEMMA GetClassTypeStep ==
  ASSUME DataSound, GetClassType, NEW c \in DOMAIN program.classes, c = Top.of,
         \A k \in 1 .. Len(Bases(c)) : ClassDone(Bases(c)[k])
  PROVE  /\ UNCHANGED << program, m_CxxType, remaining, phase, result >>
         /\ stack' = Tail(stack)
         /\ objects' = Intern(objects, ClassTypeKey(ClassName(c)))
         /\ m_Parents' = MergedParents(ClassTypeKey(ClassName(c)), ParentsOf(c))
         /\ m_Copyable' = IF IsCopyable(c)
                            THEN m_Copyable \cup {Find(objects', ClassTypeKey(ClassName(c)))}
                            ELSE m_Copyable
<1>1. program.classes[c].bases = Bases(c) /\ program.classes[c].name = ClassName(c)
  BY DEF Bases, ClassName
<1>2. ParentsOf(c) = [i \in 1 .. Len(program.classes[c].bases) |->
                        ClassObject(program.classes[c].bases[i])]
  BY <1>1 DEF ParentsOf
<1>3. /\ objects' = Intern(objects, ClassTypeKey(ClassName(c)))
      /\ m_Copyable' = Copyable(m_Copyable, Find(objects', ClassTypeKey(ClassName(c))),
                                ~ program.classes[c].abstract /\ HasPublicCopyConstructor[c])
      /\ UNCHANGED << program, m_CxxType, remaining, phase, result >>
      /\ stack' = Tail(stack)
  BY <1>1 DEF GetClassType
<1>4. m_Parents' = IF ClassObject(c) = 0 THEN Append(m_Parents, ParentsOf(c))
                   ELSE [m_Parents EXCEPT ![ClassObject(c)] =
                           MergeParents(m_Parents[ClassObject(c)], ParentsOf(c))]
  BY <1>2 DEF GetClassType
<1>5. m_Parents' = MergedParents(ClassTypeKey(ClassName(c)), ParentsOf(c))
  BY <1>4 DEF MergedParents, ClassObject
<1> QED
  BY <1>3, <1>5 DEF Copyable, IsCopyable

\* Only the parents of the object of the class may change, to those of the class.
LEMMA ClassMerged ==
  ASSUME DataSound, NEW parents \in Seq(Nat), NEW key, NEW o, Len(parents) \in Nat,
         KeySound(objects, Len(objects), key),
         objects' = Intern(objects, key), o = Find(objects', key),
         m_Parents' = MergedParents(key, parents)
  PROVE  /\ m_Parents' \in Seq(Seq(Nat))
         /\ Len(m_Parents') = Len(objects')
         /\ \A i \in 1 .. Len(objects') :
              \/ i \in 1 .. Len(objects) /\ m_Parents'[i] = m_Parents[i]
              \/ i = o /\ m_Parents'[i] = parents
         /\ Len(parents) <= Len(m_Parents'[o])
         /\ \A i \in 1 .. Len(objects) :
              Len(m_Parents'[i]) \in Nat /\ Len(m_Parents[i]) <= Len(m_Parents'[i])
<1> DEFINE S == Seq(Nat)
           n == Len(objects)
           known == Find(objects, key)
<1>1. /\ m_Parents \in Seq(S)
      /\ Len(m_Parents) = n
      /\ n \in Nat
      /\ \A i \in 1 .. n : Len(m_Parents[i]) \in Nat
  BY ParentsLengths DEF DataSound, ClassesSound
<1>2. parents \in S
  OBVIOUS
<1>3. /\ known # 0 => known \in 1 .. n /\ objects' = objects /\ o = known
      /\ known = 0 => Len(objects') = n + 1 /\ o = n + 1
  BY InternGrows, FindFacts DEF DataSound
<1>4. /\ known = 0 => m_Parents' = Append(m_Parents, parents)
      /\ known # 0 => m_Parents' = [m_Parents EXCEPT ![known] =
                                      MergeParents(m_Parents[known], parents)]
  BY DEF MergedParents
<1> HIDE DEF S, n, known
<1>5. CASE known = 0
  <2>1. /\ m_Parents' \in Seq(S)
        /\ Len(m_Parents') = n + 1
        /\ \A i \in 1 .. n : m_Parents'[i] = m_Parents[i]
        /\ m_Parents'[n + 1] = parents
    <3>1. m_Parents' = Append(m_Parents, parents)
      BY <1>4, <1>5
    <3>2. /\ Append(m_Parents, parents) \in Seq(S)
          /\ Len(Append(m_Parents, parents)) = Len(m_Parents) + 1
          /\ \A i \in 1 .. Len(m_Parents) : Append(m_Parents, parents)[i] = m_Parents[i]
          /\ Append(m_Parents, parents)[Len(m_Parents) + 1] = parents
      BY <1>1, <1>2, AppendFacts
    <3> QED
      BY <1>1, <3>1, <3>2
  <2>2. \A i \in 1 .. n + 1 : i \in 1 .. n \/ i = n + 1
    BY <1>1
  <2> QED
    BY <1>1, <1>3, <1>5, <2>1, <2>2 DEF S, n
<1>6. CASE known # 0
  <2>1. PICK merged : merged = MergeParents(m_Parents[known], parents)
    OBVIOUS
  <2>2. /\ merged = parents \/ merged = m_Parents[known]
        /\ Len(parents) <= Len(merged)
        /\ Len(m_Parents[known]) <= Len(merged)
        /\ Len(merged) \in Nat
    BY <1>1, <1>3, <1>6, <2>1 DEF MergeParents
  <2>3. known \in 1 .. n /\ m_Parents' = [m_Parents EXCEPT ![known] = merged]
    BY <1>3, <1>4, <1>6, <2>1
  <2>4. m_Parents[known] \in S /\ merged \in S
    BY <1>1, <1>2, <2>2, <2>3, LenZero
  <2>5. m_Parents' \in Seq(S) /\ Len(m_Parents') = n
    <3>1. m_Parents \in [1 .. n -> S]
      BY <1>1, LenProperties
    <3>2. m_Parents' \in [1 .. n -> S]
      BY <2>3, <2>4, <3>1
    <3> QED
      BY <1>1, <3>2, FunctionFacts
  <2>6. /\ m_Parents'[known] = merged
        /\ \A i \in 1 .. n : i # known => m_Parents'[i] = m_Parents[i]
    BY <1>1, <2>3, LenZero
  <2> QED
    BY <1>1, <1>3, <1>6, <2>2, <2>3, <2>5, <2>6 DEF S, n
<1> QED
  BY <1>5, <1>6

LEMMA IInvGetClassType ==
  ASSUME IInv, GetClassType
  PROVE  IInv'
<1>1. PICK f : f = Head(stack)
  OBVIOUS
<1>2. DataSound /\ program \in Programs /\ Nested(stack) /\ VisitsSound
  BY IInvParts DEF DataSound
<1>3. Ready("class") /\ stack # << >>
  BY DEF GetClassType, Ready, Working
<1>4. PICK c \in DOMAIN program.classes :
        c = f.of /\ f.at = "class" /\ \A k \in 1 .. Len(Bases(c)) : ClassDone(Bases(c)[k])
  BY <1>1, <1>3, ReadyFacts
<1>5. c = Top.of
  BY <1>1, <1>4 DEF Top
<1>6. PICK key : key = ClassTypeKey(ClassName(c))
  OBVIOUS
<1>7. PICK parents : parents = ParentsOf(c)
  OBVIOUS
<1>8. PICK o : o = Find(objects', key)
  OBVIOUS
<1>9. /\ UNCHANGED << program, m_CxxType, remaining, phase, result >>
      /\ stack' = Tail(stack)
      /\ objects' = Intern(objects, key)
      /\ m_Parents' = MergedParents(key, parents)
      /\ m_Copyable' = IF IsCopyable(c) THEN m_Copyable \cup {o} ELSE m_Copyable
  BY <1>2, <1>4, <1>5, <1>6, <1>7, <1>8, GetClassTypeStep
<1>10. /\ parents \in Seq(1 .. Len(objects))
       /\ parents \in Seq(Nat)
       /\ Len(parents) = Len(Bases(c))
       /\ Len(parents) \in Nat
       /\ \A k \in 1 .. Len(Bases(c)) : ClassObject(Bases(c)[k]) # 0
  BY <1>2, <1>4, <1>7, ParentsOfFacts
<1>11. KeySound(objects, Len(objects), key) /\ key.kind = "Class" /\ key.name = ClassName(c)
  <2>1. /\ key.kind = "Class" /\ key.name = ClassName(c) /\ key.parts = << >>
        /\ key.class = 0 /\ key.length = 0
    BY <1>6 DEF ClassTypeKey, Key
  <2>2. key \in ObjectKey
    <3>1. "Class" \in ObjectKind /\ << >> \in Seq([of : Nat, cv : SUBSET Qualifier])
      BY DEF ObjectKind
    <3>2. ClassName(c) \in Name
      BY <1>2, ClassFacts
    <3> QED
      BY <1>6, <3>1, <3>2 DEF ObjectKey, ClassTypeKey, Key
  <2>3. key.parts \in Seq([of : 1 .. Len(objects), cv : SUBSET Qualifier])
    BY <2>1
  <2>4. key.class \in 0 .. Len(objects)
    BY <1>2, <2>1, ParentsLengths
  <2> QED
    BY <1>6, <2>1, <2>2, <2>3, <2>4 DEF KeySound
<1>12. /\ ObjectsSound(objects')
       /\ Extends(objects, objects')
       /\ o \in 1 .. Len(objects')
       /\ objects'[o] = key
  BY <1>2, <1>8, <1>9, <1>11, InternGrows DEF DataSound
<1>13. /\ Len(objects) \in Nat /\ Len(objects') \in Nat /\ Len(objects) <= Len(objects')
       /\ \A i \in 1 .. Len(objects) : i \in 1 .. Len(objects') /\ objects'[i] = objects[i]
  BY <1>2, <1>12, LenZero DEF DataSound, ObjectsSound, Extends
<1>14. /\ m_Parents' \in Seq(Seq(Nat))
       /\ Len(m_Parents') = Len(objects')
       /\ \A i \in 1 .. Len(objects') :
            \/ i \in 1 .. Len(objects) /\ m_Parents'[i] = m_Parents[i]
            \/ i = o /\ m_Parents'[i] = parents
       /\ Len(parents) <= Len(m_Parents'[o])
       /\ \A i \in 1 .. Len(objects) :
            Len(m_Parents'[i]) \in Nat /\ Len(m_Parents[i]) <= Len(m_Parents'[i])
  <2>1. objects' = Intern(objects, key) /\ o = Find(objects', key)
    BY <1>8, <1>9
  <2>2. m_Parents' = MergedParents(key, parents)
    BY <1>9
  <2>3. KeySound(objects, Len(objects), key) /\ parents \in Seq(Nat) /\ Len(parents) \in Nat
    BY <1>10, <1>11
  <2> QED
    BY <1>2, <2>1, <2>2, <2>3, ClassMerged
<1>15. ObjectsSound(objects)'
  BY <1>9, <1>12, ObjectsSoundNext
<1>16. Kept
  <2>1. \A x \in CableType : Cxx(x) # NoCxxType => m_CxxType'[x] = Cxx(x)
    BY <1>9 DEF Cxx
  <2>2. m_Copyable \subseteq m_Copyable'
    BY <1>9
  <2>3. UNCHANGED program /\ ObjectsSound(objects)
    BY <1>2, <1>9 DEF DataSound
  <2> QED
    BY <1>2, <1>12, <1>14, <1>15, <2>1, <2>2, <2>3, ParentsLengths DEF Kept
<1>17. (\E x : Stands(objects, x) /\ Denotes(x))'
  <2>1. PICK types : Stands(objects, types) /\ Denotes(types)
    BY <1>2 DEF DataSound
  <2>2. PICK all : /\ Stands(objects', all)
                   /\ \A i \in 1 .. Len(objects) : all[i] = types[i]
    BY <1>2, <1>9, <1>11, <2>1, InternStands DEF DataSound
  <2>3. Denotes(all)'
    <3>1. ASSUME NEW u \in CableType, Cxx(u) # NoCxxType
          PROVE  /\ Cxx(u) \in [of : 1 .. Len(objects'), cv : SUBSET Qualifier]
                 /\ Meaning[u] = As(all, Cxx(u))
      <4>1. PICK q : q = Cxx(u)
        OBVIOUS
      <4>2. q \in [of : 1 .. Len(objects), cv : SUBSET Qualifier] /\ Meaning[u] = As(types, q)
        BY <2>1, <3>1, <4>1 DEF Denotes, CvQualifiedType
      <4>3. As(all, q) = As(types, q)
        BY <2>2, <4>2 DEF As
      <4>4. q \in [of : 1 .. Len(objects'), cv : SUBSET Qualifier]
        BY <1>13, <4>2
      <4> QED
        BY <4>1, <4>2, <4>3, <4>4
    <3>2. Meaning' = Meaning /\ \A u : Cxx(u)' = Cxx(u)
      BY <1>9, ProgramSame DEF Cxx
    <3> QED
      BY <3>1, <3>2 DEF Denotes, CvQualifiedType
  <2>4. Stands(objects, all)'
    BY <2>2 DEF Stands
  <2> QED
    BY <2>3, <2>4
<1>18. ClassName(c)' = ClassName(c) /\ Bases(c)' = Bases(c)
  BY <1>9, ProgramSame
<1>19. ParentsFrom(o, c)' \/ m_Parents'[o] # parents
  <2> SUFFICES ASSUME m_Parents'[o] = parents PROVE ParentsFrom(o, c)'
    OBVIOUS
  <2> DEFINE b == Bases(c)
  <2>1. \A k \in 1 .. Len(b) : ClassObject(Bases(c)[k])' = ClassObject(b[k])
    <3> TAKE k \in 1 .. Len(b)
    <3>1. PICK d : d = b[k]
      OBVIOUS
    <3>2. ClassObject(d)' = ClassObject(d)
      BY <1>10, <1>16, <3>1, ClassObjectKept
    <3>3. Bases(c)'[k] = d
      BY <1>18, <3>1
    <3> QED
      BY <3>1, <3>2, <3>3
  <2>2. m_Parents'[o] = [k \in 1 .. Len(b) |-> ClassObject(b[k])]
    BY <1>7 DEF ParentsOf
  <2>3. m_Parents'[o] = [k \in 1 .. Len(b) |-> ClassObject(Bases(c)[k])']
    BY <2>1, <2>2
  <2>4. objects'[o].name = ClassName(c)'
    BY <1>11, <1>12, <1>18
  <2>5. /\ m_Parents'[o] = [k \in 1 .. Len(Bases(c)') |-> ClassObject(Bases(c)[k])']
        /\ \A k \in 1 .. Len(Bases(c)') : ClassObject(Bases(c)[k])' # 0
    BY <1>10, <1>18, <2>1, <2>3
  <2> QED
    BY <2>4, <2>5 DEF ParentsFrom
<1>20. ClassesSound'
  <2>1. \A i \in 1 .. Len(objects') : m_Parents'[i] \in Seq(1 .. Len(objects'))
    <3> SUFFICES ASSUME NEW i \in 1 .. Len(objects')
                 PROVE  m_Parents'[i] \in Seq(1 .. Len(objects'))
      OBVIOUS
    <3>1. m_Parents'[i] \in Seq(1 .. Len(objects))
      BY <1>2, <1>10, <1>14 DEF DataSound, ClassesSound
    <3>2. 1 .. Len(objects) \subseteq 1 .. Len(objects')
      BY <1>13
    <3> QED
      BY <3>1, <3>2, SeqMonotonic
  <2>2. ASSUME NEW i \in 1 .. Len(objects'), objects'[i].kind = "Class"
        PROVE  \E d \in DOMAIN program.classes : ParentsFrom(i, d)'
    <3>1. CASE i \in 1 .. Len(objects) /\ m_Parents'[i] = m_Parents[i]
      <4>1. objects[i].kind = "Class"
        BY <1>13, <2>2, <3>1
      <4>2. PICK d \in DOMAIN program.classes : ParentsFrom(i, d)
        BY <1>2, <3>1, <4>1 DEF DataSound, ClassesSound
      <4>3. ParentsFrom(i, d)'
        BY <1>2, <1>16, <3>1, <4>2, ParentsKept
      <4> QED
        BY <4>3
    <3>2. CASE i = o /\ m_Parents'[i] = parents
      <4>1. ParentsFrom(o, c)'
        BY <1>19, <3>2
      <4> QED
        BY <3>2, <4>1
    <3> QED
      BY <1>14, <3>1, <3>2
  <2>3. m_Copyable' \subseteq 1 .. Len(objects')
    BY <1>2, <1>9, <1>12, <1>13 DEF DataSound, ClassesSound
  <2>4. ASSUME NEW i \in m_Copyable'
        PROVE  \E d \in DOMAIN program.classes :
                 objects'[i].name = ClassName(d)' /\ IsCopyable(d)'
    <3>1. CASE i \in m_Copyable
      <4>1. objects'[i] = objects[i]
        BY <1>2, <1>13, <3>1 DEF DataSound, ClassesSound
      <4>2. PICK d \in DOMAIN program.classes : objects[i].name = ClassName(d) /\ IsCopyable(d)
        BY <1>2, <3>1 DEF DataSound, ClassesSound
      <4> QED
        BY <1>9, <4>1, <4>2, ProgramSame
    <3>2. CASE i = o /\ IsCopyable(c)
      BY <1>9, <1>11, <1>12, <3>2, ProgramSame
    <3> QED
      BY <1>9, <3>1, <3>2
  <2>5. ASSUME NEW i \in 1 .. Len(objects'), objects'[i].kind # "Class"
        PROVE  m_Parents'[i] = << >>
    <3>1. CASE i \in 1 .. Len(objects) /\ m_Parents'[i] = m_Parents[i]
      <4>1. objects[i].kind # "Class"
        BY <1>13, <2>5, <3>1
      <4> QED
        BY <1>2, <3>1, <4>1 DEF DataSound, ClassesSound
    <3>2. CASE i = o /\ m_Parents'[i] = parents
      BY <1>11, <1>12, <2>5, <3>2
    <3> QED
      BY <1>14, <3>1, <3>2
  <2> QED
    BY <1>9, <1>14, <2>1, <2>2, <2>3, <2>4, <2>5 DEF ClassesSound
<1>21. DataSound'
  <2>1. /\ program' \in Programs
        /\ m_CxxType' \in [CableType -> [of : Nat, cv : SUBSET Qualifier]]
    BY <1>2, <1>9 DEF DataSound
  <2> QED
    BY <1>15, <1>17, <1>20, <2>1 DEF DataSound
<1>22. ClassDone(c)'
  <2>1. ClassObject(c)' = o
    <3>1. ClassTypeKey(ClassName(c))' = key
      BY <1>6, <1>18 DEF ClassTypeKey, Key
    <3> QED
      BY <1>8, <3>1 DEF ClassObject
  <2>2. IsCopyable(c)' => o \in m_Copyable'
    BY <1>9, ProgramSame
  <2>3. Len(Bases(c)') <= Len(m_Parents'[o])
    BY <1>10, <1>14, <1>18
  <2>4. o # 0
    BY <1>12
  <2> QED
    BY <2>1, <2>2, <2>3, <2>4 DEF ClassDone
<1>23. Done(f)'
  <2>1. ClassDone(f.of)'
    BY <1>4, <1>22
  <2> QED
    BY <1>4, <2>1 DEF Done
<1>24. ASSUME NEW t \in CableType, Cxx(t)' # NoCxxType, Info(t).kind = "Class"
       PROVE  ClassDone(Info(t).class)'
  <2>1. ClassDone(Info(t).class)
    <3>1. Cxx(t) # NoCxxType
      BY <1>9, <1>24 DEF Cxx
    <3> QED
      BY <1>2, <1>24, <3>1 DEF VisitsSound
  <2>2. PICK d \in DOMAIN program.classes : d = Info(t).class
    BY <1>2, <1>24, TypeFacts
  <2>3. ClassDone(d)'
    BY <1>2, <1>16, <2>1, <2>2, DoneKept
  <2>4. Info(t)'.class = d
    BY <1>9, <2>2, ProgramSame
  <2> QED
    BY <2>3, <2>4
<1>25. Nested(stack)' /\ VisitsSound'
  BY <1>1, <1>2, <1>3, <1>9, <1>16, <1>23, <1>24, PopVisits
<1> QED
  BY <1>21, <1>25 DEF IInv, DataSound

LEMMA IInvNext ==
  ASSUME IInv, [Next]_vars
  PROVE  IInv'
<1>1. ASSUME NEW t \in CableType, CreateCxxTypes(t) PROVE IInv'
  BY <1>1, IInvCreateCxxTypes
<1>2. CASE AlreadyCreated
  BY <1>2, IInvAlreadyCreated
<1>3. CASE CreatePart
  BY <1>3, IInvCreatePart
<1>4. CASE CreateCxxType
  BY <1>4, IInvCreateCxxType
<1>5. CASE CreatePointerToMember
  BY <1>5, IInvCreatePointerToMember
<1>6. CASE GetClassType
  BY <1>6, IInvGetClassType
<1>7. CASE Fail
  BY <1>7, IInvFail
<1>8. CASE EndTypes
  BY <1>8, IInvEndTypes
<1>9. CASE UNCHANGED vars
  BY <1>9, IInvUnchanged
<1> QED
  BY <1>1, <1>2, <1>3, <1>4, <1>5, <1>6, <1>7, <1>8, <1>9 DEF Next

-----------------------------------------------------------------------------
(* The theorems. *)

\* The invariant holds in every state: whatever is created stands for what its cable type
\* denotes, the active calls have done what they have called, and what the TypeSystem
\* knows of a class is what one of that name says.
THEOREM InvariantHolds == Spec => []IInv
<1>1. Init => IInv
  BY IInvInit
<1>2. IInv /\ [Next]_vars => IInv'
  BY IInvNext
<1> QED
  BY <1>1, <1>2, PTL DEF Spec

LEMMA IInvTypeOK ==
  ASSUME IInv
  PROVE  TypeOK
<1>1. DataSound /\ Nested(stack) /\ VisitsSound /\ program \in Programs
  BY IInvParts DEF DataSound
<1>2. \A t \in CableType : Cxx(t) = NoCxxType \/ Cxx(t) \in CvQualifiedType
  BY <1>1 DEF DataSound, Denotes
<1>3. ASSUME NEW i \in 1 .. Len(objects)
      PROVE  /\ objects[i].kind \in ObjectKind
             /\ objects[i].parts \in Seq([of : 1 .. i - 1, cv : SUBSET Qualifier])
             /\ objects[i].kind = "PointerToMember" => objects[i].class \in 1 .. i - 1
  <2>1. KeySound(objects, i - 1, objects[i])
    BY <1>1 DEF DataSound, ObjectsSound
  <2>2. objects[i].kind \in ObjectKind
    BY <2>1, KeyFields DEF KeySound
  <2>3. objects[i].class \in 0 .. i - 1 /\ i - 1 \in Nat
    BY <1>1, <2>1, ParentsLengths DEF KeySound
  <2>4. objects[i].kind = "PointerToMember" => objects[i].class # 0
    BY <2>1 DEF KeySound
  <2>5. objects[i].parts \in Seq([of : 1 .. i - 1, cv : SUBSET Qualifier])
    BY <2>1 DEF KeySound
  <2>6. objects[i].kind = "PointerToMember" => objects[i].class \in 1 .. i - 1
    BY <2>3, <2>4
  <2> QED
    BY <2>2, <2>5, <2>6
<1>4. /\ Len(m_Parents) = Len(objects)
      /\ \A i \in 1 .. Len(objects) : m_Parents[i] \in Seq(1 .. Len(objects))
      /\ m_Copyable \subseteq 1 .. Len(objects)
  BY <1>1 DEF DataSound, ClassesSound
<1>5. stack \in Seq([at : {"type"}, of : CableType \cup {Null}, next : Nat \ {0}]
                      \cup [at : {"class"}, of : Class, next : Nat \ {0}])
  <2> DEFINE F == [at : {"type"}, of : CableType \cup {Null}, next : Nat \ {0}]
                    \cup [at : {"class"}, of : Class, next : Nat \ {0}]
  <2>1. DOMAIN program.classes \subseteq Class
    BY <1>1, ClassFacts
  <2>2. Frame \subseteq F
    BY <2>1 DEF Frame
  <2>3. stack \in Seq(Frame)
    BY <1>1 DEF Nested
  <2> HIDE DEF F
  <2>4. stack \in Seq(F)
    BY <2>2, <2>3, SeqMonotonic
  <2> QED
    BY <2>4 DEF F
<1>6. remaining \subseteq CableType /\ phase \in {"types", "done"} /\ result \in BOOLEAN
  BY <1>1 DEF VisitsSound
<1> QED
  BY <1>1, <1>2, <1>3, <1>4, <1>5, <1>6 DEF TypeOK

\* Every variable has its type, and an object refers to older ones only: the keys of the
\* maps in cxxTypeSystem.cxx are complete when they are looked up.
THEOREM TypeCorrect == Spec => []TypeOK
<1>1. IInv => TypeOK
  BY IInvTypeOK
<1> QED
  BY <1>1, InvariantHolds, PTL

\* A type that can be created is not made of a missing one.
LEMMA CreatableParts ==
  ASSUME program \in Programs, NEW t \in CableType, Creatable(t),
         NEW k \in 1 .. Len(Parts(t)), Parts(t)[k].at = "type"
  PROVE  Parts(t)[k].of # Null
<1> DEFINE F == {f \in Frame : f.at = "type" => f.of # Null}
           arguments == [i \in 1 .. Len(Info(t).args) |-> TypeCall(Info(t).args[i])]
           kind == Info(t).kind
<1>1. \A u \in CableType : TypeCall(u) \in F
  BY CallForms, TypeFacts DEF TypeCall
<1>2. \A c \in DOMAIN program.classes : ClassCall(c) \in F
  BY CallForms DEF ClassCall
<1>3. /\ Len(Info(t).args) \in Nat
      /\ \A i \in 1 .. Len(Info(t).args) : Info(t).args[i] \in CableType
      /\ Info(t).target \in CableType \cup {Null}
      /\ kind \in {"Class", "Method", "Offset"} => Info(t).class \in DOMAIN program.classes
      /\ kind \notin {"Fundamental", "Enumeration", "Class"} => Info(t).target # Null
  BY TypeFacts DEF Creatable
<1> HIDE DEF F
<1>4. arguments \in Seq(F)
  BY <1>1, <1>3
<1>5. kind \notin {"Fundamental", "Enumeration", "Class"} => TypeCall(Info(t).target) \in F
  BY <1>1, <1>3
<1>6. kind \in {"Class", "Method", "Offset"} => ClassCall(Info(t).class) \in F
  BY <1>2, <1>3
<1> HIDE DEF arguments
<1>7. Parts(t) \in Seq(F)
  <2>1. CASE kind \in {"Fundamental", "Enumeration", "Class"}
    BY <1>6, <2>1 DEF Parts
  <2>2. CASE kind \in {"Pointer", "Reference", "Array", "Offset"}
    BY <1>5, <1>6, <2>2 DEF Parts
  <2>3. CASE kind = "Function"
    <3>1. Parts(t) = << TypeCall(Info(t).target) >> \o arguments
      BY <2>3 DEF Parts, arguments
    <3> QED
      BY <1>4, <1>5, <2>3, <3>1
  <2>4. CASE kind = "Method"
    <3>1. Parts(t) = << ClassCall(Info(t).class), TypeCall(Info(t).target) >> \o arguments
      BY <2>4 DEF Parts, arguments
    <3> QED
      BY <1>4, <1>5, <1>6, <2>4, <3>1
  <2> QED
    BY <2>1, <2>2, <2>3, <2>4, TypeFacts
<1> QED
  BY <1>7 DEF F

\* A step that creates nothing, and leaves the calls or returns from some.
LEMMA FailuresKept ==
  ASSUME IInv, FailuresSound, UNCHANGED program,
         \A t \in CableType : Cxx(t)' # NoCxxType => Cxx(t) # NoCxxType \/ Creatable(t),
         stack' \in {<< >>, stack, Tail(stack)}, UNCHANGED << phase, result >>
  PROVE  FailuresSound'
<1>1. \A t : Creatable(t)' <=> Creatable(t)
  BY DEF Creatable, Broken, Info
<1>2. \A i \in 1 .. Len(stack') : \E j \in 1 .. Len(stack) : stack'[i] = stack[j]
  <2>1. stack \in Seq(Frame)
    BY DEF IInv, Nested
  <2>2. CASE stack = << >>
    BY <2>1, <2>2
  <2>3. CASE stack # << >>
    <3>1. PICK s \in Seq(Frame) : s = stack
      BY <2>1
    <3>2. /\ Len(s) \in Nat \ {0} /\ Len(Tail(s)) = Len(s) - 1
          /\ \A i \in 1 .. Len(Tail(s)) : Tail(s)[i] = s[i + 1]
      BY <2>3, <3>1, TailFacts
    <3>3. \A i \in 1 .. Len(Tail(s)) : i + 1 \in 1 .. Len(s)
      BY <3>2
    <3>4. CASE stack' = << >>
      BY <3>4
    <3>5. CASE stack' = s
      BY <3>1, <3>5
    <3>6. CASE stack' = Tail(s)
      BY <3>1, <3>2, <3>3, <3>6
    <3> QED
      BY <3>1, <3>4, <3>5, <3>6
  <2> QED
    BY <2>2, <2>3
<1> QED
  BY <1>1, <1>2 DEF FailuresSound

LEMMA FailuresStep ==
  ASSUME IInv, FailuresSound, [Next]_vars
  PROVE  FailuresSound'
<1>0. program \in Programs /\ Nested(stack)
  BY DEF IInv
<1>1. \A t : UNCHANGED program => (Creatable(t)' <=> Creatable(t))
  BY DEF Creatable, Broken, Info
<1>2. ASSUME NEW t \in CableType, CreateCxxTypes(t) PROVE FailuresSound'
  <2>1. UNCHANGED << program, m_CxxType, phase, result >> /\ stack' = << TypeCall(t) >>
    BY <1>2 DEF CreateCxxTypes
  <2>2. /\ Len(stack') = 1 /\ stack'[1].of = t /\ t # Null
        /\ \A u : Cxx(u)' = Cxx(u)
    BY <1>0, <2>1, TypeFacts DEF TypeCall, Cxx
  <2> QED
    BY <1>1, <2>1, <2>2 DEF FailuresSound
<1>3. CASE AlreadyCreated
  BY <1>3, FailuresKept DEF AlreadyCreated, Cxx
<1>4. CASE CreatePart
  <2>1. /\ UNCHANGED << program, m_CxxType, phase, result >>
        /\ stack # << >> /\ Working /\ Top.next <= Len(Calls(Top))
        /\ stack' = << Calls(Top)[Top.next], [Top EXCEPT !.next = @ + 1] >> \o Tail(stack)
    BY <1>4 DEF CreatePart, Working
  <2>2. PICK f : f = Top
    OBVIOUS
  <2>3. PICK s \in Seq(Frame) : s = stack
    BY <1>0 DEF Nested
  <2>4. /\ f \in Frame /\ f = s[1]
        /\ Tail(s) \in Seq(Frame) /\ Len(s) \in Nat \ {0} /\ Len(Tail(s)) = Len(s) - 1
        /\ \A i \in 1 .. Len(Tail(s)) : Tail(s)[i] = s[i + 1]
    BY <2>1, <2>2, <2>3, TailFacts DEF Top
  <2>5. f.at = "type" => f.of # Null /\ f.of \in CableType
    BY <2>1, <2>2, <2>4 DEF Working, Broken, Frame
  <2>6. PICK c : c = Calls(f)[f.next]
    OBVIOUS
  <2>7. c.at = "type" /\ c.of = Null => f.at = "type" /\ ~ Creatable(f.of)
    <3>1. f.next \in 1 .. Len(Calls(f))
      BY <1>0, <2>1, <2>2, <2>4, <2>5, CallsFacts DEF Frame
    <3>2. CASE f.at = "type"
      <4>1. Calls(f) = Parts(f.of)
        BY <3>2 DEF Calls
      <4> QED
        BY <1>0, <2>5, <2>6, <3>1, <3>2, <4>1, CreatableParts
    <3>3. CASE f.at = "class"
      <4>1. /\ Len(Calls(f)) = Len(Bases(f.of))
            /\ \A k \in 1 .. Len(Bases(f.of)) : Calls(f)[k] = ClassCall(Bases(f.of)[k])
        BY <1>0, <2>4, <3>3, CallsFacts
      <4>2. c = ClassCall(Bases(f.of)[f.next])
        BY <2>6, <3>1, <4>1
      <4>3. c.at = "class"
        BY <4>2 DEF ClassCall
      <4> QED
        BY <4>3
    <3> QED
      BY <2>4, <3>2, <3>3 DEF Frame
  <2>8. PICK g : g = [f EXCEPT !.next = @ + 1]
    OBVIOUS
  <2>9. g.at = f.at /\ g.of = f.of
    BY <2>4, <2>8 DEF Frame
  <2>10. stack' = << c, g >> \o Tail(s)
    BY <2>1, <2>2, <2>3, <2>6, <2>8
  <2>11. \A i \in 1 .. Len(stack') :
           stack'[i] = c \/ stack'[i] = g \/ \E j \in 1 .. Len(s) : stack'[i] = s[j]
    <3> DEFINE T == Frame \cup {c, g}
               r == Tail(s)
    <3>1. r \in Seq(T)
      BY <2>4, SeqMonotonic
    <3>2. c \in T /\ g \in T /\ \A i \in 1 .. Len(r) : i + 1 \in 1 .. Len(s) /\ r[i] = s[i + 1]
      BY <2>4
    <3> HIDE DEF T, r
    <3>3. /\ Len(<< c, g >> \o r) = Len(r) + 2
          /\ (<< c, g >> \o r)[1] = c
          /\ (<< c, g >> \o r)[2] = g
          /\ \A i \in 1 .. Len(r) : (<< c, g >> \o r)[i + 2] = r[i]
          /\ Len(r) \in Nat
      BY <3>1, <3>2, ElementsAfter
    <3>4. \A i \in 1 .. Len(r) + 2 :
            i = 1 \/ i = 2 \/ (i - 2 \in 1 .. Len(r) /\ (i - 2) + 2 = i)
      BY <3>3
    <3>5. \A i \in 1 .. Len(r) + 2 :
            \/ (<< c, g >> \o r)[i] = c
            \/ (<< c, g >> \o r)[i] = g
            \/ \E j \in 1 .. Len(s) : (<< c, g >> \o r)[i] = s[j]
      BY <3>2, <3>3, <3>4
    <3> QED
      BY <2>10, <3>3, <3>5 DEF r
  <2>12. \A u : Cxx(u)' = Cxx(u)
    BY <2>1 DEF Cxx
  <2>13. \A i \in 1 .. Len(stack') : stack'[i].at = "type" /\ stack'[i].of = Null =>
           \E t \in CableType : ~ Creatable(t)
    <3> SUFFICES ASSUME NEW i \in 1 .. Len(stack'), stack'[i].at = "type", stack'[i].of = Null
                 PROVE  \E t \in CableType : ~ Creatable(t)
      OBVIOUS
    <3>1. CASE stack'[i] = c
      BY <2>5, <2>7, <3>1
    <3>2. CASE stack'[i] = g
      BY <2>5, <2>9, <3>2
    <3>3. ASSUME NEW j \in 1 .. Len(s), stack'[i] = s[j] PROVE \E t \in CableType : ~ Creatable(t)
      BY <2>3, <3>3 DEF FailuresSound
    <3> QED
      BY <2>11, <3>1, <3>2, <3>3
  <2> QED
    BY <1>1, <2>1, <2>12, <2>13 DEF FailuresSound
<1>5. ASSUME Ready("type"), NEW q, m_CxxType' = [m_CxxType EXCEPT ![Top.of] = q],
             UNCHANGED << program, phase, result >>, stack' = Tail(stack)
      PROVE  FailuresSound'
  <2>1. PICK t \in CableType : t = Top.of /\ Made(t) /\ ~ Broken(t)
    BY <1>5, ReadyFacts DEF Top
  <2>2. \A u \in CableType : u # t => Cxx(u)' = Cxx(u)
    BY <1>5, <2>1 DEF IInv, Cxx
  <2>3. Creatable(t)
    BY <1>0, <2>1, TypeFacts DEF Creatable, Made
  <2> QED
    BY <1>5, <2>2, <2>3, FailuresKept
<1>6. CASE CreateCxxType
  BY <1>5, <1>6 DEF CreateCxxType
<1>7. CASE CreatePointerToMember
  BY <1>5, <1>7 DEF CreatePointerToMember, Ready, system
<1>8. CASE GetClassType
  BY <1>8, FailuresKept DEF GetClassType, Cxx
<1>9. CASE Fail
  <2>1. /\ stack # << >> /\ Top.at = "type" /\ Broken(Top.of)
        /\ stack' = << >> /\ UNCHANGED << program, m_CxxType, result >>
    BY <1>9 DEF Fail
  <2>2. PICK s \in Seq(Frame) : s = stack
    BY <1>0 DEF Nested
  <2>3. Top = s[1] /\ Top \in Frame /\ 1 \in 1 .. Len(s)
    BY <2>1, <2>2, TailFacts DEF Top
  <2>4. \E t \in CableType : ~ Creatable(t)
    <3>1. CASE Top.of = Null
      BY <2>1, <2>2, <2>3, <3>1 DEF FailuresSound
    <3>2. CASE Top.of # Null
      BY <2>1, <2>3, <3>2 DEF Creatable, Frame
    <3> QED
      BY <3>1, <3>2
  <2>5. \A u : Cxx(u)' = Cxx(u)
    BY <2>1 DEF Cxx
  <2>6. 1 .. Len(stack') = {}
    BY <2>1
  <2> QED
    BY <1>1, <2>1, <2>4, <2>5, <2>6 DEF FailuresSound
<1>10. CASE EndTypes
  <2>1. /\ UNCHANGED << program, m_CxxType, stack >> /\ result'
    BY <1>10 DEF EndTypes
  <2>2. \A u : Cxx(u)' = Cxx(u)
    BY <2>1 DEF Cxx
  <2> QED
    BY <1>1, <2>1, <2>2 DEF FailuresSound
<1>11. CASE UNCHANGED vars
  BY <1>11, FailuresKept DEF vars, Cxx
<1> QED
  BY <1>2, <1>3, <1>4, <1>6, <1>7, <1>8, <1>9, <1>10, <1>11 DEF Next

LEMMA IInvTypesUnique ==
  ASSUME IInv, FailuresSound
  PROVE  TypesUnique
<1>1. DataSound /\ VisitsSound
  BY IInvParts
<1>2. PICK types : Stands(objects, types) /\ Denotes(types)
  BY <1>1 DEF DataSound
<1>3. ASSUME NEW t \in CableType, Cxx(t) # NoCxxType, NEW u \in CableType, Cxx(u) # NoCxxType
      PROVE  Cxx(t) = Cxx(u) <=> Meaning[t] = Meaning[u]
  <2>1. /\ Cxx(t) \in CvQualifiedType /\ Meaning[t] = As(types, Cxx(t))
        /\ Cxx(u) \in CvQualifiedType /\ Meaning[u] = As(types, Cxx(u))
    BY <1>2, <1>3 DEF Denotes
  <2>2. PICK q \in [of : 1 .. Len(objects), cv : SUBSET Qualifier] : q = Cxx(t)
    BY <2>1 DEF CvQualifiedType
  <2>3. PICK r \in [of : 1 .. Len(objects), cv : SUBSET Qualifier] : r = Cxx(u)
    BY <2>1 DEF CvQualifiedType
  <2>4. As(types, q) = As(types, r) => q = r
    BY <1>2, AsInjective
  <2> QED
    BY <2>1, <2>2, <2>3, <2>4
<1>4. result => \A t \in CableType : Cxx(t) # NoCxxType
  <2> SUFFICES ASSUME result, NEW t \in CableType PROVE Cxx(t) # NoCxxType
    OBVIOUS
  <2>1. phase = "done" /\ stack = << >> /\ remaining = {}
    BY <1>1 DEF VisitsSound
  <2> QED
    BY <1>1, <2>1 DEF VisitsSound
<1>5. phase = "done" => (result <=> \A t \in CableType : Creatable(t))
  BY <1>4 DEF FailuresSound
<1> QED
  BY <1>3, <1>4, <1>5 DEF TypesUnique

\* For every source representation and order of visits, two cable types that have been
\* given their C++ types have the same one exactly when they denote the same type, and
\* CreateCxxTypes succeeds exactly when every type can be created, and then each has
\* been.
THEOREM OneObjectForEachType == Spec => []TypesUnique
<1>1. IInv /\ FailuresSound => TypesUnique
  BY IInvTypesUnique
<1>2. Init => FailuresSound
  BY DEF Init, FailuresSound, Cxx
<1>3. IInv /\ FailuresSound /\ [Next]_vars => FailuresSound'
  BY FailuresStep
<1> QED
  BY <1>1, <1>2, <1>3, InvariantHolds, PTL DEF Spec

LEMMA IInvLongestParentsKept ==
  ASSUME IInv
  PROVE  LongestParentsKept
<1> SUFFICES ASSUME result, NEW c \in DOMAIN program.classes
             PROVE  LET o     == ClassObject(c)
                        alike == {d \in DOMAIN program.classes : ClassName(d) = ClassName(c)}
                        bases(d) == program.classes[d].bases
                    IN  /\ o \in m_Copyable <=>
                             \E d \in alike : /\ ~ program.classes[d].abstract
                                             /\ \A b \in Lineage(d) : program.classes[b].copies
                        /\ \E d \in alike :
                             /\ m_Parents[o] = [i \in 1 .. Len(bases(d)) |-> ClassObject(bases(d)[i])]
                             /\ \A e \in alike : Len(bases(e)) <= Len(bases(d))
  BY DEF LongestParentsKept
<1> DEFINE alike == {d \in DOMAIN program.classes : ClassName(d) = ClassName(c)}
<1>1. DataSound /\ VisitsSound /\ program \in Programs
  BY IInvParts DEF DataSound
<1>2. PICK o : o = ClassObject(c)
  OBVIOUS
<1>3. \A d \in DOMAIN program.classes : ClassDone(d)
  <2> TAKE d \in DOMAIN program.classes
  <2>1. PICK t \in CableType : Info(t).kind = "Class" /\ Info(t).class = d
    BY <1>1, TypeSystemAssumption DEF Info
  <2>2. Cxx(t) # NoCxxType
    <3>1. phase = "done" /\ stack = << >> /\ remaining = {}
      BY <1>1 DEF VisitsSound
    <3> QED
      BY <1>1, <3>1 DEF VisitsSound
  <2> QED
    BY <1>1, <2>1, <2>2 DEF VisitsSound
<1>4. \A d \in alike : /\ d \in DOMAIN program.classes
                       /\ ClassObject(d) = o
                       /\ IsCopyable(d) => o \in m_Copyable
                       /\ Len(Bases(d)) <= Len(m_Parents[o])
  <2> TAKE d \in alike
  <2>1. d \in DOMAIN program.classes /\ ClassObject(d) = o
    BY <1>2 DEF ClassObject
  <2> QED
    BY <1>3, <2>1 DEF ClassDone
<1>5. o \in 1 .. Len(objects) /\ objects[o].kind = "Class" /\ objects[o].name = ClassName(c)
  <2>1. o # 0
    BY <1>2, <1>3 DEF ClassDone
  <2>2. o \in 1 .. Len(objects) /\ objects[o] = ClassTypeKey(ClassName(c))
    BY <1>2, <2>1, FindFacts DEF ClassObject
  <2> QED
    BY <2>2 DEF ClassTypeKey, Key
<1>6. \A d \in DOMAIN program.classes :
        IsCopyable(d) <=> /\ ~ program.classes[d].abstract
                          /\ \A b \in Lineage(d) : program.classes[b].copies
  BY <1>1, CopyConstructorExact DEF IsCopyable, Copies
<1>7. o \in m_Copyable <=> \E d \in alike : IsCopyable(d)
  <2>1. o \in m_Copyable => \E d \in alike : IsCopyable(d)
    BY <1>1, <1>5 DEF DataSound, ClassesSound
  <2> QED
    BY <1>4, <2>1
<1>8. PICK d \in alike :
        /\ d \in DOMAIN program.classes
        /\ m_Parents[o] = [k \in 1 .. Len(Bases(d)) |-> ClassObject(Bases(d)[k])]
  BY <1>1, <1>5 DEF DataSound, ClassesSound, ParentsFrom
<1>9. Len(m_Parents[o]) = Len(Bases(d))
  <2>1. Len(Bases(d)) \in Nat
    BY <1>1, ClassFacts
  <2> QED
    BY <1>8, <2>1
<1>10. /\ m_Parents[o] = [k \in 1 .. Len(program.classes[d].bases) |->
                            ClassObject(program.classes[d].bases[k])]
       /\ \A e \in alike : Len(program.classes[e].bases) <= Len(program.classes[d].bases)
  BY <1>4, <1>8, <1>9 DEF Bases
<1>11. o \in m_Copyable <=>
         \E x \in alike : /\ ~ program.classes[x].abstract
                          /\ \A b \in Lineage(x) : program.classes[b].copies
  BY <1>4, <1>6, <1>7
<1> QED
  BY <1>2, <1>8, <1>10, <1>11

\* For every source representation and order of visits, when CreateCxxTypes succeeds a
\* ClassType is copyable exactly when one of the classes of its name is, and it has the
\* parents of one of them with the most: of the other lists of parents, which the
\* comment at MergeClassInformation merges, nothing is left.
THEOREM LongestParentsWin == Spec => []LongestParentsKept
<1>1. IInv => LongestParentsKept
  BY IInvLongestParentsKept
<1> QED
  BY <1>1, InvariantHolds, PTL

-----------------------------------------------------------------------------
(* The levels of a pointer type. *)

IsPointer(i) == KindOf(i) \in {"Pointer", "PointerToMember"}

\* What is followed refers to an older object.
LEMMA PointerFacts ==
  ASSUME ObjectsSound(objects), NEW i \in 1 .. Len(objects),
         IsPointer(i) \/ KindOf(i) = "Reference"
  PROVE  /\ Referenced(i) \in [of : 1 .. i - 1, cv : SUBSET Qualifier]
         /\ Referenced(i).of \in 1 .. Len(objects)
         /\ Referenced(i).of < i
         /\ Referenced(i).cv \subseteq Qualifier
         /\ KindOf(i) # "PointerToMember" => objects[i].class = 0
<1>1. /\ objects[i].kind \in {"Pointer", "PointerToMember", "Reference"}
      /\ KeySound(objects, i - 1, objects[i])
      /\ Len(objects) \in Nat
  BY LenProperties DEF IsPointer, KindOf, ObjectsSound
<1>2. /\ objects[i].parts \in Seq([of : 1 .. i - 1, cv : SUBSET Qualifier])
      /\ Len(objects[i].parts) = 1
      /\ objects[i].kind = "PointerToMember" <=> objects[i].class # 0
  BY <1>1 DEF KeySound
<1>3. objects[i].parts[1] \in [of : 1 .. i - 1, cv : SUBSET Qualifier]
  <2> DEFINE T == [of : 1 .. i - 1, cv : SUBSET Qualifier]
  <2>1. objects[i].parts \in Seq(T) /\ 1 \in 1 .. Len(objects[i].parts)
    BY <1>2
  <2> HIDE DEF T
  <2>2. objects[i].parts[1] \in T
    BY <2>1, LenZero
  <2> QED
    BY <2>2 DEF T
<1>4. Referenced(i) \in [of : 1 .. i - 1, cv : SUBSET Qualifier]
  BY <1>3 DEF Referenced
<1> QED
  BY <1>1, <1>2, <1>4 DEF KindOf

Level(i) == [kind |-> KindOf(i), class |-> objects[i].class, cv |-> Referenced(i).cv]

LevelsFrom(levels, i) ==
  IF ~ IsPointer(i) THEN << >> ELSE << Level(i) >> \o levels[Referenced(i).of]

InnermostFrom(innermost, i) == IF ~ IsPointer(i) THEN i ELSE innermost[Referenced(i).of]

LEMMA LevelsExist ==
  ASSUME ObjectsSound(objects)
  PROVE  \E f : f = [i \in 1 .. Len(objects) |-> LevelsFrom(f, i)]
<1> DEFINE Upto(k) == \E f : f = [i \in 1 .. k |-> LevelsFrom(f, i)]
           Bad == {k \in 0 .. Len(objects) : ~ Upto(k)}
<1>0. Len(objects) \in Nat
  BY LenProperties DEF ObjectsSound
<1> SUFFICES ASSUME Bad # {} PROVE FALSE
  <2>1. Len(objects) \notin Bad
    OBVIOUS
  <2> QED
    BY <1>0, <2>1
<1> HIDE DEF Upto
<1>1. Bad \subseteq Nat
  BY <1>0
<1>2. PICK k \in Bad : \A m \in Bad : k <= m
  <2> HIDE DEF Bad
  <2> QED
    BY <1>1, SmallestOf
<1>3. Upto(0)
  <2> DEFINE f == [i \in 1 .. 0 |-> 0]
  <2>1. f = [i \in 1 .. 0 |-> LevelsFrom(f, i)]
    OBVIOUS
  <2> HIDE DEF f
  <2> QED
    BY <2>1 DEF Upto
<1>4. k \in 1 .. Len(objects) /\ k - 1 \in 0 .. Len(objects) /\ Upto(k - 1)
  <2>1. k # 0
    BY <1>2, <1>3
  <2>2. k \in 1 .. Len(objects) /\ k - 1 \in 0 .. Len(objects) /\ k - 1 < k
    BY <1>0, <2>1
  <2>3. k - 1 \notin Bad
    BY <1>0, <1>2, <2>2
  <2> QED
    BY <2>2, <2>3
<1>5. PICK f : f = [i \in 1 .. k - 1 |-> LevelsFrom(f, i)]
  BY <1>4 DEF Upto
<1> DEFINE h == [i \in 1 .. k |-> IF i = k THEN LevelsFrom(f, k) ELSE f[i]]
<1>6. \A i \in 1 .. k - 1 : h[i] = f[i]
  BY <1>0, <1>4
<1>7. \A i \in 1 .. k : LevelsFrom(h, i) = LevelsFrom(f, i)
  <2> SUFFICES ASSUME NEW i \in 1 .. k PROVE LevelsFrom(h, i) = LevelsFrom(f, i)
    OBVIOUS
  <2>1. CASE IsPointer(i)
    <3>1. Referenced(i).of \in 1 .. Len(objects) /\ Referenced(i).of < i /\ i \in 1 .. Len(objects)
      BY <1>0, <1>4, <2>1, PointerFacts
    <3>2. Referenced(i).of \in 1 .. k - 1
      BY <1>0, <1>4, <3>1
    <3>3. h[Referenced(i).of] = f[Referenced(i).of]
      BY <1>6, <3>2
    <3> QED
      BY <3>3 DEF LevelsFrom
  <2> QED
    BY <2>1 DEF LevelsFrom
<1>8. \A i \in 1 .. k : h[i] = LevelsFrom(h, i)
  <2> SUFFICES ASSUME NEW i \in 1 .. k PROVE h[i] = LevelsFrom(f, i)
    BY <1>7
  <2>1. CASE i = k
    BY <2>1
  <2>2. CASE i # k
    <3>1. i \in 1 .. k - 1
      BY <1>0, <1>4, <2>2
    <3>2. f[i] = LevelsFrom(f, i)
      BY <1>5, <3>1
    <3> QED
      BY <1>6, <3>1, <3>2
  <2> QED
    BY <2>1, <2>2
<1>9. h = [i \in 1 .. k |-> h[i]]
  OBVIOUS
<1> HIDE DEF h
<1>10. h = [i \in 1 .. k |-> LevelsFrom(h, i)]
  BY <1>8, <1>9
<1>11. Upto(k)
  BY <1>10 DEF Upto
<1> QED
  BY <1>2, <1>11

LEMMA LevelsUnfold ==
  ASSUME ObjectsSound(objects), NEW i \in 1 .. Len(objects)
  PROVE  Levels[i] = LevelsFrom(Levels, i)
<1> DEFINE Fn(f) == [j \in 1 .. Len(objects) |-> LevelsFrom(f, j)]
<1>1. Levels = CHOOSE f : f = Fn(f)
  BY DEF Levels, LevelsFrom, IsPointer, Level
<1>2. \E f : f = Fn(f)
  BY LevelsExist
<1>3. Levels = Fn(Levels)
  <2> HIDE DEF Fn
  <2> QED
    BY <1>1, <1>2
<1> QED
  BY <1>3

LEMMA InnermostExists ==
  ASSUME ObjectsSound(objects)
  PROVE  \E f : f = [i \in 1 .. Len(objects) |-> InnermostFrom(f, i)]
<1> DEFINE Upto(k) == \E f : f = [i \in 1 .. k |-> InnermostFrom(f, i)]
           Bad == {k \in 0 .. Len(objects) : ~ Upto(k)}
<1>0. Len(objects) \in Nat
  BY LenProperties DEF ObjectsSound
<1> SUFFICES ASSUME Bad # {} PROVE FALSE
  <2>1. Len(objects) \notin Bad
    OBVIOUS
  <2> QED
    BY <1>0, <2>1
<1> HIDE DEF Upto
<1>1. Bad \subseteq Nat
  BY <1>0
<1>2. PICK k \in Bad : \A m \in Bad : k <= m
  <2> HIDE DEF Bad
  <2> QED
    BY <1>1, SmallestOf
<1>3. Upto(0)
  <2> DEFINE f == [i \in 1 .. 0 |-> 0]
  <2>1. f = [i \in 1 .. 0 |-> InnermostFrom(f, i)]
    OBVIOUS
  <2> HIDE DEF f
  <2> QED
    BY <2>1 DEF Upto
<1>4. k \in 1 .. Len(objects) /\ k - 1 \in 0 .. Len(objects) /\ Upto(k - 1)
  <2>1. k # 0
    BY <1>2, <1>3
  <2>2. k \in 1 .. Len(objects) /\ k - 1 \in 0 .. Len(objects) /\ k - 1 < k
    BY <1>0, <2>1
  <2>3. k - 1 \notin Bad
    BY <1>0, <1>2, <2>2
  <2> QED
    BY <2>2, <2>3
<1>5. PICK f : f = [i \in 1 .. k - 1 |-> InnermostFrom(f, i)]
  BY <1>4 DEF Upto
<1> DEFINE h == [i \in 1 .. k |-> IF i = k THEN InnermostFrom(f, k) ELSE f[i]]
<1>6. \A i \in 1 .. k - 1 : h[i] = f[i]
  BY <1>0, <1>4
<1>7. \A i \in 1 .. k : InnermostFrom(h, i) = InnermostFrom(f, i)
  <2> SUFFICES ASSUME NEW i \in 1 .. k PROVE InnermostFrom(h, i) = InnermostFrom(f, i)
    OBVIOUS
  <2>1. CASE IsPointer(i)
    <3>1. Referenced(i).of \in 1 .. Len(objects) /\ Referenced(i).of < i /\ i \in 1 .. Len(objects)
      BY <1>0, <1>4, <2>1, PointerFacts
    <3>2. Referenced(i).of \in 1 .. k - 1
      BY <1>0, <1>4, <3>1
    <3>3. h[Referenced(i).of] = f[Referenced(i).of]
      BY <1>6, <3>2
    <3> QED
      BY <3>3 DEF InnermostFrom
  <2> QED
    BY <2>1 DEF InnermostFrom
<1>8. \A i \in 1 .. k : h[i] = InnermostFrom(h, i)
  <2> SUFFICES ASSUME NEW i \in 1 .. k PROVE h[i] = InnermostFrom(f, i)
    BY <1>7
  <2>1. CASE i = k
    BY <2>1
  <2>2. CASE i # k
    <3>1. i \in 1 .. k - 1
      BY <1>0, <1>4, <2>2
    <3>2. f[i] = InnermostFrom(f, i)
      BY <1>5, <3>1
    <3> QED
      BY <1>6, <3>1, <3>2
  <2> QED
    BY <2>1, <2>2
<1>9. h = [i \in 1 .. k |-> h[i]]
  OBVIOUS
<1> HIDE DEF h
<1>10. h = [i \in 1 .. k |-> InnermostFrom(h, i)]
  BY <1>8, <1>9
<1>11. Upto(k)
  BY <1>10 DEF Upto
<1> QED
  BY <1>2, <1>11

LEMMA InnermostUnfold ==
  ASSUME ObjectsSound(objects), NEW i \in 1 .. Len(objects)
  PROVE  Innermost[i] = InnermostFrom(Innermost, i)
<1> DEFINE Fn(f) == [j \in 1 .. Len(objects) |-> InnermostFrom(f, j)]
<1>1. Innermost = CHOOSE f : f = Fn(f)
  BY DEF Innermost, InnermostFrom, IsPointer
<1>2. \E f : f = Fn(f)
  BY InnermostExists
<1>3. Innermost = Fn(Innermost)
  <2> HIDE DEF Fn
  <2> QED
    BY <1>1, <1>2
<1> QED
  BY <1>3


LevelSet == [kind : {"Pointer", "PointerToMember"}, class : Nat, cv : SUBSET Qualifier]

LEMMA LevelsTyped ==
  ASSUME ObjectsSound(objects), NEW i \in 1 .. Len(objects)
  PROVE  Levels[i] \in Seq(LevelSet)
<1> DEFINE Bad == {j \in 1 .. Len(objects) : Levels[j] \notin Seq(LevelSet)}
<1> SUFFICES ASSUME Bad # {} PROVE FALSE
  OBVIOUS
<1>1. Bad \subseteq Nat
  BY LenProperties DEF ObjectsSound
<1>2. PICK j \in Bad : \A m \in Bad : j <= m
  <2> HIDE DEF Bad
  <2> QED
    BY <1>1, SmallestOf
<1>3. j \in 1 .. Len(objects) /\ Levels[j] = LevelsFrom(Levels, j)
  BY LevelsUnfold
<1>4. IsPointer(j)
  <2>1. << >> \in Seq(LevelSet)
    OBVIOUS
  <2> QED
    BY <1>2, <1>3, <2>1 DEF LevelsFrom
<1>5. /\ Referenced(j).of \in 1 .. Len(objects)
      /\ Referenced(j).of < j
      /\ Referenced(j).cv \subseteq Qualifier
  BY <1>3, <1>4, PointerFacts
<1>6. Levels[Referenced(j).of] \in Seq(LevelSet)
  <2>1. Referenced(j).of \notin Bad
    <3> HIDE DEF Bad
    <3> QED
      BY <1>1, <1>2, <1>5
  <2> QED
    BY <1>5, <2>1
<1>7. Level(j) \in LevelSet
  <2>1. objects[j].class \in Nat
    BY <1>3, LenProperties DEF ObjectsSound, KeySound, ObjectKey
  <2> QED
    BY <1>4, <1>5, <2>1 DEF Level, LevelSet, IsPointer
<1>8. << Level(j) >> \o Levels[Referenced(j).of] \in Seq(LevelSet)
  BY <1>6, <1>7, ElementsAfter
<1> QED
  BY <1>2, <1>3, <1>4, <1>8 DEF LevelsFrom

-----------------------------------------------------------------------------
(* The conversion of pointers. *)

\* Level j of a type converts, when those before it in the target are const or not.
LevelConverts(L1, L2, j, allConst) ==
  /\ L1[j].kind = L2[j].kind
  /\ L1[j].class = L2[j].class
  /\ L1[j].cv \subseteq L2[j].cv
  /\ L1[j].cv # L2[j].cv => allConst /\ \A k \in 1 .. j - 1 : "const" \in L2[k].cv

\* QualificationConverts, from within a type: allConst says whether the levels around
\* it are const.
ConvertsWithin(p, q, allConst) ==
  /\ Innermost[p] = Innermost[q]
  /\ Len(Levels[p]) = Len(Levels[q])
  /\ \A j \in 1 .. Len(Levels[p]) : LevelConverts(Levels[p], Levels[q], j, allConst)

\* The first level converts.
FirstConverts(p, q, allConst) ==
  /\ SameKindOfPointer(p, q)
  /\ Referenced(p).cv \subseteq Referenced(q).cv
  /\ Referenced(p).cv # Referenced(q).cv => allConst

LEMMA PointerLevels ==
  ASSUME ObjectsSound(objects), NEW i \in 1 .. Len(objects)
  PROVE  /\ ~ IsPointer(i) => Levels[i] = << >> /\ Len(Levels[i]) = 0 /\ Innermost[i] = i
         /\ IsPointer(i) =>
              /\ Innermost[i] = Innermost[Referenced(i).of]
              /\ Len(Levels[Referenced(i).of]) \in Nat
              /\ Len(Levels[i]) = Len(Levels[Referenced(i).of]) + 1
              /\ Levels[i][1] = Level(i)
              /\ \A j \in 1 .. Len(Levels[Referenced(i).of]) :
                   Levels[i][j + 1] = Levels[Referenced(i).of][j]
<1>1. CASE ~ IsPointer(i)
  <2>1. Levels[i] = << >> /\ Innermost[i] = i
    BY <1>1, LevelsUnfold, InnermostUnfold DEF LevelsFrom, InnermostFrom
  <2> QED
    BY <1>1, <2>1
<1>2. CASE IsPointer(i)
  <2>1. /\ Levels[i] = << Level(i) >> \o Levels[Referenced(i).of]
        /\ Innermost[i] = Innermost[Referenced(i).of]
    BY <1>2, LevelsUnfold, InnermostUnfold DEF LevelsFrom, InnermostFrom
  <2>2. /\ Referenced(i).of \in 1 .. Len(objects)
        /\ Referenced(i).cv \subseteq Qualifier
    BY <1>2, PointerFacts
  <2>3. Levels[Referenced(i).of] \in Seq(LevelSet)
    BY <2>2, LevelsTyped
  <2>4. Level(i) \in LevelSet
    <3>1. objects[i].class \in Nat
      BY LenProperties DEF ObjectsSound, KeySound, ObjectKey
    <3> QED
      BY <1>2, <2>2, <3>1 DEF Level, LevelSet, IsPointer
  <2>5. Len(Levels[Referenced(i).of]) \in Nat
    BY <2>3, LenZero
  <2> QED
    BY <1>2, <2>1, <2>3, <2>4, <2>5, ElementsAfter
<1> QED
  BY <1>1, <1>2

LEMMA PointersConvert ==
  ASSUME ObjectsSound(objects), NEW p \in 1 .. Len(objects), NEW q \in 1 .. Len(objects),
         IsPointer(p), IsPointer(q), NEW allConst \in BOOLEAN
  PROVE  ConvertsWithin(p, q, allConst)
           <=> /\ FirstConverts(p, q, allConst)
               /\ ConvertsWithin(Referenced(p).of, Referenced(q).of,
                                 allConst /\ "const" \in Referenced(q).cv)
<1> DEFINE u == Referenced(p).of
           v == Referenced(q).of
           const == "const" \in Referenced(q).cv
<1>1. /\ Innermost[p] = Innermost[u]
      /\ Len(Levels[u]) \in Nat
      /\ Len(Levels[p]) = Len(Levels[u]) + 1
      /\ Levels[p][1] = Level(p)
      /\ \A j \in 1 .. Len(Levels[u]) : Levels[p][j + 1] = Levels[u][j]
  BY PointerLevels
<1>2. /\ Innermost[q] = Innermost[v]
      /\ Len(Levels[v]) \in Nat
      /\ Len(Levels[q]) = Len(Levels[v]) + 1
      /\ Levels[q][1] = Level(q)
      /\ \A j \in 1 .. Len(Levels[v]) : Levels[q][j + 1] = Levels[v][j]
  BY PointerLevels
<1> HIDE DEF u, v
<1>3. LevelConverts(Levels[p], Levels[q], 1, allConst) <=> FirstConverts(p, q, allConst)
  <2>1. KindOf(p) = KindOf(q) /\ objects[p].class = objects[q].class
          <=> SameKindOfPointer(p, q)
    BY PointerFacts DEF SameKindOfPointer, IsPointer
  <2>2. /\ Level(p).kind = KindOf(p) /\ Level(q).kind = KindOf(q)
        /\ Level(p).class = objects[p].class /\ Level(q).class = objects[q].class
        /\ Level(p).cv = Referenced(p).cv /\ Level(q).cv = Referenced(q).cv
    BY DEF Level
  <2>3. 1 .. 1 - 1 = {}
    OBVIOUS
  <2> QED
    BY <1>1, <1>2, <2>1, <2>2, <2>3 DEF LevelConverts, FirstConverts
<1>4. ASSUME Len(Levels[u]) = Len(Levels[v]), NEW j \in 1 .. Len(Levels[u])
      PROVE  LevelConverts(Levels[p], Levels[q], j + 1, allConst)
               <=> LevelConverts(Levels[u], Levels[v], j, allConst /\ const)
  <2>1. Levels[p][j + 1] = Levels[u][j] /\ Levels[q][j + 1] = Levels[v][j]
    BY <1>1, <1>2, <1>4
  <2>2. Level(q).cv = Referenced(q).cv
    BY DEF Level
  <2>3. (\A k \in 1 .. j + 1 - 1 : "const" \in Levels[q][k].cv)
          <=> const /\ \A k \in 1 .. j - 1 : "const" \in Levels[v][k].cv
    <3>1. ASSUME \A k \in 1 .. j + 1 - 1 : "const" \in Levels[q][k].cv
          PROVE  const /\ \A k \in 1 .. j - 1 : "const" \in Levels[v][k].cv
      <4>1. 1 \in 1 .. j + 1 - 1
        BY <1>1, <1>4
      <4>2. const
        BY <1>2, <2>2, <3>1, <4>1
      <4>3. ASSUME NEW k \in 1 .. j - 1 PROVE "const" \in Levels[v][k].cv
        <5>1. k + 1 \in 1 .. j + 1 - 1 /\ k \in 1 .. Len(Levels[v])
          BY <1>2, <1>4
        <5>2. Levels[q][k + 1] = Levels[v][k]
          BY <1>2, <5>1
        <5> QED
          BY <3>1, <5>1, <5>2
      <4> QED
        BY <4>2, <4>3
    <3>2. ASSUME const, \A k \in 1 .. j - 1 : "const" \in Levels[v][k].cv
          PROVE  \A k \in 1 .. j + 1 - 1 : "const" \in Levels[q][k].cv
      <4> SUFFICES ASSUME NEW k \in 1 .. j + 1 - 1 PROVE "const" \in Levels[q][k].cv
        OBVIOUS
      <4>1. CASE k = 1
        BY <1>2, <2>2, <3>2, <4>1
      <4>2. CASE k # 1
        <5>1. k - 1 \in 1 .. j - 1 /\ k - 1 \in 1 .. Len(Levels[v]) /\ (k - 1) + 1 = k
          BY <1>2, <1>4, <4>2
        <5>2. Levels[q][k] = Levels[v][k - 1]
          BY <1>2, <5>1
        <5> QED
          BY <3>2, <5>1, <5>2
      <4> QED
        BY <4>1, <4>2
    <3> QED
      BY <3>1, <3>2
  <2> HIDE DEF const
  <2> QED
    BY <2>1, <2>3 DEF LevelConverts
<1>5. ASSUME Len(Levels[u]) = Len(Levels[v])
      PROVE  (\A j \in 1 .. Len(Levels[p]) : LevelConverts(Levels[p], Levels[q], j, allConst))
               <=> /\ LevelConverts(Levels[p], Levels[q], 1, allConst)
                   /\ \A j \in 1 .. Len(Levels[u]) :
                        LevelConverts(Levels[u], Levels[v], j, allConst /\ const)
  <2> HIDE DEF const
  <2>1. \A j \in 1 .. Len(Levels[p]) : j = 1 \/ (j - 1 \in 1 .. Len(Levels[u]) /\ j - 1 + 1 = j)
    BY <1>1
  <2>2. /\ 1 \in 1 .. Len(Levels[p])
        /\ \A j \in 1 .. Len(Levels[u]) : j + 1 \in 1 .. Len(Levels[p])
    BY <1>1
  <2>3. \A j \in 1 .. Len(Levels[u]) :
          LevelConverts(Levels[p], Levels[q], j + 1, allConst)
            <=> LevelConverts(Levels[u], Levels[v], j, allConst /\ const)
    BY <1>4, <1>5
  <2> DEFINE A(j) == LevelConverts(Levels[p], Levels[q], j, allConst)
             B(j) == LevelConverts(Levels[u], Levels[v], j, allConst /\ const)
  <2>4. \A j \in 1 .. Len(Levels[u]) : A(j + 1) <=> B(j)
    BY <2>3
  <2> HIDE DEF A, B
  <2>5. (\A j \in 1 .. Len(Levels[p]) : A(j)) => A(1) /\ \A j \in 1 .. Len(Levels[u]) : B(j)
    BY <2>2, <2>4
  <2>6. A(1) /\ (\A j \in 1 .. Len(Levels[u]) : B(j)) => \A j \in 1 .. Len(Levels[p]) : A(j)
    <3> SUFFICES ASSUME A(1), \A j \in 1 .. Len(Levels[u]) : B(j),
                        NEW j \in 1 .. Len(Levels[p])
                 PROVE  A(j)
      OBVIOUS
    <3>1. CASE j = 1
      BY <3>1
    <3>2. CASE j # 1
      <4>1. j - 1 \in 1 .. Len(Levels[u]) /\ j - 1 + 1 = j
        BY <2>1, <3>2
      <4>2. A(j - 1 + 1)
        BY <2>4, <4>1
      <4> QED
        BY <4>1, <4>2
    <3> QED
      BY <3>1, <3>2
  <2> QED
    BY <2>5, <2>6 DEF A, B
<1>6. Len(Levels[p]) = Len(Levels[q]) <=> Len(Levels[u]) = Len(Levels[v])
  <2>1. /\ Len(Levels[u]) \in Nat /\ Len(Levels[p]) = Len(Levels[u]) + 1
        /\ Len(Levels[v]) \in Nat /\ Len(Levels[q]) = Len(Levels[v]) + 1
    BY <1>1, <1>2
  <2>2. \A a, b \in Nat : a + 1 = b + 1 <=> a = b
    OBVIOUS
  <2> HIDE DEF u, v
  <2> QED
    BY ONLY <2>1, <2>2, Zenon
<1>7. ConvertsWithin(p, q, allConst)
        <=> FirstConverts(p, q, allConst) /\ ConvertsWithin(u, v, allConst /\ const)
  <2> HIDE DEF const
  <2> QED
    BY <1>1, <1>2, <1>3, <1>5, <1>6 DEF ConvertsWithin
<1> QED
  BY <1>7 DEF u, v

\* One step of the loop of IsValidQualificationConversion.
LEMMA ConvertsUnfold ==
  ASSUME ObjectsSound(objects), NEW p \in 1 .. Len(objects), NEW q \in 1 .. Len(objects),
         NEW allConst \in BOOLEAN
  PROVE  ConvertsWithin(p, q, allConst)
           <=> \/ p = q
               \/ /\ FirstConverts(p, q, allConst)
                  /\ ConvertsWithin(Referenced(p).of, Referenced(q).of,
                                    allConst /\ "const" \in Referenced(q).cv)
<1>1. CASE p = q
  BY <1>1 DEF ConvertsWithin, LevelConverts
<1>2. CASE p # q /\ IsPointer(p) /\ IsPointer(q)
  BY <1>2, PointersConvert
<1>3. CASE p # q /\ ~ (IsPointer(p) /\ IsPointer(q))
  <2>1. ~ FirstConverts(p, q, allConst)
    BY <1>3 DEF FirstConverts, SameKindOfPointer, IsPointer
  <2>2. ~ ConvertsWithin(p, q, allConst)
    <3>1. CASE ~ IsPointer(p) /\ ~ IsPointer(q)
      BY <1>3, <3>1, PointerLevels DEF ConvertsWithin
    <3>2. CASE IsPointer(p) /\ ~ IsPointer(q)
      <4>1. Len(Levels[q]) = 0
        BY <3>2, PointerLevels
      <4>2. Len(Levels[p]) # 0
        BY <3>2, PointerLevels
      <4> QED
        BY <4>1, <4>2 DEF ConvertsWithin
    <3>3. CASE ~ IsPointer(p) /\ IsPointer(q)
      <4>1. Len(Levels[p]) = 0
        BY <3>3, PointerLevels
      <4>2. Len(Levels[q]) # 0
        BY <3>3, PointerLevels
      <4> QED
        BY <4>1, <4>2 DEF ConvertsWithin
    <3> QED
      BY <1>3, <3>1, <3>2, <3>3
  <2> QED
    BY <1>3, <2>1, <2>2
<1> QED
  BY <1>1, <1>2, <1>3

\* IsValidQualificationConversion, what it says of the types further in given.
ConversionFrom(valid) ==
  [t1 \in 1 .. Len(objects) |->
     [t2 \in 1 .. Len(objects) |-> [allConst \in BOOLEAN |->
        \/ t1 = t2
        \/ /\ SameKindOfPointer(t1, t2)
           /\ Referenced(t1).cv \subseteq Referenced(t2).cv
           /\ Referenced(t1).cv # Referenced(t2).cv => allConst
           /\ valid[Referenced(t1).of][Referenced(t2).of]
                   [allConst /\ "const" \in Referenced(t2).cv]]]]

\* The loop has a result for every two types.
LEMMA ConversionExists ==
  ASSUME ObjectsSound(objects)
  PROVE  \E f : f = ConversionFrom(f)
<1> DEFINE f == [t1 \in 1 .. Len(objects) |-> [t2 \in 1 .. Len(objects) |->
                  [allConst \in BOOLEAN |-> ConvertsWithin(t1, t2, allConst)]]]
           Step(t1, t2, allConst) ==
             \/ t1 = t2
             \/ /\ SameKindOfPointer(t1, t2)
                /\ Referenced(t1).cv \subseteq Referenced(t2).cv
                /\ Referenced(t1).cv # Referenced(t2).cv => allConst
                /\ f[Referenced(t1).of][Referenced(t2).of]
                    [allConst /\ "const" \in Referenced(t2).cv]
<1>1. ASSUME NEW t1 \in 1 .. Len(objects), NEW t2 \in 1 .. Len(objects),
             NEW allConst \in BOOLEAN
      PROVE  ConvertsWithin(t1, t2, allConst) = Step(t1, t2, allConst)
  <2>1. ASSUME FirstConverts(t1, t2, allConst)
        PROVE  ConvertsWithin(t1, t2, allConst) <=> Step(t1, t2, allConst)
    <3>1. IsPointer(t1) /\ IsPointer(t2)
      BY <2>1 DEF FirstConverts, SameKindOfPointer, IsPointer
    <3>2. Referenced(t1).of \in 1 .. Len(objects) /\ Referenced(t2).of \in 1 .. Len(objects)
      BY <3>1, PointerFacts
    <3>3. f[Referenced(t1).of][Referenced(t2).of][allConst /\ "const" \in Referenced(t2).cv]
            = ConvertsWithin(Referenced(t1).of, Referenced(t2).of,
                             allConst /\ "const" \in Referenced(t2).cv)
      BY <3>2, Zenon
    <3>4. ConvertsWithin(t1, t2, allConst)
            <=> \/ t1 = t2
                \/ /\ FirstConverts(t1, t2, allConst)
                   /\ ConvertsWithin(Referenced(t1).of, Referenced(t2).of,
                                     allConst /\ "const" \in Referenced(t2).cv)
      BY ConvertsUnfold
    <3> HIDE DEF f
    <3> QED
      BY <2>1, <3>3, <3>4, Zenon DEF FirstConverts
  <2>2. ASSUME ~ FirstConverts(t1, t2, allConst)
        PROVE  ConvertsWithin(t1, t2, allConst) <=> Step(t1, t2, allConst)
    <3>1. ConvertsWithin(t1, t2, allConst) <=> t1 = t2
      BY <2>2, ConvertsUnfold
    <3> HIDE DEF f
    <3> QED
      BY <2>2, <3>1, Zenon DEF FirstConverts
  <2>3. ConvertsWithin(t1, t2, allConst) \in BOOLEAN
    BY Zenon DEF ConvertsWithin
  <2> HIDE DEF f
  <2>4. Step(t1, t2, allConst) \in BOOLEAN
    BY Zenon
  <2> HIDE DEF Step
  <2> QED
    BY <2>1, <2>2, <2>3, <2>4
<1> HIDE DEF f
<1>2. ConversionFrom(f) = [t1 \in 1 .. Len(objects) |-> [t2 \in 1 .. Len(objects) |->
                             [allConst \in BOOLEAN |-> Step(t1, t2, allConst)]]]
  BY Zenon DEF ConversionFrom
<1> HIDE DEF Step
<1>3. \A t1, t2 \in 1 .. Len(objects) :
        [allConst \in BOOLEAN |-> ConvertsWithin(t1, t2, allConst)]
          = [allConst \in BOOLEAN |-> Step(t1, t2, allConst)]
  BY <1>1, Zenon
<1>4. \A t1 \in 1 .. Len(objects) :
        [t2 \in 1 .. Len(objects) |->
           [allConst \in BOOLEAN |-> ConvertsWithin(t1, t2, allConst)]]
          = [t2 \in 1 .. Len(objects) |-> [allConst \in BOOLEAN |-> Step(t1, t2, allConst)]]
  BY <1>3, Zenon
<1>5. f = ConversionFrom(f)
  BY <1>2, <1>4, Zenon DEF f
<1> QED
  BY <1>5, Zenon

\* IsValidQualificationConversion computes what the standard asks for.
LEMMA ConversionOfPointers ==
  ASSUME ObjectsSound(objects), NEW p \in 1 .. Len(objects), NEW q \in 1 .. Len(objects)
  PROVE  IsValidQualificationConversion(p, q) <=> QualificationConverts(p, q)
<1> DEFINE Valid == CHOOSE f : f = ConversionFrom(f)
           Bad == {i \in 1 .. Len(objects) :
                     \E j \in 1 .. Len(objects), allConst \in BOOLEAN :
                       ~ (Valid[i][j][allConst] <=> ConvertsWithin(i, j, allConst))}
<1>1. Valid = ConversionFrom(Valid)
  BY ConversionExists
<1>5. IsValidQualificationConversion(p, q) <=> Valid[p][q][TRUE]
  BY Zenon DEF IsValidQualificationConversion, ConversionFrom
<1> HIDE DEF Valid
<1>2. ASSUME NEW i \in 1 .. Len(objects), NEW j \in 1 .. Len(objects),
             NEW allConst \in BOOLEAN
      PROVE  Valid[i][j][allConst]
               <=> \/ i = j
                   \/ /\ FirstConverts(i, j, allConst)
                      /\ Valid[Referenced(i).of][Referenced(j).of]
                             [allConst /\ "const" \in Referenced(j).cv]
  <2>1. Valid[i][j][allConst] = ConversionFrom(Valid)[i][j][allConst]
    BY <1>1, Zenon
  <2> QED
    BY <2>1, Zenon DEF ConversionFrom, FirstConverts
<1>3. Bad = {}
  <2> SUFFICES ASSUME Bad # {} PROVE FALSE
    OBVIOUS
  <2>1. Bad \subseteq Nat
    BY LenProperties DEF ObjectsSound
  <2>2. PICK i \in Bad : \A m \in Bad : i <= m
    <3> HIDE DEF Bad
    <3> QED
      BY <2>1, SmallestOf
  <2>3. PICK j \in 1 .. Len(objects), allConst \in BOOLEAN :
          ~ (Valid[i][j][allConst] <=> ConvertsWithin(i, j, allConst))
    BY <2>2
  <2>4. i \in 1 .. Len(objects)
    BY <2>2
  <2> DEFINE const == allConst /\ "const" \in Referenced(j).cv
  <2>5. Valid[i][j][allConst]
          <=> \/ i = j
              \/ /\ FirstConverts(i, j, allConst)
                 /\ Valid[Referenced(i).of][Referenced(j).of][const]
    BY <1>2, <2>4
  <2>6. ConvertsWithin(i, j, allConst)
          <=> \/ i = j
              \/ /\ FirstConverts(i, j, allConst)
                 /\ ConvertsWithin(Referenced(i).of, Referenced(j).of, const)
    BY <2>4, ConvertsUnfold
  <2>7. const \in BOOLEAN
    OBVIOUS
  <2> HIDE DEF const
  <2>8. FirstConverts(i, j, allConst)
    BY <2>3, <2>5, <2>6, Zenon
  <2>9. IsPointer(i) /\ IsPointer(j)
    BY <2>8 DEF FirstConverts, SameKindOfPointer, IsPointer
  <2>10. /\ Referenced(i).of \in 1 .. Len(objects)
         /\ Referenced(i).of < i
         /\ Referenced(j).of \in 1 .. Len(objects)
    BY <2>4, <2>9, PointerFacts
  <2>11. Referenced(i).of \notin Bad
    <3> HIDE DEF Bad
    <3> QED
      BY <2>1, <2>2, <2>10
  <2>12. Valid[Referenced(i).of][Referenced(j).of][const]
           <=> ConvertsWithin(Referenced(i).of, Referenced(j).of, const)
    BY <2>7, <2>10, <2>11, Zenon
  <2> QED
    BY <2>3, <2>5, <2>6, <2>12, Zenon
<1>4. Valid[p][q][TRUE] <=> ConvertsWithin(p, q, TRUE)
  BY <1>3, Zenon
<1>6. ConvertsWithin(p, q, TRUE) <=> QualificationConverts(p, q)
  BY Zenon DEF ConvertsWithin, LevelConverts, QualificationConverts
<1> QED
  BY <1>4, <1>5, <1>6

-----------------------------------------------------------------------------
(* Superclasses. *)

ParentsIn(c) == Range(m_Parents[c])

HierarchySound ==
  /\ program \in Programs
  /\ ObjectsSound(objects)
  /\ ClassesSound

\* A parent is a class, and only classes have parents.
LEMMA ParentFacts ==
  ASSUME HierarchySound, NEW c \in 1 .. Len(objects)
  PROVE  /\ m_Parents[c] \in Seq(1 .. Len(objects))
         /\ ParentsIn(c) = {m_Parents[c][k] : k \in 1 .. Len(m_Parents[c])}
         /\ ParentsIn(c) \subseteq {i \in 1 .. Len(objects) : KindOf(i) = "Class"}
         /\ ParentsIn(c) # {} => KindOf(c) = "Class"
<1>1. m_Parents[c] \in Seq(1 .. Len(objects))
  BY DEF HierarchySound, ClassesSound
<1>2. ParentsIn(c) = {m_Parents[c][k] : k \in 1 .. Len(m_Parents[c])}
  BY <1>1, LenZero DEF ParentsIn, Range
<1>3. KindOf(c) # "Class" => ParentsIn(c) = {}
  <2>1. KindOf(c) # "Class" => m_Parents[c] = << >>
    BY DEF HierarchySound, ClassesSound, KindOf
  <2>2. Len(<< >>) = 0
    OBVIOUS
  <2> QED
    BY <1>2, <2>1, <2>2
<1>4. ASSUME KindOf(c) = "Class", NEW p \in ParentsIn(c)
      PROVE  p \in 1 .. Len(objects) /\ KindOf(p) = "Class"
  <2>1. PICK d \in DOMAIN program.classes : ParentsFrom(c, d)
    BY <1>4 DEF HierarchySound, ClassesSound, KindOf
  <2>2. DOMAIN m_Parents[c] = 1 .. Len(Bases(d))
    BY <2>1 DEF ParentsFrom
  <2>3. PICK k \in 1 .. Len(Bases(d)) : p = m_Parents[c][k]
    BY <1>4, <2>2 DEF ParentsIn, Range
  <2>4. p = ClassObject(Bases(d)[k]) /\ p # 0
    BY <2>1, <2>3 DEF ParentsFrom
  <2>5. p \in 1 .. Len(objects) /\ objects[p] = ClassTypeKey(ClassName(Bases(d)[k]))
    BY <2>4, FindFacts DEF ClassObject
  <2> QED
    BY <2>5 DEF KindOf, ClassTypeKey, Key
<1> QED
  BY <1>1, <1>2, <1>3, <1>4

\* What is closed under parents, and has those of c.
ClosedFrom(c, S) ==
  /\ S \subseteq {i \in 1 .. Len(objects) : KindOf(i) = "Class"}
  /\ \A d \in S \cup {c} : ParentsIn(d) \subseteq S

LEMMA SuperclassesFacts ==
  ASSUME NEW c, NEW d
  PROVE  d \in Superclasses(c) <=>
           d \in 1 .. Len(objects) /\ \A S : ClosedFrom(c, S) => d \in S
BY DEF Superclasses, ClosedFrom, ParentsIn

LEMMA SuperclassesOfParents ==
  ASSUME HierarchySound, NEW c \in 1 .. Len(objects)
  PROVE  /\ Superclasses(c) \subseteq {i \in 1 .. Len(objects) : KindOf(i) = "Class"}
         /\ ParentsIn(c) \subseteq Superclasses(c)
         /\ \A d \in Superclasses(c) : Superclasses(d) \subseteq Superclasses(c)
         /\ \A d \in Superclasses(c) :
              d \in ParentsIn(c) \/ \E p \in ParentsIn(c) : d \in Superclasses(p)
<1> DEFINE Classes == {i \in 1 .. Len(objects) : KindOf(i) = "Class"}
<1>0. \A i \in 1 .. Len(objects) : ParentsIn(i) \subseteq Classes
  BY ParentFacts
<1>1. ParentsIn(c) \subseteq Superclasses(c)
  BY <1>0, SuperclassesFacts DEF ClosedFrom
<1>2. ASSUME NEW d \in Superclasses(c), NEW e \in Superclasses(d) PROVE e \in Superclasses(c)
  <2>1. \A S : ClosedFrom(c, S) => ClosedFrom(d, S)
    BY SuperclassesFacts DEF ClosedFrom
  <2> QED
    BY <2>1, SuperclassesFacts
<1> DEFINE U == ParentsIn(c) \cup UNION {Superclasses(p) : p \in ParentsIn(c)}
<1>3. ClosedFrom(c, Classes)
  BY <1>0 DEF ClosedFrom
<1>4. Superclasses(c) \subseteq Classes
  <2> HIDE DEF Classes
  <2> QED
    BY <1>3, SuperclassesFacts
<1>5. \A p \in 1 .. Len(objects) : \A d \in Superclasses(p) :
        d \in Classes /\ ParentsIn(d) \subseteq Superclasses(p)
  <2> SUFFICES ASSUME NEW p \in 1 .. Len(objects), NEW d \in Superclasses(p)
               PROVE  d \in Classes /\ ParentsIn(d) \subseteq Superclasses(p)
    OBVIOUS
  <2>1. ClosedFrom(p, Classes)
    BY <1>0 DEF ClosedFrom
  <2>2. d \in Classes
    <3> HIDE DEF Classes
    <3> QED
      BY <2>1, SuperclassesFacts
  <2>3. ASSUME NEW e \in ParentsIn(d) PROVE e \in Superclasses(p)
    <3>1. ASSUME NEW S, ClosedFrom(p, S) PROVE e \in S
      <4>1. d \in S
        BY <3>1, SuperclassesFacts
      <4> QED
        BY <3>1, <4>1 DEF ClosedFrom
    <3>2. e \in 1 .. Len(objects)
      BY <1>0, <2>2
    <3> QED
      BY <3>1, <3>2, SuperclassesFacts
  <2> QED
    BY <2>2, <2>3
<1>6. ClosedFrom(c, U)
  <2>1. U \subseteq Classes
    BY <1>0, <1>5
  <2>2. ASSUME NEW x \in U \cup {c} PROVE ParentsIn(x) \subseteq U
    <3>1. CASE x = c
      BY <3>1
    <3>2. CASE x \in ParentsIn(c)
      <4>1. x \in 1 .. Len(objects)
        BY <1>0, <3>2
      <4>2. ParentsIn(x) \subseteq Superclasses(x)
        BY <1>0, <4>1, SuperclassesFacts DEF ClosedFrom
      <4> QED
        BY <3>2, <4>2
    <3>3. CASE \E p \in ParentsIn(c) : x \in Superclasses(p)
      <4>1. PICK p \in ParentsIn(c) : x \in Superclasses(p)
        BY <3>3
      <4>2. p \in 1 .. Len(objects)
        BY <1>0
      <4>3. ParentsIn(x) \subseteq Superclasses(p)
        BY <1>5, <4>1, <4>2
      <4> QED
        BY <4>1, <4>3
    <3> QED
      BY <3>1, <3>2, <3>3
  <2> QED
    BY <2>1, <2>2 DEF ClosedFrom
<1>7. \A d \in Superclasses(c) : d \in U
  <2> HIDE DEF U
  <2> QED
    BY <1>6, SuperclassesFacts
<1> QED
  BY <1>1, <1>2, <1>4, <1>7

\* Where no class on the way up is its own ancestor, of a set of them there is one
\* without a parent in it: one with the fewest superclasses.
LEMMA Topmost ==
  ASSUME HierarchySound, NEW c \in 1 .. Len(objects), TestEnds(c),
         NEW S, S \subseteq Superclasses(c) \cup {c}, S # {}
  PROVE  \E d \in S : ParentsIn(d) \cap S = {}
<1> DEFINE n == Len(objects)
           Up(d) == Superclasses(d)
           Sizes == {Cardinality(Up(d)) : d \in S}
<1>1. n \in Nat
  BY LenProperties DEF HierarchySound, ObjectsSound
<1>2. S \subseteq 1 .. n
  BY SuperclassesOfParents
<1>3. IsFiniteSet(1 .. n)
  BY <1>1, FS_Interval
<1>4. \A d \in S : IsFiniteSet(Up(d)) /\ Cardinality(Up(d)) \in Nat
  <2> TAKE d \in S
  <2>1. Up(d) \subseteq 1 .. n
    BY <1>2, SuperclassesOfParents
  <2> HIDE DEF Up, n
  <2>2. IsFiniteSet(Up(d))
    BY <1>3, <2>1, FS_Subset
  <2> QED
    BY <2>2, FS_CardinalityType
<1>5. PICK m \in Sizes : \A k \in Sizes : m <= k
  <2>1. Sizes \subseteq Nat /\ Sizes # {}
    <3> HIDE DEF Up
    <3> QED
      BY <1>4
  <2> HIDE DEF Sizes
  <2> QED
    BY <2>1, SmallestOf
<1>6. PICK d \in S : m = Cardinality(Up(d))
  <2> HIDE DEF Up
  <2> QED
    BY <1>5
<1>7. ASSUME NEW p \in ParentsIn(d), p \in S PROVE FALSE
  <2>1. p \in Up(d) /\ Up(p) \subseteq Up(d)
    BY <1>2, <1>6, <1>7, SuperclassesOfParents
  <2>2. p \notin Up(p)
    BY <1>7 DEF TestEnds
  <2> HIDE DEF Up
  <2>3. IsFiniteSet(Up(d) \ {p}) /\ Cardinality(Up(d) \ {p}) = Cardinality(Up(d)) - 1
    BY <1>4, <1>6, <2>1, FS_RemoveElement
  <2>4. Up(p) \subseteq Up(d) \ {p}
    BY <2>1, <2>2
  <2>5. Cardinality(Up(p)) <= Cardinality(Up(d) \ {p})
    BY <2>3, <2>4, FS_Subset
  <2>6. Cardinality(Up(d)) <= Cardinality(Up(p))
    BY <1>5, <1>6, <1>7
  <2>7. Cardinality(Up(d)) \in Nat /\ Cardinality(Up(p)) \in Nat
    BY <1>4, <1>6, <1>7
  <2> QED
    BY <2>3, <2>5, <2>6, <2>7
<1> QED
  BY <1>6, <1>7

\* IsSubclassOf, what it says of the parents given.
SubclassFrom(subclass) ==
  [c \in 1 .. Len(objects) |->
     [super \in 1 .. Len(objects) |->
        \/ super \in Range(m_Parents[c])
        \/ \E p \in Range(m_Parents[c]) : subclass[p][super]]]

LEMMA SubclassExists ==
  ASSUME HierarchySound
  PROVE  \E f : f = SubclassFrom(f)
<1> DEFINE f == [c \in 1 .. Len(objects) |->
                  [super \in 1 .. Len(objects) |-> super \in Superclasses(c)]]
           Step(c, super) == \/ super \in Range(m_Parents[c])
                             \/ \E p \in Range(m_Parents[c]) : f[p][super]
<1>1. ASSUME NEW c \in 1 .. Len(objects), NEW super \in 1 .. Len(objects)
      PROVE  (super \in Superclasses(c)) = Step(c, super)
  <2>1. \A p \in ParentsIn(c) :
          /\ p \in 1 .. Len(objects)
          /\ p \in Superclasses(c)
          /\ Superclasses(p) \subseteq Superclasses(c)
    BY SuperclassesOfParents
  <2>2. \A p \in ParentsIn(c) : f[p][super] = (super \in Superclasses(p))
    BY <2>1, Zenon
  <2> HIDE DEF f
  <2>3. super \in Superclasses(c) <=> Step(c, super)
    <3>1. super \in Superclasses(c)
            <=> \/ super \in ParentsIn(c)
                \/ \E p \in ParentsIn(c) : super \in Superclasses(p)
      BY <2>1, SuperclassesOfParents
    <3> QED
      BY <2>2, <3>1, Zenon DEF ParentsIn
  <2>4. (super \in Superclasses(c)) \in BOOLEAN
    OBVIOUS
  <2>5. Step(c, super) \in BOOLEAN
    BY Zenon
  <2> HIDE DEF Step
  <2> QED
    BY <2>3, <2>4, <2>5
<1> HIDE DEF f
<1>2. SubclassFrom(f) = [c \in 1 .. Len(objects) |-> [super \in 1 .. Len(objects) |-> Step(c, super)]]
  BY Zenon DEF SubclassFrom
<1> HIDE DEF Step
<1>3. \A c \in 1 .. Len(objects) :
        [super \in 1 .. Len(objects) |-> super \in Superclasses(c)]
          = [super \in 1 .. Len(objects) |-> Step(c, super)]
  BY <1>1, Zenon
<1>4. f = SubclassFrom(f)
  BY <1>2, <1>3, Zenon DEF f
<1> QED
  BY <1>4, Zenon

\* Where it ends, the recursive test finds the superclasses.
LEMMA SubclassExact ==
  ASSUME HierarchySound, NEW c \in 1 .. Len(objects), TestEnds(c),
         NEW super \in 1 .. Len(objects)
  PROVE  IsSubclassOf[c][super] <=> super \in Superclasses(c)
<1>1. IsSubclassOf = SubclassFrom(IsSubclassOf)
  <2>1. IsSubclassOf = CHOOSE f : f = SubclassFrom(f)
    BY Zenon DEF IsSubclassOf, SubclassFrom
  <2> QED
    BY <2>1, SubclassExists
<1>2. \A i, j \in 1 .. Len(objects) :
        IsSubclassOf[i][j] <=> j \in ParentsIn(i) \/ \E p \in ParentsIn(i) : IsSubclassOf[p][j]
  <2> SUFFICES ASSUME NEW i \in 1 .. Len(objects), NEW j \in 1 .. Len(objects)
               PROVE  IsSubclassOf[i][j]
                        <=> j \in ParentsIn(i) \/ \E p \in ParentsIn(i) : IsSubclassOf[p][j]
    BY Zenon
  <2>1. IsSubclassOf[i][j] = SubclassFrom(IsSubclassOf)[i][j]
    BY <1>1, Zenon
  <2> QED
    BY <2>1, Zenon DEF SubclassFrom, ParentsIn
<1> DEFINE Up == Superclasses(c) \cup {c}
           Bad == {i \in Up : ~ (IsSubclassOf[i][super] <=> super \in Superclasses(i))}
<1> SUFFICES ASSUME Bad # {} PROVE FALSE
  OBVIOUS
<1>3. PICK i \in Bad : ParentsIn(i) \cap Bad = {}
  <2>1. Bad \subseteq Superclasses(c) \cup {c}
    OBVIOUS
  <2> HIDE DEF Bad
  <2> QED
    BY <2>1, Topmost
<1>4. i \in Up /\ ~ (IsSubclassOf[i][super] <=> super \in Superclasses(i))
  <2> HIDE DEF Up
  <2> QED
    BY Zenon
<1>8. i \in 1 .. Len(objects) /\ Superclasses(i) \subseteq Up
  BY <1>4, SuperclassesOfParents
<1>5. \A p \in ParentsIn(i) : /\ p \in 1 .. Len(objects)
                              /\ Superclasses(p) \subseteq Superclasses(i)
                              /\ p \in Up
  <2> HIDE DEF Up
  <2> QED
    BY <1>8, SuperclassesOfParents
<1> HIDE DEF Up
<1>6. \A p \in ParentsIn(i) : IsSubclassOf[p][super] <=> super \in Superclasses(p)
  BY <1>3, <1>5, Zenon
<1>7. super \in Superclasses(i)
        <=> super \in ParentsIn(i) \/ \E p \in ParentsIn(i) : super \in Superclasses(p)
  BY <1>5, <1>8, SuperclassesOfParents
<1> QED
  BY <1>2, <1>4, <1>6, <1>7, <1>8, Zenon

-----------------------------------------------------------------------------
(* The search for superclasses. *)

\* What is queued once p is.
Queued(classes, p) == IF p \in Range(classes) THEN classes ELSE Append(classes, p)

\* The fold of QueueParents over a set of positions, those without the last one given.
FoldFrom(iter, s, queued, parents) ==
  IF s = {} THEN queued ELSE Queued(iter[s \ {Max(s)}], parents[Max(s)])

FoldUpto(iter, n, queued, parents) ==
  [s \in SUBSET (1 .. n) |-> FoldFrom(iter, s, queued, parents)]

LEMMA MaxIsLast ==
  ASSUME NEW k \in Nat, NEW s \in SUBSET (1 .. k), k \in s
  PROVE  Max(s) = k
<1>1. \A y \in s : k >= y
  OBVIOUS
<1>2. \A x \in s : (\A y \in s : x >= y) => x = k
  BY <1>1
<1> QED
  BY <1>1, <1>2 DEF Max

LEMMA FoldExists ==
  ASSUME NEW queued, NEW parents, NEW n \in Nat
  PROVE  \E f : f = FoldUpto(f, n, queued, parents)
<1> DEFINE Upto(k) == \E f : f = FoldUpto(f, k, queued, parents)
           Bad == {k \in Nat : ~ Upto(k)}
<1> SUFFICES ASSUME Bad # {} PROVE FALSE
  OBVIOUS
<1> HIDE DEF Upto
<1>1. PICK k \in Bad : \A m \in Bad : k <= m
  <2>1. Bad \subseteq Nat
    OBVIOUS
  <2> HIDE DEF Bad
  <2> QED
    BY <2>1, SmallestOf
<1>2. Upto(0)
  <2> DEFINE f == [s \in SUBSET (1 .. 0) |-> queued]
  <2>1. \A s \in SUBSET (1 .. 0) : s = {}
    OBVIOUS
  <2>2. \A s \in SUBSET (1 .. 0) : FoldFrom(f, s, queued, parents) = queued
    BY <2>1 DEF FoldFrom
  <2>3. f = [s \in SUBSET (1 .. 0) |-> FoldFrom(f, s, queued, parents)]
    BY <2>2
  <2> HIDE DEF f
  <2> QED
    BY <2>3 DEF Upto, FoldUpto
<1>3. k \in Nat \ {0} /\ k - 1 \in Nat /\ Upto(k - 1)
  <2>1. k \in Nat \ {0}
    BY <1>1, <1>2
  <2>2. k - 1 \in Nat /\ ~ (k <= k - 1)
    BY <2>1
  <2> QED
    BY <1>1, <2>1, <2>2
<1>4. PICK f : f = [s \in SUBSET (1 .. k - 1) |-> FoldFrom(f, s, queued, parents)]
  BY <1>3 DEF Upto, FoldUpto
<1> DEFINE h == [s \in SUBSET (1 .. k) |->
                  IF k \in s THEN Queued(f[s \ {k}], parents[k]) ELSE f[s]]
<1>5. \A s \in SUBSET (1 .. k) : /\ s \ {k} \in SUBSET (1 .. k - 1)
                                /\ k \notin s => s \in SUBSET (1 .. k - 1)
  BY <1>3
<1>6. \A s \in SUBSET (1 .. k - 1) : s \in SUBSET (1 .. k) /\ k \notin s /\ h[s] = f[s]
  <2>1. 1 .. k - 1 \subseteq 1 .. k /\ k \notin 1 .. k - 1
    BY <1>3
  <2> QED
    BY <2>1
<1>7. \A s \in SUBSET (1 .. k) : h[s] = FoldFrom(h, s, queued, parents)
  <2> SUFFICES ASSUME NEW s \in SUBSET (1 .. k)
               PROVE  h[s] = FoldFrom(h, s, queued, parents)
    OBVIOUS
  <2>1. CASE k \in s
    <3>1. Max(s) = k
      BY <1>3, <2>1, MaxIsLast
    <3>2. h[s] = Queued(f[s \ {k}], parents[k])
      BY <2>1
    <3>3. h[s \ {k}] = f[s \ {k}]
      BY <1>5, <1>6
    <3> HIDE DEF h
    <3>4. s # {}
      BY <2>1
    <3> QED
      BY <3>1, <3>2, <3>3, <3>4 DEF FoldFrom
  <2>2. CASE k \notin s
    <3>1. s \in SUBSET (1 .. k - 1)
      BY <1>5, <2>2
    <3>2. h[s] = FoldFrom(f, s, queued, parents)
      <4>1. f[s] = FoldFrom(f, s, queued, parents)
        BY <1>4, <3>1
      <4> QED
        BY <1>6, <3>1, <4>1
    <3>3. h[s \ {Max(s)}] = f[s \ {Max(s)}]
      <4>1. s \ {Max(s)} \in SUBSET (1 .. k - 1)
        BY <3>1
      <4> HIDE DEF h
      <4> QED
        BY <1>6, <4>1
    <3> HIDE DEF h
    <3> QED
      BY <3>2, <3>3 DEF FoldFrom
  <2> QED
    BY <2>1, <2>2
<1>8. h = [s \in SUBSET (1 .. k) |-> h[s]]
  OBVIOUS
<1> HIDE DEF h
<1>9. Upto(k)
  BY <1>7, <1>8 DEF Upto, FoldUpto
<1> QED
  BY <1>1, <1>9

\* The fold goes through the parents one after the other.
QueueSteps(step, queued, parents) ==
  /\ step[0] = queued
  /\ \A k \in 1 .. Len(parents) : step[k] = Queued(step[k - 1], parents[k])
  /\ QueueParents(queued, parents) = step[Len(parents)]

LEMMA QueueParentsSteps ==
  ASSUME NEW T, NEW queued, NEW parents \in Seq(T)
  PROVE  \E step : QueueSteps(step, queued, parents)
<1> DEFINE n == Len(parents)
           Iter == CHOOSE f : f = FoldUpto(f, n, queued, parents)
<1>0. n \in Nat /\ DOMAIN parents = 1 .. n
  BY LenZero
<1>1. Iter = FoldUpto(Iter, n, queued, parents)
  <2> HIDE DEF n
  <2>1. \E f : f = FoldUpto(f, n, queued, parents)
    BY <1>0, FoldExists
  <2> QED
    BY <2>1
<1>2. QueueParents(queued, parents) = Iter[1 .. n]
  BY <1>0 DEF QueueParents, FoldLeft, MapThenFoldSet, FoldUpto, FoldFrom, Queued
<1> HIDE DEF Iter
<1> DEFINE step == [k \in 0 .. n |-> Iter[1 .. k]]
<1>3. step[0] = queued
  <2>1. 1 .. 0 = {} /\ {} \in SUBSET (1 .. n) /\ 0 \in 0 .. n
    BY <1>0
  <2>2. Iter[{}] = FoldFrom(Iter, {}, queued, parents)
    BY <1>1, <2>1 DEF FoldUpto
  <2> QED
    BY <2>1, <2>2 DEF FoldFrom
<1>4. ASSUME NEW k \in 1 .. n PROVE step[k] = Queued(step[k - 1], parents[k])
  <2>1. /\ 1 .. k \in SUBSET (1 .. n) /\ k \in 1 .. k /\ k \in Nat
        /\ k \in 0 .. n /\ k - 1 \in 0 .. n
    BY <1>0
  <2>2. (1 .. k) \ {k} = 1 .. k - 1
    BY <1>0
  <2>3. Max(1 .. k) = k
    BY <2>1, MaxIsLast
  <2>4. Iter[1 .. k] = FoldFrom(Iter, 1 .. k, queued, parents)
    BY <1>1, <2>1 DEF FoldUpto
  <2>5. FoldFrom(Iter, 1 .. k, queued, parents) = Queued(Iter[1 .. k - 1], parents[k])
    BY <2>1, <2>2, <2>3 DEF FoldFrom
  <2> QED
    BY <2>1, <2>4, <2>5
<1>5. step[n] = Iter[1 .. n]
  BY <1>0
<1> HIDE DEF step
<1> QED
  BY <1>2, <1>3, <1>4, <1>5 DEF QueueSteps

IsInjectiveSeq(s) == \A i, j \in 1 .. Len(s) : s[i] = s[j] => i = j

Elements(s) == {s[i] : i \in 1 .. Len(s)}

LEMMA ElementsRange ==
  ASSUME NEW T, NEW s \in Seq(T)
  PROVE  Range(s) = Elements(s) /\ Elements(s) \subseteq T
BY LenZero DEF Range, Elements

\* What is queued stays where it is, and p is queued.
LEMMA QueuedFacts ==
  ASSUME NEW T, NEW s \in Seq(T), NEW p \in T, IsInjectiveSeq(s)
  PROVE  /\ Queued(s, p) \in Seq(T)
         /\ IsInjectiveSeq(Queued(s, p))
         /\ Len(s) <= Len(Queued(s, p))
         /\ \A i \in 1 .. Len(s) : Queued(s, p)[i] = s[i]
         /\ Elements(Queued(s, p)) = Elements(s) \cup {p}
<1>0. Range(s) = Elements(s) /\ Len(s) \in Nat
  BY ElementsRange, LenZero
<1>1. CASE p \in Elements(s)
  <2>1. Queued(s, p) = s
    BY <1>0, <1>1 DEF Queued
  <2> QED
    BY <1>0, <1>1, <2>1
<1>2. CASE p \notin Elements(s)
  <2> DEFINE r == Append(s, p)
  <2>1. Queued(s, p) = r
    BY <1>0, <1>2 DEF Queued
  <2>2. /\ r \in Seq(T)
        /\ Len(r) = Len(s) + 1
        /\ \A i \in 1 .. Len(s) : r[i] = s[i]
        /\ r[Len(s) + 1] = p
    BY AppendFacts
  <2> HIDE DEF r
  <2>3. \A i \in 1 .. Len(r) : i \in 1 .. Len(s) \/ i = Len(s) + 1
    BY <1>0, <2>2
  <2>4. \A i \in 1 .. Len(s) : s[i] # p /\ i \in 1 .. Len(r)
    BY <1>0, <1>2, <2>2 DEF Elements
  <2>5. IsInjectiveSeq(r)
    BY <2>2, <2>3, <2>4 DEF IsInjectiveSeq
  <2>6. Elements(r) = Elements(s) \cup {p}
    <3>1. Elements(r) \subseteq Elements(s) \cup {p}
      BY <2>2, <2>3 DEF Elements
    <3>2. p \in Elements(r)
      BY <1>0, <2>2 DEF Elements
    <3>3. Elements(s) \subseteq Elements(r)
      BY <2>2, <2>4 DEF Elements
    <3> QED
      BY <3>1, <3>2, <3>3
  <2> QED
    BY <1>0, <2>1, <2>2, <2>5, <2>6
<1> QED
  BY <1>1, <1>2

\* The queue s has grown to r, which has the elements of ps too.
Grown(s, r, T, ps) ==
  /\ r \in Seq(T)
  /\ IsInjectiveSeq(r)
  /\ Len(s) <= Len(r)
  /\ \A i \in 1 .. Len(s) : r[i] = s[i]
  /\ Elements(r) = Elements(s) \cup ps

LEMMA GrownQueued ==
  ASSUME NEW T, NEW queued \in Seq(T), NEW s, NEW ps, Grown(queued, s, T, ps), NEW p \in T
  PROVE  Grown(queued, Queued(s, p), T, ps \cup {p})
<1> DEFINE r == Queued(s, p)
<1>1. s \in Seq(T) /\ IsInjectiveSeq(s)
  BY DEF Grown
<1>2. /\ r \in Seq(T)
      /\ IsInjectiveSeq(r)
      /\ Len(s) <= Len(r)
      /\ \A i \in 1 .. Len(s) : r[i] = s[i]
      /\ Elements(r) = Elements(s) \cup {p}
  BY <1>1, QueuedFacts
<1> HIDE DEF r
<1>3. Len(queued) \in Nat /\ Len(s) \in Nat /\ Len(r) \in Nat
  BY <1>1, <1>2, LenZero
<1>4. /\ Len(queued) <= Len(s)
      /\ \A i \in 1 .. Len(queued) : s[i] = queued[i]
      /\ Elements(s) = Elements(queued) \cup ps
  BY DEF Grown
<1>5. Len(queued) <= Len(r)
  BY <1>2, <1>3, <1>4
<1>6. \A i \in 1 .. Len(queued) : r[i] = queued[i]
  BY <1>2, <1>3, <1>4
<1>7. Grown(queued, r, T, ps \cup {p})
  BY <1>2, <1>4, <1>5, <1>6 DEF Grown
<1> QED
  BY <1>7 DEF r

LEMMA QueueParentsFacts ==
  ASSUME NEW T, NEW queued \in Seq(T), IsInjectiveSeq(queued), NEW parents \in Seq(T)
  PROVE  Grown(queued, QueueParents(queued, parents), T, Elements(parents))
<1> DEFINE n == Len(parents)
<1>0. /\ n \in Nat
      /\ \A k \in 1 .. n : parents[k] \in T
  BY LenZero
<1>1. PICK step : QueueSteps(step, queued, parents)
  BY QueueParentsSteps
<1>2. /\ step[0] = queued
      /\ \A k \in 1 .. n : step[k] = Queued(step[k - 1], parents[k])
      /\ QueueParents(queued, parents) = step[n]
  BY <1>1 DEF QueueSteps
<1> DEFINE First(k) == {parents[i] : i \in 1 .. k}
           Good(k) == Grown(queued, step[k], T, First(k))
           Bad == {k \in 0 .. n : ~ Good(k)}
<1>3. Good(0)
  <2>1. First(0) = {}
    OBVIOUS
  <2>2. Len(queued) \in Nat
    BY LenZero
  <2> HIDE DEF First
  <2> QED
    BY <1>2, <2>1, <2>2 DEF Grown
<1>4. ASSUME NEW k \in 1 .. n, Good(k - 1) PROVE Good(k)
  <2>1. step[k] = Queued(step[k - 1], parents[k]) /\ parents[k] \in T
    BY <1>0, <1>2
  <2>2. First(k) = First(k - 1) \cup {parents[k]}
    <3>1. \A i : i \in 1 .. k <=> i \in 1 .. k - 1 \/ i = k
      BY <1>0
    <3> QED
      BY <3>1
  <2>3. Grown(queued, Queued(step[k - 1], parents[k]), T, First(k - 1) \cup {parents[k]})
    <3> HIDE DEF First
    <3> QED
      BY <1>4, <2>1, GrownQueued
  <2> HIDE DEF First
  <2> QED
    BY <2>1, <2>2, <2>3
<1> HIDE DEF Good, n
<1>5. Bad = {}
  <2> SUFFICES ASSUME Bad # {} PROVE FALSE
    OBVIOUS
  <2>1. PICK k \in Bad : \A m \in Bad : k <= m
    <3>1. Bad \subseteq Nat
      BY <1>0
    <3> HIDE DEF Bad
    <3> QED
      BY <3>1, SmallestOf
  <2>2. k \in 1 .. n /\ k - 1 \in 0 .. n /\ ~ (k <= k - 1)
    <3>1. k \in 0 .. n /\ k # 0
      BY <1>3, <2>1
    <3> QED
      BY <1>0, <3>1
  <2>3. Good(k - 1)
    BY <2>1, <2>2
  <2> QED
    BY <1>4, <2>1, <2>2, <2>3
<1>6. Good(n)
  BY <1>0, <1>5
<1>7. First(n) = Elements(parents)
  BY DEF Elements, n
<1> QED
  BY <1>2, <1>6, <1>7 DEF Good

\* What is queued when one more class is taken off the queue, the i-th.
Searched(before, i) ==
  IF i > Len(before) THEN before ELSE QueueParents(before, m_Parents[before[i]])

SearchFrom(queued, c, n) ==
  [i \in 0 .. n |-> IF i = 0 THEN << c >> ELSE Searched(queued[i - 1], i)]

LEMMA SearchExists ==
  ASSUME NEW c, NEW n \in Nat
  PROVE  \E f : f = SearchFrom(f, c, n)
<1> DEFINE Upto(k) == \E f : f = SearchFrom(f, c, k)
           Bad == {k \in Nat : ~ Upto(k)}
<1> SUFFICES ASSUME Bad # {} PROVE FALSE
  OBVIOUS
<1> HIDE DEF Upto
<1>1. PICK k \in Bad : \A m \in Bad : k <= m
  <2>1. Bad \subseteq Nat
    OBVIOUS
  <2> HIDE DEF Bad
  <2> QED
    BY <2>1, SmallestOf
<1>2. Upto(0)
  <2> DEFINE f == [i \in 0 .. 0 |-> << c >>]
  <2>1. f = SearchFrom(f, c, 0)
    BY DEF SearchFrom
  <2> HIDE DEF f
  <2> QED
    BY <2>1 DEF Upto
<1>3. k \in Nat \ {0} /\ k - 1 \in Nat /\ Upto(k - 1)
  <2>1. k \in Nat \ {0}
    BY <1>1, <1>2
  <2>2. k - 1 \in Nat /\ ~ (k <= k - 1)
    BY <2>1
  <2> QED
    BY <1>1, <2>1, <2>2
<1>4. PICK f : f = SearchFrom(f, c, k - 1)
  BY <1>3 DEF Upto
<1> DEFINE h == [i \in 0 .. k |-> IF i = k THEN Searched(f[k - 1], k) ELSE f[i]]
<1>5. \A i \in 0 .. k - 1 : i \in 0 .. k /\ i # k /\ h[i] = f[i]
  BY <1>3
<1>6. \A i \in 0 .. k : h[i] = IF i = 0 THEN << c >> ELSE Searched(h[i - 1], i)
  <2> SUFFICES ASSUME NEW i \in 0 .. k
               PROVE  h[i] = IF i = 0 THEN << c >> ELSE Searched(h[i - 1], i)
    OBVIOUS
  <2>1. CASE i = k
    <3>1. h[i] = Searched(f[k - 1], k)
      BY <2>1
    <3>2. h[i - 1] = f[k - 1] /\ i # 0
      BY <1>3, <1>5, <2>1
    <3> HIDE DEF h
    <3> QED
      BY <2>1, <3>1, <3>2
  <2>2. CASE i # k
    <3>1. i \in 0 .. k - 1 /\ (i # 0 => i - 1 \in 0 .. k - 1)
      BY <1>3, <2>2
    <3>2. f[i] = IF i = 0 THEN << c >> ELSE Searched(f[i - 1], i)
      BY <1>4, <3>1 DEF SearchFrom
    <3>3. h[i] = f[i] /\ (i # 0 => h[i - 1] = f[i - 1])
      BY <1>5, <3>1
    <3> HIDE DEF h
    <3> QED
      BY <3>2, <3>3
  <2> QED
    BY <2>1, <2>2
<1>7. h = [i \in 0 .. k |-> h[i]]
  OBVIOUS
<1> HIDE DEF h
<1>8. Upto(k)
  BY <1>6, <1>7 DEF Upto, SearchFrom
<1> QED
  BY <1>1, <1>8

\* Every class queued but c is a superclass of it, and the parents of the first i are
\* queued.
SearchSound(s, c, i) ==
  /\ s \in Seq(1 .. Len(objects))
  /\ s # << >>
  /\ s[1] = c
  /\ IsInjectiveSeq(s)
  /\ Elements(s) \subseteq {c} \cup Superclasses(c)
  /\ \A j \in 1 .. Len(s) : j <= i => ParentsIn(s[j]) \subseteq Elements(s)

LEMMA SearchedSound ==
  ASSUME HierarchySound, NEW c \in 1 .. Len(objects), NEW s, NEW i \in Nat \ {0},
         SearchSound(s, c, i - 1)
  PROVE  SearchSound(Searched(s, i), c, i)
<1>1. /\ s \in Seq(1 .. Len(objects))
      /\ s # << >>
      /\ s[1] = c
      /\ IsInjectiveSeq(s)
      /\ Elements(s) \subseteq {c} \cup Superclasses(c)
      /\ \A j \in 1 .. Len(s) : j <= i - 1 => ParentsIn(s[j]) \subseteq Elements(s)
  BY DEF SearchSound
<1>2. Len(s) \in Nat \ {0} /\ \A j \in 1 .. Len(s) : s[j] \in 1 .. Len(objects)
  BY <1>1, LenZero
<1>3. CASE i > Len(s)
  <2>1. Searched(s, i) = s
    BY <1>3 DEF Searched
  <2>2. \A j \in 1 .. Len(s) : j <= i - 1
    BY <1>2, <1>3
  <2> QED
    BY <1>1, <2>1, <2>2 DEF SearchSound
<1>4. CASE ~ (i > Len(s))
  <2>0. i \in 1 .. Len(s)
    BY <1>2, <1>4
  <2> DEFINE d == s[i]
             r == QueueParents(s, m_Parents[d])
  <2>1. Searched(s, i) = r
    BY <1>4 DEF Searched
  <2>2. d \in 1 .. Len(objects) /\ d \in Elements(s)
    BY <1>2, <2>0 DEF Elements
  <2> HIDE DEF d
  <2>3. m_Parents[d] \in Seq(1 .. Len(objects)) /\ ParentsIn(d) = Elements(m_Parents[d])
    BY <2>2, ParentFacts DEF Elements
  <2>4. Grown(s, r, 1 .. Len(objects), ParentsIn(d))
    BY <1>1, <2>3, QueueParentsFacts
  <2> HIDE DEF r
  <2>5. /\ r \in Seq(1 .. Len(objects))
        /\ IsInjectiveSeq(r)
        /\ Len(s) <= Len(r)
        /\ \A j \in 1 .. Len(s) : r[j] = s[j]
        /\ Elements(r) = Elements(s) \cup ParentsIn(d)
    BY <2>4 DEF Grown
  <2>6. Len(r) \in Nat /\ (Len(r) = 0 <=> r = << >>)
    BY <2>5, LenZero
  <2>7. r # << >> /\ r[1] = c
    BY <1>1, <1>2, <2>5, <2>6
  <2>8. ParentsIn(d) \subseteq {c} \cup Superclasses(c)
    <3>1. ParentsIn(c) \subseteq Superclasses(c)
      BY SuperclassesOfParents
    <3>2. d # c => ParentsIn(d) \subseteq Superclasses(c)
      BY <1>1, <2>2, SuperclassesOfParents
    <3> QED
      BY <3>1, <3>2
  <2>9. ASSUME NEW j \in 1 .. Len(r), j <= i PROVE ParentsIn(r[j]) \subseteq Elements(r)
    <3>1. j \in 1 .. Len(s) /\ (j = i \/ j <= i - 1)
      BY <2>0, <2>6, <2>9, <1>2
    <3>2. r[j] = s[j]
      BY <2>5, <3>1
    <3>3. j = i => r[j] = d
      BY <3>2 DEF d
    <3> QED
      BY <1>1, <2>5, <3>1, <3>2, <3>3
  <2> QED
    BY <1>1, <2>1, <2>5, <2>7, <2>8, <2>9 DEF SearchSound
<1> QED
  BY <1>3, <1>4

\* A sequence that has no number twice is not longer than there are numbers.
LEMMA InjectiveLength ==
  ASSUME NEW n \in Nat, NEW s \in Seq(1 .. n), IsInjectiveSeq(s)
  PROVE  Len(s) <= n
<1>1. Len(s) \in Nat /\ s \in [1 .. Len(s) -> 1 .. n]
  BY LenProperties
<1>2. /\ IsFiniteSet(1 .. Len(s)) /\ Cardinality(1 .. Len(s)) = Len(s)
      /\ IsFiniteSet(1 .. n) /\ Cardinality(1 .. n) = n
  <2>1. ASSUME NEW m \in Nat PROVE IsFiniteSet(1 .. m) /\ Cardinality(1 .. m) = m
    <3>1. 1 \in Int /\ m \in Int
      OBVIOUS
    <3>2. IsFiniteSet(1 .. m) /\ Cardinality(1 .. m) = IF 1 > m THEN 0 ELSE m - 1 + 1
      BY <3>1, FS_Interval
    <3> QED
      BY <3>2
  <2> QED
    BY <1>1, <2>1
<1>3. n < Len(s) => \E x, y \in 1 .. Len(s) : x # y /\ s[x] = s[y]
  BY <1>1, <1>2, FS_PigeonHole
<1> QED
  BY <1>1, <1>3 DEF IsInjectiveSeq

\* The search ends with all superclasses but the class itself, each of them once.
LEMMA SearchExact ==
  ASSUME HierarchySound, NEW c \in 1 .. Len(objects)
  PROVE  /\ IsInjective(GetAllSuperclasses(c))
         /\ Range(GetAllSuperclasses(c)) = Superclasses(c) \ {c}
<1> DEFINE n == Len(objects)
           Search == CHOOSE f : f = SearchFrom(f, c, n)
<1>0. n \in Nat
  BY LenProperties DEF HierarchySound, ObjectsSound
<1>1. GetAllSuperclasses(c) = Tail(Search[n])
  BY DEF GetAllSuperclasses, SearchFrom, Searched
<1> HIDE DEF n
<1>2. Search = SearchFrom(Search, c, n)
  BY <1>0, SearchExists
<1> HIDE DEF Search
<1>3. /\ Search[0] = << c >>
      /\ \A i \in 1 .. n : Search[i] = Searched(Search[i - 1], i)
  <2>1. \A i \in 0 .. n : Search[i] = IF i = 0 THEN << c >> ELSE Searched(Search[i - 1], i)
    BY <1>2 DEF SearchFrom
  <2>2. 0 \in 0 .. n /\ \A i \in 1 .. n : i \in 0 .. n /\ i # 0
    BY <1>0
  <2> QED
    BY <2>1, <2>2
<1> DEFINE Good(i) == SearchSound(Search[i], c, i)
           Bad == {i \in 0 .. n : ~ Good(i)}
<1>4. Good(0)
  <2> DEFINE s == << c >>
  <2>1. s \in Seq(1 .. Len(objects)) /\ Len(s) = 1 /\ s[1] = c /\ s # << >>
    OBVIOUS
  <2>2. Search[0] = s
    BY <1>3
  <2> HIDE DEF s
  <2>3. \A j \in 1 .. Len(s) : j = 1 /\ s[j] = c /\ ~ (j <= 0)
    BY <2>1
  <2>4. IsInjectiveSeq(s) /\ Elements(s) \subseteq {c}
    BY <2>3 DEF IsInjectiveSeq, Elements
  <2>5. SearchSound(s, c, 0)
    BY <2>1, <2>3, <2>4 DEF SearchSound
  <2> QED
    BY <2>2, <2>5
<1>5. ASSUME NEW i \in 1 .. n, Good(i - 1) PROVE Good(i)
  <2>1. i \in Nat \ {0}
    BY <1>0
  <2> QED
    BY <1>3, <1>5, <2>1, SearchedSound
<1> HIDE DEF Good
<1>6. Bad = {}
  <2> SUFFICES ASSUME Bad # {} PROVE FALSE
    OBVIOUS
  <2>1. PICK i \in Bad : \A m \in Bad : i <= m
    <3>1. Bad \subseteq Nat
      BY <1>0
    <3> HIDE DEF Bad
    <3> QED
      BY <3>1, SmallestOf
  <2>2. i \in 1 .. n /\ i - 1 \in 0 .. n /\ ~ (i <= i - 1)
    <3>1. i \in 0 .. n /\ i # 0
      BY <1>4, <2>1
    <3> QED
      BY <1>0, <3>1
  <2>3. Good(i - 1)
    BY <2>1, <2>2
  <2> QED
    BY <1>5, <2>1, <2>2, <2>3
<1> DEFINE s == Search[n]
           r == Tail(s)
<1>7. SearchSound(s, c, n)
  BY <1>0, <1>6 DEF Good
<1> HIDE DEF s
<1>8. /\ s \in Seq(1 .. n) /\ s # << >> /\ s[1] = c /\ IsInjectiveSeq(s)
      /\ Elements(s) \subseteq {c} \cup Superclasses(c)
      /\ \A j \in 1 .. Len(s) : j <= n => ParentsIn(s[j]) \subseteq Elements(s)
  BY <1>7 DEF SearchSound, n
<1>9. Len(s) \in Nat \ {0} /\ Len(s) <= n
  BY <1>0, <1>8, InjectiveLength, LenZero
<1>10. \A d \in Elements(s) : ParentsIn(d) \subseteq Elements(s)
  <2>1. \A j \in 1 .. Len(s) : j <= n
    BY <1>0, <1>9
  <2> QED
    BY <1>8, <2>1 DEF Elements
<1>11. /\ r \in Seq(1 .. n)
       /\ Len(r) = Len(s) - 1
       /\ \A j \in 1 .. Len(r) : r[j] = s[j + 1]
       /\ DOMAIN r = 1 .. Len(r)
       /\ Range(r) = Elements(r)
  <2>1. /\ r \in Seq(1 .. n)
        /\ Len(r) = Len(s) - 1
        /\ \A j \in 1 .. Len(r) : r[j] = s[j + 1]
    BY <1>8, TailFacts
  <2> QED
    BY <2>1, LenZero, ElementsRange
<1> HIDE DEF r
<1>12. \A j \in 1 .. Len(r) : j + 1 \in 1 .. Len(s) /\ j + 1 # 1 /\ j \in Nat
  BY <1>9, <1>11
<1>13. IsInjective(r)
  <2> SUFFICES ASSUME NEW i \in 1 .. Len(r), NEW j \in 1 .. Len(r), r[i] = r[j] PROVE i = j
    BY <1>11 DEF IsInjective
  <2>1. i + 1 = j + 1
    BY <1>8, <1>11, <1>12 DEF IsInjectiveSeq
  <2> QED
    BY <1>12, <2>1
<1>14. Elements(r) = Elements(s) \ {c}
  <2>1. ASSUME NEW j \in 1 .. Len(r) PROVE r[j] \in Elements(s) \ {c}
    <3>1. 1 \in 1 .. Len(s)
      BY <1>9
    <3>2. s[j + 1] # s[1]
      BY <1>8, <1>12, <3>1 DEF IsInjectiveSeq
    <3> QED
      BY <1>8, <1>11, <1>12, <3>2 DEF Elements
  <2>2. ASSUME NEW j \in 1 .. Len(s), s[j] # c PROVE s[j] \in Elements(r)
    <3>1. j - 1 \in 1 .. Len(r) /\ j - 1 + 1 = j
      BY <1>8, <1>9, <1>11, <2>2
    <3> QED
      BY <1>11, <3>1 DEF Elements
  <2> QED
    BY <2>1, <2>2 DEF Elements
<1>15. Elements(r) \subseteq Superclasses(c) \ {c}
  BY <1>8, <1>14
<1> DEFINE T == Elements(s) \cap Superclasses(c)
<1>16. ClosedFrom(c, T)
  <2>1. T \subseteq {i \in 1 .. Len(objects) : KindOf(i) = "Class"}
    BY SuperclassesOfParents
  <2>2. ASSUME NEW d \in T \cup {c} PROVE ParentsIn(d) \subseteq T
    <3>1. c \in Elements(s)
      BY <1>8, <1>9 DEF Elements
    <3>2. ParentsIn(d) \subseteq Elements(s)
      BY <1>10, <3>1
    <3>3. ParentsIn(d) \subseteq Superclasses(c)
      <4>1. CASE d = c
        BY <4>1, SuperclassesOfParents
      <4>2. CASE d # c
        <5>1. d \in Superclasses(c) /\ d \in 1 .. Len(objects)
          BY <2>1, <4>2
        <5> QED
          BY <5>1, SuperclassesOfParents
      <4> QED
        BY <4>1, <4>2
    <3> QED
      BY <3>2, <3>3
  <2> QED
    BY <2>1, <2>2 DEF ClosedFrom
<1>17. Superclasses(c) \subseteq T
  <2> HIDE DEF T
  <2> QED
    BY <1>16, SuperclassesFacts
<1>18. GetAllSuperclasses(c) = r
  BY <1>1 DEF r, s
<1> QED
  BY <1>11, <1>13, <1>14, <1>15, <1>17, <1>18

-----------------------------------------------------------------------------
(* References, and the theorem. *)

LEMMA ReferencesBind ==
  ASSUME HierarchySound, NEW r \in 1 .. Len(objects), KindOf(r) = "Reference",
         NEW i \in 1 .. Len(objects), NEW cv \in SUBSET Qualifier, NEW from,
         from = [of |-> i, cv |-> cv]
  PROVE  /\ TestEnds(i) =>
              ~ (ReferenceCanBindAsIdentity(from, r)
                   /\ ReferenceCanBindAsDerivedToBase(from, r))
         /\ CanConvert(from, [of |-> r, cv |-> {}]) => ReferenceCanBindAsIdentity(from, r)
<1>1. ASSUME TestEnds(i), ReferenceCanBindAsIdentity(from, r), ReferenceCanBindAsDerivedToBase(from, r)
      PROVE  FALSE
  <2>1. /\ KindOf(from.of) = "Class"
        /\ IsSubclassOf[from.of][Referenced(r).of]
    BY <1>1 DEF ReferenceCanBindAsDerivedToBase
  <2>2. PICK more \in SUBSET Qualifier : Referenced(r) = GetMoreQualifiedType(from, more)
    BY <1>1, <2>1 DEF ReferenceCanBindAsIdentity
  <2>3. Referenced(r).of = i
    BY <2>2 DEF GetMoreQualifiedType
  <2>4. IsSubclassOf[i][i]
    BY <2>1, <2>3
  <2> QED
    BY <1>1, <2>4, SubclassExact DEF TestEnds
<1>2. ASSUME CanConvert(from, [of |-> r, cv |-> {}])
      PROVE  ReferenceCanBindAsIdentity(from, r)
  <2>1. Referenced(r) = from
    BY <1>2 DEF CanConvert
  <2>2. from = GetMoreQualifiedType(from, {})
    BY DEF GetMoreQualifiedType
  <2>3. {} \in SUBSET Qualifier
    OBVIOUS
  <2> QED
    BY <2>1, <2>2, <2>3 DEF ReferenceCanBindAsIdentity
<1> QED
  BY <1>1, <1>2

LEMMA IInvConversionsExact == IInv => ConversionsExact
<1> SUFFICES ASSUME IInv PROVE ConversionsExact
  OBVIOUS
<1>1. HierarchySound /\ ObjectsSound(objects)
  BY DEF IInv, HierarchySound
<1> DEFINE Objects(kind) == {i \in 1 .. Len(objects) : KindOf(i) = kind}
           pointers == Objects("Pointer") \cup Objects("PointerToMember")
<1>2. \A p, q \in pointers : IsValidQualificationConversion(p, q) <=> QualificationConverts(p, q)
  BY <1>1, ConversionOfPointers
<1>3. \A c \in Objects("Class") :
        /\ IsInjective(GetAllSuperclasses(c))
        /\ Range(GetAllSuperclasses(c)) = Superclasses(c) \ {c}
        /\ TestEnds(c) =>
             \A d \in Objects("Class") : IsSubclassOf[c][d] <=> d \in Superclasses(c)
  BY <1>1, SearchExact, SubclassExact
<1>4. \A r \in Objects("Reference"), i \in 1 .. Len(objects), cv \in SUBSET Qualifier :
        LET from == [of |-> i, cv |-> cv]
        IN  /\ KindOf(i) = "Class" /\ TestEnds(i) =>
                 ~ (ReferenceCanBindAsIdentity(from, r)
                      /\ ReferenceCanBindAsDerivedToBase(from, r))
            /\ CanConvert(from, [of |-> r, cv |-> {}]) => ReferenceCanBindAsIdentity(from, r)
  BY <1>1, ReferencesBind
<1> HIDE DEF Objects
<1> QED
  BY <1>2, <1>3, <1>4, Zenon DEF ConversionsExact, Objects

\* On the types of every source representation the conversion of pointers is that of the
\* standard, GetAllSuperclasses finds the classes that are reached through parents, each
\* once and without the class itself, and no reference takes an argument that it does not
\* bind.  For a class none of whose ancestors is its own ancestor, so that IsSubclassOf
\* ends, IsSubclassOf agrees with the search and no reference binds to it in two ways.
THEOREM ConversionRulesExact == Spec => []ConversionsExact
<1>1. Spec => []IInv
  BY InvariantHolds
<1> QED
  BY <1>1, IInvConversionsExact, PTL

-----------------------------------------------------------------------------
(* The recursion of CreateCxxTypes ends. *)

Smaller(S, T) == S \subseteq T /\ S # T

Less(m, n) == m \in Nat /\ n \in Nat /\ m < n

\* No type or class is created while it is being created.
NoCallTwice ==
  \A i, j \in 1 .. Len(stack) :
    stack[i].at = stack[j].at /\ stack[i].of = stack[j].of => i = j

\* How many parts and base classes the call has yet to ask for.
CallsLeft(f) == Len(Calls(f)) + 1 - f.next

\* The innermost call returns, or gets on while it calls another one; those outside
\* it stay as they are.
StackDescends ==
  /\ stack # << >>
  /\ \/ stack' = Tail(stack)
     \/ \E call, f : /\ stack' = << call, f >> \o Tail(stack)
                     /\ f.at = Top.at /\ f.of = Top.of
                     /\ Less(CallsLeft(f), CallsLeft(Top))

Descends ==
  \/ phase = "types" /\ phase' # "types"
  \/ UNCHANGED phase /\ Smaller(remaining', remaining)
  \/ UNCHANGED << phase, remaining >> /\ StackDescends

\* A type calls for types that it is made of.
LEMMA TypeCallsMadeOf ==
  ASSUME program \in Programs, NEW t \in CableType, NEW k \in 1 .. Len(Parts(t)),
         Parts(t)[k].at = "type", Parts(t)[k].of # Null
  PROVE  Parts(t)[k].of \in MadeOf(t)
<1> DEFINE arguments == [i \in 1 .. Len(Info(t).args) |-> TypeCall(Info(t).args[i])]
           n == Len(Info(t).args)
           A == {TypeCall(Info(t).args[i]) : i \in 1 .. n}
           F == {TypeCall(Info(t).target), ClassCall(Info(t).class)} \cup A
<1>1. /\ n \in Nat
      /\ \A i \in 1 .. n : Info(t).args[i] \in CableType
      /\ Range(Info(t).args) = {Info(t).args[i] : i \in 1 .. n}
  <2>1. Info(t).args \in Seq(CableType)
    BY TypeFacts
  <2>2. n \in Nat /\ DOMAIN Info(t).args = 1 .. n /\ \A i \in 1 .. n : Info(t).args[i] \in CableType
    BY <2>1, LenZero
  <2> QED
    BY <2>2 DEF Range
<1>2. /\ TypeCall(Info(t).target) \in F /\ ClassCall(Info(t).class) \in F
      /\ arguments \in [1 .. n -> F]
  OBVIOUS
<1> HIDE DEF F, n
<1>3. arguments \in Seq(F)
  BY <1>1, <1>2, FunctionFacts
<1> HIDE DEF arguments
<1>4. Parts(t) \in Seq(F)
  <2>1. CASE Info(t).kind = "Class"
    BY <2>1, <1>2 DEF Parts
  <2>2. CASE Info(t).kind \in {"Pointer", "Reference", "Array"}
    BY <2>2, <1>2 DEF Parts
  <2>3. CASE Info(t).kind = "Function"
    <3>1. Parts(t) = << TypeCall(Info(t).target) >> \o arguments
      BY <2>3 DEF Parts, arguments
    <3> QED
      BY <3>1, <1>2, <1>3, ElementsAfter
  <2>4. CASE Info(t).kind = "Method"
    <3>1. Parts(t) = << ClassCall(Info(t).class), TypeCall(Info(t).target) >> \o arguments
      BY <2>4 DEF Parts, arguments
    <3> QED
      BY <3>1, <1>2, <1>3, ElementsAfter
  <2>5. CASE Info(t).kind = "Offset"
    BY <2>5, <1>2 DEF Parts
  <2>6. CASE Info(t).kind \in {"Fundamental", "Enumeration"}
    BY <2>6 DEF Parts
  <2> QED
    BY <2>1, <2>2, <2>3, <2>4, <2>5, <2>6, TypeFacts
<1>5. Parts(t)[k] \in F
  BY <1>4, LenZero
<1>6. \A x : TypeCall(x).of = x /\ ClassCall(x).at = "class"
  BY DEF TypeCall, ClassCall
<1>7. Parts(t)[k].of = Info(t).target \/ \E i \in 1 .. n : Parts(t)[k].of = Info(t).args[i]
  BY <1>5, <1>6 DEF F
<1> QED
  BY <1>1, <1>7 DEF MadeOf

\* What the call outside each one is: it has asked for that one.
LEMMA CalledFacts ==
  ASSUME IInv, NEW i \in 1 .. Len(stack) - 1
  PROVE  LET f == stack[i + 1]
             g == stack[i]
         IN  /\ f \in Frame /\ g \in Frame
             /\ f.at = "type" => /\ f.of \in CableType
                                 /\ g.at = "type" /\ g.of # Null => g.of \in MadeOf(f.of)
             /\ f.at = "class" => /\ f.of \in DOMAIN program.classes
                                  /\ g.at = "class"
                                  /\ g.of \in Range(program.classes[f.of].bases)
<1> DEFINE f == stack[i + 1]
           g == stack[i]
<1>1. program \in Programs /\ Nested(stack)
  BY DEF IInv
<1>2. stack \in Seq(Frame) /\ Len(stack) \in Nat /\ \A j \in 1 .. Len(stack) : stack[j] \in Frame
  BY <1>1, LenZero DEF Nested
<1>3. i \in 1 .. Len(stack) /\ i + 1 \in 1 .. Len(stack)
  BY <1>2
<1>4. f \in Frame /\ g \in Frame
  BY <1>2, <1>3
<1>5. FrameSound(f) /\ Waits(f, g)
  BY <1>1, <1>3 DEF Nested
<1> HIDE DEF f, g
<1>6. f.next > 1 /\ f.at = "type" => ~ Broken(f.of)
  BY <1>5 DEF Waits, FrameSound
<1>7. f.at = "type" => f.of # Null
  BY <1>5, <1>6 DEF Broken, Waits
<1>8. PICK k : k = f.next - 1
  OBVIOUS
<1>9. k \in 1 .. Len(Calls(f))
  <2>1. f.next > 1 /\ f.next <= Len(Calls(f)) + 1
    BY <1>5 DEF Waits, FrameSound
  <2>2. f.next \in Nat /\ Len(Calls(f)) \in Nat
    BY <1>1, <1>4, <1>7, CallForms, CallsFacts
  <2> QED
    BY <2>1, <2>2, <1>8
<1>10. Calls(f)[k].at = g.at /\ Calls(f)[k].of = g.of
  BY <1>5, <1>8 DEF Waits
<1>11. ASSUME f.at = "type"
       PROVE  f.of \in CableType /\ (g.at = "type" /\ g.of # Null => g.of \in MadeOf(f.of))
  <2>1. f.of \in CableType /\ Calls(f) = Parts(f.of)
    BY <1>1, <1>4, <1>7, <1>11, CallsFacts
  <2> QED
    BY <1>1, <1>9, <1>10, <2>1, TypeCallsMadeOf
<1>12. ASSUME f.at = "class"
       PROVE  /\ f.of \in DOMAIN program.classes
              /\ g.at = "class" /\ g.of \in Range(program.classes[f.of].bases)
  <2>1. /\ f.of \in DOMAIN program.classes
        /\ Len(Calls(f)) = Len(Bases(f.of))
        /\ \A j \in 1 .. Len(Bases(f.of)) : Calls(f)[j] = ClassCall(Bases(f.of)[j])
    BY <1>1, <1>4, <1>12, CallsFacts
  <2>2. Calls(f)[k] = ClassCall(Bases(f.of)[k]) /\ k \in 1 .. Len(Bases(f.of))
    BY <1>9, <2>1
  <2>3. g.at = "class" /\ g.of = Bases(f.of)[k]
    BY <1>10, <2>2 DEF ClassCall
  <2>4. g.of \in Range(program.classes[f.of].bases)
    BY <1>1, <2>1, <2>2, <2>3, ClassFacts
  <2> QED
    BY <2>1, <2>3, <2>4
<1> QED
  BY <1>4, <1>11, <1>12 DEF f, g

\* As no type is made of itself and no class is a base of itself.
LEMMA IInvNoCallTwice == IInv => NoCallTwice
<1> SUFFICES ASSUME IInv, NEW i \in 1 .. Len(stack), NEW j \in 1 .. Len(stack), i < j,
                    stack[i].at = stack[j].at, stack[i].of = stack[j].of
             PROVE  FALSE
  <2>1. Len(stack) \in Nat
    BY LenZero DEF IInv, Nested
  <2>2. \A i, j \in 1 .. Len(stack) : i = j \/ i < j \/ j < i
    BY <2>1
  <2> QED
    BY <2>2, Zenon DEF NoCallTwice
<1>1. program \in Programs
  BY DEF IInv
<1>2. Len(stack) \in Nat /\ \A k \in 1 .. Len(stack) : stack[k] \in Frame
  BY LenZero DEF IInv, Nested
<1>3. \A k \in i + 1 .. j : k - 1 \in i .. j /\ k - 1 \in 1 .. Len(stack) - 1 /\ k - 1 + 1 = k
  BY <1>2
<1>4. \A k \in i .. j : k = i \/ k \in i + 1 .. j
  BY <1>2
<1>5. j \in i + 1 .. j /\ i \in i .. j /\ \A k \in i .. j : k \in 1 .. Len(stack)
  BY <1>2
<1>6. CASE stack[j].at = "class"
  <2> DEFINE S == {stack[k].of : k \in {l \in i .. j : stack[l].at = "class"}}
  <2>1. \A k \in i .. j : stack[k].at = "class" => stack[k].of \in DOMAIN program.classes
    BY <1>2, <1>5, CallForms
  <2>2. S \in SUBSET DOMAIN program.classes
    BY <2>1
  <2>3. S # {}
    BY <1>5, <1>6
  <2>4. WellFounded(program)
    BY <1>1, TypeSystemAssumption
  <2>5. PICK c \in S : Range(program.classes[c].bases) \cap S = {}
    <3> HIDE DEF S
    <3> QED
      BY <2>2, <2>3, <2>4 DEF WellFounded
  <2>6. PICK k \in i + 1 .. j : stack[k].at = "class" /\ stack[k].of = c
    <3>1. PICK k \in i .. j : stack[k].at = "class" /\ stack[k].of = c
      OBVIOUS
    <3>2. k = i => stack[j].at = "class" /\ stack[j].of = c
      BY <1>6, <3>1
    <3> QED
      BY <3>1, <3>2, <1>4, <1>5
  <2>7. /\ stack[k - 1].at = "class"
        /\ stack[k - 1].of \in Range(program.classes[stack[k].of].bases)
    <3>1. LET l == k - 1 IN l \in 1 .. Len(stack) - 1 /\ l + 1 = k
      BY <1>3
    <3> QED
      BY <2>6, <3>1, CalledFacts
  <2>8. stack[k - 1].of \in S
    BY <1>3, <2>7
  <2> HIDE DEF S
  <2> QED
    BY <2>5, <2>6, <2>7, <2>8
<1>7. CASE stack[j].at = "type"
  <2> DEFINE S == {stack[k].of : k \in i .. j}
  <2>1. \A k \in i .. j : stack[k].at = "type"
    <3> SUFFICES ASSUME NEW m \in i .. j, stack[m].at # "type" PROVE FALSE
      OBVIOUS
    <3> DEFINE T == {k \in i .. j : stack[k].at = "class"}
    <3>1. T \subseteq Nat /\ T # {}
      <4>1. stack[m].at = "class"
        BY <1>2, <1>5, CallForms
      <4> QED
        BY <4>1
    <3>2. PICK l \in T : \A k \in T : l <= k
      <4> HIDE DEF T
      <4> QED
        BY <3>1, SmallestOf
    <3>3. l \in i + 1 .. j
      BY <1>4, <1>7
    <3>4. stack[l - 1].at = "class"
      <4>1. LET k == l - 1 IN k \in 1 .. Len(stack) - 1 /\ k + 1 = l
        BY <1>3, <3>3
      <4> QED
        BY <4>1, CalledFacts
    <3>5. l - 1 \in T /\ ~ (l <= l - 1)
      BY <1>3, <3>3, <3>4
    <3> HIDE DEF T
    <3> QED
      BY <3>2, <3>5
  <2>2. \A k \in i + 1 .. j : stack[k].of \in CableType
    <3> TAKE k \in i + 1 .. j
    <3>1. LET l == k - 1 IN l \in 1 .. Len(stack) - 1 /\ l + 1 = k
      BY <1>3
    <3>2. k \in i .. j
      BY <1>2
    <3> QED
      BY <2>1, <3>1, <3>2, CalledFacts
  <2>3. \A k \in i .. j : stack[k].of \in CableType
    BY <1>4, <1>5, <2>2
  <2>4. S \subseteq CableType /\ S # {}
    BY <1>5, <2>3
  <2>5. PICK t \in S : MadeOf(t) \cap S = {}
    <3> HIDE DEF S
    <3> QED
      BY <1>1, <2>4, Lowest
  <2>6. PICK k \in i + 1 .. j : stack[k].of = t
    BY <1>4, <1>5
  <2>7. stack[k - 1].of \in MadeOf(t)
    <3>1. LET l == k - 1 IN l \in 1 .. Len(stack) - 1 /\ l + 1 = k
      BY <1>3
    <3>2. k \in i .. j /\ k - 1 \in i .. j
      BY <1>2, <1>3
    <3>3. stack[k].at = "type" /\ stack[k - 1].at = "type" /\ stack[k - 1].of # Null
      BY <2>1, <2>3, <3>2, TypeSystemAssumption
    <3> QED
      BY <2>6, <3>1, <3>3, CalledFacts
  <2>8. stack[k - 1].of \in S
    BY <1>3
  <2> QED
    BY <2>5, <2>7, <2>8
<1>8. stack[j].at \in {"type", "class"}
  BY <1>2, CallForms
<1> QED
  BY <1>6, <1>7, <1>8

LEMMA CreatePartDescends ==
  ASSUME IInv, CreatePart
  PROVE  StackDescends
<1> DEFINE f == [Top EXCEPT !.next = @ + 1]
<1>1. /\ stack # << >> /\ Top.next <= Len(Calls(Top))
      /\ stack' = << Calls(Top)[Top.next], f >> \o Tail(stack)
      /\ Top.at = "type" => ~ Broken(Top.of)
  BY DEF CreatePart, Working
<1>2. program \in Programs /\ Top \in Frame
  BY <1>1, TailFacts DEF IInv, Nested, Top
<1>3. Top.at = "type" => Top.of # Null
  BY <1>1 DEF Broken
<1>4. Top.next \in Nat \ {0} /\ Len(Calls(Top)) \in Nat
  BY <1>2, <1>3, CallForms, CallsFacts
<1>5. f.at = Top.at /\ f.of = Top.of /\ f.next = Top.next + 1
  <2>1. Top = [at |-> Top.at, of |-> Top.of, next |-> Top.next]
    BY <1>2, CallForms
  <2>2. f = [at |-> Top.at, of |-> Top.of, next |-> Top.next + 1]
    BY <2>1
  <2> QED
    BY <2>2
<1> HIDE DEF f
<1>6. Calls(f) = Calls(Top)
  BY <1>5 DEF Calls
<1>7. Less(CallsLeft(f), CallsLeft(Top))
  <2>1. \A n, m \in Nat : m <= n => Less(n + 1 - (m + 1), n + 1 - m)
    BY DEF Less
  <2>2. CallsLeft(f) = Len(Calls(Top)) + 1 - (Top.next + 1)
    BY <1>5, <1>6 DEF CallsLeft
  <2>3. CallsLeft(Top) = Len(Calls(Top)) + 1 - Top.next
    BY DEF CallsLeft
  <2> QED
    BY ONLY <1>1, <1>4, <2>1, <2>2, <2>3
<1> QED
  BY <1>1, <1>5, <1>7 DEF StackDescends

LEMMA DescendsNext == IInv /\ [Next]_vars => [Descends]_vars
<1> SUFFICES ASSUME IInv, Next PROVE Descends
  OBVIOUS
<1>1. ASSUME NEW t \in CableType, CreateCxxTypes(t) PROVE Descends
  <2>1. Smaller(remaining', remaining) /\ phase' = phase
    BY <1>1 DEF CreateCxxTypes, Smaller
  <2> QED
    BY <2>1 DEF Descends
<1>2. ASSUME stack # << >>, stack' = Tail(stack), phase' = phase, remaining' = remaining
      PROVE  Descends
  BY <1>2 DEF Descends, StackDescends
<1>3. CASE AlreadyCreated
  BY <1>2, <1>3 DEF AlreadyCreated
<1>4. CASE CreatePart
  <2>1. phase' = phase /\ remaining' = remaining
    BY <1>4 DEF CreatePart
  <2> QED
    BY <1>4, <2>1, CreatePartDescends DEF Descends
<1>5. CASE CreateCxxType
  <2>1. stack # << >> /\ stack' = Tail(stack) /\ phase' = phase /\ remaining' = remaining
    BY <1>5 DEF CreateCxxType, Ready, Working
  <2> QED
    BY <1>2, <2>1
<1>6. CASE CreatePointerToMember
  <2>1. stack # << >> /\ stack' = Tail(stack) /\ phase' = phase /\ remaining' = remaining
    BY <1>6 DEF CreatePointerToMember, Ready, Working
  <2> QED
    BY <1>2, <2>1
<1>7. CASE GetClassType
  <2>1. stack # << >> /\ stack' = Tail(stack) /\ phase' = phase /\ remaining' = remaining
    BY <1>7 DEF GetClassType, Ready, Working
  <2> QED
    BY <1>2, <2>1
<1>8. CASE Fail
  <2>1. stack # << >> /\ phase' = "done"
    BY <1>8 DEF Fail
  <2>2. phase = "types"
    BY <2>1 DEF IInv, VisitsSound
  <2> QED
    BY <2>1, <2>2 DEF Descends
<1>9. CASE EndTypes
  BY <1>9 DEF EndTypes, Descends
<1> QED
  BY <1>1, <1>3, <1>4, <1>5, <1>6, <1>7, <1>8, <1>9 DEF Next

\* CreateCxxType and GetCxxClassType never get to a type or class that they are in the
\* course of creating: their recursion is no deeper than there are types and classes.
THEOREM NeverReentered == Spec => []NoCallTwice
<1> QED
  BY IInvNoCallTwice, InvariantHolds, PTL

\* For every source representation and order of visits: with finitely many types and
\* classes CreateCxxTypes has finitely many steps.
THEOREM CreationDescends == Spec => [][Descends]_vars
<1> QED
  BY DescendsNext, InvariantHolds, PTL DEF Spec
=============================================================================
