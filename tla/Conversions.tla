---------------------------- MODULE Conversions ----------------------------
(***************************************************************************)
(* The conversion rules of Cable/CxxTypes/cxxConversions.cxx, on the types *)
(* of a TypeSystem: which reference binds to which type, and which pointer *)
(* converts to which, with what they need of CvQualifiedType and           *)
(* ClassType.                                                              *)
(***************************************************************************)
EXTENDS TypeSystem, SequencesExt

\* What a type points to or refers to, and its kind.
Referenced(i) == objects[i].parts[1]
KindOf(i) == objects[i].kind

IsEquallyOrMoreCvQualifiedThan(type, other) == other.cv \subseteq type.cv

\* Conversions::ReferenceCanBindAsIdentity: the reference to is the object itself, or
\* what the reference from refers to, with const, volatile or both added.
ReferenceCanBindAsIdentity(from, to) ==
  LET Reaches(type) ==
        \E cv \in SUBSET Qualifier : Referenced(to) = GetMoreQualifiedType(type, cv)
  IN  \/ Reaches(from)
      \/ KindOf(from.of) = "Reference" /\ Reaches(Referenced(from.of))

\* ClassType::IsSubclassOf: a parent, or a subclass through a parent.
IsSubclassOf ==
  LET subclass[c \in 1 .. Len(objects)] ==
        [super \in 1 .. Len(objects) |->
           \/ super \in Range(m_Parents[c])
           \/ \E p \in Range(m_Parents[c]) : subclass[p][super]]
  IN  subclass

\* The classes queued when parents have been added, none of them twice.
QueueParents(queued, parents) ==
  LET Queue(classes, p) == IF p \in Range(classes) THEN classes ELSE Append(classes, p)
  IN  FoldLeft(Queue, queued, parents)

\* ClassType::GetAllSuperclasses: a breadth first search that queues no class twice.
\* queued[i] is what has been queued when i classes were taken off the queue.
GetAllSuperclasses(c) ==
  LET queued[i \in 0 .. Len(objects)] ==
        IF i = 0 THEN << c >>
        ELSE LET before == queued[i - 1]
             IN  IF i > Len(before) THEN before
                 ELSE QueueParents(before, m_Parents[before[i]])
  IN  Tail(queued[Len(objects)])

\* Conversions::ReferenceCanBindAsDerivedToBase.
ReferenceCanBindAsDerivedToBase(from, to) ==
  /\ KindOf(Referenced(to).of) = "Class"
  /\ KindOf(from.of) = "Class"
  /\ IsEquallyOrMoreCvQualifiedThan(Referenced(to), from)
  /\ IsSubclassOf[from.of][Referenced(to).of]

\* The two types are dereferenced together.
SameKindOfPointer(t1, t2) ==
  \/ KindOf(t1) = "Pointer" /\ KindOf(t2) = "Pointer"
  \/ /\ KindOf(t1) = "PointerToMember"
     /\ KindOf(t2) = "PointerToMember"
     /\ objects[t1].class = objects[t2].class

\* Mutant: const is not asked of the levels in between.
IsValidQualificationConversionAnywhere(from, to) ==
  LET valid[t1 \in 1 .. Len(objects)] ==
        [t2 \in 1 .. Len(objects) |->
           \/ t1 = t2
           \/ /\ SameKindOfPointer(t1, t2)
              /\ Referenced(t1).cv \subseteq Referenced(t2).cv
              /\ valid[Referenced(t1).of][Referenced(t2).of]]
  IN  valid[from][to]

\* Conversions::IsValidQualificationConversion: the pointers are followed until they
\* meet; allConst says that every target type so far was const.
IsValidQualificationConversion(from, to) ==
  LET valid[t1 \in 1 .. Len(objects)] ==
        [t2 \in 1 .. Len(objects) |-> [allConst \in BOOLEAN |->
           \/ t1 = t2
           \/ /\ SameKindOfPointer(t1, t2)
              /\ Referenced(t1).cv \subseteq Referenced(t2).cv
              /\ Referenced(t1).cv # Referenced(t2).cv => allConst
              /\ valid[Referenced(t1).of][Referenced(t2).of]
                      [allConst /\ "const" \in Referenced(t2).cv]]]
  IN  valid[from][to][TRUE]

\* Conversions::CanConvert, with ReferenceBinding: as far as it is implemented, only
\* the very same type converts, and binds to a reference.
CanConvert(from, to) ==
  IF KindOf(to.of) = "Reference" THEN Referenced(to.of) = from ELSE to = from

-----------------------------------------------------------------------------
(* What the rules should be. *)

\* The superclasses of a class: what is reached through parents.
Superclasses(c) ==
  LET Closed(S) == \A d \in S \cup {c} : Range(m_Parents[d]) \subseteq S
  IN  {d \in 1 .. Len(objects) : \A S \in SUBSET {i \in 1 .. Len(objects) : KindOf(i) = "Class"} :
         Closed(S) => d \in S}

\* IsSubclassOf ends for this class: no class on the way up is its own ancestor, as
\* one can be that was merged with another of its name.
TestEnds(c) == \A d \in Superclasses(c) \cup {c} : d \notin Superclasses(d)

\* The levels of a pointer type, outermost first, and the type at the end.
Levels ==
  LET levels[i \in 1 .. Len(objects)] ==
        IF KindOf(i) \notin {"Pointer", "PointerToMember"} THEN << >>
        ELSE << [kind |-> KindOf(i), class |-> objects[i].class, cv |-> Referenced(i).cv] >>
               \o levels[Referenced(i).of]
  IN  levels

Innermost ==
  LET innermost[i \in 1 .. Len(objects)] ==
        IF KindOf(i) \notin {"Pointer", "PointerToMember"} THEN i
        ELSE innermost[Referenced(i).of]
  IN  innermost

\* The C++ standard, 4.4/4: the types are similar; const and volatile are kept on
\* every level; and where a level differs, const is on every level before it in the
\* target, the outermost pointer itself excepted.
QualificationConverts(from, to) ==
  LET L1 == Levels[from]
      L2 == Levels[to]
  IN  /\ Innermost[from] = Innermost[to]
      /\ Len(L1) = Len(L2)
      /\ \A j \in 1 .. Len(L1) :
           /\ L1[j].kind = L2[j].kind /\ L1[j].class = L2[j].class
           /\ L1[j].cv \subseteq L2[j].cv
           /\ L1[j].cv # L2[j].cv => \A k \in 1 .. j - 1 : "const" \in L2[k].cv

\* On the types of every representation, the conversion of pointers is that of the
\* standard; the search for superclasses finds each of them once, cycles included, and
\* the recursive test agrees with it where it ends; no reference binds both as an
\* identity and as derived to base there, and none takes an argument by CanConvert that
\* it does not bind as an identity.
ConversionsExact ==
  phase = "done" =>
    LET Objects(kind) == {i \in 1 .. Len(objects) : KindOf(i) = kind}
        pointers == Objects("Pointer") \cup Objects("PointerToMember")
    IN  /\ \A p, q \in pointers :
             IsValidQualificationConversion(p, q) <=> QualificationConverts(p, q)
        /\ \A c \in Objects("Class") :
             /\ IsInjective(GetAllSuperclasses(c))
             /\ Range(GetAllSuperclasses(c)) = Superclasses(c) \ {c}
             /\ TestEnds(c) =>
                  \A d \in Objects("Class") : IsSubclassOf[c][d] <=> d \in Superclasses(c)
        /\ \A r \in Objects("Reference"), i \in 1 .. Len(objects), cv \in SUBSET Qualifier :
             LET from == [of |-> i, cv |-> cv]
             IN  /\ KindOf(i) = "Class" /\ TestEnds(i) =>
                      ~ (ReferenceCanBindAsIdentity(from, r)
                           /\ ReferenceCanBindAsDerivedToBase(from, r))
                 /\ CanConvert(from, [of |-> r, cv |-> {}])
                      => ReferenceCanBindAsIdentity(from, r)
=============================================================================
