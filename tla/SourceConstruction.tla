------------------------ MODULE SourceConstruction ------------------------
(***************************************************************************)
(* The construction phase of cable::XMLSourceParser:                       *)
(* ConstructSourceRepresentation and the functions below it turn the       *)
(* elements that the event phase has left in m_ElementMap into source      *)
(* objects and types.                                                      *)
(*                                                                         *)
(* An element is constructed when the main loop reaches it or when another *)
(* element refers to it, and is registered under its id only when it is    *)
(* finished.  The recursion is a stack of frames, one for each active call *)
(* of AddElementRepresentation; a frame lists the references its element   *)
(* has yet to resolve.  The element map is sorted by ids, which mean       *)
(* nothing here: the main loop may visit the elements in any order.        *)
(***************************************************************************)
EXTENDS Integers, Sequences, FiniteSets

CONSTANTS
  Id,         \* the ids of elements
  NoId,       \* the value of a missing attribute
  Null,       \* a missing element, or the null type
  Document    \* the element maps considered

-----------------------------------------------------------------------------
(* The element map. *)

\* Kinds of element.  "Class" stands for Class, Struct and Union, "Variable" for
\* Variable and Field, and "Function" for every kind of function and method.
ContextKind == {"Namespace", "NamespaceAlias", "Class"}
NamedKind == ContextKind \cup {"Enumeration", "Typedef", "Variable", "Function"}
TypeKind == {"FundamentalType", "PointerType", "ReferenceType", "ArrayType",
             "FunctionType", "MethodType", "OffsetType"}

\* GetTypeFromId refuses to add cv-qualifiers to these.
Unqualifiable == {"ReferenceType", "FunctionType", "MethodType"}

Qualifier == {"const", "volatile"}

\* A reference to a type: an id and the qualifiers appended to it.
TypeRef == [id : Id, cv : SUBSET Qualifier]

\* A type: the element that declares it, and its qualifiers.
Type == [of : Id, cv : SUBSET Qualifier]

(***************************************************************************)
(* An element: the context, the elements it refers to (the bases of a      *)
(* class, the namespace of an alias, the basetype of a method or offset    *)
(* type), the types it refers to, whether it is the global namespace, and  *)
(* whether it has an "attributes" attribute.  The defect says whether      *)
(* another attribute is missing or malformed: one that is looked at before *)
(* any reference ("early") or after them ("late"), or one that only        *)
(* CreateCxxType needs ("unfit": the returns attribute of a function, the  *)
(* name of a fundamental type).                                            *)
(***************************************************************************)
SourceElement == [ kind       : NamedKind \cup TypeKind,
                   context    : Id \cup {NoId},
                   elements   : Seq(Id),
                   types      : Seq(TypeRef),
                   defect     : {"none", "early", "late", "unfit"},
                   global     : BOOLEAN,
                   attributes : BOOLEAN ]

\* Everything that the construction of element e refers to.
References(e) ==
  ({e.context} \ {NoId}) \cup {e.elements[i] : i \in 1 .. Len(e.elements)}
    \cup {e.types[i].id : i \in 1 .. Len(e.types)}

\* How many elements and types an element of each kind refers to.
WellShaped(e) ==
  /\ e.kind \notin NamedKind => e.context = NoId
  /\ e.kind \in {"Class", "Namespace", "Enumeration", "FundamentalType"} => e.types = << >>
  /\ e.kind \in {"NamespaceAlias", "MethodType", "OffsetType"} => Len(e.elements) = 1
  /\ e.kind \notin {"Class", "NamespaceAlias", "MethodType", "OffsetType"} => e.elements = << >>
  /\ e.kind \in {"Typedef", "Variable", "PointerType", "ReferenceType", "ArrayType",
                 "OffsetType"} => Len(e.types) = 1
  /\ e.defect = "unfit" => e.kind \in {"Function", "FunctionType", "MethodType",
                                       "FundamentalType"}

\* C++ declarations do not refer to each other in a cycle through contexts, bases,
\* signatures and the types that types are made of.
Acyclic(d) ==
  \A S \in SUBSET {id \in Id : d[id] # Null} :
    S # {} => \E id \in S : References(d[id]) \cap S = {}

ASSUME ConstructionAssumption ==
  /\ NoId \notin Id
  /\ Null \notin SourceElement \cup Type
  /\ \A d \in Document :
       /\ d \in [Id -> SourceElement \cup {Null}]
       /\ \A id \in Id : d[id] # Null => WellShaped(d[id])
       /\ Acyclic(d)

-----------------------------------------------------------------------------
VARIABLES
  document,              \* m_ElementMap
  registered,            \* ids with a source object
  target,                \* the types each registered object refers to
  members,               \* the Named objects in the member map of each context
  m_GlobalNamespaceId,
  stack,                 \* active calls of AddElementRepresentation, innermost first
  null,                  \* the last such call that returned has returned null
  remaining,             \* elements the main loop has yet to visit
  phase,                 \* "elements", "done" or "crashed"
  result                 \* whether there is a source representation

objects == << registered, target, members, m_GlobalNamespaceId >>
vars == << document, objects, stack, null, remaining, phase, result >>

\* The references of an element, in the order in which they are resolved.
Goals(e) ==
  LET Context == IF e.context = NoId THEN << >>
                 ELSE << [op |-> "context", id |-> e.context, cv |-> {}] >>
      Elements == [i \in 1 .. Len(e.elements) |->
                     [op |-> "element", id |-> e.elements[i], cv |-> {}]]
      Types == [i \in 1 .. Len(e.types) |->
                  [op |-> "type", id |-> e.types[i].id, cv |-> e.types[i].cv]]
  IN  IF e.defect = "early" THEN << >> ELSE Context \o Elements \o Types

Goal == [op : {"context", "element", "type"}, id : Id, cv : SUBSET Qualifier]
Frame == [id : Id, todo : Seq(Goal), types : Seq(Type \cup {Null})]

Enter(id) == [id |-> id, todo |-> Goals(document[id]), types |-> << >>]

\* The innermost call, its element and the reference it is resolving.
Top == Head(stack)
Element == document[Top.id]
Current == Head(Top.todo)
Working(op) == phase = "elements" /\ stack # << >> /\ Top.todo # << >> /\ Current.op = op

\* The reference has been constructed, or found not to exist.
Answered == null \/ document[Current.id] = Null \/ Current.id \in registered
Found == ~ null /\ Current.id \in registered

\* GetTypeFromId for the id of a registered object.
TypeOf(id) ==
  CASE document[id].kind = "Typedef" -> target[id][1]
    [] document[id].kind \in {"Class", "Enumeration"} \cup TypeKind ->
         [of |-> id, cv |-> {}]
    [] OTHER -> Null

\* Mutant: restrict is kept with the other qualifiers.
GetTypeFromIdRestrict(ref) ==
  LET type == TypeOf(ref.id)
  IN  IF ref.cv = {} THEN type
      ELSE IF document[type.of].kind \in Unqualifiable THEN Null
      ELSE [of |-> type.of, cv |-> ref.cv \cup {"restrict"}]

\* Mutant: the qualifiers in the id are lost.
GetTypeFromIdUnqualified(ref) == TypeOf(ref.id)

\* GetTypeFromId with its qualifiers.  The new type is registered under the
\* qualified id, where the next look-up finds the same.
GetTypeFromId(ref) ==
  LET type == TypeOf(ref.id)
  IN  IF ref.cv = {} THEN type
      ELSE IF document[type.of].kind \in Unqualifiable THEN Null
      ELSE [of |-> type.of, cv |-> ref.cv]

-----------------------------------------------------------------------------
\* ConstructSourceRepresentation.
Init ==
  /\ document \in Document
  /\ registered = {}
  /\ target = [id \in Id |-> << >>]
  /\ members = [id \in Id |-> << >>]
  /\ m_GlobalNamespaceId = NoId
  /\ stack = << >>
  /\ null = FALSE
  /\ remaining = {id \in Id : document[id] # Null}
  /\ phase = "elements"
  /\ result = FALSE

\* One turn of its loop.
AddElement(id) ==
  /\ phase = "elements"
  /\ stack = << >>
  /\ ~ null
  /\ id \in remaining
  /\ remaining' = remaining \ {id}
  /\ stack' = IF id \in registered THEN << >> ELSE << Enter(id) >>
  /\ UNCHANGED << document, objects, null, phase, result >>

\* AddElementRepresentation for an element that another one refers to.
AddElementRepresentation ==
  /\ phase = "elements"
  /\ stack # << >>
  /\ Top.todo # << >>
  /\ ~ Answered
  /\ stack' = << Enter(Current.id) >> \o stack
  /\ UNCHANGED << document, objects, null, remaining, phase, result >>

\* The current reference is done with, and has given these types.
Proceed(types) ==
  /\ stack' = << [Top EXCEPT !.todo = Tail(@), !.types = @ \o types] >> \o Tail(stack)
  /\ null' = FALSE
  /\ UNCHANGED << document, remaining, phase, result >>

Crash ==
  /\ phase' = "crashed"
  /\ UNCHANGED << document, objects, stack, null, remaining, result >>

\* The call returns null: with an "attributes" attribute, through the null pointer.
Fail ==
  \/ Element.attributes /\ Crash
  \/ /\ ~ Element.attributes
     /\ stack' = Tail(stack)
     /\ null' = TRUE
     /\ UNCHANGED << document, objects, remaining, phase, result >>

\* Mutant: the alias keeps the object itself.
MemberMapOfAlias(d, c) == c

\* NamespaceAlias::AddNamed passes the object on to the namespace.
MemberMapOf(d, c) == IF d[c].kind = "NamespaceAlias" THEN d[c].elements[1] ELSE c

\* The end of SetupNamed.  A context that could not be constructed is ignored.
SetContext ==
  /\ Working("context")
  /\ Answered
  /\ members' = IF Found /\ document[Current.id].kind \in ContextKind
                THEN [members EXCEPT ![MemberMapOf(document, Current.id)] = Append(@, Top.id)]
                ELSE members
  /\ Proceed(<< >>)
  /\ UNCHANGED << registered, target, m_GlobalNamespaceId >>

\* The kind that an element refers to.
Wanted(e) == IF e.kind = "NamespaceAlias" THEN "Namespace" ELSE "Class"

\* Mutant: an element that is missing is skipped.
UseElementOrSkip ==
  /\ Working("element")
  /\ Answered
  /\ Proceed(<< >>) /\ UNCHANGED objects

\* A base class, the namespace of an alias or a basetype.  The element of a base
\* class is not tested before it is used.
UseElement ==
  /\ Working("element")
  /\ Answered
  /\ \/ document[Current.id] = Null /\ Element.kind = "Class" /\ Crash
     \/ /\ document[Current.id] = Null => Element.kind # "Class"
        /\ IF Found /\ document[Current.id].kind = Wanted(Element)
           THEN Proceed(<< >>) /\ UNCHANGED objects
           ELSE Fail

\* A type.  An array type goes on without one.  Qualifiers are added to a null
\* type without a test.
UseType ==
  /\ Working("type")
  /\ Answered
  /\ \/ Found /\ Current.cv # {} /\ TypeOf(Current.id) = Null /\ Crash
     \/ /\ Found /\ Current.cv # {} => TypeOf(Current.id) # Null
        /\ LET type == IF Found THEN GetTypeFromId(Current) ELSE Null
           IN  IF type # Null \/ Element.kind = "ArrayType"
               THEN Proceed(<< type >>) /\ UNCHANGED objects
               ELSE Fail

\* The element is finished and SetSourceObject registers it, or it turns out to
\* be broken.
SetSourceObject ==
  /\ phase = "elements"
  /\ stack # << >>
  /\ Top.todo = << >>
  /\ \/ Element.defect \in {"early", "late"} /\ Fail
     \/ /\ Element.defect \in {"none", "unfit"}
        /\ registered' = registered \cup {Top.id}
        /\ target' = [target EXCEPT ![Top.id] = Top.types]
        /\ m_GlobalNamespaceId' = IF Element.global THEN Top.id ELSE m_GlobalNamespaceId
        /\ stack' = Tail(stack)
        /\ null' = FALSE
        /\ UNCHANGED << document, members, remaining, phase, result >>

\* Mutant: the types are not created.
CreateCxxTypesSkipped == TRUE

\* SourceRepresentation::CreateCxxTypes: every type object can be created.
CreateCxxTypes ==
  \A id \in registered :
    /\ document[id].defect # "unfit"
    /\ \A i \in 1 .. Len(target[id]) : target[id][i] # Null

\* The loop ends, or ends early because an element could not be added.
EndElements ==
  /\ phase = "elements"
  /\ stack = << >>
  /\ \/ null /\ result' = FALSE
     \/ ~ null /\ remaining = {} /\ result' = CreateCxxTypes
  /\ phase' = "done"
  /\ UNCHANGED << document, objects, stack, null, remaining >>

Done == phase \in {"done", "crashed"} /\ UNCHANGED vars

Next ==
  \/ \E id \in Id : AddElement(id)
  \/ AddElementRepresentation
  \/ SetContext
  \/ UseElement
  \/ UseType
  \/ SetSourceObject
  \/ EndElements
  \/ Done

Spec == Init /\ [][Next]_vars

-----------------------------------------------------------------------------
(* What a document means, without any order of construction. *)

\* The type that an id stands for: typedefs are followed and qualifiers add up.
Meaning(d) ==
  LET meaning[id \in Id] ==
        IF d[id] = Null THEN Null
        ELSE CASE d[id].kind = "Typedef" ->
                    LET ref  == d[id].types[1]
                        type == meaning[ref.id]
                    IN  IF type = Null THEN Null
                        ELSE [type EXCEPT !.cv = @ \cup ref.cv]
               [] d[id].kind \in {"Class", "Enumeration"} \cup TypeKind ->
                    [of |-> id, cv |-> {}]
               [] OTHER -> Null
  IN  meaning

\* Every element of the document is sound, and so is all it refers to.
Constructible(d) ==
  \A id \in Id : d[id] # Null =>
    /\ d[id].defect = "none"
    /\ \A i \in 1 .. Len(d[id].elements) :
         /\ d[d[id].elements[i]] # Null
         /\ d[d[id].elements[i]].kind = Wanted(d[id])
    /\ \A i \in 1 .. Len(d[id].types) :
         LET ref  == d[id].types[i]
             type == Meaning(d)[ref.id]
         IN  /\ type # Null
             /\ ref.cv # {} => d[type.of].kind \notin Unqualifiable

\* The context that an element is a member of: an alias stands for its namespace.
ContextOf(d, id) ==
  LET c == d[id].context
  IN  IF c = NoId \/ d[c] = Null \/ d[c].kind \notin ContextKind
      THEN NoId
      ELSE IF d[c].kind = "NamespaceAlias" THEN d[c].elements[1] ELSE c

\* No typedef of a qualified type is qualified again by something else.
QualifiersPlain(d) ==
  \A id \in Id : d[id] # Null =>
    \A i \in 1 .. Len(d[id].types) :
      LET ref  == d[id].types[i]
          type == Meaning(d)[ref.id]
      IN  ref.cv # {} /\ type # Null => type.cv \subseteq ref.cv

-----------------------------------------------------------------------------
(* Properties. *)

\* Every variable has its type.
TypeOK ==
  /\ document \in [Id -> SourceElement \cup {Null}]
  /\ registered \subseteq {id \in Id : document[id] # Null}
  /\ target \in [Id -> Seq(Type \cup {Null})]
  /\ members \in [Id -> Seq(Id)]
  /\ m_GlobalNamespaceId \in Id \cup {NoId}
  /\ stack \in Seq(Frame)
  /\ null \in BOOLEAN
  /\ remaining \subseteq Id
  /\ phase \in {"elements", "done", "crashed"}
  /\ result \in BOOLEAN

\* A representation is returned exactly when every element of the document is
\* sound: which elements the order of the ids constructs first, and which ones are
\* constructed from within another one, makes no difference.
ResultExact ==
  phase \in {"done", "crashed"} => (result <=> Constructible(document))

\* Half-built objects stay where they are.  A registered object refers, by its
\* elements and types, only to registered ones, also while the construction is under
\* way and after failures.  SetupNamed is the exception: it puts an object into the
\* member map of its context, which may be registered, before the rest of its element
\* is read.  Until there is a representation, a member that is not registered belongs
\* to an active call, or to a document with a broken element, where a failed call
\* leaves it behind; in a representation every member is registered.
HalfBuiltConfined ==
  /\ \A id \in registered :
       LET e == document[id]
       IN  /\ \A i \in 1 .. Len(e.elements) : e.elements[i] \in registered
           /\ Len(target[id]) = Len(e.types)
           /\ \A i \in 1 .. Len(target[id]) : target[id][i] # Null =>
                target[id][i].of \in registered /\ e.types[i].id \in registered
  /\ \A c \in Id : \A i \in 1 .. Len(members[c]) :
       \/ members[c][i] \in registered
       \/ /\ ~ result
          /\ \/ \E k \in 1 .. Len(stack) : stack[k].id = members[c][i]
             \/ ~ Constructible(document)

\* In a finished representation every object is in the member map of its context
\* exactly once, although it may be reached from its context, from objects that
\* refer to it and from the main loop; and it is in no other.
MembersExact ==
  result =>
    \A c, id \in Id :
      Cardinality({i \in 1 .. Len(members[c]) : members[c][i] = id})
        = IF document[id] # Null /\ ContextOf(document, id) = c THEN 1 ELSE 0

\* The types of a finished representation are the ones the document means.
TypesFaithful ==
  result =>
    \A id \in registered : \A i \in 1 .. Len(target[id]) :
      LET ref == document[id].types[i]
          type == Meaning(document)[ref.id]
      IN  target[id][i] = [type EXCEPT !.cv = @ \cup ref.cv]

\* They are, as long as no qualified typedef is qualified again.
TypesExact == QualifiersPlain(document) => TypesFaithful

\* An element that cannot be added is reported, and not used.
FailureReported == phase # "crashed"
-----------------------------------------------------------------------------
(* The inductive invariant from which the properties are proved: what a finished *)
(* element r has registered, and what an active call has finished so far, are    *)
(* what the document d means.                                                    *)

\* The element that e refers to is there.
ElementDone(d, r, e, id) == id \in r /\ d[id].kind = Wanted(e)

\* The i-th type of e has been resolved to t.
TypeDone(d, r, e, i, t) ==
  LET ref  == e.types[i]
      type == Meaning(d)[ref.id]
  IN  IF t = Null
      THEN e.kind = "ArrayType" /\ ~ Constructible(d)
      ELSE /\ ref.id \in r /\ t.of \in r
           /\ type # Null /\ t.of = type.of
           /\ ref.cv # {} => d[t.of].kind \notin Unqualifiable
           /\ QualifiersPlain(d) => t = [type EXCEPT !.cv = @ \cup ref.cv]

ObjectSound(d, r, e, types) ==
  /\ e.defect \in {"none", "unfit"}
  /\ \A i \in 1 .. Len(e.elements) : ElementDone(d, r, e, e.elements[i])
  /\ Len(types) = Len(e.types)
  /\ \A i \in 1 .. Len(types) : TypeDone(d, r, e, i, types[i])

RegisteredSound(d, r, t) == \A id \in r : ObjectSound(d, r, d[id], t[id])

\* A call has resolved the first references of its element, in their order.
FrameSound(d, r, f) ==
  LET e     == d[f.id]
      goals == Goals(e)
      done  == Len(goals) - Len(f.todo)
  IN  /\ e # Null /\ f.id \notin r
      /\ done >= 0
      /\ \A j \in 1 .. Len(f.todo) : f.todo[j] = goals[done + j]
      /\ \A j \in 1 .. done : goals[j].op = "element" => ElementDone(d, r, e, goals[j].id)
      /\ Len(f.types) = IF e.defect = "early" \/ Len(f.todo) >= Len(e.types) THEN 0
                        ELSE Len(e.types) - Len(f.todo)
      /\ \A i \in 1 .. Len(f.types) : TypeDone(d, r, e, i, f.types[i])

AllSound(d, r, s) == \A i \in 1 .. Len(s) : FrameSound(d, r, s[i])

\* Each call has been made for the current reference of the call outside it, and
\* no two are for the same element.
Nested(s) ==
  /\ \A i \in 2 .. Len(s) : s[i].todo # << >> /\ s[i].todo[1].id = s[i - 1].id
  /\ \A i, j \in 1 .. Len(s) : s[i].id = s[j].id => i = j

\* The main loop is at this element.
Outermost(s, id) == s # << >> /\ s[Len(s)].id = id

\* No element is forgotten.
NoneForgotten ==
  /\ \A id \in remaining : document[id] # Null
  /\ phase = "elements" =>
       \A id \in Id : document[id] # Null =>
         \/ id \in registered \cup remaining
         \/ Outermost(stack, id)
         \/ stack = << >> /\ null
  /\ result => /\ phase = "done"
               /\ CreateCxxTypes
               /\ \A id \in Id : document[id] # Null => id \in registered

\* The element has been given to its context.
Placed(d, r, s, id) ==
  \/ id \in r
  \/ \E i \in 1 .. Len(s) : s[i].id = id /\ Len(s[i].todo) < Len(Goals(d[id]))

MembersSound(d, r, s, m) ==
  \A c \in Id :
    /\ \A i, j \in 1 .. Len(m[c]) : m[c][i] = m[c][j] => i = j
    /\ \A id \in Id :
         (\E i \in 1 .. Len(m[c]) : m[c][i] = id)
           <=> d[id] # Null /\ ContextOf(d, id) = c /\ Placed(d, r, s, id)

\* Nothing fails in a sound document.
NeverFails ==
  Constructible(document) =>
    /\ ~ null
    /\ phase # "crashed"
    /\ phase = "done" => result
    /\ MembersSound(document, registered, stack, members)

IInv ==
  /\ TypeOK
  /\ document \in Document
  /\ RegisteredSound(document, registered, target)
  /\ AllSound(document, registered, stack)
  /\ Nested(stack)
  /\ NoneForgotten
  /\ NeverFails
=============================================================================
