----------------------------- MODULE CvTypeWriter -----------------------------
(***************************************************************************)
(* CvTypeWriter (Cable/Generators/cableCvTypeWriter.cxx): a generator adds *)
(* the types that its code uses; Add recurses into the types that a type   *)
(* is made of and puts it behind them in m_TypeOrdering.  WriteClasses,    *)
(* WriteDataDeclarations and WriteInitializations then write one line per  *)
(* type in that order; the initialization of a type reads those of others, *)
(* so the order decides whether it reads an initialized object.            *)
(***************************************************************************)
EXTENDS Naturals, Sequences, Functions, FiniteSets

CONSTANTS
  Base,         \* the cxx::Type objects, unique per type
  Structure,    \* what each of them is made of
  MSVC,         \* whether _MSC_VER is defined
  MaxAsked,     \* bound: how many different types the generator adds
  MaxCalls      \* bound: how many calls of Add are in progress at once

Qualifier == {"const", "volatile"}

CvType == [type : Base, cv : SUBSET Qualifier]

Unqualified(b) == [type |-> b, cv |-> {}]

Kind == { "Array", "Class", "Enumeration", "Function", "Void", "Fundamental",
          "Pointer", "PointerToMember", "Reference" }

(***************************************************************************)
(* The parts of a type: the element, target, pointed to or referenced      *)
(* type; the member type and the class; the return type and the arguments; *)
(* the parents of a class, which are not qualified.  Nothing is assumed of *)
(* them: classes of one name are one ClassType, which takes its parents    *)
(* from any of them, so that it can be among its own ancestors.            *)
(***************************************************************************)
Shape == [kind : Kind, parts : Seq(CvType)]

ASSUME CvTypeWriterAssumption ==
  /\ Structure \in [Base -> Shape]
  /\ MSVC \in BOOLEAN
  /\ MaxAsked \in Nat
  /\ MaxCalls \in Nat

KindOf(t) == Structure[t.type].kind

PartsOf(t) == Structure[t.type].parts

\* MSVC cannot distinguish among cv-qualified versions of void: Add takes the
\* unqualified one instead, and CvType of both is the same C++ class.
Named(t) == IF MSVC /\ KindOf(t) = "Void" THEN Unqualified(t.type) ELSE t

\* Mutant: superclasses for the cv-qualified versions only.
InnerQualified(t) ==
  IF KindOf(t) = "Class" /\ t.cv = {} THEN << >> ELSE PartsOf(t)

\* The inner types that Add recurses into: superclasses only for the cv-unqualified
\* version of a class.
Inner(t) ==
  IF KindOf(t) = "Class" /\ t.cv # {} THEN << >> ELSE PartsOf(t)

\* Add: the cv-unqualified version comes first, then the inner types.
AddsFirst(t) ==
  (IF t.cv # {} THEN << Unqualified(t.type) >> ELSE << >>) \o Inner(t)

\* The parts that have to be written before each type.
PartsNamed == [t \in CvType |-> {Named(p) : p \in Range(AddsFirst(t))}]

\* WriteInitialization: the types whose CvType<...>::type is read to initialize t.
Reads(t) ==
  CASE KindOf(t) = "Class" -> IF t.cv = {} THEN Range(PartsOf(t)) ELSE {}
    [] KindOf(t) \in {"Enumeration", "Fundamental", "Void"} -> {}
    [] OTHER -> Range(PartsOf(t))

VARIABLES
  m_TypesAdded,     \* the types added
  m_TypeOrdering,   \* the same in the order to write them in
  stack,            \* the calls of Add: type and next inner type to add
  asked             \* history: the types the generator added

vars == << m_TypesAdded, m_TypeOrdering, stack, asked >>

Frame == [type : CvType, next : Nat]

TypeOK ==
  /\ m_TypesAdded \subseteq CvType
  /\ m_TypeOrdering \in Seq(CvType)
  /\ stack \in Seq(Frame)
  /\ asked \subseteq CvType

Init ==
  /\ m_TypesAdded = {}
  /\ m_TypeOrdering = << >>
  /\ stack = << >>
  /\ asked = {}

Top == stack[Len(stack)]

\* Mutant: the check for MSVC is left out.
CallUnnamed(calls, t) ==
  IF t \in m_TypesAdded THEN calls ELSE Append(calls, [type |-> t, next |-> 1])

\* A call of Add returns at once when the type has been added.
Call(calls, t) ==
  IF Named(t) \in m_TypesAdded THEN calls
  ELSE Append(calls, [type |-> Named(t), next |-> 1])

\* The generator adds a type.
Add(t) ==
  /\ stack = << >>
  /\ Cardinality(asked \cup {t}) <= MaxAsked
  /\ stack' = Call(stack, t)
  /\ asked' = asked \cup {t}
  /\ UNCHANGED << m_TypesAdded, m_TypeOrdering >>

\* Mutant: the iterator over the inner types is not advanced.
AddInnerStuck ==
  /\ stack # << >>
  /\ Len(stack) < MaxCalls
  /\ Top.next <= Len(AddsFirst(Top.type))
  /\ stack' = Call(stack, AddsFirst(Top.type)[Top.next])
  /\ UNCHANGED << m_TypesAdded, m_TypeOrdering, asked >>

\* Add, the cv-unqualified version or the next inner type.  The bound stands for the
\* program's stack: at MaxCalls calls it goes no further.
AddInner ==
  /\ stack # << >>
  /\ Len(stack) < MaxCalls
  /\ Top.next <= Len(AddsFirst(Top.type))
  /\ stack' = Call([stack EXCEPT ![Len(stack)].next = @ + 1],
                   AddsFirst(Top.type)[Top.next])
  /\ UNCHANGED << m_TypesAdded, m_TypeOrdering, asked >>

\* Mutant: the Type is inserted instead of the CvQualifiedType.
AddSelfType ==
  /\ stack # << >>
  /\ Top.next > Len(AddsFirst(Top.type))
  /\ m_TypesAdded' = m_TypesAdded \cup {Top.type.type}
  /\ m_TypeOrdering' = Append(m_TypeOrdering, Top.type)
  /\ stack' = SubSeq(stack, 1, Len(stack) - 1)
  /\ UNCHANGED asked

\* Mutant: the type is added before the last of its inner types.
AddSelfEarly ==
  /\ stack # << >>
  /\ Top.next >= Len(AddsFirst(Top.type))
  /\ m_TypesAdded' = m_TypesAdded \cup {Top.type}
  /\ m_TypeOrdering' = Append(m_TypeOrdering, Top.type)
  /\ stack' = SubSeq(stack, 1, Len(stack) - 1)
  /\ UNCHANGED asked

\* All inner types have been added: Add adds this type and returns.
AddSelf ==
  /\ stack # << >>
  /\ Top.next > Len(AddsFirst(Top.type))
  /\ m_TypesAdded' = m_TypesAdded \cup {Top.type}
  /\ m_TypeOrdering' = Append(m_TypeOrdering, Top.type)
  /\ stack' = SubSeq(stack, 1, Len(stack) - 1)
  /\ UNCHANGED asked

Next ==
  \/ \E t \in CvType : Add(t)
  \/ AddInner
  \/ AddSelf

Spec == Init /\ [][Next]_vars

\* Add is sequential code: it runs until it returns.
FairSpec == Spec /\ WF_vars(AddInner \/ AddSelf)

-----------------------------------------------------------------------------
(***************************************************************************)
(* Properties.                                                             *)
(***************************************************************************)

\* WriteInitializations never reads a CvType<...>::type that it has not initialized:
\* whatever the initialization of a type reads was written before it.
InitializedBeforeRead ==
  \A i \in 1 .. Len(m_TypeOrdering) : \A t \in Reads(m_TypeOrdering[i]) :
    \E j \in 1 .. i - 1 : m_TypeOrdering[j] = Named(t)

\* WriteClasses specializes CvType<...> once per C++ type: a type that the recursion
\* of Add comes back to while it is adding it is not added by both calls, and no two
\* types that the compiler takes for the same are added.
WrittenOnce ==
  \A i, j \in 1 .. Len(m_TypeOrdering) :
    i # j => Named(m_TypeOrdering[i]) # Named(m_TypeOrdering[j])

\* The first inner types of call i are added, or the last of them is being added.
Dealt(i) ==
  /\ stack[i].next \in 1 .. Len(AddsFirst(stack[i].type)) + 1
  /\ \A k \in 1 .. stack[i].next - 1 :
       LET t == Named(AddsFirst(stack[i].type)[k])
       IN  \/ t \in m_TypesAdded
           \/ i < Len(stack) /\ k = stack[i].next - 1 /\ stack[i + 1].type = t

\* The types that the calls of Add in progress are for.
InProgress == {stack[i].type : i \in 1 .. Len(stack)}

\* CvTypeWriter implements the abstract order: Add and AddSelf are a request and a
\* write, the recursion in between stutters.
Order == INSTANCE TypeOrder WITH
  Type <- CvType,
  Parts <- PartsNamed,
  needed <- m_TypesAdded \cup InProgress,
  order <- m_TypeOrdering

RefinesTypeOrder == Order!Spec

\* The types added are those of the order.
OrderInv ==
  /\ m_TypesAdded = Range(m_TypeOrdering)
  /\ \A t \in m_TypesAdded : Named(t) = t
  /\ InitializedBeforeRead
  /\ WrittenOnce

\* Call i has made the call that follows it, for the last inner type it came to.
Called(i) ==
  /\ stack[i].next > 1
  /\ stack[i + 1].type = Named(AddsFirst(stack[i].type)[stack[i].next - 1])

\* None of the types that calls of Add are in progress for is added yet.
StackInv ==
  /\ \A i \in 1 .. Len(stack) :
       /\ Named(stack[i].type) = stack[i].type
       /\ stack[i].type \notin m_TypesAdded
       /\ Dealt(i)
  /\ \A i \in 1 .. Len(stack) - 1 : Called(i)

\* What a call has dealt with is added, and what it is dealing with is not: the
\* inductive invariant.  A call that returns while another one for its type is in
\* progress would have that call's inner type both added and not.
IInv == TypeOK /\ OrderInv /\ StackInv

\* The types that are not made of themselves: those without parts, those whose parts
\* are such types, and so on.
Depth[n \in 0 .. Cardinality(CvType)] ==
  IF n = 0 THEN {} ELSE {t \in CvType : PartsNamed[t] \subseteq Depth[n - 1]}

Grounded == Depth[Cardinality(CvType)]

\* Each call of Add for a type that is not made of itself returns, and then the type
\* is in the order.  The others never get there: Add recurses into a class that
\* merging by name has made its own ancestor until the stack is exhausted.
EverythingWritten ==
  /\ [](Range(m_TypeOrdering) \subseteq Grounded)
  /\ []<>({Named(t) : t \in asked} \cap Grounded \subseteq Range(m_TypeOrdering))
=============================================================================
