-------------------------- MODULE CvTypeWriterProofs --------------------------
(***************************************************************************)
(* Proofs about CvTypeWriter for all sets of types: the types are written  *)
(* once and after those that their initialization reads, and Add           *)
(* implements the abstract order, and its recursion ends for all types     *)
(* that are not made of themselves.  The argument is IInv: what a call has *)
(* dealt with is added and what it is dealing with is not, so no call      *)
(* returns while another one for the same type is in progress.             *)
(***************************************************************************)
EXTENDS CvTypeWriter, SequenceTheorems, TLAPS

LEMMA AppendFacts ==
  ASSUME NEW S, NEW s \in Seq(S), NEW x \in S
  PROVE  /\ Append(s, x) \in Seq(S)
         /\ Len(Append(s, x)) = Len(s) + 1
         /\ \A i \in 1 .. Len(s) : Append(s, x)[i] = s[i]
         /\ Append(s, x)[Len(s) + 1] = x
         /\ Range(Append(s, x)) = Range(s) \cup {x}
  BY DEF Range

LEMMA FrontFacts ==
  ASSUME NEW S, NEW s \in Seq(S), s # << >>
  PROVE  /\ Len(s) \in Nat \ {0}
         /\ SubSeq(s, 1, Len(s) - 1) \in Seq(S)
         /\ Len(SubSeq(s, 1, Len(s) - 1)) = Len(s) - 1
         /\ \A i \in 1 .. Len(s) - 1 : SubSeq(s, 1, Len(s) - 1)[i] = s[i]
<1>1. Len(s) \in Nat \ {0}
  BY EmptySeq
<1>2. \A i \in 1 .. Len(s) - 1 : s[i] \in S
  BY <1>1, ElementOfSeq
<1>3. /\ SubSeq(s, 1, Len(s) - 1) \in Seq(S)
      /\ Len(SubSeq(s, 1, Len(s) - 1)) =
           IF 1 <= Len(s) - 1 THEN (Len(s) - 1) - 1 + 1 ELSE 0
      /\ \A i \in 1 .. (Len(s) - 1) - 1 + 1 : SubSeq(s, 1, Len(s) - 1)[i] = s[1 + i - 1]
  <2> DEFINE n == Len(s) - 1
  <2>1. 1 \in Int /\ n \in Int /\ \A i \in 1 .. n : s[i] \in S
    BY <1>1, <1>2
  <2> HIDE DEF n
  <2>2. /\ SubSeq(s, 1, n) \in Seq(S)
        /\ Len(SubSeq(s, 1, n)) = IF 1 <= n THEN n - 1 + 1 ELSE 0
        /\ \A i \in 1 .. n - 1 + 1 : SubSeq(s, 1, n)[i] = s[1 + i - 1]
    BY <2>1, SubSeqProperties
  <2> QED
    BY <2>2 DEF n
<1>4. Len(SubSeq(s, 1, Len(s) - 1)) = Len(s) - 1
  <2>1. \A n \in Nat \ {0} : (IF 1 <= n - 1 THEN (n - 1) - 1 + 1 ELSE 0) = n - 1
    OBVIOUS
  <2> QED
    BY <1>1, <1>3, <2>1
<1>5. \A i \in 1 .. Len(s) - 1 : SubSeq(s, 1, Len(s) - 1)[i] = s[i]
  <2> SUFFICES ASSUME NEW i \in 1 .. Len(s) - 1
               PROVE  SubSeq(s, 1, Len(s) - 1)[i] = s[i]
    OBVIOUS
  <2>1. i \in 1 .. (Len(s) - 1) - 1 + 1 /\ 1 + i - 1 = i
    BY <1>1
  <2> QED
    BY <2>1, <1>3
<1> QED
  BY <1>1, <1>3, <1>4, <1>5

LEMMA RangeFacts ==
  ASSUME NEW S, NEW s \in Seq(S)
  PROVE  /\ Range(s) \subseteq S
         /\ \A x \in Range(s) : \E i \in 1 .. Len(s) : s[i] = x
         /\ \A i \in 1 .. Len(s) : s[i] \in Range(s)
  BY DEF Range

\* Named and the inner types of a type are types, and its initialization reads only
\* the inner types.
LEMMA TypeFacts ==
  ASSUME NEW t \in CvType
  PROVE  /\ Named(t) \in CvType
         /\ Named(Named(t)) = Named(t)
         /\ AddsFirst(t) \in Seq(CvType)
         /\ \A k \in 1 .. Len(AddsFirst(t)) : AddsFirst(t)[k] \in CvType
         /\ Reads(t) \subseteq Range(AddsFirst(t))
<1>1. /\ t.type \in Base /\ t.cv \subseteq Qualifier
      /\ t = [type |-> t.type, cv |-> t.cv]
  BY DEF CvType
<1>2. PartsOf(t) \in Seq(CvType)
  BY <1>1, CvTypeWriterAssumption DEF Shape, PartsOf
<1>3. Unqualified(t.type) \in CvType
  BY <1>1 DEF Unqualified, CvType
<1>4. Named(t) \in CvType /\ Named(Named(t)) = Named(t)
  BY <1>1, <1>3 DEF Named, KindOf, Unqualified
<1>5. Inner(t) \in Seq(CvType)
  BY <1>2 DEF Inner
<1>6. Reads(t) \subseteq Range(Inner(t))
  BY DEF Reads, Inner
<1>7. CASE t.cv = {}
  <2>1. AddsFirst(t) = Inner(t)
    BY <1>7, <1>5 DEF AddsFirst
  <2> QED
    BY <1>4, <1>5, <1>6, <2>1
<1>8. CASE t.cv # {}
  <2>1. AddsFirst(t) = << Unqualified(t.type) >> \o Inner(t)
    BY <1>8 DEF AddsFirst
  <2>2. /\ AddsFirst(t) \in Seq(CvType)
        /\ Len(AddsFirst(t)) = Len(Inner(t)) + 1
        /\ \A i \in 1 .. Len(Inner(t)) : AddsFirst(t)[i + 1] = Inner(t)[i]
    BY <2>1, <1>3, <1>5
  <2>3. Range(Inner(t)) \subseteq Range(AddsFirst(t))
    BY <2>2, <1>5 DEF Range
  <2> QED
    BY <1>4, <1>6, <2>2, <2>3
<1> QED
  BY <1>7, <1>8

\* What AddInner does to the call on top: only the position moves.
Advanced(calls) == [calls EXCEPT ![Len(calls)].next = @ + 1]

LEMMA AdvanceFacts ==
  ASSUME NEW calls \in Seq(Frame), calls # << >>
  PROVE  /\ Advanced(calls) \in Seq(Frame)
         /\ Len(Advanced(calls)) = Len(calls)
         /\ \A i \in 1 .. Len(calls) : Advanced(calls)[i].type = calls[i].type
         /\ \A i \in 1 .. Len(calls) - 1 : Advanced(calls)[i] = calls[i]
         /\ Advanced(calls)[Len(calls)].next = calls[Len(calls)].next + 1
<1> DEFINE n == Len(calls)
           f == [calls[n] EXCEPT !.next = @ + 1]
<1>1. n \in Nat \ {0} /\ n \in 1 .. n
  BY EmptySeq
<1>2. \A i \in 1 .. n : calls[i] \in Frame
  BY ElementOfSeq
<1>3. f \in Frame /\ f.type = calls[n].type /\ f.next = calls[n].next + 1
  BY <1>1, <1>2 DEF Frame
<1>4. Advanced(calls) = [calls EXCEPT ![n] = f]
  BY DEF Advanced
<1>5. /\ Advanced(calls) \in Seq(Frame) /\ Len(Advanced(calls)) = n
      /\ \A i \in 1 .. n : Advanced(calls)[i] = IF i = n THEN f ELSE calls[i]
  <2> HIDE DEF f
  <2> QED
    BY <1>1, <1>3, <1>4, ExceptSeq
<1> HIDE DEF f
<1> QED
  BY <1>1, <1>3, <1>5

-----------------------------------------------------------------------------
\* The order changes when a type is added and not before.
LEMMA OrderKept ==
  ASSUME OrderInv, UNCHANGED << m_TypesAdded, m_TypeOrdering >>
  PROVE  OrderInv'
BY DEF OrderInv, InitializedBeforeRead, WrittenOnce

LEMMA IInvInit == Init => IInv
  BY DEF Init, IInv, TypeOK, OrderInv, StackInv, Range, Dealt, Called, InitializedBeforeRead, WrittenOnce

\* A request to a writer at rest starts at most one call.
LEMMA IInvAdd ==
  ASSUME IInv, NEW t \in CvType, Add(t)
  PROVE  IInv'
<1>1. stack = << >> /\ Named(t) \in CvType /\ Named(Named(t)) = Named(t)
  BY TypeFacts DEF Add
<1>2. asked' \subseteq CvType /\ m_TypesAdded' = m_TypesAdded
      /\ m_TypeOrdering' = m_TypeOrdering
  BY DEF Add, IInv, TypeOK
<1>3. CASE Named(t) \in m_TypesAdded
  <2>1. stack' = << >>
    BY <1>1, <1>3 DEF Add, Call
  <2>2. StackInv'
    BY <2>1 DEF StackInv
  <2> QED
    BY <1>2, <2>1, <2>2, OrderKept DEF IInv, TypeOK
<1>4. CASE Named(t) \notin m_TypesAdded
  <2>1. stack' = << [type |-> Named(t), next |-> 1] >>
    BY <1>1, <1>4 DEF Add, Call
  <2>2. /\ stack' \in Seq(Frame) /\ Len(stack') = 1
        /\ stack'[1].type = Named(t) /\ stack'[1].next = 1
    BY <1>1, <2>1 DEF Frame
  <2>3. Len(AddsFirst(Named(t))) \in Nat
    BY <1>1, TypeFacts
  <2>4. \A i \in 1 .. Len(stack') : Dealt(i)'
    BY <2>2, <2>3 DEF Dealt
  <2>5. \A i \in 1 .. Len(stack') - 1 : Called(i)'
    BY <2>2
  <2>6. StackInv'
    BY <1>1, <1>2, <1>4, <2>2, <2>4, <2>5 DEF StackInv
  <2> QED
    BY <1>2, <2>2, <2>6, OrderKept DEF IInv, TypeOK
<1> QED
  BY <1>3, <1>4

\* What the call on top is about to deal with.
LEMMA TopFacts ==
  ASSUME IInv, stack # << >>
  PROVE  /\ Len(stack) \in Nat \ {0}
         /\ Len(stack) \in 1 .. Len(stack)
         /\ Top = stack[Len(stack)]
         /\ Top \in Frame
         /\ Top.type \in CvType
         /\ Top.type \notin m_TypesAdded
         /\ Len(AddsFirst(Top.type)) \in Nat
         /\ Top.next \in 1 .. Len(AddsFirst(Top.type)) + 1
         /\ \A k \in 1 .. Top.next - 1 : Named(AddsFirst(Top.type)[k]) \in m_TypesAdded
<1>1. /\ stack \in Seq(Frame) /\ Len(stack) \in Nat \ {0}
      /\ Len(stack) \in 1 .. Len(stack) /\ Top \in Frame
  BY DEF IInv, TypeOK, Top
<1>2. Top.type \in CvType /\ Len(AddsFirst(Top.type)) \in Nat
  BY <1>1, TypeFacts DEF Frame
<1>3. Dealt(Len(stack)) /\ Top.type \notin m_TypesAdded
  BY <1>1 DEF IInv, StackInv, Top
<1> QED
  BY <1>1, <1>2, <1>3 DEF Dealt, Top

\* An inner type that is added already is dealt with at once; another one gets a
\* call of its own.
LEMMA IInvAddInner ==
  ASSUME IInv, AddInner
  PROVE  IInv'
<1>n. PICK n \in Nat : n = Len(stack)
  BY DEF IInv, TypeOK
<1> DEFINE c == AddsFirst(Top.type)[Top.next]
           advanced == Advanced(stack)
<1>1. /\ stack # << >> /\ stack \in Seq(Frame)
      /\ Top.next <= Len(AddsFirst(Top.type))
      /\ stack' = Call(advanced, c)
      /\ m_TypesAdded' = m_TypesAdded /\ m_TypeOrdering' = m_TypeOrdering /\ asked' = asked
  BY DEF AddInner, Advanced, IInv, TypeOK
<1>2. /\ n \in Nat \ {0} /\ n \in 1 .. n /\ Top = stack[n]
      /\ Top \in Frame /\ Top.type \in CvType
      /\ Len(AddsFirst(Top.type)) \in Nat
      /\ Top.next \in 1 .. Len(AddsFirst(Top.type)) + 1
      /\ \A k \in 1 .. Top.next - 1 : Named(AddsFirst(Top.type)[k]) \in m_TypesAdded
  BY <1>n, <1>1, TopFacts
<1>3. /\ advanced \in Seq(Frame)
      /\ Len(advanced) = n
      /\ \A i \in 1 .. n : advanced[i].type = stack[i].type
      /\ \A i \in 1 .. n - 1 : advanced[i] = stack[i]
      /\ advanced[n].next = Top.next + 1
  BY <1>n, <1>1, <1>2, AdvanceFacts
<1>4. /\ c \in CvType
      /\ Named(c) \in CvType /\ Named(Named(c)) = Named(c)
      /\ Len(AddsFirst(Named(c))) \in Nat
  <2>1. Top.next \in 1 .. Len(AddsFirst(Top.type))
    BY <1>1, <1>2
  <2>2. c \in CvType
    BY <1>2, <2>1, TypeFacts
  <2> QED
    BY <2>2, TypeFacts
<1>5. \A i \in 1 .. n - 1 : Called(i) /\ i \in 1 .. n /\ i + 1 \in 1 .. n
  BY <1>n, <1>2 DEF IInv, StackInv
<1>6. CASE Named(c) \in m_TypesAdded
  <2>1. stack' = advanced
    BY <1>1, <1>6 DEF Call
  <2>2. \A i \in 1 .. n - 1 : Dealt(i)'
    <3> SUFFICES ASSUME NEW i \in 1 .. n - 1 PROVE Dealt(i)'
      OBVIOUS
    <3>1. Dealt(i) /\ i \in 1 .. n /\ i + 1 \in 1 .. n
      BY <1>n, <1>2 DEF IInv, StackInv
    <3>2. stack'[i] = stack[i] /\ stack'[i + 1].type = stack[i + 1].type /\ Len(stack') = n
      BY <2>1, <1>3, <3>1
    <3> QED
      BY <3>1, <3>2, <1>1, <1>n DEF Dealt
  <2>3. Dealt(n)'
    <3>1. /\ stack'[n].type = Top.type /\ stack'[n].next = Top.next + 1
          /\ Len(stack') = n
      BY <2>1, <1>2, <1>3
    <3>2. stack'[n].next \in 1 .. Len(AddsFirst(Top.type)) + 1
      BY <3>1, <1>1, <1>2
    <3>3. \A k \in 1 .. Top.next : Named(AddsFirst(Top.type)[k]) \in m_TypesAdded
      BY <1>2, <1>6
    <3>4. stack'[n].next - 1 = Top.next
      BY <3>1, <1>2
    <3> QED
      BY <3>1, <3>2, <3>3, <3>4, <1>1, <1>n DEF Dealt
  <2>4. \A i \in 1 .. Len(stack') : Dealt(i)'
    BY <2>1, <2>2, <2>3, <1>2, <1>3
  <2>5. Len(stack') = n /\ stack' \in Seq(Frame)
        /\ \A i \in 1 .. n : stack'[i].type = stack[i].type
    BY <2>1, <1>3
  <2>6. \A i \in 1 .. n - 1 : Called(i)'
    BY <2>1, <1>3, <1>5 DEF Called
  <2>7. StackInv'
    <3>1. \A i \in 1 .. n : Named(stack[i].type) = stack[i].type
                           /\ stack[i].type \notin m_TypesAdded
      BY <1>n DEF IInv, StackInv
    <3> QED
      BY <3>1, <1>1, <2>4, <2>5, <2>6 DEF StackInv
  <2> QED
    BY <1>1, <2>5, <2>7, OrderKept DEF IInv, TypeOK
<1>7. CASE Named(c) \notin m_TypesAdded
  <2> DEFINE f == [type |-> Named(c), next |-> 1]
  <2>1. stack' = Append(advanced, f) /\ f \in Frame
    BY <1>1, <1>4, <1>7 DEF Call, Frame
  <2>2. /\ stack' \in Seq(Frame) /\ Len(stack') = n + 1
        /\ \A i \in 1 .. n : stack'[i] = advanced[i]
        /\ stack'[n + 1] = f
    <3> HIDE DEF f, advanced
    <3> QED
      BY <2>1, <1>3, AppendFacts
  <2>3. /\ \A i \in 1 .. n : stack'[i].type = stack[i].type
        /\ stack'[n + 1].type = Named(c) /\ stack'[n + 1].next = 1
    <3> HIDE DEF advanced, c
    <3> QED
      BY <2>2, <1>3
  <2>4. \A i \in 1 .. n - 1 : Dealt(i)'
    <3> SUFFICES ASSUME NEW i \in 1 .. n - 1 PROVE Dealt(i)'
      OBVIOUS
    <3>1. Dealt(i) /\ i \in 1 .. n /\ i + 1 \in 1 .. n
      BY <1>n, <1>2 DEF IInv, StackInv
    <3>2. /\ stack'[i] = stack[i] /\ stack'[i + 1].type = stack[i + 1].type
          /\ Len(stack') = n + 1
      BY <2>2, <2>3, <1>3, <3>1
    <3> QED
      BY <3>1, <3>2, <1>1, <1>2, <1>n DEF Dealt
  <2>5. Dealt(n)'
    <3>1. stack'[n].type = Top.type /\ stack'[n].next = Top.next + 1
      BY <2>2, <2>3, <1>2, <1>3
    <3>2. stack'[n].next \in 1 .. Len(AddsFirst(Top.type)) + 1
      BY <3>1, <1>1, <1>2
    <3>3. \A k \in 1 .. Top.next :
            \/ Named(AddsFirst(Top.type)[k]) \in m_TypesAdded
            \/ k = Top.next /\ stack'[n + 1].type = Named(AddsFirst(Top.type)[k])
      BY <1>2, <2>3
    <3>4. stack'[n].next - 1 = Top.next /\ n < Len(stack')
      BY <3>1, <1>2, <2>2
    <3> HIDE DEF c, f, advanced
    <3> QED
      BY <3>1, <3>2, <3>3, <3>4, <1>1, <1>n DEF Dealt
  <2>6. Dealt(n + 1)'
    <3> HIDE DEF c, f, advanced
    <3> QED
      BY <2>3, <1>4 DEF Dealt
  <2>7. \A i \in 1 .. Len(stack') : Dealt(i)'
    <3> HIDE DEF c, f, advanced
    <3>1. \A i \in 1 .. Len(stack') : i \in 1 .. n - 1 \/ i = n \/ i = n + 1
      BY <2>2, <1>2
    <3> QED
      BY <3>1, <2>4, <2>5, <2>6
  <2>8. \A i \in 1 .. Len(stack') - 1 : Called(i)'
    <3> HIDE DEF c, f, advanced
    <3>1. \A i \in 1 .. Len(stack') - 1 : i \in 1 .. n - 1 \/ i = n
      BY <2>2, <1>2
    <3>2. ASSUME NEW i \in 1 .. n - 1 PROVE Called(i)'
      <4>1. stack'[i] = stack[i] /\ stack'[i + 1].type = stack[i + 1].type
        BY <2>2, <2>3, <1>3, <1>5
      <4> QED
        BY <4>1, <1>5 DEF Called
    <3>3. Called(n)'
      <4>1. stack'[n].type = Top.type /\ stack'[n].next = Top.next + 1
        BY <2>2, <2>3, <1>2, <1>3
      <4>2. stack'[n].next - 1 = Top.next /\ stack'[n].next > 1
        BY <4>1, <1>2
      <4> QED
        BY <4>1, <4>2, <2>3 DEF Called, c
    <3> QED
      BY <3>1, <3>2, <3>3
  <2>9. \A i \in 1 .. Len(stack') :
          stack'[i].type \notin m_TypesAdded /\ Named(stack'[i].type) = stack'[i].type
    <3> HIDE DEF c, f, advanced
    <3>1. \A i \in 1 .. n :
            stack[i].type \notin m_TypesAdded /\ Named(stack[i].type) = stack[i].type
      BY <1>n DEF IInv, StackInv
    <3>2. \A i \in 1 .. Len(stack') : i \in 1 .. n \/ i = n + 1
      BY <2>2, <1>2
    <3> QED
      BY <3>1, <3>2, <2>3, <1>4, <1>7
  <2>10. StackInv'
    BY <1>1, <2>7, <2>8, <2>9 DEF StackInv
  <2> QED
    BY <1>1, <2>2, <2>10, OrderKept DEF IInv, TypeOK
<1> QED
  BY <1>6, <1>7

\* The type on top is added when all that its initialization reads is added.
LEMMA IInvAddSelf ==
  ASSUME IInv, AddSelf
  PROVE  IInv'
<1> DEFINE self == Top.type
<1>n. PICK n \in Nat : n = Len(stack)
  BY DEF IInv, TypeOK
<1>m. PICK m \in Nat : m = Len(m_TypeOrdering)
  BY DEF IInv, TypeOK
<1>1. /\ stack # << >> /\ stack \in Seq(Frame)
      /\ m_TypesAdded \subseteq CvType /\ m_TypeOrdering \in Seq(CvType)
      /\ Top.next > Len(AddsFirst(self))
      /\ m_TypesAdded' = m_TypesAdded \cup {self}
      /\ m_TypeOrdering' = Append(m_TypeOrdering, self)
      /\ stack' = SubSeq(stack, 1, Len(stack) - 1)
      /\ asked' = asked /\ asked \subseteq CvType
  BY DEF AddSelf, IInv, TypeOK
<1>2. /\ n \in Nat \ {0} /\ n \in 1 .. n /\ Top = stack[n]
      /\ self \in CvType /\ self \notin m_TypesAdded
      /\ Len(AddsFirst(self)) \in Nat
      /\ \A k \in 1 .. Len(AddsFirst(self)) : Named(AddsFirst(self)[k]) \in m_TypesAdded
  <2>1. Top.next \in 1 .. Len(AddsFirst(self)) + 1 /\ Len(AddsFirst(self)) \in Nat
    BY <1>1, TopFacts
  <2>2. Top.next - 1 = Len(AddsFirst(self))
    BY <2>1, <1>1
  <2> QED
    BY <2>1, <2>2, <1>n, <1>1, TopFacts
<1>3. /\ stack' \in Seq(Frame) /\ Len(stack') = n - 1
      /\ \A i \in 1 .. n - 1 : stack'[i] = stack[i]
  BY <1>n, <1>1, FrontFacts
<1>4. /\ m_TypeOrdering' \in Seq(CvType) /\ Len(m_TypeOrdering') = m + 1
      /\ \A i \in 1 .. m : m_TypeOrdering'[i] = m_TypeOrdering[i]
      /\ m_TypeOrdering'[m + 1] = self
      /\ Range(m_TypeOrdering') = Range(m_TypeOrdering) \cup {self}
  <2> HIDE DEF self
  <2> QED
    BY <1>m, <1>1, <1>2, AppendFacts
<1>5. /\ m_TypesAdded = Range(m_TypeOrdering)
      /\ \A i \in 1 .. m : m_TypeOrdering[i] \in m_TypesAdded
      /\ \A t \in m_TypesAdded : \E i \in 1 .. m : m_TypeOrdering[i] = t
  <2>1. m_TypesAdded = Range(m_TypeOrdering)
    BY DEF IInv, OrderInv
  <2> QED
    BY <2>1, <1>m, <1>1, RangeFacts
<1>6. Named(self) = self /\ \A t \in m_TypesAdded : Named(t) = t
  BY <1>n, <1>2 DEF IInv, OrderInv, StackInv
<1>7. TypeOK'
  BY <1>1, <1>2, <1>3, <1>4 DEF TypeOK
<1>8. InitializedBeforeRead'
  <2> SUFFICES ASSUME NEW i \in 1 .. m + 1, NEW t \in Reads(m_TypeOrdering'[i])
               PROVE  \E j \in 1 .. i - 1 : m_TypeOrdering'[j] = Named(t)
    BY <1>4 DEF InitializedBeforeRead
  <2>1. CASE i \in 1 .. m
    <3>1. t \in Reads(m_TypeOrdering[i])
      BY <2>1, <1>4
    <3>2. PICK j \in 1 .. i - 1 : m_TypeOrdering[j] = Named(t)
      BY <2>1, <3>1, <1>m DEF IInv, OrderInv, InitializedBeforeRead
    <3>3. m_TypeOrdering'[j] = m_TypeOrdering[j]
      BY <2>1, <3>2, <1>4
    <3> QED
      BY <3>2, <3>3
  <2>2. CASE i = m + 1
    <3>1. t \in Reads(self)
      BY <2>2, <1>4
    <3>2. AddsFirst(self) \in Seq(CvType) /\ t \in Range(AddsFirst(self))
      BY <3>1, <1>2, TypeFacts
    <3>3. PICK k \in 1 .. Len(AddsFirst(self)) : AddsFirst(self)[k] = t
      BY <3>2, RangeFacts
    <3>4. Named(t) \in m_TypesAdded
      BY <3>3, <1>2
    <3>5. PICK j \in 1 .. m : m_TypeOrdering[j] = Named(t)
      BY <3>4, <1>5
    <3> QED
      BY <2>2, <3>5, <1>4
  <2> QED
    BY <2>1, <2>2
<1>9. WrittenOnce'
  <2> SUFFICES ASSUME NEW i \in 1 .. m + 1, NEW j \in 1 .. m + 1, i # j
               PROVE  Named(m_TypeOrdering'[i]) # Named(m_TypeOrdering'[j])
    BY <1>4 DEF WrittenOnce
  <2>1. \A k \in 1 .. m : /\ m_TypeOrdering'[k] = m_TypeOrdering[k]
                          /\ Named(m_TypeOrdering'[k]) = m_TypeOrdering[k]
                          /\ m_TypeOrdering[k] # self
    BY <1>2, <1>4, <1>5, <1>6
  <2>2. CASE i \in 1 .. m /\ j \in 1 .. m
    BY <2>2, <1>4, <1>m DEF IInv, OrderInv, WrittenOnce
  <2>3. CASE i = m + 1 /\ j \in 1 .. m
    BY <2>3, <2>1, <1>4, <1>6
  <2>4. CASE j = m + 1 /\ i \in 1 .. m
    BY <2>4, <2>1, <1>4, <1>6
  <2> QED
    BY <2>2, <2>3, <2>4
<1>10. OrderInv'
  BY <1>1, <1>4, <1>5, <1>6, <1>8, <1>9 DEF OrderInv
<1>11. \A i \in 1 .. n - 1 : Called(i) /\ Dealt(i) /\ stack[i + 1].type \notin m_TypesAdded
  <2>1. \A i \in 1 .. n - 1 : i \in 1 .. n /\ i + 1 \in 1 .. n
    BY <1>2
  <2> QED
    BY <2>1, <1>n DEF IInv, StackInv
<1>12. \A i \in 1 .. n - 1 : stack[i].type # self
  <2> SUFFICES ASSUME NEW i \in 1 .. n - 1, stack[i].type = self PROVE FALSE
    OBVIOUS
  <2> DEFINE k == stack[i].next - 1
  <2>1. /\ stack[i].next \in 1 .. Len(AddsFirst(self)) + 1 /\ stack[i].next > 1
        /\ stack[i + 1].type = Named(AddsFirst(self)[k])
    BY <1>11 DEF Dealt, Called
  <2>2. k \in 1 .. Len(AddsFirst(self))
    BY <2>1, <1>2
  <2> HIDE DEF k
  <2> QED
    BY <2>1, <2>2, <1>2, <1>11
<1>13. ASSUME NEW i \in 1 .. n - 1 PROVE Dealt(i)'
  <2>1. Dealt(i) /\ i \in 1 .. n /\ i + 1 \in 1 .. n
    BY <1>n, <1>2 DEF IInv, StackInv
  <2>2. stack'[i] = stack[i] /\ Len(stack') = n - 1
    BY <1>3
  <2>3. CASE i < n - 1
    <3>1. stack'[i + 1] = stack[i + 1]
      BY <2>3, <1>2, <1>3
    <3> QED
      BY <2>1, <2>2, <2>3, <3>1, <1>1, <1>n DEF Dealt
  <2>4. CASE i = n - 1
    <3>1. stack[i + 1].type = self
      BY <2>4, <1>2
    <3>2. \A k \in 1 .. stack[i].next - 1 :
            Named(AddsFirst(stack[i].type)[k]) \in m_TypesAdded'
      BY <2>1, <3>1, <1>1 DEF Dealt
    <3> QED
      BY <2>1, <2>2, <3>2 DEF Dealt
  <2> QED
    BY <2>3, <2>4
<1>14. \A i \in 1 .. n - 1 : Named(stack'[i].type) = stack'[i].type
                             /\ stack'[i].type \notin m_TypesAdded'
  BY <1>n, <1>1, <1>3, <1>12 DEF IInv, StackInv
<1>15. \A i \in 1 .. (n - 1) - 1 : Called(i)'
  <2>1. \A i \in 1 .. (n - 1) - 1 : i \in 1 .. n - 1 /\ i + 1 \in 1 .. n - 1
    BY <1>2
  <2> QED
    BY <2>1, <1>3, <1>11 DEF Called
<1>16. StackInv'
  BY <1>3, <1>13, <1>14, <1>15 DEF StackInv
<1> QED
  BY <1>7, <1>10, <1>16 DEF IInv

LEMMA IInvNext == IInv /\ [Next]_vars => IInv'
<1> SUFFICES ASSUME IInv, [Next]_vars PROVE IInv'
  OBVIOUS
<1>1. ASSUME NEW t \in CvType, Add(t) PROVE IInv'
  BY <1>1, IInvAdd
<1>2. CASE AddInner
  BY <1>2, IInvAddInner
<1>3. CASE AddSelf
  BY <1>3, IInvAddSelf
<1>4. CASE UNCHANGED vars
  <2>1. OrderInv'
    BY <1>4, OrderKept DEF vars, IInv
  <2>2. StackInv'
    BY <1>4 DEF vars, IInv, StackInv, Dealt, Called
  <2> QED
    BY <1>4, <2>1, <2>2 DEF vars, IInv, TypeOK
<1> QED
  BY <1>1, <1>2, <1>3, <1>4 DEF Next

\* For all types, also those made of themselves, IInv is an invariant: no type is
\* added while the recursion is on its way back to it.
THEOREM AddRecursion == Spec => []IInv
<1>1. Init => IInv
  BY IInvInit
<1>2. IInv /\ [Next]_vars => IInv'
  BY IInvNext
<1> QED
  BY <1>1, <1>2, PTL DEF Spec

\* The state of the writer is well formed.
THEOREM TypeCorrect == Spec => []TypeOK
<1>1. IInv => TypeOK
  BY DEF IInv
<1> QED
  BY <1>1, AddRecursion, PTL

\* No initialization that WriteInitializations writes reads a type that is
\* initialized later or not at all.
THEOREM InitializationOrder == Spec => []InitializedBeforeRead
<1>1. IInv => InitializedBeforeRead
  BY DEF IInv, OrderInv
<1> QED
  BY <1>1, AddRecursion, PTL

\* No CvType<...> is specialized twice, also where MSVC takes two types for one.
THEOREM SpecializedOnce == Spec => []WrittenOnce
<1>1. IInv => WrittenOnce
  BY DEF IInv, OrderInv
<1> QED
  BY <1>1, AddRecursion, PTL

-----------------------------------------------------------------------------
(***************************************************************************)
(* The refinement: needed is the set of types that are added or that a     *)
(* call of Add in progress is for.                                         *)
(***************************************************************************)
LEMMA OrderInit == Init => Order!Init
  BY DEF Init, InProgress, Order!Init

\* A request to a writer at rest.
LEMMA AddIsAsk ==
  ASSUME IInv, NEW t \in CvType, Add(t)
  PROVE  Order!Ask(Named(t))
<1>1. stack = << >> /\ m_TypesAdded' = m_TypesAdded /\ m_TypeOrdering' = m_TypeOrdering
  BY DEF Add
<1>2. InProgress = {}
  BY <1>1 DEF InProgress
<1>3. m_TypesAdded = Range(m_TypeOrdering)
  BY DEF IInv, OrderInv
<1>4. m_TypesAdded' \cup InProgress' = m_TypesAdded \cup {Named(t)}
  <2>1. CASE Named(t) \in m_TypesAdded
    BY <2>1, <1>1 DEF Add, Call, InProgress
  <2>2. CASE Named(t) \notin m_TypesAdded
    <3>1. stack' = << [type |-> Named(t), next |-> 1] >>
      BY <2>2, <1>1 DEF Add, Call
    <3>2. Len(stack') = 1 /\ stack'[1].type = Named(t)
      BY <3>1
    <3>3. InProgress' = {Named(t)}
      BY <3>2 DEF InProgress
    <3> QED
      BY <3>3, <1>1
  <2> QED
    BY <2>1, <2>2
<1> QED
  BY <1>1, <1>2, <1>3, <1>4 DEF Order!Ask, Order!Written, Order!Range, Range

\* Recursion makes a part needed or changes nothing that the abstract order sees.
LEMMA AddInnerIsRequire ==
  ASSUME IInv, AddInner
  PROVE  \/ \E t \in CvType : Order!Require(t)
         \/ UNCHANGED Order!vars
<1> DEFINE c == AddsFirst(Top.type)[Top.next]
<1>n. PICK n \in Nat : n = Len(stack)
  BY DEF IInv, TypeOK
<1>1. /\ stack # << >> /\ stack \in Seq(Frame)
      /\ Top.next <= Len(AddsFirst(Top.type))
      /\ stack' = Call(Advanced(stack), c)
      /\ m_TypesAdded' = m_TypesAdded /\ m_TypeOrdering' = m_TypeOrdering
  BY DEF AddInner, Advanced, IInv, TypeOK
<1>2. /\ n \in 1 .. n /\ Top = stack[n] /\ Top.type \in CvType
      /\ Top.next \in 1 .. Len(AddsFirst(Top.type))
  BY <1>n, <1>1, TopFacts
<1>3. /\ Advanced(stack) \in Seq(Frame) /\ Len(Advanced(stack)) = n
      /\ \A i \in 1 .. n : Advanced(stack)[i].type = stack[i].type
  BY <1>n, <1>1, AdvanceFacts
<1>4. Named(c) \in CvType /\ Named(c) \in PartsNamed[Top.type]
  <2>1. AddsFirst(Top.type) \in Seq(CvType) /\ c \in CvType
    BY <1>2, TypeFacts
  <2>2. c \in Range(AddsFirst(Top.type))
    BY <2>1, <1>2, RangeFacts
  <2> QED
    BY <2>1, <2>2, <1>2, TypeFacts DEF PartsNamed
<1>5. CASE Named(c) \in m_TypesAdded
  <2>1. stack' = Advanced(stack)
    BY <1>1, <1>5 DEF Call
  <2>2. InProgress' = InProgress
    BY <2>1, <1>n, <1>3 DEF InProgress
  <2> QED
    BY <2>2, <1>1 DEF Order!vars
<1>6. CASE Named(c) \notin m_TypesAdded
  <2> DEFINE f == [type |-> Named(c), next |-> 1]
  <2>1. stack' = Append(Advanced(stack), f) /\ f \in Frame /\ f.type = Named(c)
    BY <1>1, <1>4, <1>6 DEF Call, Frame
  <2>2. /\ Len(stack') = n + 1
        /\ \A i \in 1 .. n : stack'[i] = Advanced(stack)[i]
        /\ stack'[n + 1] = f
    <3> HIDE DEF f, c
    <3> QED
      BY <2>1, <1>3, AppendFacts
  <2>3. InProgress' = InProgress \cup {Named(c)}
    <3> HIDE DEF f, c
    <3>1. \A i \in 1 .. n : stack'[i].type = stack[i].type
      BY <2>2, <1>3
    <3>2. stack'[n + 1].type = Named(c)
      BY <2>1, <2>2
    <3>3. InProgress' = {stack'[i].type : i \in 1 .. n + 1}
      BY <2>2 DEF InProgress
    <3>4. InProgress = {stack[i].type : i \in 1 .. n}
      BY <1>n DEF InProgress
    <3> QED
      BY <3>1, <3>2, <3>3, <3>4
  <2>4. Top.type \in InProgress
    BY <1>n, <1>2 DEF InProgress
  <2>5. Order!Require(Named(c))
    <3> HIDE DEF f, c
    <3> QED
      BY <2>3, <2>4, <1>1, <1>4 DEF Order!Require
  <2> HIDE DEF c
  <2> QED
    BY <2>5, <1>4
<1> QED
  BY <1>5, <1>6

\* A call that returns writes its type.
LEMMA AddSelfIsWrite ==
  ASSUME IInv, AddSelf
  PROVE  Order!Write(Top.type)
<1> DEFINE self == Top.type
<1>n. PICK n \in Nat : n = Len(stack)
  BY DEF IInv, TypeOK
<1>1. /\ stack # << >> /\ stack \in Seq(Frame)
      /\ Top.next > Len(AddsFirst(self))
      /\ m_TypesAdded' = m_TypesAdded \cup {self}
      /\ m_TypeOrdering' = Append(m_TypeOrdering, self)
      /\ stack' = SubSeq(stack, 1, Len(stack) - 1)
  BY DEF AddSelf, IInv, TypeOK
<1>2. /\ n \in Nat \ {0} /\ Top = stack[n] /\ self \in CvType /\ self \notin m_TypesAdded
      /\ Top.next \in 1 .. Len(AddsFirst(self)) + 1
      /\ Len(AddsFirst(self)) \in Nat
      /\ \A k \in 1 .. Top.next - 1 : Named(AddsFirst(self)[k]) \in m_TypesAdded
  BY <1>n, <1>1, TopFacts
<1>3. Len(stack') = n - 1 /\ \A i \in 1 .. n - 1 : stack'[i] = stack[i]
  BY <1>n, <1>1, FrontFacts
<1>4. m_TypesAdded = Range(m_TypeOrdering)
  BY DEF IInv, OrderInv
<1>5. InProgress = InProgress' \cup {self}
  <2>1. InProgress = {stack[i].type : i \in 1 .. n}
    BY <1>n DEF InProgress
  <2>2. InProgress' = {stack'[i].type : i \in 1 .. n - 1}
    BY <1>3 DEF InProgress
  <2>3. \A i \in 1 .. n : i = n \/ i \in 1 .. n - 1
    BY <1>2
  <2> QED
    BY SMTT(30), <2>1, <2>2, <2>3, <1>2, <1>3
<1>6. PartsNamed[self] \subseteq m_TypesAdded
  <2>1. AddsFirst(self) \in Seq(CvType)
    BY <1>2, TypeFacts
  <2>2. \A t \in Range(AddsFirst(self)) : Named(t) \in m_TypesAdded
    <3> SUFFICES ASSUME NEW t \in Range(AddsFirst(self)) PROVE Named(t) \in m_TypesAdded
      OBVIOUS
    <3>1. PICK k \in 1 .. Len(AddsFirst(self)) : AddsFirst(self)[k] = t
      BY <2>1, RangeFacts
    <3>2. k \in 1 .. Top.next - 1
      BY <1>1, <1>2
    <3> QED
      BY <3>1, <3>2, <1>2
  <2> QED
    BY <2>2, <1>2 DEF PartsNamed
<1> QED
  BY <1>1, <1>2, <1>4, <1>5, <1>6 DEF Order!Write, Order!Written, Order!Range, Range

LEMMA OrderNext == IInv /\ [Next]_vars => [Order!Next]_(Order!vars)
<1> SUFFICES ASSUME IInv, [Next]_vars PROVE [Order!Next]_(Order!vars)
  OBVIOUS
<1>1. ASSUME NEW t \in CvType, Add(t) PROVE Order!Next
  <2>1. Named(t) \in CvType
    BY TypeFacts
  <2> QED
    BY <1>1, <2>1, AddIsAsk DEF Order!Next
<1>2. CASE AddInner
  BY <1>2, AddInnerIsRequire DEF Order!Next
<1>3. CASE AddSelf
  <2>1. Top.type \in CvType
    BY <1>3, TopFacts DEF AddSelf
  <2> QED
    BY <1>3, <2>1, AddSelfIsWrite DEF Order!Next
<1>4. CASE UNCHANGED vars
  BY <1>4 DEF vars, InProgress, Order!vars
<1> QED
  BY <1>1, <1>2, <1>3, <1>4 DEF Next

\* For all types, CvTypeWriter implements the abstract order.
THEOREM ImplementsTypeOrder == Spec => RefinesTypeOrder
<1>1. Init => Order!Init
  BY OrderInit
<1>2. IInv /\ [Next]_vars => [Order!Next]_(Order!vars)
  BY OrderNext
<1> QED
  BY <1>1, <1>2, AddRecursion, PTL DEF Spec, RefinesTypeOrder, Order!Spec

-----------------------------------------------------------------------------
(***************************************************************************)
(* The recursion ends for types that are not made of themselves.  That a   *)
(* call of Add returns is a liveness property; the part of it that is      *)
(* about the code, and not about its scheduling, is that no step of Add    *)
(* can be repeated for ever, but for types that cannot be written.         *)
(***************************************************************************)
\* The types that no call has been made for.
Unmet == CvType \ (m_TypesAdded \cup InProgress)

\* How many steps the call on top has left.
StepsLeft == Len(AddsFirst(Top.type)) + 1 - Top.next

\* Each step of Add either starts a call for a type that had none, or returns, or
\* has the call on top of the same calls one inner type nearer to its end.
Descends ==
  \/ Unmet' \subseteq Unmet /\ Unmet' # Unmet
  \/ Unmet' = Unmet /\ Len(stack') \in Nat /\ Len(stack') < Len(stack)
  \/ /\ Unmet' = Unmet /\ Len(stack') = Len(stack)
     /\ StepsLeft \in Nat /\ StepsLeft' \in Nat /\ StepsLeft' < StepsLeft

\* Each of these types is made of another one of them, or of itself.
MadeOfThemselves(types) == \A t \in types : PartsNamed[t] \cap types # {}

\* The call on top is for a type that is made of itself in the end.
TopMadeOfItself == \E types \in SUBSET CvType :
                     Top.type \in types /\ MadeOfThemselves(types)

\* No type that is made of itself in the end is ever added.
NeverAdded == \A types \in SUBSET CvType :
                MadeOfThemselves(types) => types \cap m_TypesAdded = {}

\* What the generator added is added, or a call for it is in progress.
AskedMet == \A t \in asked : Named(t) \in m_TypesAdded \cup InProgress

\* When Add has returned, all that the generator added is in the order.
WrittenAtRest ==
  stack = << >> => {Named(t) : t \in asked} \subseteq Range(m_TypeOrdering)

\* A call of Add that comes back to a type in progress has a type on top that is made
\* of itself: the calls from there on are for types each made of the next.
LEMMA ComesBack ==
  ASSUME IInv, stack # << >>, Top.next <= Len(AddsFirst(Top.type)),
         Named(AddsFirst(Top.type)[Top.next]) \in InProgress
  PROVE  TopMadeOfItself
<1> DEFINE c == AddsFirst(Top.type)[Top.next]
<1>n. PICK n \in Nat : n = Len(stack)
  BY DEF IInv, TypeOK
<1>1. /\ n \in Nat \ {0} /\ Top = stack[n] /\ Top.type \in CvType
      /\ Top.next \in 1 .. Len(AddsFirst(Top.type))
  BY <1>n, TopFacts
<1>2. \A k \in 1 .. n : stack[k].type \in CvType /\ Dealt(k)
  <2>1. \A k \in 1 .. n : stack[k] \in Frame
    BY <1>n DEF IInv, TypeOK
  <2> QED
    BY <2>1, <1>n DEF Frame, IInv, StackInv
<1>3. PICK i \in 1 .. n : stack[i].type = Named(c)
  BY <1>n DEF InProgress
<1> DEFINE types == {stack[k].type : k \in i .. n}
<1>4. types \in SUBSET CvType /\ Top.type \in types
  <2>1. \A k \in i .. n : k \in 1 .. n
    BY <1>3
  <2>2. n \in i .. n
    BY <1>3, <1>1
  <2> QED
    BY <2>1, <2>2, <1>1, <1>2
<1>5. ASSUME NEW t \in CvType, NEW k \in 1 .. Len(AddsFirst(t))
      PROVE  Named(AddsFirst(t)[k]) \in PartsNamed[t]
  BY <1>5, TypeFacts, RangeFacts DEF PartsNamed
<1>6. ASSUME NEW k \in i .. n PROVE PartsNamed[stack[k].type] \cap types # {}
  <2>1. CASE k = n
    <3>1. Named(c) \in PartsNamed[Top.type]
      BY <1>1, <1>5
    <3>2. i \in i .. n
      BY <1>3
    <3> HIDE DEF c
    <3> QED
      BY <2>1, <3>1, <3>2, <1>1, <1>3
  <2>2. CASE k # n
    <3>1. k \in 1 .. n - 1 /\ k \in 1 .. n /\ k + 1 \in i .. n
      BY <2>2, <1>3
    <3>2. Called(k) /\ Dealt(k) /\ stack[k].type \in CvType
      BY <3>1, <1>2, <1>n DEF IInv, StackInv
    <3> DEFINE p == stack[k].next - 1
    <3>3. /\ stack[k].next \in 1 .. Len(AddsFirst(stack[k].type)) + 1 /\ stack[k].next > 1
          /\ stack[k + 1].type = Named(AddsFirst(stack[k].type)[p])
      BY <3>2 DEF Called, Dealt
    <3>4. p \in 1 .. Len(AddsFirst(stack[k].type))
      BY <3>2, <3>3, TypeFacts
    <3> HIDE DEF p
    <3>5. stack[k + 1].type \in PartsNamed[stack[k].type]
      BY <3>2, <3>3, <3>4, <1>5
    <3> QED
      BY <3>1, <3>5
  <2> QED
    BY <2>1, <2>2
<1>7. MadeOfThemselves(types)
  BY <1>6 DEF MadeOfThemselves
<1> HIDE DEF types
<1> QED
  BY <1>4, <1>7 DEF TopMadeOfItself

LEMMA AddInnerDescends ==
  ASSUME IInv, AddInner
  PROVE  Descends \/ TopMadeOfItself
<1> DEFINE c == AddsFirst(Top.type)[Top.next]
<1>n. PICK n \in Nat : n = Len(stack)
  BY DEF IInv, TypeOK
<1>1. /\ stack # << >> /\ stack \in Seq(Frame)
      /\ Top.next <= Len(AddsFirst(Top.type))
      /\ stack' = Call(Advanced(stack), c)
      /\ m_TypesAdded' = m_TypesAdded
  BY DEF AddInner, Advanced, IInv, TypeOK
<1>2. /\ n \in Nat \ {0} /\ n \in 1 .. n /\ Top = stack[n] /\ Top.type \in CvType
      /\ Top.next \in 1 .. Len(AddsFirst(Top.type))
      /\ Len(AddsFirst(Top.type)) \in Nat
  BY <1>n, <1>1, TopFacts
<1>3. /\ Advanced(stack) \in Seq(Frame) /\ Len(Advanced(stack)) = n
      /\ \A i \in 1 .. n : Advanced(stack)[i].type = stack[i].type
      /\ Advanced(stack)[n].next = Top.next + 1
  BY <1>n, <1>1, <1>2, AdvanceFacts
<1>4. c \in CvType /\ Named(c) \in CvType
  <2>1. c \in CvType
    BY <1>2, TypeFacts
  <2> QED
    BY <2>1, TypeFacts
<1>5. CASE Named(c) \in m_TypesAdded
  <2>1. stack' = Advanced(stack)
    BY <1>1, <1>5 DEF Call
  <2>2. Len(stack') = n /\ \A i \in 1 .. n : stack'[i].type = stack[i].type
    BY <2>1, <1>3
  <2>3. InProgress' = InProgress
    BY <2>2, <1>n DEF InProgress
  <2>4. Unmet' = Unmet
    BY <2>3, <1>1 DEF Unmet
  <2>5. Top' = Advanced(stack)[n]
    BY <2>1, <1>3 DEF Top
  <2>6. Top'.type = Top.type /\ Top'.next = Top.next + 1
    BY <2>5, <1>2, <1>3
  <2>7. StepsLeft' = Len(AddsFirst(Top.type)) + 1 - (Top.next + 1)
    BY <2>6 DEF StepsLeft, AddsFirst, Inner, PartsOf, KindOf
  <2>8. StepsLeft \in Nat /\ StepsLeft' \in Nat /\ StepsLeft' < StepsLeft
    <3>1. \A a, b \in Nat : b \in 1 .. a =>
            /\ a + 1 - b \in Nat /\ a + 1 - (b + 1) \in Nat
            /\ a + 1 - (b + 1) < a + 1 - b
      OBVIOUS
    <3>2. Top.next \in Nat
      BY <1>2
    <3> QED
      BY <3>1, <3>2, <2>7, <1>2 DEF StepsLeft
  <2> QED
    BY <2>2, <2>4, <2>8, <1>n DEF Descends
<1>6. CASE Named(c) \notin m_TypesAdded /\ Named(c) \in InProgress
  BY <1>1, <1>6, ComesBack
<1>7. CASE Named(c) \notin m_TypesAdded /\ Named(c) \notin InProgress
  <2> DEFINE f == [type |-> Named(c), next |-> 1]
  <2>1. stack' = Append(Advanced(stack), f) /\ f \in Frame /\ f.type = Named(c)
    BY <1>1, <1>4, <1>7 DEF Call, Frame
  <2>2. /\ Len(stack') = n + 1
        /\ \A i \in 1 .. n : stack'[i] = Advanced(stack)[i]
        /\ stack'[n + 1] = f
    <3> HIDE DEF f, c
    <3> QED
      BY <2>1, <1>3, AppendFacts
  <2>3. /\ \A i \in 1 .. n : stack'[i].type = stack[i].type
        /\ stack'[n + 1].type = Named(c)
    BY <2>1, <2>2, <1>3
  <2>4. InProgress \subseteq InProgress' /\ Named(c) \in InProgress'
    <3> HIDE DEF c, f
    <3>1. InProgress = {stack[i].type : i \in 1 .. n}
      BY <1>n DEF InProgress
    <3>2. InProgress' = {stack'[i].type : i \in 1 .. n + 1}
      BY <2>2 DEF InProgress
    <3> QED
      BY <3>1, <3>2, <2>3
  <2>5. Named(c) \in Unmet /\ Named(c) \notin Unmet' /\ Unmet' \subseteq Unmet
    BY <2>4, <1>1, <1>4, <1>7 DEF Unmet
  <2> QED
    BY <2>5 DEF Descends
<1> QED
  BY <1>5, <1>6, <1>7

LEMMA AddSelfDescends ==
  ASSUME IInv, AddSelf
  PROVE  Descends
<1>1. stack # << >> /\ stack \in Seq(Frame) /\ stack' = SubSeq(stack, 1, Len(stack) - 1)
  BY DEF AddSelf, IInv, TypeOK
<1>2. Len(stack) \in Nat \ {0} /\ Len(stack') = Len(stack) - 1
  BY <1>1, FrontFacts
<1>3. m_TypesAdded' \cup InProgress' = m_TypesAdded \cup InProgress
  BY AddSelfIsWrite DEF Order!Write
<1>4. Unmet' = Unmet
  BY <1>3 DEF Unmet
<1> QED
  BY <1>2, <1>4 DEF Descends

\* For all types: no run of Add is infinite when there are finitely many types and
\* none is made of itself, as each step goes down in a well-founded order; a step
\* that does not is one of a call for a type that is made of itself.
THEOREM RecursionDescends ==
  Spec => [][AddInner \/ AddSelf => Descends \/ TopMadeOfItself]_vars
<1>1. IInv /\ [Next]_vars => [AddInner \/ AddSelf => Descends \/ TopMadeOfItself]_vars
  BY AddInnerDescends, AddSelfDescends
<1> QED
  BY <1>1, AddRecursion, PTL DEF Spec

\* What Add returns from is not made of itself: its parts are all added.
LEMMA NeverAddedNext == IInv /\ NeverAdded /\ [Next]_vars => NeverAdded'
<1> SUFFICES ASSUME IInv, NeverAdded, [Next]_vars PROVE NeverAdded'
  OBVIOUS
<1>1. CASE AddSelf
  <2>1. /\ m_TypesAdded' = m_TypesAdded \cup {Top.type}
        /\ m_TypesAdded = Range(m_TypeOrdering)
    BY <1>1 DEF AddSelf, IInv, OrderInv
  <2>2. PartsNamed[Top.type] \subseteq m_TypesAdded
    BY <1>1, <2>1, AddSelfIsWrite DEF Order!Write, Order!Written, Order!Range, Range
  <2>3. ASSUME NEW types \in SUBSET CvType, MadeOfThemselves(types)
        PROVE  types \cap m_TypesAdded' = {}
    <3>1. types \cap m_TypesAdded = {}
      BY <2>3 DEF NeverAdded
    <3>2. Top.type \notin types
      BY <2>2, <2>3, <3>1 DEF MadeOfThemselves
    <3> QED
      BY <2>1, <3>1, <3>2
  <2> QED
    BY <2>3 DEF NeverAdded, MadeOfThemselves
<1>2. CASE ~AddSelf
  <2>1. m_TypesAdded' = m_TypesAdded
    BY <1>2 DEF Next, Add, AddInner, vars
  <2> QED
    BY <2>1 DEF NeverAdded, MadeOfThemselves
<1> QED
  BY <1>1, <1>2

\* The types whose calls RecursionDescends leaves out are those that cannot be
\* written: what is made of itself, like a class among its own ancestors, is never
\* added, however long Add recurses.
THEOREM MadeOfItselfNeverAdded == Spec => []NeverAdded
<1>1. Init => NeverAdded
  BY DEF Init, NeverAdded
<1> QED
  BY <1>1, NeverAddedNext, AddRecursion, PTL DEF Spec

LEMMA AskedMetNext == IInv /\ AskedMet /\ [Next]_vars => AskedMet'
<1> SUFFICES ASSUME IInv, AskedMet, [Next]_vars PROVE AskedMet'
  OBVIOUS
<1>1. ASSUME NEW t \in CvType, Add(t) PROVE AskedMet'
  <2>1. m_TypesAdded' \cup InProgress' = m_TypesAdded \cup InProgress \cup {Named(t)}
    BY <1>1, AddIsAsk DEF Order!Ask
  <2>2. asked' = asked \cup {t}
    BY <1>1 DEF Add
  <2> QED
    BY <2>1, <2>2 DEF AskedMet
<1>2. CASE AddInner
  <2>1. m_TypesAdded \cup InProgress \subseteq m_TypesAdded' \cup InProgress'
    BY <1>2, AddInnerIsRequire DEF Order!Require, Order!vars
  <2>2. asked' = asked
    BY <1>2 DEF AddInner
  <2> QED
    BY <2>1, <2>2 DEF AskedMet
<1>3. CASE AddSelf
  <2>1. m_TypesAdded' \cup InProgress' = m_TypesAdded \cup InProgress
    BY <1>3, AddSelfIsWrite DEF Order!Write
  <2>2. asked' = asked
    BY <1>3 DEF AddSelf
  <2> QED
    BY <2>1, <2>2 DEF AskedMet
<1>4. CASE UNCHANGED vars
  BY <1>4 DEF vars, AskedMet, InProgress
<1> QED
  BY <1>1, <1>2, <1>3, <1>4 DEF Next

\* What EverythingWritten adds to the end of the recursion: whenever the writer is at
\* rest, every type that the generator added is in the order.
THEOREM AllWrittenAtRest == Spec => []WrittenAtRest
<1>1. Init => AskedMet
  BY DEF Init, AskedMet
<1>2. IInv /\ AskedMet => WrittenAtRest
  <2> SUFFICES ASSUME IInv, AskedMet, stack = << >>, NEW t \in asked
               PROVE  Named(t) \in Range(m_TypeOrdering)
    BY DEF WrittenAtRest
  <2>1. InProgress = {}
    BY DEF InProgress
  <2> QED
    BY <2>1 DEF AskedMet, IInv, OrderInv
<1> QED
  BY <1>1, <1>2, AskedMetNext, AddRecursion, PTL DEF Spec
=============================================================================
