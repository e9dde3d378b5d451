---------------------------- MODULE CableSwigProofs ----------------------------
(***************************************************************************)
(* Proofs about CableSwig for every acyclic class hierarchy and every      *)
(* choice of typedefs, groups and uses: SWIG sees each class once, after   *)
(* its bases, in the role the typedefs and index files give it, with the   *)
(* base list the wrapping gaps leave.  What GetAllBaseClasses and          *)
(* FindWrappedBases compute is proved by induction along the hierarchy,    *)
(* what a step does to the sets and the stack by the invariant IInv.       *)
(***************************************************************************)
EXTENDS CableSwig, SequenceTheorems, WellFoundedInduction, TLAPS

-----------------------------------------------------------------------------
(* Numbers and sequences. *)

LEMMA SmallestOf ==
  ASSUME NEW T, T \subseteq Nat, T # {}
  PROVE  \E n \in T : \A m \in T : n <= m
<1>1. \E n \in T : \A m \in T : << m, n >> \notin OpToRel(<, Nat)
  BY NatLessThanWellFounded, WFMin
<1>2. \A m, n \in Nat : m < n => << m, n >> \in OpToRel(<, Nat)
  BY DEF OpToRel
<1>3. \E n \in T : \A m \in T : ~ (m < n)
  BY <1>1, <1>2, Zenon
<1> QED
  BY <1>3

\* Induction, for a set of numbers.
LEMMA NatSetInduction ==
  ASSUME NEW S, 0 \in S, \A n \in Nat : n \in S => n + 1 \in S
  PROVE  Nat \subseteq S
<1> DEFINE T == Nat \ S
<1>1. SUFFICES ASSUME T # {} PROVE FALSE
  OBVIOUS
<1>2. PICK n \in T : \A m \in T : n <= m
  BY <1>1, SmallestOf
<1>3. n # 0 /\ n - 1 \in Nat /\ n - 1 \notin T
  BY <1>2
<1> QED
  BY <1>2, <1>3

LEMMA RangeFacts ==
  ASSUME NEW T, NEW s \in Seq(T)
  PROVE  /\ Range(s) = {s[i] : i \in 1 .. Len(s)}
         /\ Range(s) \subseteq T
         /\ Len(s) \in Nat
         /\ s = << >> => Range(s) = {}
         /\ Len(s) = 0 <=> s = << >>
<1>1. /\ Len(s) \in Nat
      /\ s \in [1 .. Len(s) -> T]
      /\ DOMAIN s = 1 .. Len(s)
  BY LenProperties
<1>2. Range(s) = {s[i] : i \in 1 .. Len(s)}
  BY <1>1 DEF Range
<1>3. Len(s) = 0 <=> s = << >>
  BY EmptySeq
<1> QED
  BY <1>1, <1>2, <1>3

LEMMA ConcatFacts ==
  ASSUME NEW T, NEW s \in Seq(T), NEW r \in Seq(T)
  PROVE  /\ s \o r \in Seq(T)
         /\ Len(s \o r) = Len(s) + Len(r)
         /\ Len(s) \in Nat /\ Len(r) \in Nat
         /\ \A i \in 1 .. Len(s) : i \in 1 .. Len(s \o r) /\ (s \o r)[i] = s[i]
         /\ \A i \in 1 .. Len(r) : Len(s) + i \in 1 .. Len(s \o r) /\ (s \o r)[Len(s) + i] = r[i]
         /\ \A i \in 1 .. Len(s \o r) : i \in 1 .. Len(s) \/ i - Len(s) \in 1 .. Len(r)
         /\ Range(s \o r) = Range(s) \cup Range(r)
<1>1. /\ s \o r \in Seq(T)
      /\ Len(s \o r) = Len(s) + Len(r)
      /\ \A i \in 1 .. Len(s) + Len(r) :
           (s \o r)[i] = IF i <= Len(s) THEN s[i] ELSE r[i - Len(s)]
  BY ConcatProperties
<1>2. Len(s) \in Nat /\ Len(r) \in Nat
  BY LenProperties
<1>3. \A i \in 1 .. Len(s) : i \in 1 .. Len(s \o r) /\ (s \o r)[i] = s[i]
  BY <1>1, <1>2
<1>4. \A i \in 1 .. Len(r) : Len(s) + i \in 1 .. Len(s \o r) /\ (s \o r)[Len(s) + i] = r[i]
  BY <1>1, <1>2
<1>5. \A i \in 1 .. Len(s \o r) : i \in 1 .. Len(s) \/ i - Len(s) \in 1 .. Len(r)
  BY <1>1, <1>2
<1>6. \A i \in 1 .. Len(s \o r) : i - Len(s) \in 1 .. Len(r) => (s \o r)[i] = r[i - Len(s)]
  BY <1>1, <1>2
<1>7. /\ Range(s) = {s[i] : i \in 1 .. Len(s)}
      /\ Range(r) = {r[i] : i \in 1 .. Len(r)}
  BY RangeFacts
<1>8. Range(s \o r) = {(s \o r)[i] : i \in 1 .. Len(s \o r)}
  BY <1>1, RangeFacts
<1>9. Range(s \o r) = Range(s) \cup Range(r)
  <2>1. \A x \in Range(s) : x \in Range(s \o r)
    BY <1>3, <1>7, <1>8
  <2>2. \A x \in Range(r) : x \in Range(s \o r)
    BY <1>4, <1>7, <1>8
  <2>3. \A x \in Range(s \o r) : x \in Range(s) \/ x \in Range(r)
    BY <1>3, <1>5, <1>6, <1>7, <1>8
  <2> QED
    BY <2>1, <2>2, <2>3
<1> QED
  BY <1>1, <1>2, <1>3, <1>4, <1>5, <1>9

LEMMA AppendFacts ==
  ASSUME NEW T, NEW s \in Seq(T), NEW x \in T
  PROVE  /\ Append(s, x) \in Seq(T)
         /\ Len(Append(s, x)) = Len(s) + 1
         /\ Len(s) \in Nat
         /\ \A i \in 1 .. Len(s) : Append(s, x)[i] = s[i]
         /\ Append(s, x)[Len(s) + 1] = x
         /\ Range(Append(s, x)) = Range(s) \cup {x}
<1>1. /\ Append(s, x) \in Seq(T)
      /\ Len(Append(s, x)) = Len(s) + 1
      /\ \A i \in 1 .. Len(s) : Append(s, x)[i] = s[i]
      /\ Append(s, x)[Len(s) + 1] = x
      /\ Len(s) \in Nat
  BY AppendProperties, LenProperties
<1>2. /\ Range(s) = {s[i] : i \in 1 .. Len(s)}
      /\ Range(Append(s, x)) = {Append(s, x)[i] : i \in 1 .. Len(s) + 1}
  <2>1. Range(s) = {s[i] : i \in 1 .. Len(s)}
    BY RangeFacts
  <2>2. Range(Append(s, x)) = {Append(s, x)[i] : i \in 1 .. Len(Append(s, x))}
    BY <1>1, RangeFacts
  <2> QED
    BY <1>1, <2>1, <2>2
<1> QED
  BY <1>1, <1>2

LEMMA TailFacts ==
  ASSUME NEW T, NEW s \in Seq(T), s # << >>
  PROVE  /\ Head(s) \in T
         /\ Head(s) = s[1]
         /\ Tail(s) \in Seq(T)
         /\ Len(s) \in Nat \ {0}
         /\ Len(Tail(s)) = Len(s) - 1
         /\ \A i \in 1 .. Len(Tail(s)) : Tail(s)[i] = s[i + 1]
         /\ Range(s) = {s[1]} \cup Range(Tail(s))
<1>1. /\ Head(s) \in T
      /\ Tail(s) \in Seq(T)
      /\ Len(Tail(s)) = Len(s) - 1
      /\ \A i \in 1 .. Len(Tail(s)) : Tail(s)[i] = s[i + 1]
      /\ Len(s) \in Nat \ {0}
  BY HeadTailProperties, EmptySeq
<1>2. Head(s) = s[1]
  BY <1>1
<1>3. Range(s) = {s[i] : i \in 1 .. Len(s)}
  BY RangeFacts
<1>4. Range(Tail(s)) = {Tail(s)[i] : i \in 1 .. Len(Tail(s))}
  BY <1>1, RangeFacts
<1>5. ASSUME NEW x \in Range(s) PROVE x = s[1] \/ x \in Range(Tail(s))
  <2>1. PICK i \in 1 .. Len(s) : x = s[i]
    BY <1>3
  <2>2. CASE i # 1
    <3>1. i - 1 \in 1 .. Len(Tail(s)) /\ Tail(s)[i - 1] = s[i]
      BY <1>1, <2>2
    <3> QED
      BY <1>4, <2>1, <3>1
  <2> QED
    BY <2>1, <2>2
<1>6. ASSUME NEW x \in Range(Tail(s)) PROVE x \in Range(s)
  <2>1. PICK i \in 1 .. Len(Tail(s)) : x = Tail(s)[i]
    BY <1>4
  <2>2. i + 1 \in 1 .. Len(s) /\ s[i + 1] = x
    BY <1>1, <2>1
  <2> QED
    BY <1>3, <2>2
<1>7. s[1] \in Range(s)
  BY <1>1, <1>3
<1> QED
  BY <1>1, <1>2, <1>5, <1>6, <1>7

LEMMA ReverseFacts ==
  ASSUME NEW T, NEW s \in Seq(T)
  PROVE  /\ Reverse(s) \in Seq(T)
         /\ Len(Reverse(s)) = Len(s)
         /\ \A i \in 1 .. Len(s) : Reverse(s)[i] = s[Len(s) - i + 1]
         /\ Range(Reverse(s)) = Range(s)
<1>1. /\ Len(s) \in Nat
      /\ s \in [1 .. Len(s) -> T]
  BY LenProperties
<1>2. \A i \in 1 .. Len(s) : Len(s) - i + 1 \in 1 .. Len(s)
  BY <1>1
<1>3. Reverse(s) \in [1 .. Len(s) -> T]
  BY <1>1, <1>2 DEF Reverse
<1>4. \A i \in 1 .. Len(s) : Reverse(s)[i] = s[Len(s) - i + 1]
  BY DEF Reverse
<1> HIDE DEF Reverse
<1>5. Reverse(s) \in Seq(T) /\ Len(Reverse(s)) = Len(s)
  BY <1>1, <1>3
<1>6. /\ Range(s) = {s[i] : i \in 1 .. Len(s)}
      /\ Range(Reverse(s)) = {Reverse(s)[i] : i \in 1 .. Len(s)}
  BY <1>5, RangeFacts
<1>7. \A x \in Range(Reverse(s)) : x \in Range(s)
  BY <1>2, <1>4, <1>6
<1>8. \A x \in Range(s) : x \in Range(Reverse(s))
  <2> SUFFICES ASSUME NEW i \in 1 .. Len(s) PROVE s[i] \in Range(Reverse(s))
    BY <1>6
  <2>1. Len(s) - i + 1 \in 1 .. Len(s) /\ Len(s) - (Len(s) - i + 1) + 1 = i
    BY <1>1
  <2>2. Reverse(s)[Len(s) - i + 1] = s[i]
    BY <1>4, <2>1
  <2> QED
    BY <1>6, <2>1, <2>2
<1> QED
  BY <1>4, <1>5, <1>7, <1>8

-----------------------------------------------------------------------------
(* Concatenating the sequences ss[1] .. ss[n]. *)

Flat(ss, n, h) == h = [i \in 1 .. n |-> IF i = 1 THEN ss[i] ELSE h[i - 1] \o ss[i]]

LEMMA FlatExists ==
  ASSUME NEW n \in Nat, NEW ss
  PROVE  \E h : Flat(ss, n, h)
<1> DEFINE S == {k \in Nat : \E h : Flat(ss, k, h)}
<1>1. 0 \in S
  <2>1. Flat(ss, 0, [i \in 1 .. 0 |-> << >>])
    BY DEF Flat
  <2> QED
    BY <2>1
<1>2. ASSUME NEW k \in Nat, k \in S PROVE k + 1 \in S
  <2>1. PICK h : Flat(ss, k, h)
    BY <1>2
  <2> DEFINE e == [i \in 1 .. k + 1 |->
                     IF i <= k THEN h[i] ELSE IF i = 1 THEN ss[i] ELSE h[i - 1] \o ss[i]]
  <2>2. ASSUME NEW i \in 1 .. k + 1
        PROVE  e[i] = IF i = 1 THEN ss[i] ELSE e[i - 1] \o ss[i]
    <3>1. i # 1 => i - 1 \in 1 .. k /\ e[i - 1] = h[i - 1]
      OBVIOUS
    <3>2. CASE i \in 1 .. k
      <4>1. h[i] = IF i = 1 THEN ss[i] ELSE h[i - 1] \o ss[i]
        BY <2>1, <3>2 DEF Flat
      <4> QED
        BY <3>1, <3>2, <4>1
    <3>3. CASE i = k + 1
      BY <3>1, <3>3
    <3> QED
      BY <3>2, <3>3
  <2>3. Flat(ss, k + 1, e)
    BY <2>2 DEF Flat
  <2> QED
    BY <2>3
<1> HIDE DEF S
<1>3. n \in S
  BY <1>1, <1>2, NatSetInduction
<1> QED
  BY <1>3 DEF S

\* Block i of the concatenation begins after position o.
Block(s, r, o) ==
  /\ o \in Nat
  /\ \A k \in 1 .. Len(r) : o + k \in 1 .. Len(s) /\ s[o + k] = r[k]

LEMMA FlattenFacts ==
  ASSUME NEW T, NEW n \in Nat, NEW ss \in [1 .. n -> Seq(T)]
  PROVE  /\ FlattenSeq(ss) \in Seq(T)
         /\ Range(FlattenSeq(ss)) = UNION {Range(ss[i]) : i \in 1 .. n}
         /\ \A p \in 1 .. Len(FlattenSeq(ss)) :
              \E i \in 1 .. n, o \in Nat :
                Block(FlattenSeq(ss), ss[i], o) /\ p - o \in 1 .. Len(ss[i])
         /\ n = 1 => FlattenSeq(ss) = ss[1]
         /\ (/\ \A i \in 1 .. n : IsInjective(ss[i])
             /\ \A i, j \in 1 .. n : i # j => Range(ss[i]) \cap Range(ss[j]) = {})
              => IsInjective(FlattenSeq(ss))
<1> DEFINE Pre(i) == \A j, k \in 1 .. i : j # k => Range(ss[j]) \cap Range(ss[k]) = {}
           Good(s, i) ==
             /\ s \in Seq(T)
             /\ Range(s) = UNION {Range(ss[j]) : j \in 1 .. i}
             /\ \A p \in 1 .. Len(s) :
                  \E j \in 1 .. i, o \in Nat : Block(s, ss[j], o) /\ p - o \in 1 .. Len(ss[j])
             /\ (\A j \in 1 .. i : IsInjective(ss[j])) /\ Pre(i) => IsInjective(s)
<1>1. ss \in Seq(Seq(T)) /\ Len(ss) = n
  OBVIOUS
<1>2. ASSUME NEW r \in Seq(T) PROVE Block(r, r, 0)
  BY RangeFacts DEF Block
<1>3. CASE n = 0
  <2>1. FlattenSeq(ss) = ss /\ ss = << >>
    BY <1>1, <1>3 DEF FlattenSeq
  <2>2. /\ << >> \in Seq(T) /\ Len(<< >>) = 0 /\ Range(<< >>) = {}
        /\ IsInjective(<< >>)
    BY DEF Range, IsInjective
  <2>3. 1 .. n = {}
    BY <1>3
  <2>4. FlattenSeq(ss) = << >>
    BY <2>1
  <2> HIDE DEF Good, Pre
  <2>5. UNION {Range(ss[i]) : i \in 1 .. n} = {}
    BY <2>3
  <2> QED
    BY <1>3, <2>2, <2>4, <2>5
<1>4. CASE n # 0
  <2> DEFINE F == CHOOSE h : h = [i \in 1 .. n |-> IF i = 1 THEN ss[i] ELSE h[i - 1] \o ss[i]]
  <2>1. FlattenSeq(ss) = F[n]
    BY <1>1, <1>4 DEF FlattenSeq
  <2>2. F = [i \in 1 .. n |-> IF i = 1 THEN ss[i] ELSE F[i - 1] \o ss[i]]
    BY FlatExists DEF Flat
  <2> HIDE DEF F
  <2>3. \A i \in 1 .. n : F[i] = IF i = 1 THEN ss[i] ELSE F[i - 1] \o ss[i]
    BY <2>2
  <2> HIDE DEF Good
  <2> DEFINE S == {k \in Nat : k \in 1 .. n => Good(F[k], k)}
  <2>4. 0 \in S
    OBVIOUS
  <2>5. ASSUME NEW k \in Nat, k \in S PROVE k + 1 \in S
    <3> SUFFICES ASSUME k + 1 \in 1 .. n PROVE Good(F[k + 1], k + 1)
      OBVIOUS
    <3>1. CASE k = 0
      <4>1. F[1] = ss[1] /\ 1 \in 1 .. n
        BY <2>3, <3>1
      <4>2. ss[1] \in Seq(T)
        BY <4>1
      <4>3. \A p \in 1 .. Len(ss[1]) :
              \E j \in 1 .. 1, o \in Nat : Block(ss[1], ss[j], o) /\ p - o \in 1 .. Len(ss[j])
        <5>1. Block(ss[1], ss[1], 0)
          BY <1>2, <4>2
        <5>2. \A p \in 1 .. Len(ss[1]) : p - 0 \in 1 .. Len(ss[1])
          BY <4>2, RangeFacts
        <5> QED
          BY <5>1, <5>2
      <4>4. Range(ss[1]) = UNION {Range(ss[j]) : j \in 1 .. 1}
        OBVIOUS
      <4>5. (\A j \in 1 .. 1 : IsInjective(ss[j])) => IsInjective(ss[1])
        OBVIOUS
      <4>6. Good(ss[1], 1)
        BY <4>2, <4>3, <4>4, <4>5 DEF Good
      <4>7. k + 1 = 1
        BY <3>1
      <4> QED
        BY <4>1, <4>6, <4>7
    <3>2. CASE k # 0
      <4> DEFINE s == F[k]
                 r == ss[k + 1]
      <4>0. k \in 1 .. n /\ k + 1 # 1 /\ (k + 1) - 1 = k
        BY <3>2
      <4>1. Good(s, k)
        BY <2>5, <4>0
      <4>2. F[k + 1] = s \o r /\ r \in Seq(T) /\ s \in Seq(T)
        <5>1. s \in Seq(T)
          BY <4>1 DEF Good
        <5>2. r \in Seq(T)
          OBVIOUS
        <5>3. F[k + 1] = F[(k + 1) - 1] \o ss[k + 1]
          BY <2>3, <4>0
        <5> QED
          BY <4>0, <5>1, <5>2, <5>3
      <4> HIDE DEF s, r
      <4>3. /\ s \o r \in Seq(T)
            /\ Len(s \o r) = Len(s) + Len(r)
            /\ Len(s) \in Nat /\ Len(r) \in Nat
            /\ \A i \in 1 .. Len(s) : i \in 1 .. Len(s \o r) /\ (s \o r)[i] = s[i]
            /\ \A i \in 1 .. Len(r) : Len(s) + i \in 1 .. Len(s \o r) /\ (s \o r)[Len(s) + i] = r[i]
            /\ \A i \in 1 .. Len(s \o r) : i \in 1 .. Len(s) \/ i - Len(s) \in 1 .. Len(r)
            /\ Range(s \o r) = Range(s) \cup Range(r)
        BY <4>2, ConcatFacts
      <4>4. Range(s) = UNION {Range(ss[j]) : j \in 1 .. k}
        BY <4>1 DEF Good
      <4>5. \A p \in 1 .. Len(s) :
              \E j \in 1 .. k, o \in Nat : Block(s, ss[j], o) /\ p - o \in 1 .. Len(ss[j])
        BY <4>1 DEF Good
      <4>6. (\A j \in 1 .. k : IsInjective(ss[j])) /\ Pre(k) => IsInjective(s)
        BY <4>1 DEF Good
      <4> DEFINE t == s \o r
      <4>7. Range(t) = UNION {Range(ss[j]) : j \in 1 .. k + 1}
        <5>1. 1 .. k + 1 = 1 .. k \cup {k + 1}
          OBVIOUS
        <5>2. Range(t) = Range(s) \cup Range(ss[k + 1])
          BY <4>3 DEF r
        <5> QED
          BY <4>4, <5>1, <5>2
      <4> HIDE DEF t
      <4>8. ASSUME NEW p \in 1 .. Len(t)
            PROVE  \E j \in 1 .. k + 1, o \in Nat : Block(t, ss[j], o) /\ p - o \in 1 .. Len(ss[j])
        <5>1. CASE p \in 1 .. Len(s)
          <6>1. PICK j \in 1 .. k, o \in Nat : Block(s, ss[j], o) /\ p - o \in 1 .. Len(ss[j])
            BY <4>5, <5>1
          <6>2. Block(t, ss[j], o)
            BY <4>3, <6>1 DEF Block, t
          <6> QED
            BY <6>1, <6>2
        <5>2. CASE p - Len(s) \in 1 .. Len(r)
          <6>1. Block(t, r, Len(s))
            BY <4>3 DEF Block, t
          <6>2. k + 1 \in 1 .. k + 1 /\ Len(s) \in Nat
            BY <4>3
          <6>3. Block(t, ss[k + 1], Len(s)) /\ p - Len(s) \in 1 .. Len(ss[k + 1])
            BY <5>2, <6>1 DEF r
          <6> QED
            BY <6>2, <6>3
        <5> QED
          BY <4>3, <5>1, <5>2 DEF t
      <4>9. ASSUME \A j \in 1 .. k + 1 : IsInjective(ss[j]), Pre(k + 1)
            PROVE  IsInjective(t)
        <5>0. Pre(k)
          <6>1. \A j \in 1 .. k : j \in 1 .. k + 1
            OBVIOUS
          <6> QED
            BY <4>9, <6>1
        <5>1. IsInjective(s) /\ IsInjective(r)
          <6>1. \A j \in 1 .. k : j \in 1 .. k + 1
            OBVIOUS
          <6>2. k + 1 \in 1 .. k + 1
            OBVIOUS
          <6> HIDE DEF Pre
          <6> QED
            BY <4>6, <4>9, <5>0, <6>1, <6>2 DEF r
        <5>2. Range(s) \cap Range(r) = {}
          <6>1. \A j \in 1 .. k : Range(ss[j]) \cap Range(r) = {}
            <7>1. \A j \in 1 .. k : j \in 1 .. k + 1 /\ k + 1 \in 1 .. k + 1 /\ j # k + 1
              OBVIOUS
            <7> QED
              BY <4>9, <7>1 DEF r
          <6> QED
            BY <4>4, <6>1
        <5>3. DOMAIN s = 1 .. Len(s) /\ DOMAIN r = 1 .. Len(r) /\ DOMAIN t = 1 .. Len(t)
          BY <4>2, <4>3, LenProperties DEF t
        <5>4. \A i \in 1 .. Len(t) : \/ i \in 1 .. Len(s) /\ t[i] = s[i] /\ t[i] \in Range(s)
                                     \/ /\ i - Len(s) \in 1 .. Len(r)
                                        /\ t[i] = r[i - Len(s)] /\ t[i] \in Range(r)
          <6>1. \A i \in 1 .. Len(s) : s[i] \in Range(s)
            BY <4>2, RangeFacts
          <6>2. \A i \in 1 .. Len(r) : r[i] \in Range(r)
            BY <4>2, RangeFacts
          <6>3. \A i \in 1 .. Len(t) : i - Len(s) \in 1 .. Len(r) => t[i] = r[i - Len(s)]
            <7> SUFFICES ASSUME NEW i \in 1 .. Len(t), i - Len(s) \in 1 .. Len(r)
                         PROVE  t[i] = r[i - Len(s)]
              OBVIOUS
            <7>1. Len(s) + (i - Len(s)) = i
              BY <4>3
            <7> QED
              BY <4>3, <7>1 DEF t
          <6> QED
            BY <4>3, <6>1, <6>2, <6>3 DEF t
        <5> SUFFICES ASSUME NEW i \in 1 .. Len(t), NEW j \in 1 .. Len(t), t[i] = t[j]
                     PROVE  i = j
          BY <5>3 DEF IsInjective
        <5>5. CASE i \in 1 .. Len(s) /\ t[i] = s[i] /\ t[i] \in Range(s)
          <6>1. j \in 1 .. Len(s) /\ t[j] = s[j]
            BY <5>2, <5>4, <5>5
          <6> QED
            BY <5>1, <5>3, <5>5, <6>1 DEF IsInjective
        <5>6. CASE i - Len(s) \in 1 .. Len(r) /\ t[i] = r[i - Len(s)] /\ t[i] \in Range(r)
          <6>1. j - Len(s) \in 1 .. Len(r) /\ t[j] = r[j - Len(s)]
            BY <5>2, <5>4, <5>6
          <6>2. i - Len(s) = j - Len(s)
            BY <5>1, <5>3, <5>6, <6>1 DEF IsInjective
          <6> QED
            BY <4>3, <6>2
        <5> QED
          BY <5>4, <5>5, <5>6
      <4>10. t \in Seq(T)
        BY <4>3 DEF t
      <4>11. Good(t, k + 1)
        BY <4>7, <4>8, <4>9, <4>10 DEF Good
      <4> QED
        BY <4>2, <4>11 DEF t
    <3> QED
      BY <3>1, <3>2
  <2> HIDE DEF S
  <2>6. n \in S
    BY <2>4, <2>5, NatSetInduction
  <2>7. Good(F[n], n)
    BY <1>4, <2>6 DEF S
  <2>8. n = 1 => F[n] = ss[1]
    BY <2>3
  <2>9. 1 .. Len(F[n]) = 1 .. Len(FlattenSeq(ss))
    BY <2>1
  <2> QED
    BY <2>1, <2>7, <2>8, Zenon DEF Good, Pre
<1> QED
  BY <1>3, <1>4

-----------------------------------------------------------------------------
(* Functions defined along the class hierarchy. *)

\* The blocks that the bases of c contribute.
Blocks(s, f, c) == [i \in 1 .. Len(s.bases[c]) |-> f[s.bases[c][i]]]

LEMMA SourceFacts ==
  ASSUME NEW s \in Sources, NEW c \in Class
  PROVE  /\ s \in Source
         /\ s.bases[c] \in Seq(Class)
         /\ s.uses[c] \in Seq(Class)
         /\ s.wrappers \in Seq(Class)
         /\ s.outer[c] \in Scope \cup {Global, NoScope}
         /\ IsInjective(s.bases[c])
         /\ Range(s.bases[c]) = {s.bases[c][i] : i \in 1 .. Len(s.bases[c])}
         /\ Range(s.bases[c]) \subseteq Class
         /\ Len(s.bases[c]) \in Nat
<1>1. s \in Source /\ IsInjective(s.bases[c])
  BY CableSwigAssumption
<1>2. s.bases[c] \in Seq(Class)
  BY <1>1 DEF Source
<1>3. /\ s.uses[c] \in Seq(Class)
      /\ s.wrappers \in Seq(Class)
      /\ s.outer[c] \in Scope \cup {Global, NoScope}
  BY <1>1 DEF Source
<1> QED
  BY <1>1, <1>2, <1>3, RangeFacts

\* A set of classes that is not empty has one whose bases are not in it.
LEMMA Topmost ==
  ASSUME NEW s \in Sources, NEW S \in SUBSET Class, S # {}
  PROVE  \E c \in S : \A b \in Range(s.bases[c]) : b \notin S
<1>1. Acyclic(s)
  BY CableSwigAssumption
<1> QED
  BY <1>1 DEF Acyclic

LEMMA BlocksFacts ==
  ASSUME NEW s \in Sources, NEW c \in Class, NEW f,
         \A b \in Range(s.bases[c]) : f[b] \in Seq(Class)
  PROVE  /\ Blocks(s, f, c) \in [1 .. Len(s.bases[c]) -> Seq(Class)]
         /\ FlattenSeq(Blocks(s, f, c)) \in Seq(Class)
         /\ Range(FlattenSeq(Blocks(s, f, c))) = UNION {Range(f[b]) : b \in Range(s.bases[c])}
         /\ \A p \in 1 .. Len(FlattenSeq(Blocks(s, f, c))) :
              \E b \in Range(s.bases[c]), o \in Nat :
                Block(FlattenSeq(Blocks(s, f, c)), f[b], o) /\ p - o \in 1 .. Len(f[b])
         /\ Len(s.bases[c]) = 1 => FlattenSeq(Blocks(s, f, c)) = f[s.bases[c][1]]
         /\ (/\ \A b \in Range(s.bases[c]) : IsInjective(f[b])
             /\ \A b, d \in Range(s.bases[c]) : b # d => Range(f[b]) \cap Range(f[d]) = {})
              => IsInjective(FlattenSeq(Blocks(s, f, c)))
<1> DEFINE n == Len(s.bases[c])
           ss == Blocks(s, f, c)
<1>1. /\ Range(s.bases[c]) = {s.bases[c][i] : i \in 1 .. n}
      /\ n \in Nat
      /\ IsInjective(s.bases[c])
      /\ s.bases[c] \in Seq(Class)
  BY SourceFacts
<1>2. ss \in [1 .. n -> Seq(Class)]
  BY <1>1 DEF Blocks
<1>3. \A i \in 1 .. n : ss[i] = f[s.bases[c][i]] /\ s.bases[c][i] \in Range(s.bases[c])
  BY <1>1 DEF Blocks
<1> HIDE DEF ss, n
<1>4. /\ FlattenSeq(ss) \in Seq(Class)
      /\ Range(FlattenSeq(ss)) = UNION {Range(ss[i]) : i \in 1 .. n}
      /\ \A p \in 1 .. Len(FlattenSeq(ss)) :
           \E i \in 1 .. n, o \in Nat :
             Block(FlattenSeq(ss), ss[i], o) /\ p - o \in 1 .. Len(ss[i])
      /\ n = 1 => FlattenSeq(ss) = ss[1]
      /\ (/\ \A i \in 1 .. n : IsInjective(ss[i])
          /\ \A i, j \in 1 .. n : i # j => Range(ss[i]) \cap Range(ss[j]) = {})
           => IsInjective(FlattenSeq(ss))
  BY <1>1, <1>2, FlattenFacts, Zenon
<1>5. UNION {Range(ss[i]) : i \in 1 .. n} = UNION {Range(f[b]) : b \in Range(s.bases[c])}
  <2>1. \A i \in 1 .. n : \E b \in Range(s.bases[c]) : ss[i] = f[b]
    BY <1>3, Zenon
  <2>2. \A b \in Range(s.bases[c]) : \E i \in 1 .. n : ss[i] = f[b]
    <3> SUFFICES ASSUME NEW b \in Range(s.bases[c]) PROVE \E i \in 1 .. n : ss[i] = f[b]
      OBVIOUS
    <3>1. PICK i \in 1 .. n : b = s.bases[c][i]
      BY <1>1
    <3>2. ss[i] = f[b]
      BY <1>3, <3>1
    <3> QED
      BY <3>2
  <2> QED
    BY <2>1, <2>2
<1>6. ASSUME NEW p \in 1 .. Len(FlattenSeq(ss))
      PROVE  \E b \in Range(s.bases[c]), o \in Nat :
               Block(FlattenSeq(ss), f[b], o) /\ p - o \in 1 .. Len(f[b])
  <2>1. PICK i \in 1 .. n, o \in Nat : Block(FlattenSeq(ss), ss[i], o) /\ p - o \in 1 .. Len(ss[i])
    BY <1>4
  <2>2. ss[i] = f[s.bases[c][i]] /\ s.bases[c][i] \in Range(s.bases[c])
    BY <1>3
  <2> QED
    BY <2>1, <2>2
<1>7. n = 1 => FlattenSeq(ss) = f[s.bases[c][1]]
  <2>1. n = 1 => 1 \in 1 .. n
    OBVIOUS
  <2> QED
    BY <1>3, <1>4, <2>1
<1>8. ASSUME \A b \in Range(s.bases[c]) : IsInjective(f[b]),
             \A b, d \in Range(s.bases[c]) : b # d => Range(f[b]) \cap Range(f[d]) = {}
      PROVE  IsInjective(FlattenSeq(ss))
  <2>1. \A i \in 1 .. n : IsInjective(ss[i])
    BY <1>3, <1>8
  <2>2. \A i, j \in 1 .. n : i # j => s.bases[c][i] # s.bases[c][j]
    <3>1. DOMAIN s.bases[c] = 1 .. n
      BY <1>1, LenProperties DEF n
    <3> QED
      BY <1>1, <3>1 DEF IsInjective
  <2>3. \A i, j \in 1 .. n : i # j => Range(ss[i]) \cap Range(ss[j]) = {}
    <3> SUFFICES ASSUME NEW i \in 1 .. n, NEW j \in 1 .. n, i # j
                 PROVE  Range(ss[i]) \cap Range(ss[j]) = {}
      OBVIOUS
    <3>1. PICK b \in Range(s.bases[c]) : b = s.bases[c][i] /\ ss[i] = f[b]
      BY <1>3
    <3>2. PICK d \in Range(s.bases[c]) : d = s.bases[c][j] /\ ss[j] = f[d]
      BY <1>3
    <3>3. b # d
      BY <2>2, <3>1, <3>2
    <3> QED
      BY <1>8, <3>1, <3>2, <3>3
  <2> QED
    BY <1>4, <2>1, <2>3
<1> QED
  BY <1>2, <1>4, <1>5, <1>6, <1>7, <1>8 DEF ss, n

\* What f contributes depends only on its values for the bases.
LEMMA BlocksSame ==
  ASSUME NEW s \in Sources, NEW c \in Class, NEW f, NEW h,
         \A b \in Range(s.bases[c]) : f[b] = h[b]
  PROVE  Blocks(s, f, c) = Blocks(s, h, c)
<1>1. \A i \in 1 .. Len(s.bases[c]) : f[s.bases[c][i]] = h[s.bases[c][i]]
  <2> SUFFICES ASSUME NEW i \in 1 .. Len(s.bases[c]) PROVE f[s.bases[c][i]] = h[s.bases[c][i]]
    OBVIOUS
  <2>1. Range(s.bases[c]) = {s.bases[c][k] : k \in 1 .. Len(s.bases[c])}
    BY SourceFacts
  <2>2. PICK b : b = s.bases[c][i]
    OBVIOUS
  <2>3. b \in Range(s.bases[c])
    BY <2>1, <2>2
  <2> QED
    BY <2>2, <2>3
<1> QED
  BY <1>1 DEF Blocks

\* A function that stops at the classes in D and goes on with the bases of others.
Recurs(s, g, D, f) ==
  \A c \in Class : f[c] = IF c \in D THEN g[c] ELSE g[c] \o FlattenSeq(Blocks(s, f, c))

LEMMA RecursionExists ==
  ASSUME NEW s \in Sources, NEW g \in [Class -> Seq(Class)], NEW D
  PROVE  \E f \in [Class -> Seq(Class)] : Recurs(s, g, D, f)
<1> DEFINE Step(f, c) == IF c \in D THEN g[c] ELSE g[c] \o FlattenSeq(Blocks(s, f, c))
           Fs == [Class -> Seq(Class)]
           Solves(f, S) == /\ S \subseteq Class
                           /\ \A c \in S : Range(s.bases[c]) \subseteq S
                           /\ \A c \in S : f[c] = Step(f, c)
<1>1. ASSUME NEW f, NEW h, NEW c \in Class, \A b \in Range(s.bases[c]) : f[b] = h[b]
      PROVE  Step(f, c) = Step(h, c)
  BY <1>1, BlocksSame
<1>2. ASSUME NEW f \in Fs, NEW c \in Class PROVE Step(f, c) \in Seq(Class)
  <2>1. \A b \in Range(s.bases[c]) : f[b] \in Seq(Class)
    BY SourceFacts
  <2>2. FlattenSeq(Blocks(s, f, c)) \in Seq(Class)
    BY <2>1, BlocksFacts
  <2> QED
    BY <2>2, ConcatProperties
<1> HIDE DEF Step
<1>3. ASSUME NEW f, NEW h, NEW S, NEW R, Solves(f, S), Solves(h, R), NEW x \in S \cap R
      PROVE  f[x] = h[x]
  <2> DEFINE T == {c \in S \cap R : f[c] # h[c]}
  <2> SUFFICES ASSUME T # {} PROVE FALSE
    OBVIOUS
  <2>1. PICK c \in T : \A b \in Range(s.bases[c]) : b \notin T
    BY <1>3, Topmost
  <2>2. \A b \in Range(s.bases[c]) : f[b] = h[b]
    BY <1>3, <2>1
  <2>3. f[c] = Step(f, c) /\ h[c] = Step(h, c) /\ c \in Class
    BY <1>3, <2>1
  <2> QED
    BY <1>1, <2>1, <2>2, <2>3
<1> DEFINE G == {c \in Class : \E f \in Fs, S \in SUBSET Class : Solves(f, S) /\ c \in S}
           At(c) == CHOOSE f \in Fs : \E S \in SUBSET Class : Solves(f, S) /\ c \in S
           F == [c \in Class |-> IF c \in G THEN At(c)[c] ELSE << >>]
<1>4. \A c \in G : At(c) \in Fs /\ \E S \in SUBSET Class : Solves(At(c), S) /\ c \in S
  <2> HIDE DEF Solves, Fs
  <2> QED
    OBVIOUS
<1> HIDE DEF At
<1>5. F \in Fs
  <2>1. \A c \in G : At(c)[c] \in Seq(Class)
    BY <1>4
  <2>2. << >> \in Seq(Class)
    OBVIOUS
  <2> HIDE DEF G
  <2> QED
    BY <2>1, <2>2
<1>6. ASSUME NEW f \in Fs, NEW S \in SUBSET Class, Solves(f, S), NEW c \in S
      PROVE  F[c] = f[c] /\ c \in G
  <2>1. c \in G
    BY <1>6
  <2>2. PICK R \in SUBSET Class : Solves(At(c), R) /\ c \in R
    BY <1>4, <2>1
  <2>3. At(c)[c] = f[c]
    <3> HIDE DEF Solves
    <3> QED
      BY <1>3, <1>6, <2>2
  <2>4. F[c] = At(c)[c]
    BY <2>1
  <2> QED
    BY <2>1, <2>3, <2>4
<1> HIDE DEF F
<1>7. Solves(F, G)
  <2> SUFFICES ASSUME NEW c \in G
               PROVE  Range(s.bases[c]) \subseteq G /\ F[c] = Step(F, c)
    OBVIOUS
  <2>1. PICK S \in SUBSET Class : Solves(At(c), S) /\ c \in S
    BY <1>4
  <2>2. \A x \in S : F[x] = At(c)[x] /\ x \in G
    <3> HIDE DEF Solves, G, Fs
    <3> QED
      BY <1>4, <1>6, <2>1
  <2>3. Range(s.bases[c]) \subseteq S /\ At(c)[c] = Step(At(c), c)
    BY <2>1
  <2>4. \A b \in Range(s.bases[c]) : F[b] = At(c)[b]
    BY <2>2, <2>3
  <2>5. Step(F, c) = Step(At(c), c)
    BY <1>1, <2>4
  <2> QED
    BY <2>1, <2>2, <2>3, <2>5
<1>8. G = Class
  <2> SUFFICES ASSUME Class \ G # {} PROVE FALSE
    OBVIOUS
  <2>1. PICK m \in Class \ G : \A b \in Range(s.bases[m]) : b \notin Class \ G
    <3> HIDE DEF G
    <3>1. Class \ G \in SUBSET Class
      OBVIOUS
    <3> QED
      BY <3>1, Topmost
  <2>2. Range(s.bases[m]) \subseteq G
    BY <2>1, SourceFacts
  <2> DEFINE f == [c \in Class |-> IF c = m THEN Step(F, m) ELSE F[c]]
  <2>3. f \in Fs
    BY <1>2, <1>5
  <2>4. \A c \in G : f[c] = F[c]
    BY <2>1
  <2>5. f[m] = Step(F, m)
    OBVIOUS
  <2> HIDE DEF f
  <2>6. \A c \in G \cup {m} : f[c] = Step(f, c)
    <3> SUFFICES ASSUME NEW c \in G \cup {m} PROVE f[c] = Step(f, c)
      OBVIOUS
    <3>1. Range(s.bases[c]) \subseteq G
      BY <1>7, <2>2
    <3>2. \A b \in Range(s.bases[c]) : f[b] = F[b]
      BY <2>4, <3>1
    <3>3. Step(f, c) = Step(F, c)
      BY <1>1, <3>2
    <3> QED
      BY <1>7, <2>4, <2>5, <3>3
  <2>7. Solves(f, G \cup {m})
    BY <1>7, <2>2, <2>6
  <2>8. G \cup {m} \in SUBSET Class
    OBVIOUS
  <2> HIDE DEF Solves, Fs
  <2>9. m \in G
    BY <1>6, <2>3, <2>7, <2>8
  <2> QED
    BY <2>9
<1>9. \A c \in Class : F[c] = Step(F, c)
  <2>1. \A c \in G : F[c] = Step(F, c)
    BY <1>7
  <2> HIDE DEF G
  <2> QED
    BY <1>8, <2>1
<1>10. Recurs(s, g, D, F)
  BY <1>9 DEF Step, Recurs
<1> HIDE DEF Step
<1> QED
  BY <1>5, <1>10

-----------------------------------------------------------------------------
(* Class::GetAllBaseClasses. *)

LEMMA AllUnfold ==
  ASSUME NEW s \in Sources
  PROVE  /\ GetAllBaseClasses(s) \in [Class -> Seq(Class)]
         /\ \A c \in Class : GetAllBaseClasses(s)[c] =
              s.bases[c] \o FlattenSeq(Blocks(s, GetAllBaseClasses(s), c))
<1> DEFINE Step(f, c) == s.bases[c] \o FlattenSeq(Blocks(s, f, c))
           all == GetAllBaseClasses(s)
<1>1. \E f : f = [c \in Class |-> Step(f, c)]
  <2> DEFINE g == [c \in Class |-> s.bases[c]]
  <2>1. g \in [Class -> Seq(Class)]
    BY SourceFacts
  <2> HIDE DEF g
  <2> DEFINE D == {}
  <2>0. \A c \in Class : c \notin D
    OBVIOUS
  <2> HIDE DEF D
  <2>2. PICK f \in [Class -> Seq(Class)] : Recurs(s, g, D, f)
    BY <2>1, RecursionExists, Zenon
  <2>3. \A c \in Class : f[c] = Step(f, c)
    BY <2>0, <2>2 DEF g, Recurs
  <2>4. f = [c \in Class |-> f[c]]
    OBVIOUS
  <2> HIDE DEF Step
  <2>5. f = [c \in Class |-> Step(f, c)]
    BY <2>3, <2>4
  <2> QED
    BY <2>5
<1>2. all = [c \in Class |-> Step(all, c)]
  <2>1. all = CHOOSE f : f = [c \in Class |-> Step(f, c)]
    BY DEF GetAllBaseClasses, Blocks
  <2> HIDE DEF all
  <2> QED
    BY <1>1, <2>1
<1> HIDE DEF all, Step
<1>3. \A c \in Class : all[c] = Step(all, c)
  BY <1>2
<1>4. \A c \in Class : all[c] \in Seq(Class)
  <2> DEFINE T == {c \in Class : all[c] \notin Seq(Class)}
  <2> SUFFICES ASSUME T # {} PROVE FALSE
    OBVIOUS
  <2>1. PICK c \in T : \A b \in Range(s.bases[c]) : b \notin T
    BY Topmost
  <2>2. \A b \in Range(s.bases[c]) : all[b] \in Seq(Class)
    BY <2>1, SourceFacts
  <2>3. s.bases[c] \in Seq(Class) /\ FlattenSeq(Blocks(s, all, c)) \in Seq(Class)
    BY <2>2, BlocksFacts, SourceFacts
  <2>4. Step(all, c) \in Seq(Class)
    BY <2>3, ConcatProperties DEF Step
  <2> QED
    BY <1>3, <2>4
<1>5. all \in [Class -> Seq(Class)]
  <2>1. all = [c \in Class |-> all[c]]
    BY <1>2, <1>3
  <2> QED
    BY <1>4, <2>1
<1> QED
  BY <1>3, <1>5 DEF all, Step

\* The bases of a class, those of its bases, and so on; and those of a base come
\* after it.
LEMMA AllFacts ==
  ASSUME NEW s \in Sources, NEW c \in Class
  PROVE  LET all == GetAllBaseClasses(s)
         IN  /\ all[c] \in Seq(Class)
             /\ Range(all[c]) \subseteq Class
             /\ Range(all[c]) = Range(s.bases[c]) \cup UNION {Range(all[b]) : b \in Range(s.bases[c])}
             /\ Len(s.bases[c]) = 0 => all[c] = << >>
             /\ Len(s.bases[c]) = 1 => all[c] = s.bases[c] \o all[s.bases[c][1]]
<1> DEFINE all == GetAllBaseClasses(s)
           F == FlattenSeq(Blocks(s, all, c))
<1>1. all \in [Class -> Seq(Class)] /\ all[c] = s.bases[c] \o F
  BY AllUnfold
<1> HIDE DEF all
<1>2. \A b \in Range(s.bases[c]) : b \in Class /\ all[b] \in Seq(Class)
  BY <1>1, SourceFacts
<1>3. /\ F \in Seq(Class)
      /\ Range(F) = UNION {Range(all[b]) : b \in Range(s.bases[c])}
      /\ Len(s.bases[c]) = 1 => F = all[s.bases[c][1]]
  BY <1>2, BlocksFacts
<1> HIDE DEF F
<1>4. s.bases[c] \in Seq(Class)
  BY SourceFacts
<1>5. Range(all[c]) = Range(s.bases[c]) \cup Range(F)
  BY <1>1, <1>3, <1>4, ConcatFacts
<1>6. all[c] \in Seq(Class)
  BY <1>1
<1>7. Range(all[c]) \subseteq Class
  BY <1>6, RangeFacts
<1>8. Len(s.bases[c]) = 0 => all[c] = << >>
  <2> SUFFICES ASSUME Len(s.bases[c]) = 0 PROVE all[c] = << >>
    OBVIOUS
  <2>1. s.bases[c] = << >>
    BY <1>4, RangeFacts
  <2>2. Range(s.bases[c]) = {}
    BY <1>4, <2>1, RangeFacts
  <2>3. Range(all[c]) = {}
    BY <1>3, <1>5, <2>2
  <2>4. Range(all[c]) = {all[c][i] : i \in 1 .. Len(all[c])} /\ Len(all[c]) \in Nat
    BY <1>6, RangeFacts
  <2>5. Len(all[c]) = 0
    <3> SUFFICES ASSUME Len(all[c]) # 0 PROVE FALSE
      OBVIOUS
    <3>1. 1 \in 1 .. Len(all[c])
      BY <2>4
    <3> QED
      BY <2>3, <2>4, <3>1
  <2> QED
    BY <1>6, <2>5, RangeFacts
<1> QED
  BY <1>1, <1>3, <1>5, <1>6, <1>7, <1>8 DEF all

\* A set closed under bases holds all the bases of its classes.
LEMMA AllInClosed ==
  ASSUME NEW s \in Sources, NEW S \in SUBSET Class, \A x \in S : Range(s.bases[x]) \subseteq S,
         NEW c \in S
  PROVE  Range(GetAllBaseClasses(s)[c]) \subseteq S
<1> DEFINE all == GetAllBaseClasses(s)
           T == {x \in S : ~ (Range(all[x]) \subseteq S)}
<1> HIDE DEF all
<1> SUFFICES ASSUME T # {} PROVE FALSE
  BY DEF all
<1>1. PICK x \in T : \A b \in Range(s.bases[x]) : b \notin T
  BY Topmost
<1>2. Range(all[x]) = Range(s.bases[x]) \cup UNION {Range(all[b]) : b \in Range(s.bases[x])}
  BY <1>1, AllFacts DEF all
<1>3. \A b \in Range(s.bases[x]) : Range(all[b]) \subseteq S
  BY <1>1
<1> QED
  BY <1>1, <1>2, <1>3

LEMMA AllLater ==
  ASSUME NEW s \in Sources, NEW c \in Class,
         NEW p \in 1 .. Len(GetAllBaseClasses(s)[c]),
         NEW x \in Range(GetAllBaseClasses(s)[GetAllBaseClasses(s)[c][p]])
  PROVE  \E q \in p + 1 .. Len(GetAllBaseClasses(s)[c]) : GetAllBaseClasses(s)[c][q] = x
<1> DEFINE all == GetAllBaseClasses(s)
           Later(d) == \A i \in 1 .. Len(all[d]) : \A y \in Range(all[all[d][i]]) :
                         \E q \in i + 1 .. Len(all[d]) : all[d][q] = y
           T == {d \in Class : ~ Later(d)}
<1>1. all \in [Class -> Seq(Class)]
  BY AllUnfold
<1>2. \A d \in Class : all[d] = s.bases[d] \o FlattenSeq(Blocks(s, all, d))
  BY AllUnfold
<1> HIDE DEF all
<1> SUFFICES ASSUME T # {} PROVE FALSE
  BY DEF all
<1>3. PICK d \in T : \A b \in Range(s.bases[d]) : b \notin T
  <2> HIDE DEF Later
  <2> QED
    BY Topmost
<1> DEFINE B == s.bases[d]
           F == FlattenSeq(Blocks(s, all, d))
<1>4. \A b \in Range(B) : b \in Class /\ all[b] \in Seq(Class) /\ Later(b)
  <2> HIDE DEF Later
  <2> QED
    BY <1>1, <1>3, SourceFacts
<1>5. /\ F \in Seq(Class)
      /\ Range(F) = UNION {Range(all[b]) : b \in Range(B)}
      /\ \A i \in 1 .. Len(F) : \E b \in Range(B), o \in Nat :
           Block(F, all[b], o) /\ i - o \in 1 .. Len(all[b])
  <2> HIDE DEF Later
  <2> QED
    BY <1>3, <1>4, BlocksFacts
<1>6. B \in Seq(Class) /\ all[d] = B \o F
  <2> HIDE DEF Later
  <2> QED
    BY <1>2, <1>3, SourceFacts
<1> HIDE DEF F, B
<1>7. /\ Len(all[d]) = Len(B) + Len(F)
      /\ Len(B) \in Nat /\ Len(F) \in Nat
      /\ \A i \in 1 .. Len(B) : all[d][i] = B[i]
      /\ \A i \in 1 .. Len(F) : all[d][Len(B) + i] = F[i]
  <2>1. B \in Seq(Class) /\ F \in Seq(Class)
    BY <1>5, <1>6
  <2>2. /\ Len(B \o F) = Len(B) + Len(F)
        /\ Len(B) \in Nat /\ Len(F) \in Nat
        /\ \A i \in 1 .. Len(B) : (B \o F)[i] = B[i]
        /\ \A i \in 1 .. Len(F) : (B \o F)[Len(B) + i] = F[i]
    BY <2>1, ConcatFacts
  <2> HIDE DEF T, Later
  <2> QED
    BY <1>6, <2>2
<1>8. /\ Range(B) = {B[i] : i \in 1 .. Len(B)}
      /\ Range(F) = {F[i] : i \in 1 .. Len(F)}
  BY <1>5, <1>6, RangeFacts
<1>9. Later(d)
  <2> SUFFICES ASSUME NEW i \in 1 .. Len(all[d]), NEW y \in Range(all[all[d][i]])
               PROVE  \E q \in i + 1 .. Len(all[d]) : all[d][q] = y
    OBVIOUS
  <2>1. CASE i \in 1 .. Len(B)
    <3>1. all[d][i] \in Range(B)
      BY <1>7, <1>8, <2>1
    <3>2. y \in Range(F)
      BY <1>5, <3>1
    <3>3. PICK j \in 1 .. Len(F) : F[j] = y
      BY <1>8, <3>2
    <3>4. Len(B) + j \in i + 1 .. Len(all[d]) /\ all[d][Len(B) + j] = y
      BY SMTT(30), <1>7, <2>1, <3>3
    <3> QED
      BY <3>4
  <2>2. CASE i \notin 1 .. Len(B)
    <3> DEFINE k == i - Len(B)
    <3>1. k \in 1 .. Len(F) /\ Len(B) + k = i
      BY <1>7, <2>2
    <3>2. all[d][i] = F[k]
      BY <1>7, <3>1
    <3>3. PICK b \in Range(B), o \in Nat : Block(F, all[b], o) /\ k - o \in 1 .. Len(all[b])
      BY <1>5, <3>1
    <3> HIDE DEF k
    <3>4. /\ \A j \in 1 .. Len(all[b]) : o + j \in 1 .. Len(F) /\ F[o + j] = all[b][j]
          /\ o + (k - o) = k
          /\ Len(all[b]) \in Nat
      <4>1. \A j \in 1 .. Len(all[b]) : o + j \in 1 .. Len(F) /\ F[o + j] = all[b][j]
        BY <3>3 DEF Block
      <4>2. Len(all[b]) \in Nat
        BY <1>4, LenProperties
      <4> QED
        BY <3>1, <4>1, <4>2
    <3>5. F[k] = all[b][k - o]
      BY <3>3, <3>4
    <3>6. PICK q \in k - o + 1 .. Len(all[b]) : all[b][q] = y
      BY ZenonT(30), <1>4, <3>2, <3>3, <3>5
    <3>7. o + q \in k + 1 .. Len(F) /\ F[o + q] = y
      <4>1. k \in Nat /\ o \in Nat /\ k - o \in 1 .. Len(all[b])
        BY <1>7, <3>1, <3>3
      <4>2. q \in 1 .. Len(all[b]) /\ q \in Nat /\ q >= k - o + 1
        BY <3>4, <3>6, <4>1
      <4>3. o + q \in 1 .. Len(F) /\ F[o + q] = all[b][q]
        BY <3>4, <4>2
      <4>4. o + q >= k + 1
        BY <4>1, <4>2
      <4> QED
        BY <3>6, <4>1, <4>2, <4>3, <4>4
    <3>8. /\ Len(B) + (o + q) \in i + 1 .. Len(all[d])
          /\ all[d][Len(B) + (o + q)] = y
      <4>1. o + q \in 1 .. Len(F) /\ o + q >= k + 1 /\ k \in Nat
        BY <1>7, <3>1, <3>7
      <4>2. all[d][Len(B) + (o + q)] = F[o + q]
        BY <1>7, <4>1
      <4>3. Len(B) + (o + q) \in i + 1 .. Len(all[d])
        BY <1>7, <3>1, <4>1
      <4> QED
        BY <3>7, <4>2, <4>3
    <3> QED
      BY <3>8
  <2> QED
    BY <2>1, <2>2
<1> QED
  BY <1>3, <1>9

\* The bases of a class with their bases are a closed set.
LEMMA AllTransitive ==
  ASSUME NEW s \in Sources, NEW c \in Class, NEW x \in Range(GetAllBaseClasses(s)[c])
  PROVE  /\ Range(GetAllBaseClasses(s)[x]) \subseteq Range(GetAllBaseClasses(s)[c])
         /\ Range(s.bases[x]) \subseteq Range(GetAllBaseClasses(s)[c])
<1> DEFINE all == GetAllBaseClasses(s)
<1>1. all[c] \in Seq(Class) /\ Range(all[c]) \subseteq Class
  BY AllFacts
<1>2. Range(all[c]) = {all[c][i] : i \in 1 .. Len(all[c])} /\ Len(all[c]) \in Nat
  BY <1>1, RangeFacts
<1>3. PICK p \in 1 .. Len(all[c]) : all[c][p] = x
  BY <1>2
<1>4. \A y \in Range(all[x]) : \E q \in p + 1 .. Len(all[c]) : all[c][q] = y
  BY <1>3, AllLater
<1>5. p + 1 .. Len(all[c]) \subseteq 1 .. Len(all[c])
  BY <1>2
<1> HIDE DEF all
<1>6. Range(all[x]) \subseteq Range(all[c])
  BY <1>2, <1>4, <1>5
<1>7. x \in Class
  BY <1>1 DEF all
<1>8. Range(s.bases[x]) \subseteq Range(all[x])
  BY <1>7, AllFacts DEF all
<1> QED
  BY <1>6, <1>8 DEF all

LEMMA NotOwnBase ==
  ASSUME NEW s \in Sources, NEW c \in Class
  PROVE  c \notin Range(GetAllBaseClasses(s)[c])
<1> DEFINE all == GetAllBaseClasses(s)
           T == {x \in Class : x \in Range(all[x])}
<1> SUFFICES ASSUME T # {} PROVE FALSE
  OBVIOUS
<1>1. PICK x \in T : \A b \in Range(s.bases[x]) : b \notin T
  BY Topmost
<1>2. Range(all[x]) = Range(s.bases[x]) \cup UNION {Range(all[b]) : b \in Range(s.bases[x])}
  BY AllFacts
<1>3. x \notin Range(s.bases[x])
  BY <1>1
<1>4. PICK b \in Range(s.bases[x]) : x \in Range(all[b])
  BY <1>2, <1>3
<1>5. b \in Class
  BY SourceFacts
<1>6. Range(s.bases[x]) \subseteq Range(all[b])
  BY <1>4, <1>5, AllTransitive
<1> QED
  BY <1>1, <1>5, <1>6

-----------------------------------------------------------------------------
(* FindWrappedBases and the gap above a class. *)

LEMMA DirectFacts ==
  ASSUME NEW s \in Sources, NEW c \in Class
  PROVE  /\ DirectWrapped(s, c) \in Seq(Class)
         /\ Range(DirectWrapped(s, c)) = Range(s.bases[c]) \cap s.grouped
         /\ IsInjective(DirectWrapped(s, c))
         /\ DirectWrapped(s, c) # << >> <=> Range(s.bases[c]) \cap s.grouped # {}
<1> DEFINE B == s.bases[c]
           n == Len(B)
           ss == [i \in 1 .. n |-> IF B[i] \in s.grouped THEN << B[i] >> ELSE << >>]
<1>1. /\ B \in Seq(Class) /\ n \in Nat /\ IsInjective(B)
      /\ Range(B) = {B[i] : i \in 1 .. n}
      /\ Range(B) \subseteq Class
  BY SourceFacts
<1>2. DirectWrapped(s, c) = FlattenSeq(ss)
  BY DEF DirectWrapped
<1>3. DOMAIN B = 1 .. n
  BY <1>1, LenProperties
<1>4. \A i \in 1 .. n : B[i] \in Class
  BY <1>1
<1> HIDE DEF B, n
<1>5. \A i \in 1 .. n : ss[i] = IF B[i] \in s.grouped THEN << B[i] >> ELSE << >>
  OBVIOUS
<1>6. \A y \in Class : /\ << y >> \in Seq(Class) /\ Range(<< y >>) = {y}
                       /\ IsInjective(<< y >>)
  <2> SUFFICES ASSUME NEW y \in Class
               PROVE  /\ << y >> \in Seq(Class) /\ Range(<< y >>) = {y}
                      /\ IsInjective(<< y >>)
    OBVIOUS
  <2>1. DOMAIN << y >> = {1} /\ << y >>[1] = y
    OBVIOUS
  <2>2. << y >> \in Seq(Class)
    OBVIOUS
  <2>3. Range(<< y >>) = {y}
    BY <2>1 DEF Range
  <2>4. IsInjective(<< y >>)
    BY <2>1 DEF IsInjective
  <2> QED
    BY <2>2, <2>3, <2>4
<1>7. << >> \in Seq(Class) /\ Range(<< >>) = {} /\ IsInjective(<< >>)
  BY DEF Range, IsInjective
<1>8. ss \in [1 .. n -> Seq(Class)]
  BY <1>4, <1>6, <1>7
<1>9. \A i \in 1 .. n : /\ IsInjective(ss[i])
                        /\ Range(ss[i]) = {B[i]} \cap s.grouped
  BY <1>4, <1>5, <1>6, <1>7
<1>10. \A i, j \in 1 .. n : i # j => Range(ss[i]) \cap Range(ss[j]) = {}
  <2>1. \A i, j \in 1 .. n : i # j => B[i] # B[j]
    BY <1>1, <1>3 DEF IsInjective
  <2> HIDE DEF ss
  <2> QED
    BY <1>9, <2>1
<1> HIDE DEF ss
<1>11. /\ FlattenSeq(ss) \in Seq(Class)
       /\ Range(FlattenSeq(ss)) = UNION {Range(ss[i]) : i \in 1 .. n}
       /\ (/\ \A i \in 1 .. n : IsInjective(ss[i])
           /\ \A i, j \in 1 .. n : i # j => Range(ss[i]) \cap Range(ss[j]) = {})
            => IsInjective(FlattenSeq(ss))
  BY <1>1, <1>8, FlattenFacts, Zenon
<1>12. Range(FlattenSeq(ss)) = Range(B) \cap s.grouped
  BY <1>1, <1>9, <1>11
<1>13. FlattenSeq(ss) # << >> <=> Range(FlattenSeq(ss)) # {}
  <2> DEFINE r == FlattenSeq(ss)
  <2>1. r \in Seq(Class)
    BY <1>11
  <2> HIDE DEF r
  <2>2. /\ Range(r) = {r[i] : i \in 1 .. Len(r)} /\ Len(r) \in Nat
        /\ r = << >> => Range(r) = {}
        /\ Len(r) = 0 <=> r = << >>
    BY <2>1, RangeFacts
  <2>3. Len(r) # 0 => 1 \in 1 .. Len(r)
    BY <2>2
  <2>4. r # << >> <=> Range(r) # {}
    BY <2>2, <2>3
  <2> QED
    BY <2>4 DEF r
<1>14. IsInjective(FlattenSeq(ss))
  BY <1>9, <1>10, <1>11
<1> QED
  BY <1>2, <1>11, <1>12, <1>13, <1>14 DEF B

LEMMA FoundFacts ==
  ASSUME NEW s \in Sources, NEW c \in Class
  PROVE  LET found == FindWrappedBases(s)
         IN  /\ found[c] \in Seq(Class)
             /\ found[c] = IF DirectWrapped(s, c) # << >> THEN DirectWrapped(s, c)
                           ELSE FlattenSeq(Blocks(s, found, c))
<1> DEFINE Step(f, x) == IF DirectWrapped(s, x) # << >> THEN DirectWrapped(s, x)
                         ELSE FlattenSeq(Blocks(s, f, x))
           found == FindWrappedBases(s)
<1>1. \E f : f = [x \in Class |-> Step(f, x)]
  <2> DEFINE g == [x \in Class |-> DirectWrapped(s, x)]
             D == {x \in Class : DirectWrapped(s, x) # << >>}
  <2>1. g \in [Class -> Seq(Class)]
    BY DirectFacts
  <2> HIDE DEF g, D
  <2>2. PICK f \in [Class -> Seq(Class)] : Recurs(s, g, D, f)
    BY <2>1, RecursionExists, Zenon
  <2>3. ASSUME NEW x \in Class PROVE f[x] = Step(f, x)
    <3>1. f[x] = IF x \in D THEN g[x] ELSE g[x] \o FlattenSeq(Blocks(s, f, x))
      BY <2>2 DEF Recurs
    <3>2. g[x] = DirectWrapped(s, x) /\ (x \in D <=> DirectWrapped(s, x) # << >>)
      BY DEF g, D
    <3>3. << >> \o FlattenSeq(Blocks(s, f, x)) = FlattenSeq(Blocks(s, f, x))
      <4>1. \A b \in Range(s.bases[x]) : f[b] \in Seq(Class)
        BY SourceFacts
      <4>2. FlattenSeq(Blocks(s, f, x)) \in Seq(Class)
        BY <4>1, BlocksFacts
      <4> QED
        BY <4>2, ConcatEmptySeq
    <3>4. CASE x \in D
      BY <3>1, <3>2, <3>4
    <3>5. CASE x \notin D
      BY <3>1, <3>2, <3>3, <3>5
    <3> QED
      BY <3>4, <3>5
  <2>4. f = [x \in Class |-> f[x]]
    OBVIOUS
  <2> HIDE DEF Step
  <2>5. f = [x \in Class |-> Step(f, x)]
    BY <2>3, <2>4
  <2> QED
    BY <2>5
<1>2. found = [x \in Class |-> Step(found, x)]
  <2>1. found = CHOOSE f : f = [x \in Class |-> Step(f, x)]
    BY DEF FindWrappedBases, Blocks
  <2> HIDE DEF found
  <2> QED
    BY <1>1, <2>1
<1> HIDE DEF found, Step
<1>3. \A x \in Class : found[x] = Step(found, x)
  BY <1>2
<1>4. \A x \in Class : found[x] \in Seq(Class)
  <2> DEFINE T == {x \in Class : found[x] \notin Seq(Class)}
  <2> SUFFICES ASSUME T # {} PROVE FALSE
    OBVIOUS
  <2>1. PICK x \in T : \A b \in Range(s.bases[x]) : b \notin T
    BY Topmost
  <2>2. \A b \in Range(s.bases[x]) : found[b] \in Seq(Class)
    BY <2>1, SourceFacts
  <2>3. DirectWrapped(s, x) \in Seq(Class) /\ FlattenSeq(Blocks(s, found, x)) \in Seq(Class)
    BY <2>2, BlocksFacts, DirectFacts
  <2>4. Step(found, x) \in Seq(Class)
    BY <2>3 DEF Step
  <2> QED
    BY <1>3, <2>4
<1> QED
  BY <1>3, <1>4 DEF found, Step

\* S goes on with the bases of its classes that have no base in a group.
GapClosed(s, S) ==
  \A x \in S : Range(s.bases[x]) \cap s.grouped # {} \/ Range(s.bases[x]) \subseteq S

\* The gap above c is the least such set that holds c.
LEMMA GapFacts ==
  ASSUME NEW s \in Sources, NEW c \in Class
  PROVE  /\ Gap(s, c) \subseteq Class
         /\ c \in Gap(s, c)
         /\ GapClosed(s, Gap(s, c))
         /\ \A S \in SUBSET Class : c \in S /\ GapClosed(s, S) => Gap(s, c) \subseteq S
<1> DEFINE G == Gap(s, c)
<1>1. G = {x \in Class : \A S \in SUBSET Class : c \in S /\ GapClosed(s, S) => x \in S}
  BY DEF Gap, GapClosed
<1> HIDE DEF G
<1>2. \A x \in Class : x \in G <=> \A S \in SUBSET Class : c \in S /\ GapClosed(s, S) => x \in S
  BY <1>1
<1>3. G \subseteq Class /\ c \in G
  BY <1>1
<1>4. \A S \in SUBSET Class : c \in S /\ GapClosed(s, S) => G \subseteq S
  BY <1>1
<1>5. ASSUME NEW x \in G, Range(s.bases[x]) \cap s.grouped = {}, NEW b \in Range(s.bases[x])
      PROVE  b \in G
  <2>1. b \in Class
    BY <1>3, SourceFacts
  <2>2. ASSUME NEW S \in SUBSET Class, c \in S, GapClosed(s, S) PROVE b \in S
    <3>1. x \in S
      BY <1>4, <2>2
    <3> QED
      BY <1>5, <2>2, <3>1 DEF GapClosed
  <2> QED
    BY <1>2, <2>1, <2>2
<1>6. GapClosed(s, G)
  BY <1>5 DEF GapClosed
<1> QED
  BY <1>3, <1>4, <1>6 DEF G

\* One step up.
LEMMA GapUnfold ==
  ASSUME NEW s \in Sources, NEW c \in Class
  PROVE  /\ Range(s.bases[c]) \cap s.grouped # {} => Gap(s, c) = {c}
         /\ Range(s.bases[c]) \cap s.grouped = {} =>
              Gap(s, c) = {c} \cup UNION {Gap(s, b) : b \in Range(s.bases[c])}
<1>0. Range(s.bases[c]) \subseteq Class
  BY SourceFacts
<1>1. ASSUME Range(s.bases[c]) \cap s.grouped # {} PROVE Gap(s, c) = {c}
  <2>1. {c} \in SUBSET Class /\ GapClosed(s, {c})
    BY <1>1 DEF GapClosed
  <2> QED
    BY <2>1, GapFacts
<1>2. ASSUME Range(s.bases[c]) \cap s.grouped = {}
      PROVE  Gap(s, c) = {c} \cup UNION {Gap(s, b) : b \in Range(s.bases[c])}
  <2> DEFINE R == {c} \cup UNION {Gap(s, b) : b \in Range(s.bases[c])}
  <2>1. \A b \in Range(s.bases[c]) : /\ b \in Class
                                     /\ Gap(s, b) \subseteq Class
                                     /\ b \in Gap(s, b)
                                     /\ GapClosed(s, Gap(s, b))
    BY <1>0, GapFacts
  <2>2. GapClosed(s, R)
    <3> SUFFICES ASSUME NEW x \in R, Range(s.bases[x]) \cap s.grouped = {},
                        NEW y \in Range(s.bases[x])
                 PROVE  y \in R
      BY DEF GapClosed
    <3>1. CASE x = c
      BY <2>1, <3>1
    <3>2. CASE x # c
      <4>1. PICK b \in Range(s.bases[c]) : x \in Gap(s, b)
        BY <3>2
      <4>2. y \in Gap(s, b)
        BY <2>1, <4>1 DEF GapClosed
      <4> QED
        BY <4>2
    <3> QED
      BY <3>1, <3>2
  <2>3. R \in SUBSET Class /\ c \in R
    BY <2>1
  <2> HIDE DEF R
  <2>4. Gap(s, c) \subseteq R
    BY <2>2, <2>3, GapFacts
  <2>5. ASSUME NEW b \in Range(s.bases[c]) PROVE Gap(s, b) \subseteq Gap(s, c)
    <3>1. b \in Gap(s, c)
      BY <1>2, GapFacts DEF GapClosed
    <3>2. Gap(s, c) \in SUBSET Class /\ GapClosed(s, Gap(s, c))
      BY GapFacts
    <3>3. b \in Class
      BY <2>1
    <3> QED
      BY <3>1, <3>2, <3>3, GapFacts
  <2>6. R \subseteq Gap(s, c)
    BY <2>5, GapFacts DEF R
  <2> QED
    BY <2>4, <2>6 DEF R
<1> QED
  BY <1>1, <1>2

\* FindWrappedBases stops where the gap ends.
LEMMA FoundRange ==
  ASSUME NEW s \in Sources, NEW c \in Class
  PROVE  Range(FindWrappedBases(s)[c]) =
           s.grouped \cap UNION {Range(s.bases[x]) : x \in Gap(s, c)}
<1> DEFINE found == FindWrappedBases(s)
           Exact(x) == s.grouped \cap UNION {Range(s.bases[y]) : y \in Gap(s, x)}
           T == {x \in Class : Range(found[x]) # Exact(x)}
<1>1. \A x \in Class : found[x] \in Seq(Class)
  BY FoundFacts
<1>2. \A x \in Class : found[x] = IF DirectWrapped(s, x) # << >> THEN DirectWrapped(s, x)
                                  ELSE FlattenSeq(Blocks(s, found, x))
  BY FoundFacts
<1> HIDE DEF found
<1> SUFFICES ASSUME T # {} PROVE FALSE
  BY DEF found
<1>3. PICK x \in T : \A b \in Range(s.bases[x]) : b \notin T
  BY Topmost
<1>4. x \in Class /\ Range(s.bases[x]) \subseteq Class
  BY SourceFacts
<1>5. CASE Range(s.bases[x]) \cap s.grouped # {}
  <2>1. found[x] = DirectWrapped(s, x) /\ Range(found[x]) = Range(s.bases[x]) \cap s.grouped
    BY <1>2, <1>4, <1>5, DirectFacts
  <2>2. Gap(s, x) = {x}
    BY <1>4, <1>5, GapUnfold
  <2>3. Exact(x) = s.grouped \cap Range(s.bases[x])
    BY <2>2
  <2> QED
    BY <2>1, <2>3
<1>6. CASE Range(s.bases[x]) \cap s.grouped = {}
  <2>1. found[x] = FlattenSeq(Blocks(s, found, x))
    BY <1>2, <1>4, <1>6, DirectFacts
  <2>2. \A b \in Range(s.bases[x]) : found[b] \in Seq(Class)
    BY <1>1, <1>4
  <2>3. Range(found[x]) = UNION {Range(found[b]) : b \in Range(s.bases[x])}
    BY <1>4, <2>1, <2>2, BlocksFacts
  <2>4. \A b \in Range(s.bases[x]) : Range(found[b]) = Exact(b)
    BY <1>3, <1>4
  <2>5. Gap(s, x) = {x} \cup UNION {Gap(s, b) : b \in Range(s.bases[x])}
    BY <1>4, <1>6, GapUnfold
  <2>6. Exact(x) = UNION {Exact(b) : b \in Range(s.bases[x])}
    <3>1. ASSUME NEW g \in Exact(x) PROVE \E b \in Range(s.bases[x]) : g \in Exact(b)
      <4>1. PICK y \in Gap(s, x) : g \in Range(s.bases[y])
        OBVIOUS
      <4>2. y # x
        BY <1>6, <4>1
      <4>3. PICK b \in Range(s.bases[x]) : y \in Gap(s, b)
        BY <2>5, <4>2
      <4>4. g \in Exact(b)
        BY <4>1, <4>3
      <4> QED
        BY <4>4
    <3>2. ASSUME NEW b \in Range(s.bases[x]) PROVE Exact(b) \subseteq Exact(x)
      BY <2>5
    <3> HIDE DEF Exact
    <3> QED
      BY <3>1, <3>2
  <2> HIDE DEF Exact
  <2>7. Range(found[x]) = Exact(x)
    BY <2>3, <2>4, <2>6
  <2> QED
    BY <2>7
<1> QED
  BY <1>5, <1>6

\* A class in a gap is where the gap begins or a base of another class in it.
LEMMA GapBelow ==
  ASSUME NEW s \in Sources, NEW c \in Class, NEW x \in Gap(s, c), x # c
  PROVE  \E y \in Gap(s, c) : x \in Range(s.bases[y])
<1> DEFINE G == Gap(s, c)
           S == {z \in G : z = c \/ \E y \in G : z \in Range(s.bases[y])}
<1>1. G \subseteq Class /\ c \in G /\ GapClosed(s, G)
  BY GapFacts
<1>2. S \in SUBSET Class /\ c \in S
  BY <1>1
<1>3. GapClosed(s, S)
  BY <1>1 DEF GapClosed
<1>4. G \subseteq S
  <2> HIDE DEF S
  <2> QED
    BY <1>2, <1>3, GapFacts
<1> QED
  BY <1>4

\* The gap above a base does not come back.
LEMMA GapAbove ==
  ASSUME NEW s \in Sources, NEW c \in Class, NEW b \in Range(s.bases[c])
  PROVE  c \notin Gap(s, b)
<1> DEFINE all == GetAllBaseClasses(s)
           S == {b} \cup Range(all[b])
<1>1. b \in Class
  BY SourceFacts
<1>2. /\ Range(all[b]) \subseteq Class
      /\ Range(s.bases[b]) \subseteq Range(all[b])
  BY <1>1, AllFacts
<1>3. \A x \in Range(all[b]) : Range(s.bases[x]) \subseteq Range(all[b])
  BY <1>1, AllTransitive
<1>4. S \in SUBSET Class /\ b \in S /\ GapClosed(s, S)
  BY <1>1, <1>2, <1>3 DEF GapClosed
<1>5. Gap(s, b) \subseteq S
  <2> HIDE DEF S
  <2> QED
    BY <1>1, <1>4, GapFacts
<1>6. Range(all[c]) = Range(s.bases[c]) \cup UNION {Range(all[d]) : d \in Range(s.bases[c])}
  BY AllFacts
<1>7. S \subseteq Range(all[c])
  BY <1>6
<1>8. c \notin Range(all[c])
  BY NotOwnBase
<1> QED
  BY <1>5, <1>7, <1>8

\* Where no two classes in the gap have a base in common, no base is found twice.
LEMMA FoundOnce ==
  ASSUME NEW s \in Sources, NEW c \in Class,
         \A x, y \in Gap(s, c) : x # y => Range(s.bases[x]) \cap Range(s.bases[y]) = {}
  PROVE  IsInjective(FindWrappedBases(s)[c])
<1> DEFINE found == FindWrappedBases(s)
           Apart(x) == \A y, z \in Gap(s, x) : y # z => Range(s.bases[y]) \cap Range(s.bases[z]) = {}
           T == {x \in Class : Apart(x) /\ ~ IsInjective(found[x])}
<1>1. \A x \in Class : found[x] \in Seq(Class)
  BY FoundFacts
<1>2. \A x \in Class : found[x] = IF DirectWrapped(s, x) # << >> THEN DirectWrapped(s, x)
                                  ELSE FlattenSeq(Blocks(s, found, x))
  BY FoundFacts
<1>3. \A x \in Class : Range(found[x]) = s.grouped \cap UNION {Range(s.bases[y]) : y \in Gap(s, x)}
  BY FoundRange
<1> HIDE DEF found
<1> SUFFICES ASSUME T # {} PROVE FALSE
  BY DEF found
<1>4. PICK x \in T : \A b \in Range(s.bases[x]) : b \notin T
  BY Topmost
<1>5. x \in Class /\ Range(s.bases[x]) \subseteq Class
  BY SourceFacts
<1>6. CASE Range(s.bases[x]) \cap s.grouped # {}
  <2>1. found[x] = DirectWrapped(s, x)
    BY <1>2, <1>5, <1>6, DirectFacts
  <2> QED
    BY <1>5, <2>1, DirectFacts
<1>7. CASE Range(s.bases[x]) \cap s.grouped = {}
  <2>1. found[x] = FlattenSeq(Blocks(s, found, x))
    BY <1>2, <1>5, <1>7, DirectFacts
  <2>2. \A b \in Range(s.bases[x]) : found[b] \in Seq(Class)
    BY <1>1, <1>5
  <2>3. Gap(s, x) = {x} \cup UNION {Gap(s, b) : b \in Range(s.bases[x])}
    BY <1>5, <1>7, GapUnfold
  <2>4. \A b \in Range(s.bases[x]) : Apart(b)
    BY <2>3
  <2>5. \A b \in Range(s.bases[x]) : IsInjective(found[b])
    <3> HIDE DEF Apart
    <3> QED
      BY <1>4, <1>5, <2>4
  <2>6. \A b \in Range(s.bases[x]) : x \notin Gap(s, b)
    BY <1>5, GapAbove
  <2>7. ASSUME NEW b \in Range(s.bases[x]), NEW d \in Range(s.bases[x]), b # d,
               NEW y \in Gap(s, b)
        PROVE  y \notin Gap(s, d)
    <3> DEFINE S == Gap(s, b) \ Gap(s, d)
    <3>1. b \in Class /\ d \in Class /\ b \in Gap(s, b) /\ Gap(s, b) \subseteq Class
      BY <1>5, GapFacts
    \* A base of x or of a class above b belongs to that class only.
    <3>2. ASSUME NEW z \in {x} \cup Gap(s, b), NEW e \in Range(s.bases[z]),
                 z \notin Gap(s, d), e \in Gap(s, d), e # d
          PROVE  FALSE
      <4>1. PICK w \in Gap(s, d) : e \in Range(s.bases[w])
        BY <3>1, <3>2, GapBelow
      <4>2. w # z /\ w \in Gap(s, x) /\ z \in Gap(s, x)
        BY <2>3, <3>2, <4>1
      <4> QED
        BY <3>2, <4>1, <4>2
    <3>3. b \in S
      BY <2>6, <2>7, <3>1, <3>2
    <3>4. GapClosed(s, S)
      <4> SUFFICES ASSUME NEW z \in S, Range(s.bases[z]) \cap s.grouped = {},
                          NEW e \in Range(s.bases[z])
                   PROVE  e \in S
        BY DEF GapClosed
      <4>1. e \in Gap(s, b)
        BY <3>1, GapFacts DEF GapClosed
      <4>2. e # d
        <5>1. z # x /\ z \in Gap(s, x) /\ x \in Gap(s, x)
          BY <2>3, <2>6
        <5> QED
          BY <5>1
      <4>3. e \notin Gap(s, d)
        BY <3>2, <4>2
      <4> QED
        BY <4>1, <4>3
    <3>5. S \in SUBSET Class
      BY <3>1
    <3> HIDE DEF S
    <3>6. Gap(s, b) \subseteq S
      BY <3>1, <3>3, <3>4, <3>5, GapFacts
    <3> QED
      BY <3>6 DEF S
  <2>8. ASSUME NEW b \in Range(s.bases[x]), NEW d \in Range(s.bases[x]), b # d
        PROVE  Range(found[b]) \cap Range(found[d]) = {}
    <3> SUFFICES ASSUME NEW g \in Range(found[b]) \cap Range(found[d]) PROVE FALSE
      OBVIOUS
    <3>1. PICK y \in Gap(s, b) : g \in Range(s.bases[y])
      BY <1>3, <1>5
    <3>2. PICK z \in Gap(s, d) : g \in Range(s.bases[z])
      BY <1>3, <1>5
    <3>3. y # z
      BY <2>7, <2>8
    <3>4. y \in Gap(s, x) /\ z \in Gap(s, x)
      BY <2>3
    <3> QED
      BY <3>1, <3>2, <3>3, <3>4
  <2>9. IsInjective(FlattenSeq(Blocks(s, found, x)))
    <3> HIDE DEF T, Apart
    <3> QED
      BY <1>5, <2>2, <2>5, <2>8, BlocksFacts
  <2> QED
    BY <2>1, <2>9
<1> QED
  BY <1>6, <1>7

-----------------------------------------------------------------------------
(* Closed sets, frames of the stack and what is handed over. *)

LEMMA RangeIn ==
  ASSUME NEW r \in Seq(Class), NEW S
  PROVE  Range(r) \subseteq S <=> \A i \in 1 .. Len(r) : r[i] \in S
<1>1. Range(r) = {r[i] : i \in 1 .. Len(r)}
  BY RangeFacts
<1> QED
  BY <1>1

LEMMA ClosedFacts ==
  ASSUME NEW s \in Sources, NEW S \in SUBSET Class
  PROVE  /\ Closed(s, S) <=> /\ \A i \in 1 .. Len(s.wrappers) : s.wrappers[i] \in S
                             /\ \A c \in S : /\ Range(s.bases[c]) \subseteq S
                                             /\ Range(s.uses[c]) \subseteq S
         /\ Closed(s, S) => \A c \in S : Range(GetAllBaseClasses(s)[c]) \subseteq S
<1>1. \A c \in S : s.bases[c] \in Seq(Class) /\ s.uses[c] \in Seq(Class)
  BY SourceFacts
<1>2. \A c \in S : /\ Range(s.bases[c]) \subseteq S <=> \A i \in 1 .. Len(s.bases[c]) : s.bases[c][i] \in S
                   /\ Range(s.uses[c]) \subseteq S <=> \A i \in 1 .. Len(s.uses[c]) : s.uses[c][i] \in S
  BY <1>1, RangeIn
<1>3. Closed(s, S) <=> /\ \A i \in 1 .. Len(s.wrappers) : s.wrappers[i] \in S
                       /\ \A c \in S : /\ Range(s.bases[c]) \subseteq S
                                       /\ Range(s.uses[c]) \subseteq S
  BY <1>2 DEF Closed
<1>4. ASSUME Closed(s, S) PROVE \A c \in S : Range(GetAllBaseClasses(s)[c]) \subseteq S
  <2>1. \A x \in S : Range(s.bases[x]) \subseteq S
    BY <1>3, <1>4
  <2> QED
    BY <2>1, AllInClosed
<1> QED
  BY <1>3, <1>4

Frame == [at : {"class", "parents", "uses"}, list : Seq(Class)]

\* A call replaces the innermost frame by two.
LEMMA PushTwo ==
  ASSUME NEW st \in Seq(Frame), st # << >>, NEW f \in Frame, NEW g \in Frame
  PROVE  /\ Tail(st) \in Seq(Frame)
         /\ Head(st) \in Frame
         /\ << f, g >> \o Tail(st) \in Seq(Frame)
         /\ Range(st) = {Head(st)} \cup Range(Tail(st))
         /\ Range(<< f, g >> \o Tail(st)) = {f, g} \cup Range(Tail(st))
<1>1. /\ Tail(st) \in Seq(Frame) /\ Head(st) \in Frame /\ Head(st) = st[1]
      /\ Range(st) = {st[1]} \cup Range(Tail(st))
  BY TailFacts
<1>2. << f, g >> \in Seq(Frame) /\ Range(<< f, g >>) = {f, g}
  <2>1. << f, g >> \in Seq(Frame)
    OBVIOUS
  <2>2. DOMAIN << f, g >> = {1, 2} /\ << f, g >>[1] = f /\ << f, g >>[2] = g
    OBVIOUS
  <2>3. Range(<< f, g >>) = {f, g}
    BY <2>2 DEF Range
  <2> QED
    BY <2>1, <2>3
<1>3. /\ << f, g >> \o Tail(st) \in Seq(Frame)
      /\ Range(<< f, g >> \o Tail(st)) = Range(<< f, g >>) \cup Range(Tail(st))
  <2> DEFINE p == << f, g >>
             r == Tail(st)
  <2>1. p \in Seq(Frame) /\ r \in Seq(Frame)
    BY <1>1, <1>2
  <2> HIDE DEF p, r
  <2>2. p \o r \in Seq(Frame) /\ Range(p \o r) = Range(p) \cup Range(r)
    BY <2>1, ConcatFacts
  <2> QED
    BY <2>2 DEF p, r
<1> QED
  BY <1>1, <1>2, <1>3

LEMMA OneElement ==
  ASSUME NEW T, NEW x \in T
  PROVE  << x >> \in Seq(T) /\ Len(<< x >>) = 1 /\ Range(<< x >>) = {x} /\ << x >>[1] = x
<1>1. DOMAIN << x >> = {1} /\ << x >>[1] = x /\ << x >> \in Seq(T) /\ Len(<< x >>) = 1
  OBVIOUS
<1>2. Range(<< x >>) = {x}
  BY <1>1 DEF Range
<1> QED
  BY <1>1, <1>2

\* A list of one class holds its first element.
LEMMA OneOnly ==
  ASSUME NEW l \in Seq(Class), Len(l) = 1
  PROVE  Range(l) = {l[1]} /\ l[1] \in Class
<1>1. Range(l) = {l[i] : i \in 1 .. Len(l)} /\ Range(l) \subseteq Class
  BY RangeFacts
<1>2. 1 .. Len(l) = {1}
  OBVIOUS
<1> QED
  BY <1>1, <1>2

LEMMA NamedFacts ==
  ASSUME NEW s \in Sources, NEW n \in Nat \ {0}, n <= Len(s.wrappers)
  PROVE  /\ s.wrappers[n] \in Class
         /\ {s.wrappers[i] : i \in 1 .. (n + 1) - 1} = {s.wrappers[i] : i \in 1 .. n - 1} \cup {s.wrappers[n]}
<1>1. s.wrappers \in Seq(Class)
  BY CableSwigAssumption DEF Source
<1>2. Len(s.wrappers) \in Nat /\ s.wrappers \in [1 .. Len(s.wrappers) -> Class]
  BY <1>1, LenProperties
<1>3. n \in 1 .. Len(s.wrappers)
  BY <1>2
<1>4. 1 .. (n + 1) - 1 = 1 .. n - 1 \cup {n}
  OBVIOUS
<1> QED
  BY <1>2, <1>3, <1>4

-----------------------------------------------------------------------------
(* DetermineClassesToWrap keeps the invariant. *)

LEMMA IInvInit == Init => IInv
<1> SUFFICES ASSUME Init PROVE IInv
  OBVIOUS
<1> USE DEF Init
<1>0. source \in Sources /\ source \in Source
  BY CableSwigAssumption
<1>1. << >> \in Seq(Class) /\ << >> \in Seq(Frame) /\ Len(<< >>) = 0 /\ Range(<< >>) = {}
      /\ << >> \in Seq([class : Class, kind : {"include", "import", "ignore"}, baselist : Seq(Class)])
  BY DEF Range
<1>2. Len(source.wrappers) \in Nat
  BY <1>0, LenProperties DEF Source
<1>3. TypeOK
  BY <1>0, <1>1 DEF TypeOK, Frame
<1>4. NamedSoFar = {}
  BY DEF NamedSoFar
<1>5. Determined
  BY <1>1, <1>2, <1>4 DEF Determined
<1>6. Remembered /\ HandedOnce /\ BasesFirst /\ TopExact
  BY <1>1 DEF Remembered, HandedOnce, BasesFirst, TopExact
<1>7. WorkOrdered
  BY <1>1 DEF WorkOrdered
<1>8. NoneForgotten
  BY DEF NoneForgotten
<1>9. OnlyNeeded
  BY <1>1 DEF OnlyNeeded
<1>10. Importing
  BY <1>1, <1>4 DEF Importing
<1>11. ChosenClosed
  BY DEF ChosenClosed
<1> QED
  BY <1>0, <1>3, <1>5, <1>6, <1>7, <1>8, <1>9, <1>10, <1>11 DEF IInv

\* While the classes are determined nothing is handed over.
LEMMA Determining ==
  ASSUME top' = << >>, m_ClassesIncludedOrImported' = {}, work' = << >>,
         phase' = "determine"
  PROVE  (Remembered /\ WorkOrdered /\ HandedOnce /\ BasesFirst /\ TopExact /\ NoneForgotten
            /\ ChosenClosed)'
<1>1. Len(<< >>) = 0 /\ 1 .. 0 = {}
  OBVIOUS
<1>2. Remembered'
  BY <1>1 DEF Remembered
<1>3. WorkOrdered'
  BY <1>1 DEF WorkOrdered
<1>4. HandedOnce' /\ BasesFirst' /\ TopExact'
  BY <1>1 DEF HandedOnce, BasesFirst, TopExact
<1>5. NoneForgotten' /\ ChosenClosed'
  BY DEF NoneForgotten, ChosenClosed
<1> QED
  BY <1>2, <1>3, <1>4, <1>5

LEMMA IInvWrapTypedef ==
  ASSUME IInv, WrapTypedef
  PROVE  IInv'
<1>0. PICK c : c = source.wrappers[next]
  OBVIOUS
<1>h. PICK h : h = [at |-> "class", list |-> << c >>]
  OBVIOUS
<1>1. /\ source' = source /\ source \in Sources /\ next' = next + 1
      /\ phase = "determine" /\ phase' = "determine"
      /\ stack = << >> /\ stack' = << h >>
      /\ next <= Len(source.wrappers)
      /\ m_ClassesToBeIncluded' = m_ClassesToBeIncluded \cup {c}
      /\ m_TypedefLookup' = IF m_TypedefLookup[c] = 0
                            THEN [m_TypedefLookup EXCEPT ![c] = next] ELSE m_TypedefLookup
      /\ m_ClassesToBeImported' = m_ClassesToBeImported
      /\ UNCHANGED emitted /\ remaining' = remaining /\ work' = work
  BY <1>0, <1>h DEF WrapTypedef, IInv
<1>2. TypeOK /\ Determined /\ OnlyNeeded /\ Importing
  BY DEF IInv
<1>3. next \in Nat \ {0} /\ Len(source.wrappers) \in Nat
  <2>1. source.wrappers \in Seq(Class)
    BY <1>1, CableSwigAssumption DEF Source
  <2> QED
    BY <1>2, <2>1, LenProperties DEF TypeOK
<1>4. c \in Class /\ NamedSoFar' = NamedSoFar \cup {c}
  BY <1>0, <1>1, <1>3, NamedFacts DEF NamedSoFar
<1>5. /\ << c >> \in Seq(Class) /\ Len(<< c >>) = 1 /\ Range(<< c >>) = {c}
  BY <1>4, OneElement
<1>6. h \in Frame
  BY <1>5, <1>h DEF Frame
<1>7. h.at = "class" /\ h.list = << c >>
  BY <1>h
<1>8. stack' \in Seq(Frame) /\ Range(stack') = {h} /\ Range(stack) = {} /\ stack' # << >>
  <2>1. << h >> \in Seq(Frame) /\ Range(<< h >>) = {h} /\ Len(<< h >>) = 1
    BY <1>6, OneElement
  <2>2. Range(<< >>) = {}
    BY DEF Range
  <2> QED
    BY <1>1, <2>1, <2>2
<1>9. /\ top' = << >> /\ m_ClassesIncludedOrImported' = {} /\ work' = << >> /\ remaining' = {}
  BY <1>1, <1>2 DEF Determined, emitted
<1>10. m_TypedefLookup' \in [Class -> Nat] /\ m_TypedefLookup'[c] # 0
       /\ \A x \in Class : m_TypedefLookup[x] # 0 => m_TypedefLookup'[x] # 0
  <2>1. m_TypedefLookup \in [Class -> Nat]
    BY <1>2 DEF TypeOK
  <2> QED
    BY <1>1, <1>3, <1>4, <2>1
<1>11. TypeOK'
  BY <1>1, <1>2, <1>3, <1>4, <1>8, <1>10 DEF TypeOK, emitted, Frame
<1>12. Determined'
  <2>1. m_ClassesToBeIncluded' = NamedSoFar'
    BY <1>1, <1>2, <1>4 DEF Determined
  <2>2. \A x \in m_ClassesToBeIncluded' : m_TypedefLookup'[x] # 0
    BY <1>1, <1>2, <1>10 DEF Determined, TypeOK
  <2>3. \A f \in Range(stack') : f.at = "class" => Len(f.list) = 1
    BY <1>5, <1>7, <1>8
  <2>4. next' <= Len(source'.wrappers) + 1
    BY <1>1, <1>3
  <2> QED
    BY <1>1, <1>9, <2>1, <2>2, <2>3, <2>4 DEF Determined
<1>13. OnlyNeeded'
  <2> SUFFICES ASSUME NEW S \in SUBSET Class, Closed(source, S)
               PROVE  /\ (m_ClassesToBeIncluded \cup m_ClassesToBeImported \subseteq S)'
                      /\ (m_ClassesIncludedOrImported \cup remaining \cup Range(work) \subseteq S)'
                      /\ \A f \in Range(stack') : Range(f.list) \subseteq S
    BY <1>1 DEF OnlyNeeded
  <2>1. c \in S
    <3>1. next \in 1 .. Len(source.wrappers)
      BY <1>1, <1>3
    <3> QED
      BY <1>0, <1>1, <3>1, ClosedFacts
  <2>2. m_ClassesToBeIncluded \cup m_ClassesToBeImported \subseteq S
    BY <1>2 DEF OnlyNeeded
  <2>3. Range(work') = {}
    BY <1>9 DEF Range
  <2> QED
    BY <1>1, <1>5, <1>7, <1>8, <1>9, <2>1, <2>2, <2>3
<1>14. Importing'
  <2> SUFFICES ASSUME SingleInheritance PROVE Importing'
    BY <1>1 DEF Importing, SingleInheritance
  <2>1. \A at, x : ~ Pending(at, x)
    BY <1>8 DEF Pending
  <2>2. Pends(h, "class", c)
    BY <1>5, <1>7 DEF Pends
  <2>3. Pending("class", c)'
    BY <1>8, <2>2 DEF Pending
  <2>4. /\ \A x \in m_ClassesToBeImported :
             /\ \A b \in Range(source.bases[x]) : b \in m_ClassesToBeImported
             /\ \A u \in Range(source.uses[x]) : u \in m_ClassesToBeImported
        /\ \A x \in NamedSoFar : x \in m_ClassesToBeImported
    BY <1>1, <1>2, <2>1 DEF Importing
  <2>5. \A f \in Range(stack') : f.at # "parents"
    BY <1>7, <1>8
  <2>6. \A x \in NamedSoFar' : x \in m_ClassesToBeImported \/ x = c
    BY <1>4, <2>4
  <2> QED
    BY <1>1, <2>3, <2>4, <2>5, <2>6 DEF Importing
<1>15. (Remembered /\ WorkOrdered /\ HandedOnce /\ BasesFirst /\ TopExact /\ NoneForgotten
          /\ ChosenClosed)'
  BY <1>1, <1>9, Determining
<1> QED
  BY <1>1, <1>11, <1>12, <1>13, <1>14, <1>15 DEF IInv

\* The frames in New, in the place of h, and the classes in Added are needed.
Needs(h, New, Added) ==
  /\ \A f \in New : f.at = "class" => Len(f.list) = 1
  /\ \A S \in SUBSET Class : Closed(source, S) /\ Range(h.list) \subseteq S =>
       Added \subseteq S /\ \A f \in New : Range(f.list) \subseteq S

\* The frames in New see to what h saw to and to what the classes in Added need.
Continues(h, New, Added, imported) ==
  /\ \A f \in New : f.at = "parents" =>
       \E c \in Class : f.list = GetAllBaseClasses(source)[c]
  /\ \A b : Pends(h, "parents", b) \/ Pends(h, "class", b) => b \in imported
  /\ \A u : Pends(h, "uses", u) =>
       \E f \in New : Pends(f, "uses", u) \/ Pends(f, "class", u)
  /\ \A c \in Added :
       /\ \A b \in Range(source.bases[c]) : \E f \in New : Pends(f, "parents", b)
       /\ \A u \in Range(source.uses[c]) : \E f \in New : Pends(f, "uses", u)

\* A step of AddClassToBeImported takes the innermost frame h away, puts those in
\* New in its place, and adds the classes in Added.
LEMMA StackStep ==
  ASSUME IInv, stack # << >>, NEW h, h = Head(stack), NEW New \in SUBSET Frame, NEW Added \in SUBSET Class,
         UNCHANGED << source, m_TypedefLookup, m_ClassesToBeIncluded, emitted, next, remaining,
                      work, phase >>,
         m_ClassesToBeImported' = m_ClassesToBeImported \cup Added,
         stack' \in Seq(Frame),
         Range(stack') = New \cup Range(Tail(stack)),
         Needs(h, New, Added),
         SingleInheritance => Continues(h, New, Added, m_ClassesToBeImported')
  PROVE  IInv'
<1>1. TypeOK /\ Determined /\ OnlyNeeded /\ Importing /\ source \in Sources
  BY DEF IInv
<1>2. stack \in Seq(Frame)
  BY <1>1 DEF TypeOK, Frame
<1>3. /\ source' = source /\ m_TypedefLookup' = m_TypedefLookup
      /\ m_ClassesToBeIncluded' = m_ClassesToBeIncluded
      /\ UNCHANGED emitted /\ next' = next /\ remaining' = remaining /\ work' = work
      /\ phase = "determine" /\ phase' = "determine"
  BY <1>1 DEF Determined
<1>4. /\ Tail(stack) \in Seq(Frame) /\ h \in Frame
      /\ Range(stack) = {h} \cup Range(Tail(stack))
      /\ Range(Tail(stack)) \subseteq Frame
  <2>1. /\ Head(stack) \in Frame /\ Head(stack) = stack[1] /\ Tail(stack) \in Seq(Frame)
        /\ Range(stack) = {stack[1]} \cup Range(Tail(stack))
    BY <1>2, TailFacts
  <2>2. Range(Tail(stack)) \subseteq Frame
    BY <2>1, RangeFacts
  <2> QED
    BY <2>1, <2>2
<1>5. /\ top' = << >> /\ m_ClassesIncludedOrImported' = {} /\ work' = << >> /\ remaining' = {}
  BY <1>1, <1>3 DEF Determined, emitted
<1>6. TypeOK'
  BY <1>1, <1>3, <1>5 DEF TypeOK, emitted, Frame
<1>7. NamedSoFar' = NamedSoFar /\ (SingleInheritance' <=> SingleInheritance)
  BY <1>3 DEF NamedSoFar, SingleInheritance
<1>8. Determined'
  <2>1. \A f \in Range(stack') : f.at = "class" => Len(f.list) = 1
    BY <1>1, <1>4 DEF Determined, Needs
  <2>2. m_ClassesToBeIncluded' = NamedSoFar'
    BY <1>1, <1>3, <1>7 DEF Determined
  <2>3. /\ next' <= Len(source'.wrappers) + 1
        /\ \A c \in m_ClassesToBeIncluded' : m_TypedefLookup'[c] # 0
    BY <1>1, <1>3 DEF Determined
  <2> QED
    BY <1>3, <1>5, <2>1, <2>2, <2>3 DEF Determined
<1>9. OnlyNeeded'
  <2> SUFFICES ASSUME NEW S \in SUBSET Class, Closed(source, S)
               PROVE  /\ (m_ClassesToBeIncluded \cup m_ClassesToBeImported \subseteq S)'
                      /\ (m_ClassesIncludedOrImported \cup remaining \cup Range(work) \subseteq S)'
                      /\ \A f \in Range(stack') : Range(f.list) \subseteq S
    BY <1>3 DEF OnlyNeeded
  <2>1. /\ m_ClassesToBeIncluded \cup m_ClassesToBeImported \subseteq S
        /\ \A f \in Range(stack) : Range(f.list) \subseteq S
    BY <1>1 DEF OnlyNeeded
  <2>2. Range(h.list) \subseteq S
    BY <1>4, <2>1
  <2>3. Added \subseteq S /\ \A f \in New : Range(f.list) \subseteq S
    BY <2>2 DEF Needs
  <2>4. Range(work') = {}
    BY <1>5 DEF Range
  <2> QED
    BY <1>3, <1>4, <1>5, <2>1, <2>3, <2>4
<1>10. Importing'
  <2> SUFFICES ASSUME SingleInheritance PROVE Importing'
    BY <1>7 DEF Importing
  <2>1. /\ \A f \in Range(stack) : f.at = "parents" =>
             \E c \in Class : f.list = GetAllBaseClasses(source)[c]
        /\ \A c \in m_ClassesToBeImported :
             /\ \A b \in Range(source.bases[c]) : b \in m_ClassesToBeImported \/ Pending("parents", b)
             /\ \A u \in Range(source.uses[c]) :
                  u \in m_ClassesToBeImported \/ Pending("uses", u) \/ Pending("class", u)
        /\ \A c \in NamedSoFar : c \in m_ClassesToBeImported \/ Pending("class", c)
    BY <1>1, <1>3 DEF Importing
  <2>2. ASSUME NEW at, NEW x, Pending(at, x)
        PROVE  Pends(h, at, x) \/ Pending(at, x)'
    BY <1>4, <2>2 DEF Pending
  <2>3. ASSUME NEW at, NEW x, NEW f \in New, Pends(f, at, x)
        PROVE  Pending(at, x)'
    BY <2>3 DEF Pending
  <2>4. /\ \A f \in New : f.at = "parents" =>
             \E c \in Class : f.list = GetAllBaseClasses(source)[c]
        /\ \A b : Pends(h, "parents", b) \/ Pends(h, "class", b) => b \in m_ClassesToBeImported'
        /\ \A u : Pends(h, "uses", u) =>
             \E f \in New : Pends(f, "uses", u) \/ Pends(f, "class", u)
        /\ \A c \in Added :
             /\ \A b \in Range(source.bases[c]) : \E f \in New : Pends(f, "parents", b)
             /\ \A u \in Range(source.uses[c]) : \E f \in New : Pends(f, "uses", u)
    BY DEF Continues
  <2>5. \A b : Pending("parents", b) => b \in m_ClassesToBeImported' \/ Pending("parents", b)'
    BY <2>2, <2>4
  <2>6. \A b : Pending("class", b) => b \in m_ClassesToBeImported' \/ Pending("class", b)'
    BY <2>2, <2>4
  <2>7. \A u : Pending("uses", u) => Pending("uses", u)' \/ Pending("class", u)'
    BY <2>2, <2>3, <2>4
  <2>8. \A f \in Range(stack') : f.at = "parents" =>
          \E c \in Class : f.list = GetAllBaseClasses(source)[c]
    BY <1>4, <2>1, <2>4
  <2>9. ASSUME NEW c \in m_ClassesToBeImported'
        PROVE  /\ \A b \in Range(source.bases[c]) : b \in m_ClassesToBeImported' \/ Pending("parents", b)'
               /\ \A u \in Range(source.uses[c]) :
                    u \in m_ClassesToBeImported' \/ Pending("uses", u)' \/ Pending("class", u)'
    <3>1. CASE c \in m_ClassesToBeImported
      <4>1. \A b \in Range(source.bases[c]) : b \in m_ClassesToBeImported' \/ Pending("parents", b)'
        BY <2>1, <2>5, <3>1
      <4>2. \A u \in Range(source.uses[c]) :
              u \in m_ClassesToBeImported' \/ Pending("uses", u)' \/ Pending("class", u)'
        BY <2>1, <2>6, <2>7, <3>1
      <4> QED
        BY <4>1, <4>2
    <3>2. CASE c \in Added
      BY <2>3, <2>4, <3>2
    <3> QED
      BY <3>1, <3>2
  <2>10. \A c \in NamedSoFar' : c \in m_ClassesToBeImported' \/ Pending("class", c)'
    BY <1>7, <2>1, <2>6
  <2> QED
    BY <1>3, <2>8, <2>9, <2>10 DEF Importing
<1>11. (Remembered /\ WorkOrdered /\ HandedOnce /\ BasesFirst /\ TopExact /\ NoneForgotten
          /\ ChosenClosed)'
  BY <1>3, <1>5, Determining
<1> QED
  BY <1>1, <1>3, <1>6, <1>8, <1>9, <1>10, <1>11 DEF IInv

\* The stack is popped.
LEMMA Pop ==
  ASSUME IInv, stack # << >>, stack' = Tail(stack),
         UNCHANGED << source, chosen, emitted, next, remaining, work, phase >>,
         \A b : Pends(Head(stack), "parents", b) \/ Pends(Head(stack), "class", b)
                  => b \in m_ClassesToBeImported,
         \A u : ~ Pends(Head(stack), "uses", u)
  PROVE  IInv'
<1>1. stack \in Seq(Frame)
  BY DEF IInv, TypeOK, Frame
<1>2. stack' \in Seq(Frame)
  BY <1>1, TailFacts
<1>3. m_ClassesToBeImported' = m_ClassesToBeImported /\ m_TypedefLookup' = m_TypedefLookup
      /\ m_ClassesToBeIncluded' = m_ClassesToBeIncluded
  BY DEF chosen
<1>h. PICK h : h = Head(stack)
  OBVIOUS
<1> DEFINE N == {}
           A == {}
<1>4. /\ N \in SUBSET Frame /\ A \in SUBSET Class
      /\ m_ClassesToBeImported' = m_ClassesToBeImported \cup A
      /\ Range(stack') = N \cup Range(Tail(stack))
      /\ \A x \in N : FALSE
      /\ \A x \in A : FALSE
  BY <1>3
<1>5. UNCHANGED << source, m_TypedefLookup, m_ClassesToBeIncluded, emitted, next, remaining,
                   work, phase >>
  BY <1>3
<1> HIDE DEF N, A
<1>6. Needs(h, N, A)
  BY <1>4 DEF Needs
<1>7. Continues(h, N, A, m_ClassesToBeImported')
  BY <1>3, <1>4, <1>h DEF Continues
<1> QED
  BY <1>2, <1>4, <1>5, <1>6, <1>7, <1>h, StackStep

LEMMA HeadFacts ==
  ASSUME IInv, stack # << >>
  PROVE  /\ stack \in Seq(Frame) /\ Head(stack) \in Frame
         /\ Head(stack).list \in Seq(Class)
         /\ Head(stack) \in Range(stack)
         /\ source \in Sources
         /\ Head(stack).at = "class" =>
              /\ Range(Head(stack).list) = {Head(stack).list[1]}
              /\ Head(stack).list[1] \in Class
<1>1. TypeOK /\ Determined /\ source \in Sources
  BY DEF IInv
<1>2. stack \in Seq(Frame)
  BY <1>1 DEF TypeOK, Frame
<1>3. Head(stack) \in Frame /\ Head(stack) \in Range(stack)
  BY <1>2, TailFacts
<1>4. Head(stack).list \in Seq(Class)
  BY <1>3 DEF Frame
<1>5. Head(stack).at = "class" => Len(Head(stack).list) = 1
  BY <1>1, <1>3 DEF Determined
<1> QED
  BY <1>1, <1>2, <1>3, <1>4, <1>5, OneOnly

\* With single inheritance the first parent is the base, and the others are its parents.
LEMMA SingleParents ==
  ASSUME source \in Sources, SingleInheritance, NEW c \in Class
  PROVE  LET all == GetAllBaseClasses(source)
         IN  /\ \A b \in Range(source.bases[c]) : all[c] # << >> /\ all[c][1] = b
             /\ all[c] # << >> => Tail(all[c]) = all[all[c][1]]
<1> DEFINE all == GetAllBaseClasses(source)
<1>s. PICK B : B = source.bases[c]
  OBVIOUS
<1>0. B \in Seq(Class) /\ Len(B) <= 1
  BY <1>s, SourceFacts DEF SingleInheritance
<1>1. /\ B \in Seq(Class) /\ Len(B) \in Nat /\ Len(B) <= 1
      /\ Range(B) = {B[i] : i \in 1 .. Len(B)} /\ Range(B) \subseteq Class
  BY <1>0, RangeFacts
<1>2. /\ Len(B) = 0 => all[c] = << >>
      /\ Len(B) = 1 => all[c] = B \o all[B[1]]
  BY <1>s, AllFacts
<1>3. CASE Len(B) = 0
  <2>1. Range(B) = {}
    BY <1>1, <1>3
  <2> QED
    BY <1>2, <1>3, <1>s, <2>1
<1>4. CASE Len(B) = 1
  <2>1. Range(B) = {B[1]} /\ B[1] \in Class
    BY <1>1, <1>4, OneOnly
  <2>2. PICK r : r = all[B[1]]
    OBVIOUS
  <2>3. r \in Seq(Class)
    BY <2>1, <2>2, AllFacts
  <2>4. all[c] = B \o r
    BY <1>2, <1>4, <2>2
  <2> HIDE DEF all
  <2>5. /\ B \o r \in Seq(Class) /\ Len(B \o r) = 1 + Len(r) /\ Len(r) \in Nat
        /\ (B \o r)[1] = B[1]
        /\ \A i \in 1 .. Len(r) : (B \o r)[1 + i] = r[i]
    <3>1. /\ B \o r \in Seq(Class)
          /\ Len(B \o r) = Len(B) + Len(r) /\ Len(r) \in Nat
          /\ \A i \in 1 .. Len(B) : (B \o r)[i] = B[i]
          /\ \A i \in 1 .. Len(r) : (B \o r)[Len(B) + i] = r[i]
      BY <1>1, <2>3, ConcatFacts
    <3>2. 1 \in 1 .. Len(B)
      BY <1>4
    <3> QED
      BY <1>4, <3>1, <3>2
  <2>6. PICK t : t = B \o r
    OBVIOUS
  <2>7. /\ t \in Seq(Class) /\ Len(t) = 1 + Len(r) /\ t[1] = B[1]
        /\ \A i \in 1 .. Len(r) : t[1 + i] = r[i]
    BY <2>5, <2>6
  <2>8. t # << >>
    BY <2>5, <2>7
  <2>9. /\ Tail(t) \in Seq(Class)
        /\ Len(Tail(t)) = Len(r)
        /\ \A i \in 1 .. Len(r) : Tail(t)[i] = r[i]
    <3>1. /\ Tail(t) \in Seq(Class)
          /\ Len(Tail(t)) = Len(t) - 1
          /\ \A i \in 1 .. Len(Tail(t)) : Tail(t)[i] = t[i + 1]
      BY <2>7, <2>8, TailFacts
    <3> QED
      BY <2>5, <2>7, <3>1
  <2>10. Tail(t) = r
    BY <2>3, <2>9, SeqEqual
  <2> QED
    BY <1>s, <2>1, <2>2, <2>4, <2>6, <2>7, <2>8, <2>10 DEF all
<1>5. Len(B) = 0 \/ Len(B) = 1
  <2>1. \A n \in Nat : n <= 1 => n = 0 \/ n = 1
    OBVIOUS
  <2> QED
    BY <1>1, <2>1, Zenon
<1> QED
  BY <1>3, <1>4, <1>5

LEMMA IInvAddClassToBeImported ==
  ASSUME IInv, AddClassToBeImported
  PROVE  IInv'
<1>1. stack # << >> /\ Head(stack).at = "class"
  BY DEF AddClassToBeImported
<1>h. PICK h : h = Head(stack)
  OBVIOUS
<1>c. PICK c : c = Head(stack).list[1]
  OBVIOUS
<1>2. /\ stack \in Seq(Frame) /\ h \in Frame /\ h.at = "class"
      /\ Range(h.list) = {c} /\ c \in Class /\ source \in Sources
  BY <1>1, <1>h, <1>c, HeadFacts
<1>3. UNCHANGED << source, m_TypedefLookup, m_ClassesToBeIncluded, emitted, next, remaining,
                   work, phase >>
  BY DEF AddClassToBeImported
<1>4. \/ /\ c \in m_ClassesToBeImported
         /\ stack' = Tail(stack)
         /\ m_ClassesToBeImported' = m_ClassesToBeImported
      \/ /\ c \notin m_ClassesToBeImported
         /\ m_ClassesToBeImported' = m_ClassesToBeImported \cup {c}
         /\ stack' = << [at |-> "parents", list |-> GetAllBaseClasses(source)[c]],
                        [at |-> "uses", list |-> source.uses[c]] >> \o Tail(stack)
  BY <1>c DEF AddClassToBeImported
<1>5. CASE /\ c \in m_ClassesToBeImported
           /\ stack' = Tail(stack)
           /\ m_ClassesToBeImported' = m_ClassesToBeImported
  <2>1. UNCHANGED << source, chosen, emitted, next, remaining, work, phase >>
    BY <1>3, <1>5 DEF chosen
  <2>2. /\ \A b : Pends(h, "parents", b) \/ Pends(h, "class", b) => b \in m_ClassesToBeImported
        /\ \A u : ~ Pends(h, "uses", u)
    BY <1>2, <1>5 DEF Pends
  <2> QED
    BY <1>1, <1>5, <1>h, <2>1, <2>2, Pop
<1>6. CASE /\ c \notin m_ClassesToBeImported
           /\ m_ClassesToBeImported' = m_ClassesToBeImported \cup {c}
           /\ stack' = << [at |-> "parents", list |-> GetAllBaseClasses(source)[c]],
                          [at |-> "uses", list |-> source.uses[c]] >> \o Tail(stack)
  <2>p. PICK p : p = [at |-> "parents", list |-> GetAllBaseClasses(source)[c]]
    OBVIOUS
  <2>u. PICK u : u = [at |-> "uses", list |-> source.uses[c]]
    OBVIOUS
  <2>1. GetAllBaseClasses(source)[c] \in Seq(Class) /\ source.uses[c] \in Seq(Class)
    BY <1>2, AllFacts, SourceFacts
  <2>2. p \in Frame /\ u \in Frame
    BY <2>1, <2>p, <2>u DEF Frame
  <2>3. /\ p.at = "parents" /\ p.list = GetAllBaseClasses(source)[c]
        /\ u.at = "uses" /\ u.list = source.uses[c]
    BY <2>p, <2>u
  <2>4. stack' = << p, u >> \o Tail(stack)
    BY <1>6, <2>p, <2>u
  <2>5. stack' \in Seq(Frame) /\ Range(stack') = {p, u} \cup Range(Tail(stack))
    BY <1>1, <1>2, <2>2, <2>4, PushTwo
  <2>6. Needs(h, {p, u}, {c})
    <3>1. \A f \in {p, u} : f.at = "class" => Len(f.list) = 1
      BY <2>3
    <3>2. ASSUME NEW S \in SUBSET Class, Closed(source, S), Range(h.list) \subseteq S
          PROVE  {c} \subseteq S /\ \A f \in {p, u} : Range(f.list) \subseteq S
      <4>1. c \in S
        BY <1>2, <3>2
      <4>2. Range(GetAllBaseClasses(source)[c]) \subseteq S /\ Range(source.uses[c]) \subseteq S
        BY <1>2, <3>2, <4>1, ClosedFacts
      <4> QED
        BY <2>3, <4>1, <4>2
    <3> QED
      BY <3>1, <3>2 DEF Needs
  <2>7. ASSUME SingleInheritance
        PROVE  Continues(h, {p, u}, {c}, m_ClassesToBeImported')
    <3>1. \A f \in {p, u} : f.at = "parents" => \E x \in Class : f.list = GetAllBaseClasses(source)[x]
      BY <1>2, <2>3
    <3>2. \A b : Pends(h, "parents", b) \/ Pends(h, "class", b) => b \in m_ClassesToBeImported'
      BY <1>2, <1>6 DEF Pends
    <3>3. \A b : ~ Pends(h, "uses", b)
      BY <1>2 DEF Pends
    <3>4. ASSUME NEW b \in Range(source.bases[c]) PROVE Pends(p, "parents", b)
      BY <1>2, <2>3, <2>7, <3>4, SingleParents DEF Pends
    <3>5. \A x \in Range(source.uses[c]) : Pends(u, "uses", x)
      BY <2>3 DEF Pends
    <3> QED
      BY <3>1, <3>2, <3>3, <3>4, <3>5 DEF Continues
  <2>8. {p, u} \in SUBSET Frame /\ {c} \in SUBSET Class
    BY <1>2, <2>2
  <2> QED
    BY <1>1, <1>3, <1>6, <1>h, <2>5, <2>6, <2>7, <2>8, StackStep
<1> QED
  BY <1>4, <1>5, <1>6

LEMMA IInvAddParent ==
  ASSUME IInv, AddParent
  PROVE  IInv'
<1>1. stack # << >> /\ Head(stack).at = "parents"
  BY DEF AddParent
<1>h. PICK h : h = Head(stack)
  OBVIOUS
<1>l. PICK l : l = Head(stack).list
  OBVIOUS
<1>2. /\ stack \in Seq(Frame) /\ h \in Frame /\ h.at = "parents" /\ h \in Range(stack)
      /\ h.list = l /\ l \in Seq(Class) /\ source \in Sources
  BY <1>1, <1>h, <1>l, HeadFacts
<1>3. UNCHANGED << source, m_TypedefLookup, m_ClassesToBeIncluded, emitted, next, remaining,
                   work, phase >>
  BY DEF AddParent
<1>4. \/ /\ ~ (l # << >> /\ l[1] \notin m_ClassesToBeImported)
         /\ stack' = Tail(stack)
         /\ m_ClassesToBeImported' = m_ClassesToBeImported
      \/ /\ l # << >> /\ l[1] \notin m_ClassesToBeImported
         /\ m_ClassesToBeImported' = m_ClassesToBeImported \cup {l[1]}
         /\ stack' = << [at |-> "uses", list |-> source.uses[l[1]]],
                        [at |-> "parents", list |-> Tail(l)] >> \o Tail(stack)
  BY <1>l DEF AddParent
<1>5. CASE /\ ~ (l # << >> /\ l[1] \notin m_ClassesToBeImported)
           /\ stack' = Tail(stack)
           /\ m_ClassesToBeImported' = m_ClassesToBeImported
  <2>1. UNCHANGED << source, chosen, emitted, next, remaining, work, phase >>
    BY <1>3, <1>5 DEF chosen
  <2>2. /\ \A b : Pends(h, "parents", b) \/ Pends(h, "class", b) => b \in m_ClassesToBeImported
        /\ \A u : ~ Pends(h, "uses", u)
    BY <1>2, <1>5 DEF Pends
  <2> QED
    BY <1>1, <1>5, <1>h, <2>1, <2>2, Pop
<1>6. CASE /\ l # << >> /\ l[1] \notin m_ClassesToBeImported
           /\ m_ClassesToBeImported' = m_ClassesToBeImported \cup {l[1]}
           /\ stack' = << [at |-> "uses", list |-> source.uses[l[1]]],
                          [at |-> "parents", list |-> Tail(l)] >> \o Tail(stack)
  <2>b. PICK b : b = l[1]
    OBVIOUS
  <2>u. PICK u : u = [at |-> "uses", list |-> source.uses[b]]
    OBVIOUS
  <2>p. PICK p : p = [at |-> "parents", list |-> Tail(l)]
    OBVIOUS
  <2>1. b \in Class /\ Tail(l) \in Seq(Class) /\ Range(l) = {b} \cup Range(Tail(l))
    <3>1. Head(l) = l[1] /\ Head(l) \in Class /\ Tail(l) \in Seq(Class) /\ Range(l) = {l[1]} \cup Range(Tail(l))
      BY <1>2, <1>6, TailFacts
    <3> QED
      BY <2>b, <3>1
  <2>2. p \in Frame /\ u \in Frame
    <3>1. source.uses[b] \in Seq(Class)
      BY <1>2, <2>1, SourceFacts
    <3> QED
      BY <2>1, <2>p, <2>u, <3>1 DEF Frame
  <2>3. /\ p.at = "parents" /\ p.list = Tail(l)
        /\ u.at = "uses" /\ u.list = source.uses[b]
    BY <2>p, <2>u
  <2>4. stack' = << u, p >> \o Tail(stack) /\ m_ClassesToBeImported' = m_ClassesToBeImported \cup {b}
    BY <1>6, <2>b, <2>p, <2>u
  <2>5. stack' \in Seq(Frame) /\ Range(stack') = {u, p} \cup Range(Tail(stack))
    BY <1>1, <1>2, <2>2, <2>4, PushTwo
  <2>6. Needs(h, {u, p}, {b})
    <3>1. \A f \in {u, p} : f.at = "class" => Len(f.list) = 1
      BY <2>3
    <3>2. ASSUME NEW S \in SUBSET Class, Closed(source, S), Range(h.list) \subseteq S
          PROVE  {b} \subseteq S /\ \A f \in {u, p} : Range(f.list) \subseteq S
      <4>1. b \in S /\ Range(Tail(l)) \subseteq S
        BY <1>2, <2>1, <3>2
      <4>2. Range(source.uses[b]) \subseteq S
        BY <1>2, <3>2, <4>1, ClosedFacts
      <4> QED
        BY <2>3, <4>1, <4>2
    <3> QED
      BY <3>1, <3>2 DEF Needs
  <2>7. ASSUME SingleInheritance
        PROVE  Continues(h, {u, p}, {b}, m_ClassesToBeImported')
    <3>0. phase = "determine" /\ Importing
      BY <1>1 DEF IInv, Determined
    <3>1. PICK x \in Class : l = GetAllBaseClasses(source)[x]
      BY <1>2, <2>7, <3>0 DEF Importing
    <3>2. Tail(l) = GetAllBaseClasses(source)[b]
      BY <1>2, <1>6, <2>7, <2>b, <3>1, SingleParents
    <3>3. \A f \in {u, p} : f.at = "parents" => \E y \in Class : f.list = GetAllBaseClasses(source)[y]
      BY <2>1, <2>3, <3>2
    <3>4. \A y : Pends(h, "parents", y) \/ Pends(h, "class", y) => y \in m_ClassesToBeImported'
      BY <1>2, <2>4, <2>b DEF Pends
    <3>5. \A y : ~ Pends(h, "uses", y)
      BY <1>2 DEF Pends
    <3>6. ASSUME NEW y \in Range(source.bases[b]) PROVE Pends(p, "parents", y)
      <4>1. Tail(l) # << >> /\ Tail(l)[1] = y
        <5>1. GetAllBaseClasses(source)[b] # << >> /\ GetAllBaseClasses(source)[b][1] = y
          BY <1>2, <2>1, <2>7, <3>6, SingleParents
        <5> QED
          BY <3>2, <5>1
      <4> QED
        BY <2>3, <4>1 DEF Pends
    <3>7. \A y \in Range(source.uses[b]) : Pends(u, "uses", y)
      BY <2>3 DEF Pends
    <3> QED
      BY <3>3, <3>4, <3>5, <3>6, <3>7 DEF Continues
  <2>8. {u, p} \in SUBSET Frame /\ {b} \in SUBSET Class
    BY <2>1, <2>2
  <2> QED
    BY <1>1, <1>3, <1>h, <2>4, <2>5, <2>6, <2>7, <2>8, StackStep
<1> QED
  BY <1>4, <1>5, <1>6

LEMMA IInvAddImportReturnTypesAndArguments ==
  ASSUME IInv, AddImportReturnTypesAndArguments
  PROVE  IInv'
<1>1. stack # << >> /\ Head(stack).at = "uses"
  BY DEF AddImportReturnTypesAndArguments
<1>h. PICK h : h = Head(stack)
  OBVIOUS
<1>l. PICK l : l = Head(stack).list
  OBVIOUS
<1>2. /\ stack \in Seq(Frame) /\ h \in Frame /\ h.at = "uses"
      /\ h.list = l /\ l \in Seq(Class) /\ source \in Sources
  BY <1>1, <1>h, <1>l, HeadFacts
<1>3. /\ UNCHANGED << source, chosen, emitted, next, remaining, work, phase >>
      /\ stack' = IF l = << >> THEN Tail(stack)
                  ELSE << [at |-> "class", list |-> << l[1] >>],
                          [at |-> "uses", list |-> Tail(l)] >> \o Tail(stack)
  BY <1>l DEF AddImportReturnTypesAndArguments
<1>4. CASE l = << >>
  <2>1. Range(l) = {}
    BY <1>4 DEF Range
  <2>2. /\ \A b : ~ Pends(h, "parents", b) /\ ~ Pends(h, "class", b)
        /\ \A u : ~ Pends(h, "uses", u)
    BY <1>2, <2>1 DEF Pends
  <2>3. stack' = Tail(stack)
    BY <1>3, <1>4
  <2> QED
    BY <1>1, <1>3, <1>h, <2>2, <2>3, Pop
<1>5. CASE l # << >>
  <2>b. PICK b : b = l[1]
    OBVIOUS
  <2>k. PICK k : k = [at |-> "class", list |-> << b >>]
    OBVIOUS
  <2>u. PICK u : u = [at |-> "uses", list |-> Tail(l)]
    OBVIOUS
  <2>1. b \in Class /\ Tail(l) \in Seq(Class) /\ Range(l) = {b} \cup Range(Tail(l))
    <3>1. Head(l) = l[1] /\ Head(l) \in Class /\ Tail(l) \in Seq(Class) /\ Range(l) = {l[1]} \cup Range(Tail(l))
      BY <1>2, <1>5, TailFacts
    <3> QED
      BY <2>b, <3>1
  <2>0. << b >> \in Seq(Class) /\ Len(<< b >>) = 1 /\ Range(<< b >>) = {b}
    BY <2>1, OneElement
  <2>2. k \in Frame /\ u \in Frame
    BY <2>0, <2>1, <2>k, <2>u DEF Frame
  <2>3. /\ k.at = "class" /\ k.list = << b >>
        /\ u.at = "uses" /\ u.list = Tail(l)
    BY <2>k, <2>u
  <2>4. stack' = << k, u >> \o Tail(stack)
    BY <1>3, <1>5, <2>b, <2>k, <2>u
  <2>5. stack' \in Seq(Frame) /\ Range(stack') = {k, u} \cup Range(Tail(stack))
    BY <1>1, <1>2, <2>2, <2>4, PushTwo
  <2> DEFINE A == {}
  <2>6. /\ UNCHANGED << source, m_TypedefLookup, m_ClassesToBeIncluded, emitted, next, remaining,
                        work, phase >>
        /\ m_ClassesToBeImported' = m_ClassesToBeImported \cup A
        /\ A \in SUBSET Class
        /\ \A x \in A : FALSE
    BY <1>3 DEF chosen
  <2> HIDE DEF A
  <2>7. Needs(h, {k, u}, A)
    <3>1. \A f \in {k, u} : f.at = "class" => Len(f.list) = 1
      BY <2>0, <2>3
    <3>2. ASSUME NEW S \in SUBSET Class, Closed(source, S), Range(h.list) \subseteq S
          PROVE  A \subseteq S /\ \A f \in {k, u} : Range(f.list) \subseteq S
      BY <1>2, <2>0, <2>1, <2>3, <2>6, <3>2
    <3> QED
      BY <3>1, <3>2 DEF Needs
  <2>8. Continues(h, {k, u}, A, m_ClassesToBeImported')
    <3>1. \A f \in {k, u} : f.at # "parents"
      BY <2>3
    <3>2. \A b1 : ~ Pends(h, "parents", b1) /\ ~ Pends(h, "class", b1)
      BY <1>2 DEF Pends
    <3>3. \A y : Pends(h, "uses", y) => Pends(u, "uses", y) \/ Pends(k, "class", y)
      BY <1>2, <2>0, <2>1, <2>3 DEF Pends
    <3> QED
      BY <2>6, <3>1, <3>2, <3>3 DEF Continues
  <2>9. {k, u} \in SUBSET Frame
    BY <2>2
  <2> QED
    BY <1>1, <1>h, <2>5, <2>6, <2>7, <2>8, <2>9, StackStep
<1> QED
  BY <1>4, <1>5

-----------------------------------------------------------------------------
(* ProcessImportedClasses and ProcessIncludedClasses keep the invariant. *)

\* What was handed over stays as it is when nothing is handed over.
LEMMA EmittedSame ==
  ASSUME IInv, source' = source, m_ClassesToBeIncluded' = m_ClassesToBeIncluded,
         UNCHANGED emitted
  PROVE  (Remembered /\ HandedOnce /\ BasesFirst /\ TopExact)'
<1>1. Remembered /\ HandedOnce /\ BasesFirst /\ TopExact
  BY DEF IInv
<1>2. top' = top /\ m_ClassesIncludedOrImported' = m_ClassesIncludedOrImported
  BY DEF emitted
<1>3. Remembered'
  BY <1>1, <1>2 DEF Remembered, Handed
<1>4. HandedOnce'
  BY <1>1, <1>2 DEF HandedOnce
<1>5. BasesFirst'
  BY <1>1, <1>2 DEF BasesFirst
<1>6. TopExact'
  <2>1. \A c : Kind(c)' = Kind(c)
    BY DEF Kind
  <2> QED
    BY <1>1, <1>2, <2>1 DEF TopExact
<1> QED
  BY <1>3, <1>4, <1>5, <1>6

LEMMA IInvRemoveIncluded ==
  ASSUME IInv, RemoveIncluded
  PROVE  IInv'
<1>1. /\ TypeOK /\ Determined /\ OnlyNeeded /\ Importing /\ WorkOrdered /\ source \in Sources
      /\ source \in Source
  BY CableSwigAssumption DEF IInv
<1>2. /\ source' = source /\ m_TypedefLookup' = m_TypedefLookup
      /\ m_ClassesToBeIncluded' = m_ClassesToBeIncluded
      /\ UNCHANGED emitted /\ next' = next /\ stack' = stack /\ work' = work
      /\ phase = "determine" /\ phase' = "imported" /\ stack = << >>
      /\ next > Len(source.wrappers)
      /\ m_ClassesToBeImported' = m_ClassesToBeImported \ m_ClassesToBeIncluded
      /\ remaining' = m_ClassesToBeImported'
  BY DEF RemoveIncluded
<1>3. work = << >> /\ Range(work) = {} /\ m_ClassesIncludedOrImported = {} /\ remaining = {}
  BY <1>1, <1>2 DEF Determined, Range
<1>4. TypeOK'
  BY <1>1, <1>2 DEF TypeOK, emitted
<1>5. Len(source.wrappers) \in Nat
  BY <1>1, LenProperties DEF Source
<1>6. next = Len(source.wrappers) + 1 /\ NamedSoFar' = NamedSoFar
  BY <1>1, <1>2, <1>5 DEF Determined, TypeOK, NamedSoFar
<1>7. Determined'
  BY <1>1, <1>2, <1>6 DEF Determined
<1>8. (Remembered /\ HandedOnce /\ BasesFirst /\ TopExact)'
  BY <1>2, EmittedSame
<1>9. WorkOrdered'
  BY <1>1, <1>2 DEF WorkOrdered, emitted
<1>10. NoneForgotten'
  BY <1>2 DEF NoneForgotten
<1>11. OnlyNeeded'
  <2> SUFFICES ASSUME NEW S \in SUBSET Class, Closed(source, S)
               PROVE  /\ (m_ClassesToBeIncluded \cup m_ClassesToBeImported \subseteq S)'
                      /\ (m_ClassesIncludedOrImported \cup remaining \cup Range(work) \subseteq S)'
                      /\ \A f \in Range(stack') : Range(f.list) \subseteq S
    BY <1>2 DEF OnlyNeeded
  <2>1. /\ m_ClassesToBeIncluded \cup m_ClassesToBeImported \subseteq S
        /\ \A f \in Range(stack) : Range(f.list) \subseteq S
    BY <1>1 DEF OnlyNeeded
  <2> QED
    BY <1>2, <1>3, <2>1 DEF emitted
<1>12. Importing'
  BY <1>2 DEF Importing
<1>13. ChosenClosed'
  <2> SUFFICES ASSUME SingleInheritance PROVE ChosenClosed'
    BY <1>2 DEF ChosenClosed, SingleInheritance
  <2>1. \A at, x : ~ Pending(at, x)
    BY <1>2 DEF Pending, Range
  <2>2. /\ \A c \in m_ClassesToBeImported :
             /\ \A b \in Range(source.bases[c]) : b \in m_ClassesToBeImported
             /\ \A u \in Range(source.uses[c]) : u \in m_ClassesToBeImported
        /\ \A c \in NamedSoFar : c \in m_ClassesToBeImported
    BY <1>1, <1>2, <2>1 DEF Importing
  <2>3. m_ClassesToBeIncluded = NamedSoFar
    BY <1>1 DEF Determined
  <2>4. \A i \in 1 .. Len(source.wrappers) : source.wrappers[i] \in NamedSoFar
    BY <1>5, <1>6 DEF NamedSoFar
  <2>5. m_ClassesToBeImported \in SUBSET Class
    BY <1>1 DEF TypeOK
  <2>6. Closed(source, m_ClassesToBeImported)
    BY <1>1, <2>2, <2>4, <2>5, ClosedFacts
  <2>7. m_ClassesToBeImported' \cup m_ClassesToBeIncluded' = m_ClassesToBeImported
    BY <1>2, <2>2, <2>3
  <2>8. Closed(source', m_ClassesToBeImported' \cup m_ClassesToBeIncluded')
    BY <1>2, <2>6, <2>7
  <2>9. m_ClassesIncludedOrImported' \cup remaining' \cup Range(work')
          \subseteq m_ClassesToBeImported' \cup m_ClassesToBeIncluded'
    BY <1>2, <1>3 DEF emitted
  <2> QED
    BY <2>8, <2>9 DEF ChosenClosed
<1> QED
  BY <1>1, <1>2, <1>4, <1>7, <1>8, <1>9, <1>10, <1>11, <1>12, <1>13 DEF IInv

\* The bases of every class in w come before it.
BasesBefore(s, w) ==
  \A j \in 1 .. Len(w) : \A b \in Range(GetAllBaseClasses(s)[w[j]]) :
    \E k \in 1 .. j - 1 : w[k] = b

\* The parents of a class in reverse order, then the class: bases come first.
LEMMA ReversedOrder ==
  ASSUME NEW s \in Sources, NEW c \in Class, NEW w,
         w = Append(Reverse(GetAllBaseClasses(s)[c]), c)
  PROVE  /\ w \in Seq(Class)
         /\ Range(w) = Range(GetAllBaseClasses(s)[c]) \cup {c}
         /\ BasesBefore(s, w)
<1>a. PICK A : A = GetAllBaseClasses(s)[c]
  OBVIOUS
<1>n. PICK n : n = Len(A)
  OBVIOUS
<1>r. PICK r : r = Reverse(A)
  OBVIOUS
<1>1. A \in Seq(Class)
  BY <1>a, AllFacts
<1>2. n \in Nat /\ Range(A) = {A[i] : i \in 1 .. n} /\ Range(A) \subseteq Class
  BY <1>1, <1>n, RangeFacts
<1>3. /\ r \in Seq(Class) /\ Len(r) = n /\ Range(r) = Range(A)
      /\ \A i \in 1 .. n : r[i] = A[n - i + 1]
  BY <1>1, <1>n, <1>r, ReverseFacts
<1>4. w = Append(r, c)
  BY <1>a, <1>r
<1>5. /\ w \in Seq(Class) /\ Len(w) = n + 1 /\ Range(w) = Range(r) \cup {c}
      /\ \A i \in 1 .. n : w[i] = r[i]
      /\ w[n + 1] = c
  BY <1>3, <1>4, AppendFacts
<1>6. \A i \in 1 .. n : w[i] = A[n - i + 1]
  BY <1>3, <1>5
<1>7. ASSUME NEW j \in 1 .. Len(w), NEW b \in Range(GetAllBaseClasses(s)[w[j]])
      PROVE  \E k \in 1 .. j - 1 : w[k] = b
  <2>1. CASE j = n + 1
    <3>1. b \in Range(A)
      BY <1>5, <1>7, <1>a, <2>1
    <3>2. PICK i \in 1 .. n : A[i] = b
      BY <1>2, <3>1
    <3>3. n - i + 1 \in 1 .. n /\ n - (n - i + 1) + 1 = i
      BY <1>2
    <3>4. w[n - i + 1] = b /\ n - i + 1 \in 1 .. j - 1
      BY <1>2, <1>6, <2>1, <3>2, <3>3
    <3> QED
      BY <3>4
  <2>2. CASE j # n + 1
    <3>1. j \in 1 .. n
      BY <1>2, <1>5, <2>2
    <3>p. PICK p : p = n - j + 1
      OBVIOUS
    <3>2. p \in 1 .. n /\ w[j] = A[p]
      BY <1>2, <1>6, <3>1, <3>p
    <3>3. p \in 1 .. Len(GetAllBaseClasses(s)[c])
      BY <1>a, <1>n, <3>2
    <3>4. b \in Range(GetAllBaseClasses(s)[GetAllBaseClasses(s)[c][p]])
      BY <1>7, <1>a, <3>2
    <3>5. PICK q \in p + 1 .. Len(GetAllBaseClasses(s)[c]) : GetAllBaseClasses(s)[c][q] = b
      BY <3>3, <3>4, AllLater
    <3>6. q \in p + 1 .. n /\ A[q] = b
      BY <1>a, <1>n, <3>5
    <3>7. n - q + 1 \in 1 .. n /\ n - (n - q + 1) + 1 = q /\ n - q + 1 \in 1 .. j - 1
      BY <1>2, <3>1, <3>2, <3>6, <3>p
    <3>8. w[n - q + 1] = b
      BY <1>6, <3>6, <3>7
    <3> QED
      BY <3>7, <3>8
  <2> QED
    BY <2>1, <2>2
<1>8. Range(w) = Range(GetAllBaseClasses(s)[c]) \cup {c}
  BY <1>3, <1>5, <1>a
<1>9. BasesBefore(s, w)
  BY <1>7 DEF BasesBefore
<1>10. w \in Seq(Class)
  BY <1>5
<1> QED
  BY <1>8, <1>9, <1>10

LEMMA IInvProcess ==
  ASSUME IInv, NEW c \in Class, Process(c)
  PROVE  IInv'
<1>1. /\ TypeOK /\ Determined /\ OnlyNeeded /\ NoneForgotten /\ WorkOrdered /\ ChosenClosed
      /\ source \in Sources
  BY DEF IInv
<1>2. /\ source' = source /\ UNCHANGED chosen /\ UNCHANGED emitted
      /\ next' = next /\ stack' = stack
      /\ phase \in {"imported", "included"} /\ phase' = phase
      /\ work = << >> /\ c \in remaining /\ remaining' = remaining \ {c}
      /\ work' = Append(Reverse(GetAllBaseClasses(source)[c]), c)
  BY DEF Process
<1>3. /\ m_TypedefLookup' = m_TypedefLookup /\ m_ClassesToBeIncluded' = m_ClassesToBeIncluded
      /\ m_ClassesToBeImported' = m_ClassesToBeImported
      /\ m_ClassesIncludedOrImported' = m_ClassesIncludedOrImported
      /\ m_NamespacesToUse' = m_NamespacesToUse /\ top' = top
  BY <1>2 DEF chosen, emitted
<1>4. /\ work' \in Seq(Class)
      /\ Range(work') = Range(GetAllBaseClasses(source)[c]) \cup {c}
      /\ \A j \in 1 .. Len(work') : \A b \in Range(GetAllBaseClasses(source)[work'[j]]) :
           \E k \in 1 .. j - 1 : work'[k] = b
  <2>1. PICK w : w = Append(Reverse(GetAllBaseClasses(source)[c]), c)
    OBVIOUS
  <2>2. /\ w \in Seq(Class)
        /\ Range(w) = Range(GetAllBaseClasses(source)[c]) \cup {c}
        /\ BasesBefore(source, w)
    BY <1>1, <2>1, ReversedOrder
  <2>3. work' = w
    BY <1>2, <2>1
  <2> QED
    BY <2>2, <2>3 DEF BasesBefore
<1>5. Range(work) = {}
  BY <1>2 DEF Range
<1>6. TypeOK'
  BY <1>1, <1>2, <1>3, <1>4 DEF TypeOK
<1>7. Determined'
  <2>1. NamedSoFar' = NamedSoFar
    BY <1>2 DEF NamedSoFar
  <2> QED
    BY <1>1, <1>2, <1>3, <2>1 DEF Determined
<1>8. (Remembered /\ HandedOnce /\ BasesFirst /\ TopExact)'
  BY <1>2, <1>3, EmittedSame
<1>9. WorkOrdered'
  BY <1>1, <1>2, <1>3, <1>4 DEF WorkOrdered
<1>10. NoneForgotten'
  BY <1>1, <1>2, <1>3, <1>4, <1>5 DEF NoneForgotten
<1>11. \A S \in SUBSET Class : Closed(source, S) /\ c \in S => Range(work') \subseteq S
  BY <1>1, <1>4, ClosedFacts
<1>12. OnlyNeeded'
  BY <1>1, <1>2, <1>3, <1>11 DEF OnlyNeeded
<1>13. Importing'
  BY <1>2 DEF Importing
<1>14. ChosenClosed'
  <2> SUFFICES ASSUME SingleInheritance PROVE ChosenClosed'
    BY <1>2 DEF ChosenClosed, SingleInheritance
  <2>1. /\ Closed(source, m_ClassesToBeImported \cup m_ClassesToBeIncluded)
        /\ m_ClassesIncludedOrImported \cup remaining
             \subseteq m_ClassesToBeImported \cup m_ClassesToBeIncluded
    BY <1>1, <1>2 DEF ChosenClosed
  <2>2. m_ClassesToBeImported \cup m_ClassesToBeIncluded \in SUBSET Class
    BY <1>1 DEF TypeOK
  <2>3. Range(work') \subseteq m_ClassesToBeImported \cup m_ClassesToBeIncluded
    BY <1>2, <1>11, <2>1, <2>2
  <2> QED
    BY <1>2, <1>3, <2>1, <2>3 DEF ChosenClosed
<1> QED
  BY <1>1, <1>2, <1>6, <1>7, <1>8, <1>9, <1>10, <1>12, <1>13, <1>14 DEF IInv

\* CreateSwigClassInNamespace hands over a class whose bases went before.
LEMMA HandOverNew ==
  ASSUME IInv, NEW c \in Class, c \notin m_ClassesIncludedOrImported,
         Range(GetAllBaseClasses(source)[c]) \subseteq m_ClassesIncludedOrImported,
         source' = source, m_ClassesToBeIncluded' = m_ClassesToBeIncluded,
         m_ClassesIncludedOrImported' = m_ClassesIncludedOrImported \cup {c},
         top' = IF LeftOut(source, c) THEN top
                ELSE Append(top, [ class |-> c, kind |-> Kind(c),
                                   baselist |-> FindWrappedBases(source)[c] ])
  PROVE  /\ (Remembered /\ HandedOnce /\ BasesFirst /\ TopExact)'
         /\ top' \in Seq([class : Class, kind : {"include", "import", "ignore"},
                          baselist : Seq(Class)])
<1> DEFINE Node == [class : Class, kind : {"include", "import", "ignore"}, baselist : Seq(Class)]
<1>1. /\ Remembered /\ HandedOnce /\ BasesFirst /\ TopExact
      /\ top \in Seq(Node) /\ source \in Sources
  BY DEF IInv, TypeOK
<1>2. \A x : Kind(x)' = Kind(x)
  BY DEF Kind
<1>3. CASE LeftOut(source, c)
  <2>1. top' = top
    BY <1>3
  <2>2. Remembered'
    BY <1>1, <1>3, <2>1 DEF Remembered, Handed
  <2>3. HandedOnce'
    BY <1>1, <2>1 DEF HandedOnce
  <2>4. BasesFirst'
    <3> SUFFICES ASSUME NEW i \in 1 .. Len(top),
                        NEW j \in 1 .. Len(GetAllBaseClasses(source)[top[i].class])
                 PROVE  \/ LeftOut(source, GetAllBaseClasses(source)[top[i].class][j])
                        \/ \E k \in 1 .. i - 1 :
                             top[k].class = GetAllBaseClasses(source)[top[i].class][j]
      BY <2>1 DEF BasesFirst
    <3> QED
      BY <1>1 DEF BasesFirst
  <2>5. TopExact'
    BY <1>1, <1>2, <2>1 DEF TopExact
  <2> QED
    BY <1>1, <2>1, <2>2, <2>3, <2>4, <2>5
<1>4. CASE ~ LeftOut(source, c)
  <2>e. PICK e : e = [ class |-> c, kind |-> Kind(c), baselist |-> FindWrappedBases(source)[c] ]
    OBVIOUS
  <2>n. PICK n : n = Len(top)
    OBVIOUS
  <2>1. Kind(c) \in {"include", "import", "ignore"}
    BY DEF Kind
  <2>2. FindWrappedBases(source)[c] \in Seq(Class)
    BY <1>1, FoundFacts
  <2>3. e \in Node
    BY <2>1, <2>2, <2>e
  <2>4. e.class = c /\ e.kind = Kind(c) /\ e.baselist = FindWrappedBases(source)[c]
    BY <2>e
  <2>5. top' = Append(top, e)
    BY <1>4, <2>e
  <2> HIDE DEF Node
  <2>6. /\ top' \in Seq(Node) /\ Len(top') = n + 1 /\ n \in Nat
        /\ \A i \in 1 .. n : top'[i] = top[i]
        /\ top'[n + 1] = e
    BY <1>1, <2>3, <2>5, <2>n, AppendFacts
  <2>7. 1 .. Len(top') = 1 .. n \cup {n + 1} /\ n + 1 \notin 1 .. n
    BY <2>6
  <2>8. \A i \in 1 .. n : top[i].class \in m_ClassesIncludedOrImported /\ top[i].class # c
    BY <1>1, <2>n DEF Remembered
  <2>9. Remembered'
    <3>1. \A i \in 1 .. Len(top') : top'[i].class \in m_ClassesIncludedOrImported'
      BY <2>4, <2>6, <2>7, <2>8
    <3>2. ASSUME NEW x \in m_ClassesIncludedOrImported'
          PROVE  LeftOut(source, x) \/ \E i \in 1 .. Len(top') : x = top'[i].class
      <4>1. CASE x = c
        BY <2>4, <2>6, <2>7, <4>1
      <4>2. CASE x \in m_ClassesIncludedOrImported
        <5>1. LeftOut(source, x) \/ \E i \in 1 .. n : x = top[i].class
          BY <1>1, <2>n, <4>2 DEF Remembered, Handed
        <5> QED
          BY <2>6, <2>7, <5>1
      <4> QED
        BY <4>1, <4>2
    <3>3. \A x \in m_ClassesIncludedOrImported' : LeftOut(source, x) \/ x \in Handed'
      BY <3>2 DEF Handed
    <3> QED
      BY <3>1, <3>3 DEF Remembered
  <2>10. HandedOnce'
    <3> SUFFICES ASSUME NEW i \in 1 .. Len(top'), NEW j \in 1 .. Len(top'),
                        top'[i].class = top'[j].class
                 PROVE  i = j
      BY DEF HandedOnce
    <3>1. CASE i \in 1 .. n /\ j \in 1 .. n
      BY <1>1, <2>6, <2>n, <3>1 DEF HandedOnce
    <3>2. CASE i = n + 1 /\ j \in 1 .. n
      BY <2>4, <2>6, <2>8, <3>2
    <3>3. CASE i \in 1 .. n /\ j = n + 1
      BY <2>4, <2>6, <2>8, <3>3
    <3> QED
      BY <2>7, <3>1, <3>2, <3>3
  <2>11. BasesFirst'
    <3> SUFFICES ASSUME NEW i \in 1 .. Len(top'),
                        NEW j \in 1 .. Len(GetAllBaseClasses(source)[top'[i].class])
                 PROVE  \/ LeftOut(source, GetAllBaseClasses(source)[top'[i].class][j])
                        \/ \E k \in 1 .. i - 1 :
                             top'[k].class = GetAllBaseClasses(source)[top'[i].class][j]
      BY DEF BasesFirst
    <3>1. CASE i \in 1 .. n
      <4>1. top'[i] = top[i]
        BY <2>6, <3>1
      <4>2. \/ LeftOut(source, GetAllBaseClasses(source)[top[i].class][j])
            \/ \E k \in 1 .. i - 1 : top[k].class = GetAllBaseClasses(source)[top[i].class][j]
        BY <1>1, <2>n, <3>1, <4>1 DEF BasesFirst
      <4>3. \A k \in 1 .. i - 1 : k \in 1 .. n /\ top'[k] = top[k]
        BY <2>6, <3>1
      <4> QED
        BY <4>1, <4>2, <4>3
    <3>2. CASE i = n + 1
      <4>1. top'[i].class = c
        BY <2>4, <2>6, <3>2
      <4>b. PICK b : b = GetAllBaseClasses(source)[c][j]
        OBVIOUS
      <4>2. b \in Range(GetAllBaseClasses(source)[c])
        <5>1. GetAllBaseClasses(source)[c] \in Seq(Class)
          BY <1>1, AllFacts
        <5>2. Range(GetAllBaseClasses(source)[c]) =
                {GetAllBaseClasses(source)[c][k] : k \in 1 .. Len(GetAllBaseClasses(source)[c])}
          BY <5>1, RangeFacts
        <5> QED
          BY <4>1, <4>b, <5>2
      <4>3. LeftOut(source, b) \/ b \in Handed
        BY <1>1, <4>2 DEF Remembered
      <4>4. b \in Handed => \E k \in 1 .. n : top[k].class = b
        BY <2>n DEF Handed
      <4>5. \A k \in 1 .. n : k \in 1 .. i - 1 /\ top'[k] = top[k]
        BY <2>6, <3>2
      <4> QED
        BY <4>1, <4>3, <4>4, <4>5, <4>b
    <3> QED
      BY <2>7, <3>1, <3>2
  <2>12. TopExact'
    <3> SUFFICES ASSUME NEW i \in 1 .. Len(top')
                 PROVE  /\ top'[i].kind = Kind(top'[i].class)
                        /\ top'[i].baselist = FindWrappedBases(source)[top'[i].class]
      BY <1>2 DEF TopExact
    <3>1. CASE i \in 1 .. n
      BY <1>1, <2>6, <2>n, <3>1 DEF TopExact
    <3>2. CASE i = n + 1
      BY <2>4, <2>6, <3>2
    <3> QED
      BY <2>7, <3>1, <3>2
  <2> QED
    BY <2>6, <2>9, <2>10, <2>11, <2>12 DEF Node
<1> QED
  BY <1>3, <1>4

LEMMA IInvHandOver ==
  ASSUME IInv, HandOver
  PROVE  IInv'
<1>c. PICK c : c = work[1]
  OBVIOUS
<1>1. /\ TypeOK /\ Determined /\ OnlyNeeded /\ NoneForgotten /\ WorkOrdered /\ ChosenClosed
      /\ source \in Sources
  BY DEF IInv
<1>2. /\ source' = source /\ UNCHANGED chosen
      /\ next' = next /\ stack' = stack /\ phase' = phase /\ remaining' = remaining
      /\ work # << >> /\ work' = Tail(work)
      /\ CreateSwigClassInNamespace(c)
  BY <1>c DEF HandOver
<1>3. /\ m_TypedefLookup' = m_TypedefLookup /\ m_ClassesToBeIncluded' = m_ClassesToBeIncluded
      /\ m_ClassesToBeImported' = m_ClassesToBeImported
  BY <1>2 DEF chosen
<1>4. /\ work' \in Seq(Class) /\ Len(work) \in Nat /\ Len(work') = Len(work) - 1
      /\ \A i \in 1 .. Len(work') : work'[i] = work[i + 1]
      /\ Range(work) = {c} \cup Range(work')
      /\ c \in Class /\ 1 \in 1 .. Len(work)
  <2>1. work \in Seq(Class)
    BY <1>1 DEF TypeOK
  <2>2. /\ Head(work) \in Class /\ Head(work) = work[1] /\ Tail(work) \in Seq(Class)
        /\ Len(work) \in Nat \ {0}
        /\ Len(Tail(work)) = Len(work) - 1
        /\ \A i \in 1 .. Len(Tail(work)) : Tail(work)[i] = work[i + 1]
        /\ Range(work) = {work[1]} \cup Range(Tail(work))
    BY <1>2, <2>1, TailFacts
  <2>3. 1 \in 1 .. Len(work)
    BY <2>2
  <2> QED
    BY <1>2, <1>c, <2>2, <2>3
<1>5. phase \in {"imported", "included"}
  BY <1>1, <1>2 DEF Determined, TypeOK
\* The bases of the class at the head of the list were handed over.
<1>6. Range(GetAllBaseClasses(source)[c]) \subseteq m_ClassesIncludedOrImported
  <2>1. 1 .. 1 - 1 = {}
    OBVIOUS
  <2> QED
    BY <1>1, <1>4, <1>c, <2>1 DEF WorkOrdered
<1>7. /\ m_ClassesIncludedOrImported' = m_ClassesIncludedOrImported \cup {c}
      /\ (Remembered /\ HandedOnce /\ BasesFirst /\ TopExact)'
      /\ top' \in Seq([class : Class, kind : {"include", "import", "ignore"},
                       baselist : Seq(Class)])
      /\ m_NamespacesToUse' \subseteq Scope
  <2>1. CASE c \in m_ClassesIncludedOrImported
    <3>1. UNCHANGED emitted
      BY <1>2, <2>1 DEF CreateSwigClassInNamespace
    <3>2. (Remembered /\ HandedOnce /\ BasesFirst /\ TopExact)'
      BY <1>2, <1>3, <3>1, EmittedSame
    <3> QED
      BY <1>1, <2>1, <3>1, <3>2 DEF emitted, TypeOK
  <2>2. CASE c \notin m_ClassesIncludedOrImported
    \* An included class has a typedef.
    <3>1. ~ (Kind(c) = "include" /\ m_TypedefLookup[c] = 0)
      BY <1>1 DEF Determined, Kind
    <3>2. /\ m_ClassesIncludedOrImported' = m_ClassesIncludedOrImported \cup {c}
          /\ m_NamespacesToUse' =
               IF source.outer[c] \notin {Global, NoScope} /\ c \notin source.inClass
               THEN m_NamespacesToUse \cup {source.outer[c]} ELSE m_NamespacesToUse
          /\ top' = IF LeftOut(source, c) THEN top
                    ELSE Append(top, [ class |-> c, kind |-> Kind(c),
                                       baselist |-> FindWrappedBases(source)[c] ])
      BY <1>2, <2>2, <3>1 DEF CreateSwigClassInNamespace
    <3>3. /\ (Remembered /\ HandedOnce /\ BasesFirst /\ TopExact)'
          /\ top' \in Seq([class : Class, kind : {"include", "import", "ignore"},
                           baselist : Seq(Class)])
      BY <1>2, <1>3, <1>4, <1>6, <2>2, <3>2, HandOverNew
    <3>4. source.outer[c] \in Scope \cup {Global, NoScope}
      BY <1>1, <1>4, SourceFacts
    <3>5. m_NamespacesToUse' \subseteq Scope
      BY <1>1, <3>2, <3>4 DEF TypeOK
    <3> QED
      BY <3>2, <3>3, <3>5
  <2> QED
    BY <2>1, <2>2
<1>8. TypeOK'
  BY <1>1, <1>2, <1>3, <1>4, <1>7 DEF TypeOK
<1>9. Determined'
  <2>1. NamedSoFar' = NamedSoFar
    BY <1>2 DEF NamedSoFar
  <2> QED
    BY <1>1, <1>2, <1>3, <1>5, <2>1 DEF Determined
<1>10. WorkOrdered'
  <2>1. \A x \in m_ClassesIncludedOrImported' :
          Range(GetAllBaseClasses(source)[x]) \subseteq m_ClassesIncludedOrImported'
    BY <1>1, <1>6, <1>7 DEF WorkOrdered
  <2>2. ASSUME NEW j \in 1 .. Len(work'), NEW b \in Range(GetAllBaseClasses(source)[work'[j]])
        PROVE  b \in m_ClassesIncludedOrImported' \/ \E k \in 1 .. j - 1 : work'[k] = b
    <3>1. j + 1 \in 1 .. Len(work) /\ work'[j] = work[j + 1]
      BY <1>4
    <3>2. b \in m_ClassesIncludedOrImported \/ \E k \in 1 .. (j + 1) - 1 : work[k] = b
      BY <1>1, <2>2, <3>1 DEF WorkOrdered
    <3>3. ASSUME NEW k \in 1 .. (j + 1) - 1, work[k] = b
          PROVE  b = c \/ \E m \in 1 .. j - 1 : work'[m] = b
      <4>1. CASE k = 1
        BY <1>c, <3>3, <4>1
      <4>2. CASE k # 1
        <5>1. k - 1 \in 1 .. j - 1 /\ k - 1 \in 1 .. Len(work') /\ (k - 1) + 1 = k
          BY <1>4, <4>2
        <5>2. work'[k - 1] = b
          BY <1>4, <3>3, <5>1
        <5> QED
          BY <5>1, <5>2
      <4> QED
        BY <4>1, <4>2
    <3> QED
      BY <1>7, <3>2, <3>3
  <2> QED
    BY <1>2, <2>1, <2>2 DEF WorkOrdered
<1>11. NoneForgotten'
  BY <1>1, <1>2, <1>3, <1>4, <1>7 DEF NoneForgotten
<1>12. OnlyNeeded'
  <2> SUFFICES ASSUME NEW S \in SUBSET Class, Closed(source, S)
               PROVE  /\ (m_ClassesToBeIncluded \cup m_ClassesToBeImported \subseteq S)'
                      /\ (m_ClassesIncludedOrImported \cup remaining \cup Range(work) \subseteq S)'
                      /\ \A f \in Range(stack') : Range(f.list) \subseteq S
    BY <1>2 DEF OnlyNeeded
  <2>1. /\ m_ClassesToBeIncluded \cup m_ClassesToBeImported \subseteq S
        /\ m_ClassesIncludedOrImported \cup remaining \cup Range(work) \subseteq S
        /\ \A f \in Range(stack) : Range(f.list) \subseteq S
    BY <1>1 DEF OnlyNeeded
  <2> QED
    BY <1>2, <1>3, <1>4, <1>7, <2>1
<1>13. Importing'
  BY <1>2, <1>5 DEF Importing
<1>14. ChosenClosed'
  <2> SUFFICES ASSUME SingleInheritance PROVE ChosenClosed'
    BY <1>2 DEF ChosenClosed, SingleInheritance
  <2>1. /\ Closed(source, m_ClassesToBeImported \cup m_ClassesToBeIncluded)
        /\ m_ClassesIncludedOrImported \cup remaining \cup Range(work)
             \subseteq m_ClassesToBeImported \cup m_ClassesToBeIncluded
    BY <1>1, <1>5 DEF ChosenClosed
  <2> QED
    BY <1>2, <1>3, <1>4, <1>7, <2>1 DEF ChosenClosed
<1> QED
  BY <1>1, <1>2, <1>7, <1>8, <1>9, <1>10, <1>11, <1>12, <1>13, <1>14 DEF IInv

LEMMA IInvEndImported ==
  ASSUME IInv, EndImported
  PROVE  IInv'
<1>1. /\ TypeOK /\ Determined /\ OnlyNeeded /\ NoneForgotten /\ WorkOrdered /\ ChosenClosed
      /\ source \in Sources
  BY DEF IInv
<1>2. /\ source' = source /\ UNCHANGED chosen /\ UNCHANGED emitted
      /\ next' = next /\ stack' = stack /\ work' = work /\ work = << >>
      /\ phase = "imported" /\ phase' = "included"
      /\ remaining = {} /\ remaining' = m_ClassesToBeIncluded
  BY DEF EndImported
<1>3. /\ m_TypedefLookup' = m_TypedefLookup /\ m_ClassesToBeIncluded' = m_ClassesToBeIncluded
      /\ m_ClassesToBeImported' = m_ClassesToBeImported
      /\ m_ClassesIncludedOrImported' = m_ClassesIncludedOrImported
      /\ m_NamespacesToUse' = m_NamespacesToUse /\ top' = top
  BY <1>2 DEF chosen, emitted
<1>4. Range(work) = {}
  BY <1>2 DEF Range
<1>5. TypeOK'
  BY <1>1, <1>2, <1>3 DEF TypeOK
<1>6. Determined'
  <2>1. NamedSoFar' = NamedSoFar
    BY <1>2 DEF NamedSoFar
  <2> QED
    BY <1>1, <1>2, <1>3, <2>1 DEF Determined
<1>7. (Remembered /\ HandedOnce /\ BasesFirst /\ TopExact)'
  BY <1>2, <1>3, EmittedSame
<1>8. WorkOrdered'
  BY <1>1, <1>2, <1>3 DEF WorkOrdered
<1>9. NoneForgotten'
  BY <1>1, <1>2, <1>3, <1>4 DEF NoneForgotten
<1>10. OnlyNeeded'
  BY <1>1, <1>2, <1>3 DEF OnlyNeeded
<1>11. Importing'
  BY <1>2 DEF Importing
<1>12. ChosenClosed'
  <2> SUFFICES ASSUME SingleInheritance PROVE ChosenClosed'
    BY <1>2 DEF ChosenClosed, SingleInheritance
  <2> QED
    BY <1>1, <1>2, <1>3 DEF ChosenClosed
<1> QED
  BY <1>1, <1>2, <1>5, <1>6, <1>7, <1>8, <1>9, <1>10, <1>11, <1>12 DEF IInv

LEMMA IInvEndIncluded ==
  ASSUME IInv, EndIncluded
  PROVE  IInv'
<1>1. /\ TypeOK /\ Determined /\ OnlyNeeded /\ NoneForgotten /\ WorkOrdered /\ ChosenClosed
      /\ source \in Sources
  BY DEF IInv
<1>2. /\ source' = source /\ UNCHANGED chosen /\ UNCHANGED emitted
      /\ next' = next /\ stack' = stack /\ work' = work /\ work = << >>
      /\ phase = "included" /\ phase' = "done"
      /\ remaining = {} /\ remaining' = remaining
  BY DEF EndIncluded
<1>3. /\ m_TypedefLookup' = m_TypedefLookup /\ m_ClassesToBeIncluded' = m_ClassesToBeIncluded
      /\ m_ClassesToBeImported' = m_ClassesToBeImported
      /\ m_ClassesIncludedOrImported' = m_ClassesIncludedOrImported
      /\ m_NamespacesToUse' = m_NamespacesToUse /\ top' = top
  BY <1>2 DEF chosen, emitted
<1>4. Range(work) = {}
  BY <1>2 DEF Range
<1>5. TypeOK'
  BY <1>1, <1>2, <1>3 DEF TypeOK
<1>6. Determined'
  <2>1. NamedSoFar' = NamedSoFar
    BY <1>2 DEF NamedSoFar
  <2> QED
    BY <1>1, <1>2, <1>3, <2>1 DEF Determined
<1>7. (Remembered /\ HandedOnce /\ BasesFirst /\ TopExact)'
  BY <1>2, <1>3, EmittedSame
<1>8. WorkOrdered'
  BY <1>1, <1>2, <1>3 DEF WorkOrdered
<1>9. NoneForgotten'
  BY <1>1, <1>2, <1>3, <1>4 DEF NoneForgotten
<1>10. OnlyNeeded'
  BY <1>1, <1>2, <1>3 DEF OnlyNeeded
<1>11. Importing'
  BY <1>2 DEF Importing
<1>12. ChosenClosed'
  <2> SUFFICES ASSUME SingleInheritance PROVE ChosenClosed'
    BY <1>2 DEF ChosenClosed, SingleInheritance
  <2> QED
    BY <1>1, <1>2, <1>3 DEF ChosenClosed
<1> QED
  BY <1>1, <1>2, <1>5, <1>6, <1>7, <1>8, <1>9, <1>10, <1>11, <1>12 DEF IInv

LEMMA IInvUnchanged ==
  ASSUME IInv, UNCHANGED vars
  PROVE  IInv'
<1>1. /\ TypeOK /\ Determined /\ OnlyNeeded /\ NoneForgotten /\ WorkOrdered /\ ChosenClosed
      /\ Importing /\ source \in Sources
  BY DEF IInv
<1>2. /\ source' = source /\ UNCHANGED chosen /\ UNCHANGED emitted
      /\ next' = next /\ stack' = stack /\ work' = work
      /\ phase' = phase /\ remaining' = remaining
  BY DEF vars
<1>3. /\ m_TypedefLookup' = m_TypedefLookup /\ m_ClassesToBeIncluded' = m_ClassesToBeIncluded
      /\ m_ClassesToBeImported' = m_ClassesToBeImported
      /\ m_ClassesIncludedOrImported' = m_ClassesIncludedOrImported
      /\ m_NamespacesToUse' = m_NamespacesToUse /\ top' = top
  BY <1>2 DEF chosen, emitted
<1>4. NamedSoFar' = NamedSoFar /\ (SingleInheritance' <=> SingleInheritance)
      /\ \A at, x : Pending(at, x)' <=> Pending(at, x)
  BY <1>2 DEF NamedSoFar, SingleInheritance, Pending
<1>5. TypeOK'
  BY <1>1, <1>2, <1>3 DEF TypeOK
<1>6. Determined'
  BY <1>1, <1>2, <1>3, <1>4 DEF Determined
<1>7. (Remembered /\ HandedOnce /\ BasesFirst /\ TopExact)'
  BY <1>2, <1>3, EmittedSame
<1>8. WorkOrdered'
  BY <1>1, <1>2, <1>3 DEF WorkOrdered
<1>9. NoneForgotten'
  BY <1>1, <1>2, <1>3 DEF NoneForgotten
<1>10. OnlyNeeded'
  BY <1>1, <1>2, <1>3 DEF OnlyNeeded
<1>11. Importing'
  BY <1>1, <1>2, <1>3, <1>4 DEF Importing
<1>12. ChosenClosed'
  BY <1>1, <1>2, <1>3, <1>4 DEF ChosenClosed
<1> QED
  BY <1>1, <1>2, <1>5, <1>6, <1>7, <1>8, <1>9, <1>10, <1>11, <1>12 DEF IInv

LEMMA IInvNext ==
  ASSUME IInv, [Next]_vars
  PROVE  IInv'
<1>1. CASE WrapTypedef
  BY <1>1, IInvWrapTypedef
<1>2. CASE AddClassToBeImported
  BY <1>2, IInvAddClassToBeImported
<1>3. CASE AddParent
  BY <1>3, IInvAddParent
<1>4. CASE AddImportReturnTypesAndArguments
  BY <1>4, IInvAddImportReturnTypesAndArguments
<1>5. CASE RemoveIncluded
  BY <1>5, IInvRemoveIncluded
<1>6. ASSUME NEW c \in Class, Process(c) PROVE IInv'
  BY <1>6, IInvProcess
<1>7. CASE HandOver
  BY <1>7, IInvHandOver
<1>8. CASE EndImported
  BY <1>8, IInvEndImported
<1>9. CASE EndIncluded
  BY <1>9, IInvEndIncluded
<1>10. CASE Done
  BY <1>10, IInvUnchanged DEF Done
<1>11. CASE UNCHANGED vars
  BY <1>11, IInvUnchanged
<1> QED
  BY <1>1, <1>2, <1>3, <1>4, <1>5, <1>6, <1>7, <1>8, <1>9, <1>10, <1>11 DEF Next

-----------------------------------------------------------------------------
(* The theorems. *)

\* The invariant holds in every state, for every source representation.
THEOREM InvariantHolds == Spec => []IInv
<1>1. Init => IInv
  BY IInvInit
<1>2. IInv /\ [Next]_vars => IInv'
  BY IInvNext
<1> QED
  BY <1>1, <1>2, PTL DEF Spec

\* Every variable has its type: DetermineClassesToWrap and the two loops that follow
\* only ever move classes of the source representation about.
THEOREM TypeCorrect == Spec => []TypeOK
<1>1. IInv => TypeOK
  BY DEF IInv
<1> QED
  BY <1>1, InvariantHolds, PTL

\* SWIG sees the bases of a class before the class: whatever the hierarchy, the order of
\* the sets and the overlap of the classes imported and included.
THEOREM BasesComeFirst == Spec => []BasesFirst
<1>1. IInv => BasesFirst
  BY DEF IInv
<1> QED
  BY <1>1, InvariantHolds, PTL

\* CreateSwigClassInNamespace hands over no class twice.
THEOREM EachClassOnce == Spec => []HandedOnce
<1>1. IInv => HandedOnce
  BY DEF IInv
<1> QED
  BY <1>1, InvariantHolds, PTL

\* The base lists that FindWrappedBases makes name the bases in a group where the gap
\* ends, and one of them twice only where the gap comes together again.
THEOREM BaseListsAreExact == Spec => []BaseListExact
<1>1. IInv => BaseListExact
  <2> DEFINE Exact(c, list) ==
        /\ Range(list) = source.grouped \cap UNION {Range(source.bases[x]) : x \in Gap(source, c)}
        /\ \/ IsInjective(list)
           \/ \E x, y \in Gap(source, c) :
                x # y /\ Range(source.bases[x]) \cap Range(source.bases[y]) # {}
  <2> SUFFICES ASSUME IInv, NEW i \in 1 .. Len(top)
               PROVE  Exact(top[i].class, top[i].baselist)
    BY Zenon DEF BaseListExact
  <2>c. PICK c : c = top[i].class
    OBVIOUS
  <2>1. source \in Sources /\ TypeOK /\ TopExact
    BY DEF IInv
  <2>2. c \in Class /\ top[i].baselist = FindWrappedBases(source)[c]
    <3> DEFINE Node == [class : Class, kind : {"include", "import", "ignore"}, baselist : Seq(Class)]
    <3>1. top \in Seq(Node)
      BY <2>1 DEF TypeOK
    <3> HIDE DEF Node
    <3>2. top[i] \in Node
      BY <3>1, ElementOfSeq
    <3>3. top[i].class \in Class
      BY <3>2 DEF Node
    <3> QED
      BY <2>1, <2>c, <3>3 DEF TopExact
  <2>3. Range(FindWrappedBases(source)[c]) =
          source.grouped \cap UNION {Range(source.bases[x]) : x \in Gap(source, c)}
    BY <2>1, <2>2, FoundRange
  <2>4. (\A x, y \in Gap(source, c) : x # y => Range(source.bases[x]) \cap Range(source.bases[y]) = {})
          => IsInjective(FindWrappedBases(source)[c])
    BY <2>1, <2>2, FoundOnce
  <2>5. Exact(c, FindWrappedBases(source)[c])
    BY <2>3, <2>4
  <2> HIDE DEF Exact
  <2> QED
    BY <2>2, <2>5, <2>c
<1> QED
  BY <1>1, InvariantHolds, PTL

\* In the end a class is wrapped exactly when a typedef of _cable_::wrappers names it,
\* and each of these was handed over.
THEOREM ExactlyTheNamedAreWrapped == Spec => []WrappedExactly
<1>1. IInv => WrappedExactly
  <2> SUFFICES ASSUME IInv, phase = "done",
                      NEW named, named = {source.wrappers[i] : i \in 1 .. Len(source.wrappers)}
               PROVE  /\ \A i \in 1 .. Len(top) :
                           top[i].kind = "include" <=> top[i].class \in named
                      /\ \A c \in named : LeftOut(source, c) \/ c \in Handed
    BY DEF WrappedExactly
  <2>1. /\ TypeOK /\ Determined /\ NoneForgotten /\ Remembered /\ TopExact
        /\ source \in Source
    BY CableSwigAssumption DEF IInv
  <2>2. Len(source.wrappers) \in Nat
    BY <2>1, LenProperties DEF Source
  <2>3. m_ClassesToBeIncluded = named
    BY <2>1, <2>2 DEF Determined, NamedSoFar
  <2>4. named \subseteq m_ClassesIncludedOrImported
    BY <2>1, <2>3 DEF NoneForgotten
  <2>5. \A i \in 1 .. Len(top) : top[i].kind = "include" <=> top[i].class \in named
    <3>1. \A c : Kind(c) = "include" <=> c \in named
      BY <2>3 DEF Kind
    <3> QED
      BY <2>1, <3>1 DEF TopExact
  <2>6. \A c \in named : LeftOut(source, c) \/ c \in Handed
    BY <2>1, <2>4 DEF Remembered
  <2> QED
    BY <2>5, <2>6
<1> QED
  BY <1>1, InvariantHolds, PTL

\* Only classes that the named ones need are processed and, with single inheritance,
\* all of these: the early end of the loop over the parents loses none.
THEOREM ExactlyTheNeededAreProcessed == Spec => []ProcessedExactly
<1>1. IInv => ProcessedExactly
  <2> SUFFICES ASSUME IInv, phase = "done" PROVE ProcessedExactly
    BY DEF ProcessedExactly
  <2>1. OnlyNeeded /\ ChosenClosed /\ NoneForgotten
    BY DEF IInv
  <2>2. \A S \in SUBSET Class : Closed(source, S) => m_ClassesIncludedOrImported \subseteq S
    BY <2>1 DEF OnlyNeeded
  <2>3. ASSUME SingleInheritance PROVE Closed(source, m_ClassesIncludedOrImported)
    <3>1. m_ClassesIncludedOrImported = m_ClassesToBeImported \cup m_ClassesToBeIncluded
      BY <2>1, <2>3 DEF NoneForgotten, ChosenClosed
    <3>2. Closed(source, m_ClassesToBeImported \cup m_ClassesToBeIncluded)
      BY <2>1, <2>3 DEF ChosenClosed
    <3> QED
      BY <3>1, <3>2
  <2> QED
    BY <2>2, <2>3 DEF ProcessedExactly
<1> QED
  BY <1>1, InvariantHolds, PTL

-----------------------------------------------------------------------------
(***************************************************************************)
(* ProcessSource ends.  That it returns is a liveness property; the part   *)
(* of it that is about the code, and not about its scheduling, is that no  *)
(* step can be repeated for ever: each goes down in a well-founded order.  *)
(***************************************************************************)
Smaller(S, T) == S \subseteq T /\ S # T

Less(m, n) == m \in Nat /\ n \in Nat /\ m < n

PhasesLeft ==
  CASE phase = "determine" -> 3
    [] phase = "imported" -> 2
    [] phase = "included" -> 1
    [] OTHER -> 0

TypedefsLeft == Len(source.wrappers) + 1 - next

NotImported == Class \ m_ClassesToBeImported

\* How many loops of AddClassToBeImported are active: a call that was only entered has
\* not begun one.
Loops(s) == IF s # << >> /\ Head(s).at = "class" THEN Len(s) - 1 ELSE Len(s)

\* How many classes the innermost loop has left.
LeftOfLoop(s) == IF Loops(s) = 0 THEN 0 ELSE Len(s[Len(s) + 1 - Loops(s)].list)

\* A loop ends, or goes on to its next class, or a call returns at once.
StackDescends ==
  \/ Less(Loops(stack'), Loops(stack))
  \/ /\ Loops(stack') = Loops(stack)
     /\ Less(LeftOfLoop(stack'), LeftOfLoop(stack))
  \/ /\ Loops(stack') = Loops(stack)
     /\ LeftOfLoop(stack') = LeftOfLoop(stack)
     /\ Less(Len(stack'), Len(stack))

\* A step ends a phase, goes on to the next typedef, imports a class, visits one,
\* hands one over or deals with a call, and nothing is undone that comes before in
\* this list.
Descends ==
  \/ Less(PhasesLeft', PhasesLeft)
  \/ UNCHANGED phase /\ Less(TypedefsLeft', TypedefsLeft)
  \/ UNCHANGED << phase, TypedefsLeft >> /\ Smaller(NotImported', NotImported)
  \/ UNCHANGED << phase, TypedefsLeft, NotImported >> /\ Smaller(remaining', remaining)
  \/ UNCHANGED << phase, TypedefsLeft, NotImported, remaining >> /\ Less(Len(work'), Len(work))
  \/ UNCHANGED << phase, TypedefsLeft, NotImported, remaining, work >> /\ StackDescends

\* A frame is popped.
LEMMA PopDescends ==
  ASSUME stack \in Seq(Frame), stack # << >>, stack' = Tail(stack)
  PROVE  StackDescends
<1>p. PICK r : r = Tail(stack)
  OBVIOUS
<1>n. PICK n : n = Len(stack)
  OBVIOUS
<1>1. /\ Head(stack) = stack[1]
      /\ r \in Seq(Frame)
      /\ n \in Nat \ {0} /\ Len(r) = n - 1 /\ Len(stack) = n
      /\ \A i \in 1 .. n - 1 : r[i] = stack[i + 1]
      /\ stack' = r
  BY <1>p, <1>n, TailFacts
<1>2. r # << >> => /\ Head(r) = r[1] /\ n - 1 \in Nat \ {0}
                   /\ r[1] \in Frame /\ r[1].list \in Seq(Class) /\ Len(r[1].list) \in Nat
  <2> SUFFICES ASSUME r # << >>
               PROVE  /\ Head(r) = r[1] /\ n - 1 \in Nat \ {0}
                      /\ r[1] \in Frame /\ r[1].list \in Seq(Class) /\ Len(r[1].list) \in Nat
    OBVIOUS
  <2>1. Head(r) = r[1] /\ Head(r) \in Frame /\ Len(r) \in Nat \ {0}
    BY <1>1, TailFacts
  <2>2. r[1].list \in Seq(Class)
    BY <2>1 DEF Frame
  <2>3. Len(r[1].list) \in Nat
    BY <2>2, LenProperties
  <2> QED
    BY <1>1, <2>1, <2>2, <2>3
<1>3. r = << >> => n = 1
  <2>1. Len(<< >>) = 0
    OBVIOUS
  <2> QED
    BY <1>1, <2>1
<1>4. CASE Head(stack).at # "class"
  <2>1. Loops(stack) = n
    BY <1>1, <1>4 DEF Loops
  <2>2. Loops(r) \in Nat /\ Loops(r) < n
    BY <1>1, <1>2 DEF Loops
  <2> QED
    BY <1>1, <2>1, <2>2 DEF StackDescends, Less
<1>5. CASE Head(stack).at = "class" /\ r = << >>
  <2>1. Loops(stack) = 0 /\ Loops(r) = 0
    BY <1>1, <1>3, <1>5 DEF Loops
  <2>2. LeftOfLoop(stack) = 0 /\ LeftOfLoop(r) = 0
    BY <2>1 DEF LeftOfLoop
  <2>3. Less(Len(r), Len(stack))
    BY <1>1 DEF Less
  <2> QED
    BY <1>1, <2>1, <2>2, <2>3 DEF StackDescends
<1>6. CASE Head(stack).at = "class" /\ r # << >> /\ Head(r).at = "class"
  <2>1. Loops(stack) = n - 1 /\ Loops(r) = n - 1 - 1
    BY <1>1, <1>6 DEF Loops
  <2>2. n - 1 - 1 \in Nat /\ n - 1 \in Nat /\ n - 1 - 1 < n - 1
    BY <1>1, <1>2, <1>6
  <2>3. Less(Loops(r), Loops(stack))
    BY <2>1, <2>2 DEF Less
  <2> QED
    BY <1>1, <2>3 DEF StackDescends
<1>7. CASE Head(stack).at = "class" /\ r # << >> /\ Head(r).at # "class"
  <2>1. Loops(stack) = n - 1 /\ Loops(r) = n - 1 /\ n - 1 # 0
    BY <1>1, <1>2, <1>7 DEF Loops
  <2>2. n + 1 - (n - 1) = 2 /\ n - 1 + 1 - (n - 1) = 1 /\ r[1] = stack[2]
    BY <1>1, <1>2, <1>7
  <2>3. LeftOfLoop(stack) = Len(stack[2].list) /\ LeftOfLoop(r) = Len(r[1].list)
    BY <1>1, <2>1, <2>2 DEF LeftOfLoop
  <2>4. LeftOfLoop(r) = LeftOfLoop(stack)
    BY <2>2, <2>3
  <2>5. Less(Len(r), Len(stack))
    BY <1>1 DEF Less
  <2> QED
    BY <1>1, <2>1, <2>4, <2>5 DEF StackDescends
<1> QED
  BY <1>4, <1>5, <1>6, <1>7

\* The loop over the uses calls AddClassToBeImported for the next class.
LEMMA CallDescends ==
  ASSUME stack \in Seq(Frame), stack # << >>, NEW f \in Frame, NEW g \in Frame,
         Head(stack).at = "uses", f.at = "class",
         Less(Len(g.list), Len(Head(stack).list)),
         stack' = << f, g >> \o Tail(stack)
  PROVE  StackDescends
<1>n. PICK n : n = Len(stack)
  OBVIOUS
<1>p. PICK p : p = << f, g >>
  OBVIOUS
<1>1. /\ Head(stack) = stack[1] /\ Tail(stack) \in Seq(Frame)
      /\ n \in Nat \ {0} /\ Len(Tail(stack)) = n - 1
  BY <1>n, TailFacts
<1>2. p \in Seq(Frame) /\ Len(p) = 2 /\ p[1] = f /\ p[2] = g
  BY <1>p
<1>3. stack' = p \o Tail(stack)
  BY <1>p
<1>4. /\ stack' \in Seq(Frame) /\ Len(stack') = n + 1
      /\ stack'[1] = f /\ stack'[2] = g
  BY <1>1, <1>2, <1>3, ConcatProperties
<1>5. stack' # << >> /\ Head(stack') = f
  <2>1. stack' # << >>
    BY <1>1, <1>4
  <2> QED
    BY <1>4, <2>1, TailFacts
<1>6. Loops(stack') = n /\ Loops(stack) = n
  <2>0. stack' # << >> /\ Head(stack').at = "class"
    BY <1>5
  <2>1. Loops(stack') = Len(stack') - 1
    BY ONLY <2>0, Zenon DEF Loops
  <2>2. Loops(stack) = n
    BY <1>n DEF Loops
  <2> QED
    BY <1>1, <1>4, <2>1, <2>2
<1>7. LeftOfLoop(stack') = Len(g.list) /\ LeftOfLoop(stack) = Len(Head(stack).list)
  <2>1. n # 0 /\ n + 1 + 1 - n = 2 /\ n + 1 - n = 1
    BY <1>1
  <2> QED
    BY <1>1, <1>4, <1>6, <1>n, <2>1 DEF LeftOfLoop
<1> QED
  BY <1>6, <1>7 DEF StackDescends

\* A step of the recursion imports a class or deals with a call.
LEMMA RecursionDescends ==
  ASSUME IInv, AddClassToBeImported \/ AddParent \/ AddImportReturnTypesAndArguments
  PROVE  Descends
<1>1. /\ UNCHANGED << phase, TypedefsLeft, remaining, work >>
      /\ stack # << >>
  BY DEF AddClassToBeImported, AddParent, AddImportReturnTypesAndArguments, TypedefsLeft
<1>2. /\ stack \in Seq(Frame) /\ Head(stack) \in Frame /\ Head(stack).list \in Seq(Class)
      /\ source \in Sources
      /\ Head(stack).at = "class" => Head(stack).list[1] \in Class
  BY <1>1, HeadFacts
<1>3. ASSUME NEW c \in Class, c \notin m_ClassesToBeImported,
             m_ClassesToBeImported' = m_ClassesToBeImported \cup {c}
      PROVE  Descends
  <2>1. Smaller(NotImported', NotImported)
    BY <1>3 DEF NotImported, Smaller
  <2> QED
    BY <1>1, <2>1 DEF Descends
<1>4. ASSUME m_ClassesToBeImported' = m_ClassesToBeImported, StackDescends
      PROVE  Descends
  <2>1. NotImported' = NotImported
    BY <1>4 DEF NotImported
  <2> QED
    BY <1>1, <1>4, <2>1 DEF Descends
<1>5. CASE AddClassToBeImported
  <2>1. CASE /\ stack' = Tail(stack)
             /\ m_ClassesToBeImported' = m_ClassesToBeImported
    BY <1>1, <1>2, <1>4, <2>1, PopDescends
  <2>2. CASE /\ Head(stack).list[1] \notin m_ClassesToBeImported
             /\ m_ClassesToBeImported' = m_ClassesToBeImported \cup {Head(stack).list[1]}
    BY <1>2, <1>3, <1>5, <2>2 DEF AddClassToBeImported
  <2> QED
    BY <1>5, <2>1, <2>2 DEF AddClassToBeImported
<1>6. CASE AddParent
  <2>1. CASE /\ stack' = Tail(stack)
             /\ m_ClassesToBeImported' = m_ClassesToBeImported
    BY <1>1, <1>2, <1>4, <2>1, PopDescends
  <2>2. CASE /\ Head(stack).list # << >>
             /\ Head(stack).list[1] \notin m_ClassesToBeImported
             /\ m_ClassesToBeImported' = m_ClassesToBeImported \cup {Head(stack).list[1]}
    <3>1. Head(stack).list[1] \in Class
      BY <1>2, <2>2, TailFacts
    <3> QED
      BY <1>3, <2>2, <3>1
  <2> QED
    BY <1>6, <2>1, <2>2 DEF AddParent
<1>7. CASE AddImportReturnTypesAndArguments
  <2>l. PICK list : list = Head(stack).list
    OBVIOUS
  <2>0. m_ClassesToBeImported' = m_ClassesToBeImported /\ Head(stack).at = "uses"
    BY <1>7 DEF AddImportReturnTypesAndArguments, chosen
  <2>1. CASE list = << >>
    <3>1. stack' = Tail(stack)
      BY <1>7, <2>1, <2>l DEF AddImportReturnTypesAndArguments
    <3> QED
      BY <1>1, <1>2, <1>4, <2>0, <3>1, PopDescends
  <2>2. CASE list # << >>
    <3> DEFINE f == [at |-> "class", list |-> << list[1] >>]
               g == [at |-> "uses", list |-> Tail(list)]
    <3>1. stack' = << f, g >> \o Tail(stack)
      BY <1>7, <2>2, <2>l DEF AddImportReturnTypesAndArguments
    <3>2. /\ list \in Seq(Class) /\ list[1] \in Class /\ Tail(list) \in Seq(Class)
          /\ Len(list) \in Nat \ {0} /\ Len(Tail(list)) = Len(list) - 1
      BY <1>2, <2>2, <2>l, TailFacts
    <3>3. f \in Frame /\ g \in Frame /\ f.at = "class" /\ g.list = Tail(list)
      BY <3>2, OneElement DEF Frame
    <3>4. Less(Len(g.list), Len(Head(stack).list))
      BY <3>2, <3>3, <2>l DEF Less
    <3> HIDE DEF f, g
    <3>5. StackDescends
      BY <1>1, <1>2, <2>0, <3>1, <3>3, <3>4, CallDescends
    <3> QED
      BY <1>4, <2>0, <3>5
  <2> QED
    BY <2>1, <2>2
<1> QED
  BY <1>5, <1>6, <1>7

LEMMA DescendsNext ==
  ASSUME IInv, [Next]_vars
  PROVE  [Descends]_vars
<1>0. Determined /\ TypeOK /\ source \in Sources
  BY DEF IInv
<1>1. CASE WrapTypedef
  <2>1. /\ next <= Len(source.wrappers) /\ next' = next + 1
        /\ source' = source /\ phase' = phase
    BY <1>1 DEF WrapTypedef
  <2>2. next \in Nat \ {0} /\ Len(source.wrappers) \in Nat
    <3>1. source.wrappers \in Seq(Class)
      BY <1>0, CableSwigAssumption DEF Source
    <3> QED
      BY <1>0, <3>1, LenProperties DEF TypeOK
  <2>3. Less(TypedefsLeft', TypedefsLeft)
    <3>1. \A m, k \in Nat : k <= m => Less(m + 1 - (k + 1), m + 1 - k)
      BY DEF Less
    <3>2. /\ TypedefsLeft = Len(source.wrappers) + 1 - next
          /\ TypedefsLeft' = Len(source.wrappers) + 1 - (next + 1)
      BY <2>1 DEF TypedefsLeft
    <3>3. next \in Nat /\ Len(source.wrappers) \in Nat
      BY <2>2
    <3> QED
      BY <2>1, <3>1, <3>2, <3>3
  <2> QED
    BY <2>1, <2>3 DEF Descends
<1>2. CASE AddClassToBeImported \/ AddParent \/ AddImportReturnTypesAndArguments
  BY <1>2, RecursionDescends
<1>3. CASE RemoveIncluded \/ EndImported \/ EndIncluded
  <2>1. \/ phase = "determine" /\ phase' = "imported"
        \/ phase = "imported" /\ phase' = "included"
        \/ phase = "included" /\ phase' = "done"
    BY <1>3 DEF RemoveIncluded, EndImported, EndIncluded
  <2>2. Less(PhasesLeft', PhasesLeft)
    BY <2>1 DEF PhasesLeft, Less
  <2> QED
    BY <2>2 DEF Descends
<1>4. ASSUME NEW c \in Class, Process(c) PROVE Descends
  <2>1. /\ c \in remaining /\ remaining' = remaining \ {c}
        /\ UNCHANGED << phase, TypedefsLeft, NotImported >>
    BY <1>4 DEF Process, chosen, TypedefsLeft, NotImported
  <2>2. Smaller(remaining', remaining)
    BY <2>1 DEF Smaller
  <2> QED
    BY <2>1, <2>2 DEF Descends
<1>5. CASE HandOver
  <2>1. /\ work # << >> /\ work' = Tail(work) /\ work \in Seq(Class)
        /\ UNCHANGED << phase, TypedefsLeft, NotImported, remaining >>
    BY <1>0, <1>5 DEF HandOver, chosen, TypedefsLeft, NotImported, TypeOK
  <2>2. Len(work) \in Nat \ {0} /\ Len(work') = Len(work) - 1
    BY <2>1, TailFacts
  <2>3. Less(Len(work'), Len(work))
    BY <2>2 DEF Less
  <2> QED
    BY <2>1, <2>3 DEF Descends
<1>6. CASE Done
  BY <1>6 DEF Done
<1> QED
  BY <1>1, <1>2, <1>3, <1>4, <1>5, <1>6 DEF Next

\* For every source representation, also one whose classes use each other in a cycle,
\* and every order of the sets: with finitely many classes ProcessSource has finitely
\* many steps.
THEOREM SelectionDescends == Spec => [][Descends]_vars
<1>1. IInv /\ [Next]_vars => [Descends]_vars
  BY DescendsNext
<1> QED
  BY <1>1, InvariantHolds, PTL DEF Spec
=============================================================================
