---------------------------- MODULE SwigScopesProofs ----------------------------
(***************************************************************************)
(* Proofs about SwigScopes for every set of classes and programs: every    *)
(* class is entered in a scope of its namespace, the classes of a          *)
(* namespace share that scope, no class is lost, and what a class has in   *)
(* its scope depends on that class alone.  The argument is IInv: it says   *)
(* where each step of a call finds the current scope, what the C names of  *)
(* the global scope lead to, and which nodes a symbol table can hold.      *)
(***************************************************************************)
EXTENDS SwigScopes, SequenceTheorems, WellFoundedInduction, TLAPS

-----------------------------------------------------------------------------
(* Sequences and induction. *)

LEMMA LenOf ==
  ASSUME NEW n \in Nat, NEW f, f = [i \in 1 .. n |-> f[i]]
  PROVE  Len(f) = n
<1> DEFINE S == {f[i] : i \in 1 .. n}
<1>1. f \in [1 .. n -> S]
  OBVIOUS
<1>2. f \in Seq(S)
  BY <1>1
<1> QED
  BY <1>1, <1>2, LenProperties

LEMMA AppendAny ==
  ASSUME NEW s, NEW x, Len(s) \in Nat, s = [i \in 1 .. Len(s) |-> s[i]]
  PROVE  /\ Len(Append(s, x)) = Len(s) + 1
         /\ Append(s, x) = [i \in 1 .. Len(s) + 1 |-> Append(s, x)[i]]
         /\ \A i \in 1 .. Len(s) : Append(s, x)[i] = s[i]
         /\ Append(s, x)[Len(s) + 1] = x
<1> DEFINE S == {s[i] : i \in 1 .. Len(s)} \cup {x}
<1>1. s \in Seq(S)
  BY DEF S
<1>2. x \in S
  BY DEF S
<1> HIDE DEF S
<1>3. /\ Append(s, x) \in Seq(S)
      /\ Len(Append(s, x)) = Len(s) + 1
      /\ \A i \in 1 .. Len(s) : Append(s, x)[i] = s[i]
      /\ Append(s, x)[Len(s) + 1] = x
  BY <1>1, <1>2, AppendProperties
<1>4. Append(s, x) \in [1 .. Len(s) + 1 -> S]
  BY <1>3, LenProperties
<1> QED
  BY <1>3, <1>4

\* Every nonempty set of natural numbers has a least element.
LEMMA SmallestOf ==
  ASSUME NEW T, T \subseteq Nat, T # {}
  PROVE  \E n \in T : \A m \in T : n <= m
<1>1. \E n \in T : \A m \in T : << m, n >> \notin OpToRel(<, Nat)
  BY NatLessThanWellFounded, WFMin
<1>2. \A m, n \in Nat : m < n => << m, n >> \in OpToRel(<, Nat)
  BY DEF OpToRel
<1>3. \E n \in T : \A m \in T : ~ (m < n)
  BY <1>1, <1>2, Zenon
<1> QED
  BY <1>3

\* Induction, for a set of numbers.
LEMMA NatSetInduction ==
  ASSUME NEW S, 0 \in S, \A n \in Nat : n \in S => n + 1 \in S
  PROVE  Nat \subseteq S
<1> DEFINE T == Nat \ S
<1>1. SUFFICES ASSUME T # {} PROVE FALSE
  OBVIOUS
<1>2. PICK n \in T : \A m \in T : n <= m
  BY <1>1, SmallestOf
<1>3. n # 0 /\ n - 1 \in Nat /\ n - 1 \notin T
  BY <1>2
<1> QED
  BY <1>2, <1>3

-----------------------------------------------------------------------------
(* SWIG's symbol tables. *)

\* The lookup from the global scope ends there: the recursion is well defined
\* because a scope is younger than the one around it.
LEMMA ClookupGlobal ==
  ASSUME ScopeTree, NEW name
  PROVE  Clookup(name)[GlobalScope] =
           IF name \in DOMAIN scopes[GlobalScope].csymtab
           THEN {scopes[GlobalScope].csymtab[name]} ELSE {}
<1> DEFINE Step(h, s) == IF s = 0 THEN {}
                         ELSE IF name \in DOMAIN scopes[s].csymtab
                              THEN {scopes[s].csymtab[name]}
                              ELSE h[scopes[s].parent]
           Found0(k, h) == h = [s \in 0 .. k |-> Step(h, s)]
           S == {k \in Nat : k <= Len(scopes) => \E h : Found0(k, h)}
           N == Len(scopes)
<1>1. /\ N \in Nat \ {0}
      /\ \A s \in 1 .. N : scopes[s].parent \in 0 .. s - 1
      /\ scopes[GlobalScope].parent = 0
  BY DEF ScopeTree, GlobalScope
<1>2. 0 \in S
  <2>1. Found0(0, [s \in 0 .. 0 |-> {}])
    OBVIOUS
  <2> QED BY <2>1
<1>3. ASSUME NEW k \in Nat, k \in S PROVE k + 1 \in S
  <2> SUFFICES ASSUME k + 1 <= N PROVE \E h : Found0(k + 1, h)
    BY DEF S
  <2>1. PICK h : Found0(k, h)
    BY <1>1, <1>3
  <2> DEFINE e == [s \in 0 .. k + 1 |-> IF s = k + 1 THEN Step(h, k + 1) ELSE h[s]]
  <2>2. ASSUME NEW s \in 0 .. k + 1
        PROVE  e[s] = Step(e, s)
    <3>1. s # 0 => scopes[s].parent \in 0 .. k /\ e[scopes[s].parent] = h[scopes[s].parent]
      BY <1>1
    <3>2. CASE s = k + 1
      BY <3>1, <3>2
    <3>3. CASE s \in 0 .. k
      BY <3>1, <3>3, <2>1
    <3> QED
      BY <3>2, <3>3
  <2>3. Found0(k + 1, e)
    BY <2>2
  <2> QED BY <2>3
<1>4. \E h : Found0(N, h)
  <2> HIDE DEF S
  <2>1. N \in S
    BY <1>1, <1>2, <1>3, NatSetInduction
  <2> QED
    BY <1>1, <2>1 DEF S
<1>5. Found0(N, Clookup(name))
  BY <1>4 DEF Clookup
<1> DEFINE g == Clookup(name)
<1>6. \A s \in 0 .. N : g[s] = Step(g, s)
  <2> HIDE DEF g
  <2> QED
    BY <1>1, <1>5 DEF g
<1>7. g[0] = Step(g, 0) /\ g[1] = Step(g, 1)
  <2> HIDE DEF g, Step
  <2> 0 \in 0 .. N /\ 1 \in 0 .. N
    BY <1>1
  <2> QED
    BY <1>6
<1>8. g[0] = {}
  <2> HIDE DEF g
  <2> QED
    BY <1>7
<1>9. g[1] = IF name \in DOMAIN scopes[1].csymtab THEN {scopes[1].csymtab[name]} ELSE g[0]
  <2> HIDE DEF g
  <2>1. scopes[1].parent = 0
    BY <1>1 DEF GlobalScope
  <2> QED
    BY <1>7, <2>1
<1> QED
  BY <1>8, <1>9 DEF GlobalScope

\* What Swig_symbol_add leaves of a scope: only the two names can change, and an
\* entry only grows.
LEMMA SymbolAddFacts ==
  ASSUME NEW x, IsScope(x), NEW name, NEW symbol, NEW n \in Node
  PROVE  LET y == SymbolAdd(x, name, symbol, n)
         IN  /\ IsScope(y)
             /\ y.parent = x.parent
             /\ y.name = x.name
             /\ DOMAIN y.csymtab = DOMAIN x.csymtab \cup {name}
             /\ \A k \in DOMAIN x.csymtab : y.csymtab[k] = x.csymtab[k]
             /\ name \notin DOMAIN x.csymtab => y.csymtab[name] = n
             /\ DOMAIN y.symtab = DOMAIN x.symtab \cup {symbol}
             /\ \A k \in DOMAIN x.symtab \ {symbol} : y.symtab[k] = x.symtab[k]
             /\ symbol \notin DOMAIN x.symtab => y.symtab[symbol] = << n >>
             /\ symbol \in DOMAIN x.symtab =>
                  y.symtab[symbol] = IF NoConflict(x, symbol, n)
                                     THEN Append(x.symtab[symbol], n) ELSE x.symtab[symbol]
<1> DEFINE y == SymbolAdd(x, name, symbol, n)
           z == Cadd(x, name, n)
<1>1. /\ z = [parent |-> x.parent, name |-> x.name, csymtab |-> z.csymtab, symtab |-> x.symtab]
      /\ DOMAIN z.csymtab = DOMAIN x.csymtab \cup {name}
      /\ \A k \in DOMAIN x.csymtab : z.csymtab[k] = x.csymtab[k]
      /\ name \notin DOMAIN x.csymtab => z.csymtab[name] = n
  BY DEF Cadd, Put, IsScope
<1>2. \A k \in DOMAIN z.csymtab : z.csymtab[k] \in Node
  BY <1>1 DEF IsScope
<1> DEFINE e == IF symbol \in DOMAIN x.symtab THEN Append(x.symtab[symbol], n) ELSE << n >>
<1>3. e \in Seq(Node) /\ e # << >>
  <2>1. CASE symbol \in DOMAIN x.symtab
    BY <2>1, AppendProperties DEF IsScope
  <2>2. CASE symbol \notin DOMAIN x.symtab
    BY <2>2
  <2> QED
    BY <2>1, <2>2
<1>4. CASE NoConflict(x, symbol, n)
  <2> HIDE DEF z, e
  <2>1. y = [z EXCEPT !.symtab = Put(@, symbol,
               IF symbol \in DOMAIN @ THEN Append(@[symbol], n) ELSE << n >>)]
    BY <1>4 DEF SymbolAdd, z
  <2>2. y = [parent |-> x.parent, name |-> x.name, csymtab |-> z.csymtab,
             symtab |-> Put(x.symtab, symbol, e)]
    BY <1>1, <2>1 DEF e
  <2> HIDE DEF y
  <2>3. /\ DOMAIN y.symtab = DOMAIN x.symtab \cup {symbol}
        /\ \A k \in DOMAIN x.symtab \ {symbol} : y.symtab[k] = x.symtab[k]
        /\ y.symtab[symbol] = e
    BY <2>2 DEF Put
  <2>4. \A k \in DOMAIN y.symtab : y.symtab[k] \in Seq(Node) /\ y.symtab[k] # << >>
    BY <2>3, <1>3 DEF IsScope
  <2>5. IsScope(y)
    BY <2>2, <2>4, <1>2 DEF IsScope
  <2>6. /\ y.parent = x.parent
        /\ y.name = x.name
        /\ y.csymtab = z.csymtab
    BY <2>2
  <2>7. /\ symbol \notin DOMAIN x.symtab => y.symtab[symbol] = << n >>
        /\ symbol \in DOMAIN x.symtab => y.symtab[symbol] = Append(x.symtab[symbol], n)
    BY <2>3 DEF e
  <2> QED
    BY <1>1, <1>4, <2>3, <2>5, <2>6, <2>7 DEF y
<1>5. CASE ~ NoConflict(x, symbol, n)
  <2> HIDE DEF z
  <2>1. y = z
    BY <1>5 DEF SymbolAdd, z
  <2>2. symbol \in DOMAIN x.symtab
    BY <1>5 DEF NoConflict
  <2> HIDE DEF y
  <2>3. IsScope(y)
    BY <1>1, <1>2, <2>1 DEF IsScope
  <2> QED
    BY <1>1, <1>5, <2>1, <2>2, <2>3 DEF y
<1> QED
  BY <1>4, <1>5

-----------------------------------------------------------------------------
(* How a step changes the scopes. *)

\* Every scope is left where it is and under its name, and no scope that was there
\* becomes that of a class.
Grows ==
  /\ program' = program
  /\ Len(scopes') \in Nat /\ Len(scopes) <= Len(scopes')
  /\ \A s \in 1 .. Len(scopes) :
       /\ scopes'[s].parent = scopes[s].parent
       /\ scopes'[s].name = scopes[s].name
       /\ ClassScope(s)' => ClassScope(s)

\* Node n, which may be new, goes to scope s0; there may be a new, empty, scope.
Adds(s0, name, symbol, n) ==
  /\ s0 \in 1 .. Len(scopes)
  /\ n \in Node
  /\ scopes'[s0] = SymbolAdd(scopes[s0], name, symbol, n)
  /\ \A s \in 1 .. Len(scopes) : s # s0 => scopes'[s] = scopes[s]
  /\ Len(scopes') \in {Len(scopes), Len(scopes) + 1}
  /\ scopes' = [s \in 1 .. Len(scopes') |-> scopes'[s]]
  /\ Len(scopes') = Len(scopes) + 1 =>
       \E p \in 1 .. Len(scopes) : \E m : scopes'[Len(scopes) + 1] =
         [parent |-> p, name |-> m, csymtab |-> << >>, symtab |-> << >>]

OwnersKept == \A c, s : Owns(c, s) => Owns(c, s)'

LEMMA BelongsKept ==
  ASSUME Grows, Len(scopes) \in Nat
  PROVE  \A c, s : Belongs(c, s) => Belongs(c, s)'
<1> SUFFICES ASSUME NEW c, NEW s, Belongs(c, s)
             PROVE  Belongs(c, s)'
  OBVIOUS
<1>1. /\ Namespaced(c)' = Namespaced(c)
      /\ ContextOf(c)' = ContextOf(c)
  BY DEF Grows, Namespaced, ContextOf
<1>2. /\ s \in 1 .. Len(scopes)
      /\ s \in 1 .. Len(scopes')
      /\ ~ ClassScope(s)'
      /\ scopes'[s].parent = scopes[s].parent
      /\ scopes'[s].name = scopes[s].name
  BY DEF Belongs, Grows
<1> QED
  BY <1>1, <1>2 DEF Belongs, GlobalScope

LEMMA PlacedKept ==
  ASSUME Grows, OwnersKept, Len(scopes) \in Nat
  PROVE  \A n, s, k : Placed(n, s, k) => Placed(n, s, k)'
<1>1. \A d : /\ TypedefName(d)' = TypedefName(d)
             /\ Namespaced(d)' = Namespaced(d)
             /\ ContextOf(d)' = ContextOf(d)
  BY DEF Grows, TypedefName, NestedInClass, Namespaced, ContextOf
<1> QED
  BY <1>1, BelongsKept DEF Placed, OwnersKept, GlobalScope

LEMMA AddsTree ==
  ASSUME ScopeTree, NEW s0, NEW name, NEW symbol, NEW n, Adds(s0, name, symbol, n)
  PROVE  /\ ScopeTree'
         /\ \A s \in 1 .. Len(scopes) : /\ scopes'[s].parent = scopes[s].parent
                                       /\ scopes'[s].name = scopes[s].name
         /\ Len(scopes') \in Nat /\ Len(scopes) <= Len(scopes')
<1>a. /\ Len(scopes) \in Nat \ {0}
      /\ \A s \in 1 .. Len(scopes) : IsScope(scopes[s])
      /\ scopes[GlobalScope].parent = 0
      /\ \A s \in 2 .. Len(scopes) : scopes[s].parent \in 1 .. s - 1
  BY Zenon DEF ScopeTree
<1>b. /\ n \in Node
      /\ Len(scopes') \in {Len(scopes), Len(scopes) + 1}
      /\ scopes'[s0] = SymbolAdd(scopes[s0], name, symbol, n)
      /\ \A s \in 1 .. Len(scopes) : s # s0 => scopes'[s] = scopes[s]
      /\ Len(scopes') = Len(scopes) + 1 =>
           \E p \in 1 .. Len(scopes) : \E m : scopes'[Len(scopes) + 1] =
             [parent |-> p, name |-> m, csymtab |-> << >>, symtab |-> << >>]
  BY Zenon DEF Adds
<1>1. Len(scopes) \in Nat \ {0} /\ Len(scopes') \in Nat \ {0} /\ Len(scopes) <= Len(scopes')
  BY <1>a, <1>b
<1>2. ASSUME NEW s \in 1 .. Len(scopes)
      PROVE  /\ IsScope(scopes'[s])
             /\ scopes'[s].parent = scopes[s].parent
             /\ scopes'[s].name = scopes[s].name
  <2>1. IsScope(scopes[s])
    BY <1>a
  <2>2. CASE s = s0
    BY <2>1, <2>2, <1>b, SymbolAddFacts
  <2>3. CASE s # s0
    BY <2>1, <2>3, <1>b
  <2> QED
    BY <2>2, <2>3
<1>3. ASSUME Len(scopes') = Len(scopes) + 1
      PROVE  /\ IsScope(scopes'[Len(scopes')])
             /\ scopes'[Len(scopes')].parent \in 1 .. Len(scopes)
  <2>0. PICK p \in 1 .. Len(scopes) : \E m : scopes'[Len(scopes')] =
          [parent |-> p, name |-> m, csymtab |-> << >>, symtab |-> << >>]
    BY <1>3, <1>b
  <2>1. PICK m : scopes'[Len(scopes')] =
          [parent |-> p, name |-> m, csymtab |-> << >>, symtab |-> << >>]
    BY <2>0
  <2>2. \A x : x = [parent |-> p, name |-> m, csymtab |-> << >>, symtab |-> << >>] =>
          IsScope(x) /\ x.parent = p
    BY <1>1 DEF IsScope
  <2> QED
    BY <2>1, <2>2
<1>5. \A s \in 1 .. Len(scopes') : s \in 1 .. Len(scopes) \/
        (s = Len(scopes') /\ Len(scopes') = Len(scopes) + 1)
  BY <1>1, <1>b
<1>6. \A s \in 1 .. Len(scopes') : IsScope(scopes'[s])
  BY <1>2, <1>3, <1>5
<1>7. \A s \in 2 .. Len(scopes') : scopes'[s].parent \in 1 .. s - 1
  BY <1>1, <1>2, <1>3, <1>5, <1>a
<1>8. scopes'[GlobalScope].parent = 0
  BY <1>1, <1>2, <1>a DEF GlobalScope
<1>10. (\A s \in 1 .. Len(scopes) : IsScope(scopes[s]))'
  BY <1>6 DEF IsScope
<1>11. (Len(scopes) \in Nat \ {0} /\ scopes = [s \in 1 .. Len(scopes) |-> scopes[s]])'
  BY <1>1, Zenon DEF Adds
<1>12. (/\ scopes[GlobalScope].parent = 0
       /\ \A s \in 2 .. Len(scopes) : scopes[s].parent \in 1 .. s - 1)'
  BY <1>7, <1>8 DEF GlobalScope
<1> QED
  BY <1>1, <1>2, <1>10, <1>11, <1>12, Zenon DEF ScopeTree

\* The C names of each scope after n was added: the old ones, and name for n if it
\* was free.
LEMMA AddsNames ==
  ASSUME ScopeTree, NEW s0, NEW name, NEW symbol, NEW n, Adds(s0, name, symbol, n)
  PROVE  /\ \A s \in 1 .. Len(scopes') : \A k \in DOMAIN scopes'[s].csymtab :
              \/ /\ s \in 1 .. Len(scopes)
                 /\ k \in DOMAIN scopes[s].csymtab
                 /\ scopes'[s].csymtab[k] = scopes[s].csymtab[k]
              \/ /\ s = s0
                 /\ k = name
                 /\ k \notin DOMAIN scopes[s].csymtab
                 /\ scopes'[s].csymtab[k] = n
         /\ \A s \in 1 .. Len(scopes) : \A k \in DOMAIN scopes[s].csymtab :
              /\ k \in DOMAIN scopes'[s].csymtab
              /\ scopes'[s].csymtab[k] = scopes[s].csymtab[k]
         /\ name \in DOMAIN scopes'[s0].csymtab
<1>1. /\ Len(scopes) \in Nat \ {0}
      /\ \A s \in 1 .. Len(scopes) : IsScope(scopes[s])
  BY Zenon DEF ScopeTree
<1>2. /\ s0 \in 1 .. Len(scopes)
      /\ n \in Node
      /\ Len(scopes') \in {Len(scopes), Len(scopes) + 1}
      /\ scopes'[s0] = SymbolAdd(scopes[s0], name, symbol, n)
      /\ \A s \in 1 .. Len(scopes) : s # s0 => scopes'[s] = scopes[s]
      /\ Len(scopes') = Len(scopes) + 1 =>
           \E p \in 1 .. Len(scopes) : \E m : scopes'[Len(scopes) + 1] =
             [parent |-> p, name |-> m, csymtab |-> << >>, symtab |-> << >>]
  BY Zenon DEF Adds
<1>3. /\ DOMAIN scopes'[s0].csymtab = DOMAIN scopes[s0].csymtab \cup {name}
      /\ \A k \in DOMAIN scopes[s0].csymtab : scopes'[s0].csymtab[k] = scopes[s0].csymtab[k]
      /\ name \notin DOMAIN scopes[s0].csymtab => scopes'[s0].csymtab[name] = n
  BY <1>1, <1>2, SymbolAddFacts
<1>4. Len(scopes') = Len(scopes) + 1 => DOMAIN scopes'[Len(scopes')].csymtab = {}
  <2> SUFFICES ASSUME Len(scopes') = Len(scopes) + 1
               PROVE  DOMAIN scopes'[Len(scopes')].csymtab = {}
    OBVIOUS
  <2>0. PICK p \in 1 .. Len(scopes) : \E m : scopes'[Len(scopes')] =
          [parent |-> p, name |-> m, csymtab |-> << >>, symtab |-> << >>]
    BY <1>2
  <2>1. PICK m : scopes'[Len(scopes')] =
          [parent |-> p, name |-> m, csymtab |-> << >>, symtab |-> << >>]
    BY <2>0
  <2>2. scopes'[Len(scopes')].csymtab = << >>
    BY <2>1
  <2> QED
    BY <2>2
<1>5. \A s \in 1 .. Len(scopes') : s \in 1 .. Len(scopes) \/
        (s = Len(scopes') /\ Len(scopes') = Len(scopes) + 1)
  BY <1>1, <1>2
<1> QED
  BY <1>2, <1>3, <1>4, <1>5

\* The nodes in the symbol table of each scope after n was added: the old ones, and n
\* at the end of the entry of symbol if it conflicts with none there.
LEMMA AddsSymbols ==
  ASSUME ScopeTree, NEW s0, NEW name, NEW symbol, NEW n, Adds(s0, name, symbol, n)
  PROVE  /\ \A s \in 1 .. Len(scopes') : \A k \in DOMAIN scopes'[s].symtab :
              \A i \in 1 .. Len(scopes'[s].symtab[k]) :
                \/ /\ s \in 1 .. Len(scopes)
                   /\ k \in DOMAIN scopes[s].symtab
                   /\ i \in 1 .. Len(scopes[s].symtab[k])
                   /\ scopes'[s].symtab[k][i] = scopes[s].symtab[k][i]
                \/ s = s0 /\ k = symbol /\ scopes'[s].symtab[k][i] = n
         /\ \A s \in 1 .. Len(scopes) : \A k \in DOMAIN scopes[s].symtab :
              /\ k \in DOMAIN scopes'[s].symtab
              /\ \/ scopes'[s].symtab[k] = scopes[s].symtab[k]
                 \/ /\ s = s0 /\ k = symbol
                    /\ NoConflict(scopes[s], symbol, n)
                    /\ scopes'[s].symtab[k] = Append(scopes[s].symtab[k], n)
         /\ symbol \notin DOMAIN scopes[s0].symtab =>
              symbol \in DOMAIN scopes'[s0].symtab /\ scopes'[s0].symtab[symbol] = << n >>
<1>1. /\ Len(scopes) \in Nat \ {0}
      /\ \A s \in 1 .. Len(scopes) : IsScope(scopes[s])
  BY Zenon DEF ScopeTree
<1>2. /\ s0 \in 1 .. Len(scopes)
      /\ n \in Node
      /\ Len(scopes') \in {Len(scopes), Len(scopes) + 1}
      /\ scopes'[s0] = SymbolAdd(scopes[s0], name, symbol, n)
      /\ \A s \in 1 .. Len(scopes) : s # s0 => scopes'[s] = scopes[s]
      /\ Len(scopes') = Len(scopes) + 1 =>
           \E p \in 1 .. Len(scopes) : \E m : scopes'[Len(scopes) + 1] =
             [parent |-> p, name |-> m, csymtab |-> << >>, symtab |-> << >>]
  BY Zenon DEF Adds
<1> DEFINE old == scopes[s0].symtab
           new == scopes'[s0].symtab
<1>3. /\ DOMAIN new = DOMAIN old \cup {symbol}
      /\ \A k \in DOMAIN old \ {symbol} : new[k] = old[k]
      /\ symbol \notin DOMAIN old => new[symbol] = << n >>
      /\ symbol \in DOMAIN old =>
           new[symbol] = IF NoConflict(scopes[s0], symbol, n)
                         THEN Append(old[symbol], n) ELSE old[symbol]
  BY <1>1, <1>2, SymbolAddFacts
<1>4. Len(scopes') = Len(scopes) + 1 => DOMAIN scopes'[Len(scopes')].symtab = {}
  <2> SUFFICES ASSUME Len(scopes') = Len(scopes) + 1
               PROVE  DOMAIN scopes'[Len(scopes')].symtab = {}
    OBVIOUS
  <2>0. PICK p \in 1 .. Len(scopes) : \E m : scopes'[Len(scopes')] =
          [parent |-> p, name |-> m, csymtab |-> << >>, symtab |-> << >>]
    BY <1>2
  <2>1. PICK m : scopes'[Len(scopes')] =
          [parent |-> p, name |-> m, csymtab |-> << >>, symtab |-> << >>]
    BY <2>0
  <2>2. scopes'[Len(scopes')].symtab = << >>
    BY <2>1
  <2> QED
    BY <2>2
<1>5. \A s \in 1 .. Len(scopes') : s \in 1 .. Len(scopes) \/
        (s = Len(scopes') /\ Len(scopes') = Len(scopes) + 1)
  BY <1>1, <1>2
<1>6. \A k \in DOMAIN old : old[k] \in Seq(Node)
  BY <1>1, <1>2 DEF IsScope
<1> HIDE DEF old, new
<1>7. ASSUME NEW k \in DOMAIN new, NEW i \in 1 .. Len(new[k])
      PROVE  \/ k \in DOMAIN old /\ i \in 1 .. Len(old[k]) /\ new[k][i] = old[k][i]
             \/ k = symbol /\ new[k][i] = n
  <2>1. CASE k \in DOMAIN old \ {symbol}
    BY <1>3, <2>1
  <2>2. CASE k = symbol /\ k \notin DOMAIN old
    BY <1>3, <2>2
  <2>3. CASE k = symbol /\ k \in DOMAIN old /\ NoConflict(scopes[s0], symbol, n)
    <3>1. new[k] = Append(old[k], n) /\ old[k] \in Seq(Node)
      BY <1>3, <1>6, <2>3
    <3>2. /\ Len(new[k]) = Len(old[k]) + 1
          /\ Len(old[k]) \in Nat
          /\ \A j \in 1 .. Len(old[k]) : new[k][j] = old[k][j]
          /\ new[k][Len(old[k]) + 1] = n
      BY <3>1, <1>2, AppendProperties, LenProperties
    <3> QED
      BY <2>3, <3>2
  <2>4. CASE k = symbol /\ k \in DOMAIN old /\ ~ NoConflict(scopes[s0], symbol, n)
    BY <1>3, <2>4
  <2> QED
    BY <1>3, <2>1, <2>2, <2>3, <2>4
<1>8. \A k \in DOMAIN old :
        /\ k \in DOMAIN new
        /\ \/ new[k] = old[k]
           \/ k = symbol /\ NoConflict(scopes[s0], symbol, n) /\ new[k] = Append(old[k], n)
  BY <1>3
<1>9. \A s \in 1 .. Len(scopes') : \A k \in DOMAIN scopes'[s].symtab :
        \A i \in 1 .. Len(scopes'[s].symtab[k]) :
          \/ /\ s \in 1 .. Len(scopes)
             /\ k \in DOMAIN scopes[s].symtab
             /\ i \in 1 .. Len(scopes[s].symtab[k])
             /\ scopes'[s].symtab[k][i] = scopes[s].symtab[k][i]
          \/ s = s0 /\ k = symbol /\ scopes'[s].symtab[k][i] = n
  BY <1>2, <1>4, <1>5, <1>7 DEF old, new
<1>10. \A s \in 1 .. Len(scopes) : \A k \in DOMAIN scopes[s].symtab :
         /\ k \in DOMAIN scopes'[s].symtab
         /\ \/ scopes'[s].symtab[k] = scopes[s].symtab[k]
            \/ /\ s = s0 /\ k = symbol
               /\ NoConflict(scopes[s], symbol, n)
               /\ scopes'[s].symtab[k] = Append(scopes[s].symtab[k], n)
  BY <1>2, <1>8 DEF old, new
<1>11. symbol \notin DOMAIN scopes[s0].symtab =>
         symbol \in DOMAIN scopes'[s0].symtab /\ scopes'[s0].symtab[symbol] = << n >>
  BY <1>3 DEF old, new
<1> QED
  BY <1>9, <1>10, <1>11

-----------------------------------------------------------------------------
(* The initial states. *)

LEMMA IInvInit ==
  ASSUME Init
  PROVE  IInv
<1> DEFINE x == [parent |-> 0, name |-> Unnamed, csymtab |-> << >>, symtab |-> << >>]
<1>1. /\ scopes = << x >>
      /\ current = 1
      /\ top = << >>
      /\ call = NoCall
      /\ m_ClassesIncludedOrImported = {}
      /\ m_NamespacesToUse = {}
  BY DEF Init, GlobalScope
<1>2. /\ Len(scopes) = 1
      /\ scopes = [s \in 1 .. 1 |-> scopes[s]]
      /\ scopes[1] = x
      /\ Len(top) = 0
      /\ call.at = "idle"
  BY <1>1 DEF NoCall
<1>3. DOMAIN scopes[1].csymtab = {} /\ DOMAIN scopes[1].symtab = {} /\ IsScope(scopes[1])
  <2>1. scopes[1].csymtab = << >> /\ scopes[1].symtab = << >>
    BY <1>2
  <2>2. DOMAIN scopes[1].csymtab = {} /\ DOMAIN scopes[1].symtab = {}
    BY <2>1
  <2> QED
    BY <1>2, <2>2 DEF IsScope
<1> HIDE DEF x
<1>4. program \in Program
  BY ScopesAssumption DEF Init
<1>5. \A s \in 1 .. Len(scopes) : s = 1
  BY <1>2
<1>6. ScopeTree
  <2>1. scopes[1].parent = 0
    BY <1>2 DEF x
  <2> QED
    BY <1>2, <1>3, <1>5, <2>1 DEF ScopeTree, GlobalScope
<1>7. CallTyped /\ CurrentScope
  BY <1>1, <1>2 DEF CallTyped, CurrentScope, GlobalScope
<1>8. TopScopes
  BY <1>1, <1>2 DEF TopScopes
<1>9. NamespaceNodes /\ GlobalNames
  BY <1>3, <1>5 DEF NamespaceNodes, GlobalNames, GlobalScope
<1>10. NamespaceShared
  BY <1>1, <1>2 DEF NamespaceShared
<1>11. NodesPlaced
  BY <1>3, <1>5 DEF NodesPlaced
<1>12. ClassesFound /\ MethodsEntered
  BY <1>2 DEF ClassesFound, MethodsEntered, Owns
<1> QED
  BY <1>1, <1>2, <1>4, <1>6, <1>7, <1>8, <1>9, <1>10, <1>11, <1>12 DEF IInv

-----------------------------------------------------------------------------
(* What is left alone. *)

LEMMA TopScopeKept ==
  ASSUME Grows, Len(scopes) \in Nat,
         m_ClassesIncludedOrImported \subseteq m_ClassesIncludedOrImported'
  PROVE  \A t : TopScope(t) => TopScope(t)'
<1> SUFFICES ASSUME NEW t, TopScope(t)
             PROVE  TopScope(t)'
  OBVIOUS
<1> DEFINE p == scopes[t.symtab].parent
<1>1. /\ t.class \in m_ClassesIncludedOrImported
      /\ t.symtab \in 2 .. Len(scopes)
      /\ Belongs(t.class, p)
      /\ t.within = IF Namespaced(t.class) THEN p ELSE 0
  BY DEF TopScope
<1>2. t.symtab \in 1 .. Len(scopes) /\ t.symtab \in 2 .. Len(scopes')
  BY <1>1 DEF Grows
<1>3. scopes'[t.symtab].parent = p
  BY <1>2 DEF Grows
<1>4. Belongs(t.class, scopes[t.symtab].parent)'
  BY <1>1, <1>3, BelongsKept
<1>5. Namespaced(t.class)' = Namespaced(t.class)
  BY DEF Grows, Namespaced, ContextOf
<1> QED
  BY <1>1, <1>2, <1>3, <1>4, <1>5 DEF TopScope

LEMMA TopKept ==
  ASSUME TopScopes, Grows, Len(scopes) \in Nat, UNCHANGED top,
         m_ClassesIncludedOrImported \subseteq m_ClassesIncludedOrImported'
  PROVE  TopScopes'
BY TopScopeKept DEF TopScopes

LEMMA NamespaceNodesKept ==
  ASSUME NamespaceNodes, Grows, Len(scopes) \in Nat, UNCHANGED scopes
  PROVE  NamespaceNodes'
<1>1. \A c : Namespaced(c)' = Namespaced(c) /\ ContextOf(c)' = ContextOf(c)
  BY DEF Grows, Namespaced, ContextOf
<1> QED
  BY <1>1, BelongsKept DEF NamespaceNodes

\* The methods entered in a scope that stays as it is.
LEMMA MethodsOfKept ==
  ASSUME UNCHANGED program
  PROVE  \A c, s, P : scopes'[s].symtab = scopes[s].symtab /\ MethodsOf(c, s, P)
           => MethodsOf(c, s, P)'
<1> SUFFICES ASSUME NEW c, NEW s, NEW P,
                    scopes'[s].symtab = scopes[s].symtab, MethodsOf(c, s, P)
             PROVE  MethodsOf(c, s, P)'
  OBVIOUS
<1>1. /\ \A d, i : MethodNode(d, i)' = MethodNode(d, i)
      /\ \A d, i : Before(d, i, i)' = Before(d, i, i)
      /\ \A n : DeclOf(n)' = DeclOf(n)
  BY DEF MethodNode, DeclOf, Before
<1>2. \A d, i : Rivals(d, i)' = Rivals(d, i)
  BY DEF Rivals, Before, SymbolName, TypedefName, NestedInClass, ContextOf, Positions
<1>3. \A d, i : Entered(d, i)' = Entered(d, i)
  BY <1>2 DEF Entered
<1>4. \A d, x : SymbolName(d, x)' = SymbolName(d, x)
  BY DEF SymbolName, TypedefName, NestedInClass, ContextOf
<1> QED
  BY ZenonT(30), <1>1, <1>2, <1>3, <1>4 DEF MethodsOf, MethodsIn

\* A class that was found is found as long as the scope around it keeps its entry.
LEMMA FoundKept ==
  ASSUME UNCHANGED program, ScopeTree
  PROVE  /\ NamesDistinct' = NamesDistinct
         /\ \A c : \A s \in 1 .. Len(scopes) :
              LET p == scopes[s].parent
                  k == << TypedefName(c) >>
              IN  /\ scopes'[s].parent = p
                  /\ k \in DOMAIN scopes[p].symtab =>
                       /\ k \in DOMAIN scopes'[p].symtab
                       /\ scopes'[p].symtab[k] = scopes[p].symtab[k]
                  /\ Found([class |-> c, symtab |-> s])
                  => Found([class |-> c, symtab |-> s])'
<1>1. \A d : TypedefName(d)' = TypedefName(d)
  BY DEF TypedefName, NestedInClass, ContextOf
<1>2. NamesDistinct' = NamesDistinct
  BY <1>1 DEF NamesDistinct, Namespaced, ContextOf
<1> QED
  BY <1>1, <1>2 DEF Found, ClassNode

-----------------------------------------------------------------------------
(* One lemma for each action. *)

LEMMA IInvCreateSwigClassInNamespace ==
  ASSUME IInv, NEW c \in Class, CreateSwigClassInNamespace(c)
  PROVE  IInv'
<1>1. /\ call = NoCall
      /\ c \notin m_ClassesIncludedOrImported
      /\ m_ClassesIncludedOrImported' = m_ClassesIncludedOrImported \cup {c}
      /\ UNCHANGED << program, scopes, current, top >>
      /\ current = GlobalScope
  BY DEF CreateSwigClassInNamespace, IInv, CurrentScope
<1>2. \/ call' = NoCall
      \/ call' = [ at |-> IF Namespaced(c) THEN "namespace" ELSE "class",
                   class |-> c, priorScope |-> GlobalScope, symtab |-> 0, methods |-> {} ]
  BY <1>1, Zenon DEF CreateSwigClassInNamespace
<1>3. /\ call.at = "idle"
      /\ call'.at \in {"idle", "namespace", "class"}
      /\ call'.at # "idle" => /\ call' # NoCall
                             /\ call'.class = c
                             /\ call'.symtab = 0
                             /\ call'.methods = {}
                             /\ call'.priorScope = GlobalScope
                             /\ call'.at = IF Namespaced(c) THEN "namespace" ELSE "class"
      /\ call'.at = "idle" => call' = NoCall
  BY <1>1, <1>2 DEF NoCall
<1>4. Len(scopes) \in Nat \ {0}
  BY DEF IInv, ScopeTree
<1>5. Grows /\ OwnersKept
  BY <1>1, <1>3, <1>4 DEF Grows, OwnersKept, ClassScope, Owns
<1>6. TopScopes'
  BY <1>1, <1>4, <1>5, TopKept DEF IInv
<1>7. CallTyped'
  <2>1. \A i \in 1 .. Len(top) : top[i].class # c
    BY <1>1 DEF IInv, TopScopes, TopScope
  <2> QED
    BY <1>1, <1>2, <1>3, <2>1 DEF CallTyped, GlobalScope
<1>8. CurrentScope'
  <2>1. ~ Namespaced(c) => (~ ClassScope(GlobalScope)' => Belongs(c, GlobalScope)')
    BY <1>1, <1>4 DEF Belongs, GlobalScope, Namespaced, ContextOf
  <2>2. ~ ClassScope(GlobalScope)'
    <3>1. \A i \in 1 .. Len(top) : top[i].symtab # GlobalScope
      BY <1>4 DEF IInv, TopScopes, TopScope, GlobalScope
    <3> QED
      BY <1>1, <1>3, <3>1 DEF ClassScope, Owns
  <2>3. Namespaced(c)' = Namespaced(c)
    BY <1>1 DEF Namespaced, ContextOf
  <2> QED
    BY <1>1, <1>3, <2>1, <2>2, <2>3 DEF CurrentScope
<1>9. NamespaceNodes'
  BY <1>1, <1>4, <1>5, NamespaceNodesKept DEF IInv
<1>10. GlobalNames'
  BY <1>1 DEF IInv, GlobalNames, Hidden, Namespaced, ContextOf, ActualName, NestedInClass
<1>11. NamespaceShared'
  <2>1. call'.at = "class" => ~ Namespaced(c)'
    BY <1>1, <1>3 DEF Namespaced, ContextOf
  <2>2. (\A i \in 1 .. Len(top) :
          LET d == top[i].class
          IN  Namespaced(d) /\ ~ Hidden(ContextOf(d).name) =>
                /\ << ContextOf(d).name >> \in DOMAIN scopes[GlobalScope].csymtab
                /\ LeadsTo(d, top[i].within))'
    BY <1>1 DEF IInv, NamespaceShared, LeadsTo, Hidden, Namespaced, ContextOf,
                ActualName, NestedInClass
  <2> QED
    BY <1>3, <2>1, <2>2 DEF NamespaceShared
<1>12. NodesPlaced'
  BY <1>1, <1>4, <1>5, PlacedKept DEF IInv, NodesPlaced
<1>13. ClassesFound'
  <2>1. \A d, s : Owns(d, s)' => Owns(d, s)
    BY <1>1, <1>3 DEF Owns
  <2> QED
    BY <1>1, <1>4, <2>1, FoundKept DEF IInv, ClassesFound
<1>14. MethodsEntered'
  <2>1. \A d : Positions(d)' = Positions(d)
    BY <1>1 DEF Positions
  <2>2. \A t \in 1 .. Len(top) :
          MethodsOf(top[t].class, top[t].symtab, Positions(top[t].class))'
    BY <1>1, <2>1, MethodsOfKept DEF IInv, MethodsEntered
  <2> QED
    BY <1>1, <1>3, <2>2 DEF MethodsEntered
<1>15. /\ (program \in Program)' /\ (m_ClassesIncludedOrImported \subseteq Class)'
       /\ (current \in 1 .. Len(scopes))'
  BY <1>1 DEF IInv
<1>16. (m_NamespacesToUse \subseteq Name)'
  <2>1. program.context[c] \in Context
    BY DEF IInv, Program
  <2>2. OuterNamed(c) => ContextOf(c).outer \in Name
    BY <2>1 DEF OuterNamed, ContextOf, Context
  <2> QED
    BY <2>2 DEF CreateSwigClassInNamespace, IInv
<1> QED
  BY <1>6, <1>7, <1>8, <1>9, <1>10, <1>11, <1>12, <1>13, <1>14, <1>15, <1>16, <1>5, <1>1
     DEF IInv, ScopeTree, IsScope

LEMMA IInvLeaveClass ==
  ASSUME IInv, LeaveClass
  PROVE  IInv'
<1>1. /\ call.at = "methods"
      /\ call.methods = {}
      /\ current' = scopes[current].parent
      /\ call' = [call EXCEPT !.at = "leave"]
      /\ UNCHANGED << program, scopes, m_ClassesIncludedOrImported, m_NamespacesToUse, top >>
  BY DEF LeaveClass
<1>2. /\ call' = [at |-> "leave", class |-> call.class, priorScope |-> GlobalScope,
                  symtab |-> call.symtab, methods |-> {}]
      /\ call.class \in m_ClassesIncludedOrImported
      /\ \A i \in 1 .. Len(top) : top[i].class # call.class
      /\ call.symtab \in Nat
  <2>1. call # NoCall
    BY <1>1 DEF NoCall
  <2>2. /\ call = [at |-> call.at, class |-> call.class, priorScope |-> GlobalScope,
                   symtab |-> call.symtab, methods |-> call.methods]
        /\ call.class \in m_ClassesIncludedOrImported
        /\ \A i \in 1 .. Len(top) : top[i].class # call.class
        /\ call.symtab \in Nat
    BY <2>1 DEF IInv, CallTyped
  <2>3. call' = [at |-> "leave", class |-> call.class, priorScope |-> GlobalScope,
                 symtab |-> call.symtab, methods |-> {}]
    <3>1. [call EXCEPT !.at = "leave"] =
            [at |-> "leave", class |-> call.class, priorScope |-> GlobalScope,
             symtab |-> call.symtab, methods |-> call.methods]
      BY <2>2
    <3> QED
      BY <1>1, <3>1
  <2> QED
    BY <2>2, <2>3
<1>3. /\ current = call.symtab
      /\ call.symtab = Len(scopes)
      /\ call.symtab > 1
      /\ Belongs(call.class, scopes[call.symtab].parent)
  BY <1>1 DEF IInv, CurrentScope
<1>4. Len(scopes) \in Nat \ {0}
  BY DEF IInv, ScopeTree
<1>5. \A c, s : Owns(c, s)' <=> Owns(c, s)
  BY <1>1, <1>2 DEF Owns
<1>6. Grows /\ OwnersKept
  BY <1>1, <1>4, <1>5 DEF Grows, OwnersKept, ClassScope
<1>7. TopScopes'
  BY <1>1, <1>4, <1>6, TopKept DEF IInv
<1>8. CallTyped'
  <2>1. /\ call'.at = "leave"
        /\ call'.class = call.class
        /\ call'.priorScope = GlobalScope
        /\ call'.symtab = call.symtab
        /\ call'.methods = {}
    BY <1>2
  <2> QED
    BY <1>1, <1>2, <2>1 DEF CallTyped
<1>9. CurrentScope'
  <2>1. Belongs(call.class, scopes[call.symtab].parent)'
    BY <1>1, <1>2, <1>3, <1>4, <1>6, BelongsKept
  <2> QED
    BY <1>1, <1>2, <1>3, <1>4, <2>1 DEF CurrentScope, NoCall
<1>10. NamespaceNodes'
  BY <1>1, <1>4, <1>6, NamespaceNodesKept DEF IInv
<1>11. GlobalNames'
  BY <1>1 DEF IInv, GlobalNames, Hidden, Namespaced, ContextOf, ActualName, NestedInClass
<1>12. NamespaceShared'
  <2>1. \A c, s : LeadsTo(c, s)' = LeadsTo(c, s)
    BY <1>1 DEF LeadsTo, ContextOf
  <2>2. \A c : Namespaced(c)' = Namespaced(c) /\ ContextOf(c)' = ContextOf(c)
    BY <1>1 DEF Namespaced, ContextOf
  <2>3. \A n : Hidden(n)' = Hidden(n)
    BY <1>1 DEF Hidden, Namespaced, ContextOf, ActualName, NestedInClass
  <2>4. call # NoCall
    BY <1>1 DEF NoCall
  <2> QED
    BY <1>1, <1>2, <1>3, <2>1, <2>2, <2>3, <2>4 DEF IInv, NamespaceShared
<1>13. NodesPlaced'
  BY <1>1, <1>4, <1>6, PlacedKept DEF IInv, NodesPlaced
<1>14. ClassesFound'
  BY <1>1, <1>4, <1>5, FoundKept DEF IInv, ClassesFound
<1>15. MethodsEntered'
  <2>1. \A d : Positions(d)' = Positions(d)
    BY <1>1 DEF Positions
  <2>2. \A t \in 1 .. Len(top) :
          MethodsOf(top[t].class, top[t].symtab, Positions(top[t].class))'
    BY <1>1, <2>1, MethodsOfKept DEF IInv, MethodsEntered
  <2>3. MethodsOf(call.class, call.symtab, Positions(call.class) \ call.methods)
    BY <1>1 DEF IInv, MethodsEntered
  <2>4. MethodsOf(call.class, call.symtab, Positions(call.class) \ call.methods)'
    BY <1>1, <1>2, <2>1, <2>3, MethodsOfKept
  <2> QED
    BY <1>1, <1>2, <2>1, <2>2, <2>4 DEF MethodsEntered
<1>16. (/\ program \in Program
        /\ m_ClassesIncludedOrImported \subseteq Class
        /\ m_NamespacesToUse \subseteq Name
        /\ current \in 1 .. Len(scopes)
        /\ ScopeTree)'
  BY <1>1, <1>3 DEF IInv, ScopeTree, IsScope, Belongs
<1> QED
  BY <1>7, <1>8, <1>9, <1>10, <1>11, <1>12, <1>13, <1>14, <1>15, <1>16 DEF IInv

LEMMA IInvEnterNamespace ==
  ASSUME IInv, EnterNamespace
  PROVE  IInv'
<1> DEFINE c    == call.class
           name == << ContextOf(c).name >>
           p    == [parent |-> GlobalScope, name |-> name, csymtab |-> << >>, symtab |-> << >>]
<1>1. /\ call.at = "namespace"
      /\ Namespaced(c)
      /\ current = GlobalScope
      /\ call' = [call EXCEPT !.at = "class"]
      /\ UNCHANGED << program, m_ClassesIncludedOrImported, m_NamespacesToUse, top >>
  BY DEF EnterNamespace, IInv, CurrentScope
<1>2. /\ call = [at |-> "namespace", class |-> call.class, priorScope |-> GlobalScope,
                 symtab |-> 0, methods |-> call.methods]
      /\ call.class \in m_ClassesIncludedOrImported
      /\ \A i \in 1 .. Len(top) : top[i].class # call.class
      /\ call.methods \subseteq Positions(call.class)
  BY <1>1 DEF IInv, CallTyped, NoCall, CurrentScope
<1>3. call' = [at |-> "class", class |-> call.class, priorScope |-> GlobalScope,
               symtab |-> 0, methods |-> call.methods]
  BY <1>1, <1>2
<1>4. Len(scopes) \in Nat \ {0} /\ ScopeTree /\ scopes = [s \in 1 .. Len(scopes) |-> scopes[s]]
  BY DEF IInv, ScopeTree
<1> DEFINE names == scopes[GlobalScope].csymtab
<1>5. \/ /\ name \in DOMAIN names
         /\ names[name].type = "namespace"
         /\ current' = names[name].symtab
         /\ UNCHANGED scopes
      \/ /\ name \notin DOMAIN names \/ names[name].type # "namespace"
         /\ scopes' = Append(scopes, p)
         /\ current' = Len(scopes')
  BY <1>1, <1>4, ClookupGlobal DEF EnterNamespace, NewScope
<1>6. \/ UNCHANGED scopes
      \/ /\ Len(scopes') = Len(scopes) + 1
         /\ scopes' = [s \in 1 .. Len(scopes') |-> scopes'[s]]
         /\ \A s \in 1 .. Len(scopes) : scopes'[s] = scopes[s]
         /\ scopes'[Len(scopes')] = p
  BY <1>4, <1>5, AppendAny
<1> HIDE DEF p
<1>7. /\ Len(scopes') \in Nat
      /\ Len(scopes) <= Len(scopes')
      /\ \A s \in 1 .. Len(scopes) : scopes'[s] = scopes[s] /\ s \in 1 .. Len(scopes')
  BY <1>4, <1>6
<1>8. \A s \in 1 .. Len(scopes') : s \in 1 .. Len(scopes) \/
        (s = Len(scopes') /\ Len(scopes') = Len(scopes) + 1 /\ scopes'[s] = p)
  BY <1>4, <1>6
<1>9. /\ p.parent = GlobalScope
      /\ p.name = name
      /\ DOMAIN p.csymtab = {}
      /\ DOMAIN p.symtab = {}
  <2>1. p.csymtab = << >> /\ p.symtab = << >>
    BY DEF p
  <2> QED
    BY <2>1 DEF p
<1>10. IsScope(p)
  BY <1>9 DEF p, IsScope, GlobalScope
<1>11. \A d, s : Owns(d, s)' <=> Owns(d, s)
  BY <1>1, <1>2, <1>3 DEF Owns
<1>12. Grows /\ OwnersKept
  BY <1>1, <1>4, <1>7, <1>11 DEF Grows, OwnersKept, ClassScope
<1>13. TopScopes'
  BY <1>1, <1>4, <1>12, TopKept DEF IInv
<1>14. CallTyped'
  BY <1>1, <1>2, <1>3 DEF CallTyped, Positions
<1>15. Belongs(c, current)' /\ current' \in 1 .. Len(scopes')
  <2>1. CASE name \in DOMAIN names /\ names[name].type = "namespace"
    <3>1. 1 \in 1 .. Len(scopes)
      BY <1>4
    <3>2. /\ Belongs(names[name].class, names[name].symtab)
          /\ Namespaced(names[name].class)
          /\ name = << ContextOf(names[name].class).name >>
      BY <2>1, <3>1 DEF IInv, NamespaceNodes, GlobalScope
    <3>3. Belongs(c, names[name].symtab)
      BY <3>2, <1>1 DEF Belongs
    <3>4. current' = names[name].symtab
      BY <2>1, <1>5
    <3>5. Belongs(c, current)'
      BY <3>3, <3>4, <1>2, <1>3, <1>4, <1>12, BelongsKept
    <3> QED
      BY <3>5 DEF Belongs
  <2>2. CASE ~ (name \in DOMAIN names /\ names[name].type = "namespace")
    <3>1. current' = Len(scopes') /\ Len(scopes') = Len(scopes) + 1 /\ scopes'[current'] = p
      BY <2>2, <1>5, <1>4, AppendAny
    <3>2. ~ ClassScope(current)'
      <4>1. ASSUME NEW d, Owns(d, Len(scopes) + 1) PROVE FALSE
        <5>1. PICK i \in 1 .. Len(top) : top[i].symtab = Len(scopes) + 1
          BY <4>1, <1>1 DEF Owns
        <5> QED
          BY <5>1, <1>4 DEF IInv, TopScopes, TopScope
      <4> QED
        BY <4>1, <3>1, <1>11 DEF ClassScope
    <3>3. Namespaced(c)' /\ ContextOf(c)' = ContextOf(c)
      BY <1>1, <1>2, <1>3 DEF Namespaced, ContextOf
    <3> QED
      BY <3>1, <3>2, <3>3, <1>4, <1>9 DEF Belongs, GlobalScope
  <2> QED
    BY <2>1, <2>2
<1>16. CurrentScope'
  BY <1>3, <1>15 DEF CurrentScope, NoCall
<1>17. NamespaceNodes'
  <2> SUFFICES ASSUME NEW s \in 1 .. Len(scopes'), NEW k \in DOMAIN scopes'[s].csymtab,
                      scopes'[s].csymtab[k].type = "namespace"
               PROVE  (LET n == scopes[s].csymtab[k]
                       IN  /\ s = GlobalScope
                           /\ Namespaced(n.class)
                           /\ k = << ContextOf(n.class).name >>
                           /\ Belongs(n.class, n.symtab))'
    BY DEF NamespaceNodes
  <2>1. s \in 1 .. Len(scopes) /\ scopes'[s] = scopes[s]
    BY <1>7, <1>8, <1>9
  <2>2. \A d : Namespaced(d)' = Namespaced(d) /\ ContextOf(d)' = ContextOf(d)
    BY <1>1 DEF Namespaced, ContextOf
  <2> QED
    BY <2>1, <2>2, <1>4, <1>12, BelongsKept DEF IInv, NamespaceNodes
<1>18. scopes'[GlobalScope] = scopes[GlobalScope]
  BY <1>4, <1>7 DEF GlobalScope
<1>19. GlobalNames'
  BY <1>1, <1>18 DEF IInv, GlobalNames, Hidden, Namespaced, ContextOf, ActualName,
                     NestedInClass
<1>20. NamespaceShared'
  <2>1. \A d, s : LeadsTo(d, s)' = LeadsTo(d, s)
    BY <1>1, <1>18 DEF LeadsTo, ContextOf
  <2>2. \A d : Namespaced(d)' = Namespaced(d) /\ ContextOf(d)' = ContextOf(d)
    BY <1>1 DEF Namespaced, ContextOf
  <2>3. \A n : Hidden(n)' = Hidden(n)
    BY <1>1 DEF Hidden, Namespaced, ContextOf, ActualName, NestedInClass
  <2>4. ~ Hidden(ContextOf(c).name) => LeadsTo(c, current')
    <3>1. ASSUME name \in DOMAIN names, names[name].type # "namespace"
          PROVE  Hidden(ContextOf(c).name)
      <4>1. PICK n \in Name : name = << n >> /\ Hidden(n)
        BY <3>1 DEF IInv, GlobalNames
      <4>2. << ContextOf(c).name >>[1] = << n >>[1]
        BY <4>1
      <4> QED
        BY <4>1, <4>2
    <3> QED
      BY <3>1, <1>5 DEF LeadsTo
  <2>5. call'.at = "class" /\ call'.class = c
    BY <1>3
  <2>6. scopes'[GlobalScope].csymtab = scopes[GlobalScope].csymtab
    BY <1>18
  <2> QED
    BY <1>1, <2>1, <2>2, <2>3, <2>4, <2>5, <2>6 DEF IInv, NamespaceShared
<1>21. NodesPlaced'
  <2> SUFFICES ASSUME NEW s \in 1 .. Len(scopes'), NEW k \in DOMAIN scopes'[s].symtab,
                      NEW i \in 1 .. Len(scopes'[s].symtab[k])
               PROVE  Placed(scopes[s].symtab[k][i], s, k)'
    BY DEF NodesPlaced
  <2>1. s \in 1 .. Len(scopes) /\ scopes'[s] = scopes[s]
    BY <1>7, <1>8, <1>9
  <2> QED
    BY <2>1, <1>4, <1>12, PlacedKept DEF IInv, NodesPlaced
<1>22. ClassesFound'
  <2> SUFFICES ASSUME NamesDistinct', NEW d \in Class, NEW s \in 1 .. Len(scopes'),
                      Owns(d, s)'
               PROVE  Found([class |-> d, symtab |-> s])'
    BY DEF ClassesFound
  <2>1. Owns(d, s)
    BY <1>11
  <2>2. s \in 2 .. Len(scopes)
    BY <2>1, <1>1 DEF Owns, IInv, TopScopes, TopScope
  <2>3. s \in 1 .. Len(scopes) /\ scopes[s].parent \in 1 .. Len(scopes)
    BY <2>2, <1>4 DEF ScopeTree
  <2>4. NamesDistinct
    BY <1>1, <1>4, FoundKept
  <2>5. Found([class |-> d, symtab |-> s])
    BY <2>1, <2>3, <2>4 DEF IInv, ClassesFound
  <2> QED
    BY <2>3, <2>5, <1>1, <1>4, <1>7, FoundKept
<1>23. MethodsEntered'
  <2>1. \A d : Positions(d)' = Positions(d)
    BY <1>1 DEF Positions
  <2>2. \A t \in 1 .. Len(top) : scopes'[top[t].symtab] = scopes[top[t].symtab]
    <3>1. \A t \in 1 .. Len(top) : top[t].symtab \in 1 .. Len(scopes)
      BY <1>4 DEF IInv, TopScopes, TopScope
    <3> QED
      BY <3>1, <1>7
  <2>3. \A t \in 1 .. Len(top) :
          MethodsOf(top[t].class, top[t].symtab, Positions(top[t].class))'
    BY <1>1, <2>1, <2>2, MethodsOfKept DEF IInv, MethodsEntered
  <2> QED
    BY <1>1, <1>3, <2>3 DEF MethodsEntered
<1>24. ScopeTree'
  <2>1. CASE UNCHANGED scopes
    BY <1>4, <2>1 DEF ScopeTree, IsScope
  <2>2. CASE ~ UNCHANGED scopes
    <3>1. /\ \A s \in 1 .. Len(scopes) : IsScope(scopes[s])
          /\ scopes[GlobalScope].parent = 0
          /\ \A s \in 2 .. Len(scopes) : scopes[s].parent \in 1 .. s - 1
      BY <1>4 DEF ScopeTree
    <3>2. \A s \in 1 .. Len(scopes') : IsScope(scopes'[s])
      BY <3>1, <1>7, <1>8, <1>10
    <3>3. (\A s \in 1 .. Len(scopes) : IsScope(scopes[s]))'
      BY <3>2 DEF IsScope
    <3>4. \A s \in 2 .. Len(scopes') : scopes'[s].parent \in 1 .. s - 1
      BY <3>1, <1>4, <1>7, <1>8, <1>9 DEF GlobalScope
    <3>5. scopes'[GlobalScope].parent = 0
      BY <3>1, <1>18
    <3>6. Len(scopes') \in Nat \ {0} /\ scopes' = [s \in 1 .. Len(scopes') |-> scopes'[s]]
      BY <2>2, <1>4, <1>6
    <3> QED
      BY <3>3, <3>4, <3>5, <3>6 DEF ScopeTree, GlobalScope
  <2> QED
    BY <2>1, <2>2
<1>25. (/\ program \in Program
        /\ m_ClassesIncludedOrImported \subseteq Class
        /\ m_NamespacesToUse \subseteq Name)'
  BY <1>1 DEF IInv
<1> QED
  BY <1>13, <1>14, <1>15, <1>16, <1>17, <1>19, <1>20, <1>21, <1>22, <1>23, <1>24, <1>25
     DEF IInv

\* A class entered in a scope is the only one of its typedef name there.
LEMMA SymbolFree ==
  ASSUME IInv, NamesDistinct, call.at = "class"
  PROVE  << TypedefName(call.class) >> \notin DOMAIN scopes[current].symtab
<1> DEFINE c == call.class
           k == << TypedefName(c) >>
           e == scopes[current].symtab[k]
           n == e[1]
<1> SUFFICES ASSUME k \in DOMAIN scopes[current].symtab
             PROVE  FALSE
  OBVIOUS
<1>1. /\ Belongs(c, current)
      /\ current \in 1 .. Len(scopes)
      /\ call # NoCall
  BY DEF IInv, CurrentScope, Belongs, NoCall
<1>2. c \in Class /\ \A i \in 1 .. Len(top) : top[i].class # c
  BY <1>1 DEF IInv, CallTyped
<1>3. n \in Node /\ 1 \in 1 .. Len(e)
  <2>1. e \in Seq(Node) /\ e # << >>
    BY <1>1 DEF IInv, ScopeTree, IsScope
  <2>2. Len(e) \in Nat \ {0}
    BY <2>1, EmptySeq
  <2> QED
    BY <2>1, <2>2, ElementOfSeq
<1>4. Placed(n, current, k)
  BY <1>1, <1>3 DEF IInv, NodesPlaced
<1>5. n.class \in Class
  BY <1>3 DEF Node
<1>6. CASE n.type = "class"
  <2>1. k = << TypedefName(n.class) >> /\ Belongs(n.class, current) /\ Owns(n.class, n.symtab)
    BY <1>4, <1>6 DEF Placed
  <2>2. n.class # c
    BY <2>1, <1>2 DEF Owns
  <2>3. TypedefName(n.class) = TypedefName(c)
    BY <2>1
  <2>4. /\ Namespaced(n.class)
        /\ Namespaced(c)
        /\ ContextOf(n.class).name # ContextOf(c).name
    BY <2>2, <2>3, <1>2, <1>5 DEF NamesDistinct
  <2>5. << ContextOf(n.class).name >> = << ContextOf(c).name >>
    BY <2>1, <2>4, <1>1 DEF Belongs
  <2> QED
    BY <2>4, <2>5
<1>7. CASE n.type = "namespace"
  <2>1. Namespaced(n.class) /\ k = << ContextOf(n.class).name >>
    BY <1>4, <1>7 DEF Placed
  <2>2. TypedefName(c) = ContextOf(n.class).name
    BY <2>1
  <2> QED
    BY <2>1, <2>2, <1>2, <1>5 DEF NamesDistinct
<1>8. CASE n.type \notin {"class", "namespace"}
  BY <1>1, <1>4, <1>5, <1>8 DEF Placed, Belongs, ClassScope
<1> QED
  BY <1>6, <1>7, <1>8

LEMMA IInvCreateSwigClass ==
  ASSUME IInv, CreateSwigClass
  PROVE  IInv'
<1> DEFINE c    == call.class
           sym  == Len(scopes) + 1
           name == << ActualName(c) >>
           k0   == << TypedefName(c) >>
           q    == [parent |-> current, name |-> k0, csymtab |-> << >>, symtab |-> << >>]
           n    == ClassNode(c, sym)
<1>1. /\ call.at = "class"
      /\ current' = sym
      /\ call' = [at |-> "methods", class |-> c, priorScope |-> call.priorScope,
                  symtab |-> sym, methods |-> Positions(c)]
      /\ scopes' = [Append(scopes, q) EXCEPT ![current] =
                      SymbolAdd(Append(scopes, q)[current], name, k0, n)]
      /\ UNCHANGED << program, m_ClassesIncludedOrImported, m_NamespacesToUse, top >>
  BY DEF CreateSwigClass, NewScope
<1>2. call # NoCall
  BY <1>1 DEF NoCall
<1>3. /\ call = [at |-> "class", class |-> call.class, priorScope |-> GlobalScope,
                 symtab |-> call.symtab, methods |-> call.methods]
      /\ call.class \in m_ClassesIncludedOrImported
      /\ \A i \in 1 .. Len(top) : top[i].class # call.class
  BY <1>1, <1>2 DEF IInv, CallTyped
<1>4. call' = [at |-> "methods", class |-> c, priorScope |-> GlobalScope,
               symtab |-> sym, methods |-> Positions(c)]
  <2>1. call.priorScope = GlobalScope
    BY <1>3
  <2> QED
    BY <1>1, <2>1
<1>5. /\ Len(scopes) \in Nat \ {0}
      /\ ScopeTree
      /\ scopes = [s \in 1 .. Len(scopes) |-> scopes[s]]
      /\ scopes[GlobalScope].parent = 0
  BY DEF IInv, ScopeTree
<1>6. Belongs(c, current) /\ current \in 1 .. Len(scopes) /\ ~ ClassScope(current)
  BY <1>1 DEF IInv, CurrentScope, Belongs
<1>7. c \in Class /\ n \in Node
  BY <1>3, <1>5 DEF IInv, ClassNode, Node
<1>8. /\ Len(Append(scopes, q)) = sym
      /\ Append(scopes, q) = [s \in 1 .. sym |-> Append(scopes, q)[s]]
      /\ \A s \in 1 .. Len(scopes) : Append(scopes, q)[s] = scopes[s]
      /\ Append(scopes, q)[sym] = q
  BY <1>5, AppendAny
<1> HIDE DEF q, n, name, k0
<1>9. /\ Len(scopes') = sym
      /\ scopes' = [s \in 1 .. sym |-> scopes'[s]]
      /\ scopes'[current] = SymbolAdd(scopes[current], name, k0, n)
      /\ \A s \in 1 .. Len(scopes) : s # current => scopes'[s] = scopes[s]
      /\ scopes'[sym] = q
  <2> DEFINE a == Append(scopes, q)
             v == SymbolAdd(a[current], name, k0, n)
  <2>1. sym \in Nat /\ current \in 1 .. sym /\ current # sym /\ sym \in 1 .. sym
    BY <1>5, <1>6
  <2>2. scopes' = [s \in 1 .. sym |-> IF s = current THEN v ELSE a[s]]
    BY <1>1, <1>8, <2>1
  <2>3. scopes' = [s \in 1 .. sym |-> scopes'[s]]
    BY <2>2
  <2>4. Len(scopes') = sym
    BY <2>1, <2>3, LenOf
  <2> QED
    BY <1>6, <1>8, <2>1, <2>2, <2>3, <2>4
<1>10. Adds(current, name, k0, n)
  BY <1>5, <1>6, <1>7, <1>9 DEF Adds, q
<1>11. /\ ScopeTree'
       /\ \A s \in 1 .. Len(scopes) : /\ scopes'[s].parent = scopes[s].parent
                                     /\ scopes'[s].name = scopes[s].name
       /\ Len(scopes') \in Nat /\ Len(scopes) <= Len(scopes')
  BY <1>5, <1>10, AddsTree
<1>12. \A d, s : Owns(d, s)' <=> Owns(d, s) \/ (d = c /\ s = sym)
  BY <1>1, <1>4 DEF Owns
<1>13. Grows /\ OwnersKept
  BY <1>1, <1>5, <1>11, <1>12 DEF Grows, OwnersKept, ClassScope
<1>14. TopScopes'
  BY <1>1, <1>5, <1>13, TopKept DEF IInv
<1>15. CallTyped'
  <2>1. /\ call'.at = "methods"
        /\ call'.class = c
        /\ call'.priorScope = GlobalScope
        /\ call'.symtab = sym
        /\ call'.methods = Positions(c)
    BY <1>4
  <2>2. Positions(c)' = Positions(c)
    BY <1>1, <1>4 DEF Positions
  <2>3. Positions(call.class)' = Positions(c)
    BY <1>1, <2>1 DEF Positions
  <2>4. sym \in Nat
    BY <1>5
  <2> QED
    BY <1>1, <1>3, <1>4, <2>1, <2>3, <2>4 DEF CallTyped
<1>16. Belongs(c, current) => Belongs(call.class, scopes[call.symtab].parent)'
  <2>1. scopes'[call'.symtab].parent = current /\ call'.class = c
    BY <1>4, <1>9 DEF q
  <2> QED
    BY <2>1, <1>5, <1>13, BelongsKept
<1>17. CurrentScope'
  <2>1. \A i \in 1 .. Len(top) : top[i].symtab # sym
    BY <1>5 DEF IInv, TopScopes, TopScope
  <2> QED
    BY <1>1, <1>4, <1>5, <1>6, <1>9, <1>16, <2>1 DEF CurrentScope, NoCall
<1>18. n.type = "class" /\ n.class = c /\ n.symtab = sym
  BY DEF n, ClassNode
<1>19. \A d : Namespaced(d)' = Namespaced(d) /\ ContextOf(d)' = ContextOf(d)
  BY <1>1 DEF Namespaced, ContextOf
<1>20. \A m : Hidden(m)' = Hidden(m)
  BY <1>1 DEF Hidden, Namespaced, ContextOf, ActualName, NestedInClass
<1>21. /\ \A s \in 1 .. Len(scopes') : \A k \in DOMAIN scopes'[s].csymtab :
            \/ /\ s \in 1 .. Len(scopes)
               /\ k \in DOMAIN scopes[s].csymtab
               /\ scopes'[s].csymtab[k] = scopes[s].csymtab[k]
            \/ /\ s = current
               /\ k = name
               /\ k \notin DOMAIN scopes[s].csymtab
               /\ scopes'[s].csymtab[k] = n
       /\ \A s \in 1 .. Len(scopes) : \A k \in DOMAIN scopes[s].csymtab :
            /\ k \in DOMAIN scopes'[s].csymtab
            /\ scopes'[s].csymtab[k] = scopes[s].csymtab[k]
  BY <1>5, <1>10, AddsNames
<1>22. NamespaceNodes'
  BY <1>5, <1>13, <1>18, <1>19, <1>21, BelongsKept DEF IInv, NamespaceNodes
<1>23. Namespaced(c) <=> current # GlobalScope
  BY <1>5, <1>6 DEF Belongs, GlobalScope
<1>24. GlobalNames'
  <2>1. ~ Namespaced(c) => name = << ActualName(c) >> /\ ActualName(c) \in Name /\ Hidden(ActualName(c))
    BY <1>7 DEF name, Hidden, IInv, Program, ActualName
  <2>2. GlobalScope \in 1 .. Len(scopes) /\ GlobalScope \in 1 .. Len(scopes')
    BY <1>5, <1>11 DEF GlobalScope
  <2> SUFFICES ASSUME NEW k \in DOMAIN scopes'[GlobalScope].csymtab,
                      scopes'[GlobalScope].csymtab[k].type # "namespace"
               PROVE  \E m \in Name : k = << m >> /\ Hidden(m)
    BY <1>20 DEF GlobalNames, GlobalScope
  <2>3. CASE k \in DOMAIN scopes[GlobalScope].csymtab
    BY <2>2, <2>3, <1>21 DEF IInv, GlobalNames
  <2>4. CASE k = name /\ GlobalScope = current
    BY <2>1, <2>4, <1>23
  <2> QED
    BY <2>2, <2>3, <2>4, <1>21
<1>25. NamespaceShared'
  <2>1. GlobalScope \in 1 .. Len(scopes)
    BY <1>5 DEF GlobalScope
  <2>2. \A i \in 1 .. Len(top) :
          LET d == top[i].class
          IN  Namespaced(d) /\ ~ Hidden(ContextOf(d).name) =>
                /\ << ContextOf(d).name >> \in DOMAIN scopes[GlobalScope].csymtab
                /\ LeadsTo(d, top[i].within)
    BY DEF IInv, NamespaceShared
  <2>3. \A d, s : << ContextOf(d).name >> \in DOMAIN scopes[GlobalScope].csymtab /\ LeadsTo(d, s)
                    => /\ << ContextOf(d).name >> \in DOMAIN scopes'[GlobalScope].csymtab
                       /\ LeadsTo(d, s)'
    BY <2>1, <1>19, <1>21 DEF LeadsTo, GlobalScope
  <2>4. (\A i \in 1 .. Len(top) :
           LET d == top[i].class
           IN  Namespaced(d) /\ ~ Hidden(ContextOf(d).name) =>
                 /\ << ContextOf(d).name >> \in DOMAIN scopes[GlobalScope].csymtab
                 /\ LeadsTo(d, top[i].within))'
    BY <2>2, <2>3, <1>1, <1>19, <1>20 DEF GlobalScope
  <2>5. Namespaced(c) /\ ~ Hidden(ContextOf(c).name) => LeadsTo(call.class, scopes[call.symtab].parent)'
    <3> SUFFICES ASSUME Namespaced(c), ~ Hidden(ContextOf(c).name)
                 PROVE  LeadsTo(call.class, scopes[call.symtab].parent)'
      OBVIOUS
    <3>1. scopes'[GlobalScope] = scopes[GlobalScope]
      BY <2>1, <1>9, <1>23
    <3>2. LeadsTo(c, current)
      BY <1>1, <1>2 DEF IInv, NamespaceShared
    <3>3. scopes'[call'.symtab].parent = current /\ call'.class = c
      BY <1>4, <1>9 DEF q
    <3> QED
      BY <3>1, <3>2, <3>3, <1>19 DEF LeadsTo, GlobalScope
  <2>6. call'.at = "methods" /\ call'.class = c
    BY <1>4
  <2> QED
    BY <2>4, <2>5, <2>6, <1>19, <1>20 DEF NamespaceShared
<1>26. /\ \A s \in 1 .. Len(scopes') : \A k \in DOMAIN scopes'[s].symtab :
            \A i \in 1 .. Len(scopes'[s].symtab[k]) :
              \/ /\ s \in 1 .. Len(scopes)
                 /\ k \in DOMAIN scopes[s].symtab
                 /\ i \in 1 .. Len(scopes[s].symtab[k])
                 /\ scopes'[s].symtab[k][i] = scopes[s].symtab[k][i]
              \/ s = current /\ k = k0 /\ scopes'[s].symtab[k][i] = n
       /\ \A s \in 1 .. Len(scopes) : \A k \in DOMAIN scopes[s].symtab :
            /\ k \in DOMAIN scopes'[s].symtab
            /\ \/ scopes'[s].symtab[k] = scopes[s].symtab[k]
               \/ /\ s = current /\ k = k0
                  /\ NoConflict(scopes[s], k0, n)
                  /\ scopes'[s].symtab[k] = Append(scopes[s].symtab[k], n)
       /\ k0 \notin DOMAIN scopes[current].symtab =>
            k0 \in DOMAIN scopes'[current].symtab /\ scopes'[current].symtab[k0] = << n >>
  BY <1>5, <1>10, AddsSymbols
<1>27. NodesPlaced'
  <2> SUFFICES ASSUME NEW s \in 1 .. Len(scopes'), NEW k \in DOMAIN scopes'[s].symtab,
                      NEW i \in 1 .. Len(scopes'[s].symtab[k])
               PROVE  Placed(scopes[s].symtab[k][i], s, k)'
    BY DEF NodesPlaced
  <2>1. CASE /\ s \in 1 .. Len(scopes)
             /\ k \in DOMAIN scopes[s].symtab
             /\ i \in 1 .. Len(scopes[s].symtab[k])
             /\ scopes'[s].symtab[k][i] = scopes[s].symtab[k][i]
    BY <2>1, <1>5, <1>13, PlacedKept DEF IInv, NodesPlaced
  <2>2. CASE s = current /\ k = k0 /\ scopes'[s].symtab[k][i] = n
    <3>1. k = << TypedefName(c) >> /\ TypedefName(c)' = TypedefName(c)
      BY SMTT(30), <2>2, <1>1, <1>4 DEF k0, TypedefName, NestedInClass, ContextOf
    <3>3. \A d : TypedefName(d)' = TypedefName(d)
      BY <1>1 DEF TypedefName, NestedInClass, ContextOf
    <3>4. \A d, x : d = c /\ x = current => Belongs(d, x)'
      BY <1>5, <1>6, <1>13, BelongsKept
    <3>5. \A d, x : d = c /\ x = sym => Owns(d, x)'
      BY <1>12
    <3> QED
      BY <2>2, <3>1, <3>3, <3>4, <3>5, <1>18, Zenon DEF Placed
  <2> QED
    BY <2>1, <2>2, <1>26
<1>28. ClassesFound'
  <2> SUFFICES ASSUME NamesDistinct', NEW d \in Class, NEW s \in 1 .. Len(scopes'),
                      Owns(d, s)'
               PROVE  Found([class |-> d, symtab |-> s])'
    BY DEF ClassesFound
  <2>1. NamesDistinct
    BY <1>1, <1>5, FoundKept
  <2>2. \A x : \A k \in DOMAIN scopes[x].symtab : x \in 1 .. Len(scopes) =>
          k \in DOMAIN scopes'[x].symtab /\ scopes'[x].symtab[k] = scopes[x].symtab[k]
    BY <1>18, <1>26 DEF NoConflict
  <2>3. CASE Owns(d, s)
    <3>1. s \in 2 .. Len(scopes)
      BY <2>3, <1>1 DEF Owns, IInv, TopScopes, TopScope
    <3>2. s \in 1 .. Len(scopes) /\ scopes[s].parent \in 1 .. Len(scopes)
      BY <3>1, <1>5 DEF ScopeTree
    <3>3. Found([class |-> d, symtab |-> s])
      BY <2>1, <2>3, <3>2 DEF IInv, ClassesFound
    <3> QED
      <4>1. scopes'[s].parent = scopes[s].parent
        BY <3>2, <1>11
      <4>2. << TypedefName(d) >> \in DOMAIN scopes[scopes[s].parent].symtab =>
              /\ << TypedefName(d) >> \in DOMAIN scopes'[scopes[s].parent].symtab
              /\ scopes'[scopes[s].parent].symtab[<< TypedefName(d) >>] =
                   scopes[scopes[s].parent].symtab[<< TypedefName(d) >>]
        BY <3>2, <2>2
      <4> QED
        BY <3>2, <3>3, <4>1, <4>2, <1>1, <1>5, FoundKept
  <2>4. CASE d = c /\ s = sym
    <3>1. k0 \in DOMAIN scopes'[current].symtab /\ scopes'[current].symtab[k0] = << n >>
      BY <1>1, <1>26, <2>1, SymbolFree DEF k0
    <3>2. scopes'[s].parent = current
      BY <2>4, <1>9 DEF q
    <3>3. k0 = << TypedefName(d)' >> /\ n = ClassNode(d, s)
      BY <2>4, <1>1 DEF k0, n, TypedefName, NestedInClass, ContextOf
    <3> QED
      BY <3>1, <3>2, <3>3 DEF Found, ClassNode
  <2> QED
    BY <2>3, <2>4, <1>12
<1>29. MethodsEntered'
  <2>1. \A d : Positions(d)' = Positions(d)
    BY <1>1 DEF Positions
  <2>2. \A t \in 1 .. Len(top) : scopes'[top[t].symtab].symtab = scopes[top[t].symtab].symtab
    <3> SUFFICES ASSUME NEW t \in 1 .. Len(top)
                 PROVE  scopes'[top[t].symtab] = scopes[top[t].symtab]
      OBVIOUS
    <3>1. top[t].symtab \in 1 .. Len(scopes) /\ top[t].class \in Class
      BY <1>5 DEF IInv, TopScopes, TopScope
    <3>2. ClassScope(top[t].symtab)
      BY <3>1 DEF ClassScope, Owns
    <3> QED
      BY <3>1, <3>2, <1>6, <1>9
  <2>3. \A t \in 1 .. Len(top) :
          MethodsOf(top[t].class, top[t].symtab, Positions(top[t].class))'
    BY <1>1, <2>1, <2>2, MethodsOfKept DEF IInv, MethodsEntered
  <2>4. \A d, x, P : x = sym /\ P = {} => MethodsOf(d, x, P)'
    <3>1. DOMAIN scopes'[sym].symtab = {}
      <4>1. scopes'[sym].symtab = << >>
        BY <1>9 DEF q
      <4> QED
        BY <4>1
    <3> QED
      BY <3>1, <1>1 DEF MethodsOf, MethodsIn
  <2>5. (MethodsOf(call.class, call.symtab, Positions(call.class) \ call.methods))'
    <3>1. (Positions(call.class) \ call.methods)' = {} /\ call'.symtab = sym
      BY <1>4, <2>1
    <3> QED
      BY <3>1, <2>4
  <2>6. (\A i \in Positions(call.class) \ call.methods : \A j \in call.methods :
          Before(call.class, i, j))'
    <3>1. (Positions(call.class) \ call.methods)' = {}
      BY <1>4, <2>1
    <3> QED
      BY <3>1
  <2> QED
    BY <1>1, <2>3, <2>5, <2>6 DEF MethodsEntered
<1>30. (/\ program \in Program
        /\ m_ClassesIncludedOrImported \subseteq Class
        /\ m_NamespacesToUse \subseteq Name
        /\ current \in 1 .. Len(scopes))'
  BY <1>1, <1>5, <1>9 DEF IInv
<1> QED
  BY <1>11, <1>14, <1>15, <1>17, <1>22, <1>24, <1>25, <1>27, <1>28, <1>29, <1>30 DEF IInv

-----------------------------------------------------------------------------
(* The methods of one class. *)

\* The order of the methods is total and strict, and the rivals of the next method
\* are among those that were handled.
LEMMA BeforeOrder ==
  ASSUME program \in Program, NEW c \in Class
  PROVE  \A i, j, k \in Positions(c) :
           /\ ~ Before(c, i, i)
           /\ Before(c, i, j) => ~ Before(c, j, i)
           /\ i # j => Before(c, i, j) \/ Before(c, j, i)
<1>1. \A i \in Positions(c) : program.methods[c][i] \in Method
  <2>1. program.methods[c] \in Seq(Method)
    BY DEF Program
  <2> QED
    BY <2>1, ElementOfSeq DEF Positions
<1>2. \A i \in Positions(c) : Pass[program.methods[c][i].access] \in Nat
  BY <1>1 DEF Method, Pass
<1>3. \A i \in Positions(c) : i \in Int
  BY DEF Positions
<1> QED
  BY <1>2, <1>3 DEF Before

\* CreateSwigMethod of the next method of a class.
LEMMA MethodAdded ==
  ASSUME program \in Program, NEW c \in Class, NEW i \in Positions(c),
         NEW P \in SUBSET Positions(c), i \notin P,
         \A j \in P : Before(c, j, i),
         \A j \in Positions(c) \ P : j # i => Before(c, i, j),
         NEW x, IsScope(x), MethodsIn(c, x.symtab, P),
         NEW y, NEW name, ~ Skipped(program.methods[c][i]),
         y = SymbolAdd(x, name, SymbolName(c, program.methods[c][i]), MethodNode(c, i))
  PROVE  MethodsIn(c, y.symtab, P \cup {i})
<1> DEFINE m(j) == program.methods[c][j]
           symbol(j) == SymbolName(c, m(j))
           old == x.symtab
           new == y.symtab
           n == MethodNode(c, i)
           k == symbol(i)
<1>1. \A j \in Positions(c) : m(j) \in Method /\ j \in Nat
  <2>1. program.methods[c] \in Seq(Method)
    BY DEF Program
  <2> QED
    BY <2>1, ElementOfSeq DEF Positions
<1>2. /\ n \in Node
      /\ n.type = m(i).fid
      /\ n.type \notin {"class", "namespace"}
      /\ DeclOf(n) = m(i).decl
  BY <1>1 DEF MethodNode, Node, Method, DeclOf
<1>3. \A j \in Positions(c) : /\ MethodNode(c, j).type = m(j).fid
                              /\ DeclOf(MethodNode(c, j)) = m(j).decl
                              /\ MethodNode(c, j).item = j
  BY DEF MethodNode, DeclOf
<1>4. /\ \A h \in DOMAIN old :
           /\ \E f \in P : Rivals(c, f) = {} /\ old[h][1] = MethodNode(c, f)
           /\ \A l \in 1 .. Len(old[h]) : \E j \in P :
                old[h][l] = MethodNode(c, j) /\ symbol(j) = h /\ Entered(c, j)
           /\ old[h] \in Seq(Node)
           /\ Len(old[h]) \in Nat \ {0}
  <2>1. \A h \in DOMAIN old : old[h] \in Seq(Node) /\ old[h] # << >>
    BY DEF IsScope
  <2>2. \A h \in DOMAIN old : Len(old[h]) \in Nat \ {0}
    BY <2>1, EmptySeq
  <2> QED
    BY <2>1, <2>2 DEF MethodsIn
<1>5. \A j \in P : ~ Skipped(m(j)) =>
        /\ symbol(j) \in DOMAIN old
        /\ m(j).fid = old[symbol(j)][1].type =>
             \E l \in 1 .. Len(old[symbol(j)]) : DeclOf(old[symbol(j)][l]) = m(j).decl
  BY DEF MethodsIn
<1>6. \A j \in P : Entered(c, j) =>
        \E l \in 1 .. Len(old[symbol(j)]) : old[symbol(j)][l] = MethodNode(c, j)
  BY DEF MethodsIn
<1>7. /\ DOMAIN new = DOMAIN old \cup {k}
      /\ \A h \in DOMAIN old \ {k} : new[h] = old[h]
      /\ k \notin DOMAIN old => new[k] = << n >>
      /\ k \in DOMAIN old =>
           new[k] = IF NoConflict(x, k, n) THEN Append(old[k], n) ELSE old[k]
  BY <1>2, SymbolAddFacts
<1>8. Rivals(c, i) = {j \in P : ~ Skipped(m(j)) /\ symbol(j) = k}
  BY BeforeOrder DEF Rivals
<1>9. CASE k \notin DOMAIN old
  <2>1. Rivals(c, i) = {}
    BY <1>5, <1>8, <1>9
  <2>2. Entered(c, i)
    BY <2>1 DEF Entered
  <2>3. Len(new[k]) = 1 /\ new[k][1] = n
    BY <1>7, <1>9
  <2>4. \A l \in 1 .. Len(new[k]) : l = 1
    BY <2>3
  <2>5. 1 \in 1 .. Len(new[k])
    BY <2>3
  <2>6. \A j \in P : Entered(c, j) => symbol(j) \in DOMAIN old
    BY <1>5 DEF Entered
  <2> HIDE DEF old, new, n, k, m, symbol
  <2>7. \A h \in DOMAIN new :
          /\ \E f \in P \cup {i} : Rivals(c, f) = {} /\ new[h][1] = MethodNode(c, f)
          /\ \A l \in 1 .. Len(new[h]) : \E j \in P \cup {i} :
               new[h][l] = MethodNode(c, j) /\ symbol(j) = h /\ Entered(c, j)
    <3> SUFFICES ASSUME NEW h \in DOMAIN new
        PROVE /\ \E f \in P \cup {i} : Rivals(c, f) = {} /\ new[h][1] = MethodNode(c, f)
              /\ \A l \in 1 .. Len(new[h]) : \E j \in P \cup {i} :
                   new[h][l] = MethodNode(c, j) /\ symbol(j) = h /\ Entered(c, j)
      OBVIOUS
    <3>1. CASE h = k
      BY <3>1, <2>1, <2>2, <2>3, <2>4 DEF n, k
    <3>2. CASE h \in DOMAIN old \ {k}
      <4>1. new[h] = old[h]
        BY <3>2, <1>7
      <4>2. \E f \in P : Rivals(c, f) = {} /\ old[h][1] = MethodNode(c, f)
        BY <3>2, <1>4
      <4>3. \A l \in 1 .. Len(old[h]) : \E j \in P :
              old[h][l] = MethodNode(c, j) /\ symbol(j) = h /\ Entered(c, j)
        BY <3>2, <1>4
      <4> QED
        BY <4>1, <4>2, <4>3
    <3> QED
      BY <3>1, <3>2, <1>7
  <2>8. \A j \in P \cup {i} : ~ Skipped(m(j)) =>
          /\ symbol(j) \in DOMAIN new
          /\ m(j).fid = new[symbol(j)][1].type =>
               \E l \in 1 .. Len(new[symbol(j)]) : DeclOf(new[symbol(j)][l]) = m(j).decl
    BY <1>2, <1>5, <1>7, <1>9, <2>3, <2>5 DEF k
  <2>9. \A j \in P \cup {i} : Entered(c, j) =>
          \E l \in 1 .. Len(new[symbol(j)]) : new[symbol(j)][l] = MethodNode(c, j)
    BY <1>6, <1>7, <1>9, <2>3, <2>5, <2>6 DEF k, n
  <2> QED
    BY <2>7, <2>8, <2>9 DEF MethodsIn, new, m, symbol
<1>10. CASE k \in DOMAIN old
  <2>1. PICK f \in P : Rivals(c, f) = {} /\ old[k][1] = MethodNode(c, f)
    BY <1>4, <1>10
  <2>2. symbol(f) = k /\ ~ Skipped(m(f)) /\ f \in Rivals(c, i)
    <3>1. PICK j \in P : old[k][1] = MethodNode(c, j) /\ symbol(j) = k /\ Entered(c, j)
      <4>1. 1 \in 1 .. Len(old[k])
        BY <1>4, <1>10
      <4> QED
        BY <4>1, <1>4, <1>10
    <3>2. j = f
      <4>1. MethodNode(c, j).item = j /\ MethodNode(c, f).item = f
        BY <1>3
      <4>2. MethodNode(c, j) = MethodNode(c, f)
        BY <2>1, <3>1
      <4> QED
        BY <4>1, <4>2
    <3>3. symbol(f) = k /\ ~ Skipped(m(f))
      BY <3>1, <3>2 DEF Entered
    <3> QED
      BY <3>3, <1>8
  <2>3. \A j \in P : ~ Skipped(m(j)) /\ symbol(j) = k => j = f \/ f \in Rivals(c, j)
    BY <2>1, <2>2, BeforeOrder DEF Rivals
  <2>4. \A j \in P : Entered(c, j) /\ symbol(j) = k => m(j).fid = m(f).fid
    BY <2>1, <2>3 DEF Entered
  <2>5. \A j \in Rivals(c, i) : Rivals(c, j) = {} => j = f
    BY <2>3, <1>8
  <2>6. old[k][1].type = m(f).fid
    BY <2>1, <1>3
  <2>7. NoConflict(x, k, n) <=>
          /\ m(i).fid = m(f).fid
          /\ \A l \in 1 .. Len(old[k]) : DeclOf(old[k][l]) # m(i).decl
    BY <1>2, <1>10, <2>6 DEF NoConflict
  <2>8. NoConflict(x, k, n) <=> Entered(c, i)
    <3>1. ASSUME NoConflict(x, k, n) PROVE Entered(c, i)
      <4> SUFFICES ASSUME NEW j \in Rivals(c, i)
                   PROVE  /\ Rivals(c, j) = {} => m(j).fid = m(i).fid
                          /\ m(j).fid = m(i).fid => m(j).decl # m(i).decl
        BY DEF Entered
      <4>1. j \in P /\ ~ Skipped(m(j)) /\ symbol(j) = k
        BY <1>8
      <4>2. Rivals(c, j) = {} => m(j).fid = m(i).fid
        BY <2>5, <2>7, <3>1
      <4>3. m(j).fid = m(i).fid =>
              \E l \in 1 .. Len(old[k]) : DeclOf(old[k][l]) = m(j).decl
        BY <4>1, <1>5, <2>6, <2>7, <3>1
      <4> QED
        BY <4>2, <4>3, <2>7, <3>1
    <3>2. ASSUME Entered(c, i) PROVE NoConflict(x, k, n)
      <4>1. m(f).fid = m(i).fid
        BY <3>2, <2>1, <2>2 DEF Entered
      <4>2. ASSUME NEW l \in 1 .. Len(old[k])
            PROVE  DeclOf(old[k][l]) # m(i).decl
        <5>1. PICK j \in P : old[k][l] = MethodNode(c, j) /\ symbol(j) = k /\ Entered(c, j)
          BY <1>4, <1>10
        <5>2. j \in Rivals(c, i) /\ m(j).fid = m(i).fid
          BY <5>1, <1>8, <2>4, <4>1 DEF Entered
        <5>3. m(j).decl # m(i).decl
          BY <5>2, <3>2 DEF Entered
        <5> QED
          BY <5>1, <5>3, <1>3
      <4> QED
        BY <4>1, <4>2, <2>7
    <3> QED
      BY <3>1, <3>2
  <2> HIDE DEF old, new, n, k, m, symbol
  <2>9. \A j \in P : Entered(c, j) => symbol(j) \in DOMAIN old
    BY <1>5 DEF Entered, m, symbol
  <2>10. CASE NoConflict(x, k, n)
    <3>1. /\ Len(new[k]) = Len(old[k]) + 1
          /\ Len(old[k]) \in Nat \ {0}
          /\ \A l \in 1 .. Len(old[k]) : new[k][l] = old[k][l]
          /\ new[k][Len(old[k]) + 1] = n
      BY <1>2, <1>4, <1>7, <1>10, <2>10, AppendProperties
    <3>2. /\ \A l \in 1 .. Len(new[k]) : l \in 1 .. Len(old[k]) \/ new[k][l] = n
          /\ \A l \in 1 .. Len(old[k]) : l \in 1 .. Len(new[k])
          /\ \E l \in 1 .. Len(new[k]) : new[k][l] = n
          /\ new[k][1] = old[k][1]
      BY <3>1
    <3>3. \A h \in DOMAIN new :
            /\ \E g \in P \cup {i} : Rivals(c, g) = {} /\ new[h][1] = MethodNode(c, g)
            /\ \A l \in 1 .. Len(new[h]) : \E j \in P \cup {i} :
                 new[h][l] = MethodNode(c, j) /\ symbol(j) = h /\ Entered(c, j)
      <4> SUFFICES ASSUME NEW h \in DOMAIN new
          PROVE /\ \E g \in P \cup {i} : Rivals(c, g) = {} /\ new[h][1] = MethodNode(c, g)
                /\ \A l \in 1 .. Len(new[h]) : \E j \in P \cup {i} :
                     new[h][l] = MethodNode(c, j) /\ symbol(j) = h /\ Entered(c, j)
        OBVIOUS
      <4>1. CASE h = k
        <5>1. \E g \in P \cup {i} : Rivals(c, g) = {} /\ new[h][1] = MethodNode(c, g)
          BY <4>1, <2>1, <3>2
        <5>2. ASSUME NEW l \in 1 .. Len(new[h])
              PROVE  \E j \in P \cup {i} :
                       new[h][l] = MethodNode(c, j) /\ symbol(j) = h /\ Entered(c, j)
          <6>1. CASE l \in 1 .. Len(old[k])
            BY <6>1, <4>1, <3>1, <1>4, <1>10
          <6>2. CASE new[h][l] = n
            BY <6>2, <4>1, <2>8, <2>10 DEF n, k
          <6> QED
            BY <6>1, <6>2, <4>1, <3>2
        <5> QED
          BY <5>1, <5>2
      <4>2. CASE h \in DOMAIN old \ {k}
        <5>1. new[h] = old[h]
          BY <4>2, <1>7
        <5>2. \E g \in P : Rivals(c, g) = {} /\ old[h][1] = MethodNode(c, g)
          BY <4>2, <1>4
        <5>3. \A l \in 1 .. Len(old[h]) : \E j \in P :
                old[h][l] = MethodNode(c, j) /\ symbol(j) = h /\ Entered(c, j)
          BY <4>2, <1>4
        <5> QED
          BY <5>1, <5>2, <5>3
      <4> QED
        BY <4>1, <4>2, <1>7
    <3>4. \A j \in P \cup {i} : ~ Skipped(m(j)) =>
            /\ symbol(j) \in DOMAIN new
            /\ m(j).fid = new[symbol(j)][1].type =>
                 \E l \in 1 .. Len(new[symbol(j)]) : DeclOf(new[symbol(j)][l]) = m(j).decl
      <4> SUFFICES ASSUME NEW j \in P \cup {i}, ~ Skipped(m(j))
          PROVE /\ symbol(j) \in DOMAIN new
                /\ m(j).fid = new[symbol(j)][1].type =>
                     \E l \in 1 .. Len(new[symbol(j)]) : DeclOf(new[symbol(j)][l]) = m(j).decl
        OBVIOUS
      <4>1. CASE j = i
        BY <4>1, <1>2, <1>7, <3>2 DEF k
      <4>2. CASE j \in P /\ symbol(j) = k
        BY <4>2, <1>5, <1>7, <3>1, <3>2
      <4>3. CASE j \in P /\ symbol(j) # k
        BY <4>3, <1>5, <1>7
      <4> QED
        BY <4>1, <4>2, <4>3
    <3>5. \A j \in P \cup {i} : Entered(c, j) =>
            \E l \in 1 .. Len(new[symbol(j)]) : new[symbol(j)][l] = MethodNode(c, j)
      <4> SUFFICES ASSUME NEW j \in P \cup {i}, Entered(c, j)
          PROVE \E l \in 1 .. Len(new[symbol(j)]) : new[symbol(j)][l] = MethodNode(c, j)
        OBVIOUS
      <4>1. CASE j = i
        BY <4>1, <3>2 DEF k, n
      <4>2. CASE j \in P /\ symbol(j) = k
        BY <4>2, <1>6, <3>1, <3>2
      <4>3. CASE j \in P /\ symbol(j) # k
        BY <4>3, <1>6, <1>7, <2>9
      <4> QED
        BY <4>1, <4>2, <4>3
    <3> QED
      BY <3>3, <3>4, <3>5 DEF MethodsIn, new, m, symbol
  <2>11. CASE ~ NoConflict(x, k, n)
    <3>1. DOMAIN new = DOMAIN old /\ \A h \in DOMAIN old : new[h] = old[h]
      BY <1>7, <1>10, <2>11
    <3>2. ~ Entered(c, i)
      BY <2>8, <2>11
    <3>3. m(i).fid = old[k][1].type =>
            \E l \in 1 .. Len(old[k]) : DeclOf(old[k][l]) = m(i).decl
      BY <2>6, <2>7, <2>11
    <3>4. \A h \in DOMAIN new :
            /\ \E g \in P \cup {i} : Rivals(c, g) = {} /\ new[h][1] = MethodNode(c, g)
            /\ \A l \in 1 .. Len(new[h]) : \E j \in P \cup {i} :
                 new[h][l] = MethodNode(c, j) /\ symbol(j) = h /\ Entered(c, j)
      <4>1. \A h \in DOMAIN old :
              /\ \E g \in P : Rivals(c, g) = {} /\ old[h][1] = MethodNode(c, g)
              /\ \A l \in 1 .. Len(old[h]) : \E j \in P :
                   old[h][l] = MethodNode(c, j) /\ symbol(j) = h /\ Entered(c, j)
        BY <1>4
      <4> SUFFICES ASSUME NEW h \in DOMAIN old, new[h] = old[h]
                   PROVE  /\ \E g \in P \cup {i} :
                               Rivals(c, g) = {} /\ new[h][1] = MethodNode(c, g)
                          /\ \A l \in 1 .. Len(new[h]) : \E j \in P \cup {i} :
                               new[h][l] = MethodNode(c, j) /\ symbol(j) = h /\ Entered(c, j)
        BY <3>1
      <4>2. \E g \in P : Rivals(c, g) = {} /\ new[h][1] = MethodNode(c, g)
        BY <4>1
      <4>3. \A l \in 1 .. Len(new[h]) : \E j \in P :
              new[h][l] = MethodNode(c, j) /\ symbol(j) = h /\ Entered(c, j)
        BY <4>1
      <4> QED
        BY <4>2, <4>3
    <3>5. \A j \in P \cup {i} : ~ Skipped(m(j)) =>
            /\ symbol(j) \in DOMAIN new
            /\ m(j).fid = new[symbol(j)][1].type =>
                 \E l \in 1 .. Len(new[symbol(j)]) : DeclOf(new[symbol(j)][l]) = m(j).decl
      BY <1>5, <1>10, <3>1, <3>3 DEF k
    <3>6. \A j \in P \cup {i} : Entered(c, j) =>
            \E l \in 1 .. Len(new[symbol(j)]) : new[symbol(j)][l] = MethodNode(c, j)
      BY <1>6, <2>9, <3>1, <3>2
    <3> QED
      BY <3>4, <3>5, <3>6 DEF MethodsIn, new, m, symbol
  <2> QED
    BY <2>10, <2>11
<1> QED
  BY <1>9, <1>10

\* What is read of the program stays as it is.
LEMMA ProgramKept ==
  ASSUME UNCHANGED program
  PROVE  \A c : /\ Namespaced(c)' = Namespaced(c)
                /\ ContextOf(c)' = ContextOf(c)
                /\ Hidden(c)' = Hidden(c)
                /\ Positions(c)' = Positions(c)
                /\ \A i, j : Before(c, i, j)' = Before(c, i, j)
                /\ \A x, P : MethodsIn(c, x, P) => MethodsIn(c, x, P)'
<1>1. \A c : /\ Namespaced(c)' = Namespaced(c)
             /\ ContextOf(c)' = ContextOf(c)
             /\ Hidden(c)' = Hidden(c)
             /\ Positions(c)' = Positions(c)
             /\ \A i, j : Before(c, i, j)' = Before(c, i, j)
  BY DEF Namespaced, ContextOf, Hidden, ActualName, NestedInClass, Positions, Before
<1>2. ASSUME NEW c, NEW x, NEW P, MethodsIn(c, x, P)
      PROVE  MethodsIn(c, x, P)'
  <2>1. /\ \A d, i : MethodNode(d, i)' = MethodNode(d, i)
        /\ \A n : DeclOf(n)' = DeclOf(n)
    BY DEF MethodNode, DeclOf
  <2>2. \A d, i : Rivals(d, i)' = Rivals(d, i)
    BY DEF Rivals, Before, SymbolName, TypedefName, NestedInClass, ContextOf, Positions
  <2>3. \A d, i : Entered(d, i)' = Entered(d, i)
    BY <2>2 DEF Entered
  <2>4. \A d, m : SymbolName(d, m)' = SymbolName(d, m)
    BY DEF SymbolName, TypedefName, NestedInClass, ContextOf
  <2> QED
    BY <1>2, <2>1, <2>2, <2>3, <2>4 DEF MethodsIn
<1> QED
  BY <1>1, <1>2

LEMMA IInvCreateSwigMethod ==
  ASSUME IInv, NEW i \in call.methods, CreateSwigMethod(i)
  PROVE  IInv'
<1> DEFINE c == call.class
           s0 == call.symtab
           m == program.methods[c][i]
           n == MethodNode(c, i)
           P == Positions(c) \ call.methods
<1>1. /\ call.at = "methods"
      /\ \A j \in call.methods \ {i} : Before(c, i, j)
      /\ call' = [call EXCEPT !.methods = @ \ {i}]
      /\ scopes' = IF Skipped(m) THEN scopes
                   ELSE [scopes EXCEPT ![current] =
                           SymbolAdd(scopes[current], CName(c, m), SymbolName(c, m), n)]
      /\ UNCHANGED << program, current, m_ClassesIncludedOrImported, m_NamespacesToUse, top >>
  BY DEF CreateSwigMethod
<1>2. call # NoCall
  BY <1>1 DEF NoCall
<1>3. /\ call = [at |-> "methods", class |-> c, priorScope |-> GlobalScope,
                 symtab |-> s0, methods |-> call.methods]
      /\ c \in m_ClassesIncludedOrImported
      /\ \A t \in 1 .. Len(top) : top[t].class # c
      /\ s0 \in Nat
      /\ call.methods \subseteq Positions(c)
  BY <1>1, <1>2 DEF IInv, CallTyped
<1>4. call' = [at |-> "methods", class |-> c, priorScope |-> GlobalScope,
               symtab |-> s0, methods |-> call.methods \ {i}]
  <2>1. \A M : [call EXCEPT !.methods = M] =
          [at |-> "methods", class |-> c, priorScope |-> GlobalScope,
           symtab |-> s0, methods |-> M]
    BY <1>3
  <2> QED
    BY <1>1, <2>1
<1>5. /\ Len(scopes) \in Nat \ {0}
      /\ ScopeTree
  BY DEF IInv, ScopeTree
<1>a. /\ scopes = [s \in 1 .. Len(scopes) |-> scopes[s]]
      /\ \A s \in 2 .. Len(scopes) : scopes[s].parent \in 1 .. s - 1
      /\ IsScope(scopes[s0])
  BY <1>1 DEF IInv, ScopeTree, CurrentScope
<1>6. /\ current = s0
      /\ s0 = Len(scopes)
      /\ s0 \in 2 .. Len(scopes)
      /\ s0 \in 1 .. Len(scopes)
      /\ Belongs(c, scopes[s0].parent)
      /\ \A t \in 1 .. Len(top) : top[t].symtab # s0
  BY <1>1, <1>5 DEF IInv, CurrentScope
<1>7. /\ c \in Class
      /\ i \in Positions(c)
      /\ program \in Program
      /\ ClassScope(s0)
      /\ Owns(c, s0)
  BY <1>1, <1>3 DEF IInv, ClassScope, Owns
<1>8. n \in Node /\ n.type \notin {"class", "namespace"} /\ n.class = c
  <2>1. m \in Method /\ i \in Nat
    <3>1. program.methods[c] \in Seq(Method)
      BY <1>7 DEF Program
    <3> QED
      BY <1>7, <3>1, ElementOfSeq DEF Positions
  <2> QED
    BY <1>7, <2>1 DEF MethodNode, Node, Method
<1> HIDE DEF n
<1>9. Skipped(m) => scopes' = scopes
  BY <1>1
<1>10. ~ Skipped(m) => Adds(s0, CName(c, m), SymbolName(c, m), n)
  <2> SUFFICES ASSUME ~ Skipped(m)
               PROVE  Adds(s0, CName(c, m), SymbolName(c, m), n)
    OBVIOUS
  <2> DEFINE v == SymbolAdd(scopes[s0], CName(c, m), SymbolName(c, m), n)
  <2>1. scopes' = [s \in 1 .. Len(scopes) |-> IF s = s0 THEN v ELSE scopes[s]]
    BY <1>1, <1>a, <1>6
  <2> HIDE DEF v
  <2>2. /\ scopes' = [s \in 1 .. Len(scopes) |-> scopes'[s]]
        /\ scopes'[s0] = v
        /\ \A s \in 1 .. Len(scopes) : s # s0 => scopes'[s] = scopes[s]
    BY <1>6, <2>1
  <2>3. Len(scopes') = Len(scopes)
    BY <1>5, <2>2, LenOf
  <2> QED
    BY <1>5, <1>6, <1>8, <2>2, <2>3 DEF Adds, v
<1>b. /\ ScopeTree'
      /\ \A s \in 1 .. Len(scopes) : scopes'[s].parent = scopes[s].parent
      /\ \A s \in 1 .. Len(scopes) : scopes'[s].name = scopes[s].name
      /\ \A s \in 1 .. Len(scopes) : s # s0 => scopes'[s] = scopes[s]
      /\ Len(scopes') = Len(scopes)
  <2>1. CASE Skipped(m)
    BY <1>5, <1>9, <2>1 DEF ScopeTree, IsScope
  <2>2. CASE ~ Skipped(m)
    <3>1. /\ ScopeTree'
          /\ \A s \in 1 .. Len(scopes) : /\ scopes'[s].parent = scopes[s].parent
                                        /\ scopes'[s].name = scopes[s].name
      BY <1>5, <1>10, <2>2, AddsTree
    <3>2. \A s \in 1 .. Len(scopes) : s # s0 => scopes'[s] = scopes[s]
      BY <1>10, <2>2 DEF Adds
    <3>3. scopes' = [s \in 1 .. Len(scopes) |-> scopes'[s]]
      BY <1>1, <1>a, <2>2
    <3> QED
      BY <1>5, <3>1, <3>2, <3>3, LenOf
  <2> QED
    BY <2>1, <2>2
<1>11. /\ \A s \in 1 .. Len(scopes) : scopes'[s].parent = scopes[s].parent
       /\ \A s \in 1 .. Len(scopes) : scopes'[s].name = scopes[s].name
       /\ \A s \in 1 .. Len(scopes) : s # s0 => scopes'[s] = scopes[s]
       /\ Len(scopes') = Len(scopes)
  BY <1>b
<1>12. \A s \in 1 .. Len(scopes') : \A k \in DOMAIN scopes'[s].csymtab :
          \/ /\ k \in DOMAIN scopes[s].csymtab
             /\ scopes'[s].csymtab[k] = scopes[s].csymtab[k]
          \/ scopes'[s].csymtab[k] = n
  BY <1>5, <1>9, <1>10, AddsNames
<1>13. \A s \in 1 .. Len(scopes') : \A k \in DOMAIN scopes'[s].symtab :
         \A l \in 1 .. Len(scopes'[s].symtab[k]) :
           \/ /\ k \in DOMAIN scopes[s].symtab
              /\ l \in 1 .. Len(scopes[s].symtab[k])
              /\ scopes'[s].symtab[k][l] = scopes[s].symtab[k][l]
           \/ s = s0 /\ scopes'[s].symtab[k][l] = n
  BY <1>5, <1>9, <1>10, AddsSymbols
<1>14. \A d, s : Owns(d, s)' <=> Owns(d, s)
  BY <1>1, <1>4 DEF Owns
<1>15. Grows /\ OwnersKept
  BY <1>1, <1>5, <1>11, <1>14 DEF Grows, OwnersKept, ClassScope
<1>16. TopScopes'
  BY <1>1, <1>5, <1>15, TopKept DEF IInv
<1>17. CallTyped'
  <2>1. /\ call'.at = "methods"
        /\ call'.class = c
        /\ call'.priorScope = GlobalScope
        /\ call'.symtab = s0
        /\ call'.methods = call.methods \ {i}
    BY <1>4
  <2>2. Positions(call.class)' = Positions(c)
    BY <1>1, <2>1, ProgramKept
  <2> QED
    BY <1>1, <1>3, <1>4, <2>1, <2>2 DEF CallTyped
<1>18. CurrentScope'
  <2>1. scopes'[call'.symtab].parent = scopes[s0].parent /\ call'.class = c
    BY <1>4, <1>6, <1>11
  <2>2. Belongs(call.class, scopes[call.symtab].parent)'
    BY <2>1, <1>5, <1>6, <1>15, BelongsKept
  <2>3. NoCall.at = "idle"
    BY DEF NoCall
  <2>4. /\ call.at = "methods"
        /\ current = call.symtab
        /\ call.symtab = Len(scopes)
        /\ call.symtab > 1
        /\ \A j \in 1 .. Len(top) : top[j].symtab # call.symtab
    BY <1>1, <1>6
  <2>5. /\ call'.at = "methods"
        /\ call'.symtab = s0
        /\ current' = s0
        /\ Len(scopes') = s0
        /\ s0 > 1
        /\ \A j \in 1 .. Len(top') : top'[j].symtab # s0
    BY <1>1, <1>4, <1>11, <2>4
  <2> HIDE DEF s0
  <2> QED
    BY <2>2, <2>3, <2>5 DEF CurrentScope
<1>19. NamespaceNodes'
  <2> SUFFICES ASSUME NEW s \in 1 .. Len(scopes'), NEW k \in DOMAIN scopes'[s].csymtab,
                      scopes'[s].csymtab[k].type = "namespace"
               PROVE  (LET e == scopes[s].csymtab[k]
                       IN  /\ s = GlobalScope
                           /\ Namespaced(e.class)
                           /\ k = << ContextOf(e.class).name >>
                           /\ Belongs(e.class, e.symtab))'
    BY DEF NamespaceNodes
  <2>1. /\ s \in 1 .. Len(scopes)
        /\ k \in DOMAIN scopes[s].csymtab
        /\ scopes'[s].csymtab[k] = scopes[s].csymtab[k]
    BY <1>8, <1>11, <1>12
  <2>2. \A d : Namespaced(d)' = Namespaced(d) /\ ContextOf(d)' = ContextOf(d)
    BY <1>1, ProgramKept
  <2> QED
    BY <2>1, <2>2, <1>5, <1>15, BelongsKept DEF IInv, NamespaceNodes
<1>20. scopes'[GlobalScope] = scopes[GlobalScope] /\ GlobalScope \in 1 .. Len(scopes)
  BY <1>5, <1>6, <1>11 DEF GlobalScope
<1>21. GlobalNames'
  BY <1>1, <1>20, ProgramKept DEF IInv, GlobalNames, GlobalScope
<1>22. NamespaceShared'
  <2>1. \A d, s : LeadsTo(d, s)' = LeadsTo(d, s)
    BY <1>1, <1>20, ProgramKept DEF LeadsTo, GlobalScope
  <2>2. scopes'[call'.symtab].parent = scopes[s0].parent /\ call'.class = c /\ call'.at = "methods"
    BY <1>4, <1>6, <1>11
  <2>3. Namespaced(c) /\ ~ Hidden(ContextOf(c).name) => LeadsTo(c, scopes[s0].parent)
    BY <1>1, <1>2 DEF IInv, NamespaceShared
  <2>4. (\A t \in 1 .. Len(top) :
           LET d == top[t].class
           IN  Namespaced(d) /\ ~ Hidden(ContextOf(d).name) =>
                 /\ << ContextOf(d).name >> \in DOMAIN scopes[GlobalScope].csymtab
                 /\ LeadsTo(d, top[t].within))'
    BY <1>1, <1>20, <2>1, ProgramKept DEF IInv, NamespaceShared, GlobalScope
  <2>5. \A d, x : d = c /\ x = scopes[s0].parent =>
          (Namespaced(d) /\ ~ Hidden(ContextOf(d).name) => LeadsTo(d, x))'
    BY <1>1, <2>1, <2>3, ProgramKept
  <2> QED
    BY <2>2, <2>4, <2>5 DEF NamespaceShared
<1>23. NodesPlaced'
  <2> SUFFICES ASSUME NEW s \in 1 .. Len(scopes'), NEW k \in DOMAIN scopes'[s].symtab,
                      NEW l \in 1 .. Len(scopes'[s].symtab[k])
               PROVE  Placed(scopes[s].symtab[k][l], s, k)'
    BY DEF NodesPlaced
  <2>1. CASE /\ k \in DOMAIN scopes[s].symtab
             /\ l \in 1 .. Len(scopes[s].symtab[k])
             /\ scopes'[s].symtab[k][l] = scopes[s].symtab[k][l]
    BY <2>1, <1>5, <1>11, <1>15, PlacedKept DEF IInv, NodesPlaced
  <2>2. CASE s = s0 /\ scopes'[s].symtab[k][l] = n
    <3>1. \A d, x : d = c /\ x = s0 => Owns(d, x)'
      BY <1>7, <1>14
    <3> QED
      BY <2>2, <3>1, <1>8, Zenon DEF Placed
  <2> QED
    BY <2>1, <2>2, <1>13
<1>24. \A d, s : d \in Class /\ Owns(d, s) =>
         /\ s \in 1 .. Len(scopes)
         /\ scopes[s].parent \in 1 .. Len(scopes)
         /\ scopes[s].parent # s0
  <2> SUFFICES ASSUME NEW d \in Class, NEW s, Owns(d, s)
               PROVE  /\ s \in 2 .. Len(scopes)
                      /\ Belongs(d, scopes[s].parent)
    BY <1>5, <1>a, <1>7 DEF Belongs
  <2>1. CASE d = c /\ s = s0
    BY <2>1, <1>6
  <2>2. CASE \E t \in 1 .. Len(top) : top[t].class = d /\ top[t].symtab = s
    BY <2>2 DEF IInv, TopScopes, TopScope
  <2> QED
    BY <2>1, <2>2 DEF Owns
<1>25. ClassesFound'
  <2> SUFFICES ASSUME NamesDistinct', NEW d \in Class, NEW s \in 1 .. Len(scopes'),
                      Owns(d, s)'
               PROVE  Found([class |-> d, symtab |-> s])'
    BY DEF ClassesFound
  <2>1. NamesDistinct /\ Owns(d, s)
    BY <1>1, <1>5, <1>14, FoundKept
  <2>2. Found([class |-> d, symtab |-> s])
    BY <2>1, <1>24 DEF IInv, ClassesFound
  <2>3. /\ s \in 1 .. Len(scopes)
        /\ scopes'[s].parent = scopes[s].parent
        /\ scopes'[scopes[s].parent] = scopes[scopes[s].parent]
    BY <2>1, <1>24, <1>11
  <2> QED
    BY <2>2, <2>3, <1>1, <1>5, FoundKept
<1>26. MethodsIn(c, scopes'[s0].symtab, P \cup {i})
  <2>1. MethodsIn(c, scopes[s0].symtab, P)
    BY <1>1 DEF IInv, MethodsEntered, MethodsOf
  <2>2. CASE Skipped(m)
    <3>1. ~ Entered(c, i)
      BY <2>2 DEF Entered
    <3> QED
      BY <2>1, <2>2, <3>1, <1>9 DEF MethodsIn
  <2>3. CASE ~ Skipped(m)
    <3>1. scopes'[s0] = SymbolAdd(scopes[s0], CName(c, m), SymbolName(c, m), MethodNode(c, i))
      BY <1>10, <2>3 DEF Adds, n
    <3>2. \A j \in P : Before(c, j, i)
      BY <1>1 DEF IInv, MethodsEntered
    <3>3. \A j \in Positions(c) \ P : j # i => Before(c, i, j)
      BY <1>1
    <3>4. i \notin P /\ P \in SUBSET Positions(c)
      OBVIOUS
    <3> HIDE DEF P
    <3> QED
      BY <2>1, <2>3, <3>1, <3>2, <3>3, <3>4, <1>a, <1>7, MethodAdded
  <2> QED
    BY <2>2, <2>3
<1>27. MethodsEntered'
  <2>1. \A t \in 1 .. Len(top) : scopes'[top[t].symtab].symtab = scopes[top[t].symtab].symtab
    <3>1. \A t \in 1 .. Len(top) : top[t].symtab \in 1 .. Len(scopes)
      BY <1>5 DEF IInv, TopScopes, TopScope
    <3> QED
      BY <3>1, <1>6, <1>11
  <2>2. \A t \in 1 .. Len(top) :
          MethodsOf(top[t].class, top[t].symtab, Positions(top[t].class))'
    BY <1>1, <2>1, ProgramKept, MethodsOfKept DEF IInv, MethodsEntered
  <2>3. /\ call'.class = c
        /\ call'.symtab = s0
        /\ call'.methods = call.methods \ {i}
    BY <1>4
  <2>4. (Positions(call.class) \ call.methods)' = P \cup {i}
    BY <2>3, <1>1, <1>7, ProgramKept
  <2>5. \A d, x, Q : d = c /\ x = scopes'[s0].symtab /\ Q = P \cup {i} => MethodsIn(d, x, Q)'
    BY <1>1, <1>26, ProgramKept
  <2>6. MethodsOf(call.class, call.symtab, Positions(call.class) \ call.methods)'
    BY <2>3, <2>4, <2>5 DEF MethodsOf
  <2>7. \A j \in P \cup {i} : \A k \in call.methods \ {i} : Before(c, j, k)
    BY <1>1 DEF IInv, MethodsEntered
  <2>8. (\A j \in Positions(call.class) \ call.methods : \A k \in call.methods :
           Before(call.class, j, k))'
    BY <1>1, <2>3, <2>4, <2>7, ProgramKept
  <2> QED
    BY <1>1, <2>2, <2>6, <2>8 DEF MethodsEntered
<1>28. (/\ program \in Program
        /\ m_ClassesIncludedOrImported \subseteq Class
        /\ m_NamespacesToUse \subseteq Name
        /\ current \in 1 .. Len(scopes))'
  BY <1>1, <1>11 DEF IInv
<1> QED
  BY <1>b, <1>16, <1>17, <1>18, <1>19, <1>21, <1>22, <1>23, <1>25, <1>27, <1>28 DEF IInv

LEMMA IInvLeaveNamespace ==
  ASSUME IInv, LeaveNamespace
  PROVE  IInv'
<1> DEFINE c    == call.class
           s0   == call.symtab
           name == << ContextOf(c).name >>
           n    == NamespaceNode(c, current)
           t0   == [class |-> c, symtab |-> s0, within |-> IF Namespaced(c) THEN current ELSE 0]
<1>1. /\ call.at = "leave"
      /\ top' = Append(top, t0)
      /\ call' = NoCall
      /\ UNCHANGED << program, m_ClassesIncludedOrImported, m_NamespacesToUse >>
  BY DEF LeaveNamespace
<1>2. call # NoCall
  BY <1>1 DEF NoCall
<1>3. /\ call.priorScope = GlobalScope
      /\ c \in m_ClassesIncludedOrImported
      /\ c \in Class
      /\ \A i \in 1 .. Len(top) : top[i].class # c
  BY <1>1, <1>2 DEF IInv, CallTyped
<1>4. /\ s0 \in 2 .. Len(scopes)
      /\ scopes[s0].parent = current
      /\ call.methods = {}
      /\ Belongs(c, current)
      /\ current \in 1 .. Len(scopes)
      /\ Owns(c, s0)
  BY <1>1 DEF IInv, CurrentScope, Belongs, Owns
<1>5. /\ Len(scopes) \in Nat \ {0}
      /\ ScopeTree
      /\ GlobalScope \in 1 .. Len(scopes)
  BY DEF IInv, ScopeTree, GlobalScope
<1>6. \/ /\ Namespaced(c)
         /\ current' = GlobalScope
         /\ scopes' = [scopes EXCEPT ![GlobalScope] =
                         SymbolAdd(scopes[GlobalScope], name, name, n)]
      \/ /\ ~ Namespaced(c)
         /\ current' = GlobalScope
         /\ UNCHANGED scopes
  BY <1>3, <1>4 DEF LeaveNamespace, Belongs
<1>7. n.type = "namespace" /\ n.class = c /\ n.symtab = current /\ n \in Node
  BY <1>3, <1>4, <1>5 DEF NamespaceNode, Node
<1>8. t0.class = c /\ t0.symtab = s0 /\ t0.within = IF Namespaced(c) THEN current ELSE 0
  OBVIOUS
<1> HIDE DEF n, t0
<1>9. Namespaced(c) => Adds(GlobalScope, name, name, n)
  <2> SUFFICES ASSUME Namespaced(c)
               PROVE  Adds(GlobalScope, name, name, n)
    OBVIOUS
  <2> DEFINE v == SymbolAdd(scopes[GlobalScope], name, name, n)
  <2>1. scopes' = [s \in 1 .. Len(scopes) |-> IF s = GlobalScope THEN v ELSE scopes[s]]
    <3>1. scopes = [s \in 1 .. Len(scopes) |-> scopes[s]]
      BY DEF IInv, ScopeTree
    <3> QED
      BY <1>5, <1>6, <3>1
  <2> HIDE DEF v
  <2>2. /\ scopes' = [s \in 1 .. Len(scopes) |-> scopes'[s]]
        /\ scopes'[GlobalScope] = v
        /\ \A s \in 1 .. Len(scopes) : s # GlobalScope => scopes'[s] = scopes[s]
    BY <1>5, <2>1
  <2>3. Len(scopes') = Len(scopes)
    BY <1>5, <2>2, LenOf
  <2>4. Len(scopes') \in {Len(scopes), Len(scopes) + 1} /\ Len(scopes') # Len(scopes) + 1
    BY <1>5, <2>3
  <2>5. scopes' = [s \in 1 .. Len(scopes') |-> scopes'[s]]
    BY <2>2, <2>3
  <2> QED
    BY <1>5, <1>7, <2>2, <2>4, <2>5, Zenon DEF Adds, v
<1>a. /\ ScopeTree'
      /\ \A s \in 1 .. Len(scopes) : scopes'[s].parent = scopes[s].parent
      /\ \A s \in 1 .. Len(scopes) : scopes'[s].name = scopes[s].name
      /\ \A s \in 1 .. Len(scopes) : s # GlobalScope => scopes'[s] = scopes[s]
      /\ Len(scopes') = Len(scopes)
  <2>1. CASE ~ Namespaced(c)
    BY <1>5, <1>6, <2>1 DEF ScopeTree, IsScope
  <2>2. CASE Namespaced(c)
    <3>1. /\ ScopeTree'
          /\ \A s \in 1 .. Len(scopes) : /\ scopes'[s].parent = scopes[s].parent
                                        /\ scopes'[s].name = scopes[s].name
      BY <1>5, <1>9, <2>2, AddsTree
    <3>2. \A s \in 1 .. Len(scopes) : s # GlobalScope => scopes'[s] = scopes[s]
      BY <1>9, <2>2 DEF Adds
    <3>3. scopes' = [s \in 1 .. Len(scopes) |-> scopes'[s]]
      <4>1. scopes = [s \in 1 .. Len(scopes) |-> scopes[s]]
        BY DEF IInv, ScopeTree
      <4> QED
        BY <4>1, <1>6, <2>2
    <3> QED
      BY <1>5, <3>1, <3>2, <3>3, LenOf
  <2> QED
    BY <2>1, <2>2
<1>10. /\ \A s \in 1 .. Len(scopes) : scopes'[s].parent = scopes[s].parent
       /\ \A s \in 1 .. Len(scopes) : scopes'[s].name = scopes[s].name
       /\ \A s \in 1 .. Len(scopes) : s # GlobalScope => scopes'[s] = scopes[s]
       /\ Len(scopes') = Len(scopes)
  BY <1>a
<1>11. /\ \A s \in 1 .. Len(scopes') : \A k \in DOMAIN scopes'[s].csymtab :
            \/ /\ k \in DOMAIN scopes[s].csymtab
               /\ scopes'[s].csymtab[k] = scopes[s].csymtab[k]
            \/ /\ Namespaced(c)
               /\ s = GlobalScope
               /\ k = name
               /\ k \notin DOMAIN scopes[s].csymtab
               /\ scopes'[s].csymtab[k] = n
       /\ \A s \in 1 .. Len(scopes) : \A k \in DOMAIN scopes[s].csymtab :
            /\ k \in DOMAIN scopes'[s].csymtab
            /\ scopes'[s].csymtab[k] = scopes[s].csymtab[k]
       /\ Namespaced(c) => name \in DOMAIN scopes'[GlobalScope].csymtab
  BY <1>5, <1>6, <1>9, AddsNames
<1>12. /\ \A s \in 1 .. Len(scopes') : \A k \in DOMAIN scopes'[s].symtab :
            \A l \in 1 .. Len(scopes'[s].symtab[k]) :
              \/ /\ k \in DOMAIN scopes[s].symtab
                 /\ l \in 1 .. Len(scopes[s].symtab[k])
                 /\ scopes'[s].symtab[k][l] = scopes[s].symtab[k][l]
              \/ /\ Namespaced(c)
                 /\ s = GlobalScope
                 /\ k = name
                 /\ scopes'[s].symtab[k][l] = n
       /\ \A s \in 1 .. Len(scopes) : \A k \in DOMAIN scopes[s].symtab :
            /\ k \in DOMAIN scopes'[s].symtab
            /\ scopes'[s].symtab[k] = scopes[s].symtab[k] \/ (Namespaced(c) /\ k = name)
  BY <1>5, <1>6, <1>9, AddsSymbols
<1>13. /\ Len(top') = Len(top) + 1
       /\ Len(top) \in Nat
       /\ \A i \in 1 .. Len(top) : top'[i] = top[i]
       /\ top'[Len(top) + 1] = t0
       /\ top' \in Seq([class : Class, symtab : Nat, within : Nat])
  <2>1. top \in Seq([class : Class, symtab : Nat, within : Nat])
    BY DEF IInv, TopScopes
  <2>2. t0 \in [class : Class, symtab : Nat, within : Nat]
    BY <1>3, <1>4, <1>5 DEF t0
  <2> QED
    BY <1>1, <2>1, <2>2, AppendProperties
<1>14. \A i \in 1 .. Len(top') : i \in 1 .. Len(top) \/ top'[i] = t0
  BY <1>13
<1>15. \A i \in 1 .. Len(top) : i \in 1 .. Len(top') /\ top'[i] = top[i]
  BY <1>13
<1>16. \E i \in 1 .. Len(top') : top'[i] = t0
  BY <1>13
<1>17. call'.at = "idle"
  BY <1>1 DEF NoCall
<1>18. \A d, s : Owns(d, s)' <=> Owns(d, s)
  <2> SUFFICES ASSUME NEW d, NEW s
               PROVE  Owns(d, s)' <=> Owns(d, s)
    OBVIOUS
  <2>1. Owns(d, s) <=> (\E i \in 1 .. Len(top) : top[i].class = d /\ top[i].symtab = s)
                       \/ (d = c /\ s = s0)
    BY <1>1 DEF Owns
  <2>2. Owns(d, s)' <=> \E i \in 1 .. Len(top') : top'[i].class = d /\ top'[i].symtab = s
    BY <1>17 DEF Owns
  <2> QED
    BY <2>1, <2>2, <1>8, <1>14, <1>15, <1>16
<1>19. Grows /\ OwnersKept
  BY <1>1, <1>5, <1>10, <1>18 DEF Grows, OwnersKept, ClassScope
<1>20. TopScopes'
  <2>1. \A t : TopScope(t) => TopScope(t)'
    BY <1>1, <1>5, <1>19, TopScopeKept
  <2>2. TopScope(t0)
    BY <1>3, <1>4, <1>8 DEF TopScope
  <2>3. \A i \in 1 .. Len(top') : TopScope(top'[i])
    BY <2>2, <1>14, <1>15 DEF IInv, TopScopes
  <2>4. \A i, t : i \in 1 .. Len(top') /\ t = top'[i] => TopScope(t)'
    BY <2>1, <2>3
  <2>5. (\A i \in 1 .. Len(top) : TopScope(top[i]))'
    BY <2>4
  <2> QED
    BY <2>5, <1>13 DEF TopScopes
<1>21. CallTyped' /\ CurrentScope'
  BY <1>1, <1>6, <1>17 DEF CallTyped, CurrentScope, GlobalScope
<1>22. \A d : Namespaced(d)' = Namespaced(d) /\ ContextOf(d)' = ContextOf(d)
  BY <1>1, ProgramKept
<1>23. NamespaceNodes'
  <2> SUFFICES ASSUME NEW s \in 1 .. Len(scopes'), NEW k \in DOMAIN scopes'[s].csymtab,
                      scopes'[s].csymtab[k].type = "namespace"
               PROVE  (LET e == scopes[s].csymtab[k]
                       IN  /\ s = GlobalScope
                           /\ Namespaced(e.class)
                           /\ k = << ContextOf(e.class).name >>
                           /\ Belongs(e.class, e.symtab))'
    BY DEF NamespaceNodes
  <2> DEFINE e == scopes'[s].csymtab[k]
  <2>1. CASE k \in DOMAIN scopes[s].csymtab /\ e = scopes[s].csymtab[k]
    BY <2>1, <1>5, <1>10, <1>19, <1>22, BelongsKept DEF IInv, NamespaceNodes
  <2>2. CASE Namespaced(c) /\ s = GlobalScope /\ k = name /\ e = n
    <3>1. \A d, x : d = c /\ x = current => Belongs(d, x)'
      BY <1>4, <1>5, <1>19, BelongsKept
    <3>2. e.class = c /\ e.symtab = current
      BY <2>2, <1>7
    <3> QED
      BY <2>2, <3>1, <3>2, <1>22 DEF GlobalScope
  <2> QED
    BY <2>1, <2>2, <1>11
<1>24. GlobalNames'
  <2>1. \A k \in DOMAIN scopes'[GlobalScope].csymtab :
          scopes'[GlobalScope].csymtab[k].type # "namespace" =>
            \E m \in Name : k = << m >> /\ Hidden(m)
    BY <1>5, <1>7, <1>10, <1>11 DEF IInv, GlobalNames
  <2> QED
    BY <2>1, <1>1, ProgramKept DEF GlobalNames, GlobalScope
<1>25. NamespaceShared'
  <2>1. \A d, s : << ContextOf(d).name >> \in DOMAIN scopes[GlobalScope].csymtab /\ LeadsTo(d, s)
                    => /\ << ContextOf(d).name >> \in DOMAIN scopes'[GlobalScope].csymtab
                       /\ LeadsTo(d, s)'
    BY <1>5, <1>11, <1>22 DEF LeadsTo, GlobalScope
  <2>2. \A i \in 1 .. Len(top) :
          LET d == top[i].class
          IN  Namespaced(d) /\ ~ Hidden(ContextOf(d).name) =>
                /\ << ContextOf(d).name >> \in DOMAIN scopes[GlobalScope].csymtab
                /\ LeadsTo(d, top[i].within)
    BY DEF IInv, NamespaceShared
  <2>3. Namespaced(c) /\ ~ Hidden(ContextOf(c).name) => LeadsTo(c, current)
    BY <1>1, <1>2 DEF IInv, NamespaceShared
  <2>4. \A d, s : d = c /\ s = current /\ Namespaced(c) /\ ~ Hidden(ContextOf(c).name) =>
          /\ << ContextOf(d).name >> \in DOMAIN scopes'[GlobalScope].csymtab
          /\ LeadsTo(d, s)'
    <3> SUFFICES ASSUME Namespaced(c), ~ Hidden(ContextOf(c).name)
                 PROVE  \A d, s : d = c /\ s = current =>
                          /\ << ContextOf(d).name >> \in DOMAIN scopes'[GlobalScope].csymtab
                          /\ LeadsTo(d, s)'
      OBVIOUS
    <3>1. scopes'[GlobalScope].csymtab[name].symtab = current
      BY <1>5, <1>7, <1>10, <1>11, <2>3 DEF LeadsTo
    <3> QED
      BY <3>1, <1>11, <1>22 DEF LeadsTo, GlobalScope
  <2>5. \A i \in 1 .. Len(top') : \A d, s :
          d = top'[i].class /\ s = top'[i].within /\ Namespaced(d) /\ ~ Hidden(ContextOf(d).name) =>
            /\ << ContextOf(d).name >> \in DOMAIN scopes'[GlobalScope].csymtab
            /\ LeadsTo(d, s)'
    BY <2>1, <2>2, <2>4, <1>8, <1>14, <1>15
  <2>6. \A m : Hidden(m)' = Hidden(m)
    BY <1>1, ProgramKept
  <2> QED
    BY <2>5, <2>6, <1>1, <1>22 DEF NamespaceShared, GlobalScope
<1>26. NodesPlaced'
  <2> SUFFICES ASSUME NEW s \in 1 .. Len(scopes'), NEW k \in DOMAIN scopes'[s].symtab,
                      NEW l \in 1 .. Len(scopes'[s].symtab[k])
               PROVE  Placed(scopes[s].symtab[k][l], s, k)'
    BY DEF NodesPlaced
  <2>1. CASE /\ k \in DOMAIN scopes[s].symtab
             /\ l \in 1 .. Len(scopes[s].symtab[k])
             /\ scopes'[s].symtab[k][l] = scopes[s].symtab[k][l]
    BY <2>1, <1>5, <1>10, <1>19, PlacedKept DEF IInv, NodesPlaced
  <2>2. CASE Namespaced(c) /\ s = GlobalScope /\ k = name /\ scopes'[s].symtab[k][l] = n
    BY <2>2, <1>7, <1>22 DEF Placed, GlobalScope
  <2> QED
    BY <2>1, <2>2, <1>12
<1>27. \A d, s : d \in Class /\ Owns(d, s) =>
         /\ s \in 1 .. Len(scopes)
         /\ scopes[s].parent \in 1 .. Len(scopes)
  <2> SUFFICES ASSUME NEW d \in Class, NEW s, Owns(d, s)
               PROVE  /\ s \in 1 .. Len(scopes)
                      /\ Belongs(d, scopes[s].parent)
    BY DEF Belongs
  <2>1. CASE d = c /\ s = s0
    BY <2>1, <1>4
  <2>2. CASE \E t \in 1 .. Len(top) : top[t].class = d /\ top[t].symtab = s
    BY <2>2 DEF IInv, TopScopes, TopScope
  <2> QED
    BY <2>1, <2>2 DEF Owns
<1>28. ClassesFound'
  <2> SUFFICES ASSUME NamesDistinct', NEW d \in Class, NEW s \in 1 .. Len(scopes'),
                      Owns(d, s)'
               PROVE  Found([class |-> d, symtab |-> s])'
    BY DEF ClassesFound
  <2>1. NamesDistinct /\ Owns(d, s)
    BY <1>1, <1>5, <1>18, FoundKept
  <2>2. Found([class |-> d, symtab |-> s])
    BY <2>1, <1>27 DEF IInv, ClassesFound
  <2>3. Namespaced(c) => << TypedefName(d) >> # name
    BY <2>1, <1>3 DEF NamesDistinct
  <2>4. /\ s \in 1 .. Len(scopes)
        /\ scopes[s].parent \in 1 .. Len(scopes)
        /\ scopes'[s].parent = scopes[s].parent
    BY <2>1, <1>27, <1>10
  <2>5. << TypedefName(d) >> \in DOMAIN scopes[scopes[s].parent].symtab =>
          /\ << TypedefName(d) >> \in DOMAIN scopes'[scopes[s].parent].symtab
          /\ scopes'[scopes[s].parent].symtab[<< TypedefName(d) >>] =
               scopes[scopes[s].parent].symtab[<< TypedefName(d) >>]
    BY <2>3, <2>4, <1>12
  <2> QED
    BY <2>2, <2>4, <2>5, <1>1, <1>5, FoundKept
<1>29. MethodsEntered'
  <2>1. \A d : Positions(d)' = Positions(d)
    BY <1>1, ProgramKept
  <2>2. \A i \in 1 .. Len(top) : scopes'[top[i].symtab] = scopes[top[i].symtab]
    <3>1. \A i \in 1 .. Len(top) : top[i].symtab \in 1 .. Len(scopes) /\ top[i].symtab # GlobalScope
      BY <1>5 DEF IInv, TopScopes, TopScope, GlobalScope
    <3> QED
      BY <3>1, <1>10
  <2>3. scopes'[s0] = scopes[s0]
    BY <1>4, <1>5, <1>10 DEF GlobalScope
  <2>4. MethodsOf(c, s0, Positions(c))
    <3>1. Positions(c) \ call.methods = Positions(c)
      BY <1>4
    <3>2. MethodsOf(c, s0, Positions(c) \ call.methods)
      BY <1>1 DEF IInv, MethodsEntered
    <3> QED
      BY <3>1, <3>2
  <2>5. \A i \in 1 .. Len(top') :
          LET t == top'[i]
          IN  MethodsOf(t.class, t.symtab, Positions(t.class))
              /\ scopes'[t.symtab] = scopes[t.symtab]
    BY <2>2, <2>3, <2>4, <1>8, <1>14, <1>15 DEF IInv, MethodsEntered
  <2>6. \A i \in 1 .. Len(top') : \A d, s :
          d = top'[i].class /\ s = top'[i].symtab => MethodsOf(d, s, Positions(d))'
    BY <2>1, <2>5, <1>1, MethodsOfKept
  <2>7. (\A i \in 1 .. Len(top) :
           MethodsOf(top[i].class, top[i].symtab, Positions(top[i].class)))'
    BY <2>6
  <2> QED
    BY <2>7, <1>17 DEF MethodsEntered
<1>30. (/\ program \in Program
        /\ m_ClassesIncludedOrImported \subseteq Class
        /\ m_NamespacesToUse \subseteq Name
        /\ current \in 1 .. Len(scopes))'
  BY <1>1, <1>5, <1>6, <1>10 DEF IInv, GlobalScope
<1> QED
  BY <1>a, <1>20, <1>21, <1>23, <1>24, <1>25, <1>26, <1>28, <1>29, <1>30 DEF IInv

LEMMA IInvNext ==
  ASSUME IInv, [Next]_vars
  PROVE  IInv'
<1>1. ASSUME NEW c \in Class, CreateSwigClassInNamespace(c) PROVE IInv'
  BY <1>1, IInvCreateSwigClassInNamespace
<1>2. CASE EnterNamespace
  BY <1>2, IInvEnterNamespace
<1>3. CASE CreateSwigClass
  BY <1>3, IInvCreateSwigClass
<1>4. ASSUME NEW i \in call.methods, CreateSwigMethod(i) PROVE IInv'
  BY <1>4, IInvCreateSwigMethod
<1>5. CASE LeaveClass
  BY <1>5, IInvLeaveClass
<1>6. CASE LeaveNamespace
  BY <1>6, IInvLeaveNamespace
<1>7. CASE UNCHANGED vars
  <2>1. UNCHANGED << program, scopes, current, m_ClassesIncludedOrImported,
                     m_NamespacesToUse, top, call >>
    BY <1>7 DEF vars
  <2>2. Grows /\ OwnersKept
    BY <2>1 DEF IInv, ScopeTree, Grows, OwnersKept, ClassScope, Owns
  <2>3. Len(scopes) \in Nat /\ ScopeTree
    BY DEF IInv, ScopeTree
  <2>4. \A d, s : Owns(d, s)' <=> Owns(d, s)
    BY <2>1 DEF Owns
  <2>5. TopScopes' /\ NamespaceNodes' /\ NodesPlaced'
    BY <2>1, <2>2, <2>3, TopKept, NamespaceNodesKept, PlacedKept DEF IInv, NodesPlaced
  <2>6. ClassesFound'
    BY <2>1, <2>3, <2>4, FoundKept DEF IInv, ClassesFound
  <2>7. MethodsEntered'
    <3>1. \A c, s, P : MethodsOf(c, s, P) => MethodsOf(c, s, P)'
      BY <2>1, MethodsOfKept
    <3>2. /\ \A c : Positions(c)' = Positions(c)
          /\ \A c, i, j : Before(c, i, j)' = Before(c, i, j)
      BY <2>1, ProgramKept
    <3> QED
      BY <2>1, <3>1, <3>2 DEF IInv, MethodsEntered
  <2>8. CallTyped' /\ ScopeTree'
    BY <2>1 DEF IInv, CallTyped, Positions, ScopeTree, IsScope
  <2>9. CurrentScope'
    <3>1. \A c, s : Belongs(c, s) => Belongs(c, s)'
      BY <2>2, <2>3, BelongsKept
    <3> QED
      BY <2>1, <3>1, ProgramKept DEF IInv, CurrentScope, GlobalScope
  <2>10. GlobalNames' /\ NamespaceShared'
    BY <2>1, ProgramKept DEF IInv, GlobalNames, NamespaceShared, LeadsTo, GlobalScope
  <2> QED
    BY <2>1, <2>5, <2>6, <2>7, <2>8, <2>9, <2>10 DEF IInv
<1> QED
  BY <1>1, <1>2, <1>3, <1>4, <1>5, <1>6, <1>7 DEF Next, Done

\* In every state of every run, whatever classes are handed over in whatever order:
\* the current scope is the one that the step under way expects, the C names of the
\* global scope lead to the namespaces, and every node is in a scope of its own class
\* or namespace.
THEOREM InvariantHolds == Spec => []IInv
<1>1. Init => IInv
  BY IInvInit
<1>2. IInv /\ [Next]_vars => IInv'
  BY IInvNext
<1> QED
  BY <1>1, <1>2, PTL DEF Spec

-----------------------------------------------------------------------------
(* The properties. *)

\* Every variable has its type, and SWIG never pops the global scope.
THEOREM TypeCorrect == Spec => []TypeOK
<1>1. IInv => TypeOK
  <2> SUFFICES ASSUME IInv
               PROVE  TypeOK
    OBVIOUS
  <2>1. /\ Len(scopes) \in Nat \ {0}
        /\ \A s \in 1 .. Len(scopes) : IsScope(scopes[s])
        /\ scopes[1].parent = 0
        /\ \A s \in 2 .. Len(scopes) : scopes[s].parent \in 1 .. s - 1
    BY DEF IInv, ScopeTree, GlobalScope
  <2>2. \A s \in 1 .. Len(scopes) :
          /\ \A k \in DOMAIN scopes[s].csymtab : scopes[s].csymtab[k] \in Node
          /\ \A k \in DOMAIN scopes[s].symtab : scopes[s].symtab[k] \in Seq(Node)
    BY <2>1 DEF IsScope
  <2>3. \A s \in 1 .. Len(scopes) : scopes[s].parent < s
    <3>1. \A s \in 1 .. Len(scopes) : s = 1 \/ s \in 2 .. Len(scopes)
      BY <2>1
    <3> QED
      BY <2>1, <3>1
  <2>4. top \in Seq([class : Class, symtab : 1 .. Len(scopes), within : 0 .. Len(scopes)])
    <3> DEFINE R == [class : Class, symtab : Nat, within : Nat]
               T == [class : Class, symtab : 1 .. Len(scopes), within : 0 .. Len(scopes)]
    <3>1. top \in Seq(R)
      BY DEF IInv, TopScopes
    <3>2. ASSUME NEW i \in 1 .. Len(top)
          PROVE  top[i] \in T
      <4>1. top[i] \in R /\ TopScope(top[i])
        BY <3>1, ElementOfSeq DEF IInv, TopScopes
      <4>2. /\ top[i].symtab \in 1 .. Len(scopes)
            /\ top[i].within \in 0 .. Len(scopes)
        BY <4>1, <2>1 DEF TopScope, Belongs
      <4> QED
        BY <4>1, <4>2
    <3>3. top \in [1 .. Len(top) -> T] /\ Len(top) \in Nat
      BY <3>1, <3>2, LenProperties
    <3> HIDE DEF T
    <3>4. top \in Seq(T)
      BY <3>3
    <3> QED
      BY <3>4 DEF T
  <2>5. call = NoCall \/ call.at \in {"namespace", "class", "methods", "leave"}
    BY DEF IInv, CallTyped
  <2> QED
    BY <2>2, <2>3, <2>4, <2>5 DEF IInv, TypeOK
<1> QED
  BY <1>1, InvariantHolds, PTL

\* Every class that was handed over has its scope in a scope of its namespace, which
\* is in the global one; the scope that its namespace node carries is that one.
THEOREM ScopesOfNamespaces == Spec => []ClassUnderItsNamespace
<1>1. IInv => ClassUnderItsNamespace
  BY DEF IInv, TopScopes, TopScope, Belongs, ClassUnderItsNamespace, GlobalScope
<1> QED
  BY <1>1, InvariantHolds, PTL

\* However many other classes come between them, the classes of a namespace whose
\* C name no class hides share one scope.
THEOREM OneScopePerNamespace == Spec => []NamespaceHasOneScope
<1>1. IInv => NamespaceHasOneScope
  BY DEF IInv, NamespaceShared, LeadsTo, NamespaceHasOneScope
<1> QED
  BY <1>1, InvariantHolds, PTL

\* A method is only ever entered in the scope of its class, and what becomes of it
\* depends on the methods of that class that were handled before it, whatever else
\* is handed over.
THEOREM MethodsOfOneClass == Spec => []MethodsInTheirClass
<1>1. IInv => MethodsInTheirClass
  <2> SUFFICES ASSUME IInv
               PROVE  MethodsInTheirClass
    OBVIOUS
  <2>1. \A s \in 1 .. Len(scopes) : \A k \in DOMAIN scopes[s].symtab :
          \A i \in 1 .. Len(scopes[s].symtab[k]) :
            LET n == scopes[s].symtab[k][i]
            IN  n.type \notin {"class", "namespace"} =>
                  \/ \E t \in 1 .. Len(top) : top[t].class = n.class /\ top[t].symtab = s
                  \/ call # NoCall /\ call.class = n.class /\ call.symtab = s
    <3>1. \A s \in 1 .. Len(scopes) : \A k \in DOMAIN scopes[s].symtab :
            \A i \in 1 .. Len(scopes[s].symtab[k]) :
              LET n == scopes[s].symtab[k][i]
              IN  n.type \notin {"class", "namespace"} => Owns(n.class, s)
      BY DEF IInv, NodesPlaced, Placed
    <3>2. \A c, s : Owns(c, s) =>
            \/ \E t \in 1 .. Len(top) : top[t].class = c /\ top[t].symtab = s
            \/ call # NoCall /\ call.class = c /\ call.symtab = s
      BY DEF Owns, NoCall
    <3> SUFFICES ASSUME NEW s \in 1 .. Len(scopes), NEW k \in DOMAIN scopes[s].symtab,
                        NEW i \in 1 .. Len(scopes[s].symtab[k]),
                        scopes[s].symtab[k][i].type \notin {"class", "namespace"}
                 PROVE  LET n == scopes[s].symtab[k][i]
                        IN  \/ \E t \in 1 .. Len(top) : top[t].class = n.class /\ top[t].symtab = s
                            \/ call # NoCall /\ call.class = n.class /\ call.symtab = s
      OBVIOUS
    <3>3. Owns(scopes[s].symtab[k][i].class, s)
      BY <3>1
    <3> QED
      BY <3>2, <3>3
  <2>2. ASSUME NEW t \in 1 .. Len(top), NEW i \in Positions(top[t].class)
        PROVE  LET c       == top[t].class
                   symbols == scopes[top[t].symtab].symtab
               IN  Entered(c, i) <=>
                     \E k \in DOMAIN symbols : MethodNode(c, i) \in Range(symbols[k])
    <3> DEFINE c       == top[t].class
               symbols == scopes[top[t].symtab].symtab
               symbol(j) == SymbolName(c, program.methods[c][j])
    <3>1. MethodsIn(c, symbols, Positions(c))
      BY DEF IInv, MethodsEntered, MethodsOf
    <3>2. \A k \in DOMAIN symbols : symbols[k] \in Seq(Node)
      <4>1. top[t].symtab \in 1 .. Len(scopes)
        BY DEF IInv, TopScopes, TopScope, ScopeTree
      <4> QED
        BY <4>1 DEF IInv, ScopeTree, IsScope
    <3>3. \A k \in DOMAIN symbols : DOMAIN symbols[k] = 1 .. Len(symbols[k])
      BY <3>2, LenProperties
    <3>4. \A k \in DOMAIN symbols : \A l \in 1 .. Len(symbols[k]) :
            \E j \in Positions(c) : symbols[k][l] = MethodNode(c, j) /\ Entered(c, j)
      BY <3>1 DEF MethodsIn
    <3>5. Entered(c, i) => /\ symbol(i) \in DOMAIN symbols
                           /\ \E l \in 1 .. Len(symbols[symbol(i)]) :
                                symbols[symbol(i)][l] = MethodNode(c, i)
      BY <3>1 DEF MethodsIn, Entered
    <3>6. \A j : MethodNode(c, j) = MethodNode(c, i) => j = i
      <4>1. \A j : MethodNode(c, j).item = j
        BY DEF MethodNode
      <4> QED
        BY <4>1
    <3> HIDE DEF c, symbols, symbol
    <3> QED
      <4>1. Entered(c, i) =>
              \E k \in DOMAIN symbols : MethodNode(c, i) \in Range(symbols[k])
        BY <3>3, <3>5 DEF Range
      <4>2. ASSUME NEW k \in DOMAIN symbols, MethodNode(c, i) \in Range(symbols[k])
            PROVE  Entered(c, i)
        BY <4>2, <3>3, <3>4, <3>6 DEF Range
      <4> QED
        BY <4>1, <4>2 DEF c, symbols
  <2> QED
    BY <2>1, <2>2 DEF MethodsInTheirClass
<1> QED
  BY <1>1, InvariantHolds, PTL

\* With names that say which class is meant, every class that was handed over is
\* found in the scope around it, in whatever order the classes come.
THEOREM NoClassLost == Spec => []ClassesKept
<1>1. IInv => ClassesKept
  <2> SUFFICES ASSUME IInv, NamesDistinct, NEW i \in 1 .. Len(top)
               PROVE  Found(top[i])
    BY DEF ClassesKept
  <2>1. /\ TopScope(top[i])
        /\ m_ClassesIncludedOrImported \subseteq Class
        /\ Len(scopes) \in Nat
    BY DEF IInv, TopScopes, ScopeTree
  <2>2. top[i].class \in Class /\ top[i].symtab \in 1 .. Len(scopes)
    BY <2>1 DEF TopScope
  <2>3. Owns(top[i].class, top[i].symtab)
    BY DEF Owns
  <2>4. Found([class |-> top[i].class, symtab |-> top[i].symtab])
    BY <2>2, <2>3 DEF IInv, ClassesFound
  <2> QED
    BY <2>4 DEF Found
<1> QED
  BY <1>1, InvariantHolds, PTL
=============================================================================
