----------------------------- MODULE SwigScopes -----------------------------
(***************************************************************************)
(* How CableSwig (Executables/CableSwig.cxx) enters the classes it hands   *)
(* over in the symbol tables of SWIG: CreateSwigClassInNamespace,          *)
(* CreateSwigClass and CreateSwigMethod, over the part of SWIG's symbol    *)
(* tables (SWIG/Source/Swig/symbol.c) that they use.                       *)
(*                                                                         *)
(* SWIG has one current scope.  A class in a namespace is entered from the *)
(* scope that the earlier classes of the namespace left behind, found by   *)
(* the unqualified name of the namespace; its methods go to a scope of its *)
(* own; and every scope must be left again before the next class.  The     *)
(* result of Swig_symbol_add is ignored: an entry that conflicts with an   *)
(* earlier one is lost without a word.                                     *)
(***************************************************************************)
EXTENDS Naturals, Sequences, SequencesExt

CONSTANTS
  Class,      \* the classes handed over
  Name,       \* names of classes, namespaces and methods
  Decl,       \* SWIG declarators of methods
  Global,     \* the name "::" of the global namespace
  NoContext,  \* the context of the global namespace
  Programs    \* the programs considered

(***************************************************************************)
(* What is read of the classes: the context and the name of the context of *)
(* the context, the name of a class in SWIG's notation, its typedef name,  *)
(* its qualified name (used when it is nested), and its methods in the     *)
(* order of Class::Begin.                                                  *)
(***************************************************************************)
Context == [ kind : {"namespace", "class"}, name : Name \cup {Global},
             outer : Name \cup {Global, NoContext} ]
Method  == [ fid : {"constructor", "destructor", "converter", "method"},
             access : {"private", "protected", "public"},
             name : Name, decl : Decl, returnsNested : BOOLEAN ]
Program == [ context : [Class -> Context], name : [Class -> Name],
             typedef : [Class -> Name], qualified : [Class -> Name],
             methods : [Class -> Seq(Method)], language : {"python", "java", "tcl"} ]

ASSUME ScopesAssumption ==
  /\ {Global, NoContext} \cap Name = {}
  /\ Global # NoContext
  /\ Programs \subseteq Program

VARIABLES
  program,                      \* the program handed over
  scopes,                       \* SWIG's scopes; the first is the global one
  current,                      \* the current scope
  m_ClassesIncludedOrImported,
  m_NamespacesToUse,
  top,                          \* the nodes handed over, in order
  call                          \* the class under way, if any

vars == << program, scopes, current, m_ClassesIncludedOrImported,
           m_NamespacesToUse, top, call >>

-----------------------------------------------------------------------------
(* SWIG's symbol tables.  Names and symbols are sequences: << n >> is n,   *)
(* << "~", n >> a destructor and << n, "New" >> the method n_New.          *)

GlobalScope == 1
Unnamed == << >>

\* f with g at k.
Put(f, k, g) == [x \in DOMAIN f \cup {k} |-> IF x = k THEN g ELSE f[x]]

\* Swig_symbol_newscope and Swig_symbol_setscopename: one more scope, at the end.
NewScope(parent, name) ==
  Append(scopes, [parent |-> parent, name |-> name,
                  csymtab |-> << >>, symtab |-> << >>])

DeclOf(n) == program.methods[n.class][n.item].decl

\* Swig_symbol_cadd: the first node of a C name stays in front.
Cadd(scope, name, n) ==
  IF name \in DOMAIN scope.csymtab THEN scope
  ELSE [scope EXCEPT !.csymtab = Put(@, name, n)]

\* Mutant: a function does not overload another one.
NoConflictWithoutOverloads(scope, symbol, n) ==
  symbol \in DOMAIN scope.symtab =>
    n.type = "namespace" /\ scope.symtab[symbol][1].type = "namespace"

\* Swig_symbol_add finds no conflict: namespaces are open, and functions overload
\* when their declarators differ.
NoConflict(scope, symbol, n) ==
  symbol \in DOMAIN scope.symtab =>
    LET same == scope.symtab[symbol]
    IN  /\ n.type = same[1].type
        /\ n.type # "class"
        /\ n.type # "namespace" => \A i \in 1 .. Len(same) : DeclOf(same[i]) # DeclOf(n)

\* Swig_symbol_add to a scope.
SymbolAdd(scope, name, symbol, n) ==
  LET added == Cadd(scope, name, n)
  IN  IF NoConflict(scope, symbol, n)
      THEN [added EXCEPT !.symtab =
              Put(@, symbol, IF symbol \in DOMAIN @ THEN Append(@[symbol], n) ELSE << n >>)]
      ELSE added

\* Swig_symbol_clookup of an unqualified name from a scope: the nodes found there or
\* in the nearest scope around it, none or one.
Clookup(name) ==
  LET found[s \in 0 .. Len(scopes)] ==
        IF s = 0 THEN {}
        ELSE IF name \in DOMAIN scopes[s].csymtab THEN {scopes[s].csymtab[name]}
        ELSE found[scopes[s].parent]
  IN  found

-----------------------------------------------------------------------------
NoCall == [at |-> "idle", methods |-> {}]

ContextOf(c) == program.context[c]
Namespaced(c) == ContextOf(c).kind = "namespace" /\ ContextOf(c).name # Global
NestedInClass(c) == ContextOf(c).kind = "class"
OuterNamed(c) == ContextOf(c).outer \notin {Global, NoContext}

\* GetClassName, and the replacement of both names of a nested class.
TypedefName(c) == IF NestedInClass(c) THEN program.qualified[c] ELSE program.typedef[c]
ActualName(c) == IF NestedInClass(c) THEN program.qualified[c] ELSE program.name[c]

Positions(c) == 1 .. Len(program.methods[c])

\* The three passes over the methods: the private ones come first, then the
\* protected and then the public ones.
Pass == [private |-> 1, protected |-> 2, public |-> 3]

Before(c, i, j) ==
  LET pass(k) == Pass[program.methods[c][k].access]
  IN  pass(i) < pass(j) \/ (pass(i) = pass(j) /\ i < j)

\* The methods that CreateSwigMethod leaves out.
Skipped(m) ==
  \/ m.fid = "converter"
  \/ m.returnsNested
  \/ m.fid = "destructor" /\ m.access = "public"

CName(c, m) ==
  IF m.fid = "constructor" THEN << ActualName(c) >>
  ELSE IF m.fid = "destructor" THEN << "~", TypedefName(c) >> ELSE << m.name >>

\* The symbol of a method, renamed where the target language needs it.
SymbolName(c, m) ==
  IF m.fid \in {"constructor", "destructor"} THEN << TypedefName(c) >>
  ELSE IF m.name = "print" /\ program.language = "python" THEN << "Print" >>
  ELSE IF m.name = "New" /\ program.language = "java" THEN << TypedefName(c), "New" >>
  ELSE << m.name >>

ClassNode(c, s) == [type |-> "class", class |-> c, item |-> 0, symtab |-> s]
NamespaceNode(c, s) == [type |-> "namespace", class |-> c, item |-> 0, symtab |-> s]
MethodNode(c, i) ==
  [type |-> program.methods[c][i].fid, class |-> c, item |-> i, symtab |-> 0]

Init ==
  /\ program \in Programs
  /\ scopes = << [parent |-> 0, name |-> Unnamed, csymtab |-> << >>, symtab |-> << >>] >>
  /\ current = GlobalScope
  /\ m_ClassesIncludedOrImported = {}
  /\ m_NamespacesToUse = {}
  /\ top = << >>
  /\ call = NoCall

\* CreateSwigClassInNamespace of a class that was not handed over, up to the
\* saving of the scope.  A nested class whose class is not in the global namespace
\* is left out.
CreateSwigClassInNamespace(c) ==
  /\ call = NoCall
  /\ c \notin m_ClassesIncludedOrImported
  /\ m_ClassesIncludedOrImported' = m_ClassesIncludedOrImported \cup {c}
  /\ m_NamespacesToUse' = IF OuterNamed(c) /\ ~ NestedInClass(c)
                          THEN m_NamespacesToUse \cup {ContextOf(c).outer}
                          ELSE m_NamespacesToUse
  /\ call' = IF OuterNamed(c) /\ NestedInClass(c) THEN NoCall
             ELSE [ at |-> IF Namespaced(c) THEN "namespace" ELSE "class",
                    class |-> c, priorScope |-> current, symtab |-> 0, methods |-> {} ]
  /\ UNCHANGED << program, scopes, current, top >>

\* Mutant: a new scope is made for the namespace of every class.
EnterNamespaceAnew ==
  /\ call.at = "namespace"
  /\ scopes' = NewScope(current, << ContextOf(call.class).name >>)
  /\ current' = Len(scopes')
  /\ call' = [call EXCEPT !.at = "class"]
  /\ UNCHANGED << program, m_ClassesIncludedOrImported, m_NamespacesToUse, top >>

\* The scope of the namespace is entered, or made when its name is not that of a
\* namespace yet.
EnterNamespace ==
  /\ call.at = "namespace"
  /\ LET name == << ContextOf(call.class).name >>
         h    == {n \in Clookup(name)[current] : n.type = "namespace"}
     IN  \/ \E n \in h : current' = n.symtab /\ UNCHANGED scopes
         \/ /\ h = {}
            /\ scopes' = NewScope(current, name)
            /\ current' = Len(scopes')
  /\ call' = [call EXCEPT !.at = "class"]
  /\ UNCHANGED << program, m_ClassesIncludedOrImported, m_NamespacesToUse, top >>

\* Mutant: the class is added before its scope is left.
CreateSwigClassInside ==
  /\ call.at = "class"
  /\ LET c   == call.class
         sym == Len(scopes) + 1
     IN  /\ scopes' = [NewScope(current, << TypedefName(c) >>) EXCEPT ![sym] =
                         SymbolAdd(@, << ActualName(c) >>, << TypedefName(c) >>,
                                   ClassNode(c, sym))]
         /\ current' = sym
         /\ call' = [ at |-> "methods", class |-> c, priorScope |-> call.priorScope,
                     symtab |-> sym, methods |-> Positions(c) ]
  /\ UNCHANGED << program, m_ClassesIncludedOrImported, m_NamespacesToUse, top >>

\* CreateSwigClass up to the first method: the scope of the class is made and left,
\* the class is added to the scope around it, and its scope is entered again.
CreateSwigClass ==
  /\ call.at = "class"
  /\ LET c   == call.class
         sym == Len(scopes) + 1
     IN  /\ scopes' = [NewScope(current, << TypedefName(c) >>) EXCEPT ![current] =
                         SymbolAdd(@, << ActualName(c) >>, << TypedefName(c) >>,
                                   ClassNode(c, sym))]
         /\ current' = sym
         /\ call' = [ at |-> "methods", class |-> c, priorScope |-> call.priorScope,
                     symtab |-> sym, methods |-> Positions(c) ]
  /\ UNCHANGED << program, m_ClassesIncludedOrImported, m_NamespacesToUse, top >>

\* CreateSwigMethod of the method at position i, which is the next one.
CreateSwigMethod(i) ==
  /\ call.at = "methods"
  /\ i \in call.methods
  /\ \A j \in call.methods \ {i} : Before(call.class, i, j)
  /\ LET c == call.class
         m == program.methods[c][i]
     IN  scopes' = IF Skipped(m) THEN scopes
                   ELSE [scopes EXCEPT ![current] =
                           SymbolAdd(@, CName(c, m), SymbolName(c, m), MethodNode(c, i))]
  /\ call' = [call EXCEPT !.methods = @ \ {i}]
  /\ UNCHANGED << program, current, m_ClassesIncludedOrImported, m_NamespacesToUse, top >>

\* Mutant: the scope of the class is not left.
LeaveClassStays ==
  /\ call.at = "methods"
  /\ call.methods = {}
  /\ call' = [call EXCEPT !.at = "leave"]
  /\ UNCHANGED << program, scopes, current, m_ClassesIncludedOrImported,
                  m_NamespacesToUse, top >>

\* The end of CreateSwigClass: Swig_symbol_popscope.
LeaveClass ==
  /\ call.at = "methods"
  /\ call.methods = {}
  /\ current' = scopes[current].parent
  /\ call' = [call EXCEPT !.at = "leave"]
  /\ UNCHANGED << program, scopes, m_ClassesIncludedOrImported, m_NamespacesToUse, top >>

\* Mutant: the scope is popped for a class outside of every namespace as well.
LeaveNamespaceAlways ==
  /\ call.at = "leave"
  /\ current' = scopes[current].parent
  /\ top' = Append(top, [ class |-> call.class, symtab |-> call.symtab,
                         within |-> IF Namespaced(call.class) THEN current ELSE 0 ])
  /\ call' = NoCall
  /\ UNCHANGED << program, scopes, m_ClassesIncludedOrImported, m_NamespacesToUse >>

\* The end of CreateSwigClassInNamespace: the current scope is popped into the node
\* of the namespace, the saved one is set, the namespace is added there, and the
\* node of the class goes to the tree.
LeaveNamespace ==
  /\ call.at = "leave"
  /\ LET c    == call.class
         name == << ContextOf(c).name >>
     IN  \/ /\ Namespaced(c)
            /\ current' = call.priorScope
            /\ scopes' = [scopes EXCEPT ![call.priorScope] =
                            SymbolAdd(@, name, name, NamespaceNode(c, current))]
            /\ top' = Append(top, [class |-> c, symtab |-> call.symtab, within |-> current])
         \/ /\ ~ Namespaced(c)
            /\ top' = Append(top, [class |-> c, symtab |-> call.symtab, within |-> 0])
            /\ UNCHANGED << scopes, current >>
  /\ call' = NoCall
  /\ UNCHANGED << program, m_ClassesIncludedOrImported, m_NamespacesToUse >>

Done ==
  /\ call = NoCall
  /\ m_ClassesIncludedOrImported = Class
  /\ UNCHANGED vars

Next ==
  \/ \E c \in Class : CreateSwigClassInNamespace(c)
  \/ EnterNamespace
  \/ CreateSwigClass
  \/ \E i \in call.methods : CreateSwigMethod(i)
  \/ LeaveClass
  \/ LeaveNamespace
  \/ Done

Spec == Init /\ [][Next]_vars

-----------------------------------------------------------------------------
(* Properties. *)

Node == [ type : {"class", "namespace", "constructor", "destructor", "converter", "method"},
          class : Class, item : Nat, symtab : Nat ]

\* Every variable has its type; in particular SWIG's assertion that a popped scope
\* has a parent holds.
TypeOK ==
  /\ program \in Program
  /\ \A s \in 1 .. Len(scopes) :
       /\ scopes[s].parent < s
       /\ \A k \in DOMAIN scopes[s].csymtab : scopes[s].csymtab[k] \in Node
       /\ \A k \in DOMAIN scopes[s].symtab : scopes[s].symtab[k] \in Seq(Node)
  /\ current \in 1 .. Len(scopes)
  /\ m_ClassesIncludedOrImported \subseteq Class
  /\ m_NamespacesToUse \subseteq Name
  /\ top \in Seq([class : Class, symtab : 1 .. Len(scopes), within : 0 .. Len(scopes)])
  /\ call = NoCall \/ call.at \in {"namespace", "class", "methods", "leave"}

\* The scope of a class is in the scope that its namespace node carries, and that
\* one is a scope of the name of the namespace in the global scope; a class that is
\* in no namespace has its scope in the global scope.
ClassUnderItsNamespace ==
  \A i \in 1 .. Len(top) :
    LET c == top[i].class
    IN  IF Namespaced(c)
        THEN /\ scopes[top[i].symtab].parent = top[i].within
             /\ scopes[top[i].within].parent = GlobalScope
             /\ scopes[top[i].within].name = << ContextOf(c).name >>
        ELSE scopes[top[i].symtab].parent = GlobalScope

\* A class whose C name was taken for a namespace before the namespace was seen.
Hidden(n) == \E c \in Class : ~ Namespaced(c) /\ ActualName(c) = n

\* The classes of a namespace share one scope, however many other classes are
\* handed over between them: otherwise a class would not be found by the later
\* ones that derive from it.
NamespaceHasOneScope ==
  \A i, j \in 1 .. Len(top) :
    LET c == top[i].class
        d == top[j].class
    IN  Namespaced(c) /\ Namespaced(d) /\ ContextOf(c) = ContextOf(d)
          /\ ~ Hidden(ContextOf(c).name)
        => top[i].within = top[j].within

\* The methods handled before the one at i that have its symbol.
Rivals(c, i) ==
  LET m(j) == program.methods[c][j]
  IN  {j \in Positions(c) : /\ Before(c, j, i)
                            /\ ~ Skipped(m(j))
                            /\ SymbolName(c, m(j)) = SymbolName(c, m(i))}

\* The method at i is one of its class in SWIG's tables: its symbol belongs to a
\* method of its kind, and no method of this kind had its declarator before.
Entered(c, i) ==
  LET m(j) == program.methods[c][j]
  IN  /\ ~ Skipped(m(i))
      /\ \A j \in Rivals(c, i) :
           /\ Rivals(c, j) = {} => m(j).fid = m(i).fid
           /\ m(j).fid = m(i).fid => m(j).decl # m(i).decl

\* A method of a class is only ever entered in the scope of the class, and what is
\* there in the end depends on this class alone: a method is lost only to one that
\* was handled before it and has its symbol, whatever other classes are handed over.
MethodsInTheirClass ==
  /\ \A s \in 1 .. Len(scopes) : \A k \in DOMAIN scopes[s].symtab :
       \A i \in 1 .. Len(scopes[s].symtab[k]) :
         LET n == scopes[s].symtab[k][i]
         IN  n.type \notin {"class", "namespace"} =>
               \/ \E t \in 1 .. Len(top) : top[t].class = n.class /\ top[t].symtab = s
               \/ call # NoCall /\ call.class = n.class /\ call.symtab = s
  /\ \A t \in 1 .. Len(top) : \A i \in Positions(top[t].class) :
       LET c       == top[t].class
           symbols == scopes[top[t].symtab].symtab
       IN  Entered(c, i) <=>
             \E k \in DOMAIN symbols : MethodNode(c, i) \in Range(symbols[k])

\* A class can be found by its typedef name in the scope around it.
Found(t) ==
  LET s == scopes[scopes[t.symtab].parent]
      k == << TypedefName(t.class) >>
  IN  k \in DOMAIN s.symtab /\ s.symtab[k] = << ClassNode(t.class, t.symtab) >>

\* The names of the namespaces and the typedef names say which class is meant.
NamesDistinct ==
  \A c, d \in Class :
    /\ Namespaced(c) => TypedefName(d) # ContextOf(c).name
    /\ c # d /\ TypedefName(c) = TypedefName(d)
       => Namespaced(c) /\ Namespaced(d) /\ ContextOf(c).name # ContextOf(d).name

\* No class is lost from the symbol tables: with names that say which class is meant,
\* every class that was handed over is found, in whatever order they come.
ClassesKept == NamesDistinct => \A i \in 1 .. Len(top) : Found(top[i])

-----------------------------------------------------------------------------
(* The inductive invariant behind the properties. *)

\* s is the scope of class c, which was handed over or is under way.
Owns(c, s) ==
  \/ \E i \in 1 .. Len(top) : top[i].class = c /\ top[i].symtab = s
  \/ call.at \in {"methods", "leave"} /\ call.class = c /\ call.symtab = s

ClassScope(s) == \E c \in Class : Owns(c, s)

\* s is a scope that class c can be entered in: the global one, or one made for the
\* namespace of c.
Belongs(c, s) ==
  /\ s \in 1 .. Len(scopes)
  /\ ~ ClassScope(s)
  /\ IF Namespaced(c)
     THEN scopes[s].parent = GlobalScope /\ scopes[s].name = << ContextOf(c).name >>
     ELSE s = GlobalScope

IsScope(x) ==
  /\ x = [parent |-> x.parent, name |-> x.name, csymtab |-> x.csymtab, symtab |-> x.symtab]
  /\ x.parent \in Nat
  /\ \A k \in DOMAIN x.csymtab : x.csymtab[k] \in Node
  /\ \A k \in DOMAIN x.symtab : x.symtab[k] \in Seq(Node) /\ x.symtab[k] # << >>

\* The scopes are a tree below the global one.
ScopeTree ==
  /\ Len(scopes) \in Nat \ {0}
  /\ scopes = [s \in 1 .. Len(scopes) |-> scopes[s]]
  /\ \A s \in 1 .. Len(scopes) : IsScope(scopes[s])
  /\ scopes[GlobalScope].parent = 0
  /\ \A s \in 2 .. Len(scopes) : scopes[s].parent \in 1 .. s - 1

CallTyped ==
  call = NoCall \/
    /\ call = [at |-> call.at, class |-> call.class, priorScope |-> call.priorScope,
               symtab |-> call.symtab, methods |-> call.methods]
    /\ call.at \in {"namespace", "class", "methods", "leave"}
    /\ call.class \in m_ClassesIncludedOrImported
    /\ \A i \in 1 .. Len(top) : top[i].class # call.class
    /\ call.priorScope = GlobalScope
    /\ call.symtab \in Nat
    /\ call.methods \subseteq Positions(call.class)

\* Where each step of a call finds the current scope: between two classes it is the
\* global one again.
CurrentScope ==
  /\ call = NoCall => current = GlobalScope
  /\ call.at \in {"namespace", "class"} => call.symtab = 0
  /\ call.at = "namespace" => Namespaced(call.class) /\ current = GlobalScope
  /\ call.at = "class" => Belongs(call.class, current)
  /\ call.at = "methods" =>
       /\ current = call.symtab
       /\ call.symtab = Len(scopes)
       /\ call.symtab > 1
       /\ \A i \in 1 .. Len(top) : top[i].symtab # call.symtab
       /\ Belongs(call.class, scopes[call.symtab].parent)
  /\ call.at = "leave" =>
       /\ call.symtab \in 2 .. Len(scopes)
       /\ scopes[call.symtab].parent = current
       /\ call.methods = {}
       /\ Belongs(call.class, current)

TopScope(t) ==
  /\ t.class \in m_ClassesIncludedOrImported
  /\ t.symtab \in 2 .. Len(scopes)
  /\ Belongs(t.class, scopes[t.symtab].parent)
  /\ t.within = IF Namespaced(t.class) THEN scopes[t.symtab].parent ELSE 0

TopScopes ==
  /\ top \in Seq([class : Class, symtab : Nat, within : Nat])
  /\ \A i \in 1 .. Len(top) : TopScope(top[i])

\* A C name of a namespace is only found in the global scope, and leads to a scope
\* of the namespace.
NamespaceNodes ==
  \A s \in 1 .. Len(scopes) : \A k \in DOMAIN scopes[s].csymtab :
    LET n == scopes[s].csymtab[k]
    IN  n.type = "namespace" =>
          /\ s = GlobalScope
          /\ Namespaced(n.class)
          /\ k = << ContextOf(n.class).name >>
          /\ Belongs(n.class, n.symtab)

\* The C names in the global scope are those of namespaces, or hide them.
GlobalNames ==
  \A k \in DOMAIN scopes[GlobalScope].csymtab :
    scopes[GlobalScope].csymtab[k].type # "namespace" => \E n \in Name : k = << n >> /\ Hidden(n)

\* The C name of the namespace of c leads to s.
LeadsTo(c, s) ==
  LET names == scopes[GlobalScope].csymtab
      k     == << ContextOf(c).name >>
  IN  k \in DOMAIN names => names[k].symtab = s

NamespaceShared ==
  /\ \A i \in 1 .. Len(top) :
       LET c == top[i].class
       IN  Namespaced(c) /\ ~ Hidden(ContextOf(c).name) =>
             /\ << ContextOf(c).name >> \in DOMAIN scopes[GlobalScope].csymtab
             /\ LeadsTo(c, top[i].within)
  /\ call # NoCall /\ Namespaced(call.class) /\ ~ Hidden(ContextOf(call.class).name) =>
       /\ call.at \in {"class", "leave"} => LeadsTo(call.class, current)
       /\ call.at = "methods" => LeadsTo(call.class, scopes[call.symtab].parent)

\* What a node n says of the scope s and the symbol k that it is under.
Placed(n, s, k) ==
  /\ n.type = "class" =>
       k = << TypedefName(n.class) >> /\ Belongs(n.class, s) /\ Owns(n.class, n.symtab)
  /\ n.type = "namespace" =>
       s = GlobalScope /\ Namespaced(n.class) /\ k = << ContextOf(n.class).name >>
  /\ n.type \notin {"class", "namespace"} => Owns(n.class, s)

NodesPlaced ==
  \A s \in 1 .. Len(scopes) : \A k \in DOMAIN scopes[s].symtab :
    \A i \in 1 .. Len(scopes[s].symtab[k]) : Placed(scopes[s].symtab[k][i], s, k)

ClassesFound ==
  NamesDistinct =>
    \A c \in Class, s \in 1 .. Len(scopes) :
      Owns(c, s) => Found([class |-> c, symtab |-> s])

\* The symbols in the scope of class c after the methods at P were handled.
MethodsIn(c, symbols, P) ==
  LET m(j)      == program.methods[c][j]
      symbol(j) == SymbolName(c, m(j))
  IN  /\ \A k \in DOMAIN symbols :
           /\ \E f \in P : Rivals(c, f) = {} /\ symbols[k][1] = MethodNode(c, f)
           /\ \A i \in 1 .. Len(symbols[k]) : \E j \in P :
                symbols[k][i] = MethodNode(c, j) /\ symbol(j) = k /\ Entered(c, j)
      /\ \A j \in P : ~ Skipped(m(j)) =>
           /\ symbol(j) \in DOMAIN symbols
           /\ m(j).fid = symbols[symbol(j)][1].type =>
                \E i \in 1 .. Len(symbols[symbol(j)]) :
                  DeclOf(symbols[symbol(j)][i]) = m(j).decl
      /\ \A j \in P : Entered(c, j) =>
           \E i \in 1 .. Len(symbols[symbol(j)]) : symbols[symbol(j)][i] = MethodNode(c, j)

MethodsOf(c, s, P) == MethodsIn(c, scopes[s].symtab, P)

MethodsEntered ==
  /\ \A t \in 1 .. Len(top) :
       MethodsOf(top[t].class, top[t].symtab, Positions(top[t].class))
  /\ call.at \in {"methods", "leave"} =>
       /\ MethodsOf(call.class, call.symtab, Positions(call.class) \ call.methods)
       /\ \A i \in Positions(call.class) \ call.methods : \A j \in call.methods :
            Before(call.class, i, j)

IInv ==
  /\ program \in Program
  /\ m_ClassesIncludedOrImported \subseteq Class
  /\ m_NamespacesToUse \subseteq Name
  /\ current \in 1 .. Len(scopes)
  /\ ScopeTree
  /\ CallTyped
  /\ CurrentScope
  /\ TopScopes
  /\ NamespaceNodes
  /\ GlobalNames
  /\ NamespaceShared
  /\ NodesPlaced
  /\ ClassesFound
  /\ MethodsEntered
=============================================================================
