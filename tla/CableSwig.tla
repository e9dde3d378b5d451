------------------------------ MODULE CableSwig ------------------------------
(***************************************************************************)
(* How CableSwig (Executables/CableSwig.cxx) decides which classes of a    *)
(* source representation SWIG gets to see, and hands them over:            *)
(* DetermineClassesToWrap, ProcessImportedClasses and                      *)
(* ProcessIncludedClasses, as ProcessSource calls them.                    *)
(*                                                                         *)
(* A class named by a typedef of _cable_::wrappers is included (wrapped);  *)
(* a class that one of these needs is imported when an index file says     *)
(* that it is wrapped in another group, and otherwise included but         *)
(* ignored.  The std::sets are keyed by pointers: they are iterated over   *)
(* in any order.                                                           *)
(***************************************************************************)
EXTENDS Integers, Sequences, SequencesExt

CONSTANTS
  Class,      \* the classes of the source representation
  Scope,      \* names of the namespaces and classes around them
  Global,     \* the global namespace "::"
  NoScope,    \* no context
  Sources     \* the source representations considered

(***************************************************************************)
(* What CableSwig reads of a source representation: the base classes of a  *)
(* class in order, the classes in the signatures of its methods, the       *)
(* classes that the index files assign to a group, the classes the         *)
(* typedefs of _cable_::wrappers name, whether the context of a class is a *)
(* class, and the context of that context.                                 *)
(***************************************************************************)
Source == [ bases    : [Class -> Seq(Class)],
            uses     : [Class -> Seq(Class)],
            grouped  : SUBSET Class,
            wrappers : Seq(Class),
            inClass  : SUBSET Class,
            outer    : [Class -> Scope \cup {Global, NoScope}] ]

\* No class is a base of itself, directly or not: every set of classes has one
\* that has no base in it.
Acyclic(s) ==
  \A S \in SUBSET Class : S # {} => \E c \in S : Range(s.bases[c]) \cap S = {}

\* C++ allows neither a cycle of bases nor a class twice among the direct bases.
ASSUME CableSwigAssumption ==
  /\ {Global, NoScope} \cap Scope = {}
  /\ Global # NoScope
  /\ \A s \in Sources : /\ s \in Source
                        /\ Acyclic(s)
                        /\ \A c \in Class : IsInjective(s.bases[c])

\* Class::GetAllBaseClasses: the direct bases, then those of each base in turn.
GetAllBaseClasses(s) ==
  LET all[c \in Class] ==
        s.bases[c] \o FlattenSeq([i \in 1 .. Len(s.bases[c]) |-> all[s.bases[c][i]]])
  IN  all

\* The first loop of FindWrappedBases: the direct bases that FindClassGroup finds.
DirectWrapped(s, c) ==
  FlattenSeq([i \in 1 .. Len(s.bases[c]) |->
                IF s.bases[c][i] \in s.grouped THEN << s.bases[c][i] >> ELSE << >>])

\* Mutant: the search goes on above a base in a group.
FindWrappedBasesAll(s) ==
  LET found[c \in Class] ==
        DirectWrapped(s, c)
          \o FlattenSeq([i \in 1 .. Len(s.bases[c]) |-> found[s.bases[c][i]]])
  IN  found

\* FindWrappedBases: the direct bases in a group or, if there are none, the
\* wrapped bases of each base.
FindWrappedBases(s) ==
  LET found[c \in Class] ==
        IF DirectWrapped(s, c) # << >> THEN DirectWrapped(s, c)
        ELSE FlattenSeq([i \in 1 .. Len(s.bases[c]) |-> found[s.bases[c][i]]])
  IN  found

VARIABLES
  source,                       \* the source representation
  m_TypedefLookup,              \* first typedef of each class, 0 for none
  m_ClassesToBeIncluded,
  m_ClassesToBeImported,
  m_ClassesIncludedOrImported,  \* classes already handed over, or skipped
  m_NamespacesToUse,
  top,                          \* the nodes appended to the SWIG tree, in order
  stack,                        \* active calls of AddClassToBeImported, innermost first
  next,                         \* the next typedef of _cable_::wrappers
  remaining,                    \* classes the current loop has yet to visit
  work,                         \* parents, then the class, of the current iteration
  phase                         \* "determine", "imported", "included" or "done"

chosen == << m_TypedefLookup, m_ClassesToBeIncluded, m_ClassesToBeImported >>
emitted == << m_ClassesIncludedOrImported, m_NamespacesToUse, top >>
vars == << source, chosen, emitted, stack, next, remaining, work, phase >>

-----------------------------------------------------------------------------
(* DetermineClassesToWrap. *)

Init ==
  /\ source \in Sources
  /\ m_TypedefLookup = [c \in Class |-> 0]
  /\ m_ClassesToBeIncluded = {}
  /\ m_ClassesToBeImported = {}
  /\ m_ClassesIncludedOrImported = {}
  /\ m_NamespacesToUse = {}
  /\ top = << >>
  /\ stack = << >>
  /\ next = 1
  /\ remaining = {}
  /\ work = << >>
  /\ phase = "determine"

\* One turn of the loop over the typedefs, up to the call of AddClassToBeImported.
WrapTypedef ==
  /\ phase = "determine"
  /\ stack = << >>
  /\ next <= Len(source.wrappers)
  /\ LET c == source.wrappers[next]
     IN  /\ m_TypedefLookup' = IF m_TypedefLookup[c] = 0
                               THEN [m_TypedefLookup EXCEPT ![c] = next]
                               ELSE m_TypedefLookup
         /\ m_ClassesToBeIncluded' = m_ClassesToBeIncluded \cup {c}
         /\ stack' = << [at |-> "class", list |-> << c >>] >>
  /\ next' = next + 1
  /\ UNCHANGED << source, m_ClassesToBeImported, emitted, remaining, work, phase >>

\* AddClassToBeImported(c) is entered.
AddClassToBeImported ==
  /\ stack # << >>
  /\ Head(stack).at = "class"
  /\ LET c == Head(stack).list[1]
     IN  \/ /\ c \in m_ClassesToBeImported
            /\ stack' = Tail(stack)
            /\ UNCHANGED m_ClassesToBeImported
         \/ /\ c \notin m_ClassesToBeImported
            /\ m_ClassesToBeImported' = m_ClassesToBeImported \cup {c}
            /\ stack' = << [at |-> "parents", list |-> GetAllBaseClasses(source)[c]],
                           [at |-> "uses", list |-> source.uses[c]] >> \o Tail(stack)
  /\ UNCHANGED << source, m_TypedefLookup, m_ClassesToBeIncluded, emitted, next,
                  remaining, work, phase >>

\* Mutant: what the methods of a parent use is not added.
AddParentWithoutUses ==
  /\ stack # << >>
  /\ Head(stack).at = "parents"
  /\ LET list == Head(stack).list
         new  == list # << >> /\ list[1] \notin m_ClassesToBeImported
     IN  \/ /\ ~ new
            /\ stack' = Tail(stack)
            /\ UNCHANGED m_ClassesToBeImported
         \/ /\ new
            /\ m_ClassesToBeImported' = m_ClassesToBeImported \cup {list[1]}
            /\ stack' = << [at |-> "parents", list |-> Tail(list)] >> \o Tail(stack)
  /\ UNCHANGED << source, m_TypedefLookup, m_ClassesToBeIncluded, emitted, next,
                  remaining, work, phase >>

\* Its loop over all the parents: a new one is added with what its methods use,
\* and the loop stops at the first one that is there already.
AddParent ==
  /\ stack # << >>
  /\ Head(stack).at = "parents"
  /\ LET list == Head(stack).list
         new  == list # << >> /\ list[1] \notin m_ClassesToBeImported
     IN  \/ /\ ~ new
            /\ stack' = Tail(stack)
            /\ UNCHANGED m_ClassesToBeImported
         \/ /\ new
            /\ m_ClassesToBeImported' = m_ClassesToBeImported \cup {list[1]}
            /\ stack' = << [at |-> "uses", list |-> source.uses[list[1]]],
                           [at |-> "parents", list |-> Tail(list)] >> \o Tail(stack)
  /\ UNCHANGED << source, m_TypedefLookup, m_ClassesToBeIncluded, emitted, next,
                  remaining, work, phase >>

\* Mutant: the iterator is not advanced.
AddImportReturnTypesAndArgumentsStuck ==
  /\ stack # << >>
  /\ Head(stack).at = "uses"
  /\ LET list == Head(stack).list
     IN  stack' = IF list = << >> THEN Tail(stack)
                  ELSE << [at |-> "class", list |-> << list[1] >>] >> \o stack
  /\ UNCHANGED << source, chosen, emitted, next, remaining, work, phase >>

\* AddImportReturnTypesAndArguments, with AddImportClass.
AddImportReturnTypesAndArguments ==
  /\ stack # << >>
  /\ Head(stack).at = "uses"
  /\ LET list == Head(stack).list
     IN  stack' = IF list = << >> THEN Tail(stack)
                  ELSE << [at |-> "class", list |-> << list[1] >>],
                          [at |-> "uses", list |-> Tail(list)] >> \o Tail(stack)
  /\ UNCHANGED << source, chosen, emitted, next, remaining, work, phase >>

\* The included classes are removed from the imported ones, and
\* ProcessImportedClasses begins.
RemoveIncluded ==
  /\ phase = "determine"
  /\ stack = << >>
  /\ next > Len(source.wrappers)
  /\ m_ClassesToBeImported' = m_ClassesToBeImported \ m_ClassesToBeIncluded
  /\ remaining' = m_ClassesToBeImported'
  /\ phase' = "imported"
  /\ UNCHANGED << source, m_TypedefLookup, m_ClassesToBeIncluded, emitted, stack,
                  next, work >>

-----------------------------------------------------------------------------
(* ProcessImportedClasses and ProcessIncludedClasses. *)

\* Mutant: the parents are visited in the order in which they are found.
ProcessForwards(c) ==
  /\ phase \in {"imported", "included"}
  /\ work = << >>
  /\ c \in remaining
  /\ remaining' = remaining \ {c}
  /\ work' = Append(GetAllBaseClasses(source)[c], c)
  /\ UNCHANGED << source, chosen, emitted, stack, next, phase >>

\* The next class of the set: its parents in reverse order, then the class.
Process(c) ==
  /\ phase \in {"imported", "included"}
  /\ work = << >>
  /\ c \in remaining
  /\ remaining' = remaining \ {c}
  /\ work' = Append(Reverse(GetAllBaseClasses(source)[c]), c)
  /\ UNCHANGED << source, chosen, emitted, stack, next, phase >>

\* Mutant: the group of a class is looked up before its typedef.
KindGroupFirst(c) ==
  IF c \in source.grouped THEN "import"
  ELSE IF c \in m_ClassesToBeIncluded THEN "include" ELSE "ignore"

\* How both functions hand over a class, a parent or the one they visit.
Kind(c) ==
  IF c \in m_ClassesToBeIncluded THEN "include"
  ELSE IF c \in source.grouped THEN "import" ELSE "ignore"

\* A class that CreateSwigClassInNamespace leaves out: one in a class that is not
\* itself in the global namespace.
LeftOut(s, c) == s.outer[c] \notin {Global, NoScope} /\ c \in s.inClass

\* Mutant: the context of a namespace is used without a test for "::".
CreateSwigClassInNamespaceGlobalUsed(c) ==
  IF c \in m_ClassesIncludedOrImported \/ (Kind(c) = "include" /\ m_TypedefLookup[c] = 0)
  THEN UNCHANGED emitted
  ELSE /\ m_ClassesIncludedOrImported' = m_ClassesIncludedOrImported \cup {c}
       /\ m_NamespacesToUse' =
            IF source.outer[c] # NoScope /\ c \notin source.inClass
            THEN m_NamespacesToUse \cup {source.outer[c]} ELSE m_NamespacesToUse
       /\ top' = IF LeftOut(source, c) THEN top
                 ELSE Append(top, [ class |-> c,
                                    kind |-> Kind(c),
                                    baselist |-> FindWrappedBases(source)[c] ])

\* Mutant: a class that was handed over is not remembered.
CreateSwigClassInNamespaceForgets(c) ==
  IF c \in m_ClassesIncludedOrImported \/ (Kind(c) = "include" /\ m_TypedefLookup[c] = 0)
  THEN UNCHANGED emitted
  ELSE /\ m_NamespacesToUse' =
            IF source.outer[c] \notin {Global, NoScope} /\ c \notin source.inClass
            THEN m_NamespacesToUse \cup {source.outer[c]} ELSE m_NamespacesToUse
       /\ top' = IF LeftOut(source, c) THEN top
                 ELSE Append(top, [ class |-> c,
                                    kind |-> Kind(c),
                                    baselist |-> FindWrappedBases(source)[c] ])
       /\ UNCHANGED m_ClassesIncludedOrImported

\* CreateSwigClassInNamespace.  An included class without a typedef is an error
\* that ends the iteration for this class.
CreateSwigClassInNamespace(c) ==
  IF c \in m_ClassesIncludedOrImported \/ (Kind(c) = "include" /\ m_TypedefLookup[c] = 0)
  THEN UNCHANGED emitted
  ELSE /\ m_ClassesIncludedOrImported' = m_ClassesIncludedOrImported \cup {c}
       /\ m_NamespacesToUse' =
            IF source.outer[c] \notin {Global, NoScope} /\ c \notin source.inClass
            THEN m_NamespacesToUse \cup {source.outer[c]} ELSE m_NamespacesToUse
       /\ top' = IF LeftOut(source, c) THEN top
                 ELSE Append(top, [ class |-> c,
                                    kind |-> Kind(c),
                                    baselist |-> FindWrappedBases(source)[c] ])

HandOver ==
  /\ work # << >>
  /\ CreateSwigClassInNamespace(work[1])
  /\ work' = Tail(work)
  /\ UNCHANGED << source, chosen, stack, next, remaining, phase >>

EndImported ==
  /\ phase = "imported"
  /\ work = << >>
  /\ remaining = {}
  /\ remaining' = m_ClassesToBeIncluded
  /\ phase' = "included"
  /\ UNCHANGED << source, chosen, emitted, stack, next, work >>

EndIncluded ==
  /\ phase = "included"
  /\ work = << >>
  /\ remaining = {}
  /\ phase' = "done"
  /\ UNCHANGED << source, chosen, emitted, stack, next, remaining, work >>

Done == phase = "done" /\ UNCHANGED vars

Next ==
  \/ WrapTypedef
  \/ AddClassToBeImported
  \/ AddParent
  \/ AddImportReturnTypesAndArguments
  \/ RemoveIncluded
  \/ \E c \in Class : Process(c)
  \/ HandOver
  \/ EndImported
  \/ EndIncluded
  \/ Done

Spec == Init /\ [][Next]_vars

\* ProcessSource runs in one thread until it returns.
FairSpec == Spec /\ WF_vars(Next)

-----------------------------------------------------------------------------
(* Properties. *)

Handed == {top[i].class : i \in 1 .. Len(top)}

\* Every variable has its type.
TypeOK ==
  /\ source \in Source
  /\ m_TypedefLookup \in [Class -> Nat]
  /\ m_ClassesToBeIncluded \subseteq Class
  /\ m_ClassesToBeImported \subseteq Class
  /\ m_ClassesIncludedOrImported \subseteq Class
  /\ m_NamespacesToUse \subseteq Scope
  /\ top \in Seq([class : Class, kind : {"include", "import", "ignore"},
                   baselist : Seq(Class)])
  /\ stack \in Seq([at : {"class", "parents", "uses"}, list : Seq(Class)])
  /\ next \in Nat \ {0}
  /\ remaining \subseteq Class
  /\ work \in Seq(Class)
  /\ phase \in {"determine", "imported", "included", "done"}

\* SWIG sees every base class of a class before the class, whichever set iteration
\* reaches the class first and whatever the shape of the hierarchy; only the classes
\* that are left out are missing.
BasesFirst ==
  \A i \in 1 .. Len(top) :
    LET bases == GetAllBaseClasses(source)[top[i].class]
    IN  \A j \in 1 .. Len(bases) :
          LeftOut(source, bases[j]) \/ \E k \in 1 .. i - 1 : top[k].class = bases[j]

\* The classes between c and its wrapped bases: c, and the bases of a class in the gap
\* that has no base in a group.
Gap(s, c) ==
  LET IsClosed(S) == \A x \in S : \/ Range(s.bases[x]) \cap s.grouped # {}
                                \/ Range(s.bases[x]) \subseteq S
  IN  {x \in Class : \A S \in SUBSET Class : c \in S /\ IsClosed(S) => x \in S}

\* The base list of a class names the bases in a group that its gap ends at, all of
\* them and no other, and one of them twice only where two classes in the gap have
\* a base in common.
BaseListExact ==
  phase = "done" =>
    \A i \in 1 .. Len(top) :
      LET c    == top[i].class
          gap  == Gap(source, c)
          list == top[i].baselist
      IN  /\ Range(list) = source.grouped \cap UNION {Range(source.bases[x]) : x \in gap}
          /\ \/ IsInjective(list)
             \/ \E x, y \in gap :
                  x # y /\ Range(source.bases[x]) \cap Range(source.bases[y]) # {}

\* No class is handed over twice, although several classes share a parent.
HandedOnce ==
  \A i, j \in 1 .. Len(top) : top[i].class = top[j].class => i = j

\* In the end a class is wrapped exactly when a typedef of _cable_::wrappers names
\* it, also when it was first met as a parent or a return type of another class;
\* and each of these classes has been handed over.
WrappedExactly ==
  phase = "done" =>
    LET named == {source.wrappers[i] : i \in 1 .. Len(source.wrappers)}
    IN  /\ \A i \in 1 .. Len(top) :
             top[i].kind = "include" <=> top[i].class \in named
        /\ \A c \in named : LeftOut(source, c) \/ c \in Handed

SingleInheritance == \A c \in Class : Len(source.bases[c]) <= 1

\* S holds the named classes, their parents and what their methods use.
Closed(s, S) ==
  /\ \A i \in 1 .. Len(s.wrappers) : s.wrappers[i] \in S
  /\ \A c \in S :
       /\ \A i \in 1 .. Len(s.bases[c]) : s.bases[c][i] \in S
       /\ \A i \in 1 .. Len(s.uses[c]) : s.uses[c][i] \in S

\* The classes processed are all needed, and with single inheritance no needed one is
\* missing: the order of typedefs and sets, cycles of uses and the early end of the
\* loop over the parents lose nothing then.
ProcessedExactly ==
  phase = "done" =>
    /\ \A S \in SUBSET Class : Closed(source, S) => m_ClassesIncludedOrImported \subseteq S
    /\ SingleInheritance => Closed(source, m_ClassesIncludedOrImported)

\* AddClassToBeImported, step 2 of its comment: all the parents of an imported
\* class are imported.
AllParentsImported ==
  phase = "imported" =>
    \A c \in m_ClassesToBeImported :
      LET bases == GetAllBaseClasses(source)[c]
      IN  \A i \in 1 .. Len(bases) :
            bases[i] \in m_ClassesToBeImported \cup m_ClassesToBeIncluded

\* ProcessSource returns although classes may use each other in a cycle.
ProcessTerminates == <>(phase = "done")

-----------------------------------------------------------------------------
(* The inductive invariant behind the properties. *)

\* The classes named by the typedefs already met.
NamedSoFar == {source.wrappers[i] : i \in 1 .. next - 1}

\* The typedefs of a class to be included are known; nothing is handed over before
\* all typedefs were met.
Determined ==
  /\ next <= Len(source.wrappers) + 1
  /\ m_ClassesToBeIncluded = NamedSoFar
  /\ \A c \in m_ClassesToBeIncluded : m_TypedefLookup[c] # 0
  /\ \A f \in Range(stack) : f.at = "class" => Len(f.list) = 1
  /\ phase = "determine" =>
       top = << >> /\ m_ClassesIncludedOrImported = {} /\ work = << >> /\ remaining = {}
  /\ phase # "determine" => stack = << >> /\ next = Len(source.wrappers) + 1
  /\ phase = "done" => work = << >> /\ remaining = {}

\* A class that is handed over is remembered, and one that is remembered was handed
\* over or left out.
Remembered ==
  /\ \A i \in 1 .. Len(top) : top[i].class \in m_ClassesIncludedOrImported
  /\ \A c \in m_ClassesIncludedOrImported : LeftOut(source, c) \/ c \in Handed

\* Where a class stands in the list of work, its bases stand before it.
WorkOrdered ==
  /\ \A c \in m_ClassesIncludedOrImported :
       Range(GetAllBaseClasses(source)[c]) \subseteq m_ClassesIncludedOrImported
  /\ \A j \in 1 .. Len(work) : \A b \in Range(GetAllBaseClasses(source)[work[j]]) :
       b \in m_ClassesIncludedOrImported \/ \E k \in 1 .. j - 1 : work[k] = b

\* What SWIG was told of a class is what the typedefs and the groups say.
TopExact ==
  \A i \in 1 .. Len(top) :
    /\ top[i].kind = Kind(top[i].class)
    /\ top[i].baselist = FindWrappedBases(source)[top[i].class]

\* No chosen class is forgotten by the loops over the two sets.
NoneForgotten ==
  LET Covered(S) == \A c \in S : c \in m_ClassesIncludedOrImported \cup remaining \cup Range(work)
  IN  /\ phase = "imported" => Covered(m_ClassesToBeImported)
      /\ phase = "included" => /\ m_ClassesToBeImported \subseteq m_ClassesIncludedOrImported
                               /\ Covered(m_ClassesToBeIncluded)
      /\ phase = "done" => m_ClassesToBeImported \cup m_ClassesToBeIncluded
                             \subseteq m_ClassesIncludedOrImported

\* Everything that was chosen or is to be visited is in every closed set.
OnlyNeeded ==
  \A S \in SUBSET Class : Closed(source, S) =>
    /\ m_ClassesToBeIncluded \cup m_ClassesToBeImported \subseteq S
    /\ m_ClassesIncludedOrImported \cup remaining \cup Range(work) \subseteq S
    /\ \A f \in Range(stack) : Range(f.list) \subseteq S

\* With single inheritance the loop over the parents stops where the rest is
\* imported already, or is being imported by a call that is still active.
Pends(f, at, c) ==
  /\ f.at = at
  /\ IF at = "parents" THEN f.list # << >> /\ f.list[1] = c ELSE c \in Range(f.list)

Pending(at, c) == \E f \in Range(stack) : Pends(f, at, c)

Importing ==
  phase = "determine" /\ SingleInheritance =>
    /\ \A f \in Range(stack) : f.at = "parents" =>
         \E c \in Class : f.list = GetAllBaseClasses(source)[c]
    /\ \A c \in m_ClassesToBeImported :
         /\ \A b \in Range(source.bases[c]) : b \in m_ClassesToBeImported \/ Pending("parents", b)
         /\ \A u \in Range(source.uses[c]) :
              u \in m_ClassesToBeImported \/ Pending("uses", u) \/ Pending("class", u)
    /\ \A c \in NamedSoFar : c \in m_ClassesToBeImported \/ Pending("class", c)

\* Then the classes chosen are closed, and no other is processed.
ChosenClosed ==
  phase # "determine" /\ SingleInheritance =>
    LET S == m_ClassesToBeImported \cup m_ClassesToBeIncluded
    IN  /\ Closed(source, S)
        /\ m_ClassesIncludedOrImported \cup remaining \cup Range(work) \subseteq S

IInv ==
  /\ TypeOK
  /\ source \in Sources
  /\ Determined
  /\ Remembered
  /\ WorkOrdered
  /\ HandedOnce
  /\ BasesFirst
  /\ TopExact
  /\ NoneForgotten
  /\ OnlyNeeded
  /\ Importing
  /\ ChosenClosed
=============================================================================
