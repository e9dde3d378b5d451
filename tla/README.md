# CableSwig: models and proofs

CableSwig turns C++ declarations into SWIG wrappers. This directory holds TLA+
models of the parts of it that carry logic of their own, the TLC configurations
that check them, and TLAPS proofs about every one of the state machines: each
safety invariant of the passing runs is a theorem. Paths below are relative to
the repository (`src/` in `PROJECT.json`).

## 1. The system

```
 C++ source --gccxml--> XML --expat--> XMLSourceParser --> SourceRepresentation
            (xml.c)                    (events, then         + cxx::TypeSystem
                                        construction)              |
                     .idx files <--- cableidx <-------------------+
                         |                                         |
                     .mdx files --------> CableSwig <--------------+
                                              |                    |
                                         SWIG parse tree     TclGenerator,
                                                             CvTypeWriter
```

Every program is a single thread. What makes the code hard is not scheduling but
*order*: cyclic references followed with queues and flags, sets that are keyed
by pointers and so iterated in an order nobody chose, recursion that constructs
objects on demand, and error flags that one phase sets and another reads.

### Inventory

| Component | State | Operations | What makes it correct |
|---|---|---|---|
| **GCC-XML dump loop** `GCC/gcc/cp/xml.c` (`do_xml_output`, `xml_add_node`, `xml_dump`, the `xml_output_*` functions) | a splay tree of dump nodes (index, complete flag), the queue of nodes, the queue of files, the pass | add a node, make it complete, write one element, the switch to the incomplete nodes, write the files | every id that is referred to is written; nothing is written twice; exactly what the start nodes require is complete; the dump ends |
| **XMLParser / XMLSourceParser, event phase** `Cable/Parsers` | the current element, the nesting count of rejected elements, the error flag, the map from id to element, the files | one start and one end handler per element, `Parse`, `GetSourceRepresentation` | no null dereference whatever the tags; an error if and only if the document breaks the grammar the handlers accept; the map is the document |
| **XMLSourceParser, construction phase** `cableXMLSourceParser.cxx:462-1513` | the source objects and types registered so far, the context of each, the global namespace | one `Setup*` per element, reached from the main loop or by reference from another element | the outcome does not depend on the order; each named object is in its context exactly once; types are what the document says |
| **Cable source objects** `Cable/Parsers/cable{Context,Class,Named,...}` | contexts and their members, base classes, reference counts | add a member, look up a name, walk the base classes | lookup and walk agree with the declarations |
| **cxx type system** `Cable/CxxTypes` | one interning map per kind of type | get or create a type | one object per type; cv-qualifiers are neither lost nor doubled |
| **C++ conversions** `cxxConversions.cxx` | none (pure) | classify a conversion | agrees with the rules of the C++ standard it cites |
| **CableSwig** `Executables/CableSwig.cxx` | the sets of classes to include and to import, the classes handed over, typedef and group lookups, the namespaces to use, the SWIG tree and SWIG's current scope | choose the classes, hand each one over with its parents, create the SWIG nodes, read the index files | SWIG sees bases before derived classes, once each, in the right role, whatever the addresses of the classes |
| **Index files** `cableidx.cxx`, `CableSwig.cxx:1594-1662` | one `.idx` per group, one `.mdx` listing them, the two lookups | write the classes of a group; read the groups of the others | a class is imported exactly when another group wraps it |
| **Driver** `cableSwigMain.cxx` | options, exit code | parse, generate | an error reaches the exit code |
| **CvTypeWriter** `cableCvTypeWriter.cxx` | the types visited and written | depth-first walk over types | a type is written once, after the types it is made of |
| **TclGenerator** `cableTclGenerator.cxx` | groups, packages, wrappers | generate per group | each group initialised after what it depends on |
| **System tools** | the file system | copy if different, make a directory | pure input and output |
| **GCC_XML front end** | configuration strings | find a compiler, exec the patched GCC | string processing and process control |
| **Vendored**: GCC, SWIG, expat, KWSys | | | external |

### Behaviours that are hard

* *Order of discovery* (xml.c): a node can be mentioned first and required
  complete later, or first be met when the incomplete nodes are being written.
* *Order of addresses* (CableSwig.cxx): `std::set<const cable::Class*>` decides
  which class is handed over first, and a class may be met as a parent before
  its own turn comes, in another role.
* *A counter and a pointer for a stack* (cableXMLSourceParser.cxx): rejected
  elements are counted, handled ones are not.
* *Several programs*: cableidx empties an index file and writes it again in
  place while CableSwig may be reading it; both may be killed.
* *Scopes that must be left again*: SWIG has one current scope, and CableSwig
  walks in and out of it for each class.
* *Pointer equality*: `CvQualifiedType` compares addresses, which only works when
  the type system never makes one type twice.
* *Phases of errors*: `ParseStream` succeeds on a truncated document, `Parse`
  does not; a representation is asked for later still.
* *Cycles*: scopes and members, methods that use each other's classes.

`PROJECT.json` lists each of these under "hazards" at its line, with the
properties that catch it going wrong.

## 2. The modules

### XMLSourceParser: the event phase

`m_CurrentElement`, `m_UnknownElementNesting`, `m_SourceParseError`,
`m_ElementMap` and `m_FileMap` are the members of the class; an element is its
name, its id and the names of its nested elements. `open` is expat's own stack:
expat is external and is modelled by what this code relies on, namely that the
handlers are called in the order of the tags of one well-formed tree
(`StartTag`, `EndTag`), that the first syntax error ends the parse
(`SyntaxError`), and that a root element that is missing or not closed is only
reported by the last call of `XML_Parse` (`EndOfInput`).

| Action | Code |
|---|---|
| `BeginParse` | `XMLParser::Parse` up to `ParseStream`, which clears the error state |
| `StartTag` / `StartElement` | `StartElementFunction`, `StartElement` and the `Start_*` handlers |
| `EndTag` / `EndElement` | `EndElementFunction`, `EndElement`, `EndOther` |
| `SyntaxError` | `ParseBuffer` returns false |
| `EndOfInput` | the end of the stream: the handlers' flag, then expat's check |
| `GetSourceRepresentation` | its guard; what it constructs is left to `SourceConstruction` |

The constructor does not set `m_UnknownElementNesting`: `Init` leaves it open.

What the document *means* is kept separately, as history: `legal` says whether
every tag so far is allowed where it stands, judged from the whole stack of open
tags and by what the handlers' error messages ask for (`Allowed`: an `Argument`
or `Ellipsis` belongs in one of the `FunctionStyle` elements), `accepted` that
every tag is allowed or an `Argument` or `Ellipsis` elsewhere that the handlers
take all the same (`Tolerated`, see the findings), and `document` says which
elements have been defined. The handlers never read them. The properties compare
the two: the pointer and the counter decide exactly what the stack decides, no
legal document is refused, and all others are but those with no other fault than a
tolerated tag (`ErrorIffNotAccepted`); the map is the document (`MapIsDocument`),
the end handler always finds the element that its own start handler opened
(`NoNullDereference`), and a representation is only made from all of an accepted
and complete document (`RepresentationOfDocument`).

### GccXmlDump: the dump loop of GCC-XML

A translation unit is a record `tree`: for each node its code and the nodes its
output function refers to. `Output(t, n, c)` is the list of calls of
`xml_print_type_idref` and `xml_add_node` that the output function of node `n`
makes, in order, with the `complete` argument of each; `Expand` is what these
functions call in turn. `calls` is the list still to be made, so a step is one
call: `AddNode` expands, `AddNodeReal` is `xml_add_node_real`, `Dump` takes the
next node of the queue, and `EndComplete`, `Visit`, `EndForeach`,
`EndIncomplete`, `DumpFile` and `Finish` are the rest of `do_xml_output`.
`splay_tree_foreach` visits nodes by address, so `Visit` takes any node.

Properties: `ReferencesResolve` (no dangling id, of an element or of a file),
`WrittenOnce`, `SelectionExact` (the complete nodes are the least set closed
under the requests for completeness) and `DumpTerminates`. `WrittenOnce` and
`SelectionExact` need an assumption: no declaration has an overriding virtual
function as its scope (`LocalContextsPlain`). Without it the code violates its
own assertion; see the findings.

Simplifications: pointer and reference types are one kind, array, offset,
function and method types another; overloads, lists and templates are one kind
("group") whose members are not groups; a pointer to a member function is
identified with the pointer it becomes; qualified types without a qualifier
write nothing. A node that `xml_add_node` refuses (an internally generated
declaration, a class template) has no element, and the code writes the id `_0` where
it is a type or a context (xml.c:873, :943): `ReferencesResolve` is about the ids of
nodes and does not count these. The list of start nodes is given: the lookup of `-fxml-start`
names is not modelled.

### CableSwig: what SWIG gets to see

`source` is the source representation, reduced to what CableSwig reads: the
bases of a class, the classes its methods use, the classes index files assign to
a group, the classes named by typedefs in `_cable_::wrappers`, and the scopes.
The recursion of `AddClassToBeImported` is a stack of frames, one per loop that
is active; `WrapTypedef`, `AddClassToBeImported`, `AddParent` and
`AddImportReturnTypesAndArguments` are its steps. `Process(c)` picks any class
of the set being iterated and lists its parents in reverse, and `HandOver` does
one call of `CreateSwigClassInNamespace`. `top` is the sequence of nodes
appended to the SWIG tree, with the role of each (`include`, `import`,
`ignore`) and its base list. `CableSwigAssumption` is what C++ guarantees: bases
have no cycle, and no class is twice among the direct bases of another.

Properties: `BasesFirst`; `BaseListExact` (`FindWrappedBases` lists the nearest
wrapped bases, each as often as there is a path to it through bases that are not
wrapped: a diamond over them repeats the base); `HandedOnce`; `WrappedExactly`
(a class is wrapped exactly when a typedef names it, in whatever role it was met
first); `ProcessedExactly` (no class is processed without need and, with single
inheritance, none that is needed is missing); `ProcessTerminates`.

### SwigScopes: the classes in SWIG's symbol tables

The same hand-over, seen from SWIG. `scopes` are SWIG's scopes, in the order in
which they are made, each with its parent, its table of C names (`csymtab`) and
its table of symbols (`symtab`); `current` is SWIG's current scope. `call` is
the call of `CreateSwigClassInNamespace` under way.

| Action | Code |
|---|---|
| `CreateSwigClassInNamespace(c)` | up to the saving of the current scope, for any class |
| `EnterNamespace` | the scope of the namespace: found by `Swig_symbol_clookup`, or new |
| `CreateSwigClass` | the scope of the class, made and left; the class is added; the scope entered |
| `CreateSwigMethod` | the next method, in the order private, protected, public |
| `LeaveClass` | `Swig_symbol_popscope` at the end of `CreateSwigClass` |
| `LeaveNamespace` | the saved scope is set, the namespace added, the node goes to the tree |

SWIG's tables are external and modelled by what CableSwig relies on: a name is
looked up from the current scope outwards, the first node of a C name stays in
front (`Cadd`), and `Swig_symbol_add` refuses a symbol that conflicts
(`NoConflict`), a result which CableSwig ignores.

Properties: `ClassUnderItsNamespace`, `NamespaceHasOneScope` (however many other
classes come in between, unless the name of a class outside hides the namespace),
`MethodsInTheirClass` (a method is only ever entered in the scope of its class,
and which methods are there in the end depends on that class alone: a method is
lost only to one of the class that is handled before it and has its symbol),
`ClassesKept` (no class is lost to a conflict when names say which class is meant;
when they do not, the class is lost silently).

### IndexFiles: cableidx, the master index and the exit status

Two programs and the build around them. `StartCableidx`, `WriteIndex` and `Kill`
are one run of cableidx for a configuration: its `main` up to
`CreateIndexFile`, which empties the index, then one line at a time, until it
ends or the build is killed within a line. `Regenerate` is gccxml making the XML
file anew, which lets cableidx run again. `StartSwig`, `ReadMasterLine`,
`ReadIndexLine`, `ParseFile` and `Main` are one run of CableSwig, from
`ReadMasterIndexFile` to the exit status; it reads an index as it is at that
moment.

A line is the sequence of its braces and names; `Find` and `Between` are
`std::string::find` and `substr` as `ParseIndexInformation` uses them, including
what comes out of `npos`. Names contain no braces (`IndexAssumption`). A line that does not fit in the 5000 characters of the
buffer is parsed as far as it was read and ends the loop over the file.

Properties: `LookupsExact` (when every index was complete before CableSwig began
and none changed, and no line is too long, the lookups hold exactly what the
configurations declare: for each class the group and the typedef at the last of
the `Places`, lines of the master indexes and of the indexes they name, that wrap
it); `ModuleOfIndex` (the module made of
a configuration is the one its index sends the others to); `SuccessMeansParsed`
(the result of `ParseFile` is ignored, yet exit status 0 means that the input
was processed, because SWIG refuses a top node without a name).

The conditions are what the code needs, and each is exercised: an index that is
cut gives a class the rest of a line for a group; a long line hides the lines
after it; a `-l` library that names a module removes the last safeguard.

### TypeSystem and Conversions

`CreateCxxTypes` gives every `cable::Type` its C++ type. The eight maps of the
`TypeSystem` are one sequence of keys, `objects`: the position of a key is the
object, and the objects a key refers to are given by position, as the code gives
them by address. `stack` holds the calls of `CreateCxxType` and
`GetCxxClassType` under way; types are visited in any order.

| Action | Code |
|---|---|
| `CreateCxxTypes(t)` | one turn of the loop in `SourceRepresentation::CreateCxxTypes` |
| `AlreadyCreated` | the first test of every `CreateCxxType` |
| `CreatePart` | the calls a `CreateCxxType` or `GetCxxClassType` makes first |
| `CreateCxxType` | the request to the `Get...Type` function (`Keys`), and its qualifiers |
| `CreatePointerToMember` | `PointerType::CreateCxxType` of a method or offset |
| `GetClassType` | `Class::GetCxxClassType`, with `MergeClassInformation` |
| `Fail`, `EndTypes` | the result |

Properties: `TypesUnique` (two cable types get the same object and qualifiers
exactly when they denote the same C++ type, `Meaning`, which is defined as a term
and without any table, from the meanings of the types it is made of, `Denoted`;
and `CreateCxxTypes` succeeds exactly when every type can be created);
`LongestParentsKept` (classes that share a qualified name share an object, which in
the end is copyable if one of them is and has the parents of a single one of them,
with the most; the other parent lists are lost, see the findings).

Classes of one name may have any bases, each other included. The bases of a class
have no cycle (`WellFounded`), as in C++, but their names may: for
`struct A {}; void f() { struct A : ::A {}; }` both classes are `A`, and the
`ClassType` comes out as its own parent.

`Conversions` extends it with the functions of `cxxConversions.cxx` and what
they need of `ClassType`. `ConversionsExact` compares them with definitions of
their own: the qualification conversion with section 4.4 of the C++ standard,
stated on the levels of the two pointers at once; the breadth-first list of
superclasses, which ends on cycles too, and the recursive `IsSubclassOf` with the
closure of the parents. `IsSubclassOf` returns only where no class on the way up is
its own ancestor (`TestEnds`); what depends on it is stated for these classes.
Nothing in the repository calls these functions.

### TypeOrder and CvTypeWriter

`CvTypeWriter::Add` is recursive; `stack` holds its calls. `AddInner` is the next
of the calls it makes (`AddsFirst`: the unqualified version of a qualified type,
or the types a type is made of), `AddSelf` the insertion in `m_TypesAdded` and
`m_TypeOrdering`. `Named(t)` is what the compiler of the generated code takes a
type for: MSVC drops the qualifiers of `void`, which the writer takes care of
under `_MSC_VER`. The three `Write...` functions iterate over `m_TypeOrdering`;
`Reads` says which `CvType` objects the initialization of each type reads.

`TypeOrder` is the abstract promise: needed types are written once each, after
their parts, in any such order. `CvTypeWriter` implements it with
`needed <- m_TypesAdded \cup InProgress` and `order <- m_TypeOrdering`
(`RefinesTypeOrder`). `InitializedBeforeRead`, `WrittenOnce` and
`EverythingWritten` say what the generated code needs of it. Nothing is assumed of
what a type is made of: a class that merging by name has made its own ancestor sends
`Add` into a recursion without end, which the bound `MaxCalls` stops as the program's
stack would. `EverythingWritten` says that the calls of `Add` for all other types
(`Grounded`) return and that no type made of itself is ever written.

### SourceConstruction: the construction phase

`document` is the element map the event phase left: for each id an element with
its context, the elements and the types it refers to, and whether it has a
defect. The recursion of `AddElementRepresentation` is a `stack` of frames; a
frame's `todo` is the list of references its element still has to resolve, in
the order in which the `Add*` and `Setup*` functions resolve them. `null` says
that the call that returned last has returned null.

| Action | Code |
|---|---|
| `AddElement(id)` | one turn of the loop in `ConstructSourceRepresentation`, in any order of ids |
| `AddElementRepresentation` | the call for an element that is referred to and not yet registered |
| `SetContext` | the end of `SetupNamed`; a context that failed is ignored |
| `UseElement` | a base class, the namespace of an alias, a basetype |
| `UseType` | `GetTypeFromId`: typedefs, qualifiers; an array type goes on without a type |
| `SetSourceObject` | the end of each `Add*`: registered, or null because of a defect |
| `EndElements` | the result: false at the first failure, or `CreateCxxTypes` |

Every failure goes through `Fail`, which returns null, or crashes when the
element has an `attributes` attribute (line 539). A missing base class and
qualifiers on something that is not a type crash as well.

What a document *means* is defined beside it, without an order: `Meaning` follows
typedefs and adds up qualifiers, `Constructible` says that every element is
sound. `ResultExact` compares the outcome with it, for every order;
`HalfBuiltConfined` says where an object that is not registered can be reached: not
from what a registered object refers to, at any step, but from the member map of its
context, which `SetupNamed` fills early (line 659), during the call for it or, in a
document with a broken element, after its failure; never in a representation;
`MembersExact` that each object is in the member map of its
context exactly once; `TypesExact` that the types are the ones meant, unless a
typedef of a qualified type is qualified again (see the findings). Documents have
no cycles of references, as C++ declarations have none: a class refers to its
context and bases only, not to its members, so `struct A { A* next; };` is no
cycle.

Simplifications: struct and union are classes, fields are variables, and all
kinds of functions are one; a qualified type is not kept as an object of its
own, since looking it up again gives the same type; what only fails because an
attribute is missing or malformed is the element's `defect`.

How the modules compose: `XMLSourceParser` leaves the outcome of
`GetSourceRepresentation` open, and `SourceConstruction` starts from an element
map, whatever document it is of; `MapIsDocument` and `RepresentationOfDocument`
say that the map is the document's when the construction is reached.
`SourceConstruction` ends with the outcome of `CreateCxxTypes`, which `TypeSystem`
takes apart. `CableSwig` starts from a finished representation, and takes the
groups of the classes as given: `LookupsExact` says which they are. `SwigScopes`
repeats the hand-over of `CableSwig` for classes in any order, so what it shows
does not depend on which classes were selected.

## 3. The runs

| Run | Question | Bounds |
|---|---|---|
| `parser_events` | do the pointer and the counter decide what the stack decides? | documents of at most `MaxTags` = 5 start tags nested at most `MaxDepth` = 4 deep, two ids, ten names: one for each way in which the handlers or their messages tell names apart |
| `dump_loop` | is the dump closed, exact, without repetition, and finite? | 579 translation units of twelve nodes, two files |
| `dump_phase_error` | can the assertion at xml.c:524 fail? | the same |
| `class_selection` | does what SWIG sees depend on addresses? | 4320 hierarchies of five classes, and 60 nestings |
| `lost_parents` | are all parents imported, as a comment says? | the same |
| `construction` | does the outcome depend on the order of ids? | 144 documents of eight elements that vary in their types and contexts, and 39 around a sample, nearly all with one defect |
| `attributes_crash` | is an element that cannot be added always reported? | one document of GCC-XML |
| `typedef_qualifiers` | are the qualifiers of a typedef kept? | one document of GCC-XML |
| `type_order` | is every type written once, after what its initialization reads? | forty-four types over eleven, one of them its own parent, any `MaxAsked` = 2 of them asked for, `MaxCalls` = 12 calls of `Add` at once, the MSVC build |
| `swig_scopes` | does every class and method end in the scope it belongs to? | three classes in contexts of every kind, with equal and distinct names, three target languages |
| `index_files` | what do the lookups and the exit status mean? | two configurations, six contents with groups, packages, renames and a long line; `MaxChanges` = 1 new XML file; lines cut at the places in `Cuts` = {0, 1, 6} |
| `type_system` | is there one object per C++ type, in every order, and what do classes of one name become? | thirteen representations of eight types and up to five classes |

Why these bounds are enough. *Parser*: the handlers look at the top-level
element and one counter; depth four allows an element inside a rejected one
inside an open one inside the root, and five tags allow a second definition of
an id after the first is closed. What is true beyond these bounds is proved
(below). *Dump*: the units hold each kind of node, cycles through scopes,
members, bases and befriending classes, a typedef of an unnamed and of a named
type, a qualified type, a local class of a virtual function, and start nodes
that reach a node first as incomplete and later as complete. *CableSwig*: four
classes are the least that give a diamond with a chain below it, and the uses
close cycles through it. *Construction*: eight elements hold one of each way in
which an element is reached (as a context, through an alias, as a base, as a
type, by the loop) and the failures hit each of them; a qualified typedef and
two types of a function give references that resolve in different orders.
*Type order*: every kind of type, with a diamond of bases; the second request
meets all that the first has added, and the order of more than two requests is
proved. The types that are not made of themselves need no more than ten calls at
once, so `MaxCalls` cuts off nothing but the endless recursion. In the other build `Named` is the identity. *Scopes*: a
namespace is entered, left for another class and entered again; equal names in
different namespaces, a class named like a namespace, nested classes.
*Index files*: two files are the least in which one is read last; a cut leaves
nothing, one brace or a line without its group. A second change of the XML files
adds nothing to what a reader can see of one index. *Types*: each
representation holds types that are equal in meaning and differ in form, with
chains of three pointers, the least in which a level lies between the first and
the last, and two representations hold a type that cannot be created. Three have
classes of one name: one is a class derived from its namesake, in the others one
namesake has the base `P` and the other the base `S`, or `S` and `T`.

Symmetry is used in `parser_events` only, over the ids: no handler tells one id
from another. `CHECK_DEADLOCK` is left on where a module ends in an explicit
`Done` step. It is off in three runs where nothing is left to do in the end:
`type_order` when no more requests may come, `index_files` when every run is
over and the changes are used up, `type_system` after the loop.

### Fairness

`DumpTerminates` and `ProcessTerminates` are checked under `WF_vars(Next)`,
`EverythingWritten` under weak fairness of the steps of `Add`: a generator need
not ask for more. Each of these programs is one thread that runs until its
function returns; no step of a model waits for anything outside, so some enabled
step is always taken. The liveness is therefore that of the recursion and the
queues: cycles in the input do not keep the code going forever. `IndexFiles` has
several programs and no fairness: nothing is said of when the build runs them.

### Findings

Four runs state what the repository says of the program and end in a
counterexample:

* `dump_phase_error`: `xml_print_overrides_r` (xml.c:1147) adds the overridden
  function as complete in the second pass too, and `xml_add_node_real` then
  reports "XML dump bug: complete node added during incomplete phase"
  (xml.c:524). It takes a start class that a local class of an overriding
  virtual function befriends.
* `lost_parents`: the loop over the parents in `AddClassToBeImported` stops at
  the first one that is there already (CableSwig.cxx:981). In the flattened list
  of a multiple inheritance later parents may be new, and their methods' types
  are then not imported. The comment at line 966 says that all are.
* `attributes_crash`: `AddElementRepresentation` stores the `attributes` attribute
  through the pointer it has just been returned, without testing it
  (cableXMLSourceParser.cxx:539), so the error that the main loop would report
  (line 478) is a crash. A function with attributes and an argument of an
  unimplemented type is enough.
* `typedef_qualifiers`: xml.c:828 leaves qualifiers that a typedef contains out
  of a reference; `GetTypeFromId` (cableXMLSourceParser.cxx:860) makes the type
  from the qualifiers in the reference alone. `volatile CI`, with `CI` a typedef
  of `const int`, becomes `volatile int`.

Two more disagreements with the code's own words need no counterexample: a property
of a passing run states the exact difference.

* `parser_events`, `ErrorIffNotAccepted`: the messages at
  cableXMLSourceParser.cxx:300 and :323 ask that an `Argument` or `Ellipsis` be
  nested in a function-style element; the code only asks that some element is open
  (line 296), so one in a `Class` is stored with it and raises no error.
* `type_system`, `LongestParentsKept`: the comment at cxxClassType.cxx:70 says that
  class information is merged, parents included; the code keeps the longest list it
  is given, the first of equally long ones, and drops the parents of the others
  (line 78).

The models also follow the code where it does something a reader may not expect,
without a run of its own:

* A class nested in a class of the global namespace is handed over, although the
  comment at CableSwig.cxx:678 says that nested classes are skipped: the test at
  line 683 looks at the context of the context.
* A class that conflicts with an earlier symbol is lost from SWIG's tables without
  a word (CableSwig.cxx:597); `ClassesKept` has `NamesDistinct` for a condition.
* A destructor and the constructors of a class are handed to SWIG under one symbol
  (CableSwig.cxx:452-479). A destructor that is not public is handled before the
  public constructors, takes the symbol, and these are lost. `Entered` says which
  methods are left.
* An index line that is cut by a killed cableidx still names a class; its group is
  whatever is left of the line. A line of 5000 characters or more ends the file.
* xml.c:2523 writes `const="1"` for a method type, and `AddMethodType`
  (cableXMLSourceParser.cxx:1127) does not read it: the types of a const method
  and of a method that is not are one.
* Local and unnamed classes with one qualified name become one `cxx::ClassType`. A
  local class derived from a class of its own name is its own parent then, and
  `IsSubclassOf` and `CvTypeWriter::Add` do not return for it.
* The destructor of `TypeSystem` does not free the enumerations, although its
  comment (cxxTypeSystem.cxx:300) says that it frees all.

## 4. The proofs

Each module `XProofs` proves `Spec => []IInv` for the `IInv` at the end of `X`, and
from it the safety invariants that the run of `X` checks. They hold for all values
of the constants: any number of elements, nodes, classes, types or files, any
program that satisfies the module's named assumption, and any order of the steps.
The assumptions are no more than well-formedness of the input, which C++ or the
program that writes the input guarantees; TLC evaluates them on every run. TLC
also checked each `IInv` on the run of its module before it was proved. Every
safety invariant of the passing runs is a theorem, and so is the refinement of
`TypeOrder`.

Recursive functions (base lists, meanings of types, lists of superclasses) are
reasoned about in three steps: the recursion has a solution, for most because the
input is acyclic, so the function may be unfolded, and what it returns follows by taking a
minimal counterexample.

For the five modules with a recursion or a queue the proofs also hold the half of
termination that needs no fairness. `Descends` says that a step makes a tuple of
measures lexicographically smaller: natural numbers, sets of nodes, classes, types or
elements that lose a member (`Smaller`), and stacks of calls compared from the
outermost call inwards. The inputs are finite, so these sets shrink only finitely
often, and the stacks are no deeper than there are things to call for
(`NeverReentered`); no behaviour takes infinitely many of these steps. That the
program can always take one until it is done, which is where fairness comes in, is
left to TLC: to the three liveness properties, and in `construction` to the check for
deadlock.

### The event phase

`XMLSourceParserProofs` proves, for every set of names and ids and with no bound
on the size of a document (`MaxTags` and `MaxDepth` are arbitrary naturals):

| Theorem | Statement |
|---|---|
| `Invariant` | `Spec => []IInv` |
| `TypeCorrect` | `Spec => []TypeOK` |
| `NullSafe` | `Spec => []NoNullDereference` |
| `ErrorExact` | `Spec => []ErrorIffNotAccepted` |
| `MapExact` | `Spec => []MapIsDocument` |
| `RepresentationSound` | `Spec => []RepresentationOfDocument` |

The only assumption is `ParserAssumption`: no id is the missing id, the null
pointer is not an element, and the bounds are naturals.

None of the properties is inductive by itself. What makes them so is
`CurrentIsOpen`: of the stack of open tags the topmost
`m_UnknownElementNesting` were rejected, and among the `Handled` ones below at
most one is a top-level element, which is `m_CurrentElement` (and there is none
when that is null). It says how a pointer and a counter represent a stack. With
it, the error flag decides as `Accepted` does because in an accepted document nothing
is rejected, so "inside some open enumeration" is the same as "the current
element is an enumeration" (`InsideIsCurrent`); and an end tag with the counter
at zero closes the element its start tag opened. `NestedIsKids` ties the nested
elements collected so far to the document's, so that the map stays the document
when the element is closed, and `ResultIsCorrect` carries the conclusion past the
end of the parse. `StartFacts`, `StartRejected`, `StartHandled`, `EndStep` and
`ParseSteps` treat the actions one by one; `NextIInv` combines them.

### The order of the types

`CvTypeWriterProofs` proves, for every set of types and in both builds, with no
bound on the number of requests:

| Theorem | Statement |
|---|---|
| `AddRecursion` | `Spec => []IInv` |
| `TypeCorrect` | `Spec => []TypeOK` |
| `InitializationOrder` | `Spec => []InitializedBeforeRead` |
| `SpecializedOnce` | `Spec => []WrittenOnce` |
| `ImplementsTypeOrder` | `Spec => RefinesTypeOrder` |
| `RecursionDescends` | `Spec => [][AddInner \/ AddSelf => Descends \/ TopMadeOfItself]_vars` |
| `MadeOfItselfNeverAdded` | `Spec => []NeverAdded` |
| `AllWrittenAtRest` | `Spec => []WrittenAtRest` |

They assume (`CvTypeWriterAssumption`) only that every type has a list of parts; a
type may be made of itself. `StackInv` says that the types of the calls of `Add` in
progress are not added, that the inner types a call has gone through are (`Dealt`),
but for the one whose call is on top of it (`Called`). So when a call returns, no
other call for its type is in progress: that call would be for an inner type which
is added, as all those of the type that returns are, and is not, as it is in
progress. `OrderInv` ties `m_TypesAdded` to the order and
holds the two properties. For the refinement, `AddIsAsk`, `AddInnerIsRequire` and
`AddSelfIsWrite` map the three actions to a request, a demand for a part and a
write, or to a stutter when the type has been added before.

A step of the recursion starts a call for a type that has had none, or goes on in a
call, or ends one; that is the order of `Descends`. Else it starts a call for a type
in progress, and then the types of the calls from that one on are made of each other
(`ComesBack`, `TopMadeOfItself`); `MadeOfItselfNeverAdded` says that such types are
never added. When the stack is empty again `WrittenAtRest` holds: all that was asked
for is in the order. Together they are `EverythingWritten` for every set of types, up
to the fairness of the two steps.

### The dump loop

`GccXmlDumpProofs`, for every translation unit in `Program`; `DumpAssumption` says
that these are well-formed trees.

| Theorem | Statement |
|---|---|
| `InvariantHolds` | `Spec => []IInv` |
| `TypeCorrect` | `Spec => []TypeOK` |
| `NoDanglingReference` | `Spec => []ReferencesResolve` |
| `EachElementOnce` | `Spec => []WrittenOnce` |
| `SelectionIsExact` | `Spec => []SelectionExact` |
| `DumpDescends` | `Spec => [][Descends]_vars` |

`NodesCovered` is the heart of it: a node that was encountered is written, queued, or
incomplete and left for the second phase. `ReferencesCovered` adds that a printed
reference is to such a node, or the call that adds it is still in `calls`; when the
queues and `calls` are empty nothing but "written" is left. `QueuedOnce` says that
each phase queues the nodes of its own kind once. It needs `MentionsPlain`: under
`LocalContextsPlain` no call to come in the second phase makes a node complete,
which is what the assertion at xml.c:524 hopes for. `RequestsKept` and
`OnlyRequired` are the two halves of `SelectionExact`: a request for completeness
is met or in `calls`, and nothing is complete that some closed set does without.

`DumpDescends` is why cycles do no harm. A step ends a phase, meets a new node, makes
one complete, visits a start node, takes a node off the queue, or writes a file;
else it replaces one of the `calls` by calls that are handed on less often
(`Level`), and `Reach` compares the places of the calls of each level, counted from
the end of the sequence, where nothing changes.

### The selection of classes

`CableSwigProofs`, for every hierarchy that satisfies `CableSwigAssumption`.

| Theorem | Statement |
|---|---|
| `InvariantHolds` | `Spec => []IInv` |
| `TypeCorrect` | `Spec => []TypeOK` |
| `BasesComeFirst` | `Spec => []BasesFirst` |
| `BaseListsAreExact` | `Spec => []BaseListExact` |
| `EachClassOnce` | `Spec => []HandedOnce` |
| `ExactlyTheNamedAreWrapped` | `Spec => []WrappedExactly` |
| `ExactlyTheNeededAreProcessed` | `Spec => []ProcessedExactly` |
| `SelectionDescends` | `Spec => [][Descends]_vars` |

What `GetAllBaseClasses` and `FindWrappedBases` return is proved by induction along
the hierarchy: the first lists all bases of a class and lists those of a base after
it, the second the ends of the gap. `WorkOrdered` then says that in the list of
classes to be handed over bases come first, and `Remembered` that what is not in the
list has been handed over or left out; together they give `BasesFirst` and
`HandedOnce`. `Determined` fixes the role of a class from the moment it is chosen,
and `TopExact` carries it to the tree. The last property needs to know why the early
end of the loop over the parents loses nothing with single inheritance:
`Importing` says that the rest of the parents are imported already or are still to
be imported by an outer call of the recursion, so that `ChosenClosed` holds once the
recursion ends. `OnlyNeeded` is the other direction.

`SelectionDescends` orders the steps by the phase, the typedefs left, the classes not
yet imported, those not yet visited and those not yet handed over. A step of
`AddClassToBeImported` that changes none of these only makes the loops on the stack
shorter or fewer (`StackDescends`): a call goes deeper only for a class that it
imports.

### The classes in SWIG's scopes

`SwigScopesProofs`, for every set of classes, names and programs.

| Theorem | Statement |
|---|---|
| `InvariantHolds` | `Spec => []IInv` |
| `TypeCorrect` | `Spec => []TypeOK` |
| `ScopesOfNamespaces` | `Spec => []ClassUnderItsNamespace` |
| `OneScopePerNamespace` | `Spec => []NamespaceHasOneScope` |
| `MethodsOfOneClass` | `Spec => []MethodsInTheirClass` |
| `NoClassLost` | `Spec => []ClassesKept` |

`ScopeTree` says that the scopes are a tree, and `CurrentScope` where each step of a
call finds the current scope; between two classes it is the global one again, so a
lookup of a namespace finds only what the global scope holds. `NamespaceNodes` and
`GlobalNames` say what that is: a C name of a namespace leads to a scope of that
namespace unless a class outside has the name, and `NamespaceShared` that it keeps
leading to the same one. `NodesPlaced` says which scopes can hold which node under
which symbol, so that only methods of a class compete for the symbols of its
scope; `MethodsEntered` then follows SWIG's conflict rule over each prefix of the
methods, and `ClassesFound` uses it for the classes.

That every constructor and method is in the scope of its class is not true: `Entered`
is what holds for every program, and the findings say which constructors are lost.

### The construction phase

`SourceConstructionProofs`, for every document that is well-shaped and acyclic
(`ConstructionAssumption`).

| Theorem | Statement |
|---|---|
| `InvariantHolds` | `Spec => []IInv` |
| `TypeCorrect` | `Spec => []TypeOK` |
| `HalfBuiltIsConfined` | `Spec => []HalfBuiltConfined` |
| `ResultIsExact` | `Spec => []ResultExact` |
| `MembersAreExact` | `Spec => []MembersExact` |
| `TypesAreExact` | `Spec => []TypesExact` |
| `NeverReentered` | `Spec => []NoCallTwice` |
| `ConstructionDescends` | `Spec => [][Descends]_vars` |

A frame of the stack has resolved the first references of its element, in their order
(`FrameSound`), and was called for the current reference of the frame outside it
(`Nested`). As references are acyclic, no two frames are for one element, so an element
is registered once and by one call. `RegisteredSound` says that what is registered
refers to what is registered, and which types it has; `NoneForgotten` that the loop
leaves nothing behind; `NeverFails` that in a document that is `Constructible` nothing
returns null. Types are compared with `Meaning` by induction along typedefs.

An element that fails is not registered, and a context that fails is ignored, so one
element may be tried many times. `ConstructionDescends` therefore does not count
elements: `Weight` is what is left to do for one call, whose current reference is
looked at, waits for the calls inside it and is answered, and a step lowers the weight
of one call and leaves those outside it as they are.

### The index files

`IndexFilesProofs`, for every set of configurations and master indexes and every point
at which a cableidx is killed; `IndexAssumption` says that names are none of the
tokens that stand for braces and missing values.

| Theorem | Statement |
|---|---|
| `InvariantHolds` | `Spec => []IInv` |
| `TypeCorrect` | `Spec => []TypeOK` |
| `LookupsAreExact` | `Spec => []LookupsExact` |
| `ModuleIsTheOneIndexed` | `Spec => []ModuleOfIndex` |
| `FailuresAreReported` | `Spec => []SuccessMeansParsed` |

`WholeLineParsed` computes once what the parser makes of a line that was written
whole. `WritersSound` and `CursorSound` say where the programs are in their files;
`Undisturbed` that the files of a settled run are complete; `LookupsSound` that the
lookups hold what is declared at the places the cursor has passed, the last place of a
class counting. `FailureNoticed` links a failure to parse to a module without a name,
which is what `main` tests.

### The type system

`TypeSystemProofs`, for every source representation that satisfies
`TypeSystemAssumption`: types are made of types made before them, classes have no cycle
of bases (their names may have one), and a type has the parts of its kind. It covers
`Conversions` as well.

| Theorem | Statement |
|---|---|
| `InvariantHolds` | `Spec => []IInv` |
| `TypeCorrect` | `Spec => []TypeOK` |
| `OneObjectForEachType` | `Spec => []TypesUnique` |
| `LongestParentsWin` | `Spec => []LongestParentsKept` |
| `ConversionRulesExact` | `Spec => []ConversionsExact` |
| `NeverReentered` | `Spec => []NoCallTwice` |
| `CreationDescends` | `Spec => [][Descends]_vars` |

A key refers to older objects only, and none is there twice (`ObjectsSound`), so that
every object stands for a C++ type (`Stands`): a term that is built along the sequence
of objects. Two keys that stand for the same type are the same key
(`TypeOfKeyInjective`), by the injectivity of the objects they refer to; and the key a
cable type requests stands for what the cable type denotes (`KeyMeant`). A request
therefore finds the object of its type if there is one. `Nested` says that the active
calls have created the parts they asked for, and `VisitsSound` that a type that has
been visited is created, or its call is the outermost one. `ClassesSound` keeps,
through any order of merges, that an object has the parents that one class of its name
declares (`ParentsFrom`), with the most of those that are done, and that it is copyable
if one of them is; `CopyConstructorExact` shows by induction on the classes that the
recursion of `HasPublicCopyConstructor` through the bases is a statement about the
whole `Lineage`. `FailuresSound` says that only what can be created has been and that
the loop gives up only because of a type that cannot. `IInv` quantifies over the types
that the objects stand for, which TLC cannot enumerate; TLC checked it with these
types computed from the objects.

`ConversionRulesExact` is about three recursions over the objects. The qualification
conversion goes down two pointers together; a pointer refers to an older object, so
`ConvertsUnfold` and `ConversionOfPointers` follow it by induction on the objects and
meet the standard's statement about all levels at once. The parents of a class may be
older or younger than it, and it may be its own ancestor. The closure of the parents
is always a solution of `IsSubclassOf` (`SubclassExists`); where no class on the way up
is its own ancestor a set of them has a member with the fewest superclasses
(`Topmost`), so that the recursion ends there and the solution is the only one
(`SubclassExact`). `GetAllSuperclasses` is a search, and needs no such condition;
its invariant `SearchSound` says that what was queued is reached, that nothing was
queued twice and that the classes taken off the queue have their parents in it. As
nothing is queued twice the queue is no longer than there are objects
(`InjectiveLength`), so it is exhausted in the end and closed under parents
(`SearchExact`). `QueueParentsSteps` unfolds the inner loop step by step.
`ReferencesBind` treats the references.

`NeverReentered` follows from `Nested`: each active call is one of the calls that the
one outside it makes (`CalledFacts`), so two calls for one type would be types made of
each other in a cycle, and two for one class bases of each other. `CreationDescends`
adds that a call only gets on to its next part.

### Only model-checked

* Every liveness property: `DumpTerminates`, `ProcessTerminates`,
  `EverythingWritten`. TLAPS has no rule for `ENABLED`, so fairness cannot be used in
  a proof. What the provers can do of them is proved: that their steps descend
  (`DumpDescends`, `SelectionDescends`, `RecursionDescends`, and for the modules
  without a liveness property `ConstructionDescends` and `CreationDescends`) and what
  holds when the recursion is at rest (`AllWrittenAtRest`). That descending steps are finitely many
  is the argument above, not a theorem.
* What ends in a counterexample (the four runs of the findings).

## 5. Not modelled, and the plan

Not modelled, for good: the text of ids, mangled names and generated code; the
DTD and schema generator of xml.c; the module, package and `%insert` nodes of
`ProcessSource`; option parsing; file system helpers; the GCC-XML front end
(string processing over the host's registry and environment); and the vendored
GCC, SWIG, expat and KWSys, which are nearly all of the repository's lines.

Left out so far: the reference counts of `cable::Object`, the name lookup of
contexts, and the packages of `TclGenerator`, whose type order is `CvTypeWriter`.

Worth proving next, in this order:

1. Action properties from the invariants already proved: objects, registered elements
   and SWIG's scopes are only added, and an object keeps the type it stands for.
2. The type system behind the construction: `CreateCxxTypes` as the abstract step that
   `SourceConstruction` takes.
