----------------------------- MODULE GccXmlDump -----------------------------
(***************************************************************************)
(* The dump loop of GCC-XML (GCC/gcc/cp/xml.c): do_xml_output selects the  *)
(* nodes of a translation unit that are written, starting at the start     *)
(* nodes and following the references that each written element makes.     *)
(*                                                                         *)
(* A node that is added "complete" is queued at once; one that is only     *)
(* mentioned is incomplete, and is written in a second phase unless it     *)
(* becomes complete before.  The first phase writes the complete nodes,    *)
(* the second the incomplete ones, without their members.                  *)
(*                                                                         *)
(* The translation unit is the record tree.  Of a tree node only what the  *)
(* output functions follow is kept.                                        *)
(***************************************************************************)
EXTENDS Integers, Sequences, SequencesExt

CONSTANTS
  Node,       \* the tree nodes
  File,       \* the names of the source files
  None,       \* no node, or no file
  Program     \* the translation units considered

\* What xml_dump_tree_node and xml_add_node tell apart.  "pointer" stands for
\* pointer and reference types, "compound" for array, offset, function and
\* method types, "variant" for a type that is not its own main variant, "group"
\* for overloads, lists and templates, which only stand for other nodes, and
\* "skipped" for what xml_add_node never adds.
Code == { "namespace", "alias", "typedef", "function", "variable", "record",
          "pointer", "compound", "enumeral", "fundamental", "variant",
          "group", "skipped" }

TypeCode == {"record", "pointer", "compound", "enumeral", "fundamental"}

\* A translation unit: for each node its code, its enclosing scope, the namespace
\* of an alias or the basetype of a type, the types it prints, its members, bases,
\* overridden functions and befriending classes, the main variant, the typedef
\* name and the qualification of a type, whether a record is defined, and the
\* source file (the arguments of a function are in the file of the function).
Tree == [ code       : [Node -> Code],
          context    : [Node -> Node \cup {None}],
          target     : [Node -> Node \cup {None}],
          returns    : [Node -> Seq(Node)],
          throw      : [Node -> Seq(Node)],
          types      : [Node -> Seq(Node)],
          members    : [Node -> Seq(Node)],
          bases      : [Node -> Seq(Node)],
          overrides  : [Node -> Seq(Node)],
          befriending: [Node -> Seq(Node)],
          main       : [Node -> Node],
          name       : [Node -> Node \cup {None}],
          qualified  : [Node -> BOOLEAN],
          defined    : [Node -> BOOLEAN],
          file       : [Node -> File \cup {None}],
          start      : Seq(Node) ]

\* What the C++ front end guarantees of the references between nodes.
WellFormed(t) ==
  LET All(s, S) == \A i \in 1 .. Len(s) : t.code[s[i]] \in S
  IN  /\ All(t.start, Code \ {"variant"})
      /\ \A n \in Node :
        /\ t.context[n] # None => t.code[t.context[n]] \in {"namespace", "record", "function"}
        /\ t.target[n] # None => t.code[t.target[n]] \in {"namespace", "record"}
        /\ All(t.returns[n], TypeCode \cup {"variant"})
        /\ All(t.throw[n], TypeCode \cup {"variant"})
        /\ All(t.types[n], TypeCode \cup {"variant"})
        /\ All(t.members[n], Code \ {"variant"})
        /\ All(t.bases[n], {"record"})
        /\ All(t.overrides[n], {"function", "skipped"})
        /\ t.code[n] # "function" => t.overrides[n] = << >>
        /\ All(t.befriending[n], {"record"})
        /\ t.code[n] \in TypeCode \cup {"variant"} => t.code[t.main[n]] \in TypeCode \cup {"skipped"}
        /\ t.name[n] # None => t.code[t.name[n]] = "typedef"
        /\ t.code[n] = "typedef" => Len(t.types[n]) = 1
        /\ t.code[n] = "group" => All(t.members[n], Code \ {"group", "variant"})
        /\ t.qualified[n] => t.code[n] = "variant"

ASSUME DumpAssumption ==
  /\ None \notin Node \cup File
  /\ \A t \in Program : t \in Tree /\ WellFormed(t)

VARIABLES
  tree,              \* the translation unit
  index,             \* index of each dump node, 0 when not yet encountered
  complete,          \* the complete flag of each dump node
  next_index,
  queue,             \* the nodes queued for output
  require_complete,  \* which pass of the loop is running
  calls,             \* the calls the function being executed has yet to make
  unvisited,         \* nodes splay_tree_foreach has yet to visit
  file_queue,        \* the files queued, in the order of their indices
  phase,             \* "complete", "foreach", "incomplete", "files" or "done"
  written,           \* number of elements written for each node
  filesWritten,      \* number of File elements written
  dumpBug            \* whether "XML dump bug" was reported

nodeVars == << index, complete, next_index, queue, dumpBug >>
outputVars == << written, filesWritten >>
vars == << tree, nodeVars, require_complete, calls, unvisited, file_queue, phase,
           outputVars >>

-----------------------------------------------------------------------------
(***************************************************************************)
(* A call of xml_print_type_idref ("idref"), xml_add_node ("add") or       *)
(* xml_add_node_real ("real") with its node and its complete argument.     *)
(***************************************************************************)
Call == [op : {"idref", "add", "real"}, node : Node, complete : BOOLEAN]

Calls(op, nodes, c) ==
  [i \in 1 .. Len(nodes) |-> [op |-> op, node |-> nodes[i], complete |-> c]]

Optional(x) == IF x = None THEN << >> ELSE << x >>

\* xml_print_context_attribute: the scope is only mentioned.
Context(t, n) == Calls("add", Optional(t.context[n]), FALSE)

\* The calls each output function makes for node n, whose complete flag is c.
OutputNamespace(t, n, c) ==
  Context(t, n) \o (IF c THEN Calls("add", t.members[n], TRUE) ELSE << >>)

OutputAlias(t, n, c) ==
  Context(t, n) \o Calls("add", Optional(t.target[n]), FALSE)

\* xml_print_overrides: the overridden functions are asked for complete, whatever
\* the phase.
Overrides(t, n) == Calls("add", t.overrides[n], TRUE)

\* xml_print_befriending_attribute.
Befriending(t, n) == Calls("add", t.befriending[n], FALSE)

OutputFunction(t, n, c) ==
  Calls("idref", t.returns[n], c) \o Overrides(t, n)
    \o Calls("idref", t.throw[n], c) \o Context(t, n)
    \o Befriending(t, n) \o Calls("idref", t.types[n], c)

OutputTypedef(t, n, c) == Calls("idref", t.types[n], c) \o Context(t, n)

\* Variables and fields.
OutputVariable(t, n, c) == Calls("idref", t.types[n], c) \o Context(t, n)

OutputRecord(t, n, c) ==
  Context(t, n) \o Befriending(t, n)
    \o (IF c /\ t.defined[n]
        THEN Calls("add", t.members[n], TRUE) \o Calls("add", t.bases[n], TRUE)
        ELSE << >>)

OutputPointer(t, n, c) == Calls("idref", t.types[n], FALSE)

OutputCompound(t, n, c) ==
  Calls("add", Optional(t.target[n]), c) \o Calls("idref", t.returns[n], c)
    \o Calls("idref", t.types[n], c)

OutputEnumeral(t, n) == Context(t, n)

\* xml_get_idref: the main variant and the typedef that names the type.
GetIdref(t, n, c) ==
  Calls("add", << t.main[n] >>, c) \o Calls("add", Optional(t.name[n]), c)

\* xml_dump_tree_node and xml_output_cv_qualified_type.
Output(t, n, c) ==
  CASE t.code[n] = "namespace" -> OutputNamespace(t, n, c)
    [] t.code[n] = "alias" -> OutputAlias(t, n, c)
    [] t.code[n] = "function" -> OutputFunction(t, n, c)
    [] t.code[n] = "variable" -> OutputVariable(t, n, c)
    [] t.code[n] = "typedef" -> OutputTypedef(t, n, c)
    [] t.code[n] = "record" -> OutputRecord(t, n, c)
    [] t.code[n] = "pointer" -> OutputPointer(t, n, c)
    [] t.code[n] = "compound" -> OutputCompound(t, n, c)
    [] t.code[n] = "enumeral" -> OutputEnumeral(t, n)
    [] t.code[n] = "variant" -> GetIdref(t, n, c)
    [] OTHER -> << >>

\* The type a typedef names.
Named(t, n) == t.main[t.types[n][1]]

\* xml_print_type_idref: a qualified type is added as a node of its own.
PrintTypeIdref(t, n, c) ==
  GetIdref(t, n, c) \o (IF t.qualified[n] THEN Calls("add", << n >>, c) ELSE << >>)

\* xml_add_typedef: the typedef is added after the type it names, if that is added
\* at all.
AddTypedef(t, n, c) ==
  Calls("add", << Named(t, n) >>, c)
    \o (IF t.code[Named(t, n)] = "skipped" THEN << >> ELSE Calls("real", << n >>, c))

\* The calls that xml_print_type_idref and xml_add_node make in turn.
Expand(t, call) ==
  LET n == call.node
      c == call.complete
  IN  IF call.op = "idref" THEN PrintTypeIdref(t, n, c)
      ELSE CASE t.code[n] = "skipped" -> << >>
             [] t.code[n] = "group" -> Calls("add", t.members[n], c)
             [] t.code[n] = "typedef" -> AddTypedef(t, n, c)
             [] OTHER -> Calls("real", << n >>, c)

-----------------------------------------------------------------------------
\* do_xml_output has prepared the dump and is about to add the start nodes.
Init ==
  /\ tree \in Program
  /\ index = [n \in Node |-> 0]
  /\ complete = [n \in Node |-> FALSE]
  /\ next_index = 1
  /\ queue = << >>
  /\ require_complete = TRUE
  /\ calls = Calls("add", tree.start, TRUE)
  /\ unvisited = {}
  /\ file_queue = << >>
  /\ phase = "complete"
  /\ written = [n \in Node |-> 0]
  /\ filesWritten = 0
  /\ dumpBug = FALSE

\* The next call of xml_print_type_idref or xml_add_node.
AddNode ==
  /\ calls # << >>
  /\ Head(calls).op # "real"
  /\ calls' = Expand(tree, Head(calls)) \o Tail(calls)
  /\ UNCHANGED << tree, nodeVars, require_complete, unvisited, file_queue, phase,
                  outputVars >>

\* Mutant: a node that was encountered is never made complete.
EncounteredNotUpgraded(n, c) == index[n] # 0 /\ UNCHANGED nodeVars

\* Mutant: the complete flag is not tested before the node is queued again.
EncounteredQueuedAgain(n, c) ==
  /\ index[n] # 0
  /\ complete' = [complete EXCEPT ![n] = complete[n] \/ c]
  /\ queue' = IF c THEN Append(queue, n) ELSE queue
  /\ UNCHANGED << index, next_index, dumpBug >>

\* xml_add_node_real on a node that was already encountered.
Encountered(n, c) ==
  /\ index[n] # 0
  /\ IF c /\ ~ complete[n]
     THEN /\ complete' = [complete EXCEPT ![n] = TRUE]
          /\ queue' = Append(queue, n)
     ELSE UNCHANGED << complete, queue >>
  /\ UNCHANGED << index, next_index, dumpBug >>

\* Mutant: the second phase does not queue the nodes it encounters.
NewNodeCompleteOnly(n, c) ==
  /\ index[n] = 0
  /\ index' = [index EXCEPT ![n] = next_index]
  /\ next_index' = next_index + 1
  /\ complete' = [complete EXCEPT ![n] = c]
  /\ queue' = IF c THEN Append(queue, n) ELSE queue
  /\ dumpBug' = (dumpBug \/ (~ require_complete /\ c))

\* xml_add_node_real on a new node.
NewNode(n, c) ==
  /\ index[n] = 0
  /\ index' = [index EXCEPT ![n] = next_index]
  /\ next_index' = next_index + 1
  /\ complete' = [complete EXCEPT ![n] = c]
  /\ queue' = IF c \/ ~ require_complete THEN Append(queue, n) ELSE queue
  /\ dumpBug' = (dumpBug \/ (~ require_complete /\ c))

AddNodeReal ==
  /\ calls # << >>
  /\ Head(calls).op = "real"
  /\ \/ Encountered(Head(calls).node, Head(calls).complete)
     \/ NewNode(Head(calls).node, Head(calls).complete)
  /\ calls' = Tail(calls)
  /\ UNCHANGED << tree, require_complete, unvisited, file_queue, phase, outputVars >>

\* Mutant: a declaration without a file is queued too.
QueueFileNone(f) ==
  file_queue' = IF \E i \in 1 .. Len(file_queue) : file_queue[i] = f
                THEN file_queue
                ELSE Append(file_queue, f)

\* xml_queue_file, called by xml_print_location_attribute.
QueueFile(f) ==
  file_queue' = IF f = None \/ (\E i \in 1 .. Len(file_queue) : file_queue[i] = f)
                THEN file_queue
                ELSE Append(file_queue, f)

\* One turn of the loop of xml_dump: the first node of the queue is written.
Dump ==
  /\ phase \in {"complete", "incomplete"}
  /\ calls = << >>
  /\ queue # << >>
  /\ LET n == Head(queue)
     IN  /\ written' = [written EXCEPT ![n] = @ + 1]
         /\ calls' = Output(tree, n, complete[n])
         /\ QueueFile(tree.file[n])
  /\ queue' = Tail(queue)
  /\ UNCHANGED << tree, index, complete, next_index, dumpBug, require_complete,
                  unvisited, phase, filesWritten >>

\* The first call of xml_dump returns, and splay_tree_foreach begins.
EndComplete ==
  /\ phase = "complete"
  /\ calls = << >>
  /\ queue = << >>
  /\ phase' = "foreach"
  /\ unvisited' = {n \in Node : index[n] # 0}
  /\ UNCHANGED << tree, nodeVars, require_complete, calls, file_queue, outputVars >>

\* xml_queue_incomplete_dump_nodes on one node, in the order of their addresses.
Visit(n) ==
  /\ phase = "foreach"
  /\ n \in unvisited
  /\ unvisited' = unvisited \ {n}
  /\ queue' = IF complete[n] THEN queue ELSE Append(queue, n)
  /\ UNCHANGED << tree, index, complete, next_index, dumpBug, require_complete,
                  calls, file_queue, phase, outputVars >>

EndForeach ==
  /\ phase = "foreach"
  /\ unvisited = {}
  /\ phase' = "incomplete"
  /\ require_complete' = FALSE
  /\ UNCHANGED << tree, nodeVars, calls, unvisited, file_queue, outputVars >>

EndIncomplete ==
  /\ phase = "incomplete"
  /\ calls = << >>
  /\ queue = << >>
  /\ phase' = "files"
  /\ UNCHANGED << tree, nodeVars, require_complete, calls, unvisited, file_queue,
                  outputVars >>

\* Mutant: the loop does not advance to the next file.
DumpFileStuck ==
  /\ phase = "files"
  /\ filesWritten < Len(file_queue)
  /\ UNCHANGED vars

\* One turn of the loop of xml_dump_files, and the end of the dump.
DumpFile ==
  /\ phase = "files"
  /\ filesWritten < Len(file_queue)
  /\ filesWritten' = filesWritten + 1
  /\ UNCHANGED << tree, nodeVars, require_complete, calls, unvisited, file_queue,
                  phase, written >>

Finish ==
  /\ phase = "files"
  /\ filesWritten = Len(file_queue)
  /\ phase' = "done"
  /\ UNCHANGED << tree, nodeVars, require_complete, calls, unvisited, file_queue,
                  outputVars >>

Done == phase = "done" /\ UNCHANGED vars

Next ==
  \/ AddNode
  \/ AddNodeReal
  \/ Dump
  \/ EndComplete
  \/ \E n \in Node : Visit(n)
  \/ EndForeach
  \/ EndIncomplete
  \/ DumpFile
  \/ Finish
  \/ Done

Spec == Init /\ [][Next]_vars

\* The dump runs in one thread until do_xml_output returns.
FairSpec == Spec /\ WF_vars(Next)

-----------------------------------------------------------------------------
(* Properties. *)

\* Every variable has its type.
TypeOK ==
  /\ tree \in Tree
  /\ index \in [Node -> Nat]
  /\ complete \in [Node -> BOOLEAN]
  /\ next_index \in Nat \ {0}
  /\ queue \in Seq(Node)
  /\ require_complete \in BOOLEAN
  /\ calls \in Seq(Call)
  /\ unvisited \subseteq Node
  /\ file_queue \in Seq(File)
  /\ phase \in {"complete", "foreach", "incomplete", "files", "done"}
  /\ written \in [Node -> Nat]
  /\ filesWritten \in Nat
  /\ dumpBug \in BOOLEAN

\* The node whose id xml_add_node(n) returns, if it is not zero.
Returned(t, n) ==
  IF \/ t.code[n] \in {"skipped", "group"}
     \/ t.code[n] = "typedef" /\ t.code[Named(t, n)] = "skipped"
  THEN {} ELSE {n}

\* The nodes to whose elements the call prints a reference.
Printed(t, call) ==
  LET n == call.node
      viaName == IF t.name[n] = None THEN {} ELSE Returned(t, t.name[n])
  IN  IF call.op # "idref" THEN Returned(t, n)
      ELSE (IF viaName = {} THEN Returned(t, t.main[n]) ELSE viaName)
             \cup (IF t.qualified[n] THEN {n} ELSE {})

\* Every file that an element refers to has exactly one File element.
FilesResolve ==
  \A n \in Node : written[n] > 0 /\ tree.file[n] # None =>
    \E i \in 1 .. filesWritten :
      /\ file_queue[i] = tree.file[n]
      /\ \A j \in 1 .. filesWritten : file_queue[j] = file_queue[i] => j = i

\* When the dump is done, every id that some written element refers to is the id
\* of a written element, whatever the order in which nodes were mentioned, became
\* complete and were written.
ReferencesResolve ==
  phase = "done" =>
    /\ FilesResolve
    /\ \A n \in Node : written[n] > 0 =>
         LET out == Output(tree, n, complete[n])
         IN  \A i \in 1 .. Len(out) : \A m \in Printed(tree, out[i]) : written[m] > 0

\* The function that a local declaration is in overrides nothing.
LocalContextsPlain ==
  \A n \in Node : tree.context[n] # None => tree.overrides[tree.context[n]] = << >>

\* No element is written twice: a node that becomes complete late is not also in
\* the queue, or written already, as an incomplete one.
WrittenOnce ==
  LocalContextsPlain =>
    \A n \in Node :
      /\ written[n] <= 1
      /\ phase = "done" => (written[n] = 1 <=> index[n] # 0)

\* The assertion in xml_add_node_real, for every translation unit.
NoDumpBug == ~ dumpBug

\* The nodes that the call adds.
Added(t, call) ==
  LET Add(n) == IF t.code[n] = "typedef" /\ Returned(t, n) # {}
                THEN {n, Named(t, n)} ELSE Returned(t, n)
      n == call.node
  IN  CASE call.op = "real" -> {n}
        [] call.op = "idref" -> Add(t.main[n])
             \cup (IF t.name[n] = None THEN {} ELSE Add(t.name[n]))
             \cup (IF t.qualified[n] THEN {n} ELSE {})
        [] OTHER -> IF t.code[n] = "group"
                    THEN UNION {Add(t.members[n][i]) : i \in 1 .. Len(t.members[n])}
                    ELSE Add(n)

\* S holds what the start nodes and complete elements of S require complete.
CompletionClosed(t, S) ==
  LET Requires(s) == \A i \in 1 .. Len(s) : s[i].complete => Added(t, s[i]) \subseteq S
  IN  /\ Requires(Calls("add", t.start, TRUE))
      /\ \A n \in S : Requires(Output(t, n, TRUE))

\* The nodes written with all of their members are exactly the ones that the start
\* nodes require: the least set closed under the requests for completeness.
SelectionExact ==
  phase = "done" /\ LocalContextsPlain =>
    LET C == {n \in Node : complete[n]}
    IN  /\ CompletionClosed(tree, C)
        /\ \A S \in SUBSET C : CompletionClosed(tree, S) => S = C

\* The dump ends, although references may be cyclic.
DumpTerminates == <>(phase = "done")

-----------------------------------------------------------------------------
(* The inductive invariant behind the properties. *)

Phases ==
  /\ require_complete = (phase \in {"complete", "foreach"})
  /\ phase # "foreach" => unvisited = {}
  /\ phase \notin {"complete", "incomplete"} => calls = << >>
  /\ phase \in {"files", "done"} => queue = << >>

\* Whatever has a state in the dump was encountered.
NodesIndexed ==
  \A n \in Node :
    complete[n] \/ written[n] > 0 \/ n \in ToSet(queue) \/ n \in unvisited => index[n] # 0

\* A node that was encountered is written, queued, or left for the second phase.
NodesCovered ==
  \A n \in Node : index[n] # 0 =>
    \/ written[n] > 0
    \/ n \in ToSet(queue)
    \/ ~ complete[n] /\ (phase = "complete" \/ n \in unvisited)

\* A reference printed to m is to a node that was encountered, or the call that
\* will add it is to come.
Resolves(m) ==
  index[m] # 0 \/ \E r \in ToSet(calls) : m \in Printed(tree, r)

\* A node that became complete after it was written is in the queue again.
ReferencesCovered ==
  \A n \in Node : written[n] > 0 =>
    \/ n \in ToSet(queue)
    \/ \A r \in ToSet(Output(tree, n, complete[n])) : \A m \in Printed(tree, r) : Resolves(m)

FilesQueued ==
  /\ \A i, j \in 1 .. Len(file_queue) : file_queue[i] = file_queue[j] => i = j
  /\ \A n \in Node : written[n] > 0 /\ tree.file[n] # None =>
       tree.file[n] \in ToSet(file_queue)
  /\ filesWritten <= Len(file_queue)
  /\ phase = "done" => filesWritten = Len(file_queue)

\* xml_print_type_idref is called for types only.
TypeCall(r) == r.op = "idref" => tree.code[r.node] \in TypeCode \cup {"variant"}

\* A call that only mentions its node never reaches a function that overrides
\* another one, nor a group.
Plain(r) ==
  \/ r.complete
  \/ r.op = "idref"
  \/ tree.code[r.node] # "group" /\ tree.overrides[r.node] = << >>

\* In the second phase nothing becomes complete.
MentionsPlain ==
  LocalContextsPlain =>
    /\ \A r \in ToSet(calls) : Plain(r)
    /\ phase = "incomplete" => \A r \in ToSet(calls) : ~ r.complete
    /\ \A n \in Node : index[n] # 0 /\ ~ complete[n] => tree.overrides[n] = << >>

\* Each phase queues the nodes of its own kind, once.
QueuedOnce ==
  LocalContextsPlain =>
    /\ \A n \in Node : written[n] <= 1
    /\ \A i, j \in 1 .. Len(queue) : queue[i] = queue[j] => i = j
    /\ \A n \in ToSet(queue) :
         /\ written[n] = 0
         /\ complete[n] = (phase = "complete")
         /\ n \notin unvisited
    /\ phase \in {"complete", "foreach"} => \A n \in Node : written[n] > 0 => complete[n]

\* What the call requires is complete, or a call to come requires it.
Met(r) ==
  \A m \in Added(tree, r) :
    complete[m] \/ \E q \in ToSet(calls) : q.complete /\ m \in Added(tree, q)

\* Nothing that is required complete is forgotten.
RequestsKept ==
  /\ \A r \in ToSet(Calls("add", tree.start, TRUE)) : Met(r)
  /\ \A n \in Node : complete[n] =>
       n \in ToSet(queue) \/ \A r \in ToSet(Output(tree, n, TRUE)) : r.complete => Met(r)

\* Nothing is complete that a closed set of nodes does without.
OnlyRequired ==
  LocalContextsPlain =>
    \A S \in SUBSET Node : CompletionClosed(tree, S) =>
      /\ \A n \in Node : complete[n] => n \in S
      /\ \A r \in ToSet(calls) : r.complete => Added(tree, r) \subseteq S

IInv ==
  /\ TypeOK
  /\ tree \in Program
  /\ \A r \in ToSet(calls) : TypeCall(r)
  /\ Phases
  /\ NodesIndexed
  /\ NodesCovered
  /\ ReferencesCovered
  /\ FilesQueued
  /\ MentionsPlain
  /\ QueuedOnce
  /\ RequestsKept
  /\ OnlyRequired
=============================================================================
