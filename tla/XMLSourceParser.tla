-------------------------- MODULE XMLSourceParser --------------------------
(***************************************************************************)
(* The event phase of cable::XMLSourceParser: the handlers that expat      *)
(* calls while XMLParser::Parse reads the output of GCC-XML, and the call  *)
(* of GetSourceRepresentation that follows a parse.                        *)
(*                                                                         *)
(* expat is external.  It calls StartElement and EndElement in the order   *)
(* of the tags of one well-formed tree (the variable open is its stack),   *)
(* stops at the first syntax error, and reports a missing or unfinished    *)
(* root element only when Parse tells it that the input has ended.         *)
(*                                                                         *)
(* The element names are the ones the handlers dispatch on.  Of the        *)
(* attributes of an element only its id is kept.                           *)
(***************************************************************************)
EXTENDS Integers, Sequences

CONSTANTS
  Tag,        \* the element names that occur in the input
  Id,         \* the ids that occur in the input
  NoId,       \* the value of a missing id attribute
  Null,       \* the null element pointer
  MaxTags,    \* bound on the number of start tags of the input
  MaxDepth    \* bound on the nesting depth of the input

\* An XMLSourceElement: its name, its id and the names of its nested elements.
Element == [name : Tag, id : Id \cup {NoId}, nested : Seq(Tag)]

ASSUME ParserAssumption ==
  /\ NoId \notin Id
  /\ Null \notin Element
  /\ MaxTags \in Nat
  /\ MaxDepth \in Nat

-----------------------------------------------------------------------------
(* The names StartElement and EndElement know, by handler. *)

\* Handlers that need an open element and add a nested element to it.
NestedTag == {"Argument", "Ellipsis", "EnumValue", "Base"}

\* Top-level elements that never become the current element.
PlainTag == {"File", "Unimplemented", "CvQualifiedType"}

\* Names handled by StartOther and EndOther.
OtherTag ==
  { "Namespace", "NamespaceAlias", "FundamentalType", "PointerType",
    "ReferenceType", "ArrayType", "FunctionType", "MethodType", "OffsetType",
    "Enumeration", "Class", "Struct", "Union", "Typedef", "Variable", "Field",
    "Function", "Method", "Constructor", "Destructor", "OperatorFunction",
    "OperatorMethod", "Converter" }

KnownTag == {"GCC_XML"} \cup NestedTag \cup PlainTag \cup OtherTag

VARIABLES
  m_CurrentElement,         \* the top-level element being parsed, or Null
  m_UnknownElementNesting,  \* open elements inside a rejected one, itself included
  m_SourceParseError,       \* whether any error has occurred during parsing
  m_ElementMap,             \* the element parsed for each id, or Null
  m_FileMap,                \* ids of the File elements recorded
  m_SourceRepresentation,   \* whether a representation has been constructed
  open,                     \* expat's stack of open start tags
  tags,                     \* number of start tags so far
  phase,                    \* "new", "stream", "returned" or "asked"
  result,                   \* what Parse returned
  legal,                    \* history: no tag so far breaks the grammar
  accepted,                 \* history: nor is there one that the handlers refuse
  kids,                     \* history: nested tags since the last OtherTag start
  document                  \* history: the elements the document defines

parserVars == << m_CurrentElement, m_UnknownElementNesting, m_SourceParseError,
                 m_ElementMap, m_FileMap >>
history == << legal, accepted, kids, document >>
vars == << parserVars, m_SourceRepresentation, open, tags, phase, result, history >>

-----------------------------------------------------------------------------
(***************************************************************************)
(* The grammar of the input, stated on the stack of open tags alone: what  *)
(* the handlers' error messages ask for, without m_CurrentElement or       *)
(* m_UnknownElementNesting.                                                *)
(***************************************************************************)
Inside(stack, S) == \E i \in 1 .. Len(stack) : stack[i].tag \in S

\* The function-style elements: those of functions and of their types.
FunctionStyle ==
  { "FunctionType", "MethodType", "Function", "Method", "Constructor", "Destructor",
    "OperatorFunction", "OperatorMethod", "Converter" }

Allowed(stack, tag) ==
  /\ tag \in KnownTag
  /\ tag \in {"Argument", "Ellipsis"} => Inside(stack, FunctionStyle)
  /\ tag = "EnumValue" => Inside(stack, {"Enumeration"})
  /\ tag = "Base" => Inside(stack, {"Class", "Struct"})
  /\ tag \in PlainTag \cup OtherTag => ~ Inside(stack, OtherTag)

\* What the handlers take although their messages refuse it: Start_Argument and
\* Start_Ellipsis ask for an open element only, whatever its name.
Tolerated(stack, tag) == tag \in {"Argument", "Ellipsis"} /\ Inside(stack, OtherTag)

Accepted(stack, tag) == Allowed(stack, tag) \/ Tolerated(stack, tag)

\* What a document adds at a start tag, and at the end of an element.
DocumentStart(tag) ==
  /\ legal' = (legal /\ Allowed(open, tag))
  /\ accepted' = (accepted /\ Accepted(open, tag))
  /\ kids' = IF tag \in OtherTag THEN << >>
             ELSE IF tag \in NestedTag THEN Append(kids, tag) ELSE kids
  /\ UNCHANGED document

DocumentEnd(e) ==
  /\ legal' = (legal /\ (e.tag \in OtherTag => e.id # NoId))
  /\ accepted' = (accepted /\ (e.tag \in OtherTag => e.id # NoId))
  /\ document' = IF e.tag \in OtherTag /\ e.id # NoId
                 THEN [document EXCEPT ![e.id] =
                        [name |-> e.tag, id |-> e.id, nested |-> kids]]
                 ELSE document
  /\ UNCHANGED kids

-----------------------------------------------------------------------------
(* The start handlers. *)

\* Start_Argument, Start_Ellipsis, Start_EnumValue, Start_Base: the names the
\* current element may have.
Parents(tag) ==
  CASE tag = "EnumValue" -> {"Enumeration"}
    [] tag = "Base" -> {"Class", "Struct"}
    [] OTHER -> OtherTag

StartNested(tag) ==
  LET fits == m_CurrentElement # Null /\ m_CurrentElement.name \in Parents(tag)
  IN  /\ m_SourceParseError' = (m_SourceParseError \/ ~ fits)
      /\ m_CurrentElement' =
           IF fits THEN [m_CurrentElement EXCEPT !.nested = Append(@, tag)]
                   ELSE m_CurrentElement
      /\ UNCHANGED << m_UnknownElementNesting, m_ElementMap, m_FileMap >>

\* Mutant: the element is rejected without an error.
RejectSilently ==
  /\ m_UnknownElementNesting' = m_UnknownElementNesting + 1
  /\ UNCHANGED << m_CurrentElement, m_SourceParseError, m_ElementMap, m_FileMap >>

\* The element is rejected, with everything inside it.
Reject ==
  /\ m_UnknownElementNesting' = m_UnknownElementNesting + 1
  /\ m_SourceParseError' = TRUE
  /\ UNCHANGED << m_CurrentElement, m_ElementMap, m_FileMap >>

\* Mutant: the file is recorded although its id is missing.
StartFileWithoutId(id, hasName) ==
  /\ m_FileMap' = IF hasName THEN m_FileMap \cup {id} ELSE m_FileMap
  /\ UNCHANGED << m_CurrentElement, m_UnknownElementNesting, m_SourceParseError,
                  m_ElementMap >>

\* Start_File: recorded only when both attributes are there.
StartFile(id, hasName) ==
  /\ m_FileMap' = IF id # NoId /\ hasName THEN m_FileMap \cup {id} ELSE m_FileMap
  /\ UNCHANGED << m_CurrentElement, m_UnknownElementNesting, m_SourceParseError,
                  m_ElementMap >>

StartOther(tag, id) ==
  /\ m_CurrentElement' = [name |-> tag, id |-> id, nested |-> << >>]
  /\ UNCHANGED << m_UnknownElementNesting, m_SourceParseError, m_ElementMap,
                  m_FileMap >>

\* Mutant: what is inside a rejected element is not counted.
StartElementUncounted(tag, id, hasName) ==
  \/ m_UnknownElementNesting > 0 /\ UNCHANGED parserVars
  \/ /\ m_UnknownElementNesting = 0
     /\ \/ tag = "GCC_XML" /\ UNCHANGED parserVars
        \/ tag \in NestedTag /\ StartNested(tag)
        \/ /\ tag \notin {"GCC_XML"} \cup NestedTag
           /\ \/ m_CurrentElement # Null /\ Reject
              \/ /\ m_CurrentElement = Null
                 /\ \/ tag = "File" /\ StartFile(id, hasName)
                    \/ tag \in PlainTag \ {"File"} /\ UNCHANGED parserVars
                    \/ tag \in OtherTag /\ StartOther(tag, id)
                    \/ tag \notin KnownTag /\ Reject

StartElement(tag, id, hasName) ==
  \/ /\ m_UnknownElementNesting > 0
     /\ m_UnknownElementNesting' = m_UnknownElementNesting + 1
     /\ UNCHANGED << m_CurrentElement, m_SourceParseError, m_ElementMap, m_FileMap >>
  \/ /\ m_UnknownElementNesting = 0
     /\ \/ tag = "GCC_XML" /\ UNCHANGED parserVars
        \/ tag \in NestedTag /\ StartNested(tag)
        \/ /\ tag \notin {"GCC_XML"} \cup NestedTag
           /\ \/ m_CurrentElement # Null /\ Reject
              \/ /\ m_CurrentElement = Null
                 /\ \/ tag = "File" /\ StartFile(id, hasName)
                    \/ tag \in PlainTag \ {"File"} /\ UNCHANGED parserVars
                    \/ tag \in OtherTag /\ StartOther(tag, id)
                    \/ tag \notin KnownTag /\ Reject

-----------------------------------------------------------------------------
(* The end handlers. *)

\* Mutant: the first definition of an id is kept.
EndOtherKeepsFirst ==
  /\ m_CurrentElement # Null
  /\ m_CurrentElement' = Null
  /\ \/ /\ m_CurrentElement.id = NoId
        /\ m_SourceParseError' = TRUE
        /\ UNCHANGED m_ElementMap
     \/ /\ m_CurrentElement.id # NoId
        /\ m_ElementMap' = IF m_ElementMap[m_CurrentElement.id] # Null THEN m_ElementMap
             ELSE [m_ElementMap EXCEPT ![m_CurrentElement.id] = m_CurrentElement]
        /\ UNCHANGED m_SourceParseError
  /\ UNCHANGED << m_UnknownElementNesting, m_FileMap >>

\* EndOther dereferences m_CurrentElement (see NoNullDereference).
EndOther ==
  /\ m_CurrentElement # Null
  /\ m_CurrentElement' = Null
  /\ \/ /\ m_CurrentElement.id = NoId
        /\ m_SourceParseError' = TRUE
        /\ UNCHANGED m_ElementMap
     \/ /\ m_CurrentElement.id # NoId
        /\ m_ElementMap' = [m_ElementMap EXCEPT ![m_CurrentElement.id] = m_CurrentElement]
        /\ UNCHANGED m_SourceParseError
  /\ UNCHANGED << m_UnknownElementNesting, m_FileMap >>

EndElement(tag) ==
  \/ /\ m_UnknownElementNesting > 0
     /\ m_UnknownElementNesting' = m_UnknownElementNesting - 1
     /\ UNCHANGED << m_CurrentElement, m_SourceParseError, m_ElementMap, m_FileMap >>
  \/ /\ m_UnknownElementNesting = 0
     /\ \/ tag \in OtherTag /\ EndOther
        \/ tag \notin OtherTag /\ UNCHANGED parserVars

-----------------------------------------------------------------------------
(* XMLParser::Parse, and expat as it uses it. *)

\* Parse creates the expat parser; ParseStream clears the error state.
BeginParse ==
  /\ phase = "new"
  /\ phase' = "stream"
  /\ m_SourceParseError' = FALSE
  /\ m_UnknownElementNesting' = 0
  /\ UNCHANGED << m_CurrentElement, m_ElementMap, m_FileMap, m_SourceRepresentation,
                  open, tags, result, history >>

RootClosed == tags > 0 /\ open = << >>

\* The attributes some handler reads: the id of an element StartOther opens, the
\* id and the name of a File.  The others are left at one value.
AttributesRead(tag, id, hasName) ==
  /\ id # NoId => tag \in OtherTag \cup {"File"}
  /\ hasName => tag = "File"

StartTag(tag, id, hasName) ==
  /\ phase = "stream"
  /\ AttributesRead(tag, id, hasName)
  /\ ~ RootClosed
  /\ tags < MaxTags
  /\ Len(open) < MaxDepth
  /\ open' = Append(open, [tag |-> tag, id |-> id])
  /\ tags' = tags + 1
  /\ StartElement(tag, id, hasName)
  /\ DocumentStart(tag)
  /\ UNCHANGED << m_SourceRepresentation, phase, result >>

EndTag ==
  /\ phase = "stream"
  /\ open # << >>
  /\ open' = SubSeq(open, 1, Len(open) - 1)
  /\ EndElement(open[Len(open)].tag)
  /\ DocumentEnd(open[Len(open)])
  /\ UNCHANGED << m_SourceRepresentation, tags, phase, result >>

\* ParseBuffer: expat finds a syntax error in the block just read.
SyntaxError ==
  /\ phase = "stream"
  /\ phase' = "returned"
  /\ result' = FALSE
  /\ UNCHANGED << parserVars, m_SourceRepresentation, open, tags, history >>

\* Mutant: the root element is not checked at the end of the input.
EndOfInputUnchecked ==
  /\ phase = "stream"
  /\ phase' = "returned"
  /\ result' = ~ m_SourceParseError
  /\ UNCHANGED << parserVars, m_SourceRepresentation, open, tags, history >>

\* The stream has ended.  ParseStream reports the handlers' errors, and only
\* after that does Parse let expat check that the root element was closed.
EndOfInput ==
  /\ phase = "stream"
  /\ phase' = "returned"
  /\ result' = (~ m_SourceParseError /\ RootClosed)
  /\ UNCHANGED << parserVars, m_SourceRepresentation, open, tags, history >>

\* The callers ask for the representation only when Parse succeeded.  Its
\* construction is the subject of SourceConstruction: it may succeed or fail.
GetSourceRepresentation ==
  /\ phase = "returned"
  /\ result
  /\ phase' = "asked"
  /\ \/ /\ m_SourceParseError \/ \A id \in Id : m_ElementMap[id] = Null
        /\ UNCHANGED m_SourceRepresentation
     \/ /\ ~ m_SourceParseError
        /\ \E id \in Id : m_ElementMap[id] # Null
        /\ m_SourceRepresentation' \in BOOLEAN
  /\ UNCHANGED << parserVars, open, tags, result, history >>

Init ==
  /\ m_CurrentElement = Null
  /\ m_UnknownElementNesting \in {0, 1}     \* not set by the constructor
  /\ m_SourceParseError = FALSE
  /\ m_ElementMap = [id \in Id |-> Null]
  /\ m_FileMap = {}
  /\ m_SourceRepresentation = FALSE
  /\ open = << >>
  /\ tags = 0
  /\ phase = "new"
  /\ result = FALSE
  /\ legal = TRUE
  /\ accepted = TRUE
  /\ kids = << >>
  /\ document = [id \in Id |-> Null]

\* The program stops with the parser after GetSourceRepresentation, or when
\* Parse has failed.
Done == (phase = "asked" \/ (phase = "returned" /\ ~ result)) /\ UNCHANGED vars

Next ==
  \/ BeginParse
  \/ \E tag \in Tag, id \in Id \cup {NoId}, hasName \in BOOLEAN : StartTag(tag, id, hasName)
  \/ EndTag
  \/ SyntaxError
  \/ EndOfInput
  \/ GetSourceRepresentation
  \/ Done

Spec == Init /\ [][Next]_vars

-----------------------------------------------------------------------------
(* Properties. *)

\* Every variable has its type; an element pointer is null or an element.
TypeOK ==
  /\ m_CurrentElement \in Element \cup {Null}
  /\ m_UnknownElementNesting \in Nat
  /\ m_SourceParseError \in BOOLEAN
  /\ m_ElementMap \in [Id -> Element \cup {Null}]
  /\ m_FileMap \subseteq Id
  /\ m_SourceRepresentation \in BOOLEAN
  /\ open \in Seq([tag : Tag, id : Id \cup {NoId}])
  /\ tags \in Nat
  /\ phase \in {"new", "stream", "returned", "asked"}
  /\ result \in BOOLEAN
  /\ legal \in BOOLEAN
  /\ accepted \in BOOLEAN
  /\ kids \in Seq(Tag)
  /\ document \in [Id -> Element \cup {Null}]

\* EndOther dereferences m_CurrentElement without a test: whatever tags came
\* before, rejected ones included, the end tag that reaches it finds the element
\* that its own start tag opened.
NoNullDereference ==
  phase = "stream" /\ open # << >> /\ m_UnknownElementNesting = 0 =>
    LET top == open[Len(open)]
    IN  top.tag \in OtherTag =>
          /\ m_CurrentElement # Null
          /\ m_CurrentElement.name = top.tag
          /\ m_CurrentElement.id = top.id

\* The error flag is set exactly when a tag breaks the grammar in another way than
\* by an Argument or Ellipsis in an element that is not function-style, which the
\* messages of Start_Argument and Start_Ellipsis refuse and their code takes; a legal
\* document is never refused.  The state the handlers keep (one element pointer and
\* one counter) decides what the whole stack of open tags decides.
ErrorIffNotAccepted ==
  /\ phase # "new" => (m_SourceParseError <=> ~ accepted)
  /\ legal => accepted

\* As long as the document is accepted, the element map holds the elements the
\* document defines, each with all of its nested elements, misplaced ones included,
\* the last definition of an id winning.
MapIsDocument == accepted => m_ElementMap = document

\* The open tags that were handled, below the ones rejected with their contents.
Handled == Len(open) - m_UnknownElementNesting

\* Of the open tags that were handled at most one is an OtherTag, and
\* m_CurrentElement is the element it opened; Null when there is none.  Only a
\* document with an error has rejected tags.
CurrentIsOpen ==
  /\ m_UnknownElementNesting <= Len(open)
  /\ m_UnknownElementNesting > 0 => m_SourceParseError
  /\ m_CurrentElement # Null => \E i \in 1 .. Handled : open[i].tag \in OtherTag
  /\ \A i \in 1 .. Handled : open[i].tag \in OtherTag =>
       /\ m_CurrentElement # Null
       /\ m_CurrentElement.name = open[i].tag
       /\ m_CurrentElement.id = open[i].id
       /\ \A j \in 1 .. Handled : open[j].tag \in OtherTag => j = i

\* The nested elements collected so far are the nested tags of the document.
NestedIsKids ==
  accepted /\ m_CurrentElement # Null => m_CurrentElement.nested = kids

\* A representation is only ever constructed from a complete document, one that is
\* legal but for misplaced Argument and Ellipsis elements.
RepresentationOfDocument ==
  m_SourceRepresentation =>
    /\ accepted
    /\ RootClosed
    /\ m_CurrentElement = Null
    /\ m_ElementMap = document

-----------------------------------------------------------------------------
(***************************************************************************)
(* The inductive invariant behind these properties.  Before Parse the      *)
(* counter is not yet set; from then on the phase decides what the result  *)
(* may claim.                                                              *)
(***************************************************************************)
ResultIsCorrect ==
  /\ phase = "new" => /\ open = << >>
                      /\ tags = 0
                      /\ m_CurrentElement = Null
                      /\ legal
                      /\ accepted
  /\ result => ~ m_SourceParseError /\ RootClosed /\ phase # "stream"
  /\ m_SourceRepresentation => result

IInv ==
  /\ TypeOK
  /\ phase # "new" => CurrentIsOpen
  /\ ErrorIffNotAccepted
  /\ NestedIsKids
  /\ MapIsDocument
  /\ ResultIsCorrect

=============================================================================
