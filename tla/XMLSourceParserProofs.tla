----------------------- MODULE XMLSourceParserProofs -----------------------
(***************************************************************************)
(* Proofs about the event phase of XMLSourceParser, for every set of       *)
(* element names and ids and for documents of any size.                    *)
(***************************************************************************)
EXTENDS XMLSourceParser, TLAPS

\* How the sets of names that the handlers dispatch on relate.
LEMMA TagFacts ==
  /\ OtherTag \subseteq KnownTag
  /\ NestedTag \subseteq KnownTag
  /\ PlainTag \subseteq KnownTag
  /\ NestedTag \cap OtherTag = {}
  /\ PlainTag \cap OtherTag = {}
  /\ PlainTag \cap NestedTag = {}
  /\ "GCC_XML" \in KnownTag \ (NestedTag \cup PlainTag \cup OtherTag)
  /\ "File" \in PlainTag
  /\ "Enumeration" \in OtherTag
  /\ {"Class", "Struct"} \subseteq OtherTag
  /\ FunctionStyle \subseteq OtherTag
  /\ KnownTag = {"GCC_XML"} \cup NestedTag \cup PlainTag \cup OtherTag
<1>1. /\ NestedTag \cap OtherTag = {}
      /\ PlainTag \cap OtherTag = {}
      /\ PlainTag \cap NestedTag = {}
  BY DEF OtherTag, NestedTag, PlainTag
<1>2. "GCC_XML" \notin NestedTag \cup PlainTag \cup OtherTag
  BY DEF OtherTag, NestedTag, PlainTag
<1>3. /\ "File" \in PlainTag
      /\ "Enumeration" \in OtherTag
      /\ {"Class", "Struct"} \subseteq OtherTag
  BY DEF OtherTag, PlainTag
<1>4. FunctionStyle \subseteq OtherTag
  BY DEF FunctionStyle, OtherTag
<1>5. QED
  BY <1>1, <1>2, <1>3, <1>4 DEF KnownTag

\* What the handlers accept: an Argument or Ellipsis in any open top-level element.
LEMMA AcceptedFacts ==
  ASSUME NEW stack, NEW tag
  PROVE  Accepted(stack, tag) <=>
           /\ tag \in KnownTag
           /\ tag \in {"Argument", "Ellipsis"} => Inside(stack, OtherTag)
           /\ tag = "EnumValue" => Inside(stack, {"Enumeration"})
           /\ tag = "Base" => Inside(stack, {"Class", "Struct"})
           /\ tag \in PlainTag \cup OtherTag => ~ Inside(stack, OtherTag)
<1>1. Inside(stack, FunctionStyle) => Inside(stack, OtherTag)
  BY TagFacts DEF Inside
<1>2. tag \in {"Argument", "Ellipsis"} =>
        /\ tag \in KnownTag /\ tag # "EnumValue" /\ tag # "Base"
        /\ tag \notin PlainTag \cup OtherTag
  BY TagFacts DEF NestedTag
<1>3. CASE tag \in {"Argument", "Ellipsis"}
  BY <1>1, <1>2, <1>3 DEF Accepted, Allowed, Tolerated
<1>4. CASE tag \notin {"Argument", "Ellipsis"}
  BY <1>4 DEF Accepted, Allowed, Tolerated
<1>5. QED
  BY <1>3, <1>4

\* In an accepted document nothing is rejected, so every open tag is a handled one and
\* what the grammar asks of the stack is what the handlers ask of the current
\* element.
LEMMA InsideIsCurrent ==
  ASSUME IInv, phase # "new", accepted, NEW S \in SUBSET OtherTag
  PROVE  /\ m_UnknownElementNesting = 0
         /\ Inside(open, S) <=> (m_CurrentElement # Null /\ m_CurrentElement.name \in S)
<1>1. m_UnknownElementNesting = 0
  BY DEF IInv, CurrentIsOpen, ErrorIffNotAccepted, TypeOK
<1>2. Len(open) \in Nat
  BY DEF IInv, TypeOK
<1>3. Handled = Len(open)
  BY <1>1, <1>2 DEF Handled
<1>4. ASSUME Inside(open, S)
      PROVE  m_CurrentElement # Null /\ m_CurrentElement.name \in S
  BY <1>3, <1>4 DEF Inside, IInv, CurrentIsOpen
<1>5. ASSUME m_CurrentElement # Null, m_CurrentElement.name \in S
      PROVE  Inside(open, S)
  <2>1. PICK i \in 1 .. Len(open) : open[i].tag \in OtherTag
    BY <1>3, <1>5 DEF IInv, CurrentIsOpen
  <2>2. m_CurrentElement.name = open[i].tag
    BY <2>1, <1>3 DEF IInv, CurrentIsOpen
  <2>3. QED
    BY <2>1, <2>2, <1>5 DEF Inside
<1>6. QED
  BY <1>1, <1>4, <1>5

\* A start tag pushes one tag on expat's stack and an end tag removes it.
LEMMA Push ==
  ASSUME NEW T, NEW s \in Seq(T), NEW e \in T
  PROVE  /\ Append(s, e) \in Seq(T)
         /\ Len(Append(s, e)) = Len(s) + 1
         /\ \A i \in 1 .. Len(s) : Append(s, e)[i] = s[i]
         /\ Append(s, e)[Len(s) + 1] = e
OBVIOUS

\* Removing the last tag keeps the others where they are.
LEMMA Pop ==
  ASSUME NEW T, NEW s \in Seq(T), s # << >>
  PROVE  /\ Len(s) \in Nat \ {0}
         /\ s[Len(s)] \in T
         /\ SubSeq(s, 1, Len(s) - 1) \in Seq(T)
         /\ Len(SubSeq(s, 1, Len(s) - 1)) = Len(s) - 1
         /\ \A i \in 1 .. Len(s) - 1 : SubSeq(s, 1, Len(s) - 1)[i] = s[i]
OBVIOUS

-----------------------------------------------------------------------------
\* What every start tag does, whichever handler it reaches.
StartFact(tag, id) ==
  /\ open \in Seq([tag : Tag, id : Id \cup {NoId}])
  /\ open' \in Seq([tag : Tag, id : Id \cup {NoId}])
  /\ Len(open) \in Nat
  /\ Len(open') = Len(open) + 1
  /\ \A i \in 1 .. Len(open) : open'[i] = open[i]
  /\ open'[Len(open) + 1].tag = tag
  /\ open'[Len(open) + 1].id = id
  /\ m_UnknownElementNesting \in Nat
  /\ m_SourceParseError \in BOOLEAN /\ accepted \in BOOLEAN
  /\ m_SourceParseError <=> ~ accepted
  /\ phase = "stream"
  /\ result = FALSE
  /\ UNCHANGED << m_SourceRepresentation, phase, result, document >>
  /\ m_SourceRepresentation = FALSE
  /\ tags' \in Nat
  /\ kids' \in Seq(Tag)
  /\ accepted' \in BOOLEAN
  /\ accepted' <=> (accepted /\ Accepted(open, tag))
  /\ legal' \in BOOLEAN
  /\ legal' => accepted'

\* What StartTag does besides calling StartElement.
LEMMA StartFacts ==
  ASSUME IInv, NEW tag \in Tag, NEW id \in Id \cup {NoId}, NEW hasName \in BOOLEAN,
         StartTag(tag, id, hasName)
  PROVE  StartFact(tag, id)
<1> DEFINE e == [tag |-> tag, id |-> id]
<1>1. e \in [tag : Tag, id : Id \cup {NoId}] /\ open' = Append(open, e)
  BY DEF StartTag
<1>2. open \in Seq([tag : Tag, id : Id \cup {NoId}])
  BY DEF IInv, TypeOK
<1>3. /\ open' \in Seq([tag : Tag, id : Id \cup {NoId}])
      /\ Len(open) \in Nat
      /\ Len(open') = Len(open) + 1
      /\ \A i \in 1 .. Len(open) : open'[i] = open[i]
      /\ open'[Len(open) + 1] = e
  BY <1>1, <1>2, Push
<1>4. kids' \in Seq(Tag)
  <2>1. kids \in Seq(Tag)
    BY DEF IInv, TypeOK
  <2>2. << >> \in Seq(Tag) /\ Append(kids, tag) \in Seq(Tag)
    BY <2>1
  <2>3. kids' \in {<< >>, Append(kids, tag), kids}
    BY DEF StartTag, DocumentStart
  <2>4. QED
    BY <2>1, <2>2, <2>3
<1>5. /\ phase = "stream"
      /\ UNCHANGED << m_SourceRepresentation, phase, result, document >>
      /\ tags' = tags + 1
      /\ accepted' = (accepted /\ Accepted(open, tag))
  BY DEF StartTag, DocumentStart
<1>6. result = FALSE /\ m_SourceRepresentation = FALSE /\ tags \in Nat
  BY <1>5 DEF IInv, TypeOK, ResultIsCorrect
<1>7. accepted \in BOOLEAN /\ m_SourceParseError \in BOOLEAN /\ m_UnknownElementNesting \in Nat
  BY DEF IInv, TypeOK
<1>8. m_SourceParseError <=> ~ accepted
  BY <1>5 DEF IInv, ErrorIffNotAccepted
<1>9. accepted' \in BOOLEAN /\ (accepted' <=> (accepted /\ Accepted(open, tag)))
  BY <1>5, <1>7
<1>10. open'[Len(open) + 1].tag = tag /\ open'[Len(open) + 1].id = id
  BY <1>3
<1>11. tags' \in Nat
  BY <1>5, <1>6
<1>12. legal' \in BOOLEAN /\ (legal' => accepted')
  <2>1. legal \in BOOLEAN /\ (legal => accepted)
    BY DEF IInv, TypeOK, ErrorIffNotAccepted
  <2>2. legal' = (legal /\ Allowed(open, tag))
    BY DEF StartTag, DocumentStart
  <2>3. Allowed(open, tag) => Accepted(open, tag)
    BY DEF Accepted
  <2>4. QED
    BY <1>9, <2>1, <2>2, <2>3
<1>13. QED
  BY <1>2, <1>3, <1>4, <1>5, <1>6, <1>7, <1>8, <1>9, <1>10, <1>11, <1>12 DEF StartFact

\* A start tag inside a rejected element.
LEMMA StartRejected ==
  ASSUME IInv, NEW tag \in Tag, NEW id \in Id \cup {NoId}, NEW hasName \in BOOLEAN,
         StartTag(tag, id, hasName), m_UnknownElementNesting > 0
  PROVE  IInv'
<1>1. StartFact(tag, id)
  BY StartFacts
<1>2. /\ m_UnknownElementNesting' = m_UnknownElementNesting + 1
      /\ UNCHANGED << m_CurrentElement, m_SourceParseError, m_ElementMap, m_FileMap >>
  BY DEF StartTag, StartElement
<1>3. m_SourceParseError /\ accepted' = FALSE
  BY <1>1 DEF StartFact, IInv, CurrentIsOpen
<1>4. TypeOK'
  BY <1>1, <1>2 DEF StartFact, IInv, TypeOK
<1>5. CurrentIsOpen'
  <2>1. Handled' = Handled /\ Handled \in Int /\ Handled <= Len(open)
    BY <1>1, <1>2 DEF StartFact, Handled
  <2>2. \A i \in 1 .. Handled : open'[i] = open[i]
    BY <1>1, <2>1 DEF StartFact
  <2>3. m_UnknownElementNesting' <= Len(open')
    BY <1>1, <1>2 DEF StartFact, IInv, CurrentIsOpen
  <2>4. QED
    BY <1>1, <1>2, <1>3, <2>1, <2>2, <2>3 DEF StartFact, IInv, CurrentIsOpen
<1>6. QED
  BY <1>1, <1>2, <1>3, <1>4, <1>5
  DEF StartFact, IInv, ErrorIffNotAccepted, NestedIsKids, MapIsDocument, ResultIsCorrect

\* A start tag that reaches a handler.
LEMMA StartHandled ==
  ASSUME IInv, NEW tag \in Tag, NEW id \in Id \cup {NoId}, NEW hasName \in BOOLEAN,
         StartTag(tag, id, hasName), m_UnknownElementNesting = 0
  PROVE  IInv'
<1>1. StartFact(tag, id)
  BY StartFacts
<1>2. Handled = Len(open)
  BY <1>1 DEF StartFact, Handled
<1>3. /\ m_CurrentElement # Null => \E i \in 1 .. Len(open) : open[i].tag \in OtherTag
      /\ \A i \in 1 .. Len(open) : open[i].tag \in OtherTag =>
           /\ m_CurrentElement # Null
           /\ m_CurrentElement.name = open[i].tag
           /\ m_CurrentElement.id = open[i].id
           /\ \A j \in 1 .. Len(open) : open[j].tag \in OtherTag => j = i
  BY <1>1, <1>2 DEF StartFact, IInv, CurrentIsOpen
<1>4. accepted =>
        /\ Inside(open, OtherTag) <=> m_CurrentElement # Null
        /\ Inside(open, {"Enumeration"}) <=>
             m_CurrentElement # Null /\ m_CurrentElement.name = "Enumeration"
        /\ Inside(open, {"Class", "Struct"}) <=>
             m_CurrentElement # Null /\ m_CurrentElement.name \in {"Class", "Struct"}
  <2>1. phase # "new"
    BY <1>1 DEF StartFact
  <2>2. m_CurrentElement # Null => m_CurrentElement.name \in OtherTag
    BY <1>3
  <2>3. ASSUME accepted, NEW S \in SUBSET OtherTag
        PROVE  Inside(open, S) <=> (m_CurrentElement # Null /\ m_CurrentElement.name \in S)
    BY <2>1, <2>3, InsideIsCurrent
  <2>4. OtherTag \in SUBSET OtherTag /\ {"Enumeration"} \in SUBSET OtherTag
        /\ {"Class", "Struct"} \in SUBSET OtherTag
    BY TagFacts
  <2>5. ASSUME accepted
        PROVE  Inside(open, OtherTag) <=> m_CurrentElement # Null
    BY <2>2, <2>3, <2>4, <2>5
  <2>6. ASSUME accepted
        PROVE  Inside(open, {"Enumeration"}) <=>
                 m_CurrentElement # Null /\ m_CurrentElement.name \in {"Enumeration"}
    BY <2>3, <2>4, <2>6
  <2>7. ASSUME accepted
        PROVE  Inside(open, {"Class", "Struct"}) <=>
                 m_CurrentElement # Null /\ m_CurrentElement.name \in {"Class", "Struct"}
    BY <2>3, <2>4, <2>7
  <2>8. QED
    BY <2>5, <2>6, <2>7
<1>5. ASSUME m_UnknownElementNesting' = 0, tag \notin OtherTag,
             m_CurrentElement' = Null <=> m_CurrentElement = Null,
             m_CurrentElement # Null => /\ m_CurrentElement'.name = m_CurrentElement.name
                                        /\ m_CurrentElement'.id = m_CurrentElement.id
      PROVE  CurrentIsOpen'
  <2>1. Handled' = Len(open) + 1
    BY <1>1, <1>5 DEF StartFact, Handled
  <2>2. \A i \in 1 .. Len(open) + 1 : open'[i].tag \in OtherTag =>
          i \in 1 .. Len(open) /\ open'[i] = open[i]
    BY <1>1, <1>5 DEF StartFact
  <2>3. m_CurrentElement' # Null => \E i \in 1 .. Len(open) + 1 : open'[i].tag \in OtherTag
    BY <1>1, <1>3, <1>5 DEF StartFact
  <2>4. QED
    BY SMTT(30), <1>1, <1>3, <1>5, <2>1, <2>2, <2>3 DEF StartFact, CurrentIsOpen
<1>6. ASSUME m_CurrentElement' \in Element \cup {Null}, m_UnknownElementNesting' \in Nat,
             m_SourceParseError' \in BOOLEAN, m_FileMap' \subseteq Id,
             m_ElementMap' = m_ElementMap, CurrentIsOpen', ErrorIffNotAccepted', NestedIsKids'
      PROVE  IInv'
  <2>1. TypeOK'
    BY <1>1, <1>6 DEF StartFact, IInv, TypeOK
  <2>2. MapIsDocument'
    BY <1>1, <1>6 DEF StartFact, IInv, MapIsDocument
  <2>3. QED
    BY <1>1, <1>6, <2>1, <2>2 DEF StartFact, IInv, ResultIsCorrect
<1>7. /\ m_CurrentElement \in Element \cup {Null}
      /\ m_FileMap \subseteq Id
      /\ kids \in Seq(Tag)
      /\ accepted /\ m_CurrentElement # Null => m_CurrentElement.nested = kids
  BY DEF IInv, TypeOK, NestedIsKids
<1>8. StartElement(tag, id, hasName) /\ DocumentStart(tag)
  BY DEF StartTag
<1>9. CASE tag = "GCC_XML" /\ UNCHANGED parserVars
  <2>1. tag \in KnownTag /\ tag \notin NestedTag \cup PlainTag \cup OtherTag
    BY <1>9, TagFacts
  <2>2. Accepted(open, tag)
    BY <2>1, AcceptedFacts DEF NestedTag
  <2>3. kids' = kids
    BY <1>8, <2>1 DEF DocumentStart
  <2>4. CurrentIsOpen'
    BY <1>5, <1>9, <2>1 DEF parserVars
  <2>5. ErrorIffNotAccepted' /\ NestedIsKids'
    BY <1>1, <1>7, <1>9, <2>2, <2>3 DEF StartFact, ErrorIffNotAccepted, NestedIsKids, parserVars
  <2>6. QED
    BY <1>1, <1>6, <1>7, <1>9, <2>4, <2>5 DEF StartFact, parserVars
<1>10. CASE tag \in NestedTag /\ StartNested(tag)
  <2> DEFINE fits == m_CurrentElement # Null /\ m_CurrentElement.name \in Parents(tag)
  <2>1. tag \in KnownTag /\ tag \notin OtherTag /\ tag \notin PlainTag
    BY <1>10, TagFacts
  <2>2. accepted => (Accepted(open, tag) <=> fits)
    <3>1. tag \in {"Argument", "Ellipsis", "EnumValue", "Base"}
      BY <1>10 DEF NestedTag
    <3>2. m_CurrentElement # Null => m_CurrentElement.name \in OtherTag
      BY <1>3
    <3>3. CASE tag \in {"Argument", "Ellipsis"}
      <4>1. Parents(tag) = OtherTag
        BY <3>3 DEF Parents
      <4>2. Accepted(open, tag) <=> Inside(open, OtherTag)
        BY <2>1, <3>3, AcceptedFacts
      <4>3. QED
        BY <1>4, <3>2, <4>1, <4>2
    <3>4. CASE tag = "EnumValue"
      <4>1. Parents(tag) = {"Enumeration"}
        BY <3>4 DEF Parents
      <4>2. Accepted(open, tag) <=> Inside(open, {"Enumeration"})
        BY <2>1, <3>4, AcceptedFacts
      <4>3. QED
        BY <1>4, <4>1, <4>2
    <3>5. CASE tag = "Base"
      <4>1. Parents(tag) = {"Class", "Struct"}
        BY <3>5 DEF Parents
      <4>2. Accepted(open, tag) <=> Inside(open, {"Class", "Struct"})
        BY <2>1, <3>5, AcceptedFacts
      <4>3. QED
        BY <1>4, <4>1, <4>2
    <3>6. QED
      BY <3>1, <3>3, <3>4, <3>5
  <2>3. kids' = Append(kids, tag)
    BY <1>8, <1>10, <2>1 DEF DocumentStart
  <2>4. /\ m_SourceParseError' = (m_SourceParseError \/ ~ fits)
        /\ fits => m_CurrentElement' = [m_CurrentElement EXCEPT !.nested = Append(@, tag)]
        /\ ~ fits => m_CurrentElement' = m_CurrentElement
        /\ UNCHANGED << m_UnknownElementNesting, m_ElementMap, m_FileMap >>
    BY <1>10 DEF StartNested
  <2>5. CASE fits
    <3>1. m_CurrentElement \in Element
      BY <1>7, <2>5
    <3>2. /\ m_CurrentElement' \in Element
          /\ m_CurrentElement'.name = m_CurrentElement.name
          /\ m_CurrentElement'.id = m_CurrentElement.id
          /\ m_CurrentElement'.nested = Append(m_CurrentElement.nested, tag)
      BY SMTT(30), <2>4, <2>5, <3>1 DEF Element
    <3>3. m_CurrentElement' # Null
      BY <3>2, ParserAssumption
    <3>4. CurrentIsOpen'
      BY <1>5, <2>1, <2>4, <2>5, <3>2, <3>3
    <3>5. m_SourceParseError' \in BOOLEAN /\ (m_SourceParseError' <=> ~ accepted')
      BY <1>1, <2>2, <2>4, <2>5 DEF StartFact
    <3>6. ErrorIffNotAccepted'
      BY <1>1, <3>5 DEF StartFact, ErrorIffNotAccepted
    <3>7. NestedIsKids'
      BY <1>1, <1>7, <2>3, <2>5, <3>2 DEF StartFact, NestedIsKids
    <3>8. QED
      BY <1>1, <1>6, <1>7, <2>4, <3>2, <3>4, <3>5, <3>6, <3>7 DEF StartFact
  <2>6. CASE ~ fits
    <3>1. m_SourceParseError' = TRUE /\ m_CurrentElement' = m_CurrentElement
      BY <2>4, <2>6
    <3>2. accepted' = FALSE
      BY <1>1, <2>2, <2>6 DEF StartFact
    <3>3. CurrentIsOpen'
      BY <1>5, <2>1, <2>4, <3>1
    <3>4. ErrorIffNotAccepted' /\ NestedIsKids'
      BY <1>1, <3>1, <3>2 DEF StartFact, ErrorIffNotAccepted, NestedIsKids
    <3>5. QED
      BY <1>1, <1>6, <1>7, <2>4, <3>1, <3>3, <3>4 DEF StartFact
  <2>7. QED
    BY <2>5, <2>6
<1>11. CASE /\ Reject
            /\ tag \notin {"GCC_XML"} \cup NestedTag
            /\ m_CurrentElement # Null \/ tag \notin KnownTag
  <2>1. accepted => ~ Accepted(open, tag)
    <3>1. tag \notin KnownTag => ~ Accepted(open, tag)
      BY AcceptedFacts
    <3>2. tag \in KnownTag => tag \in PlainTag \cup OtherTag
      BY <1>11, TagFacts
    <3>3. tag \in PlainTag \cup OtherTag /\ Accepted(open, tag) => ~ Inside(open, OtherTag)
      BY AcceptedFacts
    <3>4. accepted /\ m_CurrentElement # Null => Inside(open, OtherTag)
      BY <1>4
    <3>5. QED
      BY <1>11, <3>1, <3>2, <3>3, <3>4
  <2>2. accepted' = FALSE
    BY <1>1, <2>1 DEF StartFact
  <2>3. /\ m_UnknownElementNesting' = 1
        /\ m_SourceParseError' = TRUE
        /\ UNCHANGED << m_CurrentElement, m_ElementMap, m_FileMap >>
    BY <1>11 DEF Reject
  <2>4. CurrentIsOpen'
    <3>1. Handled' = Len(open)
      BY <1>1, <2>3 DEF StartFact, Handled
    <3>2. \A i \in 1 .. Len(open) : open'[i] = open[i]
      BY <1>1 DEF StartFact
    <3>3. 1 <= Len(open')
      BY <1>1 DEF StartFact
    <3>4. QED
      BY <1>1, <1>3, <2>3, <3>1, <3>2, <3>3 DEF CurrentIsOpen
  <2>5. ErrorIffNotAccepted' /\ NestedIsKids'
    BY <1>1, <2>2, <2>3 DEF StartFact, ErrorIffNotAccepted, NestedIsKids
  <2>6. QED
    BY <1>6, <1>7, <2>3, <2>4, <2>5
<1>12. CASE /\ m_CurrentElement = Null
            /\ tag \in PlainTag
            /\ StartFile(id, hasName) \/ UNCHANGED parserVars
  <2>1. tag \in KnownTag /\ tag \notin OtherTag /\ tag \notin NestedTag
    BY <1>12, TagFacts
  <2>2. accepted => Accepted(open, tag)
    BY <1>4, <1>12, <2>1, AcceptedFacts DEF NestedTag
  <2>3. /\ UNCHANGED << m_CurrentElement, m_UnknownElementNesting, m_SourceParseError,
                        m_ElementMap >>
        /\ m_FileMap' \subseteq Id
    BY <1>7, <1>12 DEF StartFile, parserVars
  <2>4. CurrentIsOpen'
    BY <1>5, <1>12, <2>1, <2>3
  <2>5. ErrorIffNotAccepted' /\ NestedIsKids'
    BY <1>1, <1>12, <2>2, <2>3 DEF StartFact, ErrorIffNotAccepted, NestedIsKids
  <2>6. QED
    BY <1>1, <1>6, <1>7, <2>3, <2>4, <2>5 DEF StartFact
<1>13. CASE /\ m_CurrentElement = Null
            /\ tag \in OtherTag
            /\ StartOther(tag, id)
  <2>1. tag \in KnownTag /\ tag \notin NestedTag
    BY <1>13, TagFacts
  <2>2. accepted => Accepted(open, tag)
    BY <1>4, <1>13, <2>1, AcceptedFacts DEF NestedTag
  <2>3. /\ m_CurrentElement' = [name |-> tag, id |-> id, nested |-> << >>]
        /\ UNCHANGED << m_UnknownElementNesting, m_SourceParseError, m_ElementMap,
                        m_FileMap >>
    BY <1>13 DEF StartOther
  <2>4. m_CurrentElement' \in Element
    BY <2>3 DEF Element
  <2>5. CurrentIsOpen'
    <3>1. Handled' = Len(open) + 1
      BY <1>1, <2>3 DEF StartFact, Handled
    <3>2. \A i \in 1 .. Len(open) + 1 : open'[i].tag \in OtherTag => i = Len(open) + 1
      BY <1>1, <1>3, <1>13 DEF StartFact
    <3>3. m_CurrentElement' # Null
      BY <2>4, ParserAssumption
    <3>4. m_CurrentElement'.name = tag /\ m_CurrentElement'.id = id
      BY <2>3
    <3>5. \E i \in 1 .. Len(open) + 1 : open'[i].tag \in OtherTag
      BY <1>1, <1>13 DEF StartFact
    <3>6. QED
      BY <1>1, <2>3, <3>1, <3>2, <3>3, <3>4, <3>5 DEF StartFact, CurrentIsOpen
  <2>6. kids' = << >>
    BY <1>8, <1>13 DEF DocumentStart
  <2>7. ErrorIffNotAccepted' /\ NestedIsKids'
    BY <1>1, <2>2, <2>3, <2>6 DEF StartFact, ErrorIffNotAccepted, NestedIsKids
  <2>8. QED
    BY <1>1, <1>6, <1>7, <2>3, <2>4, <2>5, <2>7 DEF StartFact
<1>14. QED
  BY <1>8, <1>9, <1>10, <1>11, <1>12, <1>13, TagFacts DEF StartElement

-----------------------------------------------------------------------------
\* An end tag: the rejected element it closes, or the element its start tag opened.
LEMMA EndStep ==
  ASSUME IInv, EndTag
  PROVE  IInv'
<1> DEFINE n == Len(open)
           top == open[n]
<1>1. /\ open \in Seq([tag : Tag, id : Id \cup {NoId}])
      /\ open # << >>
      /\ open' = SubSeq(open, 1, n - 1)
  BY DEF EndTag, IInv, TypeOK
<1>2. /\ open' \in Seq([tag : Tag, id : Id \cup {NoId}])
      /\ n \in Nat \ {0}
      /\ Len(open') = n - 1
      /\ \A i \in 1 .. n - 1 : open'[i] = open[i]
      /\ top \in [tag : Tag, id : Id \cup {NoId}]
  BY <1>1, Pop
<1>3. /\ phase = "stream"
      /\ EndElement(top.tag)
      /\ DocumentEnd(top)
      /\ UNCHANGED << m_SourceRepresentation, tags, phase, result, kids >>
  BY DEF EndTag, DocumentEnd
<1>4. /\ m_UnknownElementNesting \in Nat
      /\ accepted \in BOOLEAN
      /\ m_SourceParseError \in BOOLEAN
      /\ m_SourceParseError <=> ~ accepted
      /\ result = FALSE
      /\ m_SourceRepresentation = FALSE
      /\ CurrentIsOpen
      /\ TypeOK
      /\ legal => accepted
  BY <1>3 DEF IInv, TypeOK, ErrorIffNotAccepted, ResultIsCorrect
<1>5. /\ accepted' \in BOOLEAN
      /\ accepted' <=> (accepted /\ (top.tag \in OtherTag => top.id # NoId))
      /\ legal' \in BOOLEAN
      /\ legal' => accepted'
      /\ document' = IF top.tag \in OtherTag /\ top.id # NoId
                     THEN [document EXCEPT ![top.id] =
                            [name |-> top.tag, id |-> top.id, nested |-> kids]]
                     ELSE document
  BY <1>3, <1>4 DEF DocumentEnd, TypeOK
<1>6. document' \in [Id -> Element \cup {Null}]
  <2>1. document \in [Id -> Element \cup {Null}] /\ kids \in Seq(Tag)
    BY <1>4 DEF TypeOK
  <2>2. [name |-> top.tag, id |-> top.id, nested |-> kids] \in Element
    BY <1>2, <2>1 DEF Element
  <2>3. QED
    BY <1>2, <1>5, <2>1, <2>2
<1>7. ASSUME m_CurrentElement' \in Element \cup {Null}, m_UnknownElementNesting' \in Nat,
             m_SourceParseError' \in BOOLEAN, m_FileMap' = m_FileMap,
             m_ElementMap' \in [Id -> Element \cup {Null}],
             CurrentIsOpen', ErrorIffNotAccepted', NestedIsKids', MapIsDocument'
      PROVE  IInv'
  <2>1. TypeOK'
    BY <1>2, <1>3, <1>4, <1>5, <1>6, <1>7 DEF TypeOK
  <2>2. QED
    BY <1>3, <1>4, <1>7, <2>1 DEF IInv, ResultIsCorrect
<1>8. CASE m_UnknownElementNesting > 0
  <2>1. /\ m_UnknownElementNesting' = m_UnknownElementNesting - 1
        /\ UNCHANGED << m_CurrentElement, m_SourceParseError, m_ElementMap, m_FileMap >>
    BY <1>3, <1>8 DEF EndElement
  <2>2. m_SourceParseError /\ accepted' = FALSE
    BY <1>4, <1>5, <1>8 DEF CurrentIsOpen
  <2>3. CurrentIsOpen'
    <3>1. Handled' = Handled /\ Handled \in Int /\ Handled <= n - 1
      BY <1>2, <1>4, <1>8, <2>1 DEF Handled
    <3>2. \A i \in 1 .. Handled : open'[i] = open[i]
      BY <1>2, <3>1
    <3>3. m_UnknownElementNesting' <= Len(open')
      BY <1>2, <1>4, <2>1 DEF CurrentIsOpen
    <3>4. QED
      BY <1>4, <2>1, <2>2, <3>1, <3>2, <3>3 DEF CurrentIsOpen
  <2>4. ErrorIffNotAccepted' /\ NestedIsKids' /\ MapIsDocument'
    BY <1>5, <2>1, <2>2 DEF ErrorIffNotAccepted, NestedIsKids, MapIsDocument
  <2>5. QED
    BY <1>4, <1>7, <1>8, <2>1, <2>3, <2>4 DEF TypeOK
<1>9. CASE m_UnknownElementNesting = 0 /\ top.tag \notin OtherTag
  <2>1. UNCHANGED parserVars
    BY <1>3, <1>9 DEF EndElement
  <2>2. (accepted' <=> accepted) /\ document' = document
    BY <1>4, <1>5, <1>9
  <2>3. CurrentIsOpen'
    <3>1. Handled = n /\ Handled' = n - 1
      BY <1>2, <1>9, <2>1 DEF Handled, parserVars
    <3>2. \A i \in 1 .. n : open[i].tag \in OtherTag => i \in 1 .. n - 1 /\ open'[i] = open[i]
      BY <1>2, <1>9
    <3>3. UNCHANGED << m_CurrentElement, m_UnknownElementNesting, m_SourceParseError >>
      BY <2>1 DEF parserVars
    <3>4. m_CurrentElement # Null => \E i \in 1 .. n - 1 : open'[i].tag \in OtherTag
      BY <1>4, <3>1, <3>2 DEF CurrentIsOpen
    <3>5. \A i \in 1 .. n - 1 : i \in 1 .. n /\ open'[i] = open[i]
      BY <1>2
    <3>6. QED
      BY <1>2, <1>4, <1>9, <3>1, <3>3, <3>4, <3>5 DEF CurrentIsOpen
  <2>4. ErrorIffNotAccepted' /\ NestedIsKids' /\ MapIsDocument'
    BY <1>3, <1>4, <1>5, <2>1, <2>2
    DEF IInv, ErrorIffNotAccepted, NestedIsKids, MapIsDocument, parserVars
  <2>5. QED
    BY <1>4, <1>7, <2>1, <2>3, <2>4 DEF TypeOK, parserVars
<1>10. CASE m_UnknownElementNesting = 0 /\ top.tag \in OtherTag
  <2>1. Handled = n
    BY <1>2, <1>10 DEF Handled
  <2>2. /\ m_CurrentElement # Null
        /\ m_CurrentElement.name = top.tag
        /\ m_CurrentElement.id = top.id
        /\ \A j \in 1 .. n : open[j].tag \in OtherTag => j = n
    <3>1. n \in 1 .. n
      BY <1>2
    <3>2. QED
      BY <1>4, <1>10, <2>1, <3>1 DEF CurrentIsOpen
  <2>3. EndOther
    BY <1>3, <1>10 DEF EndElement
  <2>4. /\ m_CurrentElement' = Null
        /\ UNCHANGED << m_UnknownElementNesting, m_FileMap >>
    BY <2>3 DEF EndOther
  <2>5. CurrentIsOpen'
    <3>1. Handled' = n - 1
      BY <1>2, <1>10, <2>4 DEF Handled
    <3>2. \A i \in 1 .. n - 1 : open'[i].tag \notin OtherTag
      BY <1>2, <2>2
    <3>3. QED
      BY <1>2, <1>10, <2>4, <3>1, <3>2 DEF CurrentIsOpen
  <2>6. m_CurrentElement \in Element
    BY <1>4, <2>2 DEF TypeOK
  <2>7. m_CurrentElement = [name |-> m_CurrentElement.name, id |-> m_CurrentElement.id,
                            nested |-> m_CurrentElement.nested]
    BY <2>6 DEF Element
  <2>8. CASE top.id = NoId
    <3>1. m_SourceParseError' = TRUE /\ m_ElementMap' = m_ElementMap
      BY <2>2, <2>3, <2>8 DEF EndOther
    <3>2. accepted' = FALSE
      BY <1>5, <1>10, <2>8
    <3>3. ErrorIffNotAccepted' /\ NestedIsKids' /\ MapIsDocument'
      BY <1>5, <3>1, <3>2 DEF ErrorIffNotAccepted, NestedIsKids, MapIsDocument
    <3>4. QED
      BY <1>4, <1>7, <2>4, <2>5, <3>1, <3>3 DEF TypeOK
  <2>9. CASE top.id # NoId
    <3>1. /\ m_ElementMap' = [m_ElementMap EXCEPT ![top.id] = m_CurrentElement]
          /\ m_SourceParseError' = m_SourceParseError
      BY <2>2, <2>3, <2>9 DEF EndOther
    <3>2. top.id \in Id /\ m_ElementMap \in [Id -> Element \cup {Null}]
      BY <1>2, <1>4, <2>9 DEF TypeOK
    <3>3. m_ElementMap' \in [Id -> Element \cup {Null}]
      BY <2>6, <3>1, <3>2
    <3>4. accepted' <=> accepted
      BY <1>4, <1>5, <2>9
    <3>5. MapIsDocument'
      <4>1. SUFFICES ASSUME accepted
                     PROVE  m_ElementMap' = document'
        BY <1>4, <1>5, <3>4 DEF MapIsDocument
      <4>2. m_ElementMap = document /\ m_CurrentElement.nested = kids
        BY <2>2, <4>1 DEF IInv, MapIsDocument, NestedIsKids
      <4>3. m_CurrentElement = [name |-> top.tag, id |-> top.id, nested |-> kids]
        BY <2>2, <2>7, <4>2
      <4>4. QED
        BY <1>5, <1>10, <2>9, <3>1, <4>2, <4>3
    <3>6. ErrorIffNotAccepted' /\ NestedIsKids'
      BY <1>3, <1>4, <1>5, <2>4, <3>1, <3>4 DEF ErrorIffNotAccepted, NestedIsKids
    <3>7. QED
      BY <1>4, <1>7, <2>4, <2>5, <3>1, <3>3, <3>5, <3>6
  <2>10. QED
    BY <2>8, <2>9
<1>11. QED
  BY <1>4, <1>8, <1>9, <1>10

-----------------------------------------------------------------------------
\* Parse and GetSourceRepresentation around the handlers.
LEMMA ParseSteps ==
  ASSUME IInv,
         BeginParse \/ SyntaxError \/ EndOfInput \/ GetSourceRepresentation
           \/ UNCHANGED vars
  PROVE  IInv'
<1>1. CASE BeginParse
  <2>1. /\ phase = "new" /\ phase' = "stream"
        /\ m_SourceParseError' = FALSE
        /\ m_UnknownElementNesting' = 0
        /\ UNCHANGED << m_CurrentElement, m_ElementMap, m_FileMap, m_SourceRepresentation,
                        open, tags, result, legal, accepted, kids, document >>
    BY <1>1 DEF BeginParse, history
  <2>2. open = << >> /\ tags = 0 /\ m_CurrentElement = Null /\ legal /\ accepted
    BY <2>1 DEF IInv, ResultIsCorrect
  <2>3. result = FALSE
    BY <2>2 DEF IInv, TypeOK, ResultIsCorrect, RootClosed
  <2>4. TypeOK'
    BY <2>1 DEF IInv, TypeOK
  <2>5. CurrentIsOpen'
    BY <2>1, <2>2 DEF CurrentIsOpen, Handled
  <2>6. QED
    BY <2>1, <2>2, <2>3, <2>4, <2>5
    DEF IInv, ErrorIffNotAccepted, NestedIsKids, MapIsDocument, ResultIsCorrect, RootClosed
<1>2. CASE SyntaxError \/ EndOfInput
  <2>1. /\ phase = "stream" /\ phase' = "returned"
        /\ result' \in BOOLEAN
        /\ result' => ~ m_SourceParseError /\ RootClosed
        /\ UNCHANGED << m_CurrentElement, m_UnknownElementNesting, m_SourceParseError,
                        m_ElementMap, m_FileMap, m_SourceRepresentation, open, tags,
                        legal, accepted, kids, document >>
    BY <1>2 DEF SyntaxError, EndOfInput, history, parserVars
  <2>2. m_SourceRepresentation = FALSE
    BY <2>1 DEF IInv, TypeOK, ResultIsCorrect
  <2>3. TypeOK'
    BY <2>1 DEF IInv, TypeOK
  <2>4. CurrentIsOpen'
    BY <2>1 DEF IInv, CurrentIsOpen, Handled
  <2>5. ResultIsCorrect'
    BY <2>1, <2>2 DEF ResultIsCorrect, RootClosed
  <2>6. QED
    BY <2>1, <2>3, <2>4, <2>5 DEF IInv, ErrorIffNotAccepted, NestedIsKids, MapIsDocument
<1>3. CASE GetSourceRepresentation
  <2>1. /\ phase = "returned" /\ phase' = "asked" /\ result
        /\ m_SourceRepresentation' \in BOOLEAN
        /\ UNCHANGED << m_CurrentElement, m_UnknownElementNesting, m_SourceParseError,
                        m_ElementMap, m_FileMap, open, tags, result, legal, accepted, kids,
                        document >>
    BY <1>3 DEF GetSourceRepresentation, history, parserVars, IInv, TypeOK
  <2>2. TypeOK'
    BY <2>1 DEF IInv, TypeOK
  <2>3. CurrentIsOpen'
    BY <2>1 DEF IInv, CurrentIsOpen, Handled
  <2>4. ResultIsCorrect'
    BY <2>1 DEF IInv, ResultIsCorrect, RootClosed
  <2>5. QED
    BY <2>1, <2>2, <2>3, <2>4 DEF IInv, ErrorIffNotAccepted, NestedIsKids, MapIsDocument
<1>4. CASE UNCHANGED vars
  BY <1>4 DEF IInv, vars, parserVars, history, TypeOK, CurrentIsOpen, Handled,
     ErrorIffNotAccepted, NestedIsKids, MapIsDocument, ResultIsCorrect, RootClosed
<1>5. QED
  BY <1>1, <1>2, <1>3, <1>4

\* The constructed parser satisfies the invariant, whatever its counter holds.
LEMMA InitIInv == Init => IInv
<1>1. SUFFICES ASSUME Init PROVE IInv
  OBVIOUS
<1>2. TypeOK
  <2>1. open \in Seq([tag : Tag, id : Id \cup {NoId}]) /\ kids \in Seq(Tag)
    BY <1>1 DEF Init
  <2>2. /\ m_ElementMap \in [Id -> Element \cup {Null}]
        /\ document \in [Id -> Element \cup {Null}]
    BY <1>1 DEF Init
  <2>3. m_UnknownElementNesting \in Nat /\ tags \in Nat
    BY <1>1 DEF Init
  <2>4. QED
    BY <1>1, <2>1, <2>2, <2>3 DEF Init, TypeOK
<1>3. QED
  BY <1>1, <1>2
  DEF Init, IInv, ErrorIffNotAccepted, NestedIsKids, MapIsDocument, ResultIsCorrect, RootClosed

\* Every step of expat, of the handlers and of the caller preserves the invariant.
LEMMA NextIInv == IInv /\ [Next]_vars => IInv'
<1>1. SUFFICES ASSUME IInv, [Next]_vars PROVE IInv'
  OBVIOUS
<1>2. ASSUME NEW tag \in Tag, NEW id \in Id \cup {NoId}, NEW hasName \in BOOLEAN,
             StartTag(tag, id, hasName)
      PROVE  IInv'
  <2>1. m_UnknownElementNesting \in Nat
    BY <1>1 DEF IInv, TypeOK
  <2>2. QED
    BY <1>1, <1>2, <2>1, StartRejected, StartHandled
<1>3. CASE EndTag
  BY <1>1, <1>3, EndStep
<1>4. CASE BeginParse \/ SyntaxError \/ EndOfInput \/ GetSourceRepresentation
             \/ UNCHANGED vars
  BY <1>1, <1>4, ParseSteps
<1>5. QED
  BY <1>1, <1>2, <1>3, <1>4 DEF Next, Done

-----------------------------------------------------------------------------
\* The inductive invariant holds in every reachable state of the event phase.
THEOREM Invariant == Spec => []IInv
<1>1. QED
  BY InitIInv, NextIInv, PTL DEF Spec

\* Every variable of the parser keeps its type, for documents of any size.
THEOREM TypeCorrect == Spec => []TypeOK
<1>1. IInv => TypeOK
  BY DEF IInv
<1>2. QED
  BY <1>1, Invariant, PTL

\* EndOther never dereferences a null m_CurrentElement, and it stores the element
\* that the start tag matching its end tag opened.
THEOREM NullSafe == Spec => []NoNullDereference
<1>1. IInv => NoNullDereference
  <2>1. SUFFICES ASSUME IInv, phase = "stream", open # << >>, m_UnknownElementNesting = 0,
                        open[Len(open)].tag \in OtherTag
                 PROVE  /\ m_CurrentElement # Null
                        /\ m_CurrentElement.name = open[Len(open)].tag
                        /\ m_CurrentElement.id = open[Len(open)].id
    BY DEF NoNullDereference
  <2>2. Len(open) \in Nat \ {0}
    BY <2>1, Pop DEF IInv, TypeOK
  <2>3. Handled = Len(open)
    BY <2>1, <2>2 DEF Handled
  <2>4. Len(open) \in 1 .. Handled
    BY <2>2, <2>3
  <2>5. QED
    BY <2>1, <2>4 DEF IInv, CurrentIsOpen
<1>2. QED
  BY <1>1, Invariant, PTL

\* The error flag that decides what Parse returns is set by no legal document, and by
\* every other one except those whose only fault is an Argument or Ellipsis in an
\* element that is not function-style: the handlers take what their messages refuse.
THEOREM ErrorExact == Spec => []ErrorIffNotAccepted
<1>1. IInv => ErrorIffNotAccepted
  BY DEF IInv
<1>2. QED
  BY <1>1, Invariant, PTL

\* The element map of an accepted document is what the document defines.
THEOREM MapExact == Spec => []MapIsDocument
<1>1. IInv => MapIsDocument
  BY DEF IInv
<1>2. QED
  BY <1>1, Invariant, PTL

\* GetSourceRepresentation builds its representation from a complete, accepted
\* document and from all of it.
THEOREM RepresentationSound == Spec => []RepresentationOfDocument
<1>1. IInv => RepresentationOfDocument
  <2>1. SUFFICES ASSUME IInv, m_SourceRepresentation
                 PROVE  /\ accepted
                        /\ RootClosed
                        /\ m_CurrentElement = Null
                        /\ m_ElementMap = document
    BY DEF RepresentationOfDocument
  <2>2. ~ m_SourceParseError /\ RootClosed /\ phase # "new"
    BY <2>1 DEF IInv, ResultIsCorrect, RootClosed
  <2>3. accepted
    BY <2>1, <2>2 DEF IInv, ErrorIffNotAccepted
  <2>4. m_CurrentElement = Null
    <3>1. open = << >> /\ Len(open) = 0 /\ m_UnknownElementNesting \in Nat
      BY <2>1, <2>2 DEF RootClosed, IInv, TypeOK
    <3>2. \A i \in 1 .. Handled : FALSE
      BY <3>1 DEF Handled
    <3>3. QED
      BY <2>1, <2>2, <3>2 DEF IInv, CurrentIsOpen
  <2>5. QED
    BY <2>1, <2>2, <2>3, <2>4 DEF IInv, MapIsDocument
<1>2. QED
  BY <1>1, Invariant, PTL

=============================================================================
