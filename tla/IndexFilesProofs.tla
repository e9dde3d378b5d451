---------------------------- MODULE IndexFilesProofs ----------------------------
(***************************************************************************)
(* Proofs about IndexFiles for every set of configurations, every choice   *)
(* of master index files and every point at which a cableidx is killed:    *)
(* what CableSwig reads in a run that nothing disturbs is what the         *)
(* configurations say, the name it gives the module is the one the index   *)
(* sends the other groups to, and a failure never passes for success.      *)
(* What the parser makes of a line is computed once, in WholeLineParsed;   *)
(* the rest is by the invariant IInv, whose last part says that the        *)
(* lookups hold what the places passed by the reading cursor declare.      *)
(***************************************************************************)
EXTENDS IndexFiles, SequenceTheorems, WellFoundedInduction, TLAPS

-----------------------------------------------------------------------------
(* Numbers and sequences. *)

LEMMA SmallestOf ==
  ASSUME NEW T, T \subseteq Nat, T # {}
  PROVE  \E n \in T : \A m \in T : n <= m
<1>1. \E n \in T : \A m \in T : << m, n >> \notin OpToRel(<, Nat)
  BY NatLessThanWellFounded, WFMin
<1>2. \A m, n \in Nat : m < n => << m, n >> \in OpToRel(<, Nat)
  BY DEF OpToRel
<1>3. \E n \in T : \A m \in T : ~ (m < n)
  BY <1>1, <1>2, Zenon
<1> QED
  BY <1>3

LEMMA AppendFacts ==
  ASSUME NEW T, NEW s \in Seq(T), NEW x \in T
  PROVE  Append(s, x) \in Seq(T)
BY AppendProperties

LEMMA RangeOf ==
  ASSUME NEW T, NEW s \in Seq(T)
  PROVE  /\ Len(s) \in Nat
         /\ Range(s) = {s[i] : i \in 1 .. Len(s)}
         /\ \A i \in 1 .. Len(s) : s[i] \in T
<1>1. DOMAIN s = 1 .. Len(s) /\ Len(s) \in Nat /\ \A i \in 1 .. Len(s) : s[i] \in T
  BY LenProperties
<1> QED
  BY <1>1 DEF Range

-----------------------------------------------------------------------------
(* What the parser makes of a line. *)

LEMMA FindRange ==
  ASSUME NEW T, NEW text \in Seq(T), NEW c, NEW from \in 0 .. Len(text)
  PROVE  Find(text, c)[from] \in 0 .. Len(text)
<1> DEFINE at == {i \in from .. Len(text) : text[i] = c}
<1>1. Len(text) \in Nat
  BY LenProperties
<1>2. Find(text, c)[from] = IF from = 0 \/ at = {} THEN 0
                            ELSE CHOOSE i \in at : \A j \in at : i <= j
  BY DEF Find
<1>3. CASE from = 0 \/ at = {}
  BY <1>1, <1>2, <1>3
<1>4. CASE ~ (from = 0 \/ at = {})
  <2>1. at \subseteq Nat
    BY <1>1
  <2>2. \E i \in at : \A j \in at : i <= j
    <3> HIDE DEF at
    <3> QED
      BY <1>4, <2>1, SmallestOf
  <2>3. Find(text, c)[from] \in at
    <3> HIDE DEF at
    <3> QED
      BY <1>2, <1>4, <2>2
  <2> QED
    BY <1>1, <2>3
<1> QED
  BY <1>3, <1>4

LEMMA FindFirst ==
  ASSUME NEW text, Len(text) \in Nat, NEW c,
         NEW from \in 1 .. Len(text), NEW k \in from .. Len(text),
         text[k] = c, \A j \in from .. k - 1 : text[j] # c
  PROVE  Find(text, c)[from] = k
<1> DEFINE at == {i \in from .. Len(text) : text[i] = c}
<1>2. Find(text, c)[from] = IF from = 0 \/ at = {} THEN 0
                            ELSE CHOOSE i \in at : \A j \in at : i <= j
  BY DEF Find
<1>3. k \in at /\ \A j \in at : k <= j
  OBVIOUS
<1>4. at \subseteq Int
  OBVIOUS
<1>5. \A i \in at : (\A j \in at : i <= j) => i = k
  BY <1>3, <1>4
<1>6. (CHOOSE i \in at : \A j \in at : i <= j) = k
  <2> HIDE DEF at
  <2> QED
    BY <1>3, <1>5
<1> QED
  BY <1>2, <1>3, <1>6

\* A part of a line of text is a text, whatever the braces.
LEMMA BetweenTyped ==
  ASSUME NEW T, NEW text \in Seq(T),
         NEW p1 \in 0 .. Len(text), NEW p2 \in 0 .. Len(text)
  PROVE  Between(text, p1, p2) \in Seq(T)
<1>1. Len(text) \in Nat /\ \A i \in 1 .. Len(text) : text[i] \in T
  BY LenProperties
<1>2. PICK n \in 0 .. Len(text) : n = IF p2 <= p1 THEN Len(text) ELSE p2 - 1
  BY <1>1
<1>3. \A i \in p1 + 1 .. n : text[i] \in T
  BY <1>1
<1>4. SubSeq(text, p1 + 1, n) \in Seq(T)
  BY <1>1, <1>3, SubSeqProperties
<1> QED
  BY <1>2, <1>4 DEF Between

LEMMA ParsedTyped ==
  ASSUME NEW T, NEW text \in Seq(T), Len(text) >= 1
  PROVE  /\ Parsed(text).name \in Seq(T)
         /\ Parsed(text).typedef \in Seq(T)
         /\ Parsed(text).group \in Seq(T)
<1> DEFINE open1  == Find(text, "open")[1]
           close1 == Find(text, "close")[1]
           open2  == Find(text, "open")[close1]
           close2 == Find(text, "close")[open2]
           open3  == Find(text, "open")[close2]
           close3 == Find(text, "close")[open3]
<1>0. 1 \in 0 .. Len(text)
  BY LenProperties
<1>1. open1 \in 0 .. Len(text) /\ close1 \in 0 .. Len(text)
  BY <1>0, FindRange
<1>2. open2 \in 0 .. Len(text)
  BY <1>1, FindRange
<1>3. close2 \in 0 .. Len(text)
  BY <1>2, FindRange
<1>4. open3 \in 0 .. Len(text)
  BY <1>3, FindRange
<1>5. close3 \in 0 .. Len(text)
  BY <1>4, FindRange
<1>6. Parsed(text) = [ name    |-> Between(text, open1, close1),
                       typedef |-> Between(text, open2, close2),
                       group   |-> Between(text, open3, close3) ]
  BY DEF Parsed
<1> HIDE DEF open1, close1, open2, close2, open3, close3
<1>7. /\ Between(text, open1, close1) \in Seq(T)
      /\ Between(text, open2, close2) \in Seq(T)
      /\ Between(text, open3, close3) \in Seq(T)
  BY <1>1, <1>2, <1>3, <1>4, <1>5, BetweenTyped
<1> QED
  BY <1>6, <1>7

\* The one place between two braces.
LEMMA BetweenBraces ==
  ASSUME NEW T, NEW text \in Seq(T), NEW p \in Nat, p + 2 <= Len(text)
  PROVE  Between(text, p, p + 2) = << text[p + 1] >>
<1>1. Len(text) \in Nat /\ \A i \in 1 .. Len(text) : text[i] \in T
  BY LenProperties
<1>2. Between(text, p, p + 2) = SubSeq(text, p + 1, p + 1)
  BY DEF Between
<1>3. \A i \in p + 1 .. p + 1 : text[i] \in T
  BY <1>1
<1>4. /\ SubSeq(text, p + 1, p + 1) \in Seq(T)
      /\ Len(SubSeq(text, p + 1, p + 1)) = 1
      /\ SubSeq(text, p + 1, p + 1)[1] = text[p + 1]
  BY <1>3, SubSeqProperties
<1> QED
  BY <1>2, <1>4

\* The parts of a line.
LEMMA NineParts ==
  ASSUME NEW T, NEW a \in T, NEW b \in T, NEW c \in T, NEW d \in T, NEW e \in T,
         NEW f \in T, NEW g \in T, NEW h \in T, NEW i \in T
  PROVE  LET s == << a, b, c, d, e, f, g, h, i >>
         IN  /\ s \in Seq(T) /\ Len(s) = 9
             /\ s[1] = a /\ s[2] = b /\ s[3] = c /\ s[4] = d /\ s[5] = e
             /\ s[6] = f /\ s[7] = g /\ s[8] = h /\ s[9] = i
OBVIOUS

\* A whole line is taken apart as it was put together.
LEMMA WholeLineParsed ==
  ASSUME NEW w \in Wrap, NEW g \in GroupName \cup {Empty}
  PROVE  /\ Parsed(WholeLine(w, g)).name = << w.class >>
         /\ Parsed(WholeLine(w, g)).typedef = << w.typedef >>
         /\ Parsed(WholeLine(w, g)).group = << g >>
         /\ "open" \in Range(WholeLine(w, g))
<1> DEFINE T == Class \cup TypedefName \cup GroupName \cup {"open", "close", Empty, Cut}
           text == WholeLine(w, g)
<1>1. w.class \in Class /\ w.typedef \in TypedefName
  BY DEF Wrap
<1>0. "open" \in T /\ "close" \in T /\ w.class \in T /\ w.typedef \in T /\ g \in T
  BY <1>1
<1>2. /\ text \in Seq(T) /\ Len(text) = 9
      /\ text[1] = "open" /\ text[2] = w.class /\ text[3] = "close"
      /\ text[4] = "open" /\ text[5] = w.typedef /\ text[6] = "close"
      /\ text[7] = "open" /\ text[8] = g /\ text[9] = "close"
  <2>1. text = << "open", w.class, "close", "open", w.typedef, "close", "open", g, "close" >>
    BY DEF WholeLine
  <2> HIDE DEF text, T
  <2> QED
    BY <2>1, <1>0, NineParts
<1>4. /\ w.class \notin {"open", "close"}
      /\ w.typedef \notin {"open", "close"}
      /\ g \notin {"open", "close"}
  BY <1>1, IndexAssumption
<1> HIDE DEF text, T
<1>3. \A c : \A from \in 1 .. 9 : \A k \in from .. 9 :
        text[k] = c /\ (\A j \in from .. k - 1 : text[j] # c) => Find(text, c)[from] = k
  <2> SUFFICES ASSUME NEW c, NEW from \in 1 .. 9, NEW k \in from .. 9,
                      text[k] = c, \A j \in from .. k - 1 : text[j] # c
               PROVE  Find(text, c)[from] = k
    OBVIOUS
  <2>1. from \in 1 .. Len(text) /\ k \in from .. Len(text)
    BY <1>2
  <2> QED
    BY <1>2, <2>1, FindFirst
<1>5. Find(text, "open")[1] = 1
  <2>1. \A j \in 1 .. 1 - 1 : text[j] # "open"
    OBVIOUS
  <2> QED
    BY <1>2, <1>3, <2>1
<1>6. Find(text, "close")[1] = 3
  <2>1. \A j \in 1 .. 3 - 1 : j = 1 \/ j = 2
    OBVIOUS
  <2>2. text[1] # "close" /\ text[2] # "close"
    BY <1>2, <1>4
  <2>3. \A j \in 1 .. 3 - 1 : text[j] # "close"
    BY <2>1, <2>2
  <2> QED
    BY <1>2, <1>3, <2>3
<1>7. Find(text, "open")[3] = 4
  <2>1. \A j \in 3 .. 4 - 1 : j = 3
    OBVIOUS
  <2>2. text[3] # "open"
    BY <1>2, <1>4
  <2>3. \A j \in 3 .. 4 - 1 : text[j] # "open"
    BY <2>1, <2>2
  <2> QED
    BY <1>2, <1>3, <2>3
<1>8. Find(text, "close")[4] = 6
  <2>1. \A j \in 4 .. 6 - 1 : j = 4 \/ j = 5
    OBVIOUS
  <2>2. text[4] # "close" /\ text[5] # "close"
    BY <1>2, <1>4
  <2>3. \A j \in 4 .. 6 - 1 : text[j] # "close"
    BY <2>1, <2>2
  <2> QED
    BY <1>2, <1>3, <2>3
<1>9. Find(text, "open")[6] = 7
  <2>1. \A j \in 6 .. 7 - 1 : j = 6
    OBVIOUS
  <2>2. text[6] # "open"
    BY <1>2, <1>4
  <2>3. \A j \in 6 .. 7 - 1 : text[j] # "open"
    BY <2>1, <2>2
  <2> QED
    BY <1>2, <1>3, <2>3
<1>10. Find(text, "close")[7] = 9
  <2>1. \A j \in 7 .. 9 - 1 : j = 7 \/ j = 8
    OBVIOUS
  <2>2. text[7] # "close" /\ text[8] # "close"
    BY <1>2, <1>4
  <2>3. \A j \in 7 .. 9 - 1 : text[j] # "close"
    BY <2>1, <2>2
  <2> QED
    BY <1>2, <1>3, <2>3
<1>11. /\ Between(text, 1, 3) = << text[2] >>
       /\ Between(text, 4, 6) = << text[5] >>
       /\ Between(text, 7, 9) = << text[8] >>
  <2>1. \A p \in Nat : p + 2 <= Len(text) => Between(text, p, p + 2) = << text[p + 1] >>
    BY <1>2, BetweenBraces
  <2>2. Between(text, 1, 1 + 2) = << text[1 + 1] >>
    BY <1>2, <2>1
  <2>3. Between(text, 4, 4 + 2) = << text[4 + 1] >>
    BY <1>2, <2>1
  <2>4. Between(text, 7, 7 + 2) = << text[7 + 1] >>
    BY <1>2, <2>1
  <2> QED
    BY <2>2, <2>3, <2>4
<1>12. Parsed(text) = [ name    |-> Between(text, 1, 3),
                        typedef |-> Between(text, 4, 6),
                        group   |-> Between(text, 7, 9) ]
  BY <1>5, <1>6, <1>7, <1>8, <1>9, <1>10 DEF Parsed
<1>13. /\ Parsed(text).name = << w.class >>
       /\ Parsed(text).typedef = << w.typedef >>
       /\ Parsed(text).group = << g >>
  BY <1>2, <1>11, <1>12
<1>14. "open" \in Range(text)
  BY <1>2, RangeOf
<1> QED
  BY <1>13, <1>14 DEF text

-----------------------------------------------------------------------------
(* What the configurations and the master indexes hold. *)

LEMMA ConfigFacts ==
  ASSUME NEW c \in Config
  PROVE  /\ GroupOf(c) \in GroupName \cup {Empty}
         /\ PackageOf(c) \in GroupName \cup {Empty}
         /\ Len(c.wraps) \in Nat
         /\ \A k \in 1 .. Len(c.wraps) : c.wraps[k] \in Wrap
<1>1. c.wraps \in Seq(Wrap)
  BY DEF Config
<1>2. /\ Len(c.wraps) \in Nat
      /\ \A k \in 1 .. Len(c.wraps) : c.wraps[k] \in Wrap
  BY <1>1, LenProperties
<1>3. /\ GroupOf(c) \in GroupName \cup {Empty}
      /\ PackageOf(c) \in GroupName \cup {Empty}
  BY DEF GroupOf, PackageOf, GetGroupAndPackageInformation
<1> QED
  BY <1>2, <1>3

LEMMA CutTyped ==
  ASSUME NEW line \in Text, NEW k \in 0 .. Len(line)
  PROVE  CutAfter(line, k) \in Text
<1> DEFINE T == Class \cup TypedefName \cup GroupName \cup {"open", "close", Empty, Cut}
<1>1. line \in Seq(T) /\ Cut \in T
  BY DEF Text
<1> HIDE DEF T
<1>2. Len(line) \in Nat /\ \A i \in 1 .. Len(line) : line[i] \in T
  BY <1>1, LenProperties
<1>3. \A i \in 1 .. k : line[i] \in T
  BY <1>2
<1>4. SubSeq(line, 1, k) \in Seq(T)
  BY <1>2, <1>3, SubSeqProperties
<1>5. Append(SubSeq(line, 1, k), Cut) \in Seq(T)
  BY <1>1, <1>4, AppendFacts
<1>6. CutAfter(line, k) \in Seq(T)
  BY <1>4, <1>5 DEF CutAfter
<1> QED
  BY <1>6 DEF Text, T

LEMMA LineFacts ==
  ASSUME NEW w \in Wrap, NEW g \in GroupName \cup {Empty}
  PROVE  /\ Line(w, g) \in IndexLine
         /\ ~ Line(w, g).long <=> w.fits = 9
         /\ w.fits = 9 => Line(w, g).text = WholeLine(w, g)
<1>1. w.class \in Class /\ w.typedef \in TypedefName /\ w.fits \in 1 .. 9
  BY DEF Wrap
<1>2. WholeLine(w, g) \in Text /\ Len(WholeLine(w, g)) = 9
  <2> DEFINE T == Class \cup TypedefName \cup GroupName \cup {"open", "close", Empty, Cut}
  <2>1. "open" \in T /\ "close" \in T /\ w.class \in T /\ w.typedef \in T /\ g \in T
    BY <1>1
  <2>2. WholeLine(w, g) =
          << "open", w.class, "close", "open", w.typedef, "close", "open", g, "close" >>
    BY DEF WholeLine
  <2>3. Text = Seq(T)
    BY DEF Text
  <2> HIDE DEF T
  <2> QED
    BY <2>1, <2>2, <2>3, NineParts
<1>3. Line(w, g) = [text |-> CutAfter(WholeLine(w, g), w.fits), long |-> w.fits < 9]
  BY DEF Line
<1>4. CutAfter(WholeLine(w, g), w.fits) \in Text
  <2>1. w.fits \in 0 .. Len(WholeLine(w, g))
    BY <1>1, <1>2
  <2> QED
    BY <1>2, <2>1, CutTyped
<1>5. Line(w, g) \in IndexLine
  BY <1>3, <1>4 DEF IndexLine
<1>6. ~ Line(w, g).long <=> w.fits = 9
  <2>1. Line(w, g).long = (w.fits < 9)
    BY <1>3
  <2>2. ~ (w.fits < 9) <=> w.fits = 9
    BY <1>1
  <2> QED
    BY <2>1, <2>2, Zenon
<1>7. ASSUME w.fits = 9
      PROVE  Line(w, g).text = WholeLine(w, g)
  <2>1. CutAfter(WholeLine(w, g), 9) = SubSeq(WholeLine(w, g), 1, 9)
    BY <1>2 DEF CutAfter
  <2>2. SubSeq(WholeLine(w, g), 1, 9) = WholeLine(w, g)
    BY <1>2, SubSeqFull DEF Text
  <2> QED
    BY <1>3, <1>7, <2>1, <2>2
<1> QED
  BY <1>5, <1>6, <1>7

LEMMA LinesFacts ==
  ASSUME NEW c \in Config
  PROVE  /\ Lines(c) \in Seq(IndexLine)
         /\ Len(Lines(c)) = Len(c.wraps)
         /\ \A k \in 1 .. Len(c.wraps) : Lines(c)[k] = Line(c.wraps[k], GroupOf(c))
<1>1. Len(c.wraps) \in Nat
  BY ConfigFacts
<1>2. \A k \in 1 .. Len(c.wraps) : Line(c.wraps[k], GroupOf(c)) \in IndexLine
  BY ConfigFacts, LineFacts
<1>3. Lines(c) = [k \in 1 .. Len(c.wraps) |-> Line(c.wraps[k], GroupOf(c))]
  BY DEF Lines
<1>4. Lines(c) \in [1 .. Len(c.wraps) -> IndexLine]
  BY <1>2, <1>3
<1> QED
  BY <1>1, <1>3, <1>4

LEMMA MasterFacts ==
  ASSUME masters \in MasterIndexes
  PROVE  /\ Len(masters) \in Nat
         /\ \A i \in 1 .. Len(masters) :
              /\ Len(masters[i]) \in Nat
              /\ \A j \in 1 .. Len(masters[i]) :
                   /\ masters[i][j] \in File \cup {Blank, Loader}
                   /\ masters[i][j] \notin {Blank, Loader} => masters[i][j] \in Listed
         /\ Listed \subseteq File
<1> DEFINE L == File \cup {Blank, Loader}
<1>1. masters \in Seq(Seq(L))
  BY IndexAssumption
<1> HIDE DEF L
<1>2. Len(masters) \in Nat /\ \A i \in 1 .. Len(masters) : masters[i] \in Seq(L)
  BY <1>1, LenProperties
<1>3. \A i \in 1 .. Len(masters) :
        /\ Len(masters[i]) \in Nat
        /\ \A j \in 1 .. Len(masters[i]) : masters[i][j] \in L
        /\ \A x : x \in Range(masters[i]) <=> \E j \in 1 .. Len(masters[i]) : x = masters[i][j]
  <2> SUFFICES ASSUME NEW i \in 1 .. Len(masters)
               PROVE  /\ Len(masters[i]) \in Nat
                      /\ \A j \in 1 .. Len(masters[i]) : masters[i][j] \in L
                      /\ \A x : x \in Range(masters[i]) <=>
                               \E j \in 1 .. Len(masters[i]) : x = masters[i][j]
    OBVIOUS
  <2> QED
    BY <1>2, RangeOf
<1>4. \A x : x \in Listed <=> /\ \E i \in 1 .. Len(masters) : x \in Range(masters[i])
                             /\ x \notin {Blank, Loader}
  <2> DEFINE R(i) == Range(masters[i])
             U    == UNION {R(i) : i \in 1 .. Len(masters)}
  <2>1. Listed = U \ {Blank, Loader}
    BY DEF Listed
  <2> HIDE DEF R
  <2>2. \A x : x \in U <=> \E i \in 1 .. Len(masters) : x \in R(i)
    OBVIOUS
  <2> HIDE DEF U
  <2>3. \A x : x \in Listed <=> x \in U /\ x \notin {Blank, Loader}
    BY <2>1
  <2>4. \A x : x \in Listed <=> /\ \E i \in 1 .. Len(masters) : x \in R(i)
                               /\ x \notin {Blank, Loader}
    BY <2>2, <2>3, Zenon
  <2> QED
    BY <2>4 DEF R
<1>5. \A i \in 1 .. Len(masters) : \A j \in 1 .. Len(masters[i]) :
        masters[i][j] \notin {Blank, Loader} => masters[i][j] \in Listed
  <2> SUFFICES ASSUME NEW i \in 1 .. Len(masters), NEW j \in 1 .. Len(masters[i]),
                      masters[i][j] \notin {Blank, Loader}
               PROVE  masters[i][j] \in Listed
    OBVIOUS
  <2>1. masters[i][j] \in Range(masters[i])
    BY <1>3
  <2> QED
    BY <1>4, <2>1
<1>6. \A x \in Listed : x \in L /\ x \notin {Blank, Loader}
  <2> SUFFICES ASSUME NEW x \in Listed
               PROVE  x \in L /\ x \notin {Blank, Loader}
    OBVIOUS
  <2>1. x \notin {Blank, Loader} /\ \E i \in 1 .. Len(masters) : x \in Range(masters[i])
    BY <1>4
  <2>2. PICK i \in 1 .. Len(masters) : x \in Range(masters[i])
    BY <2>1
  <2>3. PICK j \in 1 .. Len(masters[i]) : x = masters[i][j]
    BY <1>3, <2>2
  <2>4. masters[i][j] \in L
    BY <1>3
  <2> QED
    BY <2>1, <2>3, <2>4
<1> QED
  BY <1>2, <1>3, <1>5, <1>6 DEF L

\* The places, one by one.
LEMMA PlaceFacts ==
  ASSUME masters \in MasterIndexes, config \in [File -> Config]
  PROVE  /\ \A p \in Places :
              /\ p.i \in 1 .. Len(masters)
              /\ p.j \in 1 .. Len(masters[p.i])
              /\ FileAt(p) = masters[p.i][p.j]
              /\ FileAt(p) \notin {Blank, Loader}
              /\ FileAt(p) \in Listed
              /\ p.line \in 1 .. Len(config[FileAt(p)].wraps)
              /\ p = [i |-> p.i, j |-> p.j, line |-> p.line]
         /\ \A i \in 1 .. Len(masters) : \A j \in 1 .. Len(masters[i]) :
              masters[i][j] \notin {Blank, Loader} =>
                \A l \in 1 .. Len(config[masters[i][j]].wraps) :
                  [i |-> i, j |-> j, line |-> l] \in Places
<1> DEFINE Of(i, j) == [i : {i}, j : {j}, line : 1 .. Len(config[masters[i][j]].wraps)]
           Files(i) == {n \in 1 .. Len(masters[i]) : masters[i][n] \notin {Blank, Loader}}
<1>1. Places = UNION {UNION {Of(i, j) : j \in Files(i)} : i \in 1 .. Len(masters)}
  BY DEF Places
<1>2. \A i, j : \A p \in Of(i, j) :
        /\ p.i = i /\ p.j = j
        /\ p.line \in 1 .. Len(config[masters[i][j]].wraps)
        /\ p = [i |-> p.i, j |-> p.j, line |-> p.line]
  OBVIOUS
<1>3. \A i, j : \A l \in 1 .. Len(config[masters[i][j]].wraps) :
        [i |-> i, j |-> j, line |-> l] \in Of(i, j)
  OBVIOUS
<1> HIDE DEF Of
<1>4. ASSUME NEW p \in Places
      PROVE  /\ p.i \in 1 .. Len(masters)
             /\ p.j \in 1 .. Len(masters[p.i])
             /\ FileAt(p) = masters[p.i][p.j]
             /\ FileAt(p) \notin {Blank, Loader}
             /\ FileAt(p) \in Listed
             /\ p.line \in 1 .. Len(config[FileAt(p)].wraps)
             /\ p = [i |-> p.i, j |-> p.j, line |-> p.line]
  <2>1. PICK i \in 1 .. Len(masters) : \E j \in Files(i) : p \in Of(i, j)
    BY <1>1
  <2>2. PICK j \in Files(i) : p \in Of(i, j)
    BY <2>1
  <2>3. j \in 1 .. Len(masters[i]) /\ masters[i][j] \notin {Blank, Loader}
    OBVIOUS
  <2>4. masters[i][j] \in Listed
    BY <2>3, MasterFacts
  <2> QED
    BY <1>2, <2>2, <2>3, <2>4 DEF FileAt
<1>5. ASSUME NEW i \in 1 .. Len(masters), NEW j \in 1 .. Len(masters[i]),
             masters[i][j] \notin {Blank, Loader},
             NEW l \in 1 .. Len(config[masters[i][j]].wraps)
      PROVE  [i |-> i, j |-> j, line |-> l] \in Places
  <2>1. j \in Files(i)
    BY <1>5
  <2>2. [i |-> i, j |-> j, line |-> l] \in Of(i, j)
    BY <1>3
  <2> HIDE DEF Files
  <2> QED
    BY <1>1, <2>1, <2>2
<1> QED
  BY <1>4, <1>5

-----------------------------------------------------------------------------
(* The lookups. *)

LEMMA PlacesKept ==
  ASSUME UNCHANGED << config, masters >>
  PROVE  Places' = Places /\ AllWhole' = AllWhole
<1>1. Places' = Places
  BY DEF Places
<1> QED
  BY <1>1 DEF AllWhole, WrapAt, FileAt

LEMMA LookedUpKept ==
  ASSUME UNCHANGED << config, masters, m_ClassGroupLookup, m_ImportTypedefLookup >>,
         Passed' = Passed, LookedUp(Passed)
  PROVE  LookedUp(Passed)'
BY DEF LookedUp, WrapAt, FileAt

\* A step that concerns neither CableSwig nor what it has read.
LEMMA LookupsKept ==
  ASSUME LookupsSound,
         UNCHANGED << config, masters, m_ClassGroupLookup, m_ImportTypedefLookup, swig, settled >>
  PROVE  LookupsSound'
<1>1. Places' = Places /\ AllWhole' = AllWhole
  BY PlacesKept
<1>2. Passed' = Passed
  BY <1>1 DEF Passed
<1>3. LookedUp(Passed) => LookedUp(Passed)'
  BY <1>2, LookedUpKept
<1> QED
  BY <1>1, <1>3 DEF LookupsSound

\* The next place in the order of reading: its line replaces what the class had.
LEMMA LookedUpNext ==
  ASSUME masters \in MasterIndexes, config \in [File -> Config],
         NEW P, P \subseteq Places, NEW p \in Places, \A q \in P : Before(q, p),
         LookedUp(P),
         m_ClassGroupLookup' =
           Put(m_ClassGroupLookup, << WrapAt(p).class >>, << GroupOf(config[FileAt(p)]) >>),
         m_ImportTypedefLookup' =
           Put(m_ImportTypedefLookup, << WrapAt(p).class >>, << WrapAt(p).typedef >>),
         UNCHANGED << config, masters >>
  PROVE  LookedUp(P \cup {p})'
<1> DEFINE class(q)   == WrapAt(q).class
           group(q)   == GroupOf(config[FileAt(q)])
           typedef(q) == WrapAt(q).typedef
<1>1. \A q \in Places : q.i \in Nat /\ q.j \in Nat /\ q.line \in Nat
  BY PlaceFacts, MasterFacts
<1>2. ~ Before(p, p) /\ \A q \in P : ~ Before(p, q)
  BY <1>1 DEF Before
<1>3. \A q : /\ WrapAt(q)' = WrapAt(q)
             /\ FileAt(q)' = FileAt(q)
             /\ GroupOf(config[FileAt(q)])' = group(q)
  BY DEF WrapAt, FileAt
<1>4. /\ DOMAIN m_ClassGroupLookup = {<< class(q) >> : q \in P}
      /\ DOMAIN m_ImportTypedefLookup = {<< class(q) >> : q \in P}
      /\ \A q \in P : (\A r \in P : Before(q, r) => class(r) # class(q)) =>
           /\ m_ClassGroupLookup[<< class(q) >>] = << group(q) >>
           /\ m_ImportTypedefLookup[<< class(q) >>] = << typedef(q) >>
  BY DEF LookedUp
<1> DEFINE S == P \cup {p}
<1>5. /\ m_ClassGroupLookup' =
           [x \in DOMAIN m_ClassGroupLookup \cup {<< class(p) >>} |->
              IF x = << class(p) >> THEN << group(p) >> ELSE m_ClassGroupLookup[x]]
      /\ m_ImportTypedefLookup' =
           [x \in DOMAIN m_ImportTypedefLookup \cup {<< class(p) >>} |->
              IF x = << class(p) >> THEN << typedef(p) >> ELSE m_ImportTypedefLookup[x]]
  BY DEF Put
<1> HIDE DEF class, group, typedef
<1>6. /\ DOMAIN m_ClassGroupLookup' = {<< class(q) >> : q \in S}
      /\ DOMAIN m_ImportTypedefLookup' = {<< class(q) >> : q \in S}
  <2>1. {<< class(q) >> : q \in S} = {<< class(q) >> : q \in P} \cup {<< class(p) >>}
    OBVIOUS
  <2>2. /\ DOMAIN m_ClassGroupLookup' = DOMAIN m_ClassGroupLookup \cup {<< class(p) >>}
        /\ DOMAIN m_ImportTypedefLookup' = DOMAIN m_ImportTypedefLookup \cup {<< class(p) >>}
    BY <1>5
  <2> HIDE DEF S
  <2> QED
    BY <1>4, <2>1, <2>2
<1>7. \A q, r : << class(q) >> = << class(r) >> => class(q) = class(r)
  OBVIOUS
<1>8. ASSUME NEW q \in S, \A r \in S : Before(q, r) => class(r) # class(q)
      PROVE  /\ m_ClassGroupLookup'[<< class(q) >>] = << group(q) >>
             /\ m_ImportTypedefLookup'[<< class(q) >>] = << typedef(q) >>
  <2>1. CASE q = p
    BY <1>5, <2>1
  <2>2. CASE q \in P
    <3>1. class(p) # class(q)
      BY <1>8, <2>2
    <3>2. << class(q) >> # << class(p) >>
      BY <1>7, <3>1
    <3>3. << class(q) >> \in DOMAIN m_ClassGroupLookup /\ << class(q) >> \in DOMAIN m_ImportTypedefLookup
      BY <1>4, <2>2
    <3>4. /\ m_ClassGroupLookup[<< class(q) >>] = << group(q) >>
          /\ m_ImportTypedefLookup[<< class(q) >>] = << typedef(q) >>
      BY <1>4, <1>8, <2>2
    <3> QED
      BY <1>5, <3>2, <3>3, <3>4
  <2> QED
    BY <2>1, <2>2
<1>9. \A q \in S : (\A r \in S : Before(q, r) => class(r) # class(q)) =>
        /\ m_ClassGroupLookup'[<< class(q) >>] = << group(q) >>
        /\ m_ImportTypedefLookup'[<< class(q) >>] = << typedef(q) >>
  BY <1>8
<1> HIDE DEF S
<1>10. LookedUp(S)'
  BY <1>3, <1>6, <1>9 DEF LookedUp, class, group, typedef
<1> QED
  BY <1>10 DEF S

-----------------------------------------------------------------------------
(* IInv holds at first and is kept by every step. *)

\* The forms of a process and of an index file.
LEMMA Forms ==
  /\ NotRun.at = "not run"
  /\ \A n : Exit(n).at = "exit"
  /\ \A n \in Nat : Exit(n) \in [at : {"exit"}, code : Nat]
  /\ \A p \in [at : {"exit"}, code : Nat] : p.at = "exit"
  /\ \A p \in [at : {"writing"}, lines : Seq(IndexLine)] : p.at = "writing"
  /\ NoFile.exists = FALSE
  /\ \A x \in [exists : {TRUE}, lines : Seq(IndexLine)] : x.exists = TRUE
BY DEF NotRun, Exit, NoFile

LEMMA ProcessForms ==
  ASSUME WritersSound, NEW f \in File
  PROVE  /\ cableidx[f].at \in {"not run", "writing", "exit"}
         /\ cableidx[f].at = "writing" => cableidx[f] \in [at : {"writing"}, lines : Seq(IndexLine)]
         /\ cableidx[f].at = "writing" =>
              idx[f] \in [exists : {TRUE}, lines : Seq(IndexLine)]
         /\ idx[f].exists => idx[f] \in [exists : {TRUE}, lines : Seq(IndexLine)]
         /\ idx[f] = NoFile \/ idx[f].exists
<1>1. /\ \/ cableidx[f] = NotRun
         \/ cableidx[f] \in [at : {"exit"}, code : Nat]
         \/ cableidx[f] \in [at : {"writing"}, lines : Seq(IndexLine)]
      /\ \/ idx[f] = NoFile
         \/ idx[f] \in [exists : {TRUE}, lines : Seq(IndexLine)]
      /\ cableidx[f].at = "writing" => idx[f].exists
  BY DEF WritersSound
<1> DEFINE E == [at : {"exit"}, code : Nat]
           W == [at : {"writing"}, lines : Seq(IndexLine)]
           X == [exists : {TRUE}, lines : Seq(IndexLine)]
<1>2. /\ NotRun.at = "not run" /\ NoFile.exists = FALSE
      /\ \A p \in E : p.at = "exit"
      /\ \A p \in W : p.at = "writing"
      /\ \A x \in X : x.exists
  BY Forms
<1> HIDE DEF E, W, X
<1>3. /\ cableidx[f] = NotRun \/ cableidx[f] \in E \/ cableidx[f] \in W
      /\ idx[f] = NoFile \/ idx[f] \in X
      /\ cableidx[f].at = "writing" => idx[f].exists
  BY <1>1 DEF E, W, X
<1>4. /\ cableidx[f].at \in {"not run", "writing", "exit"}
      /\ cableidx[f].at = "writing" => cableidx[f] \in W
      /\ idx[f].exists => idx[f] \in X
      /\ idx[f] = NoFile \/ idx[f].exists
  BY <1>2, <1>3
<1> QED
  BY <1>3, <1>4 DEF W, X

LEMMA ProcessFormsNext ==
  ASSUME WritersSound'
  PROVE  (\A f \in File : cableidx[f].at \in {"not run", "writing", "exit"})'
<1> DEFINE E == [at : {"exit"}, code : Nat]
           W == [at : {"writing"}, lines : Seq(IndexLine)]
<1>1. /\ NotRun.at = "not run"
      /\ \A p \in E : p.at = "exit"
      /\ \A p \in W : p.at = "writing"
  BY Forms
<1>2. cableidx' \in [File -> {NotRun} \cup E \cup W]
  BY DEF WritersSound
<1> HIDE DEF E, W
<1> QED
  BY <1>1, <1>2

LEMMA Bounds == MaxChanges \in Nat /\ LibraryModule \in BOOLEAN
BY IndexAssumption

LEMMA IInvInit == Init => IInv
<1> SUFFICES ASSUME Init
             PROVE  IInv
  OBVIOUS
<1>1. config \in [File -> Config] /\ \A f \in File : config[f] \in Configs[f]
  <2>1. config \in [File -> UNION Range(Configs)] /\ \A f \in File : config[f] \in Configs[f]
    BY DEF Init
  <2>2. \A f \in File : Configs[f] \subseteq Config
    BY IndexAssumption
  <2> QED
    BY <2>1, <2>2
<1>2. swig.at = "idle"
  BY DEF Init, NoRun
<1>4. WritersSound
  BY Forms DEF Init, WritersSound
<1>3. TypeOK
  <2>1. changes \in 0 .. MaxChanges
    BY Bounds DEF Init
  <2>2. \A f \in File : cableidx[f].at \in {"not run", "writing", "exit"}
    BY <1>4, ProcessForms
  <2>3. \A f \in File : idx[f] = NoFile
    BY DEF Init
  <2>4. DOMAIN m_ClassGroupLookup = {} /\ DOMAIN m_ImportTypedefLookup = {}
    BY DEF Init
  <2> QED
    BY <1>1, <1>2, <2>1, <2>2, <2>3, <2>4 DEF Init, TypeOK
<1> QED
  BY <1>2, <1>3, <1>4
  DEF Init, IInv, CursorSound, FailureNoticed, Undisturbed, LookupsSound

\* Nothing is said of a run that is disturbed.
LEMMA Disturbed ==
  ASSUME settled' = FALSE
  PROVE  Undisturbed' /\ LookupsSound'
BY DEF Undisturbed, LookupsSound

LEMMA IInvRegenerate ==
  ASSUME IInv, NEW f \in File, NEW c \in Configs[f], NEW state \in {"bad", "good"},
         Regenerate(f, c, state)
  PROVE  IInv'
<1>1. /\ config' = [config EXCEPT ![f] = c]
      /\ xml' = [xml EXCEPT ![f] = state]
      /\ cableidx' = [cableidx EXCEPT ![f] = NotRun]
      /\ changes < MaxChanges /\ changes' = changes + 1
      /\ settled' = FALSE
      /\ UNCHANGED << idx, masters, m_ClassGroupLookup, m_ImportTypedefLookup, swig >>
  BY DEF Regenerate
<1>2. c \in Config
  BY IndexAssumption
<1>3. TypeOK /\ WritersSound /\ CursorSound /\ FailureNoticed
  BY DEF IInv
<1>4. WritersSound'
  BY <1>1, <1>3 DEF WritersSound, NotRun
<1>5. TypeOK'
  <2>1. config' \in [File -> Config] /\ \A g \in File : config'[g] \in Configs[g]
    BY <1>1, <1>2, <1>3 DEF TypeOK
  <2>2. changes' \in 0 .. MaxChanges
    <3>1. changes \in 0 .. MaxChanges
      BY <1>3 DEF TypeOK
    <3> QED
      BY <1>1, <3>1, Bounds
  <2>3. xml' \in [File -> {"bad", "good"}]
    BY <1>1, <1>3 DEF TypeOK
  <2>4. (\A g \in File : cableidx[g].at \in {"not run", "writing", "exit"})'
    BY <1>4, ProcessFormsNext
  <2> QED
    BY <1>1, <1>3, <2>1, <2>2, <2>3, <2>4 DEF TypeOK
<1>6. CursorSound' /\ FailureNoticed'
  BY <1>1, <1>3 DEF CursorSound, FailureNoticed, FileAt, Listed
<1> QED
  BY <1>1, <1>4, <1>5, <1>6, Disturbed DEF IInv

\* A step of a cableidx: index files do not go away, and one that is complete is not
\* touched.
LEMMA WriterStep ==
  ASSUME IInv,
         UNCHANGED << config, xml, masters, m_ClassGroupLookup, m_ImportTypedefLookup, swig,
                      changes >>,
         WritersSound', settled' \in BOOLEAN,
         \A f \in File : idx[f].exists => idx'[f].exists,
         settled' => settled,
         settled' => \A f \in File : Current(f) => Current(f)'
  PROVE  IInv'
<1>1. /\ TypeOK /\ WritersSound /\ CursorSound /\ FailureNoticed
      /\ Undisturbed /\ LookupsSound
  BY DEF IInv
<1>2. Listed' = Listed /\ Listed \subseteq File
  BY ZenonT(30), <1>1, MasterFacts DEF Listed, TypeOK
<1>3. TypeOK'
  <2>1. (\A f \in File : cableidx[f].at \in {"not run", "writing", "exit"})'
    BY ProcessFormsNext
  <2>2. \A f \in File : idx'[f] = NoFile \/ idx'[f] \in [ exists : {TRUE},
                                                lines : Seq([text : Text, long : BOOLEAN]) ]
    BY DEF WritersSound, IndexLine
  <2> QED
    BY <1>1, <2>1, <2>2 DEF TypeOK
<1>4. CursorSound'
  BY <1>1, <1>2 DEF CursorSound, FileAt
<1>5. FailureNoticed'
  BY <1>1 DEF FailureNoticed
<1>6. Undisturbed'
  <2> SUFFICES ASSUME settled'
               PROVE  /\ \A f \in Listed : Current(f)'
                      /\ swig.at \in {"top", "exit"} /\ swig.result = 0 =>
                           Usable(config[swig.file]) /\ swig.name = ModuleName(config[swig.file])
    BY <1>2 DEF Undisturbed
  <2> QED
    BY <1>1, <1>2 DEF Undisturbed
<1>7. LookupsSound'
  <2>1. CASE ~ settled'
    BY <2>1 DEF LookupsSound
  <2>2. CASE settled'
    <3>1. Places' = Places /\ AllWhole' = AllWhole
      BY PlacesKept
    <3>2. Passed' = Passed
      BY <3>1 DEF Passed
    <3>3. LookedUp(Passed) => LookedUp(Passed)'
      BY <3>2, LookedUpKept
    <3> QED
      BY <1>1, <2>2, <3>1, <3>3 DEF LookupsSound
  <2> QED
    BY <2>1, <2>2
<1> QED
  BY <1>3, <1>4, <1>5, <1>6, <1>7 DEF IInv

LEMMA IInvStartCableidx ==
  ASSUME IInv, NEW f \in File, StartCableidx(f)
  PROVE  IInv'
<1>1. config[f] \in Config /\ WritersSound /\ settled \in BOOLEAN
  BY DEF IInv, TypeOK
<1>2. Lines(config[f]) \in Seq(IndexLine)
  BY <1>1, LinesFacts
<1>3. CASE xml[f] # "good"
  <2>1. /\ cableidx[f] = NotRun
        /\ cableidx' = [cableidx EXCEPT ![f] = Exit(1)]
        /\ UNCHANGED << idx, settled >>
    BY <1>3 DEF StartCableidx
  <2>2. WritersSound'
    BY <1>1, <2>1 DEF WritersSound, Exit
  <2>3. \A g \in File : Current(g) => Current(g)'
    <3> SUFFICES ASSUME NEW g \in File, Current(g)
                 PROVE  idx'[g] = Holding(Lines(config'[g])) /\ cableidx'[g] = Exit(0)
      BY DEF Current
    <3>1. g # f
      BY <2>1, Forms DEF Current
    <3> QED
      BY <1>1, <2>1, <3>1 DEF Current, WritersSound, StartCableidx
  <2> QED
    BY <1>1, <2>1, <2>2, <2>3, WriterStep DEF StartCableidx
<1>4. CASE xml[f] = "good"
  <2>1. /\ idx' = [idx EXCEPT ![f] = Holding(<< >>)]
        /\ cableidx' = [cableidx EXCEPT ![f] =
             IF Usable(config[f]) THEN [at |-> "writing", lines |-> Lines(config[f])]
             ELSE Exit(255)]
        /\ settled' = FALSE
    BY <1>4 DEF StartCableidx
  <2>2. Holding(<< >>) \in [exists : {TRUE}, lines : Seq(IndexLine)]
    BY DEF Holding
  <2>3. (IF Usable(config[f]) THEN [at |-> "writing", lines |-> Lines(config[f])]
         ELSE Exit(255)) \in [at : {"exit"}, code : Nat] \cup [at : {"writing"}, lines : Seq(IndexLine)]
    BY <1>2 DEF Exit
  <2>4. WritersSound'
    BY ZenonT(30), <1>1, <2>1, <2>2, <2>3 DEF WritersSound
  <2>5. \A g \in File : idx[g].exists => idx'[g].exists
    BY <1>1, <2>1, <2>2 DEF WritersSound
  <2> QED
    BY <2>1, <2>4, <2>5, WriterStep DEF StartCableidx
<1> QED
  BY <1>3, <1>4

\* A cableidx that appends a line, or stops: f was not complete.
LEMMA WriterAppends ==
  ASSUME IInv, NEW f \in File, cableidx[f].at = "writing",
         NEW p \in [at : {"exit"}, code : Nat] \cup [at : {"writing"}, lines : Seq(IndexLine)],
         cableidx' = [cableidx EXCEPT ![f] = p],
         \/ idx' = idx
         \/ \E l \in IndexLine : idx' = [idx EXCEPT ![f].lines = Append(@, l)],
         UNCHANGED << config, xml, masters, m_ClassGroupLookup, m_ImportTypedefLookup, swig,
                      settled, changes >>
  PROVE  IInv'
<1>1. WritersSound /\ settled \in BOOLEAN
  BY DEF IInv, TypeOK
<1>2. idx[f] \in [exists : {TRUE}, lines : Seq(IndexLine)]
  BY <1>1, ProcessForms
<1>3. PICK x \in [exists : {TRUE}, lines : Seq(IndexLine)] : idx' = [idx EXCEPT ![f] = x]
  <2>1. CASE idx' = idx
    <3>1. idx' = [idx EXCEPT ![f] = idx[f]]
      BY <1>1, <2>1 DEF WritersSound
    <3> QED
      BY <1>2, <3>1
  <2>2. ASSUME NEW l \in IndexLine, idx' = [idx EXCEPT ![f].lines = Append(@, l)]
        PROVE  \E x \in [exists : {TRUE}, lines : Seq(IndexLine)] : idx' = [idx EXCEPT ![f] = x]
    <3>1. Append(idx[f].lines, l) \in Seq(IndexLine)
      BY <1>2, AppendFacts
    <3>2. PICK r : r = Append(idx[f].lines, l)
      OBVIOUS
    <3>3. [idx[f] EXCEPT !.lines = r] \in [exists : {TRUE}, lines : Seq(IndexLine)]
      BY <1>2, <3>1, <3>2
    <3>4. idx' = [idx EXCEPT ![f] = [idx[f] EXCEPT !.lines = r]]
      BY <2>2, <3>2
    <3> QED
      BY <3>3, <3>4
  <2> QED
    BY <2>1, <2>2
<1>4. WritersSound'
  BY <1>1, <1>3 DEF WritersSound
<1>5. \A g \in File : Current(g) => Current(g)'
  <2> SUFFICES ASSUME NEW g \in File, Current(g)
               PROVE  idx'[g] = Holding(Lines(config'[g])) /\ cableidx'[g] = Exit(0)
    BY DEF Current
  <2>1. g # f
    BY DEF Current, Exit
  <2> QED
    BY <1>1, <1>3, <2>1 DEF Current, WritersSound
<1>6. \A g \in File : idx[g].exists => idx'[g].exists
  BY <1>1, <1>3 DEF WritersSound
<1> QED
  BY <1>1, <1>4, <1>5, <1>6, WriterStep

LEMMA IInvWriteIndex ==
  ASSUME IInv, NEW f \in File, WriteIndex(f)
  PROVE  IInv'
<1>1. cableidx[f].at = "writing"
  BY DEF WriteIndex
<1>2. /\ cableidx[f] \in [at : {"writing"}, lines : Seq(IndexLine)]
      /\ WritersSound
  BY <1>1, ProcessForms DEF IInv
<1> DEFINE left == cableidx[f].lines
<1>3. CASE left # << >> /\ idx' = [idx EXCEPT ![f].lines = Append(@, left[1])]
           /\ cableidx' = [cableidx EXCEPT ![f].lines = Tail(left)]
  <2>1. left[1] \in IndexLine /\ Tail(left) \in Seq(IndexLine)
    <3>1. Len(left) \in Nat /\ Len(left) # 0
      BY <1>2, <1>3, LenProperties, EmptySeq
    <3> QED
      BY <1>2, <1>3, <3>1, LenProperties, HeadTailProperties
  <2>2. PICK r : r = Tail(left)
    OBVIOUS
  <2>3. cableidx' = [cableidx EXCEPT ![f] = [at |-> "writing", lines |-> r]]
    <3>1. [cableidx[f] EXCEPT !.lines = r] = [at |-> "writing", lines |-> r]
      BY <1>2
    <3>2. cableidx' = [cableidx EXCEPT ![f] = [cableidx[f] EXCEPT !.lines = r]]
      BY <1>3, <2>2
    <3> QED
      BY <3>1, <3>2
  <2>4. [at |-> "writing", lines |-> r] \in [at : {"writing"}, lines : Seq(IndexLine)]
    BY <2>1, <2>2
  <2> QED
    BY <1>1, <1>3, <2>1, <2>3, <2>4, WriterAppends DEF WriteIndex
<1>4. CASE idx' = idx /\ cableidx' = [cableidx EXCEPT ![f] = Exit(0)]
  <2>1. Exit(0) \in [at : {"exit"}, code : Nat]
    BY DEF Exit
  <2> QED
    BY <1>1, <1>4, <2>1, WriterAppends DEF WriteIndex
<1> QED
  BY <1>3, <1>4 DEF WriteIndex

LEMMA IInvKill ==
  ASSUME IInv, NEW f \in File, Kill(f)
  PROVE  IInv'
<1>1. cableidx[f].at = "writing"
  BY DEF Kill
<1>2. cableidx[f] \in [at : {"writing"}, lines : Seq(IndexLine)]
  BY <1>1, ProcessForms DEF IInv
<1>3. /\ cableidx' = [cableidx EXCEPT ![f] = Exit(137)]
      /\ UNCHANGED << config, xml, masters, m_ClassGroupLookup, m_ImportTypedefLookup, swig,
                      settled, changes >>
  BY DEF Kill
<1>4. Exit(137) \in [at : {"exit"}, code : Nat]
  BY DEF Exit
<1>5. \/ idx' = idx
      \/ \E l \in IndexLine : idx' = [idx EXCEPT ![f].lines = Append(@, l)]
  <2> DEFINE left == cableidx[f].lines
  <2>1. PICK k \in Cuts :
          /\ k > 0 => left # << >> /\ k < Len(left[1].text)
          /\ idx' = IF k = 0 THEN idx
                    ELSE [idx EXCEPT ![f].lines =
                      Append(@, [text |-> CutAfter(left[1].text, k), long |-> FALSE])]
    BY DEF Kill
  <2>2. k \in Nat
    BY IndexAssumption
  <2>3. CASE k = 0
    BY <2>1, <2>3
  <2>4. CASE k > 0
    <3>1. left[1] \in IndexLine
      <4>1. Len(left) \in Nat /\ Len(left) # 0
        BY <1>2, <2>1, <2>4, LenProperties, EmptySeq
      <4> QED
        BY <1>2, <4>1, LenProperties
    <3>2. left[1].text \in Text /\ Len(left[1].text) \in Nat
      BY <3>1, LenProperties DEF IndexLine, Text
    <3>3. k \in 0 .. Len(left[1].text)
      BY <2>1, <2>2, <2>4, <3>2
    <3>4. CutAfter(left[1].text, k) \in Text
      BY <3>2, <3>3, CutTyped
    <3>5. [text |-> CutAfter(left[1].text, k), long |-> FALSE] \in IndexLine
      BY <3>4 DEF IndexLine
    <3> QED
      BY <2>1, <2>4, <3>5
  <2> QED
    BY <2>2, <2>3, <2>4
<1> QED
  BY <1>1, <1>3, <1>4, <1>5, WriterAppends

LookupsTyped ==
  /\ \A k \in DOMAIN m_ClassGroupLookup : k \in Text /\ m_ClassGroupLookup[k] \in Text
  /\ \A k \in DOMAIN m_ImportTypedefLookup : k \in Text /\ m_ImportTypedefLookup[k] \in Text

\* A step of CableSwig leaves configurations, index files and master indexes alone.
LEMMA SwigKeeps ==
  ASSUME IInv, UNCHANGED << config, xml, idx, cableidx, masters, changes >>,
         settled' \in BOOLEAN,
         swig'.at \in {"idle", "master", "index", "input", "top", "exit"},
         LookupsTyped', CursorSound', FailureNoticed', LookupsSound',
         settled' => \A f \in Listed : Current(f),
         settled' /\ swig'.at \in {"top", "exit"} /\ swig'.result = 0 =>
           Usable(config[swig'.file]) /\ swig'.name = ModuleName(config[swig'.file])
  PROVE  IInv'
<1>1. TypeOK /\ WritersSound
  BY DEF IInv
<1>2. TypeOK'
  BY <1>1 DEF TypeOK, LookupsTyped
<1>3. WritersSound'
  BY <1>1 DEF WritersSound
<1>4. Listed' = Listed
  BY DEF Listed
<1>5. \A f : Current(f)' <=> Current(f)
  BY DEF Current
<1>6. Undisturbed'
  BY <1>4, <1>5 DEF Undisturbed
<1> QED
  BY <1>2, <1>3, <1>6 DEF IInv

LEMMA IInvStartSwig ==
  ASSUME IInv, NEW f \in File, StartSwig(f)
  PROVE  IInv'
<1>1. /\ swig' = [at |-> "master", file |-> f, i |-> 1, j |-> 1, line |-> 1]
      /\ m_ClassGroupLookup' = << >>
      /\ m_ImportTypedefLookup' = << >>
      /\ settled' = \A g \in Listed : Current(g)
      /\ UNCHANGED << config, xml, idx, cableidx, masters, changes >>
  BY DEF StartSwig
<1>2. /\ swig'.at = "master" /\ swig'.file = f /\ swig'.i = 1 /\ swig'.j = 1 /\ swig'.line = 1
      /\ swig' \in [ at : {"master", "index"}, file : File, i : Nat \ {0}, j : Nat \ {0},
                     line : Nat \ {0} ]
  BY <1>1
<1>3. CursorSound' /\ FailureNoticed'
  BY <1>2 DEF CursorSound, FailureNoticed
<1>4. LookupsTyped'
  <2>1. DOMAIN m_ClassGroupLookup' = {} /\ DOMAIN m_ImportTypedefLookup' = {}
    BY <1>1
  <2> QED
    BY <2>1 DEF LookupsTyped
<1>5. LookupsSound'
  <2>1. Places' = Places
    BY <1>1, PlacesKept
  <2>2. \A p \in Places : p.i \in Nat \ {0} /\ p.j \in Nat \ {0}
    <3>1. masters \in MasterIndexes /\ config \in [File -> Config]
      BY DEF IInv, TypeOK
    <3> QED
      BY <3>1, PlaceFacts, MasterFacts
  <2>3. Passed' = {}
    BY <1>2, <2>1, <2>2 DEF Passed
  <2>4. DOMAIN m_ClassGroupLookup' = {} /\ DOMAIN m_ImportTypedefLookup' = {}
    BY <1>1
  <2>5. LookedUp(Passed)'
    BY <2>3, <2>4 DEF LookedUp
  <2> QED
    BY <2>5 DEF LookupsSound
<1> QED
  BY <1>1, <1>2, <1>3, <1>4, <1>5, SwigKeeps

\* A step that only moves the cursor, past no place.
LEMMA CursorMoves ==
  ASSUME IInv, swig.at \in {"master", "index"}, swig'.at \in {"master", "index", "input"},
         Passed' = Passed, CursorSound',
         UNCHANGED << config, xml, idx, cableidx, masters, m_ClassGroupLookup,
                      m_ImportTypedefLookup, settled, changes >>
  PROVE  IInv'
<1>1. TypeOK /\ Undisturbed /\ LookupsSound
  BY DEF IInv
<1>2. LookupsTyped'
  BY <1>1 DEF TypeOK, LookupsTyped
<1>3. FailureNoticed'
  BY DEF FailureNoticed
<1>4. LookupsSound'
  <2>1. AllWhole' = AllWhole
    BY PlacesKept
  <2>2. LookedUp(Passed) => LookedUp(Passed)'
    BY LookedUpKept
  <2> QED
    BY <1>1, <2>1, <2>2 DEF LookupsSound
<1>5. settled' \in BOOLEAN /\ (settled' => \A f \in Listed : Current(f))
  BY <1>1 DEF TypeOK, Undisturbed
<1> QED
  BY <1>2, <1>3, <1>4, <1>5, SwigKeeps

\* A step that gives up.
LEMMA ParseFails ==
  ASSUME IInv, swig' = ParseFailed, swig.file \in File,
         UNCHANGED << config, xml, idx, cableidx, masters, m_ClassGroupLookup,
                      m_ImportTypedefLookup, settled, changes >>
  PROVE  IInv'
<1>1. TypeOK /\ Undisturbed
  BY DEF IInv
<1>2. /\ swig'.at = "top" /\ swig'.file = swig.file
      /\ swig'.result = 1 /\ swig'.name = Empty
  BY DEF ParseFailed
<1>3. CursorSound' /\ FailureNoticed' /\ LookupsSound'
  BY <1>2 DEF CursorSound, FailureNoticed, LookupsSound
<1>4. LookupsTyped'
  BY <1>1 DEF TypeOK, LookupsTyped
<1>5. settled' \in BOOLEAN /\ (settled' => \A f \in Listed : Current(f))
  BY <1>1 DEF TypeOK, Undisturbed
<1> QED
  BY <1>2, <1>3, <1>4, <1>5, SwigKeeps

LEMMA IInvReadMasterLine ==
  ASSUME IInv, ReadMasterLine
  PROVE  IInv'
<1>1. /\ TypeOK /\ WritersSound /\ CursorSound
      /\ swig.at = "master"
      /\ UNCHANGED << config, xml, idx, cableidx, masters, m_ClassGroupLookup,
                      m_ImportTypedefLookup, settled, changes >>
  BY DEF IInv, ReadMasterLine
<1>2. masters \in MasterIndexes /\ config \in [File -> Config]
  BY <1>1 DEF TypeOK
<1>3. swig \in [ at : {"master", "index"}, file : File, i : Nat \ {0}, j : Nat \ {0},
                 line : Nat \ {0} ]
  BY <1>1 DEF CursorSound
<1>4. Places' = Places
  BY <1>1, PlacesKept
<1>5. \A p \in Places : /\ p.i \in 1 .. Len(masters) /\ p.j \in 1 .. Len(masters[p.i])
                        /\ p.i \in Nat /\ p.j \in Nat /\ p.line \in Nat \ {0}
                        /\ masters[p.i][p.j] \notin {Blank, Loader}
  BY <1>2, PlaceFacts, MasterFacts
<1>6. Len(masters) \in Nat /\ \A i \in 1 .. Len(masters) : Len(masters[i]) \in Nat
  BY <1>2, MasterFacts
<1>7. CASE swig.i > Len(masters) /\ swig' = [at |-> "input", file |-> swig.file]
  <2>1. swig'.at = "input" /\ swig'.file = swig.file
    BY <1>7
  <2>2. Passed' = Passed
    BY <1>3, <1>4, <1>5, <1>6, <1>7, <2>1 DEF Passed
  <2>3. CursorSound'
    BY <1>3, <2>1 DEF CursorSound
  <2> QED
    BY <1>1, <2>1, <2>2, <2>3, CursorMoves
<1>8. CASE /\ swig.i <= Len(masters) /\ swig.j > Len(masters[swig.i])
           /\ swig' = [swig EXCEPT !.i = @ + 1, !.j = 1]
  <2>1. /\ swig'.at = "master" /\ swig'.i = swig.i + 1 /\ swig'.j = 1
        /\ swig' \in [ at : {"master", "index"}, file : File, i : Nat \ {0}, j : Nat \ {0},
                       line : Nat \ {0} ]
    <3>1. swig' = [at |-> swig.at, file |-> swig.file, i |-> swig.i + 1, j |-> 1,
                   line |-> swig.line]
      BY <1>3, <1>8
    <3> QED
      BY <1>1, <1>3, <3>1
  <2>2. Passed' = Passed
    <3> SUFFICES ASSUME NEW p \in Places
                 PROVE  (p.i < swig.i + 1 \/ (p.i = swig.i + 1 /\ p.j < 1)) <=>
                        (p.i < swig.i \/ (p.i = swig.i /\ p.j < swig.j))
      BY <1>1, <1>4, <2>1 DEF Passed
    <3>1. p.i = swig.i => p.j < swig.j
      BY <1>3, <1>5, <1>6, <1>8
    <3>2. p.i \in Nat /\ p.j \in Nat \ {0} /\ swig.i \in Nat /\ swig.j \in Nat
      BY <1>3, <1>5, <1>6
    <3> QED
      BY <3>1, <3>2
  <2>3. CursorSound'
    BY <2>1 DEF CursorSound
  <2> QED
    BY <1>1, <2>1, <2>2, <2>3, CursorMoves
<1>9. CASE /\ swig.i <= Len(masters) /\ swig.j <= Len(masters[swig.i])
           /\ masters[swig.i][swig.j] \in {Blank, Loader}
           /\ swig' = [swig EXCEPT !.j = @ + 1]
  <2>1. /\ swig'.at = "master" /\ swig'.i = swig.i /\ swig'.j = swig.j + 1
        /\ swig' \in [ at : {"master", "index"}, file : File, i : Nat \ {0}, j : Nat \ {0},
                       line : Nat \ {0} ]
    BY <1>1, <1>3, <1>9
  <2>2. Passed' = Passed
    <3> SUFFICES ASSUME NEW p \in Places
                 PROVE  (p.i < swig.i \/ (p.i = swig.i /\ p.j < swig.j + 1)) <=>
                        (p.i < swig.i \/ (p.i = swig.i /\ p.j < swig.j))
      BY <1>1, <1>4, <2>1 DEF Passed
    <3>1. ~ (p.i = swig.i /\ p.j = swig.j)
      BY <1>5, <1>9
    <3>2. p.i \in Nat /\ p.j \in Nat /\ swig.i \in Nat /\ swig.j \in Nat
      BY <1>3, <1>5
    <3> QED
      BY <3>1, <3>2
  <2>3. CursorSound'
    BY <2>1 DEF CursorSound
  <2> QED
    BY <1>1, <2>1, <2>2, <2>3, CursorMoves
<1>10. CASE swig' = ParseFailed
  BY <1>1, <1>3, <1>10, ParseFails
<1>11. CASE /\ swig.i <= Len(masters) /\ swig.j <= Len(masters[swig.i])
            /\ masters[swig.i][swig.j] \notin {Blank, Loader}
            /\ idx[masters[swig.i][swig.j]] # NoFile
            /\ swig' = [swig EXCEPT !.at = "index", !.line = 1]
  <2>1. /\ swig'.at = "index" /\ swig'.i = swig.i /\ swig'.j = swig.j /\ swig'.line = 1
        /\ swig' \in [ at : {"master", "index"}, file : File, i : Nat \ {0}, j : Nat \ {0},
                       line : Nat \ {0} ]
    <3>1. swig' = [at |-> "index", file |-> swig.file, i |-> swig.i, j |-> swig.j,
                   line |-> 1]
      BY <1>3, <1>11
    <3> QED
      BY <1>1, <1>3, <3>1
  <2>2. Passed' = Passed
    <3> SUFFICES ASSUME NEW p \in Places
                 PROVE  ~ (p.line < 1)
      BY <1>1, <1>4, <2>1 DEF Passed
    <3> QED
      BY <1>5
  <2>3. swig.i \in 1 .. Len(masters) /\ swig.j \in 1 .. Len(masters[swig.i])
    BY <1>3, <1>6, <1>11
  <2>4. masters[swig.i][swig.j] \in Listed /\ masters[swig.i][swig.j] \in File
    BY <1>2, <1>11, <2>3, MasterFacts
  <2>5. idx[masters[swig.i][swig.j]].exists
    BY <1>1, <1>11, <2>4, ProcessForms
  <2>6. Listed' = Listed
    BY <1>1 DEF Listed
  <2>7. FileAt(swig)' = masters[swig.i][swig.j]
    BY <1>1, <2>1 DEF FileAt
  <2>8. CursorSound'
    BY <1>1, <2>1, <2>3, <2>4, <2>5, <2>6, <2>7 DEF CursorSound
  <2> QED
    BY <1>1, <2>1, <2>2, <2>8, CursorMoves
<1> QED
  BY <1>7, <1>8, <1>9, <1>10, <1>11 DEF ReadMasterLine

\* What CableSwig reads of a file that is complete, when no line is too long, is what
\* its configuration declares, line by line.
LEMMA ReadsWhatIsDeclared ==
  ASSUME IInv, settled, swig.at = "index"
  PROVE  LET c == config[FileAt(swig)]
         IN  /\ c \in Config
             /\ idx[FileAt(swig)].lines = Lines(c)
             /\ Len(Lines(c)) = Len(c.wraps)
             /\ \A k \in 1 .. Len(c.wraps) : Lines(c)[k] = Line(c.wraps[k], GroupOf(c))
<1>1. /\ FileAt(swig) \in Listed
      /\ config \in [File -> Config] /\ masters \in MasterIndexes
      /\ \A f \in Listed : Current(f)
  BY DEF IInv, TypeOK, CursorSound, Undisturbed
<1>2. FileAt(swig) \in File
  BY <1>1, MasterFacts
<1>3. idx[FileAt(swig)].lines = Lines(config[FileAt(swig)])
  <2>1. Current(FileAt(swig))
    BY <1>1
  <2>2. idx[FileAt(swig)] = Holding(Lines(config[FileAt(swig)]))
    BY <2>1 DEF Current
  <2> QED
    BY <2>2 DEF Holding
<1>4. config[FileAt(swig)] \in Config
  BY <1>1, <1>2
<1> QED
  BY <1>3, <1>4, LinesFacts

\* A whole line is entered in both lookups.
LEMMA ParsedWhole ==
  ASSUME NEW w \in Wrap, NEW g \in GroupName \cup {Empty},
         ParseIndexInformation(WholeLine(w, g))
  PROVE  /\ m_ClassGroupLookup' = Put(m_ClassGroupLookup, << w.class >>, << g >>)
         /\ m_ImportTypedefLookup' = Put(m_ImportTypedefLookup, << w.class >>, << w.typedef >>)
<1> DEFINE text == WholeLine(w, g)
<1>1. /\ Parsed(text).name = << w.class >>
      /\ Parsed(text).typedef = << w.typedef >>
      /\ Parsed(text).group = << g >>
      /\ "open" \in Range(text)
  BY WholeLineParsed
<1> HIDE DEF text
<1>2. ParseIndexInformation(text)
  BY DEF text
<1>3. /\ m_ClassGroupLookup' = Put(m_ClassGroupLookup, Parsed(text).name, Parsed(text).group)
      /\ m_ImportTypedefLookup' =
           Put(m_ImportTypedefLookup, Parsed(text).name, Parsed(text).typedef)
  BY <1>1, <1>2, Zenon DEF ParseIndexInformation
<1> QED
  BY <1>1, <1>3

\* Whatever is left of a line, what it gives is text.
LEMMA ParsedLookups ==
  ASSUME LookupsTyped, NEW text \in Text, ParseIndexInformation(text)
  PROVE  LookupsTyped'
<1> DEFINE T == Class \cup TypedefName \cup GroupName \cup {"open", "close", Empty, Cut}
<1>1. CASE "open" \notin Range(text)
  <2>1. UNCHANGED << m_ClassGroupLookup, m_ImportTypedefLookup >>
    BY <1>1 DEF ParseIndexInformation
  <2> QED
    BY <2>1 DEF LookupsTyped
<1>2. CASE "open" \in Range(text)
  <2>1. text \in Seq(T)
    BY DEF Text
  <2>2. Len(text) >= 1
    <3> HIDE DEF T
    <3>1. Len(text) \in Nat /\ Range(text) = {text[i] : i \in 1 .. Len(text)}
      BY <2>1, RangeOf
    <3>2. PICK i \in 1 .. Len(text) : text[i] = "open"
      BY <1>2, <3>1
    <3> QED
      BY <3>1, <3>2
  <2>3. /\ Parsed(text).name \in Text
        /\ Parsed(text).typedef \in Text
        /\ Parsed(text).group \in Text
    <3>1. Text = Seq(T)
      BY DEF Text
    <3> HIDE DEF T
    <3> QED
      BY <2>1, <2>2, <3>1, ParsedTyped
  <2>4. /\ m_ClassGroupLookup' = Put(m_ClassGroupLookup, Parsed(text).name, Parsed(text).group)
        /\ m_ImportTypedefLookup' =
             Put(m_ImportTypedefLookup, Parsed(text).name, Parsed(text).typedef)
    BY <1>2, Zenon DEF ParseIndexInformation
  <2>5. PICK n \in Text, t \in Text, g \in Text :
          /\ m_ClassGroupLookup' = Put(m_ClassGroupLookup, n, g)
          /\ m_ImportTypedefLookup' = Put(m_ImportTypedefLookup, n, t)
    BY <2>3, <2>4, Zenon
  <2> QED
    BY <2>5 DEF LookupsTyped, Put
<1> QED
  BY <1>1, <1>2

\* Where the cursor may go from a line.
LEMMA CursorForms ==
  ASSUME NEW s \in [ at : {"master", "index"}, file : File, i : Nat \ {0}, j : Nat \ {0},
                      line : Nat \ {0} ]
  PROVE  LET C == [ at : {"master", "index"}, file : File, i : Nat \ {0}, j : Nat \ {0},
                    line : Nat \ {0} ]
             m == [ at |-> "master", file |-> s.file, i |-> s.i, j |-> s.j + 1,
                    line |-> s.line ]
             n == [ at |-> "index", file |-> s.file, i |-> s.i, j |-> s.j,
                    line |-> s.line + 1 ]
         IN  /\ m \in C /\ m.at = "master"
             /\ n \in C /\ n.at = "index" /\ n.i = s.i /\ n.j = s.j
OBVIOUS

\* The line that is read next.
LEMMA LineRead ==
  ASSUME IInv, swig.at = "index", swig.line <= Len(idx[FileAt(swig)].lines),
         ParseIndexInformation(idx[FileAt(swig)].lines[swig.line].text),
         swig' = IF idx[FileAt(swig)].lines[swig.line].long
                 THEN [swig EXCEPT !.at = "master", !.j = @ + 1]
                 ELSE [swig EXCEPT !.line = @ + 1],
         UNCHANGED << config, xml, idx, cableidx, masters, settled, changes >>
  PROVE  IInv'
<1>1. /\ TypeOK /\ WritersSound /\ CursorSound /\ Undisturbed /\ LookupsSound
      /\ masters \in MasterIndexes /\ config \in [File -> Config]
  BY DEF IInv, TypeOK
<1>2. /\ swig \in [ at : {"master", "index"}, file : File, i : Nat \ {0}, j : Nat \ {0},
                    line : Nat \ {0} ]
      /\ swig.i \in 1 .. Len(masters)
      /\ swig.j \in 1 .. Len(masters[swig.i])
      /\ FileAt(swig) \in Listed
      /\ FileAt(swig) = masters[swig.i][swig.j]
      /\ idx[FileAt(swig)].exists
  BY <1>1 DEF CursorSound, FileAt
<1>3. FileAt(swig) \in File
  BY <1>1, <1>2, MasterFacts
<1> DEFINE lines == idx[FileAt(swig)].lines
<1>4. lines \in Seq(IndexLine)
  <2>1. idx[FileAt(swig)] \in [exists : {TRUE}, lines : Seq(IndexLine)]
    BY <1>1, <1>2, <1>3, ProcessForms
  <2> QED
    BY <2>1
<1>5. lines[swig.line] \in IndexLine
  <2>1. swig.line \in 1 .. Len(lines)
    <3>1. swig.line \in Nat \ {0}
      BY <1>2
    <3>2. Len(lines) \in Nat
      BY <1>4, LenProperties
    <3> QED
      BY <3>1, <3>2
  <2> QED
    BY <1>4, <2>1, LenProperties
<1>6. LookupsTyped'
  <2>1. LookupsTyped
    BY <1>1 DEF TypeOK, LookupsTyped
  <2>2. lines[swig.line].text \in Text
    BY <1>5 DEF IndexLine
  <2> QED
    BY <2>1, <2>2, ParsedLookups
<1>7. Listed' = Listed
  BY DEF Listed
<1>8. \/ lines[swig.line].long /\ swig' = [ at |-> "master", file |-> swig.file, i |-> swig.i,
                                            j |-> swig.j + 1, line |-> swig.line ]
      \/ ~ lines[swig.line].long /\ swig' = [ at |-> "index", file |-> swig.file, i |-> swig.i,
                                              j |-> swig.j, line |-> swig.line + 1 ]
  BY <1>2
<1>9. CursorSound'
  <2> DEFINE C == [ at : {"master", "index"}, file : File, i : Nat \ {0}, j : Nat \ {0},
                    line : Nat \ {0} ]
             m == [ at |-> "master", file |-> swig.file, i |-> swig.i, j |-> swig.j + 1,
                    line |-> swig.line ]
             n == [ at |-> "index", file |-> swig.file, i |-> swig.i, j |-> swig.j,
                    line |-> swig.line + 1 ]
  <2>0. swig \in C
    BY <1>2
  <2>3. /\ m \in C /\ m.at = "master"
        /\ n \in C /\ n.at = "index" /\ n.i = swig.i /\ n.j = swig.j
    BY <2>0, CursorForms
  <2> HIDE DEF m, n
  <2>1. CASE swig' = m
    <3>1. /\ swig'.at = "master"
          /\ swig' \in [ at : {"master", "index"}, file : File, i : Nat \ {0}, j : Nat \ {0},
                         line : Nat \ {0} ]
      BY <2>1, <2>3
    <3> QED
      BY <3>1 DEF CursorSound
  <2>2. CASE swig' = n
    <3>1. /\ swig'.at = "index" /\ swig'.i = swig.i /\ swig'.j = swig.j
          /\ swig' \in [ at : {"master", "index"}, file : File, i : Nat \ {0}, j : Nat \ {0},
                         line : Nat \ {0} ]
      BY <2>2, <2>3
    <3>2. FileAt(swig)' = FileAt(swig)
      BY <3>1 DEF FileAt
    <3> QED
      BY <1>2, <1>7, <3>1, <3>2 DEF CursorSound
  <2> QED
    BY <1>8, <2>1, <2>2 DEF m, n
<1>10. swig'.at \in {"master", "index"}
  BY <1>8
<1>11. FailureNoticed'
  BY <1>10 DEF FailureNoticed
<1>12. LookupsSound'
  <2> SUFFICES ASSUME settled, AllWhole
               PROVE  LookedUp(Passed)'
    BY PlacesKept DEF LookupsSound
  <2> DEFINE c == config[FileAt(swig)]
             w == c.wraps[swig.line]
  <2>1. /\ c \in Config
        /\ lines = Lines(c)
        /\ Len(lines) = Len(c.wraps)
        /\ \A k \in 1 .. Len(c.wraps) : lines[k] = Line(c.wraps[k], GroupOf(c))
    BY ReadsWhatIsDeclared
  <2>2. swig.line \in 1 .. Len(c.wraps)
    <3>1. swig.line \in Nat \ {0}
      BY <1>2
    <3>2. Len(lines) \in Nat
      BY <1>4, LenProperties
    <3> QED
      BY <2>1, <3>1, <3>2
  <2>0. PICK p : p = [i |-> swig.i, j |-> swig.j, line |-> swig.line]
    OBVIOUS
  <2>3. p \in Places
    <3>1. masters[swig.i][swig.j] \notin {Blank, Loader}
      BY <1>2 DEF Listed
    <3> QED
      BY <1>1, <1>2, <2>0, <2>2, <3>1, PlaceFacts
  <2>4. p.i = swig.i /\ p.j = swig.j /\ p.line = swig.line
    BY <2>0
  <2>5. FileAt(p) = FileAt(swig) /\ WrapAt(p) = w
    BY <2>4 DEF FileAt, WrapAt
  <2>6. w \in Wrap /\ GroupOf(c) \in GroupName \cup {Empty} /\ w.fits = 9
    BY <2>1, <2>2, <2>3, <2>5, ConfigFacts DEF AllWhole
  <2>7. lines[swig.line] = Line(w, GroupOf(c))
    BY <2>1, <2>2
  <2>8. ~ lines[swig.line].long /\ lines[swig.line].text = WholeLine(w, GroupOf(c))
    <3>1. /\ ~ Line(w, GroupOf(c)).long
          /\ Line(w, GroupOf(c)).text = WholeLine(w, GroupOf(c))
      <4> HIDE DEF w, c
      <4> QED
        BY <2>6, LineFacts
    <3> QED
      BY <2>7, <3>1
  <2>9. /\ swig'.at = "index" /\ swig'.i = swig.i /\ swig'.j = swig.j
        /\ swig'.line = swig.line + 1
    BY <1>8, <2>8
  <2>10. /\ m_ClassGroupLookup' =
              Put(m_ClassGroupLookup, << WrapAt(p).class >>, << GroupOf(config[FileAt(p)]) >>)
         /\ m_ImportTypedefLookup' =
              Put(m_ImportTypedefLookup, << WrapAt(p).class >>, << WrapAt(p).typedef >>)
    <3>1. ParseIndexInformation(WholeLine(w, GroupOf(c)))
      BY <2>8
    <3>2. /\ m_ClassGroupLookup' = Put(m_ClassGroupLookup, << w.class >>, << GroupOf(c) >>)
          /\ m_ImportTypedefLookup' = Put(m_ImportTypedefLookup, << w.class >>, << w.typedef >>)
      <4> HIDE DEF w, c
      <4> QED
        BY <2>6, <3>1, ParsedWhole
    <3> QED
      BY <2>5, <3>2
  <2>11. \A q \in Places : /\ q.i \in Nat /\ q.j \in Nat /\ q.line \in Nat
                           /\ q = [i |-> q.i, j |-> q.j, line |-> q.line]
    BY <1>1, PlaceFacts, MasterFacts
  <2>12. Passed = {q \in Places : Before(q, p)}
    BY <2>4, <2>11 DEF Passed, Before
  <2>13. Places' = Places
    BY PlacesKept
  <2>14. \A q \in Places :
           (q.i = swig.i /\ q.j = swig.j /\ q.line = swig.line) <=> q = p
    BY <2>0, <2>11
  <2>15. Passed' = {q \in Places : Before(q, p)} \cup {p}
    <3>1. Passed' = {q \in Places : \/ q.i < swig.i
                                    \/ q.i = swig.i /\ q.j < swig.j
                                    \/ q.i = swig.i /\ q.j = swig.j /\ q.line < swig.line + 1}
      BY <2>9, <2>13 DEF Passed
    <3>2. \A q \in Places : q.line < swig.line + 1 <=> (q.line < swig.line \/ q.line = swig.line)
      <4>1. swig.line \in Nat /\ \A q \in Places : q.line \in Nat
        BY <1>2, <2>11
      <4> QED
        BY <4>1
    <3>3. \A q \in Places : (Before(q, p) \/ q = p) <=>
                             \/ q.i < swig.i
                             \/ q.i = swig.i /\ q.j < swig.j
                             \/ q.i = swig.i /\ q.j = swig.j /\ q.line < swig.line + 1
      BY <2>4, <2>14, <3>2 DEF Before
    <3> QED
      BY <2>3, <3>1, <3>3
  <2>16. LookedUp(Passed)
    BY <1>1 DEF LookupsSound
  <2>17. PICK P : P = Passed
    OBVIOUS
  <2>18. P \subseteq Places /\ (\A q \in P : Before(q, p)) /\ LookedUp(P)
    BY <2>12, <2>16, <2>17
  <2>19. LookedUp(P \cup {p})'
    BY <1>1, <2>3, <2>10, <2>18, LookedUpNext
  <2>20. Passed' = P \cup {p}
    BY <2>12, <2>15, <2>17
  <2> QED
    BY <2>19, <2>20
<1>13. settled' \in BOOLEAN /\ (settled' => \A f \in Listed : Current(f))
  BY <1>1 DEF TypeOK, Undisturbed
<1> QED
  BY <1>6, <1>9, <1>10, <1>11, <1>12, <1>13, SwigKeeps

LEMMA IInvReadIndexLine ==
  ASSUME IInv, ReadIndexLine
  PROVE  IInv'
<1> DEFINE lines == idx[masters[swig.i][swig.j]].lines
<1>1. /\ swig.at = "index"
      /\ UNCHANGED << config, xml, idx, cableidx, masters, settled, changes >>
      /\ FileAt(swig) = masters[swig.i][swig.j]
  BY DEF ReadIndexLine, FileAt
<1>2. CASE /\ swig.line > Len(lines)
           /\ swig' = [swig EXCEPT !.at = "master", !.j = @ + 1]
           /\ UNCHANGED << m_ClassGroupLookup, m_ImportTypedefLookup >>
  <2>1. /\ TypeOK /\ CursorSound /\ LookupsSound
        /\ masters \in MasterIndexes /\ config \in [File -> Config]
    BY DEF IInv, TypeOK
  <2>2. swig \in [ at : {"master", "index"}, file : File, i : Nat \ {0}, j : Nat \ {0},
                   line : Nat \ {0} ]
    BY <1>1, <2>1 DEF CursorSound
  <2>3. swig' = [ at |-> "master", file |-> swig.file, i |-> swig.i, j |-> swig.j + 1,
                  line |-> swig.line ]
    BY <1>2, <2>2
  <2>4. /\ swig'.at = "master" /\ swig'.i = swig.i /\ swig'.j = swig.j + 1
        /\ swig' \in [ at : {"master", "index"}, file : File, i : Nat \ {0}, j : Nat \ {0},
                       line : Nat \ {0} ]
    BY <2>2, <2>3
  <2>5. CursorSound'
    BY <2>4 DEF CursorSound
  <2>6. ASSUME settled
        PROVE  Passed' = Passed
    <3>1. Places' = Places
      BY <1>1, PlacesKept
    <3>2. \A p \in Places : /\ p.i \in Nat /\ p.j \in Nat /\ p.line \in Nat
                            /\ FileAt(p) = masters[p.i][p.j]
                            /\ p.line \in 1 .. Len(config[FileAt(p)].wraps)
      BY <2>1, PlaceFacts, MasterFacts
    <3>3. /\ lines = Lines(config[FileAt(swig)])
          /\ Len(lines) = Len(config[FileAt(swig)].wraps)
      BY <1>1, <2>6, ReadsWhatIsDeclared
    <3> SUFFICES ASSUME NEW p \in Places
                 PROVE  (p.i < swig.i \/ (p.i = swig.i /\ p.j < swig.j + 1)) <=>
                        \/ p.i < swig.i \/ (p.i = swig.i /\ p.j < swig.j)
                        \/ p.i = swig.i /\ p.j = swig.j /\ p.line < swig.line
      BY <1>1, <2>4, <3>1 DEF Passed
    <3>4. p.i = swig.i /\ p.j = swig.j => p.line <= Len(lines)
      BY <1>1, <3>2, <3>3
    <3>5. Len(lines) \in Nat
      BY <1>1, <2>6, <3>3, ReadsWhatIsDeclared, ConfigFacts
    <3>6. p.i = swig.i /\ p.j = swig.j => p.line < swig.line
      <4>1. p.line \in Nat /\ swig.line \in Nat /\ swig.line > Len(lines)
        BY <1>2, <2>2, <3>2
      <4> HIDE DEF lines
      <4> QED
        BY <3>4, <3>5, <4>1
    <3>7. p.i \in Nat /\ p.j \in Nat /\ swig.i \in Nat /\ swig.j \in Nat
      BY <2>2, <3>2
    <3> QED
      BY <3>6, <3>7
  <2>7. CASE settled
    BY <1>1, <1>2, <2>4, <2>5, <2>6, <2>7, CursorMoves
  <2>8. CASE ~ settled
    <3>1. LookupsSound' /\ FailureNoticed'
      BY <1>1, <2>4, <2>8 DEF LookupsSound, FailureNoticed
    <3>2. LookupsTyped'
      BY <1>2, <2>1 DEF TypeOK, LookupsTyped
    <3>3. settled' \in BOOLEAN
      BY <1>1, <2>1 DEF TypeOK
    <3> QED
      BY <1>1, <2>4, <2>5, <2>8, <3>1, <3>2, <3>3, SwigKeeps
  <2> QED
    BY <2>7, <2>8
<1>3. CASE /\ swig.line <= Len(lines)
           /\ ParseIndexInformation(lines[swig.line].text)
           /\ swig' = IF lines[swig.line].long
                      THEN [swig EXCEPT !.at = "master", !.j = @ + 1]
                      ELSE [swig EXCEPT !.line = @ + 1]
  BY <1>1, <1>3, LineRead
<1> QED
  BY <1>2, <1>3 DEF ReadIndexLine

LEMMA IInvParseFile ==
  ASSUME IInv, ParseFile
  PROVE  IInv'
<1>1. /\ TypeOK /\ CursorSound /\ Undisturbed
      /\ swig.at = "input" /\ swig.file \in File
      /\ UNCHANGED << config, xml, idx, cableidx, masters, m_ClassGroupLookup,
                      m_ImportTypedefLookup, settled, changes >>
  BY DEF IInv, CursorSound, ParseFile
<1>2. CASE ~ (xml[swig.file] = "good" /\ Usable(config[swig.file]))
  <2>1. swig' = ParseFailed
    BY <1>2 DEF ParseFile
  <2> QED
    BY <1>1, <2>1, ParseFails
<1>3. CASE xml[swig.file] = "good" /\ Usable(config[swig.file])
  <2>1. swig' = [at |-> "top", file |-> swig.file, result |-> 0,
                 name |-> ModuleName(config[swig.file])]
    BY <1>3 DEF ParseFile
  <2>2. /\ swig'.at = "top" /\ swig'.file = swig.file /\ swig'.result = 0
        /\ swig'.name = ModuleName(config[swig.file])
    BY <2>1
  <2>3. CursorSound' /\ FailureNoticed' /\ LookupsSound'
    BY <1>1, <2>2 DEF CursorSound, FailureNoticed, LookupsSound
  <2>4. LookupsTyped'
    BY <1>1 DEF TypeOK, LookupsTyped
  <2>5. settled' \in BOOLEAN /\ (settled' => \A f \in Listed : Current(f))
    BY <1>1 DEF TypeOK, Undisturbed
  <2> QED
    BY <1>1, <1>3, <2>2, <2>3, <2>4, <2>5, SwigKeeps
<1> QED
  BY <1>2, <1>3

LEMMA IInvMain ==
  ASSUME IInv, NEW errors \in {0, 1}, Main(errors)
  PROVE  IInv'
<1>1. /\ TypeOK /\ CursorSound /\ Undisturbed /\ FailureNoticed
      /\ swig.at = "top" /\ swig.file \in File
      /\ swig.result \in {0, 1} /\ (swig.result = 1 => swig.name = Empty)
      /\ UNCHANGED << config, xml, idx, cableidx, masters, m_ClassGroupLookup,
                      m_ImportTypedefLookup, settled, changes >>
  BY DEF IInv, CursorSound, FailureNoticed, Main
<1>2. swig' = [ at |-> "exit", file |-> swig.file, result |-> swig.result, name |-> swig.name,
                code |-> IF swig.name = Empty /\ ~ LibraryModule THEN 1 ELSE errors ]
  BY DEF Main
<1>3. /\ swig'.at = "exit" /\ swig'.file = swig.file /\ swig'.result = swig.result
      /\ swig'.name = swig.name
      /\ swig'.code = IF swig.name = Empty /\ ~ LibraryModule THEN 1 ELSE errors
  BY <1>2
<1>4. CursorSound' /\ LookupsSound'
  BY <1>1, <1>3 DEF CursorSound, LookupsSound
<1>5. FailureNoticed'
  BY <1>1, <1>3 DEF FailureNoticed
<1>6. LookupsTyped'
  BY <1>1 DEF TypeOK, LookupsTyped
<1>7. settled' \in BOOLEAN /\ (settled' => \A f \in Listed : Current(f))
  BY <1>1 DEF TypeOK, Undisturbed
<1>8. settled' /\ swig'.result = 0 =>
        Usable(config[swig'.file]) /\ swig'.name = ModuleName(config[swig'.file])
  BY <1>1, <1>3 DEF Undisturbed
<1> QED
  BY <1>1, <1>3, <1>4, <1>5, <1>6, <1>7, <1>8, SwigKeeps

LEMMA IInvUnchanged ==
  ASSUME IInv, UNCHANGED vars
  PROVE  IInv'
<1>1. UNCHANGED << config, xml, idx, cableidx, masters, m_ClassGroupLookup,
                   m_ImportTypedefLookup, swig, settled, changes >>
  BY DEF vars
<1>2. WritersSound' /\ settled' \in BOOLEAN
  BY <1>1 DEF IInv, WritersSound, TypeOK
<1>3. \A f \in File : Current(f) => Current(f)'
  BY <1>1 DEF Current
<1> QED
  BY <1>1, <1>2, <1>3, WriterStep

LEMMA IInvNext ==
  ASSUME IInv, [Next]_vars
  PROVE  IInv'
<1>1. ASSUME NEW f \in File, NEW c \in Configs[f], NEW state \in {"bad", "good"},
             Regenerate(f, c, state)
      PROVE  IInv'
  BY <1>1, IInvRegenerate
<1>2. ASSUME NEW f \in File, StartCableidx(f)
      PROVE  IInv'
  BY <1>2, IInvStartCableidx
<1>3. ASSUME NEW f \in File, WriteIndex(f)
      PROVE  IInv'
  BY <1>3, IInvWriteIndex
<1>4. ASSUME NEW f \in File, Kill(f)
      PROVE  IInv'
  BY <1>4, IInvKill
<1>5. ASSUME NEW f \in File, StartSwig(f)
      PROVE  IInv'
  BY <1>5, IInvStartSwig
<1>6. ReadMasterLine => IInv'
  BY IInvReadMasterLine
<1>7. ReadIndexLine => IInv'
  BY IInvReadIndexLine
<1>8. ParseFile => IInv'
  BY IInvParseFile
<1>9. ASSUME NEW errors \in {0, 1}, Main(errors)
      PROVE  IInv'
  BY <1>9, IInvMain
<1>10. UNCHANGED vars => IInv'
  BY IInvUnchanged
<1> QED
  BY <1>1, <1>2, <1>3, <1>4, <1>5, <1>6, <1>7, <1>8, <1>9, <1>10 DEF Next, SwigStep

-----------------------------------------------------------------------------
(* What the reachable states satisfy. *)

\* The inductive invariant holds in every reachable state.
THEOREM InvariantHolds == Spec => []IInv
<1>1. Init => IInv
  BY IInvInit
<1>2. IInv /\ [Next]_vars => IInv'
  BY IInvNext
<1> QED
  BY <1>1, <1>2, PTL DEF Spec

\* Every variable has its type, whatever a killed cableidx leaves of a line.
THEOREM TypeCorrect == Spec => []TypeOK
<1>1. IInv => TypeOK
  BY DEF IInv
<1> QED
  BY <1>1, InvariantHolds, PTL

\* For any number of index files, listed in any order and more than once, CableSwig
\* knows of the classes that the configurations wrap, with the group and the typedef
\* of the last one, if no file was being written or outdated when it began.
THEOREM LookupsAreExact == Spec => []LookupsExact
<1>1. IInv => LookupsExact
  <2> SUFFICES ASSUME IInv, swig.at = "input", settled, AllWhole
               PROVE  LookedUp(Places)
    BY DEF LookupsExact
  <2>1. LookedUp(Passed)
    BY DEF IInv, LookupsSound
  <2>2. Passed = Places
    BY DEF Passed
  <2> QED
    BY <2>1, <2>2
<1> QED
  BY <1>1, InvariantHolds, PTL

\* The name of the module is the group that every line of its own index gives, for
\* every configuration that has a group, no renames and no line that is too long.
THEOREM ModuleIsTheOneIndexed == Spec => []ModuleOfIndex
<1>1. IInv => ModuleOfIndex
  <2> DEFINE c == config[swig.file]
             lines == idx[swig.file].lines
  <2> SUFFICES ASSUME IInv, swig.at \in {"top", "exit"}, settled, swig.result = 0,
                      swig.file \in Listed, c.group # Absent, ~ c.renames,
                      \A k \in 1 .. Len(lines) : ~ lines[k].long,
                      NEW k \in 1 .. Len(lines)
               PROVE  Parsed(lines[k].text).group = swig.name
    BY DEF ModuleOfIndex
  <2>1. /\ Current(swig.file) /\ Usable(c) /\ swig.name = ModuleName(c)
        /\ c \in Config
    BY DEF IInv, Undisturbed, TypeOK, CursorSound
  <2>2. lines = Lines(c)
    BY <2>1 DEF Current, Holding
  <2> HIDE DEF c
  <2>3. /\ Len(lines) = Len(c.wraps)
        /\ \A l \in 1 .. Len(c.wraps) : Lines(c)[l] = Line(c.wraps[l], GroupOf(c))
        /\ \A l \in 1 .. Len(c.wraps) : c.wraps[l] \in Wrap
        /\ GroupOf(c) \in GroupName \cup {Empty}
    BY <2>1, <2>2, LinesFacts, ConfigFacts
  <2>4. PICK w \in Wrap : lines[k] = Line(w, GroupOf(c))
    BY <2>2, <2>3
  <2>5. lines[k].text = WholeLine(w, GroupOf(c))
    BY <2>3, <2>4, LineFacts
  <2>6. Parsed(lines[k].text).group = << GroupOf(c) >>
    BY <2>3, <2>5, WholeLineParsed
  <2>7. GroupOf(c) # Empty
    <3>1. c.group \in VariableForm /\ Empty \notin GroupName
      BY <2>1, IndexAssumption DEF Config
    <3>2. ~ (GroupOf(c) = Empty /\ PackageOf(c) = Empty)
      BY <2>1 DEF Usable
    <3>3. ~ (NotVariable \in {c.group, c.package} \/ c.group = NotString)
      BY <3>2 DEF GroupOf, PackageOf, GetGroupAndPackageInformation
    <3>4. c.group \in GroupName
      BY <3>1, <3>3 DEF VariableForm
    <3>5. GroupOf(c) = c.group
      BY <3>3, <3>4 DEF GroupOf, GetGroupAndPackageInformation
    <3> QED
      BY <3>1, <3>4, <3>5
  <2>8. ModuleName(c) = << GroupOf(c) >>
    BY <2>7 DEF ModuleName, c
  <2> QED
    BY <2>1, <2>6, <2>8
<1> QED
  BY <1>1, InvariantHolds, PTL

\* Exit status 0 means that the input was processed, or that a library named the
\* module, for every order in which inputs fail and the index files are written.
THEOREM FailuresAreReported == Spec => []SuccessMeansParsed
<1>1. IInv => SuccessMeansParsed
  BY DEF IInv, FailureNoticed, SuccessMeansParsed
<1> QED
  BY <1>1, InvariantHolds, PTL

=============================================================================
