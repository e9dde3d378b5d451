----------------------------- MODULE IndexFiles -----------------------------
(***************************************************************************)
(* The index files that tell one run of CableSwig what the other groups    *)
(* wrap: cableidx (Executables/cableidx.cxx) writes one for each           *)
(* configuration, a master index lists them, and CableSwig                 *)
(* (Executables/CableSwig.cxx, called from cableSwigMain.cxx) reads them   *)
(* all before it looks at its own input.                                   *)
(*                                                                         *)
(* The build runs cableidx for several configurations at a time, runs it   *)
(* again when an input has changed, and may be killed; nothing keeps       *)
(* CableSwig from reading an index while another library writes it.        *)
(***************************************************************************)
EXTENDS Naturals, Sequences, Functions

CONSTANTS
  File,        \* the configurations, each with its XML file and its index file
  Class,       \* names of classes
  TypedefName, \* names of typedefs
  GroupName,   \* names of groups and packages
  Empty,       \* the empty name
  Cut,         \* a name of which only the beginning is left
  Absent, NotVariable, NotString,  \* other forms of _cable_::group and ::package
  Configs,     \* the contents considered of each configuration
  Cuts,        \* where a killed cableidx may leave the line it is writing
  MasterIndexes,   \* the master index files considered
  LibraryModule,   \* whether a -l library names a module
  MaxChanges       \* bound on how often an XML file is made anew

VariableForm == GroupName \cup {Absent, NotVariable, NotString}

(***************************************************************************)
(* A configuration: whether there is a namespace _cable_, what its group   *)
(* and package are, and the typedefs of wrappers and then renames.  "fits" *)
(* is how much of the typedef's index line fits in the buffer of 5000      *)
(* characters it is read into.                                             *)
(***************************************************************************)
Wrap   == [class : Class, typedef : TypedefName, fits : 1 .. 9]
Config == [ cable : BOOLEAN, group : VariableForm, package : VariableForm,
            renames : BOOLEAN, wraps : Seq(Wrap) ]

\* The lines of a master index: a blank line, a %JavaLoader, or an index file.
Blank == "blank"
Loader == "loader"

ASSUME IndexAssumption ==
  /\ Configs \in [File -> SUBSET Config]
  /\ Cuts \subseteq 0 .. 8
  /\ MasterIndexes \subseteq Seq(Seq(File \cup {Blank, Loader}))
  /\ Cut \notin Class \cup TypedefName \cup GroupName
  /\ {"open", "close"} \cap (Class \cup TypedefName \cup GroupName \cup {Empty}) = {}
  /\ Empty \notin GroupName
  /\ GroupName \cap {Absent, NotVariable, NotString} = {}
  /\ LibraryModule \in BOOLEAN
  /\ MaxChanges \in Nat

VARIABLES
  config,      \* what gccxml last saw of each configuration
  xml,         \* the XML file of each: "good", or missing or rejected
  idx,         \* the index file of each, or NoFile
  cableidx,    \* the cableidx process of each, or its exit status
  masters,     \* m_MasterIndexFiles, with their lines
  m_ClassGroupLookup,
  m_ImportTypedefLookup,
  swig,        \* the CableSwig process
  settled,     \* history: no index was missing, cut or changed since it began
  changes      \* how often an XML file was made anew

vars == << config, xml, idx, cableidx, masters, m_ClassGroupLookup,
           m_ImportTypedefLookup, swig, settled, changes >>

NoFile == [exists |-> FALSE, lines |-> << >>]
Holding(lines) == [exists |-> TRUE, lines |-> lines]
NotRun == [at |-> "not run"]
Exit(code) == [at |-> "exit", code |-> code]

-----------------------------------------------------------------------------
(* What both programs read of a configuration. *)

\* GetGroupAndPackageInformation: variables of the wrong kind end it before anything
\* is read, an initializer that is no string when it is reached.  Its result is
\* ignored by both callers.
GetGroupAndPackageInformation(c) ==
  IF NotVariable \in {c.group, c.package} \/ c.group = NotString
  THEN [group |-> Empty, package |-> Empty]
  ELSE [ group   |-> IF c.group \in GroupName THEN c.group ELSE Empty,
         package |-> IF c.package \in GroupName THEN c.package ELSE Empty ]

GroupOf(c) == GetGroupAndPackageInformation(c).group
PackageOf(c) == GetGroupAndPackageInformation(c).package

\* The test that CreateIndexFile and ProcessSource begin with.
Usable(c) == c.cable /\ ~ (GroupOf(c) = Empty /\ PackageOf(c) = Empty)

\* The line of a typedef, {class} {typedef} {group}; its braces are "open" and "close".
WholeLine(w, g) == << "open", w.class, "close", "open", w.typedef, "close", "open", g, "close" >>

\* The first k parts of a line; a name that comes next is cut.
CutAfter(line, k) ==
  IF k < Len(line) /\ line[k + 1] \notin {"open", "close"}
  THEN Append(SubSeq(line, 1, k), Cut) ELSE SubSeq(line, 1, k)

\* A line as getline stores it, and whether it was too long.
Line(w, g) == [text |-> CutAfter(WholeLine(w, g), w.fits), long |-> w.fits < 9]

Lines(c) == [i \in 1 .. Len(c.wraps) |-> Line(c.wraps[i], GroupOf(c))]

-----------------------------------------------------------------------------
(* cableidx. *)

\* gccxml makes the XML file of a configuration anew; it may fail.
Regenerate(f, c, state) ==
  /\ cableidx[f].at # "writing"
  /\ c # config[f] \/ state # xml[f]
  /\ changes < MaxChanges
  /\ changes' = changes + 1
  /\ config' = [config EXCEPT ![f] = c]
  /\ xml' = [xml EXCEPT ![f] = state]
  /\ cableidx' = [cableidx EXCEPT ![f] = NotRun]
  /\ settled' = FALSE
  /\ UNCHANGED << idx, masters, m_ClassGroupLookup, m_ImportTypedefLookup, swig >>

\* Mutant: the index is never opened.
StartCableidxUnopened(f) ==
  /\ cableidx[f] = NotRun
  /\ cableidx' = [cableidx EXCEPT ![f] =
       IF xml[f] # "good" \/ ~ Usable(config[f]) THEN Exit(1)
       ELSE [at |-> "writing", lines |-> Lines(config[f])]]
  /\ UNCHANGED << config, xml, idx, masters, m_ClassGroupLookup, m_ImportTypedefLookup,
                  swig, settled, changes >>

\* main: an XML file that cannot be read or made into a source representation ends
\* it before the index is opened, which empties it; then CreateIndexFile.
StartCableidx(f) ==
  /\ cableidx[f] = NotRun
  /\ \/ /\ xml[f] # "good"
        /\ cableidx' = [cableidx EXCEPT ![f] = Exit(1)]
        /\ UNCHANGED << idx, settled >>
     \/ /\ xml[f] = "good"
        /\ idx' = [idx EXCEPT ![f] = Holding(<< >>)]
        /\ cableidx' = [cableidx EXCEPT ![f] =
             IF Usable(config[f]) THEN [at |-> "writing", lines |-> Lines(config[f])]
             ELSE Exit(255)]
        /\ settled' = FALSE
  /\ UNCHANGED << config, xml, masters, m_ClassGroupLookup, m_ImportTypedefLookup, swig,
                  changes >>

\* DetermineClassesToWrap: the lines reach the file one after the other.
WriteIndex(f) ==
  /\ cableidx[f].at = "writing"
  /\ LET left == cableidx[f].lines
     IN  \/ /\ left # << >>
            /\ idx' = [idx EXCEPT ![f].lines = Append(@, left[1])]
            /\ cableidx' = [cableidx EXCEPT ![f].lines = Tail(left)]
         \/ /\ left = << >>
            /\ cableidx' = [cableidx EXCEPT ![f] = Exit(0)]
            /\ UNCHANGED idx
  /\ UNCHANGED << config, xml, masters, m_ClassGroupLookup, m_ImportTypedefLookup,
                  swig, settled, changes >>

\* The build is killed while the line is written; it will be started again.
Kill(f) ==
  /\ cableidx[f].at = "writing"
  /\ \E k \in Cuts :
       LET left == cableidx[f].lines
       IN  /\ k > 0 => left # << >> /\ k < Len(left[1].text)
           /\ idx' = IF k = 0 THEN idx
                     ELSE [idx EXCEPT ![f].lines =
                       Append(@, [text |-> CutAfter(left[1].text, k), long |-> FALSE])]
  /\ cableidx' = [cableidx EXCEPT ![f] = Exit(137)]
  /\ UNCHANGED << config, xml, masters, m_ClassGroupLookup, m_ImportTypedefLookup,
                  swig, settled, changes >>

-----------------------------------------------------------------------------
(* CableSwig: ReadMasterIndexFile. *)

\* string::find of c from a position on; 0 is npos.
Find(text, c) ==
  [ from \in 0 .. Len(text) |->
      LET at == {i \in from .. Len(text) : text[i] = c}
      IN  IF from = 0 \/ at = {} THEN 0 ELSE CHOOSE i \in at : \A j \in at : i <= j ]

\* substr(p1 + 1, p2 - p1 - 1), as it comes out when one or both are npos; a length
\* below zero is that of the rest.
Between(text, p1, p2) ==
  SubSeq(text, p1 + 1, IF p2 <= p1 THEN Len(text) ELSE p2 - 1)

\* ParseIndexInformation takes a line apart; no brace but the first is checked for.
Parsed(text) ==
  LET open1  == Find(text, "open")[1]
      close1 == Find(text, "close")[1]
      open2  == Find(text, "open")[close1]
      close2 == Find(text, "close")[open2]
      open3  == Find(text, "open")[close2]
      close3 == Find(text, "close")[open3]
  IN  [ name    |-> Between(text, open1, close1),
        typedef |-> Between(text, open2, close2),
        group   |-> Between(text, open3, close3) ]

\* f with g at k.
Put(f, k, g) == [x \in DOMAIN f \cup {k} |-> IF x = k THEN g ELSE f[x]]

\* Mutant: a class that has a group keeps it.
ParseIndexInformationKeeps(text) ==
  IF "open" \notin Range(text) THEN UNCHANGED << m_ClassGroupLookup, m_ImportTypedefLookup >>
  ELSE LET p == Parsed(text)
       IN  /\ m_ClassGroupLookup' = IF p.name \in DOMAIN m_ClassGroupLookup
                                    THEN m_ClassGroupLookup
                                    ELSE Put(m_ClassGroupLookup, p.name, p.group)
           /\ m_ImportTypedefLookup' = Put(m_ImportTypedefLookup, p.name, p.typedef)

\* ParseIndexInformation: the last line of a class counts.
ParseIndexInformation(text) ==
  IF "open" \notin Range(text) THEN UNCHANGED << m_ClassGroupLookup, m_ImportTypedefLookup >>
  ELSE LET p == Parsed(text)
       IN  /\ m_ClassGroupLookup' = Put(m_ClassGroupLookup, p.name, p.group)
           /\ m_ImportTypedefLookup' = Put(m_ImportTypedefLookup, p.name, p.typedef)

NoRun == [at |-> "idle"]

Listed == (UNION {Range(masters[i]) : i \in 1 .. Len(masters)}) \ {Blank, Loader}

\* An index that holds what its configuration says.
Current(f) == idx[f] = Holding(Lines(config[f])) /\ cableidx[f] = Exit(0)

\* CableSwig is started for a configuration.
StartSwig(f) ==
  /\ swig.at \in {"idle", "exit"}
  /\ swig' = [at |-> "master", file |-> f, i |-> 1, j |-> 1, line |-> 1]
  /\ m_ClassGroupLookup' = << >>
  /\ m_ImportTypedefLookup' = << >>
  /\ settled' = \A g \in Listed : Current(g)
  /\ UNCHANGED << config, xml, idx, cableidx, masters, changes >>

ParseFailed == [at |-> "top", file |-> swig.file, result |-> 1, name |-> Empty]

\* The loop over the lines of the master index files.
ReadMasterLine ==
  /\ swig.at = "master"
  /\ \/ /\ swig.i > Len(masters)
        /\ swig' = [at |-> "input", file |-> swig.file]
     \/ /\ swig.i <= Len(masters)
        /\ swig.j > Len(masters[swig.i])
        /\ swig' = [swig EXCEPT !.i = @ + 1, !.j = 1]
     \/ /\ swig.i <= Len(masters)
        /\ swig.j <= Len(masters[swig.i])
        /\ LET line == masters[swig.i][swig.j]
           IN  IF line \in {Blank, Loader} THEN swig' = [swig EXCEPT !.j = @ + 1]
               ELSE IF idx[line] = NoFile THEN swig' = ParseFailed
               ELSE swig' = [swig EXCEPT !.at = "index", !.line = 1]
  /\ UNCHANGED << config, xml, idx, cableidx, masters, m_ClassGroupLookup,
                  m_ImportTypedefLookup, settled, changes >>

\* The loop over the lines of one index file.  A line that is too long is parsed as
\* far as it was read, and ends the loop.
ReadIndexLine ==
  /\ swig.at = "index"
  /\ LET lines == idx[masters[swig.i][swig.j]].lines
     IN  \/ /\ swig.line > Len(lines)
            /\ swig' = [swig EXCEPT !.at = "master", !.j = @ + 1]
            /\ UNCHANGED << m_ClassGroupLookup, m_ImportTypedefLookup >>
         \/ /\ swig.line <= Len(lines)
            /\ ParseIndexInformation(lines[swig.line].text)
            /\ swig' = IF lines[swig.line].long
                       THEN [swig EXCEPT !.at = "master", !.j = @ + 1]
                       ELSE [swig EXCEPT !.line = @ + 1]
  /\ UNCHANGED << config, xml, idx, cableidx, masters, settled, changes >>

-----------------------------------------------------------------------------
(* CableSwig: ParseFile, ProcessSource and main. *)

RenameHack == "RenameHack"

\* Mutant: the package comes first.
ModuleNamePackageFirst(c) ==
  IF c.renames THEN << GroupOf(c), RenameHack >>
  ELSE IF PackageOf(c) = Empty THEN << GroupOf(c) >> ELSE << PackageOf(c) >>

\* The name ProcessSource gives the module.
ModuleName(c) ==
  IF c.renames THEN << GroupOf(c), RenameHack >>
  ELSE IF GroupOf(c) = Empty THEN << PackageOf(c) >> ELSE << GroupOf(c) >>

\* The rest of ParseFile, with ProcessSource.
ParseFile ==
  /\ swig.at = "input"
  /\ LET f == swig.file
     IN  swig' = IF xml[f] = "good" /\ Usable(config[f])
                 THEN [at |-> "top", file |-> f, result |-> 0,
                       name |-> ModuleName(config[f])]
                 ELSE ParseFailed
  /\ UNCHANGED << config, xml, idx, cableidx, masters, m_ClassGroupLookup,
                  m_ImportTypedefLookup, settled, changes >>

\* Mutant: the module name is not required.
MainUnnamed(errors) ==
  /\ swig.at = "top"
  /\ swig' = [ at |-> "exit", file |-> swig.file, result |-> swig.result,
               name |-> swig.name, code |-> errors ]
  /\ UNCHANGED << config, xml, idx, cableidx, masters, m_ClassGroupLookup,
                  m_ImportTypedefLookup, settled, changes >>

\* SWIG_main: the result of ParseFile is ignored, a top node without a name is an
\* error, and SWIG's own error count is the exit status.
Main(errors) ==
  /\ swig.at = "top"
  /\ swig' = [ at |-> "exit", file |-> swig.file, result |-> swig.result,
               name |-> swig.name,
               code |-> IF swig.name = Empty /\ ~ LibraryModule THEN 1 ELSE errors ]
  /\ UNCHANGED << config, xml, idx, cableidx, masters, m_ClassGroupLookup,
                  m_ImportTypedefLookup, settled, changes >>

-----------------------------------------------------------------------------
Init ==
  /\ config \in {c \in [File -> UNION Range(Configs)] : \A f \in File : c[f] \in Configs[f]}
  /\ xml \in [File -> {"bad", "good"}]
  /\ idx = [f \in File |-> NoFile]
  /\ cableidx = [f \in File |-> NotRun]
  /\ masters \in MasterIndexes
  /\ m_ClassGroupLookup = << >>
  /\ m_ImportTypedefLookup = << >>
  /\ swig = NoRun
  /\ settled = FALSE
  /\ changes = 0

SwigStep ==
  \/ ReadMasterLine
  \/ ReadIndexLine
  \/ ParseFile
  \/ \E errors \in {0, 1} : Main(errors)

Next ==
  \/ \E f \in File : \E c \in Configs[f], state \in {"bad", "good"} : Regenerate(f, c, state)
  \/ \E f \in File : StartCableidx(f) \/ WriteIndex(f) \/ Kill(f) \/ StartSwig(f)
  \/ SwigStep

Spec == Init /\ [][Next]_vars

-----------------------------------------------------------------------------
(* Properties. *)

Text == Seq(Class \cup TypedefName \cup GroupName \cup {"open", "close", Empty, Cut})

\* Every variable has its type.
TypeOK ==
  /\ config \in [File -> Config] /\ \A f \in File : config[f] \in Configs[f]
  /\ xml \in [File -> {"bad", "good"}]
  /\ \A f \in File : idx[f] = NoFile \/ idx[f] \in [ exists : {TRUE},
                                                lines : Seq([text : Text, long : BOOLEAN]) ]
  /\ \A f \in File : cableidx[f].at \in {"not run", "writing", "exit"}
  /\ masters \in MasterIndexes
  /\ \A k \in DOMAIN m_ClassGroupLookup : k \in Text /\ m_ClassGroupLookup[k] \in Text
  /\ \A k \in DOMAIN m_ImportTypedefLookup : k \in Text /\ m_ImportTypedefLookup[k] \in Text
  /\ swig.at \in {"idle", "master", "index", "input", "top", "exit"}
  /\ settled \in BOOLEAN
  /\ changes \in 0 .. MaxChanges

\* The typedefs of the index files that a run reads, each by its place: the line of
\* the master index that names its file, and its own line there.
Places ==
  UNION { UNION { [i : {i}, j : {j}, line : 1 .. Len(config[masters[i][j]].wraps)] :
                  j \in {n \in 1 .. Len(masters[i]) : masters[i][n] \notin {Blank, Loader}} } :
          i \in 1 .. Len(masters) }

Before(p, q) ==
  \/ p.i < q.i
  \/ p.i = q.i /\ p.j < q.j
  \/ p.i = q.i /\ p.j = q.j /\ p.line < q.line

FileAt(p) == masters[p.i][p.j]
WrapAt(p) == config[FileAt(p)].wraps[p.line]

\* The lookups hold what is declared at the places in P, the last place of a class
\* counting.
LookedUp(P) ==
  /\ DOMAIN m_ClassGroupLookup = {<< WrapAt(p).class >> : p \in P}
  /\ DOMAIN m_ImportTypedefLookup = {<< WrapAt(p).class >> : p \in P}
  /\ \A p \in P :
       (\A q \in P : Before(p, q) => WrapAt(q).class # WrapAt(p).class) =>
         /\ m_ClassGroupLookup[<< WrapAt(p).class >>] = << GroupOf(config[FileAt(p)]) >>
         /\ m_ImportTypedefLookup[<< WrapAt(p).class >>] = << WrapAt(p).typedef >>

\* No line is too long.
AllWhole == \A p \in Places : WrapAt(p).fits = 9

\* When the index files are complete and stay as they are, and no line is too long,
\* CableSwig knows of exactly the classes that the configurations wrap, each with the
\* group and the typedef of the last configuration that wraps it, whatever blank
\* lines, loaders and repetitions there are in between.
LookupsExact == swig.at = "input" /\ settled /\ AllWhole => LookedUp(Places)

\* The module that CableSwig makes of a configuration is the one that the index sends
\* the other groups to, if nothing has changed in between and the configuration has a
\* group, no renames and no line that is too long.
ModuleOfIndex ==
  swig.at \in {"top", "exit"} /\ settled /\ swig.result = 0 =>
    LET c == config[swig.file]
        lines == idx[swig.file].lines
    IN  /\ swig.file \in Listed
        /\ c.group # Absent
        /\ ~ c.renames
        /\ \A k \in 1 .. Len(lines) : ~ lines[k].long
        => \A k \in 1 .. Len(lines) : Parsed(lines[k].text).group = swig.name

\* Exit status 0 means that the input was processed: a missing index or input file,
\* a parse error or a configuration without a name cannot pass for success, although
\* the result of ParseFile is ignored, unless a -l library has named a module.
SuccessMeansParsed ==
  swig.at = "exit" /\ swig.code = 0 /\ ~ LibraryModule => swig.result = 0

-----------------------------------------------------------------------------
(* The invariant that the proofs in IndexFilesProofs are by induction on. *)

IndexLine == [text : Text, long : BOOLEAN]

\* A cableidx that writes has opened its index.
WritersSound ==
  /\ idx \in [File -> {NoFile} \cup [exists : {TRUE}, lines : Seq(IndexLine)]]
  /\ cableidx \in [File -> {NotRun} \cup [at : {"exit"}, code : Nat]
                                    \cup [at : {"writing"}, lines : Seq(IndexLine)]]
  /\ \A f \in File : cableidx[f].at = "writing" => idx[f].exists

\* Where CableSwig is in the master indexes, and in the index it reads.
CursorSound ==
  /\ swig.at \in {"master", "index"} =>
       swig \in [ at : {"master", "index"}, file : File, i : Nat \ {0}, j : Nat \ {0},
                  line : Nat \ {0} ]
  /\ swig.at = "index" => /\ swig.i \in 1 .. Len(masters)
                          /\ swig.j \in 1 .. Len(masters[swig.i])
                          /\ FileAt(swig) \in Listed
                          /\ idx[FileAt(swig)].exists
  /\ swig.at \in {"input", "top", "exit"} => swig.file \in File

\* A failure to parse leaves the module without a name, which main notices.
FailureNoticed ==
  /\ swig.at \in {"top", "exit"} =>
       swig.result \in {0, 1} /\ (swig.result = 1 => swig.name = Empty)
  /\ swig.at = "exit" /\ swig.code = 0 /\ swig.name = Empty => LibraryModule

\* In a run that nothing disturbs, the files it reads are complete, and what was
\* made of the input is what the configuration says.
Undisturbed ==
  settled =>
    /\ \A f \in Listed : Current(f)
    /\ swig.at \in {"top", "exit"} /\ swig.result = 0 =>
         Usable(config[swig.file]) /\ swig.name = ModuleName(config[swig.file])

\* The places that have been read.
Passed ==
  {p \in Places : \/ swig.at = "input"
                  \/ p.i < swig.i
                  \/ p.i = swig.i /\ p.j < swig.j
                  \/ swig.at = "index" /\ p.i = swig.i /\ p.j = swig.j /\ p.line < swig.line}

LookupsSound ==
  settled /\ AllWhole /\ swig.at \in {"master", "index", "input"} => LookedUp(Passed)

IInv ==
  /\ TypeOK
  /\ WritersSound
  /\ CursorSound
  /\ FailureNoticed
  /\ Undisturbed
  /\ LookupsSound

=============================================================================
