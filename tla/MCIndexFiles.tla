---------------------------- MODULE MCIndexFiles ----------------------------
(***************************************************************************)
(* Two configurations, fA and fB, for model checking IndexFiles.           *)
(***************************************************************************)
EXTENDS IndexFiles, TLC

CONSTANTS fA, fB, cV, cW, tV, tW, gA, gB

MCFile == {fA, fB}

Typedef(c, t, n) == [class |-> c, typedef |-> t, fits |-> n]

Configuration(g, p, r, w) ==
  [cable |-> TRUE, group |-> g, package |-> p, renames |-> r, wraps |-> w]

\* One that wraps two classes, the first perhaps on a line of 5000 characters or
\* more, or is broken; and one that wraps one of them, in a group, in a group of
\* renames or in a package only.
MCConfigs ==
  (fA :> { Configuration(gA, Absent, FALSE, << Typedef(cV, tV, 9), Typedef(cW, tW, 9) >>),
           Configuration(gA, Absent, FALSE, << Typedef(cV, tV, 4), Typedef(cW, tW, 9) >>),
           Configuration(NotString, gA, FALSE, << Typedef(cV, tV, 9) >>) }) @@
  (fB :> { Configuration(gB, gA, FALSE, << Typedef(cV, tW, 9) >>),
           Configuration(gB, NotString, TRUE, << Typedef(cW, tW, 9) >>),
           Configuration(Absent, gA, FALSE, << >>) })

MCMasterIndexes ==
  { << << fA, fB >> >>, << << Loader, fB >>, << Blank, fA, Blank >> >> }
=============================================================================
