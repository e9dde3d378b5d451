---------------------------- MODULE MCCableSwig ----------------------------
(***************************************************************************)
(* Small source representations for model checking CableSwig: four classes *)
(* kA, kB, kC, kD, each a possible base of the later ones, whose methods   *)
(* use at most one class, plus a fifth, kE, that stands alone.             *)
(***************************************************************************)
EXTENDS CableSwig, TLC

CONSTANTS kA, kB, kC, kD, kE, ns

MCClass == {kA, kB, kC, kD, kE}

Uses(used) == used @@ [x \in MCClass |-> << >>]

\* All hierarchies with chains, diamonds and repeated bases, all in one scope.
Hierarchies ==
  { [ bases    |-> (kA :> << >> @@ kB :> bBases @@ kC :> cBases @@ kD :> dBases @@ kE :> << >>),
      uses     |-> Uses(kA :> aUses @@ kB :> bUses @@ kD :> dUses),
      grouped  |-> grouped,
      wrappers |-> wrappers,
      inClass  |-> {},
      outer    |-> [x \in MCClass |-> Global] ] :
      bBases \in {<< >>, << kA >>},
      cBases \in {<< >>, << kA >>, << kB >>, << kB, kA >>},
      dBases \in {<< kB >>, << kC >>, << kB, kC >>, << kC, kB >>, << kA, kC >>},
      aUses \in {<< >>, << kE >>, << kD >>},
      bUses \in {<< >>, << kE >>, << kC >>},
      dUses \in {<< >>, << kC >>},
      grouped \in {{}, {kA, kD}},
      wrappers \in {<< kD >>, << kD, kC >>, << kC, kD, kC >>} }

\* Classes in scopes of every kind.
Nestings ==
  { [ bases    |-> (kD :> << kB, kC >>) @@ [x \in MCClass |-> << >>],
      uses     |-> Uses(kB :> << kE, kD >>),
      grouped  |-> grouped,
      wrappers |-> << kD, kB >>,
      inClass  |-> inClass,
      outer    |-> (kB :> bOuter @@ kC :> cOuter) @@ [x \in MCClass |-> Global] ] :
      grouped \in {{}, {kC}, {kB, kC}},
      inClass \in SUBSET {kB, kC},
      bOuter \in {NoScope, Global, ns},
      cOuter \in {Global, ns} }

\* A class whose context is a class has a context around that one.
MCSources ==
  Hierarchies \cup
  {s \in Nestings : \A x \in s.inClass : s.outer[x] # NoScope}
=============================================================================
