------------------------------ MODULE TypeOrder ------------------------------
(***************************************************************************)
(* What CvTypeWriter promises of the order it writes types in: every type  *)
(* once, after the types that it is made of, and only the types that were  *)
(* asked for and their parts.  How the order is found is left open.        *)
(***************************************************************************)
EXTENDS Naturals, Sequences, Functions

CONSTANTS
  Type,     \* the types that can be written
  Parts     \* the set of types that each type is made of

VARIABLES
  needed,   \* the types known to be needed
  order     \* the types written, in order

vars == << needed, order >>

Written == Range(order)

Init == needed = {} /\ order = << >>

\* A request, once the earlier ones are served.
Ask(t) ==
  /\ needed \subseteq Written
  /\ needed' = needed \cup {t}
  /\ UNCHANGED order

\* A part of a needed type is needed.
Require(t) ==
  /\ \E n \in needed : t \in Parts[n]
  /\ needed' = needed \cup {t}
  /\ UNCHANGED order

\* A needed type is written once, after its parts.
Write(t) ==
  /\ t \in needed \ Written
  /\ Parts[t] \subseteq Written
  /\ order' = Append(order, t)
  /\ UNCHANGED needed

Next == \E t \in Type : Ask(t) \/ Require(t) \/ Write(t)

Spec == Init /\ [][Next]_vars
=============================================================================
