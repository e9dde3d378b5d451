---------------------------- MODULE MCCvTypeWriter ----------------------------
(***************************************************************************)
(* Small sets of types for model checking CvTypeWriter:                    *)
(*   class A;  class B : A;  class C : A, B;  enum, void;                  *)
(*   X = B const[3];  P = void const*;  F = P (A const, C);                *)
(*   M = F C::*;      R = M const&;                                        *)
(*   struct S {};  void f() { struct S : A, ::S {}; }, which are one class *)
(*   S : A, S.                                                             *)
(***************************************************************************)
EXTENDS CvTypeWriter, TLC

CONSTANTS bA, bB, bC, bE, bV, bX, bP, bF, bM, bR, bS

MCBase == {bA, bB, bC, bE, bV, bX, bP, bF, bM, bR, bS}

Plain(b) == [type |-> b, cv |-> {}]
Const(b) == [type |-> b, cv |-> {"const"}]

Is(kind, parts) == [kind |-> kind, parts |-> parts]

MCStructure ==
  bA :> Is("Class", << >>)
  @@ bB :> Is("Class", << Plain(bA) >>)
  @@ bC :> Is("Class", << Plain(bB), Plain(bA) >>)
  @@ bE :> Is("Enumeration", << >>)
  @@ bV :> Is("Void", << >>)
  @@ bX :> Is("Array", << Const(bB) >>)
  @@ bP :> Is("Pointer", << Const(bV) >>)
  @@ bF :> Is("Function", << Plain(bP), Const(bA), Plain(bC) >>)
  @@ bM :> Is("PointerToMember", << Plain(bF), Plain(bC) >>)
  @@ bR :> Is("Reference", << Const(bM) >>)
  @@ bS :> Is("Class", << Plain(bA), Plain(bS) >>)
=============================================================================
