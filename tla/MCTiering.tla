------------------------------ MODULE MCTiering -----------------------------
(* An instance of Tiering: a method, and a closure declaration with two     *)
(* closure objects, all of which may call each other and themselves.        *)
EXTENDS Tiering, TLC

CONSTANTS dm, dk, m, k1, k2

TwoDecls == {dm, dk}
OneMethod == {m}
TwoClosures == {k1, k2}
DeclOfTwo == m :> dm @@ k1 :> dk @@ k2 :> dk
=============================================================================
