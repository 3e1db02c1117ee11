------------------------------ MODULE MCGuard ------------------------------
(* Instances of Guard for TLC. *)
EXTENDS Guard, TLC

CONSTANTS a1, a2, d1, d2

\* Two attempts with a state directory each, two that name the same one, and
\* a single attempt.
OwnDirs == (a1 :> d1) @@ (a2 :> d2)
SameDir == (a1 :> d1) @@ (a2 :> d1)
OneDir == a1 :> d1
=============================================================================
