---------------------------- MODULE MCAuditChain ----------------------------
(* Model values for checking AuditChain with TLC.                          *)
EXTENDS AuditChain, TLC

CONSTANTS c1, c2, c3

\* c1 and c2 are one JSON document, its keys in PHP's and in MySQL's order; c3 is
\* another, which both write the same way.
MySqlJson == c1 :> c2 @@ c2 :> c2 @@ c3 :> c3

Symmetry == Permutations(Writers)
=============================================================================
