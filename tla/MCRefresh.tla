----------------------------- MODULE MCRefresh ------------------------------
(* Small instances of Refresh.                                             *)
EXTENDS Refresh, TLC

\* The keys differ in whether their requests reach the hot store.
Symmetric == Permutations(Token) \cup Permutations(Handler)
=============================================================================
