-------------------------- MODULE MCAuthorization --------------------------
(* Small instances of Authorization: two users, two connections.            *)
EXTENDS Authorization, TLC

Symmetry == Permutations(User) \cup Permutations(Sess)
=============================================================================
