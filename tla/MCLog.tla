------------------------------- MODULE MCLog -------------------------------
(* Small instances of Log.                                                 *)
EXTENDS Log, TLC

CONSTANTS p1, p2, d1, d2

Perms == Permutations({p1, p2}) \union Permutations({d1, d2})
=============================================================================
