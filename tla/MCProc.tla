------------------------------- MODULE MCProc -------------------------------
(* Small instances of Proc.                                                *)
EXTENDS Proc, TLC

CONSTANTS c1, c2

\* Bound: init makes no use of the sleep lock and of kill, and with every
\* slot in use only exit and wait go on.
FamilyWhenFull ==
    /\ pc[initproc] \notin {"lock", "kill"}
    /\ (\A p \in Slots : state[p] # "UNUSED") =>
          /\ \A p \in Slots : /\ killed[p] = 0 /\ chan[p] # LK
                              /\ pc[p] \notin {"fork", "kill", "lock", "yield", "kyield"}
          /\ locked = None /\ slk = None

Perms == Permutations({c1, c2})
=============================================================================
