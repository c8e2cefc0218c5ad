------------------------------ MODULE MCWrite -------------------------------
(* One writer with the limits of param.h and fs.h, but for the size of a   *)
(* block.                                                                  *)
EXTENDS FileData

CONSTANT p1

Spec == FdInit /\ [][FdNext]_fdVars
=============================================================================
