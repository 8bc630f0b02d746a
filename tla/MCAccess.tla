------------------------------ MODULE MCAccess ------------------------------
(* Access as TLC runs it; all constants are given in the .cfg file.  Only  *)
(* safety is checked, so requests may be taken for one another.            *)
EXTENDS AccessProperties, TLC

Symmetry == Permutations(Requests)
=============================================================================
