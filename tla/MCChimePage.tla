----------------------------- MODULE MCChimePage -----------------------------
(* The page as TLC runs it; all constants are given in the .cfg files.     *)
EXTENDS ChimePageProperties
=============================================================================
