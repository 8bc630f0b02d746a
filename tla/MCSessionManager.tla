-------------------------- MODULE MCSessionManager --------------------------
(* Values for TLC of the constants of SessionManager a .cfg cannot write. *)
EXTENDS SessionProperties, TLC

CONSTANTS s1, s2, c1, c2, src

(* s1 is fed by a stream key, the others mirror the channel src. *)
MCSource == [s \in Sessions |-> IF s = s1 THEN NoChannel ELSE src]

(* Each session has a path of its own: a mirror's path holds its id. *)
MCPath == [s \in Sessions |-> s]

Symmetry == Permutations(Requests)
=============================================================================
