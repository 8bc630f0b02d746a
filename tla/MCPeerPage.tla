----------------------------- MODULE MCPeerPage -----------------------------
(* The scripts as TLC runs them; all constants are given in the .cfg file. *)
EXTENDS PeerPageProperties
=============================================================================
