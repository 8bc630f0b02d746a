---------------------------- MODULE MCRoomEngine ----------------------------
(* The engines as TLC runs them; all constants are given in the .cfg file. *)
EXTENDS RoomEngineProperties
=============================================================================
