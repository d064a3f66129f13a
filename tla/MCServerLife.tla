---------------------------- MODULE MCServerLife -----------------------------
(* Small instances of ServerLife for TLC. *)
EXTENDS ServerLife
==============================================================================
