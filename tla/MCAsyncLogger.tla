--------------------------- MODULE MCAsyncLogger ----------------------------
(* Small instances of AsyncLogger for TLC. *)
EXTENDS AsyncLogger
==============================================================================
