---------------------------- MODULE MCHttpServer ----------------------------
(* Small instances of HttpServer for TLC. *)
EXTENDS HttpServer, TLC

(* Connections are interchangeable as long as no request is stuck: used by *)
(* the safety runs only, since symmetry is unsound for liveness.           *)
MCSymmetry == Permutations(Conns)
==============================================================================
