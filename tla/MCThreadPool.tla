---------------------------- MODULE MCThreadPool ----------------------------
(* Small instances of ThreadPool for TLC. *)
EXTENDS ThreadPool, TLC

(* An ordinary priority and the highest one a client can ask for, which    *)
(* ties with the rank of an aged task.                                     *)
MCPriorities == {0, 2}
MCIntMax == 2

(* Tasks and submitters are interchangeable as long as no task is stuck:   *)
(* used by the safety run only, since symmetry is unsound for liveness.    *)
MCSymmetry == Permutations(Tasks) \cup Permutations(Submitters)
==============================================================================
