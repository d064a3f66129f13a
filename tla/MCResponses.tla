----------------------------- MODULE MCResponses -----------------------------
(***************************************************************************)
(* Small instances of Router and of StaticFiles for TLC, in one run.  The  *)
(* two share no state, and every property is about one of them: it is      *)
(* enough that each moves while the other rests where it has begun.        *)
(***************************************************************************)
EXTENDS Router, TLC

CONSTANTS MaxSize, ChunkSize, m_maxFileSize, TextSize

ASSUME StaticAssumption ==
    /\ MaxSize \in Nat /\ m_maxFileSize \in Nat
    /\ {ChunkSize, TextSize} \subseteq Nat \ {0}

VARIABLES file, pc, inside, method, opened, copied, status, length, seen

staticVars == <<file, pc, inside, method, opened, copied, status, length, seen>>

Static == INSTANCE StaticFiles

(* The paths of at most two characters, and two longer ones. *)
MCPaths ==
    UNION {[1..n -> Chars] : n \in 0..2} \cup {<<"a", "b", "a">>, <<"a", "b", "b">>}

MCSymmetry == Permutations(Handlers) \cup Permutations(Methods)

RouterAtRest == Init /\ request.path = <<>>
StaticAtRest ==
    /\ file = Static!Missing /\ seen = {file} /\ opened = Static!Missing /\ copied = 0
    /\ pc = "new" /\ inside = FALSE /\ method = "get"
    /\ status = 404 /\ length = TextSize

MCInit ==
    \/ Init /\ StaticAtRest
    \/ RouterAtRest /\ Static!Init

MCNext ==
    \/ StaticAtRest /\ Next /\ UNCHANGED staticVars
    \/ RouterAtRest /\ Static!Next /\ UNCHANGED vars

MCSpec == MCInit /\ [][MCNext]_<<vars, staticVars>>

-----------------------------------------------------------------------------
(* The property of StaticFiles, stated there. *)
AnswerJustified == Static!AnswerJustified
==============================================================================
