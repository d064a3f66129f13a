------------------------------- MODULE Router -------------------------------
(***************************************************************************)
(* Router and RouterTable (router.hpp, router.cpp): routes are added while *)
(* the server is set up, and a request is answered by the handler of its   *)
(* own key or, failing that, of the longest key that begins it, which is   *)
(* looked for in the order of the hash table, that is, in any order.       *)
(*                                                                         *)
(* A key is the text METHOD, a space and the path.  No method has a space, *)
(* so a key begins another iff the methods agree and the path begins the   *)
(* other path.                                                             *)
(***************************************************************************)
EXTENDS Integers, Sequences, FiniteSets

CONSTANTS
    Methods,
    Chars,
    Paths,          \* of routes and of requests: sequences of characters
    Handlers,
    NoHandler,      \* the null pointer
    MaxRoutes       \* bound: routes in the table

ASSUME RouterAssumption ==
    /\ Paths \subseteq Seq(Chars)
    /\ NoHandler \notin Handlers

Keys == [method : Methods, path : Paths]

VARIABLES
    routes,     \* m_routes
    request,    \* the key made from the request being routed
    unvisited,  \* the keys the loop of findPrefixHandler has not come to
    best, bestLength,
    phase       \* "idle", "scanning", or "answered", with best the answer

vars == <<routes, request, unvisited, best, bestLength, phase>>

(* fullPath.rfind(key, 0) == 0 *)
Begins(key, fullPath) ==
    /\ key.method = fullPath.method
    /\ Len(key.path) <= Len(fullPath.path)
    /\ \A i \in DOMAIN key.path : key.path[i] = fullPath.path[i]

(* key.length(), less the length of the method, which matching keys share. *)
KeyLength(key) == Len(key.path) + 1

TypeOK ==
    /\ DOMAIN routes \subseteq Keys /\ routes \in [DOMAIN routes -> Handlers]
    /\ request \in Keys
    /\ unvisited \subseteq DOMAIN routes
    /\ best \in Handlers \cup {NoHandler}
    /\ bestLength \in Nat
    /\ phase \in {"idle", "scanning", "answered"}

Init ==
    /\ routes = [k \in {} |-> NoHandler]
    /\ request \in Keys
    /\ unvisited = {}
    /\ best = NoHandler /\ bestLength = 0
    /\ phase = "idle"

-----------------------------------------------------------------------------
(* addRoute, which replaces the handler of a key the table already has. *)
AddRoute(key, handler) ==
    /\ phase = "idle"
    /\ Cardinality(DOMAIN routes \cup {key}) <= MaxRoutes
    /\ routes' = [k \in DOMAIN routes \cup {key} |-> IF k = key THEN handler ELSE routes[k]]
    /\ UNCHANGED <<request, unvisited, best, bestLength, phase>>

(* route with a key of the table: findHandler. *)
RouteExact(key) ==
    /\ phase = "idle"
    /\ key \in DOMAIN routes
    /\ request' = key
    /\ best' = routes[key]
    /\ phase' = "answered"
    /\ UNCHANGED <<routes, unvisited, bestLength>>

(* route otherwise: findPrefixHandler begins. *)
RoutePrefix(key) ==
    /\ phase = "idle"
    /\ key \notin DOMAIN routes
    /\ request' = key
    /\ unvisited' = DOMAIN routes
    /\ best' = NoHandler /\ bestLength' = 0
    /\ phase' = "scanning"
    /\ UNCHANGED routes

(* Fault: the last key that begins the request wins. *)
VisitLastWins(key) ==
    /\ phase = "scanning" /\ key \in unvisited
    /\ unvisited' = unvisited \ {key}
    /\ IF Begins(key, request)
       THEN best' = routes[key] /\ bestLength' = KeyLength(key)
       ELSE UNCHANGED <<best, bestLength>>
    /\ UNCHANGED <<routes, request, phase>>

Visit(key) ==
    /\ phase = "scanning" /\ key \in unvisited
    /\ unvisited' = unvisited \ {key}
    /\ IF Begins(key, request) /\ KeyLength(key) > bestLength
       THEN best' = routes[key] /\ bestLength' = KeyLength(key)
       ELSE UNCHANGED <<best, bestLength>>
    /\ UNCHANGED <<routes, request, phase>>

Finish ==
    /\ phase = "scanning" /\ unvisited = {}
    /\ phase' = "answered"
    /\ UNCHANGED <<routes, request, unvisited, best, bestLength>>

(* The handler has been called, and the next request may come. *)
Return ==
    /\ phase = "answered"
    /\ phase' = "idle"
    /\ best' = NoHandler
    /\ UNCHANGED <<routes, request, unvisited, bestLength>>

Next ==
    \/ \E key \in Keys, handler \in Handlers : AddRoute(key, handler)
    \/ \E key \in Keys : RouteExact(key) \/ RoutePrefix(key)
    \/ \E key \in unvisited : Visit(key)
    \/ Finish
    \/ Return

Spec == Init /\ [][Next]_vars

-----------------------------------------------------------------------------
(* Whatever the order of the hash table, a request is answered by a        *)
(* handler whose key begins it, such that no longer key of the table does, *)
(* and is refused only if none does (router_test.cpp, PrefixOverExact).    *)
Matching == {k \in DOMAIN routes : Begins(k, request)}

LongestPrefixAnswers ==
    phase = "answered" =>
        IF Matching = {} THEN best = NoHandler
        ELSE \E k \in Matching :
                /\ best = routes[k]
                /\ \A j \in Matching : Len(j.path) <= Len(k.path)
==============================================================================
