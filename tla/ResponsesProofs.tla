--------------------------- MODULE ResponsesProofs ---------------------------
(***************************************************************************)
(* Proofs about Router, for any methods, paths and handlers, any table and *)
(* any order of its keys, and about StaticFiles, for files of any size and *)
(* any limit.                                                              *)
(***************************************************************************)
EXTENDS MCResponses, TLAPS

(* What the loop of findPrefixHandler has established: the best so far is  *)
(* the longest of the matching keys it has visited.                        *)
Visited == Matching \ unvisited

ScanInv ==
    phase = "scanning" =>
        IF Visited = {} THEN best = NoHandler /\ bestLength = 0
        ELSE \E k \in Visited :
                /\ best = routes[k] /\ bestLength = KeyLength(k)
                /\ \A j \in Visited : Len(j.path) <= Len(k.path)

RouterInv == TypeOK /\ ScanInv /\ LongestPrefixAnswers

(* The length of a path is a natural number. *)
LEMMA PathLength == \A k \in Keys : Len(k.path) \in Nat /\ KeyLength(k) \in Nat \ {0}
  BY RouterAssumption DEF Keys, KeyLength

(* A key begins itself. *)
LEMMA BeginsItself == \A k \in Keys : Begins(k, k)
  BY PathLength DEF Begins

(* A visit keeps the best so far the longest. *)
LEMMA VisitKeepsScan ==
    ASSUME TypeOK, ScanInv, NEW key \in unvisited, Visit(key)
    PROVE  ScanInv'
<1>1. /\ phase = "scanning" /\ key \in DOMAIN routes /\ DOMAIN routes \subseteq Keys
      /\ unvisited' = unvisited \ {key} /\ UNCHANGED <<routes, request, phase>>
      /\ Matching' = Matching
  BY DEF Visit, TypeOK, Matching
<1>2. CASE ~Begins(key, request)
  <2>1. Visited' = Visited /\ UNCHANGED <<best, bestLength>>
    BY <1>1, <1>2 DEF Visited, Matching, Visit
  <2> QED  BY <1>1, <2>1 DEF ScanInv
<1>3. CASE Begins(key, request)
  <2>1. Visited' = Visited \cup {key} /\ key \in Keys
    BY <1>1, <1>3 DEF Visited, Matching
  <2>2. \A k \in Visited : k \in Keys
    BY <1>1 DEF Visited, Matching
  <2>3. CASE KeyLength(key) > bestLength
    <3>1. best' = routes[key] /\ bestLength' = KeyLength(key)
      BY <1>3, <2>3 DEF Visit
    <3>2. \A j \in Visited : Len(j.path) <= Len(key.path)
      BY <1>1, <2>1, <2>2, <2>3, PathLength DEF ScanInv, KeyLength
    <3>3. \A j \in Visited' : Len(j.path) <= Len(key.path)
      BY <2>1, <3>2, PathLength
    <3> QED  BY <1>1, <2>1, <3>1, <3>3 DEF ScanInv
  <2>4. CASE ~(KeyLength(key) > bestLength)
    <3>1. UNCHANGED <<best, bestLength>>
      BY <1>3, <2>4 DEF Visit
    <3>2. Visited # {}
      BY <1>1, <2>1, <2>4, PathLength DEF ScanInv
    <3>3. PICK k \in Visited :
              /\ best = routes[k] /\ bestLength = KeyLength(k)
              /\ \A j \in Visited : Len(j.path) <= Len(k.path)
      BY <1>1, <3>2 DEF ScanInv
    <3>4. Len(key.path) <= Len(k.path)
      BY <2>1, <2>2, <2>4, <3>3, PathLength DEF KeyLength
    <3> QED  BY <1>1, <2>1, <3>1, <3>3, <3>4 DEF ScanInv
  <2> QED  BY <2>3, <2>4
<1> QED  BY <1>2, <1>3

(* The invariant of the router holds initially and in every step. *)
LEMMA RouterInvInductive == (Init => RouterInv) /\ (RouterInv /\ [Next]_vars => RouterInv')
<1> USE RouterAssumption DEF RouterInv
<1>1. Init => RouterInv
  BY DEF Init, TypeOK, ScanInv, LongestPrefixAnswers
<1>2. ASSUME RouterInv, [Next]_vars PROVE RouterInv'
  <2>1. CASE UNCHANGED vars
    BY <1>2, <2>1 DEF vars, TypeOK, ScanInv, Visited, Matching, LongestPrefixAnswers
  <2>2. ASSUME NEW key \in Keys, NEW handler \in Handlers, AddRoute(key, handler)
        PROVE  RouterInv'
    BY <1>2, <2>2 DEF AddRoute, TypeOK, ScanInv, LongestPrefixAnswers
  <2>3. ASSUME NEW key \in Keys, RouteExact(key) PROVE RouterInv'
    <3>1. TypeOK' /\ ScanInv'
      BY <1>2, <2>3 DEF RouteExact, TypeOK, ScanInv
    <3>2. key \in Matching' /\ best' = routes'[key] /\ phase' = "answered"
      BY <1>2, <2>3, BeginsItself DEF RouteExact, Matching
    <3>3. \A j \in Matching' : Len(j.path) <= Len(key.path)
      BY <2>3 DEF RouteExact, Matching, Begins
    <3> QED  BY <3>1, <3>2, <3>3 DEF LongestPrefixAnswers
  <2>4. ASSUME NEW key \in Keys, RoutePrefix(key) PROVE RouterInv'
    BY <1>2, <2>4 DEF RoutePrefix, TypeOK, ScanInv, Visited, Matching, LongestPrefixAnswers
  <2>5. ASSUME NEW key \in unvisited, Visit(key) PROVE RouterInv'
    <3>1. key \in Keys /\ routes[key] \in Handlers
      BY <1>2, <2>5 DEF TypeOK
    <3>2. TypeOK'
      BY <1>2, <2>5, <3>1, PathLength DEF Visit, TypeOK
    <3>3. LongestPrefixAnswers'
      BY <2>5 DEF Visit, LongestPrefixAnswers
    <3> QED  BY <1>2, <2>5, <3>2, <3>3, VisitKeepsScan
  <2>6. CASE Finish
    <3>1. Visited = Matching /\ Matching' = Matching
      BY <2>6 DEF Finish, Visited, Matching
    <3> QED  BY <1>2, <2>6, <3>1 DEF Finish, TypeOK, ScanInv, LongestPrefixAnswers
  <2>7. CASE Return
    BY <1>2, <2>7 DEF Return, TypeOK, ScanInv, LongestPrefixAnswers
  <2> QED  BY <1>2, <2>1, <2>2, <2>3, <2>4, <2>5, <2>6, <2>7 DEF Next
<1> QED  BY <1>1, <1>2

(* The router is well typed in every reachable state. *)
THEOREM RouterTypeCorrect == Spec => []TypeOK
<1>1. RouterInv => TypeOK
  BY DEF RouterInv
<1> QED  BY <1>1, RouterInvInductive, PTL DEF Spec

(* The answer is the longest key that begins the request, whatever the     *)
(* order in which the hash table is walked.                                *)
THEOREM RouterAnswersLongest == Spec => []LongestPrefixAnswers
<1>1. RouterInv => LongestPrefixAnswers
  BY DEF RouterInv
<1> QED  BY <1>1, RouterInvInductive, PTL DEF Spec
-----------------------------------------------------------------------------
(* What the looks so far have shown: once the size was checked the path    *)
(* has led to a file within the limit; what is open was seen, and is where *)
(* the path leads as long as it was not replaced; and no more was copied   *)
(* than what it once held.                                                 *)
LooksInv ==
    /\ pc \in {"exists", "regular", "size", "opening", "reading", "detached"} => inside
    /\ pc \in {"opening", "reading", "detached"} => \E f \in seen : Static!WithinLimit(f)
    /\ Static!Reading => opened \in Static!Readables
    /\ Static!Reading => \E g \in Static!Readables : copied <= g.size
    /\ pc = "reading" => opened = file
    /\ copied \in Nat /\ (~Static!Reading /\ pc # "idle" => copied = 0)

FilesInv ==
    /\ file \in seen /\ seen \subseteq Static!Files
    /\ pc \in {"new", "exists", "regular", "size", "opening", "reading", "detached", "idle"}
    /\ LooksInv
    /\ Static!AnswerJustified

(* A path leads to nothing, to a directory or to a file. *)
LEMMA FileKinds ==
    /\ \A f \in Static!Files : f.size \in Nat
    /\ \A f \in Static!RegularFiles : f.kind \in {"regular", "unreadable"}
    /\ Static!Missing.kind = "missing" /\ Static!Directory.kind = "directory"
    /\ \A f \in Static!Files : f \notin Static!RegularFiles =>
          f = Static!Missing \/ f = Static!Directory
BY StaticAssumption DEF Static!Files, Static!RegularFiles, Static!Missing, Static!Directory

(* A file that is written into is still a file. *)
LEMMA RewrittenFile ==
    ASSUME NEW f \in Static!Files, f.kind = "regular", NEW size \in 0..MaxSize
    PROVE  /\ [f EXCEPT !.size = size] \in Static!Files
           /\ [f EXCEPT !.size = size].kind = "regular"
<1>1. f \in Static!RegularFiles
  BY FileKinds
<1> QED  BY <1>1 DEF Static!RegularFiles, Static!Files

(* The steps of the handler: what it answers is justified by what the      *)
(* looks before have seen.                                                 *)
LEMMA HandleStep ==
    ASSUME FilesInv, Static!Handle
    PROVE  FilesInv'
<1> USE DEF Static!Reading, Static!contentVars
<1>1. file \in Static!Files /\ pc # "idle"
  BY DEF FilesInv, Static!Handle, Static!CheckPath, Static!CheckExists,
         Static!CheckRegular, Static!CheckSize, Static!Open, Static!ReadChunk,
         Static!EndOfFile
<1>2. UNCHANGED <<file, inside, method, seen>> /\ file' \in seen' /\ seen' \subseteq Static!Files
  BY DEF FilesInv, Static!Handle, Static!CheckPath, Static!CheckExists,
         Static!CheckRegular, Static!CheckSize, Static!Open, Static!ReadChunk,
         Static!EndOfFile, Static!requestVars
<1>3. CASE Static!CheckPath
  BY <1>2, <1>3 DEF Static!CheckPath, FilesInv, LooksInv, Static!AnswerJustified,
                    Static!GoTo, Static!SendNotFound, Static!Respond
<1>4. CASE Static!CheckExists
  BY <1>2, <1>4 DEF Static!CheckExists, FilesInv, LooksInv, Static!AnswerJustified,
                    Static!GoTo, Static!SendNotFound, Static!Respond
<1>5. CASE Static!CheckRegular
  <2>1. CASE file \in Static!RegularFiles
    BY <1>2, <1>5, <2>1 DEF Static!CheckRegular, FilesInv, LooksInv,
                            Static!AnswerJustified, Static!GoTo
  <2>2. CASE file \notin Static!RegularFiles
    <3>1. seen' \cap {Static!Missing, Static!Directory} # {}
      BY <1>1, <1>2, <2>2, FileKinds
    <3> QED  BY <1>2, <1>5, <2>2, <3>1
             DEF Static!CheckRegular, FilesInv, LooksInv, Static!AnswerJustified,
                 Static!SendNotFound, Static!Respond
  <2> QED  BY <2>1, <2>2
<1>6. CASE Static!CheckSize
  <2>1. CASE file \notin Static!RegularFiles
    <3>1. seen' \cap {Static!Missing, Static!Directory} # {}
      BY <1>1, <1>2, <2>1, FileKinds
    <3> QED  BY <1>2, <1>6, <2>1, <3>1
             DEF Static!CheckSize, FilesInv, LooksInv, Static!AnswerJustified,
                 Static!SendNotFound, Static!Respond
  <2>2. CASE file \in Static!RegularFiles /\ file.size > m_maxFileSize
    BY <1>2, <1>6, <2>2 DEF Static!CheckSize, FilesInv, LooksInv, Static!AnswerJustified,
                            Static!Respond
  <2>3. CASE file \in Static!RegularFiles /\ ~(file.size > m_maxFileSize)
    <3>1. pc' = "opening" /\ inside' /\ copied' = 0
      BY <1>2, <1>6, <2>3 DEF Static!CheckSize, Static!GoTo, FilesInv, LooksInv
    <3>2. \E f \in seen' : Static!WithinLimit(f)
      <4>1. file.size \in Int /\ file.size <= m_maxFileSize
        BY <2>3, StaticAssumption DEF Static!RegularFiles
      <4> QED  BY <1>2, <2>3, <4>1 DEF Static!WithinLimit, FilesInv
    <3> QED  BY <1>2, <3>1, <3>2 DEF FilesInv, LooksInv, Static!AnswerJustified,
                                     Static!WithinLimit
  <2> QED  BY <2>1, <2>2, <2>3
<1>7. CASE Static!Open
  <2>1. CASE file.kind \in {"regular", "directory"}
    <3>1. /\ pc' = "reading" /\ opened' = file /\ copied' = 0 /\ inside'
          /\ file' \in Static!Readables'
      BY <1>2, <1>7, <2>1 DEF Static!Open, Static!GoTo, FilesInv, LooksInv,
                              Static!Readables, Static!Reading
    <3>2. \E f \in seen' : Static!WithinLimit(f)
      BY <1>2, <1>7 DEF Static!Open, FilesInv, LooksInv
    <3>3. 0 <= file.size
      BY <1>1, FileKinds
    <3>4. LooksInv'
      BY <1>2, <3>1, <3>2, <3>3 DEF LooksInv, Static!WithinLimit, Static!Reading
    <3> QED  BY <1>2, <3>1, <3>4 DEF FilesInv, Static!AnswerJustified
  <2>2. CASE file.kind \notin {"regular", "directory"}
    <3>1. pc' = "idle" /\ status' = 404 /\ inside' /\ copied' = 0
      BY <1>2, <1>7, <2>2 DEF Static!Open, Static!SendNotFound, Static!Respond, FilesInv,
                              LooksInv
    <3>2. file = Static!Missing \/ (file \in Static!RegularFiles /\ file.kind = "unreadable")
      BY <1>1, <2>2, FileKinds
    <3>3. \E f \in seen' : Static!WithinLimit(f)
      BY <1>2, <1>7 DEF Static!Open, FilesInv, LooksInv
    <3>4. Static!AnswerJustified'
      BY <1>2, <3>1, <3>2, <3>3 DEF Static!AnswerJustified, Static!WithinLimit
    <3> QED  BY <1>2, <3>1, <3>4 DEF FilesInv, LooksInv
  <2> QED  BY <2>1, <2>2
<1>8. CASE Static!ReadChunk
  <2>1. /\ Static!Reading /\ UNCHANGED <<pc, opened>>
        /\ copied' \in Nat /\ copied' <= opened.size
    BY <1>8, FileKinds, StaticAssumption DEF Static!ReadChunk, FilesInv, LooksInv
  <2>2. opened \in Static!Readables /\ Static!Readables' = Static!Readables
    BY <1>2, <2>1 DEF FilesInv, LooksInv, Static!Readables
  <2>3. LooksInv'
    BY <1>2, <2>1, <2>2 DEF FilesInv, LooksInv, Static!Reading, Static!WithinLimit
  <2> QED  BY <1>1, <1>2, <2>1, <2>3 DEF FilesInv, Static!AnswerJustified
<1>9. CASE Static!EndOfFile
  <2>1. /\ pc' = "idle" /\ status' = 200 /\ inside' /\ UNCHANGED <<opened, copied>>
        /\ Static!Reading /\ opened.size <= copied
        /\ method' = "get" => length' = copied
    BY <1>2, <1>9, FileKinds
       DEF Static!EndOfFile, Static!Respond, FilesInv, LooksInv, Static!Reading,
           Static!Readables, Static!contentVars
  <2>2. /\ \E f \in seen' : Static!WithinLimit(f)
        /\ opened \in Static!Readables' /\ \E g \in Static!Readables' : copied <= g.size
    BY <1>2, <2>1 DEF FilesInv, LooksInv, Static!Reading, Static!Readables
  <2>3. Static!AnswerJustified'
    BY <2>1, <2>2 DEF Static!AnswerJustified, Static!WithinLimit
  <2> QED  BY <1>2, <2>1, <2>3 DEF FilesInv, LooksInv, Static!Reading
<1> QED  BY <1>3, <1>4, <1>5, <1>6, <1>7, <1>8, <1>9 DEF Static!Handle

(* The steps of others only add to what was seen. *)
LEMMA ChangeStep ==
    ASSUME FilesInv,
           \/ \E size \in 0..MaxSize : Static!Rewrite(size) \/ Static!RewriteDetached(size)
           \/ \E other \in Static!Files : Static!Replace(other)
    PROVE  FilesInv'
<1> DEFINE Seen(f) == seen' = seen \cup {f} /\ f \in Static!Files
<1>1. ASSUME NEW f, Seen(f), file' \in {file, f}, inside' = inside, copied' = copied,
             pc # "idle", pc' = pc \/ (pc = "reading" /\ pc' = "detached"),
             Static!Reading => opened' \in {opened, f} /\ opened'.kind \in {"regular", "directory"},
             pc' = "reading" => opened' = file'
      PROVE  FilesInv'
  <2>1. /\ Static!Readables \subseteq Static!Readables'
        /\ \A g \in seen : Static!WithinLimit(g) => Static!WithinLimit(g)'
        /\ seen \subseteq seen' /\ f \in seen'
    BY <1>1 DEF Static!Readables, Static!WithinLimit
  <2>2. Static!Reading' = Static!Reading /\ pc' # "idle"
    BY <1>1 DEF Static!Reading
  <2>3. Static!Reading => opened' \in Static!Readables'
    BY <1>1, <2>1 DEF FilesInv, LooksInv, Static!Readables
  <2>4. LooksInv'
    BY <1>1, <2>1, <2>2, <2>3 DEF FilesInv, LooksInv, Static!WithinLimit, Static!Reading
  <2>5. file' \in seen' /\ seen' \subseteq Static!Files
    BY <1>1, <2>1 DEF FilesInv
  <2> QED  BY <1>1, <2>2, <2>4, <2>5 DEF FilesInv, Static!AnswerJustified
<1>2. ASSUME NEW size \in 0..MaxSize, Static!Rewrite(size) PROVE FilesInv'
  <2>1. file \in Static!Files /\ file.kind = "regular" /\ file' = [file EXCEPT !.size = size]
    BY <1>2 DEF FilesInv, Static!Rewrite
  <2>2. Seen(file') /\ file'.kind = "regular"
    BY <1>2, <2>1, RewrittenFile DEF Static!Rewrite
  <2>3. Static!Reading => opened' \in {opened, file'} /\ opened'.kind \in {"regular", "directory"}
    BY <1>2, <2>2 DEF Static!Rewrite, FilesInv, LooksInv, Static!Readables
  <2>4. /\ inside' = inside /\ copied' = copied /\ pc # "idle" /\ pc' = pc
        /\ pc' = "reading" => opened' = file'
    BY <1>2 DEF Static!Rewrite, Static!requestVars
  <2> QED  BY <1>1, <2>2, <2>3, <2>4
<1>3. ASSUME NEW size \in 0..MaxSize, Static!RewriteDetached(size) PROVE FilesInv'
  <2>1. /\ opened \in Static!Files /\ opened.kind = "regular"
        /\ opened' = [opened EXCEPT !.size = size]
    BY <1>3 DEF FilesInv, LooksInv, Static!RewriteDetached, Static!Reading, Static!Readables
  <2>2. Seen(opened') /\ opened'.kind = "regular"
    BY <1>3, <2>1, RewrittenFile DEF Static!RewriteDetached
  <2>3. inside' = inside /\ copied' = copied /\ pc = "detached" /\ pc' = pc /\ file' = file
    BY <1>3 DEF Static!RewriteDetached, Static!requestVars
  <2> QED  BY <1>1, <2>2, <2>3
<1>4. ASSUME NEW other \in Static!Files, Static!Replace(other) PROVE FilesInv'
  <2>1. /\ inside' = inside /\ copied' = copied /\ opened' = opened /\ pc # "idle"
        /\ pc' = IF pc = "reading" THEN "detached" ELSE pc
        /\ file' = other /\ Seen(other)
    BY <1>4 DEF Static!Replace, Static!requestVars, Static!contentVars
  <2>2. Static!Reading => opened.kind \in {"regular", "directory"}
    BY DEF FilesInv, LooksInv, Static!Readables
  <2> QED  BY <1>1, <2>1, <2>2
<1> QED  BY <1>2, <1>3, <1>4

(* However the file changes between the looks at it and the reads, the     *)
(* answer is justified: in particular a path that does not lead to a file  *)
(* at one look, or to one within the limit, is not served as one, and the  *)
(* body is as long as some size between two that the file had.             *)
THEOREM AnswersJustified == Static!Spec => []AnswerJustified
<1>1. Static!Init => FilesInv
  BY DEF Static!Init, FilesInv, LooksInv, Static!AnswerJustified, Static!Reading
<1>2. FilesInv /\ [Static!Next]_(Static!vars) => FilesInv'
  <2>1. SUFFICES ASSUME FilesInv, [Static!Next]_(Static!vars) PROVE FilesInv'
    OBVIOUS
  <2>2. CASE UNCHANGED Static!vars
    BY <2>1, <2>2
       DEF Static!vars, Static!requestVars, Static!contentVars, Static!responseVars, FilesInv,
           LooksInv, Static!Reading, Static!Readables, Static!AnswerJustified,
           Static!WithinLimit
  <2> QED  BY <2>1, <2>2, HandleStep, ChangeStep DEF Static!Next
<1>3. FilesInv => AnswerJustified
  BY DEF FilesInv, AnswerJustified
<1> QED  BY <1>1, <1>2, <1>3, PTL DEF Static!Spec
==============================================================================
