---------------------------- MODULE StaticFiles -----------------------------
(***************************************************************************)
(* StaticFileHandler::handle (static_file_handler.cpp) and the             *)
(* prepare_payload that process applies to its response, while somebody    *)
(* else writes, replaces and removes the file.  The handler looks at the   *)
(* path anew in every step, and each look is a step here.  Once it has the *)
(* file open it keeps that file, replaced or not, and copies it piece by   *)
(* piece, while whoever has it open too may still write into it.           *)
(*                                                                         *)
(* The length of a response stands for its body and for Content-Length,    *)
(* which prepare_payload computes from the body after all else.            *)
(***************************************************************************)
EXTENDS Integers

CONSTANTS
    MaxSize,        \* bound: the size of a file
    ChunkSize,      \* what one read of the file brings at most
    m_maxFileSize,
    TextSize        \* the size of the text of an error

(* What a path may lead to.  An unreadable file has a size all the same.   *)
Missing == [kind |-> "missing", size |-> 0]
Directory == [kind |-> "directory", size |-> 0]
RegularFiles == [kind : {"regular", "unreadable"}, size : 0..MaxSize]
Files == RegularFiles \cup {Missing, Directory}

VARIABLES
    file,       \* what the path leads to
    pc,         \* the next look at it; "reading" has it open, "detached" has
                \* open what the path has led to, "idle" has answered
    inside,     \* the path is not empty and stays below the root
    method,
    opened,     \* the open file
    copied,     \* how much of it the content holds
    status, length,
    seen        \* history: what the path has led to, and the open file has
                \* been, since the request came

requestVars == <<inside, method>>
contentVars == <<opened, copied>>
responseVars == <<status, length>>
vars == <<file, pc, requestVars, contentVars, responseVars, seen>>

Init ==
    /\ file \in Files
    /\ pc = "new"
    /\ inside \in BOOLEAN /\ method \in {"get", "head"}
    /\ opened = Missing /\ copied = 0
    /\ status = 404 /\ length = TextSize
    /\ seen = {file}

-----------------------------------------------------------------------------
Respond(code, size) ==
    /\ status' = code /\ length' = size
    /\ pc' = "idle"

SendNotFound == Respond(404, TextSize)

GoTo(next) == pc' = next /\ UNCHANGED responseVars

(* The checks of the target, of its canonical form and of the root. *)
CheckPath ==
    /\ pc = "new"
    /\ IF inside THEN GoTo("exists") ELSE SendNotFound
    /\ UNCHANGED <<file, requestVars, contentVars, seen>>

CheckExists ==
    /\ pc = "exists"
    /\ IF file # Missing THEN GoTo("regular") ELSE SendNotFound
    /\ UNCHANGED <<file, requestVars, contentVars, seen>>

CheckRegular ==
    /\ pc = "regular"
    /\ IF file \in RegularFiles THEN GoTo("size") ELSE SendNotFound
    /\ UNCHANGED <<file, requestVars, contentVars, seen>>

(* Fault: ec is not looked at; the size of what has gone is the largest.   *)
CheckSizeUnchecked ==
    /\ pc = "size"
    /\ IF file \notin RegularFiles \/ file.size > m_maxFileSize
       THEN Respond(413, TextSize) ELSE GoTo("opening")
    /\ UNCHANGED <<file, requestVars, contentVars, seen>>

CheckSize ==
    /\ pc = "size"
    /\ CASE file \notin RegularFiles -> SendNotFound
         [] file \in RegularFiles /\ file.size > m_maxFileSize -> Respond(413, TextSize)
         [] OTHER -> GoTo("opening")
    /\ UNCHANGED <<file, requestVars, contentVars, seen>>

(* A directory can be opened; it reads as empty. *)
Open ==
    /\ pc = "opening"
    /\ IF file.kind \in {"regular", "directory"}
       THEN GoTo("reading") /\ opened' = file
       ELSE SendNotFound /\ UNCHANGED opened
    /\ UNCHANGED <<file, requestVars, copied, seen>>

(* oss << file.rdbuf(), one read after the other ... *)
Reading == pc \in {"reading", "detached"}

ReadChunk ==
    /\ Reading
    /\ \E n \in 1..ChunkSize :
          /\ copied + n <= opened.size
          /\ copied' = copied + n
    /\ UNCHANGED <<file, pc, requestVars, opened, responseVars, seen>>

(* ... until one brings nothing.  For a HEAD the body is cleared before    *)
(* prepare_payload counts it.                                              *)
EndOfFile ==
    /\ Reading
    /\ copied >= opened.size
    /\ Respond(200, IF method = "head" THEN 0 ELSE copied)
    /\ UNCHANGED <<file, requestVars, contentVars, seen>>

-----------------------------------------------------------------------------
(* Somebody writes into the file ... *)
Rewrite(size) ==
    /\ pc # "idle"
    /\ file.kind = "regular"
    /\ file' = [file EXCEPT !.size = size]
    /\ opened' = IF pc = "reading" THEN file' ELSE opened
    /\ seen' = seen \cup {file'}
    /\ UNCHANGED <<pc, requestVars, copied, responseVars>>

(* ... or removes it, or puts another in its place ... *)
Replace(other) ==
    /\ pc # "idle"
    /\ file' = other
    /\ pc' = IF pc = "reading" THEN "detached" ELSE pc
    /\ seen' = seen \cup {file'}
    /\ UNCHANGED <<requestVars, contentVars, responseVars>>

(* ... or goes on writing into the one that was replaced. *)
RewriteDetached(size) ==
    /\ pc = "detached"
    /\ opened.kind = "regular"
    /\ opened' = [opened EXCEPT !.size = size]
    /\ seen' = seen \cup {opened'}
    /\ UNCHANGED <<file, pc, requestVars, copied, responseVars>>

Handle ==
    \/ CheckPath \/ CheckExists \/ CheckRegular \/ CheckSize
    \/ Open \/ ReadChunk \/ EndOfFile

Next ==
    \/ Handle
    \/ \E size \in 0..MaxSize : Rewrite(size) \/ RewriteDetached(size)
    \/ \E other \in Files : Replace(other)

Spec == Init /\ [][Next]_vars

-----------------------------------------------------------------------------
(* However the file changes between the looks and the reads, every answer  *)
(* is justified by what the path led to, and the open file was, while the  *)
(* request was handled: a 404 by something that is not there to be read,   *)
(* and if it is unreadable by one within the limit, a 413 by a file over   *)
(* the limit, and a 200 by one that was not.  What the body of a 200 holds *)
(* need not be what the file was at any moment; but its length is between  *)
(* two that the file had, so that a file of which nobody changes the size  *)
(* is sent whole.  For a file that nobody touches this leaves one answer.  *)
(* For HEAD nothing is said of the length: the code leaves 0, though       *)
(* README.md:116 promises the headers of the file.                         *)
WithinLimit(f) == f \in RegularFiles /\ f.size <= m_maxFileSize

Readables == {f \in seen : f.kind \in {"regular", "directory"}}

AnswerJustified ==
    pc = "idle" =>
        \/ ~inside /\ status = 404
        \/ /\ inside /\ status = 404
           /\ \/ seen \cap {Missing, Directory} # {}
              \/ /\ \E f \in seen : f.kind = "unreadable"
                 /\ \E f \in seen : WithinLimit(f)
        \/ inside /\ status = 413 /\ \E f \in seen : f.size > m_maxFileSize
        \/ /\ inside /\ status = 200
           /\ \E f \in seen : WithinLimit(f)
           /\ \E f, g \in Readables :
                 method = "get" => f.size <= length /\ length <= g.size
==============================================================================
