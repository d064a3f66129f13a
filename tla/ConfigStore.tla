----------------------------- MODULE ConfigStore -----------------------------
(***************************************************************************)
(* The configuration file across starts, edits and crashes: loadConfig     *)
(* (config.cpp) as main calls it.  A file that cannot be parsed is renamed *)
(* to .broken, over an earlier one, and replaced by the defaults; a        *)
(* missing file is created.  A step is one operation on the file system,   *)
(* and the process may die between any two.  Opening a file for writing    *)
(* empties it; the contents follow in a step of their own.                 *)
(***************************************************************************)
CONSTANTS
    Edits,      \* the documents users save as the configuration
    Good        \* those that parse

(* What the server leaves behind, or no file; "damaged" is empty or cut.   *)
ServerFiles == {"absent", "damaged", "default"}

ASSUME EditsAssumption == Good \subseteq Edits /\ Edits \cap ServerFiles = {}

VARIABLES
    file,       \* the content of configPath
    broken,     \* the content of configPath.broken
    pc,         \* where loadConfig is; "off" without a process
    settings,   \* the document the settings come from
    latest,     \* history: the user's latest edit, "absent" before the first
    faults      \* history: what has failed since then, with the death of the
                \* process between truncation and write

vars == <<file, broken, pc, settings, latest, faults>>

Readable == Good \cup {"default"}

TypeOK ==
    /\ {file, broken} \subseteq Edits \cup ServerFiles
    /\ pc \in {"off", "opening", "reading", "renaming", "fresh", "replacing",
               "writing", "applying", "running"}
    /\ settings \in Readable
    /\ latest \in Edits \cup {"absent"}
    /\ faults \subseteq {"open", "rename", "write", "death"}

Init ==
    /\ file = "absent" /\ broken = "absent" /\ latest = "absent"
    /\ pc = "off" /\ settings = "default"
    /\ faults = {}

-----------------------------------------------------------------------------
Start ==
    /\ pc = "off"
    /\ pc' = IF file = "absent" THEN "fresh" ELSE "opening"
    /\ UNCHANGED <<file, broken, settings, latest, faults>>

Open ==
    /\ pc = "opening"
    /\ pc' = "reading"
    /\ UNCHANGED <<file, broken, settings, latest, faults>>

(* A file that exists and cannot be opened is handled as one that is missing. *)
OpenFails ==
    /\ pc = "opening"
    /\ pc' = "fresh"
    /\ faults' = faults \cup {"open"}
    /\ UNCHANGED <<file, broken, settings, latest>>

(* Fault: a document that does not parse is used all the same. *)
ParseAnything ==
    /\ pc = "reading"
    /\ settings' = file
    /\ pc' = "applying"
    /\ UNCHANGED <<file, broken, latest, faults>>

Parse ==
    /\ pc = "reading" /\ file \in Readable
    /\ settings' = file
    /\ pc' = "applying"
    /\ UNCHANGED <<file, broken, latest, faults>>

ParseFails ==
    /\ pc = "reading" /\ file \notin Readable
    /\ pc' = "renaming"
    /\ UNCHANGED <<file, broken, settings, latest, faults>>

(* Any other exception of the reading: the defaults, and the file is left. *)
ReadFails ==
    /\ pc = "reading"
    /\ settings' = "default"
    /\ pc' = "applying"
    /\ UNCHANGED <<file, broken, latest, faults>>

(* Fault: the broken file is not put aside. *)
RenameForgotten ==
    /\ pc = "renaming"
    /\ pc' = "replacing"
    /\ UNCHANGED <<file, broken, settings, latest, faults>>

Rename ==
    /\ pc = "renaming"
    /\ broken' = file /\ file' = "absent"
    /\ pc' = "replacing"
    /\ UNCHANGED <<settings, latest, faults>>

RenameFails ==
    /\ pc = "renaming"
    /\ faults' = faults \cup {"rename"}
    /\ pc' = "replacing"
    /\ UNCHANGED <<file, broken, settings, latest>>

(* The ofstream of the new file: it empties what is there. *)
Create ==
    /\ pc \in {"fresh", "replacing"}
    /\ file' = "damaged"
    /\ settings' = "default"
    /\ pc' = "writing"
    /\ UNCHANGED <<broken, latest, faults>>

CreateFails ==
    /\ pc \in {"fresh", "replacing"}
    /\ settings' = "default"
    /\ pc' = "applying"
    /\ UNCHANGED <<file, broken, latest, faults>>

Write ==
    /\ pc = "writing"
    /\ file' = "default"
    /\ pc' = "applying"
    /\ UNCHANGED <<broken, settings, latest, faults>>

(* Nobody looks at the stream after the write. *)
WriteFails ==
    /\ pc = "writing"
    /\ faults' = faults \cup {"write"}
    /\ pc' = "applying"
    /\ UNCHANGED <<file, broken, settings, latest>>

(* fromArgs accepts the command line, and main goes on to the server.      *)
Apply ==
    /\ pc = "applying"
    /\ pc' = "running"
    /\ UNCHANGED <<file, broken, settings, latest, faults>>

(* Fault: what fromArgs throws inside the try is taken for a broken file.  *)
BadArgsBlameFile ==
    /\ pc = "applying"
    /\ pc' = "renaming"
    /\ UNCHANGED <<file, broken, settings, latest, faults>>

(* A number fromArgs cannot read: it throws, the handler calls it again    *)
(* with the defaults, it throws again, and main ends.                      *)
BadArgs ==
    /\ pc = "applying"
    /\ pc' = "off"
    /\ UNCHANGED <<file, broken, settings, latest, faults>>

LoadStep ==
    \/ Start \/ Open \/ OpenFails \/ Parse \/ ParseFails \/ ReadFails \/ Rename
    \/ RenameFails \/ Create \/ CreateFails \/ Write \/ WriteFails \/ Apply \/ BadArgs

-----------------------------------------------------------------------------
(* The process ends: the server stops, or it is killed at any point. *)
Exit ==
    /\ pc # "off"
    /\ pc' = "off"
    /\ faults' = IF pc = "writing" THEN faults \cup {"death"} ELSE faults
    /\ UNCHANGED <<file, broken, settings, latest>>

(* The user saves a document, while no process is starting. *)
Edit(e) ==
    /\ pc \in {"off", "running"}
    /\ file' = e /\ latest' = e
    /\ faults' = {}
    /\ UNCHANGED <<broken, pc, settings>>

Next == LoadStep \/ Exit \/ \E e \in Edits : Edit(e)

Spec == Init /\ [][Next]_vars

-----------------------------------------------------------------------------
(* However often the server starts and dies, the user's latest edit        *)
(* survives.  One that parses stays in place, and only a failed open can   *)
(* cost it: the file is then taken for missing and created anew.  One that *)
(* does not parse is in place or in .broken.  There it outlives a failed   *)
(* write, or a death, that leaves the new file damaged, until the next     *)
(* start renames that file over it; only a failed open or rename loses it  *)
(* at once.                                                                *)
UserWorkKept ==
    latest \in Edits =>
        /\ latest \in Good /\ "open" \notin faults => file = latest
        /\ latest \notin Good /\ faults \subseteq {"write", "death"} =>
              \/ latest \in {file, broken}
              \/ faults # {} /\ broken = "damaged"

(* A document that parses is never put aside, whatever else goes wrong,    *)
(* a command line with a bad number included.                              *)
BackupIsBroken == broken \notin Readable
==============================================================================
