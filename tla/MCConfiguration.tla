--------------------------- MODULE MCConfiguration ---------------------------
(***************************************************************************)
(* Small instances of ConfigStore and of Settings for TLC, in one run: the *)
(* fate of the file, and what the server makes of one document and one     *)
(* command line.  The two share no state, and every property is about one  *)
(* of them: it is enough that each moves while the other rests where it    *)
(* has begun.                                                              *)
(***************************************************************************)
EXTENDS ConfigStore, Integers, Sequences

CONSTANTS PortLimit, UIntLimit, SizeLimit, IntLimit, Numbers, Defaults, MaxArgs

ASSUME SettingsAssumption ==
    /\ {PortLimit, UIntLimit, SizeLimit, IntLimit} \subseteq Nat \ {0, 1}
    /\ Numbers \subseteq Int /\ MaxArgs \in Nat

VARIABLES document, argv, i, config, phase

settingsVars == <<document, argv, i, config, phase>>

S == INSTANCE Settings

(* The initializers of Config (config.hpp) fit their types. *)
ASSUME DefaultsAssumption ==
    /\ Defaults \in [S!Fields -> Int]
    /\ Defaults.port \in 0..PortLimit - 1
    /\ {Defaults.io_threads, Defaults.sample_rate} \subseteq 0..UIntLimit - 1
    /\ {Defaults.threads, Defaults.body_limit_mb} \subseteq 0..SizeLimit - 1
    /\ -SizeLimit <= 2 * Defaults.drain_timeout_sec
    /\ 2 * Defaults.drain_timeout_sec < SizeLimit
    /\ Defaults.enable_keepalive \in {0, 1}

(* A machine that does not tell how many cores it has, and the widths of   *)
(* the types scaled down.                                                  *)
MCDefaults ==
    [port |-> 3, threads |-> 0, io_threads |-> 4, sample_rate |-> 5, body_limit_mb |-> 3,
     drain_timeout_sec |-> 5, enable_keepalive |-> 1]

(* What fits everywhere, nowhere, or in the widest type only. *)
MCNumbers == {-1, 0, 1, 9, 16}

SettingsAtRest ==
    /\ document = S!NoDocument /\ argv = <<>> /\ i = 1
    /\ config = Defaults /\ phase = "file"

(* Bound: a document meets a command line of three tokens at most, enough  *)
(* to override it or not, whole or cut off.                                *)
MCInit == Init /\ S!Init /\ (document = S!NoDocument \/ Len(argv) <= 3)

MCNext ==
    \/ SettingsAtRest /\ Next /\ UNCHANGED settingsVars
    \/ Init /\ S!Next /\ UNCHANGED vars

MCSpec == MCInit /\ [][MCNext]_<<vars, settingsVars>>

-----------------------------------------------------------------------------
(* The type invariants of both.  That of Settings says that every number   *)
(* stays in its type, and that there is a worker in the end.               *)
TypesOK == TypeOK /\ S!TypeOK

(* The other properties of Settings, stated there. *)
FlagsOverride == S!FlagsOverride
SecondStartAlike == S!SecondStartAlike
==============================================================================
