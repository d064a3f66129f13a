------------------------------ MODULE Settings ------------------------------
(***************************************************************************)
(* The settings the server runs with: Config::fromJson, then               *)
(* Config::fromArgs token by token (config.cpp).  There is one field for   *)
(* each way in which a number arrives; the fields left out arrive like one *)
(* of these, or are text.  The widths of the types are constants, so that  *)
(* small numbers overflow them.                                            *)
(***************************************************************************)
EXTENDS Integers, Sequences

CONSTANTS
    PortLimit, UIntLimit, SizeLimit,    \* 2^16, 2^32 and 2^64
    IntLimit,                           \* 2^31
    Numbers,                            \* what users write
    Defaults,                           \* Config(); threads may be 0 there
    MaxArgs                             \* bound: the length of a command line

Fields == {"port", "threads", "io_threads", "sample_rate", "body_limit_mb",
           "drain_timeout_sec", "enable_keepalive"}

(* A token is a flag, a number, or a text: "true", or another, for which   *)
(* "false" stands.                                                         *)
Flag(f) == [kind |-> "flag", text |-> f, number |-> 0]
Number(n) == [kind |-> "number", text |-> "", number |-> n]
Text(t) == [kind |-> "text", text |-> t, number |-> 0]

Tokens == {Flag(f) : f \in Fields} \cup {Number(n) : n \in Numbers}
             \cup {Text("true"), Text("false")}

(* A document holds numbers, written with a fraction or without, of which  *)
(* the integer part counts; truth values, which convert to 0 and 1; and    *)
(* what is neither, for which a text stands.                               *)
Fraction(n) == [kind |-> "fraction", text |-> "", number |-> n]
Truth(b) == [kind |-> "boolean", text |-> "", number |-> b]

Values == {Number(n) : n \in Numbers} \cup {Fraction(n) : n \in Numbers}
             \cup {Truth(0), Truth(1), Text("true")}

VARIABLES
    document,   \* the json: a partial function from fields to values
    argv,       \* without argv[0]
    i,          \* the next token
    config,
    phase       \* "file", "args", "done", or "fatal" after an exception

vars == <<document, argv, i, config, phase>>

TypeOK ==
    /\ i \in 1..Len(argv) + 1
    /\ config \in [Fields -> Int]
    /\ config.port \in 0..PortLimit - 1
    /\ {config.io_threads, config.sample_rate} \subseteq 0..UIntLimit - 1
    /\ {config.threads, config.body_limit_mb} \subseteq 0..SizeLimit - 1
    /\ -SizeLimit <= 2 * config.drain_timeout_sec /\ 2 * config.drain_timeout_sec < SizeLimit
    /\ config.enable_keepalive \in {0, 1}
    /\ phase \in {"file", "args", "done", "fatal"}
    /\ phase = "done" => config.threads > 0

(* The assignment to the type of the field; seconds are signed. *)
Narrow(f, n) ==
    CASE f = "port" -> n % PortLimit
      [] f \in {"io_threads", "sample_rate"} -> n % UIntLimit
      [] f \in {"threads", "body_limit_mb"} -> n % SizeLimit
      [] OTHER -> LET v == n % SizeLimit IN IF 2 * v >= SizeLimit THEN v - SizeLimit ELSE v

AtLeastOneThread(c) ==
    [f \in Fields |-> IF f = "threads" /\ c[f] = 0 THEN 1 ELSE c[f]]

-----------------------------------------------------------------------------
(* fromJson with safeSet: a value of another type leaves the default.  The *)
(* library takes a truth value for a number, but not where the field is of *)
(* its own unsigned type, size_t, or is_number is asked first.             *)
HasType(f, value) ==
    CASE value.kind \in {"number", "fraction"} -> f # "enable_keepalive"
      [] value.kind = "boolean" -> f \in {"enable_keepalive", "port", "io_threads", "sample_rate"}
      [] OTHER -> FALSE

(* Integers beyond 64 bits are parsed as floating point, too. *)
Floating(value) ==
    \/ value.kind = "fraction"
    \/ value.number >= SizeLimit \/ 2 * value.number < -SizeLimit

(* An integer is reduced to the type.  The conversion of a floating point  *)
(* number is undefined where the type does not hold its integer part: it   *)
(* may leave any value of the type, that of cast.  No document here has    *)
(* two fields: one cast is enough.                                         *)
Casts == 0..SizeLimit - 1

Converted(f, value, cast) ==
    IF value.kind = "boolean" THEN value.number
    ELSE IF Floating(value) /\ Narrow(f, value.number) # value.number THEN Narrow(f, cast)
    ELSE Narrow(f, value.number)

FromJson(doc, cast) ==
    AtLeastOneThread(
        [f \in Fields |->
            IF f \in DOMAIN doc /\ HasType(f, doc[f]) THEN Converted(f, doc[f], cast)
            ELSE Defaults[f]])

ToJson(c) ==
    [f \in Fields |-> IF f = "enable_keepalive" THEN Truth(c[f]) ELSE Number(c[f])]

(* stoi and stoul, which throws nothing at a minus sign: -1 is the largest *)
(* value.  Any text can be compared with "true" and "1".                   *)
Readable(f, token) ==
    \/ f = "enable_keepalive"
    \/ f = "port" /\ token.kind = "number" /\ token.number \in -IntLimit..IntLimit - 1
    \/ f # "port" /\ token.kind = "number" /\ token.number \in 1 - SizeLimit..SizeLimit - 1

FromToken(f, token) ==
    IF f = "enable_keepalive" THEN IF token \in {Text("true"), Number(1)} THEN 1 ELSE 0
    ELSE Narrow(f, token.number)

-----------------------------------------------------------------------------
NoDocument == [f \in {} |-> Number(0)]

Documents ==
    {NoDocument} \cup {[f \in {g} |-> v] : g \in Fields, v \in Values}

Init ==
    /\ document \in Documents
    /\ argv \in UNION {[1..n -> Tokens] : n \in 0..MaxArgs}
    /\ i = 1
    /\ config = Defaults
    /\ phase = "file"

(* Without a document that can be read, the defaults are taken as they are. *)
Load ==
    /\ phase = "file"
    /\ \/ \E cast \in Casts : config' = FromJson(document, cast)
       \/ config' = Defaults /\ document = NoDocument
    /\ phase' = "args"
    /\ UNCHANGED <<document, argv, i>>

AtFlag == phase = "args" /\ i <= Len(argv) /\ argv[i].kind = "flag"

(* hasNext *)
HasNext == i + 1 <= Len(argv)

(* Faults: a value is expected after the last token, and the branch of     *)
(* --io-threads assigns to threads.                                        *)
SetBeyondEnd ==
    /\ AtFlag
    /\ HasNext => Readable(argv[i].text, argv[i + 1])
    /\ i' = i + 2
    /\ UNCHANGED <<document, argv, config, phase>>

SetOther ==
    /\ AtFlag /\ HasNext
    /\ Readable(argv[i].text, argv[i + 1])
    /\ LET f == IF argv[i].text = "io_threads" THEN "threads" ELSE argv[i].text
       IN config' = [config EXCEPT ![f] = FromToken(f, argv[i + 1])]
    /\ i' = i + 2
    /\ UNCHANGED <<document, argv, phase>>

Set ==
    /\ AtFlag /\ HasNext
    /\ Readable(argv[i].text, argv[i + 1])
    /\ config' = [config EXCEPT ![argv[i].text] = FromToken(argv[i].text, argv[i + 1])]
    /\ i' = i + 2
    /\ UNCHANGED <<document, argv, phase>>

(* The exception is caught by loadConfig, whose handler parses the same    *)
(* command line again, with the same result, and main reports it.          *)
Throw ==
    /\ AtFlag /\ HasNext
    /\ ~Readable(argv[i].text, argv[i + 1])
    /\ phase' = "fatal"
    /\ UNCHANGED <<document, argv, i, config>>

(* A flag at the end, or a token that is no flag, is passed over. *)
Skip ==
    /\ phase = "args" /\ i <= Len(argv)
    /\ AtFlag => ~HasNext
    /\ i' = i + 1
    /\ UNCHANGED <<document, argv, config, phase>>

(* Fault: fromArgs leaves it to fromJson to look at the threads. *)
FinishUnchecked ==
    /\ phase = "args" /\ i > Len(argv)
    /\ phase' = "done"
    /\ UNCHANGED <<document, argv, i, config>>

Finish ==
    /\ phase = "args" /\ i > Len(argv)
    /\ config' = AtLeastOneThread(config)
    /\ phase' = "done"
    /\ UNCHANGED <<document, argv, i>>

Next == Load \/ Set \/ Throw \/ Skip \/ Finish

Spec == Init /\ [][Next]_vars

-----------------------------------------------------------------------------
(* README.md:83: a flag overrides the document, which overrides the        *)
(* default; of two equal flags the last one counts.  For command lines of  *)
(* flags with their values.                                                *)
WellFormed ==
    /\ Len(argv) % 2 = 0
    /\ \A j \in DOMAIN argv : (argv[j].kind = "flag") <=> (j % 2 = 1)

Asked(f) == {j \in DOMAIN argv : argv[j] = Flag(f)}

FlagsOverride ==
    phase = "done" /\ WellFormed =>
        \A f \in Fields :
            IF Asked(f) = {}
            THEN \E cast \in Casts : config[f] = FromJson(document, cast)[f]
            ELSE \E j \in Asked(f) :
                    /\ \A k \in Asked(f) : k <= j
                    /\ LET v == FromToken(f, argv[j + 1])
                       IN config[f] = IF f = "threads" /\ v = 0 THEN 1 ELSE v

(* The start that finds no file runs with the settings with which the next *)
(* start runs, from the file that the first one has created.               *)
SecondStartAlike ==
    phase = "done" /\ document = NoDocument /\ argv = <<>> =>
        \A cast \in Casts : config = FromJson(ToJson(Defaults), cast)
==============================================================================
