------------------------- MODULE ConfigurationProofs -------------------------
(***************************************************************************)
(* Proofs about ConfigStore, for any documents users may write, and about  *)
(* Settings, for any document, any command line and any widths of the      *)
(* types.                                                                  *)
(***************************************************************************)
EXTENDS MCConfiguration, TLAPS

(* What else is true of the file: a document of a user in it is the latest *)
(* one; it is damaged only while it is being written, or through a fault;  *)
(* and it is where the steps that put it aside and replace it expect it.   *)
FileInv ==
    /\ file \in Edits => file = latest
    /\ file = "damaged" /\ faults \cap {"write", "death"} = {} => pc = "writing"
    /\ pc \in {"renaming", "replacing"} => file \notin Readable
    /\ pc \in {"opening", "reading", "renaming"} => file # "absent"
    /\ pc = "fresh" /\ "open" \notin faults => file = "absent"
    /\ pc = "replacing" /\ "rename" \notin faults => file = "absent"
    /\ pc = "writing" => file = "damaged"

StoreInv == TypeOK /\ UserWorkKept /\ BackupIsBroken /\ FileInv

(* The invariant of the configuration holds initially and in every step. *)
LEMMA StoreInvInductive == (Init => StoreInv) /\ (StoreInv /\ [Next]_vars => StoreInv')
<1> USE EditsAssumption DEF StoreInv, TypeOK, UserWorkKept, BackupIsBroken, FileInv,
                            Readable, ServerFiles
<1>1. Init => StoreInv
  BY DEF Init
<1>2. ASSUME StoreInv, [Next]_vars PROVE StoreInv'
  <2>1. CASE UNCHANGED vars
    BY <1>2, <2>1 DEF vars
  <2>2. CASE Start
    <3>1. CASE file = "absent"
      BY <1>2, <2>2, <3>1 DEF Start
    <3>2. CASE file # "absent"
      BY <1>2, <2>2, <3>2 DEF Start
    <3> QED  BY <3>1, <3>2
  <2>2a. CASE Open \/ OpenFails
    BY <1>2, <2>2a DEF Open, OpenFails
  <2>3. CASE Parse
    BY <1>2, <2>3 DEF Parse
  <2>4. CASE ParseFails \/ ReadFails
    BY <1>2, <2>4 DEF ParseFails, ReadFails
  <2>5. CASE Rename
    <3>1. /\ file \notin Good /\ file \in {latest, "damaged"}
          /\ faults = {} => file = latest
      BY <1>2, <2>5 DEF Rename
    <3>2. UserWorkKept'
      BY <1>2, <2>5, <3>1 DEF Rename
    <3>3. TypeOK' /\ BackupIsBroken'
      BY <1>2, <2>5 DEF Rename
    <3>4. FileInv'
      BY <1>2, <2>5 DEF Rename
    <3> QED  BY <3>2, <3>3, <3>4
  <2>6. CASE RenameFails
    BY <1>2, <2>6 DEF RenameFails
  <2>7. CASE Create
    BY <1>2, <2>7 DEF Create
  <2>8. CASE CreateFails
    BY <1>2, <2>8 DEF CreateFails
  <2>9. CASE Write
    BY <1>2, <2>9 DEF Write
  <2>10. CASE WriteFails
    BY <1>2, <2>10 DEF WriteFails
  <2>11. CASE Apply \/ BadArgs
    BY <1>2, <2>11 DEF Apply, BadArgs
  <2>12. CASE Exit
    BY <1>2, <2>12 DEF Exit
  <2>13. ASSUME NEW e \in Edits, Edit(e) PROVE StoreInv'
    BY <1>2, <2>13 DEF Edit
  <2> QED  BY <1>2, <2>1, <2>2, <2>2a, <2>3, <2>4, <2>5, <2>6, <2>7, <2>8, <2>9, <2>10, <2>11,
              <2>12, <2>13 DEF Next, LoadStep
<1> QED  BY <1>1, <1>2

(* The strengthened invariant of the configuration. *)
THEOREM StoreInvariant == Spec => []StoreInv
BY StoreInvInductive, PTL DEF Spec

(* The configuration is well typed in every reachable state. *)
THEOREM ConfigTypeCorrect == Spec => []TypeOK
<1>1. StoreInv => TypeOK
  BY DEF StoreInv
<1> QED  BY <1>1, StoreInvariant, PTL

(* The latest edit survives any number of starts and exits: in place if it *)
(* parses, in place or in .broken if it does not; and what can cost it is  *)
(* one of the faults that UserWorkKept names.                              *)
THEOREM LatestEditKept == Spec => []UserWorkKept
<1>1. StoreInv => UserWorkKept
  BY DEF StoreInv
<1> QED  BY <1>1, StoreInvariant, PTL

(* Only a document that does not parse is ever put aside. *)
THEOREM OnlyBrokenPutAside == Spec => []BackupIsBroken
<1>1. StoreInv => BackupIsBroken
  BY DEF StoreInv
<1> QED  BY <1>1, StoreInvariant, PTL
-----------------------------------------------------------------------------
(* A number a field of its type can hold. *)
Fits(f, v) ==
    /\ v \in Int
    /\ f = "port" => v \in 0..PortLimit - 1
    /\ f \in {"io_threads", "sample_rate"} => v \in 0..UIntLimit - 1
    /\ f \in {"threads", "body_limit_mb"} => v \in 0..SizeLimit - 1
    /\ f = "drain_timeout_sec" => -SizeLimit <= 2 * v /\ 2 * v < SizeLimit
    /\ f = "enable_keepalive" => v \in {0, 1}

Fitting == {c \in [S!Fields -> Int] : \A f \in S!Fields : Fits(f, c[f])}

SettingsInv ==
    /\ document \in S!Documents
    /\ argv \in Seq(S!Tokens)
    /\ i \in 1..Len(argv) + 1
    /\ config \in Fitting
    /\ phase \in {"file", "args", "done", "fatal"}
    /\ phase = "file" => i = 1 /\ config = Defaults
    /\ phase = "done" => config.threads > 0 /\ i = Len(argv) + 1

(* The type invariant of Settings follows. *)
LEMMA SettingsInvTypes == SettingsInv => S!TypeOK
BY DEF SettingsInv, S!TypeOK, Fitting, Fits, S!Fields

(* What the assignment to a field leaves fits the field. *)
LEMMA NarrowFits ==
    ASSUME NEW f \in S!Fields, f # "enable_keepalive", NEW n \in Int
    PROVE  Fits(f, S!Narrow(f, n))
<1> USE SettingsAssumption
<1>1. /\ n % PortLimit \in 0..PortLimit - 1
      /\ n % UIntLimit \in 0..UIntLimit - 1
      /\ n % SizeLimit \in 0..SizeLimit - 1
  OBVIOUS
<1>2. CASE f = "port"
  BY <1>1, <1>2 DEF Fits, S!Narrow
<1>3. CASE f \in {"io_threads", "sample_rate"}
  BY <1>1, <1>3 DEF Fits, S!Narrow
<1>4. CASE f \in {"threads", "body_limit_mb"}
  BY <1>1, <1>4 DEF Fits, S!Narrow
<1>5. CASE f = "drain_timeout_sec"
  <2> DEFINE v == n % SizeLimit
  <2>1. S!Narrow(f, n) = IF 2 * v >= SizeLimit THEN v - SizeLimit ELSE v
    BY <1>5 DEF S!Narrow
  <2>2. v \in 0..SizeLimit - 1
    BY <1>1
  <2> HIDE DEF v
  <2> QED  BY <1>5, <2>1, <2>2 DEF Fits
<1> QED  BY <1>2, <1>3, <1>4, <1>5 DEF S!Fields

(* A number that fits a field is assigned to it as it is. *)
LEMMA NarrowKeeps ==
    ASSUME NEW f \in S!Fields, f # "enable_keepalive", NEW n \in Int, Fits(f, n)
    PROVE  S!Narrow(f, n) = n
<1> USE SettingsAssumption
<1>1. CASE f = "port"
  <2>1. n % PortLimit = n
    BY <1>1 DEF Fits
  <2> QED  BY <1>1, <2>1 DEF S!Narrow
<1>2. CASE f \in {"io_threads", "sample_rate"}
  <2>1. n % UIntLimit = n
    BY <1>2 DEF Fits
  <2> QED  BY <1>2, <2>1 DEF S!Narrow
<1>3. CASE f \in {"threads", "body_limit_mb"}
  <2>1. n % SizeLimit = n
    BY <1>3 DEF Fits
  <2> QED  BY <1>3, <2>1 DEF S!Narrow
<1>4. CASE f = "drain_timeout_sec"
  <2> DEFINE v == n % SizeLimit
  <2>1. S!Narrow(f, n) = IF 2 * v >= SizeLimit THEN v - SizeLimit ELSE v
    BY <1>4 DEF S!Narrow
  <2>2. CASE n >= 0
    <3>1. v = n
      BY <1>4, <2>2 DEF Fits
    <3> HIDE DEF v
    <3> QED  BY <1>4, <2>1, <3>1 DEF Fits
  <2>3. CASE n < 0
    <3>1. v = n + SizeLimit
      BY <1>4, <2>3 DEF Fits
    <3> HIDE DEF v
    <3> QED  BY <1>4, <2>1, <3>1 DEF Fits
  <2> QED  BY <2>2, <2>3
<1> QED  BY <1>1, <1>2, <1>3, <1>4 DEF S!Fields

(* A worker at least, and no other field is touched. *)
AtLeastOne(f, v) == IF f = "threads" /\ v = 0 THEN 1 ELSE v

(* What fits still fits, and there is a worker. *)
LEMMA OneThreadFits ==
    ASSUME NEW c \in Fitting
    PROVE  /\ S!AtLeastOneThread(c) \in Fitting
           /\ S!AtLeastOneThread(c).threads > 0
           /\ \A f \in S!Fields : S!AtLeastOneThread(c)[f] = AtLeastOne(f, c[f])
BY SettingsAssumption DEF S!AtLeastOneThread, Fitting, Fits, AtLeastOne, S!Fields

(* The defaults fit. *)
LEMMA DefaultsFit == Defaults \in Fitting
BY DefaultsAssumption DEF Fitting, Fits, S!Fields

(* What is written is a number, if it says so. *)
LEMMA WrittenNumbers ==
    /\ \A t \in S!Tokens : t.number \in Int
    /\ \A d \in S!Documents : \A f \in DOMAIN d : d[f] \in S!Values
    /\ \A v \in S!Values : v.number \in Int /\ (v.kind = "boolean" => v.number \in {0, 1})
<1>n. \A n \in Numbers : n \in Int
  BY SettingsAssumption
<1>1. ASSUME NEW t \in S!Tokens PROVE t.number \in Int
  <2>1. CASE \E f \in S!Fields : t = S!Flag(f)
    BY <2>1 DEF S!Flag
  <2>2. CASE \E n \in Numbers : t = S!Number(n)
    <3>1. PICK n \in Numbers : t = S!Number(n)
      BY <2>2
    <3>2. t.number = n
      BY <3>1 DEF S!Number
    <3> QED  BY <1>n, <3>2
  <2>3. CASE t \in {S!Text("true"), S!Text("false")}
    BY <2>3 DEF S!Text
  <2> QED  BY <2>1, <2>2, <2>3 DEF S!Tokens
<1>2. ASSUME NEW d \in S!Documents, NEW f \in DOMAIN d PROVE d[f] \in S!Values
  <2>1. d # S!NoDocument
    BY <1>2 DEF S!NoDocument
  <2>2. PICK g \in S!Fields, v \in S!Values : d = [h \in {g} |-> v]
    BY <2>1 DEF S!Documents
  <2> QED  BY <1>2, <2>2
<1>3. ASSUME NEW v \in S!Values
      PROVE  v.number \in Int /\ (v.kind = "boolean" => v.number \in {0, 1})
  <2>1. CASE \E n \in Numbers : v = S!Number(n)
    <3>1. PICK n \in Numbers : v = S!Number(n)
      BY <2>1
    <3>2. v.number = n /\ v.kind = "number"
      BY <3>1 DEF S!Number
    <3> QED  BY <1>n, <3>2
  <2>2. CASE \E n \in Numbers : v = S!Fraction(n)
    <3>1. PICK n \in Numbers : v = S!Fraction(n)
      BY <2>2
    <3>2. v.number = n /\ v.kind = "fraction"
      BY <3>1 DEF S!Fraction
    <3> QED  BY <1>n, <3>2
  <2>3. CASE \E b \in {0, 1} : v = S!Truth(b)
    <3>1. PICK b \in {0, 1} : v = S!Truth(b)
      BY <2>3
    <3>2. v.number = b
      BY <3>1 DEF S!Truth
    <3> QED  BY <3>2
  <2>4. CASE v = S!Text("true")
    <3>1. v.number \in Int
      BY <2>4 DEF S!Text
    <3>2. v.kind # "boolean"
      BY <2>4 DEF S!Text
    <3> QED  BY <3>1, <3>2
  <2> QED  BY <2>1, <2>2, <2>3, <2>4 DEF S!Values
<1> QED  BY <1>1, <1>2, <1>3

(* What fromJson makes of a field of a document. *)
FieldOf(doc, f, cast) ==
    IF f \in DOMAIN doc /\ S!HasType(f, doc[f]) THEN S!Converted(f, doc[f], cast)
    ELSE Defaults[f]

(* A document as fromJson may meet one. *)
Sound(d) ==
    \A f \in DOMAIN d :
        d[f].number \in Int /\ (d[f].kind = "boolean" => d[f].number \in {0, 1})

(* What a conversion may leave is a number. *)
LEMMA CastsAreNumbers == S!Casts \subseteq Int /\ 0 \in S!Casts
BY SettingsAssumption DEF S!Casts

(* The documents here are such. *)
LEMMA DocumentsSound == \A d \in S!Documents : Sound(d)
BY WrittenNumbers DEF Sound

(* A truth value fits wherever it is taken. *)
LEMMA TruthFits ==
    ASSUME NEW f \in S!Fields, NEW b \in {0, 1}, f \notin {"threads", "body_limit_mb"},
           f # "drain_timeout_sec"
    PROVE  Fits(f, b)
BY SettingsAssumption DEF Fits, S!Fields

(* Whatever a document holds, what is made of it fits. *)
LEMMA FromJsonFits ==
    ASSUME NEW d, Sound(d), NEW cast \in Int
    PROVE  /\ [f \in S!Fields |-> FieldOf(d, f, cast)] \in Fitting
           /\ S!FromJson(d, cast) \in Fitting
           /\ \A f \in S!Fields :
                 S!FromJson(d, cast)[f] = AtLeastOne(f, FieldOf(d, f, cast))
<1> DEFINE c == [f \in S!Fields |-> FieldOf(d, f, cast)]
<1>1. ASSUME NEW f \in S!Fields PROVE Fits(f, FieldOf(d, f, cast))
  <2>1. CASE ~(f \in DOMAIN d /\ S!HasType(f, d[f]))
    BY <2>1, DefaultsFit DEF FieldOf, Fitting
  <2>2. CASE f \in DOMAIN d /\ S!HasType(f, d[f])
    <3>1. FieldOf(d, f, cast) = S!Converted(f, d[f], cast)
      BY <2>2 DEF FieldOf
    <3>2. d[f].number \in Int /\ (d[f].kind = "boolean" => d[f].number \in {0, 1})
      BY <2>2 DEF Sound
    <3>3. CASE d[f].kind = "boolean"
      <4>1. f \in {"enable_keepalive", "port", "io_threads", "sample_rate"}
        BY <2>2, <3>3 DEF S!HasType
      <4>2. S!Converted(f, d[f], cast) = d[f].number
        BY <3>3 DEF S!Converted
      <4> QED  BY <3>1, <3>2, <3>3, <4>1, <4>2, TruthFits
    <3>4. CASE d[f].kind # "boolean"
      <4>1. f # "enable_keepalive"
        BY <2>2, <3>4 DEF S!HasType
      <4>2. S!Converted(f, d[f], cast) \in {S!Narrow(f, cast), S!Narrow(f, d[f].number)}
        BY <3>4 DEF S!Converted
      <4> QED  BY <3>1, <3>2, <4>1, <4>2, NarrowFits
    <3> QED  BY <3>3, <3>4
  <2> QED  BY <2>1, <2>2
<1>2. c \in Fitting
  BY <1>1 DEF Fitting, Fits
<1>3. S!FromJson(d, cast) = S!AtLeastOneThread(c)
  BY DEF S!FromJson, FieldOf
<1>4. \A f \in S!Fields : c[f] = FieldOf(d, f, cast)
  OBVIOUS
<1> HIDE DEF c
<1> QED  BY <1>2, <1>3, <1>4, OneThreadFits DEF c

(* A token assigned to a field fits it. *)
LEMMA FromTokenFits ==
    ASSUME NEW f \in S!Fields, NEW t \in S!Tokens
    PROVE  Fits(f, S!FromToken(f, t))
<1>1. CASE f = "enable_keepalive"
  BY <1>1 DEF S!FromToken, Fits
<1>2. CASE f # "enable_keepalive"
  BY <1>2, NarrowFits, WrittenNumbers DEF S!FromToken
<1> QED  BY <1>1, <1>2

(* A flag names a field. *)
LEMMA FlagNames ==
    ASSUME NEW t \in S!Tokens, t.kind = "flag"
    PROVE  t.text \in S!Fields /\ t = S!Flag(t.text)
<1>1. /\ \A n \in Numbers : S!Number(n).kind # "flag"
      /\ \A x : S!Text(x).kind # "flag"
  BY DEF S!Number, S!Text
<1>2. PICK f \in S!Fields : t = S!Flag(f)
  BY <1>1 DEF S!Tokens
<1> QED  BY <1>2 DEF S!Flag

(* The invariant holds initially and in every step. *)
LEMMA SettingsInvInductive ==
    (S!Init => SettingsInv) /\ (SettingsInv /\ [S!Next]_settingsVars => SettingsInv')
<1>1. S!Init => SettingsInv
  BY DefaultsFit, SettingsAssumption DEF S!Init, SettingsInv
<1>2. ASSUME SettingsInv, [S!Next]_settingsVars PROVE SettingsInv'
  <2> USE <1>2 DEF SettingsInv
  <2>1. CASE UNCHANGED settingsVars
    BY <2>1 DEF settingsVars
  <2>2. CASE S!Load
    <3>1. config' \in Fitting
      <4>1. \A cast \in S!Casts : S!FromJson(document, cast) \in Fitting
        <5>1. Sound(document)
          BY DocumentsSound
        <5> QED  BY <5>1, FromJsonFits, CastsAreNumbers
      <4> QED  BY <2>2, <4>1, DefaultsFit DEF S!Load
    <3> QED  BY <2>2, <3>1 DEF S!Load
  <2>3. CASE S!Set
    <3> DEFINE f == argv[i].text
               v == S!FromToken(f, argv[i + 1])
    <3>1. i + 1 \in 1..Len(argv) /\ i \in 1..Len(argv) /\ argv[i].kind = "flag"
      BY <2>3 DEF S!Set, S!AtFlag, S!HasNext
    <3>2. f \in S!Fields /\ Fits(f, v)
      BY <3>1, FlagNames, FromTokenFits
    <3>3. config' = [config EXCEPT ![f] = v]
      BY <2>3 DEF S!Set
    <3> HIDE DEF f, v
    <3>4. config' \in Fitting
      BY <3>2, <3>3 DEF Fitting, Fits
    <3> QED  BY <2>3, <3>1, <3>4 DEF S!Set, S!AtFlag
  <2>4. CASE S!Throw
    BY <2>4 DEF S!Throw
  <2>5. CASE S!Skip
    BY <2>5 DEF S!Skip
  <2>6. CASE S!Finish
    BY <2>6, OneThreadFits DEF S!Finish
  <2> QED  BY <2>1, <2>2, <2>3, <2>4, <2>5, <2>6 DEF S!Next
<1> QED  BY <1>1, <1>2

(* The invariant of the settings. *)
THEOREM SettingsInvariant == S!Spec => []SettingsInv
BY SettingsInvInductive, PTL DEF S!Spec, S!vars, settingsVars

(* loadConfig: the store is well typed, and the settings hold what the     *)
(* type of their field holds, with a worker in the end, whatever document  *)
(* and command line come in.                                               *)
THEOREM TypesCorrect == Spec /\ S!Spec => []TypesOK
<1>1. Spec => []TypeOK
  BY ConfigTypeCorrect
<1>2. S!Spec => []S!TypeOK
  BY SettingsInvariant, SettingsInvTypes, PTL
<1>3. TypeOK /\ S!TypeOK => TypesOK
  BY DEF TypesOK
<1> QED  BY <1>1, <1>2, <1>3, PTL

-----------------------------------------------------------------------------
(* A command line of flags and values, read up to i: a field holds what    *)
(* the last of its flags says, and without one what the document says.     *)
SoFar(f) == {j \in S!Asked(f) : j < i}

LastCounts(f) ==
    \/ /\ SoFar(f) = {}
       /\ \E cast \in S!Casts : AtLeastOne(f, config[f]) = S!FromJson(document, cast)[f]
    \/ \E j \in SoFar(f) :
          /\ \A k \in SoFar(f) : k <= j
          /\ AtLeastOne(f, config[f]) = AtLeastOne(f, S!FromToken(f, argv[j + 1]))

FlagsInv ==
    /\ S!WellFormed => i % 2 = 1 \/ phase = "fatal"
    /\ S!WellFormed /\ phase = "args" => \A f \in S!Fields : LastCounts(f)
    /\ FlagsOverride

(* Nothing is read yet: the document decides. *)
LEMMA LoadReadsDocument ==
    ASSUME SettingsInv, S!Load, NEW f \in S!Fields
    PROVE  LastCounts(f)'
<1>1. i = 1 /\ i' = 1 /\ argv' = argv /\ document' = document
  BY DEF SettingsInv, S!Load
<1>2. SoFar(f)' = {}
  BY <1>1 DEF SoFar, S!Asked, SettingsInv
<1>3. \A cast \in S!Casts :
         S!FromJson(document, cast)[f] = AtLeastOne(f, FieldOf(document, f, cast))
  <2>1. Sound(document)
    BY DocumentsSound DEF SettingsInv
  <2> QED  BY <2>1, FromJsonFits, CastsAreNumbers
<1>4. ASSUME NEW cast \in S!Casts, config' = S!FromJson(document, cast)
      PROVE  LastCounts(f)'
  <2>1. AtLeastOne(f, config'[f]) = S!FromJson(document', cast)[f]
    BY <1>1, <1>3, <1>4 DEF AtLeastOne
  <2> QED  BY <1>2, <1>4, <2>1 DEF LastCounts
<1>5. CASE config' = Defaults /\ document = S!NoDocument
  <2>1. 0 \in S!Casts /\ FieldOf(document, f, 0) = Defaults[f]
    BY <1>5, CastsAreNumbers DEF FieldOf, S!NoDocument
  <2>2. AtLeastOne(f, config'[f]) = S!FromJson(document', 0)[f]
    BY <1>1, <1>3, <1>5, <2>1
  <2>3. \E cast \in S!Casts : AtLeastOne(f, config'[f]) = S!FromJson(document', cast)[f]
    BY <2>1, <2>2
  <2> QED  BY <1>2, <2>3 DEF LastCounts
<1> QED  BY <1>4, <1>5 DEF S!Load

(* The flag just read is the last of its field; the other fields keep what *)
(* they hold.                                                              *)
LEMMA SetReadsFlag ==
    ASSUME SettingsInv, FlagsInv, S!WellFormed, S!Set, NEW f \in S!Fields
    PROVE  LastCounts(f)'
<1> DEFINE g == argv[i].text
           v == S!FromToken(g, argv[i + 1])
<1>1. /\ i \in Nat /\ i % 2 = 1 /\ i \in DOMAIN argv /\ i + 1 \in DOMAIN argv
      /\ argv[i] \in S!Tokens /\ argv[i].kind = "flag" /\ argv[i + 1].kind # "flag"
  <2>1. phase = "args" /\ i + 1 <= Len(argv) /\ argv[i].kind = "flag"
    BY DEF S!Set, S!AtFlag, S!HasNext
  <2>2. argv \in Seq(S!Tokens) /\ i \in Nat /\ i >= 1
    BY DEF SettingsInv
  <2>3. i % 2 = 1
    BY <2>1 DEF FlagsInv
  <2>4. i \in DOMAIN argv /\ i + 1 \in DOMAIN argv
    BY <2>1, <2>2
  <2>5. (i + 1) % 2 # 1
    BY <2>2, <2>3
  <2>6. argv[i + 1].kind # "flag"
    BY <2>4, <2>5 DEF S!WellFormed
  <2> QED  BY <2>1, <2>2, <2>3, <2>4, <2>6
<1>2. g \in S!Fields /\ argv[i] = S!Flag(g)
  BY <1>1, FlagNames
<1>3. /\ config' = [config EXCEPT ![g] = v]
      /\ i' = i + 2 /\ argv' = argv /\ document' = document
  BY DEF S!Set
<1>4. config \in [S!Fields -> Int] /\ LastCounts(f)
  BY DEF SettingsInv, FlagsInv, Fitting, S!Set, S!AtFlag
<1>5. S!Asked(f) \subseteq Nat /\ S!Asked(f)' = S!Asked(f) /\ i + 1 \notin S!Asked(f)
  BY <1>1, <1>3 DEF S!Asked, S!Flag, SettingsInv
<1>6. i \in S!Asked(f) <=> f = g
  BY <1>1, <1>2 DEF S!Asked, S!Flag
<1>7. CASE f = g
  <2>1. i \in SoFar(f)' /\ \A k \in SoFar(f)' : k <= i
    BY <1>1, <1>3, <1>5, <1>6, <1>7 DEF SoFar
  <2>2. config'[f] = S!FromToken(f, argv'[i + 1])
    BY <1>2, <1>3, <1>4, <1>7
  <2> QED  BY <2>1, <2>2 DEF LastCounts
<1>8. CASE f # g
  <2>1. SoFar(f)' = SoFar(f)
    BY <1>1, <1>3, <1>5, <1>6, <1>8 DEF SoFar
  <2>2. config'[f] = config[f]
    BY <1>3, <1>4, <1>8
  <2> QED  BY <1>3, <1>4, <2>1, <2>2 DEF LastCounts
<1> QED  BY <1>7, <1>8

(* With the last token read, the last flag of a field is the last of all.  *)
LEMMA FinishTakesAll ==
    ASSUME SettingsInv, FlagsInv, S!Finish
    PROVE  FlagsOverride'
<1> SUFFICES ASSUME S!WellFormed', NEW f \in S!Fields
             PROVE  IF S!Asked(f)' = {}
                    THEN \E cast \in S!Casts : config'[f] = S!FromJson(document', cast)[f]
                    ELSE \E j \in S!Asked(f)' :
                            /\ \A k \in S!Asked(f)' : k <= j
                            /\ config'[f] = AtLeastOne(f, S!FromToken(f, argv'[j + 1]))
  BY DEF FlagsOverride, S!FlagsOverride, AtLeastOne
<1>1. /\ config \in Fitting /\ config' = S!AtLeastOneThread(config)
      /\ argv' = argv /\ document' = document /\ i = Len(argv) + 1
      /\ phase = "args" /\ S!WellFormed
  BY DEF S!Finish, SettingsInv, S!WellFormed
<1>2. S!Asked(f)' = S!Asked(f) /\ SoFar(f) = S!Asked(f)
  BY <1>1 DEF S!Asked, SoFar, SettingsInv
<1>3. config'[f] = AtLeastOne(f, config[f])
  BY <1>1, OneThreadFits
<1>4. LastCounts(f)
  BY <1>1 DEF FlagsInv
<1> QED  BY <1>1, <1>2, <1>3, <1>4 DEF LastCounts

(* The invariant of the command line. *)
LEMMA FlagsInvInductive ==
    /\ S!Init => FlagsInv
    /\ SettingsInv /\ FlagsInv /\ [S!Next]_settingsVars => FlagsInv'
<1>1. S!Init => FlagsInv
  BY DEF S!Init, FlagsInv, FlagsOverride, S!FlagsOverride
<1>2. ASSUME SettingsInv, FlagsInv, [S!Next]_settingsVars PROVE FlagsInv'
  <2>1. CASE UNCHANGED settingsVars
    BY <1>2, <2>1 DEF settingsVars, FlagsInv, S!WellFormed, LastCounts, SoFar, S!Asked,
                      FlagsOverride, S!FlagsOverride
  <2>2. ASSUME S!Next PROVE S!WellFormed' <=> S!WellFormed
    BY <2>2 DEF S!Next, S!Load, S!Set, S!Throw, S!Skip, S!Finish, S!WellFormed
  <2>3. CASE S!Load
    <3>1. i' % 2 = 1 /\ phase' = "args"
      BY <1>2, <2>3 DEF S!Load, SettingsInv
    <3>2. FlagsOverride'
      BY <3>1 DEF FlagsOverride, S!FlagsOverride
    <3> QED  BY <1>2, <2>3, <3>1, <3>2, LoadReadsDocument DEF FlagsInv
  <2>4. CASE S!Set
    <3>1. i' = i + 2 /\ i \in Nat /\ phase' = "args" /\ phase = "args"
      BY <1>2, <2>4 DEF S!Set, S!AtFlag, SettingsInv
    <3>2. S!WellFormed' => i' % 2 = 1
      BY <1>2, <2>2, <2>4, <3>1 DEF FlagsInv, S!Next
    <3>3. FlagsOverride'
      BY <3>1 DEF FlagsOverride, S!FlagsOverride
    <3> QED  BY <1>2, <2>2, <2>4, <3>1, <3>2, <3>3, SetReadsFlag DEF FlagsInv, S!Next
  <2>5. CASE S!Throw
    <3>1. phase' = "fatal"
      BY <2>5 DEF S!Throw
    <3> QED  BY <3>1 DEF FlagsInv, FlagsOverride, S!FlagsOverride
  <2>6. CASE S!Skip
    <3>1. phase' = "args" /\ phase = "args" /\ i \in 1..Len(argv) /\ Len(argv) \in Nat
      BY <1>2, <2>6 DEF S!Skip, SettingsInv
    <3>2. ~S!WellFormed
      <4> SUFFICES ASSUME S!WellFormed PROVE FALSE
        OBVIOUS
      <4>1. i % 2 = 1 /\ i \in DOMAIN argv
        BY <1>2, <3>1 DEF FlagsInv, SettingsInv
      <4>2. argv[i].kind = "flag" /\ Len(argv) % 2 = 0
        BY <4>1 DEF S!WellFormed
      <4>3. i + 1 <= Len(argv)
        BY <3>1, <4>1, <4>2
      <4> QED  BY <2>6, <3>1, <4>2, <4>3 DEF S!Skip, S!AtFlag, S!HasNext
    <3>3. FlagsOverride'
      BY <3>1 DEF FlagsOverride, S!FlagsOverride
    <3> QED  BY <2>2, <2>6, <3>2, <3>3 DEF FlagsInv, S!Next
  <2>7. CASE S!Finish
    <3>1. i' = i /\ phase' = "done" /\ phase = "args"
      BY <2>7 DEF S!Finish
    <3> QED  BY <1>2, <2>2, <2>7, <3>1, FinishTakesAll DEF FlagsInv, S!Next
  <2> QED  BY <1>2, <2>1, <2>3, <2>4, <2>5, <2>6, <2>7 DEF S!Next
<1> QED  BY <1>1, <1>2

(* A flag overrides the document, which overrides the default; of two      *)
(* equal flags the last one counts.                                        *)
THEOREM FlagsOverrideDocument == S!Spec => []FlagsOverride
<1>1. FlagsInv => FlagsOverride
  BY DEF FlagsInv
<1> QED  BY <1>1, SettingsInvariant, FlagsInvInductive, PTL DEF S!Spec, S!vars, settingsVars

-----------------------------------------------------------------------------
(* Reading back what toJson has written of the defaults. *)
LEMMA JsonRoundTrip ==
    ASSUME NEW c \in Fitting, NEW cast \in Int
    PROVE  S!FromJson(S!ToJson(c), cast) = S!AtLeastOneThread(c)
<1> DEFINE d == S!ToJson(c)
<1>1. ASSUME NEW f \in S!Fields PROVE FieldOf(d, f, cast) = c[f]
  <2>1. f \in DOMAIN d /\ c[f] \in Int /\ Fits(f, c[f])
    BY DEF S!ToJson, Fitting
  <2>2. CASE f = "enable_keepalive"
    BY <2>1, <2>2 DEF S!ToJson, FieldOf, S!HasType, S!Converted, S!Truth
  <2>3. CASE f # "enable_keepalive"
    <3>1. d[f].kind = "number" /\ d[f].number = c[f]
      BY <2>3 DEF S!ToJson, S!Number
    <3>2. S!Narrow(f, c[f]) = c[f]
      BY <2>1, <2>3, NarrowKeeps
    <3>3. S!Converted(f, d[f], cast) = c[f]
      BY <3>1, <3>2 DEF S!Converted
    <3> QED  BY <2>1, <2>3, <3>1, <3>3 DEF FieldOf, S!HasType
  <2> QED  BY <2>2, <2>3
<1>2. [f \in S!Fields |-> FieldOf(d, f, cast)] = c
  BY <1>1 DEF Fitting
<1>3. S!FromJson(d, cast) = S!AtLeastOneThread([f \in S!Fields |-> FieldOf(d, f, cast)])
  BY DEF S!FromJson, FieldOf
<1> QED  BY <1>2, <1>3

(* Without a document and without a flag, the defaults are kept. *)
DefaultsKept ==
    /\ phase = "args" /\ document = S!NoDocument /\ argv = <<>> =>
          config \in {Defaults, S!AtLeastOneThread(Defaults)}
    /\ SecondStartAlike

(* It is inductive, given that the defaults survive being written and read. *)
LEMMA DefaultsKeptInductive ==
    /\ S!Init => DefaultsKept
    /\ SettingsInv /\ DefaultsKept /\ [S!Next]_settingsVars => DefaultsKept'
<1>1. S!Init => DefaultsKept
  BY DEF S!Init, DefaultsKept, SecondStartAlike, S!SecondStartAlike
<1>2. ASSUME SettingsInv, DefaultsKept, [S!Next]_settingsVars PROVE DefaultsKept'
  <2> USE <1>2
  <2>1. CASE UNCHANGED settingsVars
    BY <2>1 DEF settingsVars, DefaultsKept, SecondStartAlike, S!SecondStartAlike
  <2>2. CASE S!Load
    <3>1. ASSUME NEW cast \in S!Casts
          PROVE  S!FromJson(S!NoDocument, cast) = S!AtLeastOneThread(Defaults)
      <4>1. [f \in S!Fields |-> FieldOf(S!NoDocument, f, cast)] = Defaults
        BY DefaultsFit DEF FieldOf, S!NoDocument, Fitting
      <4>2. S!FromJson(S!NoDocument, cast)
              = S!AtLeastOneThread([f \in S!Fields |-> FieldOf(S!NoDocument, f, cast)])
        BY DEF S!FromJson, FieldOf
      <4> QED  BY <4>1, <4>2
    <3> QED  BY <2>2, <3>1 DEF S!Load, DefaultsKept, SecondStartAlike, S!SecondStartAlike
  <2>3. CASE S!Set
    BY <2>3 DEF S!Set, S!AtFlag, SettingsInv, DefaultsKept, SecondStartAlike, S!SecondStartAlike
  <2>4. CASE S!Throw
    BY <2>4 DEF S!Throw, DefaultsKept, SecondStartAlike, S!SecondStartAlike
  <2>5. CASE S!Skip
    BY <2>5 DEF S!Skip, SettingsInv, DefaultsKept, SecondStartAlike, S!SecondStartAlike
  <2>6. CASE S!Finish
    <3>1. S!AtLeastOneThread(S!AtLeastOneThread(Defaults)) = S!AtLeastOneThread(Defaults)
      BY DEF S!AtLeastOneThread
    <3>2. \A cast \in S!Casts :
             S!FromJson(S!ToJson(Defaults), cast) = S!AtLeastOneThread(Defaults)
      BY JsonRoundTrip, DefaultsFit, CastsAreNumbers
    <3>3. phase = "args" /\ phase' = "done" /\ config' = S!AtLeastOneThread(config)
          /\ argv' = argv /\ document' = document
      BY <2>6 DEF S!Finish
    <3> QED  BY <3>1, <3>2, <3>3 DEF DefaultsKept, SecondStartAlike, S!SecondStartAlike
  <2> QED  BY <2>1, <2>2, <2>3, <2>4, <2>5, <2>6 DEF S!Next
<1> QED  BY <1>1, <1>2

(* The first start, which finds no file, runs with the same settings as    *)
(* the second, which reads what the first has written.                     *)
THEOREM SecondStartSame == S!Spec => []SecondStartAlike
<1>1. DefaultsKept => SecondStartAlike
  BY DEF DefaultsKept
<1> QED  BY <1>1, SettingsInvariant, DefaultsKeptInductive, PTL DEF S!Spec, S!vars, settingsVars
==============================================================================
