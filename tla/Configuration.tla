--------------------------- MODULE Configuration ---------------------------
(***************************************************************************)
(* internal/config as operators: Default, LoadFile and Parse.  A           *)
(* configuration is a function from its settings to their values; a file   *)
(* and the command line leave settings Unset or give them a text.  A text  *)
(* stands for the value it parses to, or is Bad; an item of a list may be  *)
(* NaN, which strconv.ParseFloat accepts.  Durations are whole numbers.    *)
(***************************************************************************)
EXTENDS Integers, Sequences

CONSTANTS
    NumberLists,      \* the bucket settings whose items are numbers or sizes
    DurationLists,    \* those whose items are durations
    DefaultInterval,
    DefaultTimeout,
    DefaultBuckets,   \* the default of every bucket setting
    Lossy,            \* durations that formatDurationBuckets makes one unit shorter
    Unset,
    Bad,
    NaN,
    Error             \* what LoadFile and Parse return with an error

Lists == NumberLists \union DurationLists
Durations == {"Interval", "Timeout"}
Texts == {"TelemetryPath", "BinaryDir"}
Switches == {"IncludeUserMetrics", "IncludeJobInspectionMetrics",
             "IncludeJobSampleHistograms"}
Settings == Lists \union Durations \union Texts \union Switches

ASSUME ConfigurationAssumption ==
    /\ NumberLists \intersect DurationLists = {}
    /\ Lists \intersect (Durations \union Texts \union Switches) = {}
    /\ DefaultInterval \in Nat \ {0} /\ DefaultTimeout \in Nat \ {0}
    /\ DefaultBuckets \in [Lists -> Seq(Nat \ {0})]
    /\ Lossy \subseteq Int
    /\ NaN \notin Int /\ Bad \notin Int /\ NaN # Bad

\* What does not parse is no switch and no path either.
ASSUME TextAssumption == Bad \notin BOOLEAN /\ Bad # ""

\* A path is told apart by what follows its first slash, if it begins with one.
Path(rooted, rest, parses) == [rooted |-> rooted, rest |-> rest, parses |-> parses]

\* What a file or a flag may give a setting, a text that does not parse included.
Given(s, text) ==
    /\ s \in Lists => text \in Seq(Int \union {NaN, Bad})
    /\ s \in Durations => text \in Int \union {Bad}
    /\ s \in Switches => text \in BOOLEAN \union {Bad}

Default ==
    [s \in Settings |->
        CASE s = "Interval"      -> DefaultInterval
          [] s = "Timeout"       -> DefaultTimeout
          [] s = "TelemetryPath" -> Path(TRUE, "metrics", TRUE)
          [] s = "BinaryDir"     -> ""
          [] s \in Switches      -> FALSE
          [] OTHER               -> DefaultBuckets[s]]

-----------------------------------------------------------------------------
(* Validate. *)

\* Go's <= on floats.
LessOrEqual(a, b) == a # NaN /\ b # NaN /\ a <= b

ValidateBucketValues(values) ==
    /\ values # <<>>
    /\ \A i \in DOMAIN values :
          /\ ~LessOrEqual(values[i], 0)
          /\ i > 1 => ~LessOrEqual(values[i], values[i - 1])

\* Faulty: the root passes.
PathIsRooted(path) == path.rooted

ValidateTelemetryPath(path) == path.rooted /\ path.rest # ""

\* Faulty: the interval is not looked at.
ValidateWithoutInterval(cfg) ==
    /\ cfg["Timeout"] > 0
    /\ \A s \in Lists : ValidateBucketValues(cfg[s])
    /\ ValidateTelemetryPath(cfg["TelemetryPath"])

Validate(cfg) ==
    /\ cfg["Interval"] > 0
    /\ cfg["Timeout"] > 0
    /\ \A s \in Lists : ValidateBucketValues(cfg[s])
    /\ ValidateTelemetryPath(cfg["TelemetryPath"])

-----------------------------------------------------------------------------
(* LoadFile. *)

\* parseBucketSequenceNode, parseBucketCSV and the parsers of the scalars.
Parses(s, text) ==
    IF s \in Lists
    THEN \A i \in DOMAIN text :
            text[i] # Bad /\ (s \in DurationLists => text[i] # NaN)
    ELSE text # Bad

\* What values make of base: those that are set take precedence.
Override(base, values) ==
    [s \in Settings |-> IF values[s] = Unset THEN base[s] ELSE values[s]]

AllParse(values) == \A s \in Settings : values[s] # Unset => Parses(s, values[s])

\* Faulty: left to the flags.
LoadFileUnvalidated(file) ==
    IF file.status = "ok" /\ AllParse(file.values)
    THEN Override([s \in Settings |-> IF s \in Switches THEN FALSE ELSE Default[s]],
                  file.values)
    ELSE Error

\* A switch the file does not set is FALSE.  A file that is missing, has
\* unknown keys or is empty is an error.
LoadFile(file) ==
    LET cfg == Override([s \in Settings |-> IF s \in Switches THEN FALSE ELSE Default[s]],
                        file.values)
    IN  IF file.status = "ok" /\ AllParse(file.values) /\ Validate(cfg) THEN cfg ELSE Error

-----------------------------------------------------------------------------
(* The command line: a sequence of flags with their values, in the form    *)
(* --flag=value, --flag value, or from a file named by an @argument, which *)
(* kingpin expands and extractConfigFile does not.                         *)

\* A flag is <<name, form, value>>.
Name(flag) == flag[1]
Form(flag) == flag[2]
Value(flag) == flag[3]

FlagsNamed(args, name) == {i \in DOMAIN args : Name(args[i]) = name}

\* Faulty: the form with a blank is forgotten.
ExtractJoinedFile(args) ==
    LET found == {i \in FlagsNamed(args, "config.file") : Form(args[i]) = "joined"}
    IN  IF found = {} THEN ""
        ELSE Value(args[CHOOSE i \in found : \A j \in found : i <= j])

\* The first --config.file, before and apart from app.Parse.  Without a value of
\* its own it takes whatever comes next, another flag, for one: here Unset, as no
\* file has the name of a flag.
ExtractConfigFile(args) ==
    LET found == {i \in FlagsNamed(args, "config.file") :
                     /\ Form(args[i]) # "expanded"
                     /\ Value(args[i]) # Unset \/ i + 1 \in DOMAIN args}
    IN  IF found = {} THEN ""
        ELSE Value(args[CHOOSE i \in found : \A j \in found : i <= j])

\* app.Parse: each flag is known, has a value and is given once.
KingpinAccepts(args) ==
    \A i \in DOMAIN args :
        /\ Name(args[i]) \in Settings \union {"config.file"}
        /\ Value(args[i]) # Unset
        /\ \A j \in DOMAIN args : Name(args[i]) = Name(args[j]) => i = j

Flags(args) ==
    [s \in Settings |->
        IF FlagsNamed(args, s) = {} THEN Unset
        ELSE Value(args[CHOOSE i \in FlagsNamed(args, s) : TRUE])]

\* A setting of the file is formatted to become the default of its flag, and
\* parsed again.  Only a duration among floats can change on that way.
ThroughText(s, value) ==
    IF s \in DurationLists
    THEN [i \in DOMAIN value |-> IF value[i] \in Lossy THEN value[i] - 1 ELSE value[i]]
    ELSE value

FlagDefaults(cfg) == [s \in Settings |-> ThroughText(s, cfg[s])]

Parse(args, files) ==
    LET path    == ExtractConfigFile(args)
        cfg     == IF path = "" THEN Default
                   ELSE IF path = Unset THEN Error ELSE LoadFile(files[path])
        runtime == Override(FlagDefaults(cfg), Flags(args))
    IN  IF cfg # Error /\ KingpinAccepts(args) /\ AllParse(Flags(args)) /\ Validate(runtime)
        THEN runtime ELSE Error
=============================================================================
