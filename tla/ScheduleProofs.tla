--------------------------- MODULE ScheduleProofs ---------------------------
(***************************************************************************)
(* Proofs about CollectionSchedule: for any command line and any files,    *)
(* any interval, timeout and defaults, and any setting of the wall clock.  *)
(***************************************************************************)
EXTENDS CollectionSchedule, SequenceTheorems, TLAPS

-----------------------------------------------------------------------------
(* The inductive invariant. *)

Moments == Nat \union {None}
Positive == Nat \ {0}

Types ==
    /\ process \in {"parsing", "exit 2", "parsed", "exit 1", "panicked", "serving"}
    /\ now \in Nat /\ now <= MaxTime /\ wall \in Int
    /\ collecting \in BOOLEAN /\ started \in Int
    /\ ticks \in {0, 1} /\ nextTick \in Moments
    /\ report \in [timestamp : Int, duration : Int, at : Moments, shift : Int]
    /\ begun[1] \in Moments /\ begun[2] \in Moments /\ begun[3] \in Moments
    /\ shift \in Int

\* What main has of the configuration at each point.
Configured ==
    /\ process \in {"parsing", "parsed"} => input \in Inputs
    /\ process = "parsing" => config = Error
    /\ process = "parsed" => config = Parse(input.args, input.files) /\ config # Error
    /\ process = "exit 2" => config = Error
    /\ process = "panicked" => DOMAIN config = Settings
    /\ process # "exit 1"
    /\ process = "serving" =>
          /\ DOMAIN config = KeptSettings
          /\ config["Interval"] \in Positive /\ config["Timeout"] \in Positive

\* The worker has not begun before the process serves.
Waiting ==
    process # "serving" =>
        /\ ~collecting /\ ticks = 0 /\ nextTick = None
        /\ begun[1] = None /\ begun[2] = None /\ begun[3] = None
        /\ report = NoReport

\* The ticker is made when the first collection ends.
Begun ==
    /\ begun[1] # None /\ begun[1] <= now
    /\ nextTick = None <=> report.at = None
    /\ nextTick = None =>
          collecting /\ ticks = 0 /\ begun[2] = None /\ begun[3] = None
    /\ begun[2] = None => begun[3] = None

\* With an interval I and a bound B of a collection: a collection that runs has
\* not used up its timeouts; the next tick is at most an interval ahead; the next
\* collection begins at most an interval after the last has ended.
InTime(I, B) ==
    /\ collecting => now <= begun[1] + B
    /\ nextTick # None =>
          /\ now <= nextTick /\ nextTick <= now + I
          /\ report.at <= now
          /\ collecting => begun[1] <= report.at + I
          /\ ~collecting /\ ticks = 0 => nextTick <= report.at + I
          /\ ~collecting /\ ticks = 1 => now <= report.at + I

\* The tick in the channel, if there is one, came after the last collection had
\* begun, and an interval at least after the one before had.
Paced(I) ==
    /\ begun[2] # None => nextTick >= begun[2] + I
    /\ ticks = 1 => nextTick >= begun[1] + I
    /\ ticks = 1 /\ begun[2] # None => now >= begun[2] + I
    /\ begun[3] # None => begun[1] >= begun[3] + I

\* The wall clock shows what has passed and by how much it was set.
Measured(B) ==
    /\ collecting => wall - started = (now - begun[1]) + shift
    /\ report.at # None =>
          /\ 0 <= report.duration - report.shift
          /\ report.duration - report.shift <= B
    /\ report.at # None /\ ~collecting =>
          report.duration = (report.at - begun[1]) + report.shift

Timely(I, B) == Begun /\ InTime(I, B) /\ Paced(I) /\ Measured(B)

IInv ==
    /\ Types /\ Configured /\ Waiting
    /\ process = "serving" => Timely(Interval, CollectionBound)

-----------------------------------------------------------------------------
(* The configuration. *)

\* What a text of a setting may mean.
Means(s, value) ==
    /\ s \in Lists => value \in Seq(Int \union {NaN})
    /\ s \in Durations => value \in Int
    /\ s \in Switches => value \in BOOLEAN
    /\ s = "BinaryDir" => value # Bad

\* The settings are of five kinds.
LEMMA Kinds ==
    ASSUME NEW s \in Settings
    PROVE  \/ s \in Lists /\ s \notin Durations /\ s \notin Switches
                          /\ s # "TelemetryPath" /\ s # "BinaryDir"
           \/ s \in Durations /\ s \notin Lists /\ s \notin Switches
                          /\ s # "TelemetryPath" /\ s # "BinaryDir"
           \/ s \in Switches /\ s \notin Lists /\ s \notin Durations
                          /\ s # "TelemetryPath" /\ s # "BinaryDir"
           \/ s = "TelemetryPath" /\ s \notin Lists /\ s \notin Durations /\ s \notin Switches
           \/ s = "BinaryDir" /\ s \notin Lists /\ s \notin Durations /\ s \notin Switches
<1>1. Lists \intersect (Durations \union Texts \union Switches) = {}
  BY ConfigurationAssumption
<1> QED
  BY <1>1 DEF Settings, Durations, Texts, Switches

\* A sequence is one of numbers if its items are.
LEMMA SequenceOfItems ==
    ASSUME NEW S, NEW s, NEW N \in Nat, DOMAIN s = 1 .. N,
           s = [i \in DOMAIN s |-> s[i]], \A i \in 1 .. N : s[i] \in S
    PROVE  s \in Seq(S)
<1>1. s \in [1 .. N -> S]
  OBVIOUS
<1> QED
  BY <1>1, SeqDef

\* What parses has a meaning.
LEMMA ParsedMeans ==
    ASSUME NEW s \in Settings, NEW text, Given(s, text), Parses(s, text)
    PROVE  Means(s, text)
<1>1. ASSUME s \in Lists PROVE text \in Seq(Int \union {NaN})
  <2>1. text \in Seq(Int \union {NaN, Bad}) /\ \A i \in DOMAIN text : text[i] # Bad
    BY <1>1 DEF Given, Parses
  <2>2. Len(text) \in Nat /\ DOMAIN text = 1 .. Len(text)
        /\ text = [i \in DOMAIN text |-> text[i]]
        /\ \A i \in 1 .. Len(text) : text[i] \in Int \union {NaN}
    BY <2>1, ElementOfSeq, LenProperties
  <2> QED
    BY <2>2, SequenceOfItems
<1>2. ASSUME s \in Durations PROVE text \in Int
  <2>1. text \in Int \union {Bad} /\ text # Bad
    BY <1>2, Kinds DEF Given, Parses
  <2> QED
    BY <2>1
<1>3. ASSUME s \in Switches PROVE text \in BOOLEAN
  <2>1. text \in BOOLEAN \union {Bad} /\ text # Bad
    BY <1>3, Kinds DEF Given, Parses
  <2> QED
    BY <2>1
<1>4. s = "BinaryDir" => text # Bad
  BY Kinds DEF Parses
<1> QED
  BY <1>1, <1>2, <1>3, <1>4 DEF Means

\* The defaults, kind by kind.
LEMMA DefaultByKind ==
    ASSUME NEW s \in Settings
    PROVE  /\ s = "Interval" => Default[s] = DefaultInterval
           /\ s = "Timeout" => Default[s] = DefaultTimeout
           /\ s = "BinaryDir" => Default[s] = ""
           /\ s \in Switches => Default[s] = FALSE
           /\ s \in Lists => Default[s] = DefaultBuckets[s]
<1> DEFINE d(t) ==
        CASE t = "Interval"      -> DefaultInterval
          [] t = "Timeout"       -> DefaultTimeout
          [] t = "TelemetryPath" -> Path(TRUE, "metrics", TRUE)
          [] t = "BinaryDir"     -> ""
          [] t \in Switches      -> FALSE
          [] OTHER               -> DefaultBuckets[t]
<1>1. Default[s] = d(s)
  <2>1. Default = [t \in Settings |-> d(t)]
    BY DEF Default
  <2> HIDE DEF d
  <2> QED
    BY <2>1
<1>2. s = "Interval" => d(s) = DefaultInterval
  BY Kinds DEF Durations
<1>3. s = "Timeout" => d(s) = DefaultTimeout
  BY Kinds DEF Durations
<1>4. s = "BinaryDir" => d(s) = ""
  BY Kinds
<1>5. s \in Switches => d(s) = FALSE
  BY DEF Switches
<1>6. s \in Lists => d(s) = DefaultBuckets[s]
  BY Kinds DEF Durations
<1> HIDE DEF d
<1> QED
  BY <1>1, <1>2, <1>3, <1>4, <1>5, <1>6

\* The defaults have a meaning.
LEMMA DefaultMeans == ASSUME NEW s \in Settings PROVE Means(s, Default[s])
<1>1. ASSUME s \in Lists PROVE Default[s] \in Seq(Int \union {NaN})
  <2>1. DefaultBuckets[s] \in Seq(Nat \ {0})
    BY <1>1, ConfigurationAssumption
  <2>2. DefaultBuckets[s] \in Seq(Int \union {NaN})
    BY <2>1, SeqMonotonic
  <2> QED
    BY <1>1, <2>2, DefaultByKind
<1>2. ASSUME s \in Durations PROVE Default[s] \in Int
  <2>1. Default[s] = DefaultInterval \/ Default[s] = DefaultTimeout
    BY <1>2, DefaultByKind DEF Durations
  <2>2. DefaultInterval \in Int /\ DefaultTimeout \in Int
    BY ConfigurationAssumption
  <2> QED
    BY <2>1, <2>2
<1>3. ASSUME s \in Switches PROVE Default[s] \in BOOLEAN
  BY <1>3, DefaultByKind
<1>4. ASSUME s = "BinaryDir" PROVE Default[s] # Bad
  <2>1. Default[s] = ""
    BY <1>4, DefaultByKind
  <2> QED
    BY <2>1, TextAssumption
<1> QED
  BY <1>1, <1>2, <1>3, <1>4 DEF Means

\* So has what comes out of a text again.
LEMMA ThroughTextMeans ==
    ASSUME NEW s \in Settings, NEW value, Means(s, value)
    PROVE  Means(s, ThroughText(s, value))
<1>1. CASE s \in DurationLists
  <2> DEFINE shown == [i \in DOMAIN value |->
                          IF value[i] \in Lossy THEN value[i] - 1 ELSE value[i]]
  <2>1. s \in Lists
    BY <1>1 DEF Lists
  <2>2. value \in Seq(Int \union {NaN})
    BY <2>1 DEF Means
  <2>3. Len(value) \in Nat /\ DOMAIN value = 1 .. Len(value)
        /\ \A i \in 1 .. Len(value) : value[i] \in Int \union {NaN}
    BY <2>2, ElementOfSeq, LenProperties
  <2>4. \A i \in 1 .. Len(value) : value[i] \in Lossy => value[i] - 1 \in Int
    <3>1. \A x \in Lossy : x \in Int
      BY ConfigurationAssumption
    <3>2. \A x \in Int : x - 1 \in Int
      OBVIOUS
    <3> QED
      BY <3>1, <3>2
  <2>5. DOMAIN shown = 1 .. Len(value) /\ shown = [i \in DOMAIN shown |-> shown[i]]
        /\ \A i \in 1 .. Len(value) : shown[i] \in Int \union {NaN}
    BY <2>3, <2>4
  <2>6. shown \in Seq(Int \union {NaN})
    <3> HIDE DEF shown
    <3> QED
      BY <2>3, <2>5, SequenceOfItems
  <2> QED
    BY <1>1, <2>1, <2>6, Kinds DEF ThroughText, Means
<1> QED
  BY <1>1 DEF ThroughText

\* What Validate accepts is sound, setting by setting.
LEMMA ValidIsSound ==
    ASSUME NEW cfg, \A s \in Settings : Means(s, cfg[s]), Validate(cfg)
    PROVE  \A s \in Settings : Sound(s, cfg[s])
<1>1. SUFFICES ASSUME NEW s \in Settings PROVE Sound(s, cfg[s])
  OBVIOUS
<1>2. CASE s \in Lists
  <2> DEFINE value == cfg[s]
  <2>1. value \in Seq(Int \union {NaN}) /\ ValidateBucketValues(value)
    BY <1>2 DEF Means, Validate
  <2> HIDE DEF value
  <2>2. Len(value) \in Nat /\ Len(value) > 0 /\ DOMAIN value = 1 .. Len(value)
    BY <2>1, LenProperties, EmptySeq DEF ValidateBucketValues
  <2>3. \A i \in DOMAIN value : value[i] \in Int \union {NaN}
    BY <2>1, <2>2, ElementOfSeq
  <2>4. \A i \in DOMAIN value : value[i] # NaN => value[i] > 0
    <3>1. SUFFICES ASSUME NEW i \in DOMAIN value, value[i] # NaN PROVE value[i] > 0
      OBVIOUS
    <3>2. ~LessOrEqual(value[i], 0)
      BY <2>1 DEF ValidateBucketValues
    <3>3. value[i] \in Int /\ 0 # NaN
      BY <2>3, <3>1, ConfigurationAssumption
    <3> QED
      BY <3>1, <3>2, <3>3 DEF LessOrEqual
  <2>5. \A i, j \in DOMAIN value :
           i < j /\ j = i + 1 /\ NaN \notin {value[i], value[j]} => value[i] < value[j]
    <3>1. SUFFICES ASSUME NEW i \in DOMAIN value, NEW j \in DOMAIN value,
                          j = i + 1, value[i] # NaN, value[j] # NaN
                   PROVE  value[i] < value[j]
      OBVIOUS
    <3>2. i \in Nat /\ i > 0 /\ j > 1 /\ j - 1 = i
      BY <2>2, <3>1
    <3>3. ~LessOrEqual(value[j], value[j - 1])
      BY <2>1, <3>2 DEF ValidateBucketValues
    <3> QED
      BY <2>3, <3>1, <3>2, <3>3 DEF LessOrEqual
  <2>6. \A i \in DOMAIN value : value[i] # Bad
    BY <2>3, ConfigurationAssumption
  <2> QED
    BY <1>2, <2>2, <2>4, <2>5, <2>6, Kinds, Zenon DEF Sound, value
<1>3. CASE s \in Durations
  <2>1. cfg[s] \in Int /\ cfg[s] > 0
    BY <1>3 DEF Means, Validate, Durations
  <2>2. cfg[s] # Bad
    BY <2>1, ConfigurationAssumption
  <2> QED
    BY <1>3, <2>1, <2>2, Kinds DEF Sound
<1>4. CASE s = "TelemetryPath"
  BY <1>4, Kinds DEF Sound, Validate, ValidateTelemetryPath
<1>5. CASE s \in Switches \/ s = "BinaryDir"
  <2>1. cfg[s] # Bad
    BY <1>5, TextAssumption DEF Means
  <2> QED
    BY <1>5, <2>1, Kinds DEF Sound
<1> QED
  BY <1>2, <1>3, <1>4, <1>5, Kinds

\* What settings that override others mean.
LEMMA OverrideMeans ==
    ASSUME NEW base, NEW values,
           \A s \in Settings : Means(s, base[s]),
           \A s \in Settings : values[s] = Unset \/ Given(s, values[s]),
           AllParse(values)
    PROVE  \A s \in Settings : Means(s, Override(base, values)[s])
BY ParsedMeans DEF AllParse, Override

\* What a file is taken for is what it says, and valid.
LEMMA FileLoaded ==
    ASSUME NEW file, LoadFile(file) # Error,
           \A s \in Settings : file.values[s] = Unset \/ Given(s, file.values[s])
    PROVE  /\ file.status = "ok" /\ AllParse(file.values) /\ Validate(LoadFile(file))
           /\ \A s \in Settings : Means(s, LoadFile(file)[s])
           /\ \A s \in Settings :
                 LoadFile(file)[s] =
                    IF file.values[s] = Unset THEN Default[s] ELSE file.values[s]
<1> DEFINE base == [s \in Settings |-> IF s \in Switches THEN FALSE ELSE Default[s]]
           cfg == Override(base, file.values)
<1>1. \A s \in Settings : base[s] = Default[s]
  BY DefaultByKind
<1>2. LoadFile(file) = IF file.status = "ok" /\ AllParse(file.values) /\ Validate(cfg)
                       THEN cfg ELSE Error
  BY DEF LoadFile
<1> HIDE DEF base
<1>3. LoadFile(file) = cfg /\ file.status = "ok" /\ AllParse(file.values) /\ Validate(cfg)
  <2> HIDE DEF cfg
  <2> QED
    BY <1>2
<1>4. \A s \in Settings : Means(s, base[s])
  BY <1>1, DefaultMeans
<1>5. \A s \in Settings : Means(s, cfg[s])
  BY <1>3, <1>4, OverrideMeans
<1>6. \A s \in Settings :
         cfg[s] = IF file.values[s] = Unset THEN Default[s] ELSE file.values[s]
  BY <1>1 DEF Override
<1> HIDE DEF cfg
<1> QED
  BY <1>3, <1>5, <1>6

\* Which file is found.
LEMMA FileFound ==
    ASSUME input \in Inputs, KingpinAccepts(input.args)
    PROVE  /\ NamesFile =>
                 LET named == Value(input.args[CHOOSE i \in FlagsNamed(input.args, "config.file") :
                                                  TRUE])
                 IN  /\ ExtractConfigFile(input.args) = named /\ named # ""
                     /\ named \in DOMAIN input.files /\ named # Unset
           /\ ~NamesFile => ExtractConfigFile(input.args) = ""
<1> DEFINE args == input.args
           named == FlagsNamed(args, "config.file")
           found == {i \in named : /\ Form(args[i]) # "expanded"
                                   /\ Value(args[i]) # Unset \/ i + 1 \in DOMAIN args}
<1>1. args \in Seq({args[i] : i \in DOMAIN args})
      /\ \A i \in DOMAIN args :
            Name(args[i]) = "config.file" =>
               Value(args[i]) \in (DOMAIN input.files) \union {"", Unset}
  BY InputAssumption
<1>2. \A i, j \in named : i = j
  BY DEF KingpinAccepts, FlagsNamed
<1>3. \A i \in named : i <= i
  <2>1. DOMAIN args = 1 .. Len(args) /\ Len(args) \in Nat
    BY <1>1, LenProperties
  <2> HIDE DEF args
  <2>2. \A i \in 1 .. Len(args) : i <= i
    BY <2>1
  <2> QED
    BY <2>1, <2>2 DEF FlagsNamed
<1>4. \A i \in named : Value(args[i]) # Unset /\ i \in DOMAIN args
                       /\ Name(args[i]) = "config.file"
  BY DEF KingpinAccepts, FlagsNamed
<1>5. ExtractConfigFile(args) =
         IF found = {} THEN ""
         ELSE Value(args[CHOOSE i \in found : \A j \in found : i <= j])
  BY DEF ExtractConfigFile
<1>6. NamesFile <=> \E i \in named : Form(args[i]) # "expanded" /\ Value(args[i]) # ""
  BY DEF NamesFile
<1> HIDE DEF args, named
<1>7. ASSUME NamesFile
      PROVE  /\ ExtractConfigFile(args) = Value(args[CHOOSE i \in named : TRUE])
             /\ Value(args[CHOOSE i \in named : TRUE]) # ""
             /\ Value(args[CHOOSE i \in named : TRUE]) \in DOMAIN input.files
             /\ Value(args[CHOOSE i \in named : TRUE]) # Unset
  <2>1. PICK i \in named : Form(args[i]) # "expanded" /\ Value(args[i]) # ""
    BY <1>6, <1>7
  <2>2. i \in found
    BY <1>4, <2>1
  <2>3. \A j \in found : j = i
    BY <1>2, <2>1
  <2>4. (CHOOSE j \in found : \A k \in found : j <= k) = i
    <3>1. \A k \in found : i <= k
      BY <1>3, <2>1, <2>3
    <3> HIDE DEF found
    <3> QED
      BY <2>2, <2>3, <3>1
  <2>5. (CHOOSE j \in named : TRUE) = i
    BY <1>2, <2>1
  <2>6. Value(args[i]) \in DOMAIN input.files
    BY <1>1, <1>4, <2>1 DEF args
  <2> HIDE DEF found
  <2> QED
    BY <1>4, <1>5, <2>1, <2>2, <2>4, <2>5, <2>6
<1>8. ASSUME ~NamesFile PROVE ExtractConfigFile(args) = ""
  <2>1. CASE found = {}
    <3> HIDE DEF found
    <3> QED
      BY <1>5, <2>1
  <2>2. CASE found # {}
    <3>1. PICK i \in found : TRUE
      BY <2>2
    <3>2. i \in named /\ Value(args[i]) = ""
      BY <1>6, <1>8, <3>1
    <3>3. \A j \in found : j = i
      BY <1>2, <3>2
    <3>4. (CHOOSE j \in found : \A k \in found : j <= k) = i
      <4>1. \A k \in found : i <= k
        BY <1>3, <3>2, <3>3
      <4> HIDE DEF found
      <4> QED
        BY <3>1, <3>3, <4>1
    <3> HIDE DEF found
    <3> QED
      BY <1>5, <2>2, <3>2, <3>4
  <2> QED
    BY <2>1, <2>2
<1> QED
  BY <1>7, <1>8 DEF args, named

\* What a command line is taken for.
LEMMA ArgumentsParsed ==
    ASSUME input \in Inputs, config = Parse(input.args, input.files), config # Error
    PROVE  LET cfg == IF NamesFile THEN LoadFile(FileSettings) ELSE Default
           IN  /\ NamesFile => FileSettings \in {input.files[f] : f \in DOMAIN input.files}
               /\ cfg # Error
               /\ AllParse(Flags(input.args)) /\ Validate(config)
               /\ config = Override(FlagDefaults(cfg), Flags(input.args))
<1> DEFINE path == ExtractConfigFile(input.args)
           raw == IF path = "" THEN Default
                  ELSE IF path = Unset THEN Error ELSE LoadFile(input.files[path])
           runtime == Override(FlagDefaults(raw), Flags(input.args))
           cfg == IF NamesFile THEN LoadFile(FileSettings) ELSE Default
<1>1. config = IF raw # Error /\ KingpinAccepts(input.args) /\ AllParse(Flags(input.args))
                  /\ Validate(runtime)
               THEN runtime ELSE Error
  BY DEF Parse
<1>2. /\ raw # Error /\ KingpinAccepts(input.args) /\ AllParse(Flags(input.args))
      /\ Validate(runtime) /\ config = runtime
  <2> HIDE DEF raw, runtime
  <2> QED
    BY <1>1
<1>3. raw = cfg /\ (NamesFile => FileSettings \in {input.files[f] : f \in DOMAIN input.files})
  BY <1>2, FileFound DEF FileSettings
<1> HIDE DEF raw, cfg
<1> QED
  BY <1>2, <1>3 DEF cfg

\* A text a flag is given is one it may be given.
LEMMA FlagsGiven ==
    ASSUME input \in Inputs, NEW s \in Settings
    PROVE  Flags(input.args)[s] = Unset \/ Given(s, Flags(input.args)[s])
<1>1. CASE FlagsNamed(input.args, s) = {}
  BY <1>1 DEF Flags
<1>2. CASE FlagsNamed(input.args, s) # {}
  <2>1. PICK i \in FlagsNamed(input.args, s) : Flags(input.args)[s] = Value(input.args[i])
    BY <1>2 DEF Flags
  <2>2. i \in DOMAIN input.args /\ Name(input.args[i]) = s
    BY <2>1 DEF FlagsNamed
  <2> QED
    BY <2>1, <2>2, InputAssumption
<1> QED
  BY <1>1, <1>2

\* Its settings mean something.
LEMMA ParsedConfigMeans ==
    ASSUME input \in Inputs, config = Parse(input.args, input.files), config # Error
    PROVE  /\ \A s \in Settings : Means(s, config[s])
           /\ DOMAIN config = Settings
<1> DEFINE cfg == IF NamesFile THEN LoadFile(FileSettings) ELSE Default
<1>1. /\ NamesFile => FileSettings \in {input.files[f] : f \in DOMAIN input.files}
      /\ cfg # Error /\ AllParse(Flags(input.args))
      /\ config = Override(FlagDefaults(cfg), Flags(input.args))
  BY ArgumentsParsed
<1>2. \A s \in Settings : Means(s, cfg[s])
  <2>1. CASE NamesFile
    <3>1. \A s \in Settings :
             FileSettings.values[s] = Unset \/ Given(s, FileSettings.values[s])
      BY <1>1, <2>1, InputAssumption
    <3> QED
      BY <1>1, <2>1, <3>1, FileLoaded
  <2>2. CASE ~NamesFile
    BY <2>2, DefaultMeans
  <2> QED
    BY <2>1, <2>2
<1> HIDE DEF cfg
<1>3. \A s \in Settings : Means(s, FlagDefaults(cfg)[s])
  BY <1>2, ThroughTextMeans DEF FlagDefaults
<1>4. \A s \in Settings : Means(s, config[s])
  BY <1>1, <1>3, FlagsGiven, OverrideMeans
<1> QED
  BY <1>1, <1>4 DEF Override

\* Every setting a parsed configuration has, it has from where it should.
LEMMA ConfiguredPrecedence == Configured => Precedence
<1>1. SUFFICES ASSUME Configured, process = "parsed", NEW s \in Settings
               PROVE  LET flag == Flags(input.args)[s]
                          file == IF NamesFile THEN FileSettings.values[s] ELSE Unset
                      IN  CASE flag # Unset                 -> config[s] = flag
                            [] flag = Unset /\ file # Unset -> Same(s, file, config[s])
                            [] OTHER                        -> Same(s, Default[s], config[s])
  BY DEF Precedence, Parsed
<1> DEFINE cfg == IF NamesFile THEN LoadFile(FileSettings) ELSE Default
           flag == Flags(input.args)[s]
           file == IF NamesFile THEN FileSettings.values[s] ELSE Unset
<1>2. input \in Inputs /\ config = Parse(input.args, input.files) /\ config # Error
  BY <1>1 DEF Configured
<1>3. /\ NamesFile => FileSettings \in {input.files[f] : f \in DOMAIN input.files}
      /\ cfg # Error
      /\ config = Override(FlagDefaults(cfg), Flags(input.args))
  BY <1>2, ArgumentsParsed
<1>4. cfg[s] = IF file = Unset THEN Default[s] ELSE file
  <2>1. CASE NamesFile
    <3>1. \A t \in Settings :
             FileSettings.values[t] = Unset \/ Given(t, FileSettings.values[t])
      BY <1>2, <1>3, <2>1, InputAssumption
    <3> QED
      BY <1>3, <2>1, <3>1, FileLoaded
  <2>2. CASE ~NamesFile
    BY <2>2
  <2> QED
    BY <2>1, <2>2
<1>5. config[s] = IF flag = Unset THEN ThroughText(s, cfg[s]) ELSE flag
  <2> HIDE DEF cfg
  <2> QED
    BY <1>3 DEF Override, FlagDefaults
<1>6. Same(s, cfg[s], ThroughText(s, cfg[s]))
  <2> DEFINE value == cfg[s]
  <2>1. Same(s, value, ThroughText(s, value))
    <3> HIDE DEF value
    <3> QED
      BY DEF Same, ThroughText
  <2> QED
    BY <2>1
<1>7. /\ flag # Unset => config[s] = flag
      /\ flag = Unset /\ file # Unset => Same(s, file, config[s])
      /\ flag = Unset /\ file = Unset => Same(s, Default[s], config[s])
  <2> HIDE DEF cfg, flag, file
  <2> QED
    BY <1>4, <1>5, <1>6
<1> HIDE DEF flag, file
<1>8. CASE flag # Unset
  BY <1>7, <1>8 DEF flag, file
<1>9. CASE flag = Unset /\ file # Unset
  BY <1>7, <1>9 DEF flag, file
<1>10. CASE flag = Unset /\ file = Unset
  BY <1>7, <1>10 DEF flag, file
<1> QED
  BY <1>8, <1>9, <1>10

\* A file that is named was good.
LEMMA ConfiguredFile == Configured => BadFileIsFatal
<1>1. SUFFICES ASSUME Configured, process = "parsed", NamesFile
               PROVE  /\ FileSettings.status = "ok"
                      /\ \A s \in Settings : FileSettings.values[s] # Unset =>
                            Sound(s, FileSettings.values[s])
  BY DEF BadFileIsFatal, Parsed
<1>2. input \in Inputs /\ config = Parse(input.args, input.files) /\ config # Error
  BY <1>1 DEF Configured
<1>3. FileSettings \in {input.files[f] : f \in DOMAIN input.files}
      /\ LoadFile(FileSettings) # Error
  BY <1>1, <1>2, ArgumentsParsed
<1>4. \A s \in Settings : FileSettings.values[s] = Unset \/ Given(s, FileSettings.values[s])
  BY <1>2, <1>3, InputAssumption
<1> DEFINE file == FileSettings
           cfg == LoadFile(file)
<1>5. /\ file.status = "ok" /\ Validate(cfg) /\ \A s \in Settings : Means(s, cfg[s])
      /\ \A s \in Settings :
            cfg[s] = IF file.values[s] = Unset THEN Default[s] ELSE file.values[s]
  BY <1>3, <1>4, FileLoaded
<1> HIDE DEF cfg, file
<1>6. \A s \in Settings : Sound(s, cfg[s])
  BY <1>5, ValidIsSound
<1>7. \A s \in Settings : file.values[s] # Unset => Sound(s, file.values[s])
  <2>1. \A s \in Settings : file.values[s] # Unset => cfg[s] = file.values[s]
    BY <1>5
  <2> QED
    BY <1>6, <2>1
<1> QED
  BY <1>5, <1>7 DEF file

\* What is parsed can run.
LEMMA ConfiguredRuns == Configured => AcceptedRuns
<1>1. SUFFICES ASSUME Configured
               PROVE  process = "parsed" => \A s \in Settings : Sound(s, config[s])
  BY DEF AcceptedRuns, Parsed, Configured
<1>2. ASSUME process = "parsed" PROVE \A s \in Settings : Sound(s, config[s])
  <2>1. input \in Inputs /\ config = Parse(input.args, input.files) /\ config # Error
    BY <1>1, <1>2 DEF Configured
  <2>2. Validate(config) /\ \A s \in Settings : Means(s, config[s])
    BY <2>1, ArgumentsParsed, ParsedConfigMeans
  <2> QED
    BY <2>2, ValidIsSound
<1> QED
  BY <1>2

-----------------------------------------------------------------------------
(* The invariant, step by step. *)

\* While the process serves, the interval and the bound of a collection are
\* numbers, and the settings they are made of stay.
LEMMA Pace ==
    ASSUME Configured, process = "serving"
    PROVE  /\ Interval \in Positive /\ CollectionBound \in Positive
           /\ Interval = config["Interval"]
<1>1. config["Interval"] \in Positive /\ config["Timeout"] \in Positive
  BY DEF Configured
<1>2. Interval = config["Interval"]
  BY <1>1 DEF Interval, Positive
<1>3. CollectionBound = 7 * config["Timeout"] \/ CollectionBound = 6 * config["Timeout"]
  BY DEF CollectionBound, MaxCommands
<1>4. \A n \in Positive : 7 * n \in Positive /\ 6 * n \in Positive
  BY DEF Positive
<1> QED
  BY <1>1, <1>2, <1>3, <1>4

\* The steps that leave the configuration leave the pace.
LEMMA SamePace ==
    UNCHANGED config => Interval' = Interval /\ CollectionBound' = CollectionBound
BY DEF Interval, CollectionBound, MaxCommands

\* What of the types the arithmetic of the times rests on.
Numbers ==
    /\ now \in Nat /\ wall \in Int /\ collecting \in BOOLEAN /\ started \in Int
    /\ ticks \in {0, 1} /\ nextTick \in Int /\ shift \in Int
    /\ report.at \in Int /\ report.duration \in Int /\ report.shift \in Int
    /\ begun[1] \in Int /\ begun[2] \in Int /\ begun[3] \in Int

\* They are among the types.
LEMMA TypesNumbers == Types => Numbers
<1>1. Moments \subseteq Int /\ Nat \subseteq Int
  BY DEF Moments, None
<1>2. Types => report.at \in Moments /\ report.duration \in Int /\ report.shift \in Int
  BY DEF Types
<1> QED
  BY <1>1, <1>2 DEF Types, Numbers

\* The invariant holds before the arguments are parsed.
LEMMA InvInit == Init => IInv
<1>1. SUFFICES ASSUME Init PROVE IInv
  OBVIOUS
<1>2. /\ process = "parsing" /\ input \in Inputs /\ config = Error
      /\ now = 0 /\ wall = 0 /\ collecting = FALSE /\ started = 0 /\ ticks = 0
      /\ nextTick = None /\ report = NoReport /\ shift = 0
      /\ begun[1] = None /\ begun[2] = None /\ begun[3] = None
  BY <1>1 DEF Init
<1>3. Types
  <2>1. None \in Moments /\ 0 \in Nat /\ 0 <= MaxTime
    BY ScheduleAssumption DEF Moments
  <2>2. NoReport \in [timestamp : Int, duration : Int, at : Moments, shift : Int]
    BY <2>1 DEF NoReport
  <2>3. now \in Nat /\ now <= MaxTime /\ wall \in Int /\ started \in Int /\ shift \in Int
        /\ ticks \in {0, 1}
    BY <1>2, <2>1
  <2>4. nextTick \in Moments /\ begun[1] \in Moments /\ begun[2] \in Moments
        /\ begun[3] \in Moments
    BY <1>2, <2>1
  <2> QED
    BY <1>2, <2>2, <2>3, <2>4 DEF Types
<1>4. Configured /\ Waiting
  BY <1>2 DEF Configured, Waiting
<1> QED
  BY <1>2, <1>3, <1>4 DEF IInv

\* main exits with the error, or has the configuration that was parsed.
LEMMA ParseStep == IInv /\ ParseArguments => IInv'
<1>1. SUFFICES ASSUME IInv, ParseArguments PROVE IInv'
  OBVIOUS
<1>2. /\ process = "parsing" /\ config' = Parse(input.args, input.files)
      /\ process' = IF config' = Error THEN "exit 2" ELSE "parsed"
      /\ input' = input /\ UNCHANGED <<now, wall, clockSteps>> /\ UNCHANGED workerVars
  BY <1>1 DEF ParseArguments, clockVars
<1>3. Types'
  BY <1>1, <1>2 DEF IInv, Types, workerVars
<1>4. Configured'
  BY <1>1, <1>2 DEF IInv, Configured
<1>5. Waiting'
  BY <1>1, <1>2 DEF IInv, Waiting, workerVars
<1> QED
  BY <1>2, <1>3, <1>4, <1>5 DEF IInv

\* The first collection is in time.
LEMMA FirstIsTimely ==
    ASSUME NEW I \in Positive, NEW B \in Positive, Numbers,
           /\ collecting' = TRUE /\ started' = wall /\ shift' = 0
           /\ begun'[1] = now /\ begun'[2] = None /\ begun'[3] = None
           /\ now' = now /\ wall' = wall /\ ticks' = 0 /\ nextTick' = None
           /\ report'.at = None
    PROVE  Timely(I, B)'
BY DEF Timely, Begun, InTime, Paced, Measured, Numbers, None, Positive

\* The handler does not refuse a path that was validated, and the worker begins.
LEMMA StartStep == IInv /\ StartServing => IInv'
<1>1. SUFFICES ASSUME IInv, StartServing PROVE IInv'
  OBVIOUS
<1>2. /\ process = "parsed" /\ process' = NewHandler(config["TelemetryPath"])
      /\ UNCHANGED <<now, wall, clockSteps>> /\ UNCHANGED <<ticks, nextTick, report>>
  BY <1>1 DEF StartServing, clockVars
<1>3. /\ input \in Inputs /\ config = Parse(input.args, input.files) /\ config # Error
      /\ ~collecting /\ ticks = 0 /\ nextTick = None /\ report = NoReport
      /\ begun[1] = None /\ begun[2] = None /\ begun[3] = None
  BY <1>1, <1>2 DEF IInv, Configured, Waiting
<1>4. /\ Validate(config) /\ DOMAIN config = Settings
      /\ config["Interval"] \in Int /\ config["Timeout"] \in Int
  BY <1>3, ArgumentsParsed, ParsedConfigMeans DEF Means, Settings, Durations
<1>5. config["Interval"] \in Positive /\ config["Timeout"] \in Positive
  BY <1>4 DEF Validate, Positive
<1>6. process' \in {"panicked", "serving"}
  BY <1>2, <1>4 DEF NewHandler, HandlerValidates, Validate, ValidateTelemetryPath
<1>7. CASE process' = "panicked"
  <2>1. UNCHANGED <<collecting, started, begun, shift, config>>
    BY <1>1, <1>7 DEF StartServing
  <2>2. Types'
    BY <1>1, <1>2, <1>7, <2>1 DEF IInv, Types
  <2>3. Configured'
    BY <1>4, <1>7, <2>1 DEF Configured
  <2>4. Waiting'
    BY <1>2, <1>3, <2>1 DEF Waiting
  <2> QED
    BY <1>7, <2>2, <2>3, <2>4 DEF IInv
<1>8. CASE process' = "serving"
  <2>1. /\ collecting' = TRUE /\ started' = wall /\ shift' = 0
        /\ begun' = <<now, begun[1], begun[2]>>
        /\ config' = [s \in KeptSettings |-> config[s]]
    BY <1>1, <1>8 DEF StartServing, BeginCollection
  <2>2. begun'[1] = now /\ begun'[2] = None /\ begun'[3] = None
    BY <1>3, <2>1
  <2>3. Types'
    BY <1>1, <1>2, <1>8, <2>1, <2>2 DEF IInv, Types, Moments
  <2>4. config'["Interval"] \in Positive /\ config'["Timeout"] \in Positive
        /\ DOMAIN config' = KeptSettings'
    <3>1. "Interval" \in KeptSettings /\ "Timeout" \in KeptSettings
      BY DEF KeptSettings, Durations
    <3> QED
      BY <1>5, <2>1, <3>1 DEF KeptSettings
  <2>5. Configured' /\ Waiting'
    BY <1>8, <2>4 DEF Configured, Waiting
  <2>6. PICK I \in Positive, B \in Positive : I = Interval' /\ B = CollectionBound'
    <3>1. Interval' \in Positive
      BY <2>4 DEF Interval, Positive
    <3>2. CollectionBound' = 7 * config'["Timeout"] \/ CollectionBound' = 6 * config'["Timeout"]
      BY DEF CollectionBound, MaxCommands
    <3>3. \A n \in Positive : 7 * n \in Positive /\ 6 * n \in Positive
      BY DEF Positive
    <3> QED
      BY <2>4, <3>1, <3>2, <3>3
  <2>7. now' = now /\ wall' = wall /\ ticks' = 0 /\ nextTick' = None /\ report'.at = None
    BY <1>2, <1>3 DEF NoReport
  <2>8. Timely(I, B)'
    BY <1>1, <2>1, <2>2, <2>7, FirstIsTimely, TypesNumbers DEF IInv
  <2>9. Timely(Interval, CollectionBound)'
    BY <2>6, <2>8 DEF Timely, InTime, Paced, Measured
  <2> QED
    BY <2>3, <2>5, <2>9 DEF IInv
<1> QED
  BY <1>6, <1>7, <1>8

\* A step of the worker or of the clocks is seen to keep the invariant when it
\* keeps the time for any interval and bound.
LEMMA TimelyStep ==
    ASSUME IInv, process = "serving", UNCHANGED <<input, config, process>>, Types',
           \A I, B \in Positive :
              I = Interval /\ B = CollectionBound /\ Timely(I, B) => Timely(I, B)'
    PROVE  IInv'
<1>1. PICK I \in Positive, B \in Positive : I = Interval /\ B = CollectionBound
  BY Pace DEF IInv
<1>2. Timely(I, B)
  BY <1>1 DEF IInv
<1>3. Timely(I, B)'
  BY <1>1, <1>2
<1>4. I = Interval' /\ B = CollectionBound'
  BY <1>1, SamePace
<1>5. Timely(Interval, CollectionBound)'
  BY <1>3, <1>4 DEF Timely, InTime, Paced, Measured
<1>6. Configured' /\ Waiting'
  BY DEF IInv, Configured, Waiting, KeptSettings
<1> QED
  BY <1>5, <1>6 DEF IInv

\* A tick is sent while the process serves, and the next one is an interval away.
LEMMA TickStep == IInv /\ TickerFires => IInv'
<1>1. SUFFICES ASSUME IInv, TickerFires PROVE IInv'
  OBVIOUS
<1>2. /\ nextTick = now /\ ticks' = 1 /\ nextTick' = now + Interval
      /\ UNCHANGED <<input, config, process>> /\ UNCHANGED <<now, wall>>
      /\ UNCHANGED <<collecting, started, report, begun, shift>>
  BY <1>1 DEF TickerFires, SendTick, clockVars
<1>3. process = "serving"
  <2>1. now # None
    BY <1>1, TypesNumbers DEF IInv, Numbers, None
  <2> QED
    BY <1>1, <1>2, <2>1 DEF IInv, Waiting
<1>4. Types'
  <2>1. nextTick' \in Moments
    BY <1>1, <1>2, <1>3, Pace DEF IInv, Types, Moments, Positive
  <2> QED
    BY <1>1, <1>2, <2>1 DEF IInv, Types
<1>5. ASSUME NEW I \in Positive, NEW B \in Positive, I = Interval, Timely(I, B)
      PROVE  Timely(I, B)'
  <2>1. Numbers /\ nextTick = now /\ ticks' = 1 /\ nextTick' = now + I
        /\ UNCHANGED <<now, wall, collecting, started, report, begun, shift>>
    BY <1>1, <1>2, <1>5, TypesNumbers DEF IInv
  <2>2. Begun'
    BY <1>5, <2>1 DEF Timely, Begun, Numbers, None, Positive
  <2>3. InTime(I, B)'
    BY <1>5, <2>1 DEF Timely, Begun, InTime, Numbers, None, Positive
  <2>4. Paced(I)'
    BY <1>5, <2>1 DEF Timely, Begun, Paced, Numbers, None, Positive
  <2>5. Measured(B)'
    BY <1>5, <2>1 DEF Timely, Measured
  <2> QED
    BY <2>2, <2>3, <2>4, <2>5 DEF Timely
<1> QED
  BY <1>1, <1>2, <1>3, <1>4, <1>5, TimelyStep

\* A collection begins with the tick the ticker left.
LEMMA BeginStep == IInv /\ BeginsAtTick => IInv'
<1>1. SUFFICES ASSUME IInv, BeginsAtTick PROVE IInv'
  OBVIOUS
<1>2. /\ process = "serving" /\ ~collecting /\ ticks > 0 /\ ticks' = ticks - 1
      /\ collecting' = TRUE /\ started' = wall /\ shift' = 0
      /\ begun' = <<now, begun[1], begun[2]>>
      /\ UNCHANGED <<input, config, process>> /\ UNCHANGED <<now, wall, nextTick, report>>
  BY <1>1 DEF BeginsAtTick, BeginCollection, clockVars
<1>3. begun'[1] = now /\ begun'[2] = begun[1] /\ begun'[3] = begun[2]
  BY <1>2
<1>4. ticks = 1 /\ ticks' = 0
  <2>1. ticks \in {0, 1}
    BY <1>1 DEF IInv, Types
  <2>2. ticks > 0 /\ ticks' = ticks - 1
    BY <1>2
  <2> QED
    BY <2>1, <2>2
<1>5. Types'
  BY <1>1, <1>2, <1>3, <1>4 DEF IInv, Types, Moments
<1>6. ASSUME NEW I \in Positive, NEW B \in Positive, Timely(I, B)
      PROVE  Timely(I, B)'
  <2>1. Numbers /\ ~collecting /\ ticks = 1 /\ ticks' = 0 /\ collecting' = TRUE
        /\ started' = wall /\ shift' = 0 /\ UNCHANGED <<now, wall, nextTick, report>>
        /\ begun'[1] = now /\ begun'[2] = begun[1] /\ begun'[3] = begun[2]
    BY <1>1, <1>2, <1>3, <1>4, TypesNumbers DEF IInv
  <2>2. Begun'
    BY <1>6, <2>1 DEF Timely, Begun, Numbers, None
  <2>3. InTime(I, B)'
    BY <1>6, <2>1 DEF Timely, Begun, InTime, Numbers, None, Positive
  <2>4. Paced(I)'
    BY <1>6, <2>1 DEF Timely, Begun, Paced, Numbers, None, Positive
  <2>5. Measured(B)'
    BY <1>6, <2>1 DEF Timely, Measured, Numbers
  <2> QED
    BY <2>2, <2>3, <2>4, <2>5 DEF Timely
<1> QED
  BY <1>1, <1>2, <1>5, <1>6, TimelyStep

\* A collection ends with a report; after the first one the ticker is made.
LEMMA EndStep == IInv /\ EndCollection => IInv'
<1>1. SUFFICES ASSUME IInv, EndCollection PROVE IInv'
  OBVIOUS
<1>2. /\ collecting /\ collecting' = FALSE
      /\ report' = [timestamp |-> started, duration |-> wall - started, at |-> now,
                    shift |-> shift]
      /\ nextTick' = IF nextTick = None THEN now + Interval ELSE nextTick
      /\ UNCHANGED <<input, config, process>>
      /\ UNCHANGED <<now, wall, started, ticks, begun, shift>>
  BY <1>1 DEF EndCollection, Since, clockVars
<1>3. process = "serving"
  BY <1>1, <1>2 DEF IInv, Waiting
<1>4. Types'
  <2>1. nextTick' \in Moments
    BY <1>1, <1>2, <1>3, Pace DEF IInv, Types, Moments, Positive
  <2>2. report' \in [timestamp : Int, duration : Int, at : Moments, shift : Int]
    <3>1. wall - started \in Int
      BY <1>1, TypesNumbers DEF IInv, Numbers
    <3>2. now \in Moments /\ started \in Int /\ shift \in Int
      BY <1>1 DEF IInv, Types, Moments
    <3> QED
      BY <1>2, <3>1, <3>2
  <2> QED
    BY <1>1, <1>2, <2>1, <2>2 DEF IInv, Types
<1>5. ASSUME NEW I \in Positive, NEW B \in Positive, I = Interval, Timely(I, B)
      PROVE  Timely(I, B)'
  <2>1. /\ Numbers /\ collecting /\ collecting' = FALSE
        /\ nextTick' = IF nextTick = None THEN now + I ELSE nextTick
        /\ UNCHANGED <<now, wall, started, ticks, begun, shift>>
        /\ report'.at = now /\ report'.shift = shift /\ report'.duration = wall - started
    BY <1>1, <1>2, <1>5, TypesNumbers DEF IInv
  <2>2. Begun'
    BY <1>5, <2>1 DEF Timely, Begun, Numbers, None, Positive
  <2>3. InTime(I, B)'
    BY <1>5, <2>1 DEF Timely, Begun, InTime, Numbers, None, Positive
  <2>4. Paced(I)'
    BY <1>5, <2>1 DEF Timely, Begun, Paced, Numbers, None, Positive
  <2>5. Measured(B)'
    BY <1>5, <2>1 DEF Timely, Begun, InTime, Measured, Numbers, None, Positive
  <2> QED
    BY <2>2, <2>3, <2>4, <2>5 DEF Timely
<1> QED
  BY <1>1, <1>2, <1>3, <1>4, <1>5, TimelyStep

\* Time passes while nothing is due.
LEMMA TimeStep == IInv /\ TimePasses => IInv'
<1>1. SUFFICES ASSUME IInv, TimePasses PROVE IInv'
  OBVIOUS
<1>2. /\ process = "serving" /\ now < MaxTime /\ nextTick # now
      /\ IF collecting THEN now - begun[1] < CollectionBound ELSE ticks = 0
      /\ now' = now + 1 /\ wall' = wall + 1
      /\ UNCHANGED <<input, config, process>>
      /\ UNCHANGED <<collecting, started, ticks, nextTick, report, begun, shift>>
  BY <1>1 DEF TimePasses, workerVars
<1>3. Types'
  <2>1. now' \in Nat /\ now' <= MaxTime /\ wall' \in Int
    <3>1. now \in Nat /\ wall \in Int /\ MaxTime \in Nat
      BY <1>1, ScheduleAssumption DEF IInv, Types
    <3>2. now < MaxTime /\ now' = now + 1 /\ wall' = wall + 1
      BY <1>2
    <3> QED
      BY <3>1, <3>2
  <2> QED
    BY <1>1, <1>2, <2>1 DEF IInv, Types
<1>4. ASSUME NEW I \in Positive, NEW B \in Positive, B = CollectionBound, Timely(I, B)
      PROVE  Timely(I, B)'
  <2>1. /\ Numbers /\ nextTick # now /\ now' = now + 1 /\ wall' = wall + 1
        /\ collecting => now - begun[1] < B
        /\ ~collecting => ticks = 0
        /\ UNCHANGED <<collecting, started, ticks, nextTick, report, begun, shift>>
    BY <1>1, <1>2, <1>4, TypesNumbers DEF IInv
  <2>2. Begun'
    BY <1>4, <2>1 DEF Timely, Begun, Numbers, None
  <2>3. InTime(I, B)'
    BY <1>4, <2>1 DEF Timely, Begun, InTime, Numbers, None, Positive
  <2>4. Paced(I)'
    BY <1>4, <2>1 DEF Timely, Begun, Paced, Numbers, None, Positive
  <2>5. Measured(B)'
    BY <1>4, <2>1 DEF Timely, Begun, Measured, Numbers, None
  <2> QED
    BY <2>2, <2>3, <2>4, <2>5 DEF Timely
<1> QED
  BY <1>1, <1>2, <1>3, <1>4, TimelyStep

\* The wall clock is set.
LEMMA ClockStep == IInv /\ WallClockSet => IInv'
<1>1. SUFFICES ASSUME IInv, WallClockSet PROVE IInv'
  OBVIOUS
<1>2. PICK d \in ClockSteps :
         wall' = wall + d /\ shift' = IF collecting THEN shift + d ELSE shift
  BY <1>1 DEF WallClockSet
<1>3. /\ process = "serving" /\ UNCHANGED <<input, config, process>>
      /\ UNCHANGED <<now, collecting, started, ticks, nextTick, report, begun>>
  BY <1>1 DEF WallClockSet
<1>4. d \in Int
  BY ScheduleAssumption
<1>5. Types'
  <2>1. wall' \in Int /\ shift' \in Int
    <3>1. wall \in Int /\ shift \in Int
      BY <1>1, TypesNumbers DEF IInv, Numbers
    <3> QED
      BY <1>2, <1>4, <3>1
  <2> QED
    BY <1>1, <1>3, <2>1 DEF IInv, Types
<1>6. ASSUME NEW I \in Positive, NEW B \in Positive, Timely(I, B)
      PROVE  Timely(I, B)'
  <2>1. UNCHANGED <<now, collecting, started, ticks, nextTick, report, begun>> /\ Numbers
    BY <1>1, <1>3, TypesNumbers DEF IInv
  <2>2. Begun' /\ InTime(I, B)' /\ Paced(I)'
    BY <1>6, <2>1 DEF Timely, Begun, InTime, Paced
  <2>3. Measured(B)'
    BY <1>2, <1>4, <1>6, <2>1 DEF Timely, Begun, Measured, Numbers, None
  <2> QED
    BY <2>2, <2>3 DEF Timely
<1> QED
  BY <1>1, <1>3, <1>5, <1>6, TimelyStep

\* The invariant holds of every state.
THEOREM ScheduleInvariant == Spec => []IInv
<1>1. IInv /\ [Next]_vars => IInv'
  <2>1. SUFFICES ASSUME IInv, [Next]_vars PROVE IInv'
    OBVIOUS
  <2>2. CASE UNCHANGED vars
    <3>1. UNCHANGED <<input, config, process, now, wall, collecting, started, ticks,
                      nextTick, report, begun, shift>>
      BY <2>2 DEF vars, clockVars, workerVars
    <3>2. Types' /\ Configured' /\ Waiting'
      BY <2>1, <3>1 DEF IInv, Types, Configured, Waiting, KeptSettings
    <3>3. Timely(Interval, CollectionBound)' = Timely(Interval, CollectionBound)
      BY <3>1 DEF Timely, Begun, InTime, Paced, Measured, Interval, CollectionBound,
                  MaxCommands
    <3> QED
      BY <2>1, <3>1, <3>2, <3>3 DEF IInv
  <2> QED
    BY <2>1, <2>2, ParseStep, StartStep, TickStep, BeginStep, EndStep, TimeStep, ClockStep
       DEF Next
<1> QED
  BY <1>1, InvInit, PTL DEF Spec

-----------------------------------------------------------------------------
(* What follows. *)

\* Every variable of main, the worker and the clocks keeps its type.
THEOREM ScheduleHasTypes == Spec => []TypeOK
<1>1. ASSUME IInv PROVE TypeOK
  <2>1. /\ process \in {"parsing", "exit 2", "parsed", "exit 1", "panicked", "serving"}
        /\ wall \in Int /\ collecting \in BOOLEAN /\ ticks \in {0, 1}
        /\ nextTick \in Nat \union {None}
    BY <1>1 DEF IInv, Types, Moments
  <2>2. now \in 0 .. MaxTime
    <3>1. now \in Nat /\ now <= MaxTime /\ MaxTime \in Nat
      BY <1>1, ScheduleAssumption DEF IInv, Types
    <3> QED
      BY <3>1
  <2>3. config = Error \/ DOMAIN config \in {Settings, KeptSettings}
    <3>1. process = "parsed" => DOMAIN config = Settings
      BY <1>1, ArgumentsParsed, ParsedConfigMeans DEF IInv, Configured
    <3> QED
      BY <1>1, <2>1, <3>1 DEF IInv, Configured
  <2> QED
    BY <2>1, <2>2, <2>3 DEF TypeOK
<1> QED
  BY <1>1, ScheduleInvariant, PTL

\* A flag wins over the file and the file over the default, setting by setting.
THEOREM SettingsHavePrecedence == Spec => []Precedence
<1>1. IInv => Precedence
  BY ConfiguredPrecedence DEF IInv
<1> QED
  BY <1>1, ScheduleInvariant, PTL

\* Nothing the flags say makes up for a file that is wrong.
THEOREM BadFilesAreFatal == Spec => []BadFileIsFatal
<1>1. IInv => BadFileIsFatal
  BY ConfiguredFile DEF IInv
<1> QED
  BY <1>1, ScheduleInvariant, PTL

\* Every accepted setting is sound, and the handler does not refuse its path.
THEOREM AcceptedConfigurationsRun == Spec => []AcceptedRuns
<1>1. IInv => AcceptedRuns
  BY ConfiguredRuns DEF IInv
<1> QED
  BY <1>1, ScheduleInvariant, PTL

\* No report gets older than an interval and a collection.
THEOREM ReportsAreFresh == Spec => []BoundedStaleness
<1>1. ASSUME IInv, report.at # None
      PROVE  now - report.at <= config["Interval"] + CollectionBound
  <2>1. process = "serving"
    BY <1>1 DEF IInv, Waiting, NoReport
  <2>2. PICK I \in Positive, B \in Positive :
           I = Interval /\ B = CollectionBound /\ I = config["Interval"]
    BY <1>1, <2>1, Pace DEF IInv
  <2>3. Timely(I, B) /\ Numbers
    BY <1>1, <2>1, <2>2, TypesNumbers DEF IInv
  <2>4. now - report.at <= I + B
    BY <1>1, <2>3 DEF Timely, Begun, InTime, Numbers, None, Positive
  <2> QED
    BY <2>2, <2>4
<1>2. IInv => BoundedStaleness
  BY <1>1 DEF BoundedStaleness
<1> QED
  BY <1>2, ScheduleInvariant, PTL

\* Of any three collections in a row the last begins an interval after the first.
THEOREM TicksDoNotPileUp == Spec => []NoBurst
<1>1. ASSUME IInv, begun[3] # None PROVE begun[1] - begun[3] >= Interval
  <2>1. process = "serving"
    BY <1>1 DEF IInv, Waiting
  <2>2. PICK I \in Positive, B \in Positive : I = Interval /\ B = CollectionBound
    BY <1>1, <2>1, Pace DEF IInv
  <2>3. Timely(I, B) /\ Numbers
    BY <1>1, <2>1, <2>2, TypesNumbers DEF IInv
  <2>4. begun[1] - begun[3] >= I
    BY <1>1, <2>3 DEF Timely, Paced, Numbers, Positive
  <2> QED
    BY <2>2, <2>4
<1>2. IInv => NoBurst
  BY <1>1 DEF NoBurst
<1> QED
  BY <1>2, ScheduleInvariant, PTL

\* Unless the wall clock is set meanwhile, the duration reported for a
\* collection is the one it took, and within the bound.
THEOREM ReportsDescribeTheRun == Spec => []ReportDescribesRun
<1>1. ASSUME IInv, report.at # None, report.shift = 0
      PROVE  /\ report.duration \in 0 .. CollectionBound
             /\ ~collecting => report.duration = report.at - begun[1]
  <2>1. process = "serving"
    BY <1>1 DEF IInv, Waiting, NoReport
  <2>2. PICK I \in Positive, B \in Positive : I = Interval /\ B = CollectionBound
    BY <1>1, <2>1, Pace DEF IInv
  <2>3. Timely(I, B) /\ Numbers
    BY <1>1, <2>1, <2>2, TypesNumbers DEF IInv
  <2>4. report.duration \in 0 .. B /\ (~collecting => report.duration = report.at - begun[1])
    BY <1>1, <2>3 DEF Timely, Measured, Numbers, Positive
  <2> QED
    BY <2>2, <2>4
<1>2. IInv => ReportDescribesRun
  BY <1>1 DEF ReportDescribesRun
<1> QED
  BY <1>2, ScheduleInvariant, PTL
=============================================================================
