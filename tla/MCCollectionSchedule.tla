------------------------ MODULE MCCollectionSchedule -------------------------
(***************************************************************************)
(* Small instances of CollectionSchedule for TLC.                          *)
(***************************************************************************)
EXTENDS CollectionSchedule

SmallDefaults == [cpu |-> <<1, 2>>, walltime |-> <<3, 6>>]

\* 5 comes out of formatDurationBuckets as 4.
SomeLossy == {5}

SomePaths == {Path(TRUE, "custom", TRUE), Path(TRUE, "", TRUE), Path(FALSE, "", TRUE),
              Path(TRUE, "-/ready", TRUE), Path(TRUE, "a b", FALSE)}
SomeNumbers == {<<>>, <<1>>, <<2, 2>>, <<0>>, <<Bad>>, <<NaN>>, <<1, NaN>>, <<3, NaN, 1>>}
SomeDurations == {<<4, 5>>, <<5>>, <<7, 3>>, <<1, Bad>>, <<NaN>>}

Choices ==
    [Interval |-> {-1, 0, 1, 3, Bad}, Timeout |-> {0, 1, Bad}, TelemetryPath |-> SomePaths,
     BinaryDir |-> {"bin"}, IncludeUserMetrics |-> BOOLEAN,
     IncludeJobInspectionMetrics |-> BOOLEAN, IncludeJobSampleHistograms |-> BOOLEAN,
     cpu |-> SomeNumbers, walltime |-> SomeDurations]

SomeSteps == {-3, 2}

NothingSet == [s \in Settings |-> Unset]
With(s, value) == [NothingSet EXCEPT ![s] = value]

OneSet == {NothingSet} \union UNION {{With(s, value) : value \in Choices[s]} : s \in Settings}

Files ==
    {[status |-> status, values |-> NothingSet] : status \in {"missing", "malformed"}}
    \union {[status |-> "ok", values |-> values] : values \in OneSet}

Flag(name, value, form) == <<name, form, value>>

\* An empty list on the command line is one bad item.
FlagTexts(s) == IF s \in Lists THEN Choices[s] \ {<<>>} ELSE Choices[s]

OneFlag == {<<>>, <<Flag("unknown", "", "joined")>>, <<Flag("BinaryDir", Unset, "separate")>>}
           \union UNION {{<<Flag(s, value, form)>> :
                             value \in FlagTexts(s), form \in {"joined", "expanded"}} :
                         s \in Settings}

NoFiles == [f \in {} |-> Unset]
FileFlags == {<<Flag("config.file", "f", form)>> : form \in {"joined", "separate", "expanded"}}
             \union {<<Flag("config.file", Unset, "separate")>>,
                     <<Flag("config.file", "f", "joined"), Flag("config.file", "g", "joined")>>}

\* A flag or none, with or without a file; two flags of every good kind.
SomeInputs ==
    {[args |-> args, files |-> NoFiles] : args \in OneFlag}
    \union {[args |-> named \o args,
             files |-> [f |-> file, g |-> [status |-> "ok", values |-> NothingSet]]] :
               named \in FileFlags, args \in OneFlag, file \in Files}
    \union {[args |-> <<Flag("Interval", i, "joined"), Flag("Timeout", t, "joined")>>,
             files |-> NoFiles] : i \in {2, 3, 5}, t \in {1, 2}}
=============================================================================
