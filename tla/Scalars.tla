------------------------------ MODULE Scalars -------------------------------
(***************************************************************************)
(* What PBS writes as values, and what the parsers make of it.  A scalar   *)
(* is the set of its text, empty when the answer leaves it out or gives    *)
(* null, and an optional value the set of its value.  The form of a text   *)
(* says how the parser of its field takes it: "plain" for a number in the  *)
(* spelling of PBS, "other" for one the parser reads but PBS does not      *)
(* write (0:00:00, 0.0kb), "none" for what is no number to that parser.    *)
(* Numbers are naturals.                                                   *)
(***************************************************************************)
EXTENDS SequencesExt, Integers

OptionalNumber(scalar) == {text.value : text \in {t \in scalar : t.form # "none"}}

\* Bytes and durations: zero counts only in the spelling of PBS.
OptionalQuantity(scalar) ==
    {text.value : text \in {t \in scalar : t.form = "plain" \/ (t.form = "other" /\ t.value # 0)}}

\* The zero value of Go stands for a value that is not set.
ValueOrZero(optional) == IF optional = {} THEN 0 ELSE CHOOSE value \in optional : TRUE

\* The first of the texts that is not blank.
FirstText(texts, blank) ==
    LET given == {i \in DOMAIN texts : texts[i] # blank}
    IN  IF given = {} THEN blank ELSE texts[Min(given)]

\* The first of the scalars that is a duration.
FirstDuration(scalars) ==
    ValueOrZero(FirstText([i \in DOMAIN scalars |-> OptionalQuantity(scalars[i])], {}))

FirstPositive(scalars) ==
    ValueOrZero(FirstText([i \in DOMAIN scalars |-> OptionalNumber(scalars[i]) \ {0}], {}))

\* PBS gives its records under either of two keys.
Records(map, other) == IF DOMAIN map # {} THEN map ELSE other

-----------------------------------------------------------------------------
(* Counts by name, "Transit:0 Queued:1": the sequence of the names with    *)
(* their optional numbers.                                                 *)

\* Faulty: a part that is no number ends the list.
CountsUpToFirstError(parts) ==
    LET errors == {i \in DOMAIN parts : parts[i][2] = {}}
        valid  == {i \in DOMAIN parts : \A e \in errors : i < e}
    IN  [name \in {parts[i][1] : i \in valid} |->
            ValueOrZero(parts[CHOOSE i \in valid : /\ parts[i][1] = name
                                                   /\ \A j \in valid : parts[j][1] = name => j <= i][2])]

\* The last valid part of each name.
ParseNamedCounts(parts) ==
    LET valid == {i \in DOMAIN parts : parts[i][2] # {}}
    IN  [name \in {parts[i][1] : i \in valid} |->
            ValueOrZero(parts[CHOOSE i \in valid : /\ parts[i][1] = name
                                                   /\ \A j \in valid : parts[j][1] = name => j <= i][2])]
=============================================================================
