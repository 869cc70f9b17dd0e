----------------------------- MODULE MCExporter -----------------------------
(***************************************************************************)
(* Small instances of Exporter for TLC: see the configurations.            *)
(***************************************************************************)
EXTENDS Exporter

\* An inspection finds two jobs running.
SomeRunning == {2}

\* The clock moves between any two readings of it.
StrictDelays == {1}

\* Somebody sets the clock to before the process began.
BeforeStart == {1}

\* Nobody sets the clock.
Never == {}

\* All readings of the clock coincide.
NoDelays == {0}
=============================================================================
