------------------------- MODULE SnapshotCollector -------------------------
(***************************************************************************)
(* The SnapshotCollector interface as a specification: one collection at a *)
(* time, begun by the worker; each answers what CollectorContract allows,  *)
(* with a stamp taken between its beginning and its end.  The clock here   *)
(* counts moments; what the wall clock says at each is up to Exporter.     *)
(***************************************************************************)
EXTENDS CollectorContract

VARIABLES
    clock,      \* the clock
    cancelled,  \* the context the worker passes to Collect is done
    call        \* the current collection, or the last one and its answer

callVars == <<clock, cancelled, call>>

Collecting == call.phase = "collecting"

CallInit ==
    /\ clock = 1
    /\ cancelled = FALSE
    /\ call = [phase |-> "idle", started |-> NoTime, doomed |-> FALSE,
               returned |-> Failed]

TimePasses ==
    /\ clock' \in Nat
    /\ clock' > clock
    /\ UNCHANGED <<cancelled, call>>

ContextDone ==
    /\ ~cancelled
    /\ cancelled' = TRUE
    /\ UNCHANGED <<clock, call>>

Collect ==
    /\ ~Collecting
    /\ call' = [phase |-> "collecting", started |-> clock, doomed |-> cancelled,
                returned |-> Failed]
    /\ UNCHANGED <<clock, cancelled>>

CollectAnswers ==
    /\ Collecting
    /\ \E stamp \in call.started .. clock :
          \E answer \in CollectReturns(stamp, call.doomed) :
             call' = [phase |-> "idle", started |-> call.started,
                      doomed |-> call.doomed, returned |-> answer]
    /\ UNCHANGED <<clock, cancelled>>

CallNext == TimePasses \/ ContextDone \/ Collect \/ CollectAnswers

\* Every collection ends with an answer of its contract (worker.go:12-14).
CallSpec == CallInit /\ [][CallNext]_callVars
=============================================================================
