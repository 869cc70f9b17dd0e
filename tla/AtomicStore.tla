---------------------------- MODULE AtomicStore ----------------------------
(***************************************************************************)
(* What Store promises those who call it from several goroutines: each of  *)
(* its methods takes effect at one instant.  Runs of the worker are        *)
(* numbered; of a Status only the run it reports and whether its           *)
(* inspection is up are told apart, of a snapshot the run it is from.      *)
(***************************************************************************)
EXTENDS JobSampleHistograms

CONSTANTS
    Readers,      \* goroutines that read: scrapes, the readiness probe
    Inspections,  \* the inspected jobs a run may publish
    Nil

Methods == {"Status", "JobSampleHistograms", "Snapshot"}

VARIABLES
    content,  \* the guarded fields
    asked,    \* the method each reader is in, or Nil
    answer    \* what its last call of each method returned

storeVars == <<content, asked, answer>>

\* What UpdateSuccess writes; jobs is Nil when there is no inspection.
Published(c, jobs) ==
    LET run == c.run + 1 IN
    [run        |-> run,
     snapshot   |-> run,
     inspected  |-> jobs # Nil,
     histograms |-> IF jobs = Nil THEN c.histograms
                    ELSE ObserveJobs(c.histograms, jobs)]

\* What Clear writes.
Cleared(c) ==
    [run |-> c.run + 1, snapshot |-> Nil, inspected |-> FALSE,
     histograms |-> c.histograms]

\* What each reading method returns of a content.
Part(c, method) ==
    CASE method = "Status"              -> [run |-> c.run, inspected |-> c.inspected]
      [] method = "JobSampleHistograms" -> c.histograms
      [] method = "Snapshot"            -> c.snapshot

NewContent == [run |-> 0, snapshot |-> Nil, inspected |-> FALSE,
               histograms |-> NewHistograms]

AtomicInit ==
    /\ content = NewContent
    /\ asked = [r \in Readers |-> Nil]
    /\ answer = [r \in Readers |-> [method \in Methods |-> Part(NewContent, method)]]

AtomicWrite ==
    /\ content' \in {Cleared(content)} \union
                    {Published(content, jobs) : jobs \in Inspections \union {Nil}}
    /\ UNCHANGED <<asked, answer>>

AtomicCall(r) ==
    /\ asked[r] = Nil
    /\ \E method \in Methods : asked' = [asked EXCEPT ![r] = method]
    /\ UNCHANGED <<content, answer>>

AtomicReturn(r) ==
    /\ asked[r] # Nil
    /\ answer' = [answer EXCEPT ![r][asked[r]] = Part(content, asked[r])]
    /\ asked' = [asked EXCEPT ![r] = Nil]
    /\ UNCHANGED content

AtomicNext ==
    \/ AtomicWrite
    \/ \E r \in Readers : AtomicCall(r) \/ AtomicReturn(r)

\* A method of Store is one step, and a call returns what it found at once.
AtomicSpec == AtomicInit /\ [][AtomicNext]_storeVars
=============================================================================
