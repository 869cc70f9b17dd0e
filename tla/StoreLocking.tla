---------------------------- MODULE StoreLocking ----------------------------
(***************************************************************************)
(* The methods of Store, assignment by assignment, under its RWMutex.  The *)
(* one writer is the worker; the readers are scrapes and the readiness     *)
(* probe, which call the reading methods at any time.  The lock is Go's: a *)
(* writer waits for the readers inside, readers that come while a writer   *)
(* waits or writes wait for it, and Unlock lets all of them in before the  *)
(* next Lock succeeds.  AtomicStore is what this is shown to implement.    *)
(***************************************************************************)
EXTENDS JobSampleHistograms

CONSTANTS
    Readers,
    Inspections,
    Nil,
    MaxWrites     \* bound: how many runs the worker publishes

VARIABLES
    run,         \* the run the base fields of Status report
    snapshot,    \* the run the snapshot is from, or Nil
    inspected,   \* JobInspectionUp
    histograms,
    wpc,         \* where the worker is in UpdateSuccess or Clear
    op,          \* its argument: whether it succeeded, and the jobs inspected
    pending,     \* inspected jobs not observed yet, the first perhaps in part
    field,       \* the next field of the first of them
    rpc,         \* where each reader is
    method,      \* which method it calls
    got,         \* what it has read so far
    answer,      \* what its last call of each method returned
    before,      \* history: the content when the worker took the lock
    ledger       \* history: the jobs of every inspection published

memory == <<run, snapshot, inspected, histograms>>
writerVars == <<wpc, op, pending, field, before, ledger>>
readerVars == <<rpc, method, got, answer>>
vars == <<memory, writerVars, readerVars>>

Content == [run |-> run, snapshot |-> snapshot, inspected |-> inspected,
            histograms |-> histograms]

-----------------------------------------------------------------------------
Methods == {"Status", "JobSampleHistograms", "Snapshot"}

ASSUME LockingAssumption ==
    /\ Inspections \subseteq Seq(InspectedJobs)
    /\ Nil \notin Inspections /\ Nil \notin Methods
    /\ MaxWrites \in Nat

\* The words a method reads, in their order, and their present values.
Words(m) ==
    CASE m = "Status"              -> <<run, inspected>>
      [] m = "JobSampleHistograms" -> [i \in DOMAIN FieldOrder |-> histograms[FieldOrder[i]]]
      [] m = "Snapshot"            -> <<snapshot>>

\* What it returns, from the words it has read.
Assembled(m, words) ==
    CASE m = "Status"              -> [run |-> words[1], inspected |-> words[2]]
      [] m = "JobSampleHistograms" ->
            [f \in Fields |-> words[CHOOSE i \in DOMAIN FieldOrder : FieldOrder[i] = f]]
      [] m = "Snapshot"            -> words[1]

Init ==
    /\ run = 0
    /\ snapshot = Nil
    /\ inspected = FALSE
    /\ histograms = NewHistograms
    /\ wpc = "idle"
    /\ op = [success |-> FALSE, jobs |-> Nil]
    /\ pending = <<>>
    /\ field = 1
    /\ rpc = [r \in Readers |-> "idle"]
    /\ method = [r \in Readers |-> Nil]
    /\ got = [r \in Readers |-> <<>>]
    /\ answer = [r \in Readers |-> [m \in Methods |-> Assembled(m, Words(m))]]
    /\ before = Content
    /\ ledger = <<>>

-----------------------------------------------------------------------------
(* The worker. *)

CallWrite ==
    /\ wpc = "idle"
    /\ run < MaxWrites
    /\ op' \in {[success |-> FALSE, jobs |-> Nil]} \union
               {[success |-> TRUE, jobs |-> jobs] : jobs \in Inspections \union {Nil}}
    /\ wpc' = "locking"
    /\ UNCHANGED <<memory, pending, field, before, ledger, readerVars>>

\* Faulty: the readers inside are not waited for.
LockRegardless ==
    /\ wpc = "locking"
    /\ wpc' = "snapshot"
    /\ before' = Content
    /\ UNCHANGED <<memory, op, pending, field, ledger, readerVars>>

\* s.mu.Lock()
Lock ==
    /\ wpc = "locking"
    /\ \A r \in Readers : rpc[r] # "reading"
    /\ wpc' = "snapshot"
    /\ before' = Content
    /\ UNCHANGED <<memory, op, pending, field, ledger, readerVars>>

\* s.snapshot = snapshot, or nil
WriteSnapshot ==
    /\ wpc = "snapshot"
    /\ snapshot' = IF op.success THEN run + 1 ELSE Nil
    /\ wpc' = "base"
    /\ UNCHANGED <<run, inspected, histograms, op, pending, field, before,
                   ledger, readerVars>>

\* The fields of Status both methods set, Up to LastError.
WriteBase ==
    /\ wpc = "base"
    /\ run' = run + 1
    /\ wpc' = "inspection"
    /\ UNCHANGED <<snapshot, inspected, histograms, op, pending, field, before,
                   ledger, readerVars>>

\* applyJobInspectionResult, and in Clear JobInspectionUp = false
WriteInspection ==
    /\ wpc = "inspection"
    /\ inspected' = (op.jobs # Nil)
    /\ pending' = IF op.jobs = Nil THEN <<>> ELSE op.jobs
    /\ field' = 1
    /\ wpc' = "observing"
    /\ UNCHANGED <<run, snapshot, histograms, op, before, ledger, readerVars>>

\* applyJobSampleHistograms: a job that does not run is passed over, of the
\* others one field is observed at a time, in place.
SkipJob ==
    /\ wpc = "observing"
    /\ pending # <<>>
    /\ Head(pending).JobState # "R"
    /\ pending' = Tail(pending)
    /\ UNCHANGED <<memory, wpc, op, field, before, ledger, readerVars>>

\* Faulty: the next job begins with the field after the last one.
ObserveFieldOn ==
    /\ wpc = "observing"
    /\ pending # <<>>
    /\ Head(pending).JobState = "R"
    /\ LET f == FieldOrder[field] IN
       histograms' = [histograms EXCEPT ![f] =
                         ObserveOptional(@, Head(pending).Requested[f])]
    /\ field' = field + 1
    /\ IF field = Len(FieldOrder) THEN pending' = Tail(pending) ELSE UNCHANGED pending
    /\ UNCHANGED <<run, snapshot, inspected, wpc, op, before, ledger, readerVars>>

ObserveField ==
    /\ wpc = "observing"
    /\ pending # <<>>
    /\ Head(pending).JobState = "R"
    /\ LET f == FieldOrder[field] IN
       histograms' = [histograms EXCEPT ![f] =
                         ObserveOptional(@, Head(pending).Requested[f])]
    /\ IF field = Len(FieldOrder)
       THEN field' = 1 /\ pending' = Tail(pending)
       ELSE field' = field + 1 /\ UNCHANGED pending
    /\ UNCHANGED <<run, snapshot, inspected, wpc, op, before, ledger, readerVars>>

\* Faulty: Unlock lets nobody in.
UnlockAlone ==
    /\ wpc = "observing"
    /\ pending = <<>>
    /\ wpc' = "idle"
    /\ ledger' = IF op.jobs = Nil THEN ledger ELSE ledger \o op.jobs
    /\ UNCHANGED <<memory, op, pending, field, before, readerVars>>

\* The deferred s.mu.Unlock() lets in the readers that wait.
Unlock ==
    /\ wpc = "observing"
    /\ pending = <<>>
    /\ wpc' = "idle"
    /\ rpc' = [r \in Readers |-> IF rpc[r] = "waiting" THEN "reading" ELSE rpc[r]]
    /\ ledger' = IF op.jobs = Nil THEN ledger ELSE ledger \o op.jobs
    /\ UNCHANGED <<memory, op, pending, field, before, method, got, answer>>

-----------------------------------------------------------------------------
(* The readers. *)

\* Faulty: readers overtake a writer that waits.
RLockOvertakes(r) ==
    /\ rpc[r] = "idle"
    /\ method' \in {[method EXCEPT ![r] = m] : m \in Methods}
    /\ rpc' = [rpc EXCEPT ![r] = IF wpc \in {"idle", "locking"} THEN "reading" ELSE "waiting"]
    /\ UNCHANGED <<memory, writerVars, got, answer>>

\* s.mu.RLock()
RLock(r) ==
    /\ rpc[r] = "idle"
    /\ method' \in {[method EXCEPT ![r] = m] : m \in Methods}
    /\ rpc' = [rpc EXCEPT ![r] = IF wpc = "idle" THEN "reading" ELSE "waiting"]
    /\ UNCHANGED <<memory, writerVars, got, answer>>

ReadWord(r) ==
    /\ rpc[r] = "reading"
    /\ Len(got[r]) < Len(Words(method[r]))
    /\ got' = [got EXCEPT ![r] = Append(@, Words(method[r])[Len(@) + 1])]
    /\ UNCHANGED <<memory, writerVars, rpc, method, answer>>

\* The deferred s.mu.RUnlock(): the method returns.
RUnlock(r) ==
    /\ rpc[r] = "reading"
    /\ Len(got[r]) = Len(Words(method[r]))
    /\ answer' = [answer EXCEPT ![r][method[r]] = Assembled(method[r], got[r])]
    /\ rpc' = [rpc EXCEPT ![r] = "idle"]
    /\ method' = [method EXCEPT ![r] = Nil]
    /\ got' = [got EXCEPT ![r] = <<>>]
    /\ UNCHANGED <<memory, writerVars>>

-----------------------------------------------------------------------------
Write == \/ Lock
         \/ WriteSnapshot
         \/ WriteBase
         \/ WriteInspection
         \/ SkipJob
         \/ ObserveField
         \/ Unlock

Next ==
    \/ CallWrite
    \/ Write
    \/ \E r \in Readers : RLock(r)
    \/ \E r \in Readers : ReadWord(r)
    \/ \E r \in Readers : RUnlock(r)

Spec == Init /\ [][Next]_vars

(***************************************************************************)
(* Go runs the goroutine that can run, and the lock hands over as said     *)
(* above.  Nobody has to call a method.                                    *)
(***************************************************************************)
FairSpec ==
    /\ Spec
    /\ WF_vars(Write)
    /\ \A r \in Readers : WF_vars(ReadWord(r) \/ RUnlock(r))

-----------------------------------------------------------------------------
(* Properties. *)

Holding == wpc \notin {"idle", "locking"}

\* Every variable keeps its type; field is one of the fields observed in turn
\* (job_sample_histograms.go:110-115).
TypeOK ==
    /\ run \in Nat
    /\ snapshot \in Nat \union {Nil}
    /\ inspected \in BOOLEAN
    /\ histograms = [f \in Fields |-> histograms[f]]
    /\ \A f \in Fields : histograms[f] \in Accumulators(f)
    /\ wpc \in {"idle", "locking", "snapshot", "base", "inspection", "observing"}
    /\ field \in DOMAIN FieldOrder
    /\ rpc \in [Readers -> {"idle", "waiting", "reading"}]
    /\ method \in [Readers -> Methods \union {Nil}]

\* The fields under the lock, as those outside see them.
Atomic == INSTANCE AtomicStore WITH
    content <- IF Holding THEN before ELSE Content,
    asked   <- method

\* Although Status, snapshot and histograms are written one after the other and
\* copied piece by piece, every method takes effect at one instant: no reader
\* gets a Status of two runs, or histograms in which a job counts in part
\* (store.go:41-71, 102-121).
MethodsAreAtomic == Atomic!AtomicSpec

Samples(jobs, f) ==
    {i \in DOMAIN jobs : jobs[i].JobState = "R" /\ jobs[i].Requested[f] # Unset}

\* What field f of these jobs amounts to.
Tally(jobs, f) ==
    LET samples == Samples(jobs, f)
        sum[n \in 0 .. Len(jobs)] ==
            IF n = 0 THEN 0
            ELSE sum[n - 1] + (IF n \in samples THEN jobs[n].Requested[f] ELSE 0)
    IN  [counts |-> [b \in Buckets[f] |->
                        Cardinality({i \in samples : jobs[i].Requested[f] <= b})],
         count  |-> Cardinality(samples),
         sum    |-> sum[Len(jobs)]]

\* The histograms are those of the samples: each running job of each published
\* inspection, in each field it sets, is in every bucket at or above its value,
\* in the count and in the sum, once, whatever failed in between
\* (job_sample_histograms.go:53-61, 100-140).
HistogramsMatchSamples ==
    ~Holding => \A f \in Fields : histograms[f] = Tally(ledger, f)

\* Scrapes, however many and however often, do not keep the worker from
\* publishing.
PublicationCompletes == wpc # "idle" ~> wpc = "idle"

\* The worker, however often it publishes, does not keep a scrape waiting.
ReaderServed == \A r \in Readers : rpc[r] # "idle" ~> rpc[r] = "idle"
=============================================================================
