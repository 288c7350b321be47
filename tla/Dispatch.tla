------------------------------ MODULE Dispatch ------------------------------
(***************************************************************************)
(* The progressive dispatch of one service request, as written in          *)
(* apps/api/src/matching: a match is opened for the request, a small batch *)
(* of providers is contacted, a delayed BullMQ job is the "wait", and each *)
(* job runs the next batch, until the match is EXHAUSTED or CANCELLED.     *)
(*                                                                         *)
(* Every HTTP handler and every queue worker is a process that advances    *)
(* one database or queue call at a time (one await of the source), working *)
(* on documents it loaded earlier.  MongoDB and Redis calls are atomic;    *)
(* nothing makes two of them atomic together.                              *)
(***************************************************************************)
EXTENDS Documents, Integers, FiniteSets

CONSTANTS
    Providers,      \* provider profiles of the catalog
    Distance,       \* Distance[q]: km from q's nearest service area centre
    Handlers,       \* concurrent HTTP requests being served
    Workers,        \* BullMQ workers, one per api replica
    MaxBatches,     \* config.maxBatchesPerMatch
    BatchSize,      \* config.batchSize (or urgentBatchSize)
    DefaultRadius,  \* config.defaultRadiusKm
    MaxRadius,      \* config.maxRadiusKm
    RadiusStep,     \* config.radiusExpansionStepKm
    RadiusInputs,   \* radii a client may ask for in expandRadius
    Operations,     \* the calls the environment makes in this instance
    MaxFaults       \* bound on crashes and failed database calls

AllOperations == {"auto", "direct", "expand", "cancel", "view", "decline", "lapse"}

\* The configuration contract makes the batch numbers positive integers; it
\* does not relate the default radius to the maximum, so neither do we.
ASSUME ConfigAssumption ==
    /\ MaxBatches \in Nat \ {0}
    /\ BatchSize \in Nat \ {0}
    /\ RadiusStep \in Nat \ {0}
    /\ {DefaultRadius, MaxRadius} \subseteq Nat
    /\ RadiusInputs \subseteq Nat
    /\ Distance \in [Providers -> Nat]

ASSUME InstanceAssumption ==
    /\ IsFiniteSet(Providers)
    /\ Operations \subseteq AllOperations
    /\ MaxFaults \in Nat

VARIABLES
    request,     \* status of the ServiceRequest
    match,       \* the match document, status "NONE" until it is created
    candidates,  \* match_candidates: providers contacted for this match
    batches,     \* dispatch_batches: the append-only record of each wave
    jobs,        \* jobs[n]: the job with id <match>-batch-<n>
    pc,          \* pc[p]: the call process p makes next
    base,        \* base[p]: the match document as p loaded it
    doc,         \* doc[p]: that document as p has changed it in memory
    pick,        \* pick[p]: the providers p is about to write
    job,         \* job[p]: the job p runs, 0 for an HTTP request
    faults

stored == <<request, match, candidates, batches, jobs>>
locals == <<pc, base, doc, pick, job>>
vars   == <<stored, locals, faults>>

Procs      == Handlers \cup Workers
BatchCount == 0..MaxBatches
Terminal   == {"EXHAUSTED", "CANCELLED"}

RequestStatus   == {"REQUESTED", "MATCHING", "CANCELLED"}
MatchStatus     == {"NONE", "ACTIVE"} \cup Terminal
CandidateStatus == {"NOTIFIED", "VIEWED", "DECLINED", "EXPIRED"}
JobStatus       == {"none", "delayed", "due", "active", "failed"}

\* nextBatch = n stands for the instant at which job n is due, 0 for null.
MatchDoc  == [status: MatchStatus, mode: {"AUTO", "DIRECT"}, radius: Nat,
              batchCount: BatchCount, nextBatch: BatchCount]
Candidate == [provider: Providers, batch: BatchCount,
              status: CandidateStatus, lapsed: BOOLEAN]
Batch     == [index: BatchCount, radius: Nat, providers: SUBSET Providers]

NoMatch == [status |-> "NONE", mode |-> "AUTO", radius |-> 0,
            batchCount |-> 0, nextBatch |-> 0]

Contacted == {c.provider : c \in candidates}

\* Mutant: the collection without its unique index.
NoneRefused(chosen) == {}

\* What the unique indexes refuse: a second candidacy of a provider for the
\* match, a second record of a batch index.
Refused(chosen) == chosen \cap Contacted
Recorded(n) == \E b \in batches : b.index = n

(***************************************************************************)
(* Control of a process.                                                   *)
(***************************************************************************)
Go(p, label) == /\ pc' = [pc EXCEPT ![p] = label]
                /\ UNCHANGED <<base, doc, pick, job>>

Leave(p, label) == /\ pc'   = [pc   EXCEPT ![p] = label]
                   /\ base' = [base EXCEPT ![p] = NoMatch]
                   /\ doc'  = [doc  EXCEPT ![p] = NoMatch]
                   /\ pick' = [pick EXCEPT ![p] = {}]
                   /\ UNCHANGED job

\* An HTTP request is answered; a job still has to be reported to the queue.
Return(p) == Leave(p, IF job[p] = 0 THEN "idle" ELSE "complete")
Throw(p)  == Leave(p, IF job[p] = 0 THEN "idle" ELSE "fail")

Load(p, m, label) == /\ pc'   = [pc   EXCEPT ![p] = label]
                     /\ base' = [base EXCEPT ![p] = m]
                     /\ doc'  = [doc  EXCEPT ![p] = m]
                     /\ UNCHANGED <<pick, job>>

Edit(p, d, s, label) == /\ pc'   = [pc   EXCEPT ![p] = label]
                        /\ doc'  = [doc  EXCEPT ![p] = d]
                        /\ pick' = [pick EXCEPT ![p] = s]
                        /\ UNCHANGED <<base, job>>

\* match.save() of a document loaded earlier.
Saved(p) ==
    [status     |-> SetIfModified(base[p].status, doc[p].status, match.status),
     mode       |-> match.mode,
     radius     |-> SetIfModified(base[p].radius, doc[p].radius, match.radius),
     batchCount |-> SetIfModified(base[p].batchCount, doc[p].batchCount, match.batchCount),
     nextBatch  |-> SetIfModified(base[p].nextBatch, doc[p].nextBatch, match.nextBatch)]

-----------------------------------------------------------------------------
(***************************************************************************)
(* MatchingService.start                                                   *)
(***************************************************************************)
\* The request is read.  Any other status ends in an answer that changes
\* nothing: the existing match, or REQUEST_NOT_MATCHABLE.
Start(p, mode, chosen) ==
    /\ pc[p] = "idle" /\ p \in Handlers
    /\ request = "REQUESTED"
    /\ Edit(p, [NoMatch EXCEPT !.status = "ACTIVE", !.mode = mode, !.radius = DefaultRadius],
            chosen, "create")
    /\ UNCHANGED <<stored, faults>>

StartAuto(p)   == "auto" \in Operations /\ Start(p, "AUTO", {})
\* The empty choice is a providerId no profile has.
StartDirect(p) == /\ "direct" \in Operations
                  /\ \E chosen \in {{}} \cup {{q} : q \in Providers} : Start(p, "DIRECT", chosen)

\* findOne returns the existing match, or the unique requestId index refuses
\* a second one: either way the handler ends without a trace.
CreateMatch(p) ==
    /\ pc[p] = "create"
    /\ IF match.status # "NONE"
       THEN Return(p) /\ UNCHANGED match
       ELSE /\ match' = doc[p]
            /\ pc'    = [pc   EXCEPT ![p] = "markLoad"]
            /\ base'  = [base EXCEPT ![p] = doc[p]]
            /\ UNCHANGED <<doc, pick, job>>
    /\ UNCHANGED <<request, candidates, batches, jobs, faults>>

MarkMatchingLoad(p) ==
    /\ pc[p] = "markLoad"
    /\ IF request = "REQUESTED" THEN Go(p, "markSave") ELSE Throw(p)
    /\ UNCHANGED <<stored, faults>>

AfterMark(p) == IF doc[p].mode = "DIRECT" THEN Go(p, "directInsert") ELSE Leave(p, "load")

MarkMatchingSave(p) ==
    /\ pc[p] = "markSave"
    /\ request' = "MATCHING"
    /\ AfterMark(p)
    /\ UNCHANGED <<match, candidates, batches, jobs, faults>>

NewCandidates(chosen, n) ==
    {[provider |-> q, batch |-> n, status |-> "NOTIFIED", lapsed |-> FALSE] : q \in chosen}

\* Mutant: the dispatch is counted and the match left open.
DirectCounted(d) == [d EXCEPT !.batchCount = 1]

DirectDone(d) == [d EXCEPT !.batchCount = 1, !.status = "EXHAUSTED", !.nextBatch = 0]

DirectInsert(p) ==
    /\ pc[p] = "directInsert"
    /\ IF pick[p] = {} \/ Refused(pick[p]) # {}
       THEN Throw(p) /\ UNCHANGED candidates
       ELSE /\ candidates' = candidates \cup NewCandidates(pick[p], 0)
            /\ Edit(p, DirectDone(doc[p]), {}, "directSave")
    /\ UNCHANGED <<request, match, batches, jobs, faults>>

DirectSave(p) ==
    /\ pc[p] = "directSave"
    /\ match' = Saved(p)
    /\ Return(p)
    /\ UNCHANGED <<request, candidates, batches, jobs, faults>>

-----------------------------------------------------------------------------
(***************************************************************************)
(* MatchingService.expandRadius                                            *)
(***************************************************************************)
ExpandLoad(p, input) ==
    /\ pc[p] = "idle" /\ p \in Handlers /\ "expand" \in Operations
    /\ match.status = "ACTIVE"
    /\ input > match.radius
    /\ pc'   = [pc   EXCEPT ![p] = "expandSave"]
    /\ base' = [base EXCEPT ![p] = match]
    /\ doc'  = [doc  EXCEPT ![p] =
                  [match EXCEPT !.radius = IF input < MaxRadius THEN input ELSE MaxRadius]]
    /\ UNCHANGED <<stored, pick, job, faults>>

ExpandSave(p) ==
    /\ pc[p] = "expandSave"
    /\ match' = Saved(p)
    /\ Leave(p, "load")
    /\ UNCHANGED <<request, candidates, batches, jobs, faults>>

-----------------------------------------------------------------------------
(***************************************************************************)
(* DispatchService.runBatch, called by start, by expandRadius and by the   *)
(* worker for each advance-batch job.                                      *)
(***************************************************************************)
LoadMatch(p) ==
    /\ pc[p] = "load"
    /\ IF match.status = "ACTIVE" THEN Load(p, match, "loadRequest") ELSE Return(p)
    /\ UNCHANGED <<stored, faults>>

\* terminate(): the status and the cleared timer wait for their save.
Terminated(d, status) == [d EXCEPT !.status = status, !.nextBatch = 0]

LoadRequest(p) ==
    /\ pc[p] = "loadRequest"
    /\ IF request = "MATCHING"
       THEN Go(p, "expire")
       ELSE Edit(p, Terminated(doc[p], "CANCELLED"), {}, "terminate")
    /\ UNCHANGED <<stored, faults>>

LimitReached(d) == d.batchCount >= MaxBatches

\* expireStaleCandidates, then the configured limit on batches.
ExpireStale(p) ==
    /\ pc[p] = "expire"
    /\ candidates' = {IF c.status = "NOTIFIED" /\ c.lapsed THEN [c EXCEPT !.status = "EXPIRED"] ELSE c
                      : c \in candidates}
    /\ IF LimitReached(doc[p])
       THEN Edit(p, Terminated(doc[p], "EXHAUSTED"), {}, "terminate")
       ELSE Go(p, "select")
    /\ UNCHANGED <<request, match, batches, jobs, faults>>

\* The radii the widening loop of selectNextBatch tries, and the last one.
Rungs(r)   == {r} \cup {s \in r..MaxRadius : s = MaxRadius \/ (s - r) % RadiusStep = 0}
TopRung(r) == IF r >= MaxRadius THEN r ELSE MaxRadius

\* Mutant: everyone in range at once.
AnySize(chosen) == chosen # {}

FitsBatch(chosen) == chosen # {} /\ Cardinality(chosen) <= BatchSize

\* Which providers each query finds available, verified and skilled is up to
\* them; ranking picks at most BatchSize of those the radius reaches.
SelectNextBatch(p) ==
    /\ pc[p] = "select"
    /\ \/ \E r \in Rungs(doc[p].radius) :
            \E chosen \in SUBSET {q \in Providers \ Contacted : Distance[q] <= r} :
              /\ FitsBatch(chosen)
              /\ Edit(p, [doc[p] EXCEPT !.radius = r], chosen, "insert")
       \/ Edit(p, Terminated([doc[p] EXCEPT !.radius = TopRung(doc[p].radius)], "EXHAUSTED"),
               {}, "terminate")
    /\ UNCHANGED <<stored, faults>>

\* match.batchCount and match.nextBatchAt, set once the batch is recorded.
Counted(d) == [d EXCEPT !.batchCount = d.batchCount + 1, !.nextBatch = d.batchCount + 1]

\* Mutant: the batch is counted and not recorded.
CountUnrecorded(p) == Edit(p, Counted(doc[p]), {}, "save")

AfterInsert(p) == IF Refused(pick[p]) = {} THEN Go(p, "record") ELSE Throw(p)

\* insertMany, unordered: the providers already contacted for this match are
\* refused by the unique index, the others are written, and the call throws.
InsertCandidates(p) ==
    /\ pc[p] = "insert"
    /\ candidates' = candidates \cup NewCandidates(pick[p] \ Refused(pick[p]), doc[p].batchCount)
    /\ AfterInsert(p)
    /\ UNCHANGED <<request, match, batches, jobs, faults>>

\* The unique (matchId, index) index admits one record per index.
CreateBatch(p) ==
    /\ pc[p] = "record"
    /\ IF Recorded(doc[p].batchCount)
       THEN Throw(p) /\ UNCHANGED batches
       ELSE /\ batches' = batches \cup
                  {[index |-> doc[p].batchCount, radius |-> doc[p].radius, providers |-> pick[p]]}
            /\ Edit(p, Counted(doc[p]), {}, "save")
    /\ UNCHANGED <<request, match, candidates, jobs, faults>>

SaveMatch(p) ==
    /\ pc[p] = "save"
    /\ match' = Saved(p)
    /\ Go(p, "schedule")
    /\ UNCHANGED <<request, candidates, batches, jobs, faults>>

Terminate(p) ==
    /\ pc[p] = "terminate"
    /\ match' = Saved(p)
    /\ Return(p)
    /\ UNCHANGED <<request, candidates, batches, jobs, faults>>

\* Mutant: one job id per match.
OneJobPerMatch(n) == 1

\* advanceBatchJobId: the job of batch n of this match.
AdvanceBatchJob(n) == n

\* queue.add with a job id: nothing happens while a job with that id exists.
ScheduleNextBatch(p) ==
    /\ pc[p] = "schedule"
    /\ jobs' = [jobs EXCEPT ![AdvanceBatchJob(doc[p].batchCount)] = IF @ = "none" THEN "delayed" ELSE @]
    /\ Return(p)
    /\ UNCHANGED <<request, match, candidates, batches, faults>>

-----------------------------------------------------------------------------
(***************************************************************************)
(* The queue: the delay of a job elapses, a worker takes it, runs runBatch *)
(* and reports the outcome.  A job has one attempt (BullMQ's default); a   *)
(* completed job is removed, a failed one keeps its id.                    *)
(***************************************************************************)
JobDue(n) ==
    /\ jobs[n] = "delayed"
    /\ jobs' = [jobs EXCEPT ![n] = "due"]
    /\ UNCHANGED <<request, match, candidates, batches, locals, faults>>

TakeJob(p, n) ==
    /\ pc[p] = "idle" /\ p \in Workers
    /\ jobs[n] = "due"
    /\ jobs' = [jobs EXCEPT ![n] = "active"]
    /\ job'  = [job  EXCEPT ![p] = n]
    /\ pc'   = [pc   EXCEPT ![p] = "load"]
    /\ UNCHANGED <<request, match, candidates, batches, base, doc, pick, faults>>

SettleJob(p) ==
    /\ pc[p] \in {"complete", "fail"}
    /\ jobs' = [jobs EXCEPT ![job[p]] = IF pc[p] = "complete" THEN "none" ELSE "failed"]
    /\ job'  = [job  EXCEPT ![p] = 0]
    /\ pc'   = [pc   EXCEPT ![p] = "idle"]
    /\ UNCHANGED <<request, match, candidates, batches, base, doc, pick, faults>>

\* Any call may be the last one a process makes: it throws (the job fails),
\* or the replica dies (the job stalls and BullMQ gives it to a worker again).
Fault(p) ==
    /\ pc[p] # "idle" /\ faults < MaxFaults
    /\ faults' = faults + 1
    /\ IF job[p] = 0 THEN UNCHANGED jobs
                     ELSE \E s \in {"due", "failed"} : jobs' = [jobs EXCEPT ![job[p]] = s]
    /\ pc'   = [pc   EXCEPT ![p] = "idle"]
    /\ base' = [base EXCEPT ![p] = NoMatch]
    /\ doc'  = [doc  EXCEPT ![p] = NoMatch]
    /\ pick' = [pick EXCEPT ![p] = {}]
    /\ job'  = [job  EXCEPT ![p] = 0]
    /\ UNCHANGED <<request, match, candidates, batches>>

-----------------------------------------------------------------------------
(***************************************************************************)
(* RequestService.cancel: read, check, save.                               *)
(***************************************************************************)
CancelLoad(p) ==
    /\ pc[p] = "idle" /\ p \in Handlers /\ "cancel" \in Operations
    /\ request \in {"REQUESTED", "MATCHING"}
    /\ Go(p, "cancelSave")
    /\ UNCHANGED <<stored, faults>>

CancelSave(p) ==
    /\ pc[p] = "cancelSave"
    /\ request' = "CANCELLED"
    /\ Return(p)
    /\ UNCHANGED <<match, candidates, batches, jobs, faults>>

(***************************************************************************)
(* MatchingService.markViewed and decline: read the candidate, check its   *)
(* status, save the new one.  expiresAt is not looked at.                  *)
(***************************************************************************)
Unanswered(c) == c.status = "NOTIFIED"

AnswerLoad(p, c) ==
    /\ pc[p] = "idle" /\ p \in Handlers
    /\ pick' = [pick EXCEPT ![p] = {c.provider}]
    /\ \/ /\ "view" \in Operations /\ Unanswered(c)
          /\ pc' = [pc EXCEPT ![p] = "viewSave"]
       \/ /\ "decline" \in Operations /\ c.status # "DECLINED"
          /\ pc' = [pc EXCEPT ![p] = "declineSave"]
    /\ UNCHANGED <<stored, base, doc, job, faults>>

AnswerSave(p) ==
    /\ pc[p] \in {"viewSave", "declineSave"}
    /\ LET status == IF pc[p] = "viewSave" THEN "VIEWED" ELSE "DECLINED" IN
       candidates' = {IF c.provider \in pick[p] THEN [c EXCEPT !.status = status] ELSE c
                      : c \in candidates}
    /\ Return(p)
    /\ UNCHANGED <<request, match, batches, jobs, faults>>

\* The clock passes the expiresAt of a candidate.
Lapse(c) ==
    /\ "lapse" \in Operations /\ ~c.lapsed /\ c.status = "NOTIFIED"
    /\ candidates' = (candidates \ {c}) \cup {[c EXCEPT !.lapsed = TRUE]}
    /\ UNCHANGED <<request, match, batches, jobs, locals, faults>>

-----------------------------------------------------------------------------
Init ==
    /\ request = "REQUESTED"
    /\ match = NoMatch
    /\ candidates = {} /\ batches = {}
    /\ jobs = [n \in 1..MaxBatches |-> "none"]
    /\ pc   = [p \in Procs |-> "idle"]
    /\ base = [p \in Procs |-> NoMatch]
    /\ doc  = [p \in Procs |-> NoMatch]
    /\ pick = [p \in Procs |-> {}]
    /\ job  = [p \in Procs |-> 0]
    /\ faults = 0

\* A call the environment makes.
Call(p) ==
    \/ StartAuto(p) \/ StartDirect(p) \/ CancelLoad(p)
    \/ \E input \in RadiusInputs : ExpandLoad(p, input)
    \/ \E c \in candidates : AnswerLoad(p, c)

RunBatch(p) ==
    \/ LoadMatch(p) \/ LoadRequest(p) \/ ExpireStale(p) \/ SelectNextBatch(p)
    \/ InsertCandidates(p) \/ CreateBatch(p) \/ SaveMatch(p) \/ ScheduleNextBatch(p)
    \/ Terminate(p)

\* The next await of a call in progress.
Continue(p) ==
    \/ CreateMatch(p) \/ MarkMatchingLoad(p) \/ MarkMatchingSave(p)
    \/ DirectInsert(p) \/ DirectSave(p) \/ ExpandSave(p)
    \/ RunBatch(p) \/ SettleJob(p) \/ CancelSave(p) \/ AnswerSave(p)

Next ==
    \/ \E p \in Procs : Call(p) \/ Continue(p) \/ Fault(p)
    \/ \E p \in Procs, n \in 1..MaxBatches : TakeJob(p, n)
    \/ \E n \in 1..MaxBatches : JobDue(n)
    \/ \E c \in candidates : Lapse(c)

Spec == Init /\ [][Next]_vars

\* The event loop of a live process reaches its next await, delays elapse and
\* an idle worker takes a due job.  Nothing forces a client to call.
Fairness ==
    /\ \A p \in Procs : WF_vars(Continue(p))
    /\ \A p \in Workers : WF_vars(\E n \in 1..MaxBatches : TakeJob(p, n))
    /\ \A n \in 1..MaxBatches : WF_vars(JobDue(n))

FairSpec == Spec /\ Fairness

-----------------------------------------------------------------------------
(***************************************************************************)
(* Correctness.                                                            *)
(***************************************************************************)
Labels == {"idle", "create", "markLoad", "markSave", "directInsert", "directSave",
           "expandSave", "load", "loadRequest", "expire", "select", "insert",
           "record", "save", "schedule", "terminate", "complete", "fail",
           "cancelSave", "viewSave", "declineSave"}

\* Every variable keeps its type; in particular the number of batches a match
\* counts, and so the index of every batch and job, never passes MaxBatches.
TypeOK ==
    /\ request \in RequestStatus
    /\ match \in MatchDoc
    /\ candidates \subseteq Candidate
    /\ batches \subseteq Batch
    /\ jobs \in [1..MaxBatches -> JobStatus]
    /\ pc   \in [Procs -> Labels]
    /\ base \in [Procs -> MatchDoc]
    /\ doc  \in [Procs -> MatchDoc]
    /\ pick \in [Procs -> SUBSET Providers]
    /\ job  \in [Procs -> BatchCount]
    /\ faults \in Nat

\* A provider is contacted at most once for a match, whatever batches and
\* direct choices run at the same time (match-candidate.schema.ts, the unique
\* index on matchId and providerId).
ContactedOnce == \A c, d \in candidates : c.provider = d.provider => c = d

\* Every batch the match counts has its audit record, even when the process
\* that sent it died: persistBatch records first and counts after.  A DIRECT
\* dispatch counts one batch and records none, and is closed by that save.
CountedBatchesRecorded ==
    (match.mode = "AUTO" \/ match.status = "ACTIVE") =>
        \A n \in 0..(match.batchCount - 1) : Recorded(n)

\* An audit record never claims a provider who was not contacted in that
\* batch: persistBatch reaches the record only if every insertion succeeded.
RecordsNameContacted ==
    \A b \in batches : \A q \in b.providers :
        \E c \in candidates : c.provider = q /\ c.batch = b.index

\* The unique index on (matchId, index) acts as a lock: two runs of runBatch
\* are never both between recording a batch and saving the match.
OneBatchInFlight == \A p, q \in Procs : pc[p] = "save" /\ pc[q] = "save" => p = q

\* A closed match is never reopened, although every save writes from a
\* document that may have been loaded while the match was ACTIVE.
ClosedIsFinal == [][match.status \in Terminal => match'.status \in Terminal]_vars

\* No stale save ever takes back a batch of an AUTO match: runBatch writes
\* batchCount from a copy, and a copy too old has already lost its index.
BatchCountMonotone ==
    [][match.status # "NONE" /\ match.mode = "AUTO" => match'.batchCount >= match.batchCount]_vars

(***************************************************************************)
(* The records, read in the order of their index, are the waves of the     *)
(* abstract progressive dispatch.                                          *)
(***************************************************************************)
Wave(n) == (CHOOSE b \in batches : b.index = n).providers
WaveCount == Cardinality(batches)

Waves == INSTANCE ProgressiveDispatch
             WITH waves    <- [i \in 1..WaveCount |-> Wave(i - 1)],
                  MaxWaves <- MaxBatches,
                  WaveSize <- BatchSize

\* Whatever runs at the same time and wherever it is cut short, the audit
\* trail grows one wave at a time, in order and without overlap.
AuditTrailIsProgressive == Waves!Spec

Quiet == \A p \in Procs : pc[p] = "idle"

\* When no call is running, a match that waits for its next batch has the job
\* that will run it in the queue.
TimerHasJob ==
    Quiet /\ match.status = "ACTIVE" /\ match.nextBatch # 0
        => jobs[match.nextBatch] \in {"delayed", "due"}

\* One batch, counted by the index its candidates carry, never contacts more
\* providers than the configured size ("the batch is genuinely capped").
SmallBatches == \A n \in BatchCount : Cardinality({c \in candidates : c.batch = n}) <= BatchSize

\* When no call is running, every provider an AUTO match contacted is named by
\* the record of a batch: the audit trail of dispatch-batch.schema.ts.
ContactsRecorded ==
    Quiet /\ match.mode = "AUTO" =>
        \A c \in candidates : \E b \in batches : b.index = c.batch /\ c.provider \in b.providers

\* While the request is in matching, an AUTO search comes to an end: each
\* batch schedules its successor until the match is closed.
SearchEnds ==
    (match.status = "ACTIVE" /\ match.mode = "AUTO" /\ request = "MATCHING")
        ~> (match.status \in Terminal)

\* The search has begun: a batch runs, or one was counted and its timer waits.
SearchRunning ==
    \/ match.batchCount > 0
    \/ \E p \in Procs : pc[p] \in {"load", "loadRequest", "expire", "select", "insert",
                                  "record", "save", "schedule", "terminate"}

\* A request cancelled while its AUTO search runs stops it: the dispatch loop
\* notices (request.service.ts, CANCELLABLE_STATUSES), even when the cancel is
\* saved between two awaits of start or of a batch.  A cancel that comes before
\* the first batch finds no loop to notice it: start then throws and leaves the
\* match ACTIVE, which is why the promise is only made of a search that runs.
CancelStopsMatch ==
    (request = "CANCELLED" /\ match.mode = "AUTO" /\ SearchRunning)
        ~> (match.status # "ACTIVE")
=============================================================================
