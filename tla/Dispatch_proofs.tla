-------------------------- MODULE Dispatch_proofs --------------------------
(***************************************************************************)
(* Safety of the dispatch for any number of providers, handlers and        *)
(* workers and any configuration: first with any number of faults, then    *)
(* for the chain of batches that runs where no call fails.                 *)
(***************************************************************************)
EXTENDS Dispatch, FiniteSetTheorems, SequenceTheorems, TLAPS

(***************************************************************************)
(* Type correctness.                                                       *)
(***************************************************************************)
LocalsOK == /\ pc   \in [Procs -> Labels]
            /\ base \in [Procs -> MatchDoc]
            /\ doc  \in [Procs -> MatchDoc]
            /\ pick \in [Procs -> SUBSET Providers]
            /\ job  \in [Procs -> BatchCount]

StoredOK == /\ request \in RequestStatus
            /\ match \in MatchDoc
            /\ candidates \subseteq Candidate
            /\ batches \subseteq Batch
            /\ jobs \in [1..MaxBatches -> JobStatus]

LEMMA TypeSplit == TypeOK <=> LocalsOK /\ StoredOK /\ faults \in Nat
  BY DEF TypeOK, LocalsOK, StoredOK

LEMMA Numbers == /\ 0 \in BatchCount /\ 1 \in BatchCount /\ DefaultRadius \in Nat
                 /\ MaxRadius \in Nat /\ MaxBatches \in Nat
  BY ConfigAssumption DEF BatchCount

LEMMA NoMatchTyped == NoMatch \in MatchDoc
  BY Numbers DEF NoMatch, MatchDoc, MatchStatus

LEMMA GoTyped ==
  ASSUME LocalsOK, NEW p \in Procs, NEW l \in Labels, Go(p, l)
  PROVE  LocalsOK'
  BY DEF LocalsOK, Go

LEMMA LeaveTyped ==
  ASSUME LocalsOK, NEW p \in Procs, NEW l \in Labels, Leave(p, l)
  PROVE  LocalsOK'
  BY NoMatchTyped DEF LocalsOK, Leave

LEMMA ReturnTyped ==
  ASSUME LocalsOK, NEW p \in Procs, Return(p) \/ Throw(p)
  PROVE  LocalsOK'
  BY LeaveTyped DEF Return, Throw, Labels

LEMMA EditTyped ==
  ASSUME LocalsOK, NEW p \in Procs, NEW l \in Labels,
         NEW d \in MatchDoc, NEW s \in SUBSET Providers, Edit(p, d, s, l)
  PROVE  LocalsOK'
  BY DEF LocalsOK, Edit

LEMMA LoadTyped ==
  ASSUME LocalsOK, NEW p \in Procs, NEW l \in Labels, NEW m \in MatchDoc, Load(p, m, l)
  PROVE  LocalsOK'
  BY DEF LocalsOK, Load

LEMMA SavedTyped ==
  ASSUME LocalsOK, StoredOK, NEW p \in Procs
  PROVE  Saved(p) \in MatchDoc
<1>1. base[p] \in MatchDoc /\ doc[p] \in MatchDoc /\ match \in MatchDoc
  BY DEF LocalsOK, StoredOK
<1>. QED
  BY <1>1 DEF Saved, SetIfModified, MatchDoc

LEMMA NewCandidatesTyped ==
  ASSUME NEW s \in SUBSET Providers, NEW n \in BatchCount
  PROVE  NewCandidates(s, n) \subseteq Candidate
<1>. SUFFICES ASSUME NEW q \in s
              PROVE  [provider |-> q, batch |-> n, status |-> "NOTIFIED", lapsed |-> FALSE] \in Candidate
  BY DEF NewCandidates
<1>. QED
  BY DEF Candidate, CandidateStatus

LEMMA TerminatedTyped ==
  ASSUME NEW d \in MatchDoc, NEW s \in Terminal
  PROVE  Terminated(d, s) \in MatchDoc
<1>1. s \in MatchStatus
  BY DEF MatchStatus
<1>. QED
  BY <1>1, Numbers DEF Terminated, MatchDoc

LEMMA InitTyped == Init => TypeOK
<1>1. ASSUME Init PROVE StoredOK
  BY <1>1, NoMatchTyped DEF Init, StoredOK, RequestStatus, JobStatus
<1>2. ASSUME Init PROVE LocalsOK
  BY <1>2, NoMatchTyped, ConfigAssumption DEF Init, LocalsOK, Labels, BatchCount
<1>. QED
  BY <1>1, <1>2, TypeSplit DEF Init

LEMMA StartTyped ==
  ASSUME TypeOK, NEW p \in Procs, StartAuto(p) \/ StartDirect(p)
  PROVE  TypeOK'
<1>1. PICK mode \in {"AUTO", "DIRECT"}, chosen \in SUBSET Providers : Start(p, mode, chosen)
  BY DEF StartAuto, StartDirect
<1>2. [NoMatch EXCEPT !.status = "ACTIVE", !.mode = mode, !.radius = DefaultRadius] \in MatchDoc
  BY Numbers DEF NoMatch, MatchDoc, MatchStatus
<1>3. LocalsOK'
  BY <1>1, <1>2, EditTyped, TypeSplit DEF Start, Labels
<1>4. StoredOK' /\ faults' \in Nat
  BY <1>1, TypeSplit DEF Start, StoredOK, stored
<1>. QED
  BY <1>3, <1>4 DEF TypeOK, LocalsOK, StoredOK

LEMMA CreateMatchTyped ==
  ASSUME TypeOK, NEW p \in Procs, CreateMatch(p)
  PROVE  TypeOK'
<1>. USE TypeSplit
<1>1. LocalsOK'
  <2>1. CASE match.status # "NONE"
    BY <2>1, ReturnTyped DEF CreateMatch
  <2>2. CASE match.status = "NONE"
    BY <2>2 DEF CreateMatch, LocalsOK, Labels
  <2>. QED
    BY <2>1, <2>2
<1>2. StoredOK' /\ faults' \in Nat
  BY DEF CreateMatch, StoredOK, LocalsOK, Return, Leave
<1>. QED
  BY <1>1, <1>2 DEF TypeOK, LocalsOK, StoredOK

LEMMA MarkTyped ==
  ASSUME TypeOK, NEW p \in Procs, MarkMatchingLoad(p) \/ MarkMatchingSave(p)
  PROVE  TypeOK'
<1>. USE TypeSplit
<1>1. ASSUME MarkMatchingLoad(p) PROVE TypeOK'
  <2>1. LocalsOK'
    BY <1>1, GoTyped, ReturnTyped DEF MarkMatchingLoad, Labels
  <2>2. StoredOK' /\ faults' \in Nat
    BY <1>1 DEF MarkMatchingLoad, StoredOK, stored
  <2>. QED
    BY <2>1, <2>2 DEF TypeOK, LocalsOK, StoredOK
<1>2. ASSUME MarkMatchingSave(p) PROVE TypeOK'
  <2>1. LocalsOK'
    BY <1>2, GoTyped, LeaveTyped DEF MarkMatchingSave, AfterMark, Labels
  <2>2. StoredOK' /\ faults' \in Nat
    BY <1>2 DEF MarkMatchingSave, StoredOK, RequestStatus
  <2>. QED
    BY <2>1, <2>2 DEF TypeOK, LocalsOK, StoredOK
<1>. QED
  BY <1>1, <1>2

LEMMA DirectTyped ==
  ASSUME TypeOK, NEW p \in Procs, DirectInsert(p)
  PROVE  TypeOK'
<1>. USE TypeSplit
<1>1. doc[p] \in MatchDoc /\ pick[p] \in SUBSET Providers
  BY DEF LocalsOK
<1>2. DirectDone(doc[p]) \in MatchDoc
  BY <1>1, Numbers DEF DirectDone, MatchDoc, MatchStatus, Terminal
<1>3. LocalsOK'
  BY <1>2, EditTyped, ReturnTyped DEF DirectInsert, Labels
<1>4. candidates' \subseteq Candidate
  BY <1>1, Numbers, NewCandidatesTyped DEF DirectInsert, StoredOK
<1>5. StoredOK' /\ faults' \in Nat
  BY <1>4 DEF DirectInsert, StoredOK
<1>. QED
  BY <1>3, <1>5 DEF TypeOK, LocalsOK, StoredOK

\* The saves: what they store is typed, and so is the process that goes on.
LEMMA SaveTyped ==
  ASSUME TypeOK, NEW p \in Procs,
         DirectSave(p) \/ ExpandSave(p) \/ SaveMatch(p) \/ Terminate(p)
  PROVE  TypeOK'
<1>. USE TypeSplit
<1>1. match' \in MatchDoc
  BY SavedTyped DEF DirectSave, ExpandSave, SaveMatch, Terminate
<1>2. LocalsOK'
  <2>1. CASE DirectSave(p) \/ Terminate(p)
    BY <2>1, ReturnTyped DEF DirectSave, Terminate
  <2>2. CASE ExpandSave(p)
    BY <2>2, LeaveTyped DEF ExpandSave, Labels
  <2>3. CASE SaveMatch(p)
    BY <2>3, GoTyped DEF SaveMatch, Labels
  <2>. QED
    BY <2>1, <2>2, <2>3
<1>3. UNCHANGED <<request, candidates, batches, jobs, faults>>
  BY DEF DirectSave, ExpandSave, SaveMatch, Terminate
<1>4. StoredOK' /\ faults' \in Nat
  BY <1>1, <1>3 DEF StoredOK
<1>. QED
  BY <1>2, <1>4 DEF TypeOK, LocalsOK, StoredOK

LEMMA ExpandTyped ==
  ASSUME TypeOK, NEW p \in Procs, NEW input \in RadiusInputs, ExpandLoad(p, input)
  PROVE  TypeOK'
<1>. USE TypeSplit
<1>1. match \in MatchDoc /\ input \in Nat
  BY ConfigAssumption DEF StoredOK
<1>2. [match EXCEPT !.radius = IF input < MaxRadius THEN input ELSE MaxRadius] \in MatchDoc
  BY <1>1, Numbers DEF MatchDoc
<1>3. LocalsOK'
  BY <1>1, <1>2 DEF ExpandLoad, LocalsOK, Labels
<1>4. StoredOK' /\ faults' \in Nat
  BY DEF ExpandLoad, StoredOK, stored
<1>. QED
  BY <1>3, <1>4 DEF TypeOK, LocalsOK, StoredOK

LEMMA LoadsTyped ==
  ASSUME TypeOK, NEW p \in Procs, LoadMatch(p) \/ LoadRequest(p)
  PROVE  TypeOK'
<1>. USE TypeSplit
<1>1. match \in MatchDoc /\ doc[p] \in MatchDoc /\ Terminated(doc[p], "CANCELLED") \in MatchDoc
  BY TerminatedTyped DEF StoredOK, LocalsOK, Terminal
<1>2. CASE LoadMatch(p)
  <2>1. LocalsOK'
    BY <1>1, <1>2, LoadTyped, ReturnTyped DEF LoadMatch, Labels
  <2>2. StoredOK' /\ faults' \in Nat
    BY <1>2 DEF LoadMatch, StoredOK, stored
  <2>. QED
    BY <2>1, <2>2 DEF TypeOK, LocalsOK, StoredOK
<1>3. CASE LoadRequest(p)
  <2>1. LocalsOK'
    BY <1>1, <1>3, GoTyped, EditTyped DEF LoadRequest, Labels
  <2>2. StoredOK' /\ faults' \in Nat
    BY <1>3 DEF LoadRequest, StoredOK, stored
  <2>. QED
    BY <2>1, <2>2 DEF TypeOK, LocalsOK, StoredOK
<1>. QED
  BY <1>2, <1>3

LEMMA ExpireTyped ==
  ASSUME TypeOK, NEW p \in Procs, ExpireStale(p)
  PROVE  TypeOK'
<1>. USE TypeSplit
<1>1. Terminated(doc[p], "EXHAUSTED") \in MatchDoc
  BY TerminatedTyped DEF LocalsOK, Terminal
<1>2. LocalsOK'
  BY <1>1, GoTyped, EditTyped DEF ExpireStale, Labels
<1>3. \A c \in candidates : [c EXCEPT !.status = "EXPIRED"] \in Candidate
  BY DEF StoredOK, Candidate, CandidateStatus
<1>4. candidates' \subseteq Candidate
  BY <1>3 DEF ExpireStale, StoredOK
<1>5. StoredOK' /\ faults' \in Nat
  BY <1>4 DEF ExpireStale, StoredOK
<1>. QED
  BY <1>2, <1>5 DEF TypeOK, LocalsOK, StoredOK

LEMMA RadiusTyped ==
  ASSUME NEW r \in Nat
  PROVE  Rungs(r) \subseteq Nat /\ TopRung(r) \in Nat
  BY Numbers DEF Rungs, TopRung

LEMMA SelectTyped ==
  ASSUME TypeOK, NEW p \in Procs, SelectNextBatch(p)
  PROVE  TypeOK'
<1>. USE TypeSplit
<1>1. doc[p] \in MatchDoc /\ doc[p].radius \in Nat
  BY DEF LocalsOK, MatchDoc
<1>2. \A r \in Rungs(doc[p].radius) \cup {TopRung(doc[p].radius)} :
         [doc[p] EXCEPT !.radius = r] \in MatchDoc
  BY <1>1, RadiusTyped DEF MatchDoc
<1>3. LocalsOK'
  <2>1. ASSUME NEW r \in Rungs(doc[p].radius), NEW s \in SUBSET Providers,
               Edit(p, [doc[p] EXCEPT !.radius = r], s, "insert")
        PROVE  LocalsOK'
    BY <1>2, <2>1, EditTyped DEF Labels
  <2>2. ASSUME Edit(p, Terminated([doc[p] EXCEPT !.radius = TopRung(doc[p].radius)], "EXHAUSTED"),
                    {}, "terminate")
        PROVE  LocalsOK'
    BY <1>2, <2>2, EditTyped, TerminatedTyped DEF Labels, Terminal
  <2>. QED
    BY <2>1, <2>2 DEF SelectNextBatch
<1>4. StoredOK' /\ faults' \in Nat
  BY DEF SelectNextBatch, StoredOK, stored
<1>. QED
  BY <1>3, <1>4 DEF TypeOK, LocalsOK, StoredOK

LEMMA InsertTyped ==
  ASSUME TypeOK, NEW p \in Procs, InsertCandidates(p)
  PROVE  TypeOK'
<1>. USE TypeSplit
<1>1. doc[p].batchCount \in BatchCount /\ pick[p] \ Refused(pick[p]) \in SUBSET Providers
  BY DEF LocalsOK, MatchDoc
<1>2. LocalsOK'
  BY GoTyped, ReturnTyped DEF InsertCandidates, AfterInsert, Labels
<1>3. candidates' \subseteq Candidate
  BY <1>1, NewCandidatesTyped DEF InsertCandidates, StoredOK
<1>4. StoredOK' /\ faults' \in Nat
  BY <1>3 DEF InsertCandidates, StoredOK
<1>. QED
  BY <1>2, <1>4 DEF TypeOK, LocalsOK, StoredOK

\* Nothing but the limit test of ExpireStale keeps the index of a new batch
\* within its type, so that test is a hypothesis here and an invariant below.
LEMMA CreateBatchTyped ==
  ASSUME TypeOK, NEW p \in Procs, CreateBatch(p), doc[p].batchCount < MaxBatches
  PROVE  TypeOK'
<1>. USE TypeSplit
<1>1. doc[p] \in MatchDoc /\ pick[p] \in SUBSET Providers
  BY DEF LocalsOK
<1>2. Counted(doc[p]) \in MatchDoc
  <2>1. doc[p].batchCount \in BatchCount
    BY <1>1 DEF MatchDoc
  <2>2. doc[p].batchCount + 1 \in BatchCount
    BY <2>1, Numbers DEF BatchCount
  <2>. QED
    BY <1>1, <2>2 DEF Counted, MatchDoc
<1>3. LocalsOK'
  BY <1>2, EditTyped, ReturnTyped DEF CreateBatch, Labels
<1>4. batches' \subseteq Batch
  BY <1>1 DEF CreateBatch, StoredOK, Batch, MatchDoc
<1>5. StoredOK' /\ faults' \in Nat
  BY <1>4 DEF CreateBatch, StoredOK
<1>. QED
  BY <1>3, <1>5 DEF TypeOK, LocalsOK, StoredOK

LEMMA QueueTyped ==
  ASSUME TypeOK, NEW p \in Procs, NEW n \in 1..MaxBatches,
         ScheduleNextBatch(p) \/ JobDue(n) \/ TakeJob(p, n) \/ SettleJob(p)
  PROVE  TypeOK'
<1>. USE TypeSplit
<1>1. jobs' \in [1..MaxBatches -> JobStatus]
  BY DEF ScheduleNextBatch, JobDue, TakeJob, SettleJob, StoredOK, JobStatus
<1>2. LocalsOK'
  <2>1. CASE ScheduleNextBatch(p)
    BY <2>1, ReturnTyped DEF ScheduleNextBatch
  <2>2. CASE JobDue(n)
    BY <2>2 DEF JobDue, LocalsOK, locals
  <2>3. CASE TakeJob(p, n)
    <3>1. n \in BatchCount
      BY Numbers DEF BatchCount
    <3>. QED
      BY <2>3, <3>1 DEF TakeJob, LocalsOK, Labels
  <2>4. CASE SettleJob(p)
    BY <2>4, Numbers DEF SettleJob, LocalsOK, Labels
  <2>. QED
    BY <2>1, <2>2, <2>3, <2>4
<1>3. UNCHANGED <<request, match, candidates, batches, faults>>
  BY DEF ScheduleNextBatch, JobDue, TakeJob, SettleJob
<1>4. StoredOK' /\ faults' \in Nat
  BY <1>1, <1>3 DEF StoredOK
<1>. QED
  BY <1>2, <1>4 DEF TypeOK, LocalsOK, StoredOK

LEMMA FaultTyped ==
  ASSUME TypeOK, NEW p \in Procs, Fault(p)
  PROVE  TypeOK'
<1>. USE TypeSplit
<1>1. jobs' \in [1..MaxBatches -> JobStatus]
  BY DEF Fault, StoredOK, JobStatus
<1>2. LocalsOK'
  BY NoMatchTyped, Numbers DEF Fault, LocalsOK, Labels
<1>3. StoredOK' /\ faults' \in Nat
  BY <1>1 DEF Fault, StoredOK
<1>. QED
  BY <1>2, <1>3 DEF TypeOK, LocalsOK, StoredOK

LEMMA CancelTyped ==
  ASSUME TypeOK, NEW p \in Procs, CancelLoad(p) \/ CancelSave(p)
  PROVE  TypeOK'
<1>. USE TypeSplit
<1>1. LocalsOK'
  BY GoTyped, ReturnTyped DEF CancelLoad, CancelSave, Labels
<1>2. StoredOK' /\ faults' \in Nat
  BY DEF CancelLoad, CancelSave, StoredOK, RequestStatus, stored
<1>. QED
  BY <1>1, <1>2 DEF TypeOK, LocalsOK, StoredOK

LEMMA AnswerTyped ==
  ASSUME TypeOK, NEW p \in Procs, NEW c \in candidates,
         AnswerLoad(p, c) \/ AnswerSave(p) \/ Lapse(c)
  PROVE  TypeOK'
<1>. USE TypeSplit
<1>1. \A d \in candidates : d \in Candidate
  BY DEF StoredOK
<1>2. CASE AnswerLoad(p, c)
  <2>1. {c.provider} \in SUBSET Providers
    BY <1>1 DEF Candidate
  <2>2. LocalsOK'
    BY <1>2, <2>1 DEF AnswerLoad, LocalsOK, Labels
  <2>3. StoredOK' /\ faults' \in Nat
    BY <1>2 DEF AnswerLoad, StoredOK, stored
  <2>. QED
    BY <2>2, <2>3 DEF TypeOK, LocalsOK, StoredOK
<1>3. CASE AnswerSave(p)
  <2>1. \A d \in candidates, s \in {"VIEWED", "DECLINED"} : [d EXCEPT !.status = s] \in Candidate
    BY <1>1 DEF Candidate, CandidateStatus
  <2>2. candidates' \subseteq Candidate
    BY <1>1, <1>3, <2>1 DEF AnswerSave
  <2>3. LocalsOK'
    BY <1>3, ReturnTyped DEF AnswerSave
  <2>4. StoredOK' /\ faults' \in Nat
    BY <1>3, <2>2 DEF AnswerSave, StoredOK
  <2>. QED
    BY <2>3, <2>4 DEF TypeOK, LocalsOK, StoredOK
<1>4. CASE Lapse(c)
  <2>1. [c EXCEPT !.lapsed = TRUE] \in Candidate
    BY <1>1 DEF Candidate
  <2>2. candidates' \subseteq Candidate
    BY <1>1, <1>4, <2>1 DEF Lapse
  <2>3. LocalsOK' /\ StoredOK' /\ faults' \in Nat
    BY <1>4, <2>2 DEF Lapse, LocalsOK, StoredOK, locals
  <2>. QED
    BY <2>3 DEF TypeOK, LocalsOK, StoredOK
<1>. QED
  BY <1>2, <1>3, <1>4

-----------------------------------------------------------------------------
(***************************************************************************)
(* A step of one process leaves the other processes alone, and no step     *)
(* deletes a match, changes its mode, a candidate's batch or a record.     *)
(***************************************************************************)
Frame(p) == \A q \in Procs \ {p} :
               /\ pc'[q] = pc[q] /\ base'[q] = base[q] /\ doc'[q] = doc[q]
               /\ pick'[q] = pick[q] /\ job'[q] = job[q]

LEMMA EditFrame ==
  ASSUME LocalsOK, NEW p \in Procs, NEW l, NEW d, NEW s, NEW m,
         Go(p, l) \/ Leave(p, l) \/ Edit(p, d, s, l) \/ Load(p, m, l)
  PROVE  Frame(p)
  BY DEF LocalsOK, Frame, Go, Leave, Edit, Load

LEMMA StepFrame ==
  ASSUME TypeOK, NEW p \in Procs,
         \/ Call(p) \/ Continue(p) \/ Fault(p)
         \/ \E n \in 1..MaxBatches : TakeJob(p, n)
  PROVE  Frame(p)
<1>. USE TypeSplit
<1>1. CASE Call(p)
  <2>1. CASE StartAuto(p) \/ StartDirect(p)
    BY <2>1, EditFrame DEF StartAuto, StartDirect, Start
  <2>2. CASE CancelLoad(p)
    BY <2>2, EditFrame DEF CancelLoad
  <2>3. CASE \E input \in RadiusInputs : ExpandLoad(p, input)
    BY <2>3 DEF ExpandLoad, LocalsOK, Frame
  <2>4. CASE \E c \in candidates : AnswerLoad(p, c)
    BY <2>4 DEF AnswerLoad, LocalsOK, Frame
  <2>. QED
    BY <1>1, <2>1, <2>2, <2>3, <2>4 DEF Call
<1>2. CASE Continue(p)
  <2>1. CASE CreateMatch(p)
    BY <2>1 DEF CreateMatch, Return, Leave, LocalsOK, Frame
  <2>2. CASE MarkMatchingLoad(p) \/ MarkMatchingSave(p)
    BY <2>2, EditFrame DEF MarkMatchingLoad, MarkMatchingSave, AfterMark, Throw
  <2>3. CASE DirectInsert(p)
    BY <2>3, EditFrame DEF DirectInsert, Throw
  <2>4. CASE DirectSave(p) \/ ExpandSave(p) \/ SaveMatch(p) \/ Terminate(p)
    BY <2>4, EditFrame DEF DirectSave, ExpandSave, SaveMatch, Terminate, Return
  <2>5. CASE LoadMatch(p) \/ LoadRequest(p) \/ ExpireStale(p)
    BY <2>5, EditFrame DEF LoadMatch, LoadRequest, ExpireStale, Return
  <2>6. CASE SelectNextBatch(p)
    BY <2>6, EditFrame DEF SelectNextBatch
  <2>7. CASE InsertCandidates(p) \/ CreateBatch(p)
    BY <2>7, EditFrame DEF InsertCandidates, AfterInsert, CreateBatch, Throw
  <2>8. CASE ScheduleNextBatch(p) \/ CancelSave(p) \/ AnswerSave(p)
    BY <2>8, EditFrame DEF ScheduleNextBatch, CancelSave, AnswerSave, Return
  <2>9. CASE SettleJob(p)
    BY <2>9 DEF SettleJob, LocalsOK, Frame
  <2>. QED
    BY <1>2, <2>1, <2>2, <2>3, <2>4, <2>5, <2>6, <2>7, <2>8, <2>9 DEF Continue, RunBatch
<1>3. CASE Fault(p)
  BY <1>3 DEF Fault, LocalsOK, Frame
<1>4. CASE \E n \in 1..MaxBatches : TakeJob(p, n)
  BY <1>4 DEF TakeJob, LocalsOK, Frame
<1>. QED
  BY <1>1, <1>2, <1>3, <1>4

(***************************************************************************)
(* What a process knows at each call: its loaded and edited documents, and *)
(* the part of the stored match nobody can have changed since.             *)
(***************************************************************************)
Reading == {"loadRequest", "expire", "select", "insert", "record"}
Marking == {"markLoad", "markSave", "directInsert", "directSave"}
Saving  == {"save", "terminate", "expandSave"}

CreateOK(p) == pc[p] = "create" => doc[p].status = "ACTIVE" /\ doc[p].batchCount = 0

MarkOK(p) ==
    pc[p] \in Marking =>
        /\ match.status # "NONE" /\ match.mode = doc[p].mode
        /\ base[p].status = "ACTIVE"
        /\ pc[p] \in {"directInsert", "directSave"} => doc[p].mode = "DIRECT"
        /\ pc[p] = "directSave" => doc[p].status = "EXHAUSTED"

ReadOK(p) ==
    pc[p] \in Reading \cup Saving =>
        /\ match.status # "NONE"
        /\ base[p].status = "ACTIVE"
        /\ pc[p] # "save" => doc[p].batchCount = base[p].batchCount
        /\ pc[p] # "terminate" => doc[p].status = "ACTIVE"
        /\ pc[p] = "terminate" => doc[p].status \in Terminal

LimitOK(p) == pc[p] \in {"select", "insert", "record"} => doc[p].batchCount < MaxBatches

ControlOK(p) == CreateOK(p) /\ MarkOK(p) /\ ReadOK(p) /\ LimitOK(p)

Control == \A p \in Procs : ControlOK(p)

\* The match of the next state is the same match.
SameMatch == match.status # "NONE" => match'.status # "NONE" /\ match'.mode = match.mode

LEMMA OthersControl ==
  ASSUME Control, NEW p \in Procs, Frame(p), SameMatch, ControlOK(p)'
  PROVE  Control'
<1>. SUFFICES ASSUME NEW q \in Procs \ {p} PROVE ControlOK(q)'
  BY DEF Control
<1>1. pc'[q] = pc[q] /\ base'[q] = base[q] /\ doc'[q] = doc[q] /\ ControlOK(q)
  BY DEF Frame, Control
<1>. QED
  BY <1>1 DEF SameMatch, ControlOK, CreateOK, MarkOK, ReadOK, LimitOK, Marking, Reading, Saving

\* A process that is idle or finishing claims nothing.
Free == {"idle", "load", "schedule", "complete", "fail", "cancelSave", "viewSave", "declineSave"}

LEMMA FreeControl ==
  ASSUME NEW p \in Procs, pc'[p] \in Free
  PROVE  ControlOK(p)'
  BY DEF Free, ControlOK, CreateOK, MarkOK, ReadOK, LimitOK, Marking, Reading, Saving

\* What the edits of a loaded document change, and what they leave.
LEMMA EditedFields ==
  ASSUME NEW d \in MatchDoc
  PROVE  /\ \A s \in Terminal : /\ Terminated(d, s).status = s
                                /\ Terminated(d, s).batchCount = d.batchCount
                                /\ Terminated(d, s).mode = d.mode
         /\ Counted(d).status = d.status /\ Counted(d).batchCount = d.batchCount + 1
         /\ DirectDone(d).status = "EXHAUSTED" /\ DirectDone(d).mode = d.mode
         /\ DirectDone(d).batchCount = 1
         /\ \A r \in Nat : LET w == [d EXCEPT !.radius = r] IN
               w \in MatchDoc /\ w.status = d.status /\ w.batchCount = d.batchCount
<1>1. \A r \in Nat : [d EXCEPT !.radius = r] \in MatchDoc
  BY DEF MatchDoc
<1>. QED
  BY <1>1 DEF Terminated, Counted, DirectDone, MatchDoc

\* Every save of a match keeps it, keeps its mode, and never reopens it.
LEMMA SaveKeepsMatch ==
  ASSUME TypeOK, NEW p \in Procs, ControlOK(p),
         DirectSave(p) \/ ExpandSave(p) \/ SaveMatch(p) \/ Terminate(p)
  PROVE  /\ match.status # "NONE" /\ match'.status # "NONE" /\ match'.mode = match.mode
         /\ match.status \in Terminal => match'.status \in Terminal
         /\ match'.status = "ACTIVE" => match.status = "ACTIVE"
<1>1. match.status \in MatchStatus /\ doc[p].status \in MatchStatus
  BY DEF TypeOK, MatchDoc
<1>2. match' = Saved(p) /\ pc[p] \in Saving \cup {"directSave"}
  BY DEF DirectSave, ExpandSave, SaveMatch, Terminate, Saving
<1>3. match'.mode = match.mode
  BY <1>2 DEF Saved
<1>4. match'.status = IF doc[p].status # base[p].status THEN doc[p].status ELSE match.status
  BY <1>2 DEF Saved, SetIfModified
<1>5. /\ match.status # "NONE"
      /\ base[p].status = "ACTIVE"
      /\ doc[p].status = "ACTIVE" \/ doc[p].status \in Terminal
  BY <1>2 DEF ControlOK, MarkOK, ReadOK, Marking, Saving, Terminal
<1>. QED
  BY <1>1, <1>3, <1>4, <1>5 DEF Terminal

LEMMA ControlStep ==
  ASSUME TypeOK, Control, Next
  PROVE  Control'
<1>. USE TypeSplit
<1>1. ASSUME NEW p \in Procs, Call(p) \/ Continue(p) \/ Fault(p)
                                \/ \E n \in 1..MaxBatches : TakeJob(p, n)
      PROVE  Control'
  <2>. SUFFICES SameMatch /\ ControlOK(p)'
    BY <1>1, StepFrame, OthersControl
  <2>0. ControlOK(p) /\ pc \in [Procs -> Labels] /\ doc \in [Procs -> MatchDoc] /\ base \in [Procs -> MatchDoc]
    BY DEF Control, LocalsOK
  <2>1. CASE StartAuto(p) \/ StartDirect(p)
    <3>1. PICK mode \in {"AUTO", "DIRECT"}, chosen \in SUBSET Providers : Start(p, mode, chosen)
      BY <2>1 DEF StartAuto, StartDirect
    <3>2. pc'[p] = "create" /\ doc'[p].status = "ACTIVE" /\ doc'[p].batchCount = 0
      BY <2>0, <3>1 DEF Start, Edit, NoMatch
    <3>. QED
      BY <3>1, <3>2 DEF Start, SameMatch, stored, ControlOK, CreateOK, MarkOK, ReadOK, LimitOK,
           Marking, Reading, Saving
  <2>2. CASE CancelLoad(p) \/ CancelSave(p) \/ AnswerSave(p) \/ ScheduleNextBatch(p)
    <3>1. pc'[p] \in Free
      BY <2>0, <2>2 DEF CancelLoad, CancelSave, AnswerSave, ScheduleNextBatch, Go, Return, Leave, Free
    <3>2. SameMatch
      BY <2>2 DEF CancelLoad, CancelSave, AnswerSave, ScheduleNextBatch, SameMatch, stored
    <3>. QED
      BY <3>1, <3>2, FreeControl
  <2>3. CASE \E c \in candidates : AnswerLoad(p, c)
    <3>1. pc'[p] \in Free
      BY <2>0, <2>3 DEF AnswerLoad, Free
    <3>. QED
      BY <2>3, <3>1, FreeControl DEF AnswerLoad, SameMatch, stored
  <2>4. CASE \E input \in RadiusInputs : ExpandLoad(p, input)
    BY <2>0, <2>4 DEF ExpandLoad, SameMatch, stored, StoredOK, MatchDoc,
         ControlOK, CreateOK, MarkOK, ReadOK, LimitOK, Marking, Reading, Saving
  <2>5. CASE CreateMatch(p)
    <3>1. CASE match.status # "NONE"
      <4>1. pc'[p] \in Free
        BY <2>0, <2>5, <3>1 DEF CreateMatch, Return, Leave, Free
      <4>. QED
        BY <2>5, <3>1, <4>1, FreeControl DEF CreateMatch, SameMatch
    <3>2. CASE match.status = "NONE"
      BY <2>0, <2>5, <3>2 DEF CreateMatch, SameMatch,
           ControlOK, CreateOK, MarkOK, ReadOK, LimitOK, Marking, Reading, Saving
    <3>. QED
      BY <3>1, <3>2
  <2>6. CASE MarkMatchingLoad(p) \/ MarkMatchingSave(p)
    BY <2>0, <2>6 DEF MarkMatchingLoad, MarkMatchingSave, AfterMark, Go, Throw, Leave, SameMatch, stored,
         ControlOK, CreateOK, MarkOK, ReadOK, LimitOK, Marking, Reading, Saving
  <2>7. CASE DirectInsert(p)
    <3>1. /\ DirectDone(doc[p]).status = "EXHAUSTED"
          /\ DirectDone(doc[p]).mode = doc[p].mode
      BY <2>0, EditedFields
    <3>. QED
      BY <2>0, <2>7, <3>1 DEF DirectInsert, Throw, Edit, Leave, SameMatch,
         ControlOK, CreateOK, MarkOK, ReadOK, LimitOK, Marking, Reading, Saving
  <2>8. CASE DirectSave(p) \/ ExpandSave(p) \/ SaveMatch(p) \/ Terminate(p)
    <3>1. pc'[p] \in Free
      BY <2>0, <2>8 DEF DirectSave, ExpandSave, SaveMatch, Terminate, Go, Return, Leave, Free
    <3>. QED
      BY <2>0, <2>8, <3>1, FreeControl, SaveKeepsMatch DEF SameMatch
  <2>9. CASE LoadMatch(p)
    BY <2>0, <2>9 DEF LoadMatch, Load, Return, Leave, SameMatch, stored, StoredOK,
         ControlOK, CreateOK, MarkOK, ReadOK, LimitOK, Marking, Reading, Saving
  <2>10. CASE LoadRequest(p)
    <3>1. /\ Terminated(doc[p], "CANCELLED").status \in Terminal
          /\ Terminated(doc[p], "CANCELLED").batchCount = doc[p].batchCount
      BY <2>0, EditedFields DEF Terminal
    <3>. QED
      BY <2>0, <2>10, <3>1 DEF LoadRequest, Go, Edit, SameMatch, stored,
         ControlOK, CreateOK, MarkOK, ReadOK, LimitOK, Marking, Reading, Saving
  <2>11. CASE ExpireStale(p)
    <3>1. doc[p].batchCount \in Nat /\ MaxBatches \in Nat
      BY <2>0, Numbers DEF MatchDoc, BatchCount
    <3>2. /\ Terminated(doc[p], "EXHAUSTED").status \in Terminal
          /\ Terminated(doc[p], "EXHAUSTED").batchCount = doc[p].batchCount
      BY <2>0, EditedFields DEF Terminal
    <3>. QED
      BY <2>0, <2>11, <3>1, <3>2 DEF ExpireStale, LimitReached, Go, Edit, SameMatch,
           ControlOK, CreateOK, MarkOK, ReadOK, LimitOK, Marking, Reading, Saving
  <2>12. CASE SelectNextBatch(p)
    <3>1. doc[p].radius \in Nat
      BY <2>0 DEF MatchDoc
    <3>2. ASSUME NEW r \in Rungs(doc[p].radius), NEW s,
                 Edit(p, [doc[p] EXCEPT !.radius = r], s, "insert")
          PROVE  ControlOK(p)'
      <4>1. r \in Nat
        BY <3>1, RadiusTyped
      <4>2. pc'[p] = "insert" /\ doc'[p].status = doc[p].status
            /\ doc'[p].batchCount = doc[p].batchCount /\ base'[p] = base[p]
        BY <2>0, <3>2, <4>1, EditedFields DEF Edit
      <4>. QED
        BY <2>0, <2>12, <4>2 DEF SelectNextBatch, stored,
             ControlOK, CreateOK, MarkOK, ReadOK, LimitOK, Marking, Reading, Saving
    <3>3. ASSUME Edit(p, Terminated([doc[p] EXCEPT !.radius = TopRung(doc[p].radius)], "EXHAUSTED"),
                      {}, "terminate")
          PROVE  ControlOK(p)'
      <4> DEFINE w == [doc[p] EXCEPT !.radius = TopRung(doc[p].radius)]
      <4>1. w \in MatchDoc /\ w.batchCount = doc[p].batchCount
        BY <2>0, <3>1, RadiusTyped, EditedFields
      <4>2. Terminated(w, "EXHAUSTED").status \in Terminal
            /\ Terminated(w, "EXHAUSTED").batchCount = doc[p].batchCount
        BY <4>1, EditedFields DEF Terminal
      <4> HIDE DEF w
      <4>3. pc'[p] = "terminate" /\ doc'[p] = Terminated(w, "EXHAUSTED") /\ base'[p] = base[p]
        BY <2>0, <3>3 DEF Edit, w
      <4>. QED
        BY <2>0, <2>12, <4>2, <4>3 DEF SelectNextBatch, stored,
             ControlOK, CreateOK, MarkOK, ReadOK, LimitOK, Marking, Reading, Saving
    <3>4. SameMatch
      BY <2>12 DEF SelectNextBatch, SameMatch, stored
    <3>. QED
      BY <2>12, <3>2, <3>3, <3>4 DEF SelectNextBatch
  <2>13. CASE InsertCandidates(p)
    BY <2>0, <2>13 DEF InsertCandidates, AfterInsert, Go, Throw, Leave, SameMatch,
         ControlOK, CreateOK, MarkOK, ReadOK, LimitOK, Marking, Reading, Saving
  <2>14. CASE CreateBatch(p)
    <3>1. Counted(doc[p]).status = doc[p].status
      BY <2>0, EditedFields
    <3>. QED
      BY <2>0, <2>14, <3>1 DEF CreateBatch, Edit, Throw, Leave, SameMatch,
         ControlOK, CreateOK, MarkOK, ReadOK, LimitOK, Marking, Reading, Saving
  <2>15. CASE SettleJob(p) \/ Fault(p) \/ \E n \in 1..MaxBatches : TakeJob(p, n)
    <3>1. pc'[p] \in Free
      BY <2>0, <2>15 DEF SettleJob, Fault, TakeJob, Free
    <3>. QED
      BY <2>15, <3>1, FreeControl DEF SettleJob, Fault, TakeJob, SameMatch
  <2>. QED
    BY <1>1, <2>1, <2>2, <2>3, <2>4, <2>5, <2>6, <2>7, <2>8, <2>9, <2>10, <2>11, <2>12, <2>13, <2>14, <2>15
       DEF Call, Continue, RunBatch
<1>2. ASSUME (\E n \in 1..MaxBatches : JobDue(n)) \/ (\E c \in candidates : Lapse(c))
      PROVE  Control'
  BY <1>2 DEF JobDue, Lapse, locals, Control, ControlOK, CreateOK, MarkOK, ReadOK, LimitOK
<1>. QED
  BY <1>1, <1>2 DEF Next

-----------------------------------------------------------------------------
THEOREM TypeInvariant == Spec => [](TypeOK /\ Control)
<1>1. Init => TypeOK /\ Control
  BY InitTyped DEF Init, Control, ControlOK, CreateOK, MarkOK, ReadOK, LimitOK,
     Marking, Reading, Saving
<1>2. TypeOK /\ Control /\ [Next]_vars => (TypeOK /\ Control)'
  <2>. SUFFICES ASSUME TypeOK, Control, [Next]_vars PROVE TypeOK' /\ Control'
    OBVIOUS
  <2>1. CASE Next
    <3>1. ASSUME NEW p \in Procs, Call(p) PROVE TypeOK'
      BY <3>1, StartTyped, CancelTyped, ExpandTyped, AnswerTyped DEF Call
    <3>2. ASSUME NEW p \in Procs, Continue(p) PROVE TypeOK'
      <4>1. 1 \in 1..MaxBatches
        BY ConfigAssumption
      <4>2. ASSUME CreateBatch(p) PROVE doc[p].batchCount < MaxBatches
        BY <4>2 DEF CreateBatch, Control, ControlOK, LimitOK
      <4>3. CASE RunBatch(p)
        BY <4>1, <4>2, <4>3, LoadsTyped, ExpireTyped, SelectTyped, InsertTyped, CreateBatchTyped,
           SaveTyped, QueueTyped DEF RunBatch
      <4>4. CASE AnswerSave(p)
        \* AnswerTyped wants a candidate; without one the save changes none.
        <5>1. CASE candidates = {}
          <6>1. candidates' = {}
            BY <4>4, <5>1 DEF AnswerSave
          <6>2. LocalsOK'
            BY <4>4, ReturnTyped, TypeSplit DEF AnswerSave
          <6>. QED
            BY <4>4, <6>1, <6>2, TypeSplit DEF AnswerSave, TypeOK, LocalsOK, StoredOK
        <5>2. CASE candidates # {}
          BY <4>4, <5>2, AnswerTyped
        <5>. QED
          BY <5>1, <5>2
      <4>. QED
        BY <3>2, <4>1, <4>3, <4>4, CreateMatchTyped, MarkTyped, DirectTyped, SaveTyped, CancelTyped,
           QueueTyped DEF Continue
    <3>3. ASSUME NEW p \in Procs, Fault(p) \/ \E n \in 1..MaxBatches : TakeJob(p, n) PROVE TypeOK'
      BY <3>3, FaultTyped, QueueTyped
    <3>4. ASSUME NEW n \in 1..MaxBatches, JobDue(n) PROVE TypeOK'
      BY <3>4, TypeSplit DEF JobDue, TypeOK, locals, JobStatus
    <3>5. ASSUME NEW c \in candidates, Lapse(c) PROVE TypeOK'
      <4>1. [c EXCEPT !.lapsed = TRUE] \in Candidate
        BY DEF TypeOK, Candidate
      <4>. QED
        BY <3>5, <4>1 DEF Lapse, TypeOK, locals
    <3>. QED
      BY <2>1, <3>1, <3>2, <3>3, <3>4, <3>5, ControlStep DEF Next
  <2>2. CASE UNCHANGED vars
    BY <2>2 DEF vars, stored, locals, TypeOK, Control, ControlOK, CreateOK, MarkOK, ReadOK, LimitOK
  <2>. QED
    BY <2>1, <2>2
<1>. QED
  BY <1>1, <1>2, PTL DEF Spec

\* Every variable keeps its type, and no batch index passes MaxBatches.
THEOREM TypeCorrect == Spec => []TypeOK
  BY TypeInvariant, PTL

\* A closed match is never reopened.
THEOREM ClosedStaysClosed == Spec => ClosedIsFinal
<1>1. TypeOK /\ Control /\ [Next]_vars => [match.status \in Terminal => match'.status \in Terminal]_vars
  <2>. SUFFICES ASSUME TypeOK, Control, Next, match.status \in Terminal
                PROVE  match'.status \in Terminal
    OBVIOUS
  <2>1. ASSUME NEW p \in Procs,
               DirectSave(p) \/ ExpandSave(p) \/ SaveMatch(p) \/ Terminate(p)
        PROVE  match'.status \in Terminal
    BY <2>1, SaveKeepsMatch DEF Control
  <2>2. ASSUME NEW p \in Procs, CreateMatch(p) PROVE match' = match
    BY <2>2 DEF CreateMatch, Terminal
  <2>3. \/ match' = match
        \/ \E p \in Procs : CreateMatch(p) \/ DirectSave(p) \/ ExpandSave(p) \/ SaveMatch(p) \/ Terminate(p)
    BY DEF Next, Call, Continue, RunBatch, StartAuto, StartDirect, Start, CancelLoad, ExpandLoad,
       AnswerLoad, MarkMatchingLoad, MarkMatchingSave, DirectInsert, LoadMatch, LoadRequest,
       ExpireStale, SelectNextBatch, InsertCandidates, CreateBatch, ScheduleNextBatch, SettleJob,
       CancelSave, AnswerSave, Fault, TakeJob, JobDue, Lapse, stored
  <2>. QED
    BY <2>1, <2>2, <2>3
<1>. QED
  BY <1>1, TypeInvariant, PTL DEF Spec, ClosedIsFinal

-----------------------------------------------------------------------------
(***************************************************************************)
(* The order of the batches.  The unique (matchId, index) index makes the  *)
(* record of a batch a lock: whoever inserts record n has read a match     *)
(* that counted n batches, and everybody else still running holds a count  *)
(* of at most n, so nobody passes until the match itself counts n + 1.     *)
(***************************************************************************)
Active == Reading \cup {"save"}
Open   == match.mode = "AUTO" \/ match.status = "ACTIVE"

Prefix == \A p \in Procs : pc[p] \in Active => \A n \in 0..(doc[p].batchCount - 1) : Recorded(n)

InFlight ==
    \A p \in Procs : pc[p] = "save" =>
        /\ Open => match.batchCount < doc[p].batchCount
        /\ \A q \in Procs \ {p} : pc[q] \in Active => doc[q].batchCount < doc[p].batchCount

Ordered == CountedBatchesRecorded /\ Prefix /\ InFlight

\* The steps, by what they do to the match, the records and the batch counts
\* held by running processes.
ReadStep(p) ==
    /\ Frame(p) /\ match' = match /\ batches' = batches
    /\ \/ pc'[p] \notin Active
       \/ pc[p] \in Reading /\ pc'[p] \in Reading /\ doc'[p].batchCount = doc[p].batchCount
       \/ pc'[p] \in Reading /\ match.status = "ACTIVE" /\ doc'[p].batchCount = match.batchCount

RecordStep(p) ==
    /\ Frame(p) /\ match' = match
    /\ pc[p] = "record" /\ ~Recorded(doc[p].batchCount)
    /\ batches' = batches \cup
          {[index |-> doc[p].batchCount, radius |-> doc[p].radius, providers |-> pick[p]]}
    /\ pc'[p] = "save" /\ doc'[p].batchCount = doc[p].batchCount + 1

WriteStep(p) ==
    /\ Frame(p) /\ batches' = batches /\ pc'[p] \notin Active
    /\ \/ match.status = "NONE" /\ match'.batchCount = 0
       \/ /\ match.status # "NONE" /\ match'.mode = match.mode
          /\ match'.status = "ACTIVE" => match.status = "ACTIVE"
          /\ \/ match.mode = "DIRECT" /\ match'.status # "ACTIVE"
             \/ pc[p] = "save" /\ match'.batchCount \in {match.batchCount, doc[p].batchCount}
             \/ match'.batchCount = match.batchCount

EnvStep == UNCHANGED <<match, batches, pc, doc>>

LEMMA StepKinds ==
  ASSUME TypeOK, Control, Next
  PROVE  EnvStep \/ \E p \in Procs : ReadStep(p) \/ RecordStep(p) \/ WriteStep(p)
<1>. USE TypeSplit
<1>1. ASSUME NEW p \in Procs, Call(p) \/ Continue(p) \/ Fault(p)
                                \/ \E n \in 1..MaxBatches : TakeJob(p, n)
      PROVE  ReadStep(p) \/ RecordStep(p) \/ WriteStep(p)
  <2>0. /\ ControlOK(p) /\ Frame(p) /\ doc[p] \in MatchDoc
        /\ pc \in [Procs -> Labels] /\ doc \in [Procs -> MatchDoc]
    BY <1>1, StepFrame DEF Control, LocalsOK
  <2>1. CASE StartAuto(p) \/ StartDirect(p)
    BY <2>0, <2>1 DEF StartAuto, StartDirect, Start, Edit, ReadStep, Active, Reading, stored
  <2>2. CASE CancelLoad(p) \/ CancelSave(p) \/ AnswerSave(p) \/ ScheduleNextBatch(p)
    BY <2>0, <2>2 DEF CancelLoad, CancelSave, AnswerSave, ScheduleNextBatch, Go, Return, Leave,
       ReadStep, Active, Reading, stored
  <2>3. CASE \E c \in candidates : AnswerLoad(p, c)
    BY <2>0, <2>3 DEF AnswerLoad, ReadStep, Active, Reading, stored
  <2>4. CASE \E input \in RadiusInputs : ExpandLoad(p, input)
    BY <2>0, <2>4 DEF ExpandLoad, ReadStep, Active, Reading, stored
  <2>5. CASE CreateMatch(p)
    <3>1. CASE match.status # "NONE"
      BY <2>0, <2>5, <3>1 DEF CreateMatch, Return, Leave, ReadStep, Active, Reading
    <3>2. CASE match.status = "NONE"
      BY <2>0, <2>5, <3>2 DEF CreateMatch, WriteStep, Active, Reading, ControlOK, CreateOK
    <3>. QED
      BY <3>1, <3>2
  <2>6. CASE MarkMatchingLoad(p) \/ MarkMatchingSave(p)
    BY <2>0, <2>6 DEF MarkMatchingLoad, MarkMatchingSave, AfterMark, Go, Throw, Leave,
       ReadStep, Active, Reading, stored
  <2>7. CASE DirectInsert(p)
    BY <2>0, <2>7 DEF DirectInsert, Throw, Edit, Leave, ReadStep, Active, Reading
  <2>8. CASE DirectSave(p) \/ ExpandSave(p) \/ SaveMatch(p) \/ Terminate(p)
    <3>1. match' = Saved(p) /\ batches' = batches /\ pc'[p] \notin Active
      BY <2>0, <2>8 DEF DirectSave, ExpandSave, SaveMatch, Terminate, Go, Return, Leave, Active, Reading
    <3>2. /\ match.status # "NONE" /\ match'.mode = match.mode
          /\ match'.status = "ACTIVE" => match.status = "ACTIVE"
      BY <2>0, <2>8, SaveKeepsMatch
    <3>3. match'.batchCount = IF doc[p].batchCount # base[p].batchCount THEN doc[p].batchCount
                                                                        ELSE match.batchCount
      BY <3>1 DEF Saved, SetIfModified
    <3>4. CASE DirectSave(p)
      <4>1. match.mode = "DIRECT" /\ base[p].status = "ACTIVE" /\ doc[p].status = "EXHAUSTED"
        BY <2>0, <3>4 DEF DirectSave, ControlOK, MarkOK, Marking
      <4>2. match'.status = "EXHAUSTED"
        BY <3>1, <4>1 DEF Saved, SetIfModified
      <4>. QED
        BY <2>0, <3>1, <3>2, <4>1, <4>2 DEF WriteStep
    <3>5. CASE SaveMatch(p)
      BY <2>0, <3>1, <3>2, <3>3, <3>5 DEF SaveMatch, WriteStep
    <3>6. CASE ExpandSave(p) \/ Terminate(p)
      <4>1. doc[p].batchCount = base[p].batchCount
        BY <2>0, <3>6 DEF ExpandSave, Terminate, ControlOK, ReadOK, Saving
      <4>. QED
        BY <2>0, <3>1, <3>2, <3>3, <4>1 DEF WriteStep
    <3>. QED
      BY <2>8, <3>4, <3>5, <3>6
  <2>9. CASE LoadMatch(p)
    BY <2>0, <2>9 DEF LoadMatch, Load, Return, Leave, ReadStep, Active, Reading, stored
  <2>10. CASE LoadRequest(p)
    BY <2>0, <2>10 DEF LoadRequest, Go, Edit, ReadStep, Active, Reading, stored
  <2>11. CASE ExpireStale(p)
    BY <2>0, <2>11 DEF ExpireStale, Go, Edit, ReadStep, Active, Reading
  <2>12. CASE SelectNextBatch(p)
    <3>1. doc[p].radius \in Nat
      BY <2>0 DEF MatchDoc
    <3>2. ASSUME NEW r \in Rungs(doc[p].radius), NEW s, Edit(p, [doc[p] EXCEPT !.radius = r], s, "insert")
          PROVE  ReadStep(p)
      <4>1. r \in Nat
        BY <3>1, RadiusTyped
      <4>2. pc'[p] = "insert" /\ doc'[p].batchCount = doc[p].batchCount
        BY <2>0, <3>2, <4>1, EditedFields DEF Edit
      <4>. QED
        BY <2>0, <2>12, <4>2 DEF SelectNextBatch, stored, ReadStep, Reading
    <3>3. ASSUME pc' = [pc EXCEPT ![p] = "terminate"] PROVE ReadStep(p)
      BY <2>0, <2>12, <3>3 DEF SelectNextBatch, stored, ReadStep, Active, Reading
    <3>. QED
      BY <2>12, <3>2, <3>3 DEF SelectNextBatch, Edit
  <2>13. CASE InsertCandidates(p)
    BY <2>0, <2>13 DEF InsertCandidates, AfterInsert, Go, Throw, Leave, ReadStep, Active, Reading
  <2>14. CASE CreateBatch(p)
    <3>1. CASE Recorded(doc[p].batchCount)
      BY <2>0, <2>14, <3>1 DEF CreateBatch, Throw, Leave, ReadStep, Active, Reading
    <3>2. CASE ~Recorded(doc[p].batchCount)
      <4>1. Counted(doc[p]).batchCount = doc[p].batchCount + 1
        BY <2>0, EditedFields
      <4>. QED
        BY <2>0, <2>14, <3>2, <4>1 DEF CreateBatch, Edit, RecordStep
    <3>. QED
      BY <3>1, <3>2
  <2>15. CASE SettleJob(p) \/ Fault(p) \/ \E n \in 1..MaxBatches : TakeJob(p, n)
    BY <2>0, <2>15 DEF SettleJob, Fault, TakeJob, ReadStep, Active, Reading
  <2>. QED
    BY <1>1, <2>1, <2>2, <2>3, <2>4, <2>5, <2>6, <2>7, <2>8, <2>9, <2>10, <2>11, <2>12, <2>13, <2>14, <2>15
       DEF Call, Continue, RunBatch
<1>2. ASSUME (\E n \in 1..MaxBatches : JobDue(n)) \/ (\E c \in candidates : Lapse(c))
      PROVE  EnvStep
  BY <1>2 DEF JobDue, Lapse, locals, EnvStep
<1>. QED
  BY <1>1, <1>2 DEF Next

LEMMA OrderedStep ==
  ASSUME TypeOK, TypeOK', Control, Ordered, Next
  PROVE  Ordered'
<1>0. /\ match.batchCount \in Nat /\ match'.batchCount \in Nat
      /\ \A p \in Procs : doc[p].batchCount \in Nat /\ doc'[p].batchCount \in Nat
  <2>1. \A m \in MatchDoc : m.batchCount \in Nat
    BY Numbers DEF MatchDoc, BatchCount
  <2>2. match \in MatchDoc /\ match' \in MatchDoc
    BY DEF TypeOK
  <2>3. ASSUME NEW p \in Procs PROVE doc[p] \in MatchDoc /\ doc'[p] \in MatchDoc
    BY DEF TypeOK
  <2>. QED
    BY <2>1, <2>2, <2>3
<1>1. CASE EnvStep
  <2>1. CountedBatchesRecorded'
    BY <1>1 DEF EnvStep, Ordered, CountedBatchesRecorded, Recorded
  <2>2. Prefix'
    BY <1>1 DEF EnvStep, Ordered, Prefix, Recorded
  <2>3. InFlight'
    BY <1>1 DEF EnvStep, Ordered, InFlight, Open
  <2>. QED
    BY <2>1, <2>2, <2>3 DEF Ordered
<1>2. ASSUME NEW p \in Procs, ReadStep(p)
      PROVE  Ordered'
  <2>1. CountedBatchesRecorded'
    BY <1>2 DEF ReadStep, Ordered, CountedBatchesRecorded, Recorded
  <2>2. Prefix'
    <3>. SUFFICES ASSUME NEW q \in Procs, pc'[q] \in Active, NEW n \in 0..(doc'[q].batchCount - 1)
                  PROVE  Recorded(n)
      BY <1>2 DEF Prefix, ReadStep, Recorded
    <3>1. CASE q # p
      BY <1>2, <3>1 DEF ReadStep, Frame, Ordered, Prefix
    <3>2. CASE q = p
      BY <1>2, <3>2 DEF ReadStep, Ordered, Prefix, CountedBatchesRecorded, Active
    <3>. QED
      BY <3>1, <3>2
  <2>3. InFlight'
    <3>. SUFFICES ASSUME NEW w \in Procs, pc'[w] = "save"
                  PROVE  /\ Open => match.batchCount < doc'[w].batchCount
                         /\ \A q \in Procs \ {w} : pc'[q] \in Active =>
                               doc'[q].batchCount < doc'[w].batchCount
      BY <1>2 DEF InFlight, ReadStep, Open
    <3>1. w # p
      BY <1>2 DEF ReadStep, Active, Reading
    <3>2. pc[w] = "save" /\ doc'[w] = doc[w]
      BY <1>2, <3>1 DEF ReadStep, Frame
    <3>3. Open => match.batchCount < doc'[w].batchCount
      BY <3>2 DEF Ordered, InFlight
    <3>4. ASSUME NEW q \in Procs \ {w}, pc'[q] \in Active
          PROVE  doc'[q].batchCount < doc'[w].batchCount
      <4>1. CASE q # p
        BY <1>2, <3>2, <3>4, <4>1 DEF ReadStep, Frame, Ordered, InFlight
      <4>2. CASE q = p
        BY <1>2, <3>2, <3>3, <3>4, <4>2 DEF ReadStep, Ordered, InFlight, Open, Active
      <4>. QED
        BY <4>1, <4>2
    <3>. QED
      BY <3>3, <3>4
  <2>. QED
    BY <2>1, <2>2, <2>3 DEF Ordered
<1>3. ASSUME NEW p \in Procs, RecordStep(p)
      PROVE  Ordered'
  <2>0. /\ \A n : Recorded(n) => Recorded(n)'
        /\ \A n : n = doc[p].batchCount => Recorded(n)'
    <3>. DEFINE new == [index |-> doc[p].batchCount, radius |-> doc[p].radius, providers |-> pick[p]]
    <3>1. batches' = batches \cup {new} /\ new.index = doc[p].batchCount
      BY <1>3 DEF RecordStep
    <3>. HIDE DEF new
    <3>. QED
      BY <3>1 DEF Recorded
  <2>1. CountedBatchesRecorded'
    BY <1>3, <2>0 DEF RecordStep, Ordered, CountedBatchesRecorded
  \* Nobody still running, and not the open match, counts more than p did.
  <2>2. \A q \in Procs : pc[q] \in Active => doc[q].batchCount <= doc[p].batchCount
    <3>. SUFFICES ASSUME NEW q \in Procs, pc[q] \in Active, doc[q].batchCount > doc[p].batchCount
                  PROVE  FALSE
      BY <1>0
    <3>1. doc[p].batchCount \in 0..(doc[q].batchCount - 1)
      BY <1>0
    <3>. QED
      BY <1>3, <3>1 DEF RecordStep, Ordered, Prefix
  <2>3. Open => match.batchCount <= doc[p].batchCount
    <3>. SUFFICES ASSUME Open, match.batchCount > doc[p].batchCount PROVE FALSE
      BY <1>0
    <3>1. doc[p].batchCount \in 0..(match.batchCount - 1)
      BY <1>0
    <3>. QED
      BY <1>3, <3>1 DEF RecordStep, Ordered, CountedBatchesRecorded, Open
  <2>4. \A q \in Procs \ {p} : pc[q] # "save"
    <3>. SUFFICES ASSUME NEW q \in Procs \ {p}, pc[q] = "save" PROVE FALSE
      OBVIOUS
    <3>1. doc[p].batchCount < doc[q].batchCount
      BY <1>3 DEF RecordStep, Ordered, InFlight, Active, Reading
    <3>. QED
      BY <1>0, <2>2, <3>1 DEF Active
  <2>5. Prefix'
    <3>. SUFFICES ASSUME NEW q \in Procs, pc'[q] \in Active, NEW n \in 0..(doc'[q].batchCount - 1)
                  PROVE  Recorded(n)'
      BY DEF Prefix
    <3>1. CASE q # p
      BY <1>3, <2>0, <3>1 DEF RecordStep, Frame, Ordered, Prefix
    <3>2. CASE q = p
      <4>1. CASE n = doc[p].batchCount
        BY <2>0, <4>1
      <4>2. CASE n # doc[p].batchCount
        <5>1. n \in 0..(doc[p].batchCount - 1)
          BY <1>0, <1>3, <3>2, <4>2 DEF RecordStep
        <5>. QED
          BY <1>3, <2>0, <5>1 DEF RecordStep, Ordered, Prefix, Active, Reading
      <4>. QED
        BY <4>1, <4>2
    <3>. QED
      BY <3>1, <3>2
  <2>6. InFlight'
    <3>. SUFFICES ASSUME NEW w \in Procs, pc'[w] = "save"
                  PROVE  /\ Open => match.batchCount < doc'[w].batchCount
                         /\ \A q \in Procs \ {w} : pc'[q] \in Active =>
                               doc'[q].batchCount < doc'[w].batchCount
      BY <1>3 DEF InFlight, RecordStep, Open
    <3>1. w = p
      BY <1>3, <2>4 DEF RecordStep, Frame
    <3>2. doc'[p].batchCount = doc[p].batchCount + 1
      BY <1>3 DEF RecordStep
    <3>3. \A q \in Procs \ {p} : pc'[q] = pc[q] /\ doc'[q] = doc[q]
      BY <1>3 DEF RecordStep, Frame
    <3>. QED
      BY <1>0, <2>2, <2>3, <3>1, <3>2, <3>3
  <2>. QED
    BY <2>1, <2>5, <2>6 DEF Ordered
<1>4. ASSUME NEW p \in Procs, WriteStep(p)
      PROVE  Ordered'
  <2>0. /\ \A n : Recorded(n)' <=> Recorded(n)
        /\ \A q \in Procs : pc'[q] \in Active => q # p /\ pc[q] = pc'[q] /\ doc'[q] = doc[q]
    BY <1>4 DEF WriteStep, Recorded, Frame
  <2>1. Prefix'
    BY <2>0 DEF Ordered, Prefix
  <2>2. ASSUME NEW q \in Procs, pc'[q] = "save"
        PROVE  match.status # "NONE"
    BY <2>0, <2>2 DEF Control, ControlOK, ReadOK, Active, Saving
  <2>3. CountedBatchesRecorded'
    <3>. SUFFICES ASSUME Open', NEW n \in 0..(match'.batchCount - 1) PROVE Recorded(n)
      BY <2>0 DEF CountedBatchesRecorded, Open
    <3>1. CASE match.status = "NONE" /\ match'.batchCount = 0
      BY <3>1
    <3>2. CASE match.status # "NONE"
      <4>1. Open
        BY <1>4, <3>2 DEF WriteStep, Open
      <4>2. CASE match'.batchCount = match.batchCount
        BY <4>1, <4>2 DEF Ordered, CountedBatchesRecorded, Open
      <4>3. CASE pc[p] = "save" /\ match'.batchCount = doc[p].batchCount
        BY <4>3 DEF Ordered, Prefix, Active
      <4>4. CASE match.mode = "DIRECT" /\ match'.status # "ACTIVE"
        BY <1>4, <3>2, <4>4 DEF WriteStep, Open
      <4>. QED
        BY <1>4, <3>2, <4>2, <4>3, <4>4 DEF WriteStep
    <3>. QED
      BY <1>4, <3>1, <3>2 DEF WriteStep
  <2>4. InFlight'
    <3>. SUFFICES ASSUME NEW w \in Procs, pc'[w] = "save"
                  PROVE  /\ Open' => match'.batchCount < doc'[w].batchCount
                         /\ \A q \in Procs \ {w} : pc'[q] \in Active =>
                               doc'[q].batchCount < doc'[w].batchCount
      BY DEF InFlight
    <3>1. w # p /\ pc[w] = "save" /\ doc'[w] = doc[w] /\ match.status # "NONE"
      BY <2>0, <2>2 DEF Active
    <3>2. ASSUME NEW q \in Procs \ {w}, pc'[q] \in Active
          PROVE  doc'[q].batchCount < doc'[w].batchCount
      BY <2>0, <3>1, <3>2 DEF Ordered, InFlight
    <3>3. ASSUME Open'
          PROVE  match'.batchCount < doc'[w].batchCount
      <4>1. Open
        BY <1>4, <3>1, <3>3 DEF WriteStep, Open
      <4>2. pc[p] # "save"
        \* Two processes about to save would each count less than the other.
        <5>. SUFFICES ASSUME pc[p] = "save" PROVE FALSE
          OBVIOUS
        <5>1. doc[p].batchCount < doc[w].batchCount /\ doc[w].batchCount < doc[p].batchCount
          BY <3>1 DEF Ordered, InFlight, Active
        <5>. QED
          BY <1>0, <5>1
      <4>3. match'.batchCount = match.batchCount
        BY <1>4, <3>1, <3>3, <4>2 DEF WriteStep, Open
      <4>. QED
        BY <3>1, <4>1, <4>3 DEF Ordered, InFlight
    <3>. QED
      BY <3>2, <3>3
  <2>. QED
    BY <2>1, <2>3, <2>4 DEF Ordered
<1>. QED
  BY <1>1, <1>2, <1>3, <1>4, StepKinds

THEOREM OrderInvariant == Spec => []Ordered
<1>1. Init => Ordered
  BY Numbers DEF Init, Ordered, CountedBatchesRecorded, Prefix, InFlight, NoMatch, Active, Reading
<1>2. TypeOK /\ TypeOK' /\ Control /\ Ordered /\ [Next]_vars => Ordered'
  <2>1. ASSUME Ordered, UNCHANGED vars PROVE Ordered'
    BY <2>1 DEF vars, stored, locals, Ordered, CountedBatchesRecorded, Prefix, InFlight, Recorded, Open
  <2>. QED
    BY <2>1, OrderedStep
<1>. QED
  BY <1>1, <1>2, TypeInvariant, PTL DEF Spec

\* Every batch an open or AUTO match counts has its audit record.
THEOREM CountedAreRecorded == Spec => []CountedBatchesRecorded
  BY OrderInvariant, PTL DEF Ordered

\* No two runs of runBatch are ever both about to save the batch they sent.
THEOREM BatchesExclude == Spec => []OneBatchInFlight
<1>1. TypeOK /\ Ordered => OneBatchInFlight
  <2>. SUFFICES ASSUME TypeOK, Ordered, NEW p \in Procs, NEW q \in Procs,
                       pc[p] = "save", pc[q] = "save", p # q
                PROVE  FALSE
    BY DEF OneBatchInFlight
  <2>1. doc[p].batchCount \in Nat /\ doc[q].batchCount \in Nat
    BY Numbers DEF TypeOK, MatchDoc, BatchCount
  <2>2. doc[p].batchCount < doc[q].batchCount /\ doc[q].batchCount < doc[p].batchCount
    BY DEF Ordered, InFlight, Active
  <2>. QED
    BY <2>1, <2>2
<1>. QED
  BY <1>1, TypeInvariant, OrderInvariant, PTL

\* No save takes back a batch of an AUTO match: only a process about to save a
\* batch writes another count, and it is above the stored one.
THEOREM CountGrows == Spec => BatchCountMonotone
<1>1. TypeOK /\ TypeOK' /\ Control /\ Ordered /\ [Next]_vars =>
        [match.status # "NONE" /\ match.mode = "AUTO" => match'.batchCount >= match.batchCount]_vars
  <2>. SUFFICES ASSUME TypeOK, TypeOK', Control, Ordered, Next,
                       match.status # "NONE", match.mode = "AUTO"
                PROVE  match'.batchCount >= match.batchCount
    OBVIOUS
  <2>1. match.batchCount \in Nat
    BY Numbers DEF TypeOK, MatchDoc, BatchCount
  <2>2. CASE match' = match
    BY <2>1, <2>2
  <2>3. ASSUME NEW p \in Procs, WriteStep(p)
        PROVE  match'.batchCount >= match.batchCount
    <3>1. CASE match'.batchCount = match.batchCount
      BY <2>1, <3>1
    <3>2. CASE pc[p] = "save" /\ match'.batchCount = doc[p].batchCount
      <4>1. match.batchCount < doc[p].batchCount
        BY <3>2 DEF Ordered, InFlight, Open
      <4>2. doc[p].batchCount \in Nat
        BY Numbers DEF TypeOK, MatchDoc, BatchCount
      <4>. QED
        BY <2>1, <3>2, <4>1, <4>2
    <3>. QED
      BY <2>3, <3>1, <3>2 DEF WriteStep
  <2>. QED
    BY <2>2, <2>3, StepKinds DEF EnvStep, ReadStep, RecordStep
<1>. QED
  BY <1>1, TypeInvariant, OrderInvariant, PTL DEF Spec, BatchCountMonotone

-----------------------------------------------------------------------------
(***************************************************************************)
(* The candidacies.  A step writes statuses or adds providers the index    *)
(* did not refuse: it never drops a candidacy nor moves it to another      *)
(* batch.                                                                  *)
(***************************************************************************)
Kept == \A c \in candidates : \E d \in candidates' : d.provider = c.provider /\ d.batch = c.batch

\* A step that only writes statuses adds none either.
Came == \A d \in candidates' : \E c \in candidates : d.provider = c.provider /\ d.batch = c.batch

AnswerKinds == {"NOTIFIED", "VIEWED", "DECLINED", "EXPIRED"}

LEMMA RestatusedFields ==
  ASSUME NEW c \in Candidate, NEW s \in AnswerKinds
  PROVE  /\ [c EXCEPT !.status = s].provider = c.provider
         /\ [c EXCEPT !.status = s].batch = c.batch
         /\ [c EXCEPT !.lapsed = TRUE].provider = c.provider
         /\ [c EXCEPT !.lapsed = TRUE].batch = c.batch
  BY DEF Candidate

LEMMA NewFields ==
  ASSUME NEW chosen, NEW n, NEW c \in NewCandidates(chosen, n)
  PROVE  c.provider \in chosen /\ c.batch = n
  BY DEF NewCandidates

LEMMA InsertKeeps ==
  ASSUME NEW chosen, NEW n, chosen \cap Contacted = {},
         candidates' = candidates \cup NewCandidates(chosen, n)
  PROVE  Kept /\ (ContactedOnce => ContactedOnce')
<1>1. \A c \in NewCandidates(chosen, n) : c.provider \in chosen
  BY NewFields
<1>2. ASSUME NEW c \in NewCandidates(chosen, n), NEW d \in NewCandidates(chosen, n),
             c.provider = d.provider
      PROVE  c = d
  <2>. DEFINE new(q) == [provider |-> q, batch |-> n, status |-> "NOTIFIED", lapsed |-> FALSE]
  <2>1. PICK q \in chosen : c = new(q)
    BY DEF NewCandidates
  <2>2. PICK r \in chosen : d = new(r)
    BY DEF NewCandidates
  <2>3. c.provider = q /\ d.provider = r
    BY <2>1, <2>2
  <2>. QED
    BY <1>2, <2>1, <2>2, <2>3
<1>3. \A c \in candidates : c.provider \notin chosen
  BY DEF Contacted
<1>. QED
  BY <1>1, <1>2, <1>3 DEF Kept, ContactedOnce

LEMMA ExpireKeeps ==
  ASSUME TypeOK, NEW p \in Procs, ExpireStale(p)
  PROVE  Kept /\ Came /\ (ContactedOnce => ContactedOnce')
<1>. DEFINE f(c) == IF c.status = "NOTIFIED" /\ c.lapsed THEN [c EXCEPT !.status = "EXPIRED"] ELSE c
<1>1. candidates' = {f(c) : c \in candidates}
  BY DEF ExpireStale
<1>2. \A c \in candidates : f(c).provider = c.provider /\ f(c).batch = c.batch
  BY RestatusedFields DEF TypeOK, AnswerKinds
<1>. HIDE DEF f
<1>. QED
  BY <1>1, <1>2 DEF Kept, Came, ContactedOnce

LEMMA AnswerKeeps ==
  ASSUME TypeOK, NEW p \in Procs, AnswerSave(p)
  PROVE  Kept /\ Came /\ (ContactedOnce => ContactedOnce')
<1>. DEFINE s == IF pc[p] = "viewSave" THEN "VIEWED" ELSE "DECLINED"
            f(c) == IF c.provider \in pick[p] THEN [c EXCEPT !.status = s] ELSE c
<1>1. candidates' = {f(c) : c \in candidates}
  BY DEF AnswerSave
<1>2. \A c \in candidates : f(c).provider = c.provider /\ f(c).batch = c.batch
  BY RestatusedFields DEF TypeOK, AnswerKinds
<1>. HIDE DEF f
<1>. QED
  BY <1>1, <1>2 DEF Kept, Came, ContactedOnce

LEMMA LapseKeeps ==
  ASSUME TypeOK, NEW c \in candidates, Lapse(c)
  PROVE  Kept /\ Came /\ (ContactedOnce => ContactedOnce')
<1>. DEFINE d == [c EXCEPT !.lapsed = TRUE]
<1>1. candidates' = (candidates \ {c}) \cup {d}
  BY DEF Lapse
<1>2. d.provider = c.provider /\ d.batch = c.batch
  BY RestatusedFields DEF TypeOK, AnswerKinds
<1>. HIDE DEF d
<1>. QED
  BY <1>1, <1>2 DEF Kept, Came, ContactedOnce

LEMMA CandidatesKept ==
  ASSUME TypeOK, Next
  PROVE  Kept /\ (ContactedOnce => ContactedOnce')
<1>1. CASE candidates' = candidates
  BY <1>1 DEF Kept, ContactedOnce
<1>2. ASSUME NEW p \in Procs, DirectInsert(p), candidates' # candidates
      PROVE  Kept /\ (ContactedOnce => ContactedOnce')
  <2>1. pick[p] \cap Contacted = {} /\ candidates' = candidates \cup NewCandidates(pick[p], 0)
    BY <1>2 DEF DirectInsert, Refused
  <2>. QED
    BY <2>1, InsertKeeps
<1>3. ASSUME NEW p \in Procs, InsertCandidates(p)
      PROVE  Kept /\ (ContactedOnce => ContactedOnce')
  <2>. DEFINE chosen == pick[p] \ Refused(pick[p])
  <2>1. chosen \cap Contacted = {}
    BY DEF Refused
  <2>2. candidates' = candidates \cup NewCandidates(chosen, doc[p].batchCount)
    BY <1>3 DEF InsertCandidates
  <2>. HIDE DEF chosen
  <2>. QED
    BY <2>1, <2>2, InsertKeeps
<1>4. \/ candidates' = candidates
      \/ \E p \in Procs : DirectInsert(p) \/ InsertCandidates(p) \/ ExpireStale(p) \/ AnswerSave(p)
      \/ \E c \in candidates : Lapse(c)
  BY DEF Next, Call, Continue, RunBatch, StartAuto, StartDirect, Start, CancelLoad, ExpandLoad,
     AnswerLoad, CreateMatch, MarkMatchingLoad, MarkMatchingSave, DirectSave, ExpandSave, LoadMatch,
     LoadRequest, SelectNextBatch, CreateBatch, SaveMatch, Terminate, ScheduleNextBatch, SettleJob,
     CancelSave, Fault, TakeJob, JobDue, stored
<1>. QED
  BY <1>1, <1>2, <1>3, <1>4, ExpireKeeps, AnswerKeeps, LapseKeeps

\* Whatever overlaps, a provider is contacted at most once for a match.
THEOREM NobodyTwice == Spec => []ContactedOnce
<1>1. Init => ContactedOnce
  BY DEF Init, ContactedOnce
<1>2. TypeOK /\ ContactedOnce /\ [Next]_vars => ContactedOnce'
  <2>1. ASSUME ContactedOnce, UNCHANGED vars PROVE ContactedOnce'
    BY <2>1 DEF vars, stored, ContactedOnce
  <2>. QED
    BY <2>1, CandidatesKept
<1>. QED
  BY <1>1, <1>2, TypeInvariant, PTL DEF Spec

\* A process about to record a batch has contacted everybody in it.
Inserted ==
    \A p \in Procs : pc[p] = "record" => \A q \in pick[p] :
        \E c \in candidates : c.provider = q /\ c.batch = doc[p].batchCount

Truthful == RecordsNameContacted /\ Inserted

\* Only the call after a complete insertion reaches the record of a batch.
LEMMA RecordEntry ==
  ASSUME TypeOK, NEW p \in Procs, pc'[p] = "record",
         Call(p) \/ Continue(p) \/ Fault(p) \/ \E n \in 1..MaxBatches : TakeJob(p, n)
  PROVE  InsertCandidates(p) /\ Refused(pick[p]) = {} /\ doc' = doc /\ pick' = pick
<1>. USE TypeSplit
<1>0. pc \in [Procs -> Labels]
  BY DEF LocalsOK
<1>1. ASSUME Call(p) PROVE FALSE
  BY <1>0, <1>1 DEF Call, StartAuto, StartDirect, Start, CancelLoad, ExpandLoad, AnswerLoad, Edit, Go
<1>2. ASSUME CreateMatch(p) \/ MarkMatchingLoad(p) \/ MarkMatchingSave(p) PROVE FALSE
  BY <1>0, <1>2 DEF CreateMatch, MarkMatchingLoad, MarkMatchingSave, AfterMark, Go, Return, Throw, Leave
<1>3. ASSUME DirectInsert(p) \/ DirectSave(p) \/ ExpandSave(p) PROVE FALSE
  BY <1>0, <1>3 DEF DirectInsert, DirectSave, ExpandSave, Edit, Return, Throw, Leave
<1>4. ASSUME LoadMatch(p) \/ LoadRequest(p) \/ ExpireStale(p) PROVE FALSE
  BY <1>0, <1>4 DEF LoadMatch, LoadRequest, ExpireStale, Load, Go, Edit, Return, Leave
<1>5. ASSUME SelectNextBatch(p) PROVE FALSE
  BY <1>0, <1>5 DEF SelectNextBatch, Edit
<1>6. ASSUME CreateBatch(p) \/ SaveMatch(p) \/ Terminate(p) \/ ScheduleNextBatch(p) PROVE FALSE
  BY <1>0, <1>6 DEF CreateBatch, SaveMatch, Terminate, ScheduleNextBatch, Go, Edit, Return, Throw, Leave
<1>7. ASSUME SettleJob(p) \/ CancelSave(p) \/ AnswerSave(p) PROVE FALSE
  BY <1>0, <1>7 DEF SettleJob, CancelSave, AnswerSave, Return, Leave
<1>8. ASSUME Fault(p) \/ \E n \in 1..MaxBatches : TakeJob(p, n) PROVE FALSE
  BY <1>0, <1>8 DEF Fault, TakeJob
<1>9. InsertCandidates(p)
  BY <1>1, <1>2, <1>3, <1>4, <1>5, <1>6, <1>7, <1>8 DEF Continue, RunBatch
<1>. QED
  BY <1>0, <1>9 DEF InsertCandidates, AfterInsert, Go, Throw, Leave

LEMMA TruthfulStep ==
  ASSUME TypeOK, Truthful, Next
  PROVE  Truthful'
<1>. USE TypeSplit
<1>1. Kept
  BY CandidatesKept
<1>2. Inserted'
  <2>. SUFFICES ASSUME NEW q \in Procs, pc'[q] = "record", NEW x \in pick'[q]
                PROVE  \E c \in candidates' : c.provider = x /\ c.batch = doc'[q].batchCount
    BY DEF Inserted
  <2>1. CASE pc[q] = "record" /\ doc'[q] = doc[q] /\ pick'[q] = pick[q]
    BY <1>1, <2>1 DEF Truthful, Inserted, Kept
  <2>2. CASE Refused(pick[q]) = {} /\ InsertCandidates(q) /\ doc' = doc /\ pick' = pick
    <3>. DEFINE new == [provider |-> x, batch |-> doc[q].batchCount, status |-> "NOTIFIED", lapsed |-> FALSE]
    <3>1. new \in candidates'
      BY <2>2 DEF InsertCandidates, NewCandidates
    <3>2. new.provider = x /\ new.batch = doc'[q].batchCount
      BY <2>2
    <3>. QED
      BY <3>1, <3>2
  <2>3. ASSUME NEW p \in Procs, Call(p) \/ Continue(p) \/ Fault(p)
                                  \/ \E n \in 1..MaxBatches : TakeJob(p, n)
        PROVE  \/ pc[q] = "record" /\ doc'[q] = doc[q] /\ pick'[q] = pick[q]
               \/ Refused(pick[q]) = {} /\ InsertCandidates(q) /\ doc' = doc /\ pick' = pick
    BY <2>3, StepFrame, RecordEntry DEF Frame
  <2>4. ASSUME (\E n \in 1..MaxBatches : JobDue(n)) \/ (\E c \in candidates : Lapse(c))
        PROVE  pc[q] = "record" /\ doc'[q] = doc[q] /\ pick'[q] = pick[q]
    BY <2>4 DEF JobDue, Lapse, locals
  <2>. QED
    BY <2>1, <2>2, <2>3, <2>4 DEF Next
<1>3. RecordsNameContacted'
  <2>1. CASE batches' = batches
    BY <1>1, <2>1 DEF Truthful, RecordsNameContacted, Kept
  <2>2. ASSUME NEW p \in Procs, CreateBatch(p), batches' # batches
        PROVE  RecordsNameContacted'
    <3>. DEFINE new == [index |-> doc[p].batchCount, radius |-> doc[p].radius, providers |-> pick[p]]
    <3>1. batches' = batches \cup {new} /\ pc[p] = "record"
      BY <2>2 DEF CreateBatch
    <3>2. new.providers = pick[p] /\ new.index = doc[p].batchCount
      OBVIOUS
    <3>. HIDE DEF new
    <3>. QED
      BY <1>1, <3>1, <3>2 DEF Truthful, Inserted, RecordsNameContacted, Kept
  <2>3. batches' = batches \/ \E p \in Procs : CreateBatch(p)
    BY DEF Next, Call, Continue, RunBatch, StartAuto, StartDirect, Start, CancelLoad, ExpandLoad,
       AnswerLoad, CreateMatch, MarkMatchingLoad, MarkMatchingSave, DirectInsert, DirectSave,
       ExpandSave, LoadMatch, LoadRequest, ExpireStale, SelectNextBatch, InsertCandidates, SaveMatch,
       Terminate, ScheduleNextBatch, SettleJob, CancelSave, AnswerSave, Fault, TakeJob, JobDue,
       Lapse, stored
  <2>. QED
    BY <2>1, <2>2, <2>3
<1>. QED
  BY <1>2, <1>3 DEF Truthful

LEMMA TruthfulAlways == Spec => []Truthful
<1>1. Init => Truthful
  BY DEF Init, Truthful, RecordsNameContacted, Inserted
<1>2. TypeOK /\ Truthful /\ [Next]_vars => Truthful'
  <2>1. ASSUME Truthful, UNCHANGED vars PROVE Truthful'
    BY <2>1 DEF vars, stored, locals, Truthful, RecordsNameContacted, Inserted
  <2>. QED
    BY <2>1, TruthfulStep
<1>. QED
  BY <1>1, <1>2, TypeInvariant, PTL DEF Spec

\* The audit trail never claims a provider who was not contacted in that batch.
THEOREM RecordsAreTrue == Spec => []RecordsNameContacted
  BY TruthfulAlways, PTL DEF Truthful

-----------------------------------------------------------------------------
(***************************************************************************)
(* The audit trail implements the abstract progressive dispatch: the only  *)
(* step that is not a stutter is the record of a batch, and it records the *)
(* next index, with few providers, whom no earlier record names.           *)
(***************************************************************************)
\* The records are indexed without gap or repetition.
Lined == /\ IsFiniteSet(batches)
         /\ \A a, b \in batches : a.index = b.index => a = b
         /\ \A n \in Nat : Recorded(n) <=> n < WaveCount

\* The providers about to be contacted fit a batch.
Fitting == \A p \in Procs : pc[p] \in {"insert", "record"} => FitsBatch(pick[p])

Trail == [i \in 1..WaveCount |-> Wave(i - 1)]

LEMMA FittingStep ==
  ASSUME TypeOK, Fitting, Next
  PROVE  Fitting'
<1>. USE TypeSplit
<1>0. pc \in [Procs -> Labels] /\ pick \in [Procs -> SUBSET Providers]
  BY DEF LocalsOK
<1>. SUFFICES ASSUME NEW q \in Procs, pc'[q] \in {"insert", "record"} PROVE FitsBatch(pick'[q])
  BY DEF Fitting, FitsBatch
<1>1. CASE pc[q] \in {"insert", "record"} /\ pick'[q] = pick[q]
  BY <1>1 DEF Fitting
<1>2. CASE SelectNextBatch(q)
  BY <1>0, <1>2 DEF SelectNextBatch, Edit
<1>3. ASSUME Call(q) PROVE FALSE
  BY <1>0, <1>3 DEF Call, StartAuto, StartDirect, Start, CancelLoad, ExpandLoad, AnswerLoad, Edit, Go
<1>4. ASSUME CreateMatch(q) \/ MarkMatchingLoad(q) \/ MarkMatchingSave(q) PROVE FALSE
  BY <1>0, <1>4 DEF CreateMatch, MarkMatchingLoad, MarkMatchingSave, AfterMark, Go, Return, Throw, Leave
<1>5. ASSUME DirectInsert(q) \/ DirectSave(q) \/ ExpandSave(q) PROVE FALSE
  BY <1>0, <1>5 DEF DirectInsert, DirectSave, ExpandSave, Edit, Return, Throw, Leave
<1>6. ASSUME LoadMatch(q) \/ LoadRequest(q) \/ ExpireStale(q) PROVE FALSE
  BY <1>0, <1>6 DEF LoadMatch, LoadRequest, ExpireStale, Load, Go, Edit, Return, Leave
<1>7. ASSUME CreateBatch(q) \/ SaveMatch(q) \/ Terminate(q) \/ ScheduleNextBatch(q) PROVE FALSE
  BY <1>0, <1>7 DEF CreateBatch, SaveMatch, Terminate, ScheduleNextBatch, Go, Edit, Return, Throw, Leave
<1>8. ASSUME SettleJob(q) \/ CancelSave(q) \/ AnswerSave(q) PROVE FALSE
  BY <1>0, <1>8 DEF SettleJob, CancelSave, AnswerSave, Return, Leave
<1>9. ASSUME Fault(q) \/ \E n \in 1..MaxBatches : TakeJob(q, n) PROVE FALSE
  BY <1>0, <1>9 DEF Fault, TakeJob
<1>10. ASSUME InsertCandidates(q) PROVE pc[q] \in {"insert", "record"} /\ pick'[q] = pick[q]
  BY <1>0, <1>10 DEF InsertCandidates, AfterInsert, Go, Throw, Leave
<1>11. ASSUME Continue(q) PROVE FitsBatch(pick'[q])
  BY <1>1, <1>2, <1>4, <1>5, <1>6, <1>7, <1>8, <1>10, <1>11 DEF Continue, RunBatch
<1>12. ASSUME NEW p \in Procs, p # q, Call(p) \/ Continue(p) \/ Fault(p)
                                     \/ \E n \in 1..MaxBatches : TakeJob(p, n)
       PROVE  FitsBatch(pick'[q])
  BY <1>1, <1>12, StepFrame DEF Frame
<1>13. ASSUME (\E n \in 1..MaxBatches : JobDue(n)) \/ (\E c \in candidates : Lapse(c))
       PROVE  FitsBatch(pick'[q])
  BY <1>1, <1>13 DEF JobDue, Lapse, locals
<1>. QED
  BY <1>3, <1>9, <1>11, <1>12, <1>13 DEF Next

LEMMA TrailTyped ==
  ASSUME TypeOK, Lined
  PROVE  /\ WaveCount \in Nat /\ Len(Trail) = WaveCount
         /\ \A n \in 0..(WaveCount - 1) : \E b \in batches : b.index = n /\ Wave(n) = b.providers
         /\ \A b \in batches : Wave(b.index) = b.providers
<1>1. WaveCount \in Nat
  BY FS_CardinalityType DEF Lined, WaveCount
<1>2. Len(Trail) = WaveCount
  BY <1>1 DEF Trail
<1>3. \A b \in batches : Wave(b.index) = b.providers
  BY DEF Wave, Lined
<1>4. \A n \in 0..(WaveCount - 1) : \E b \in batches : b.index = n /\ Wave(n) = b.providers
  BY <1>1, <1>3 DEF Lined, Recorded
<1>. QED
  BY <1>1, <1>2, <1>3, <1>4

\* The record made is the next one, and the earlier ones stay.
LEMMA RecordIsNext ==
  ASSUME TypeOK, Control, Ordered, Lined, NEW p \in Procs, RecordStep(p)
  PROVE  /\ Lined' /\ doc[p].batchCount = WaveCount /\ WaveCount < MaxBatches
         /\ WaveCount' = WaveCount + 1
         /\ Trail' = Append(Trail, pick[p])
<1>0. WaveCount \in Nat /\ MaxBatches \in Nat
  BY TrailTyped, Numbers
<1>1. PICK k \in Nat, chosen \in SUBSET Providers : k = doc[p].batchCount /\ chosen = pick[p]
  BY Numbers, TypeSplit DEF LocalsOK, MatchDoc, BatchCount
<1>2. PICK new : /\ pc[p] = "record" /\ ~Recorded(k) /\ batches' = batches \cup {new}
                 /\ new.index = k /\ new.providers = chosen
  <2>. DEFINE record == [index |-> k, radius |-> doc[p].radius, providers |-> chosen]
  <2>1. pc[p] = "record" /\ ~Recorded(k) /\ batches' = batches \cup {record}
    BY <1>1 DEF RecordStep
  <2>2. record.index = k /\ record.providers = chosen
    OBVIOUS
  <2>. HIDE DEF record
  <2>. QED
    BY <2>1, <2>2
<1>3. \A n \in 0..(k - 1) : Recorded(n)
  BY <1>1, <1>2 DEF Ordered, Prefix, Active, Reading
<1>4. k = WaveCount
  <2>1. ~(k < WaveCount)
    BY <1>1, <1>2 DEF Lined
  <2>2. ~(k > WaveCount)
    <3>1. ~Recorded(WaveCount)
      BY <1>0 DEF Lined
    <3>. QED
      BY <1>0, <1>1, <1>3, <3>1
  <2>. QED
    BY <1>0, <1>1, <2>1, <2>2
<1>5. k < MaxBatches
  BY <1>1, <1>2 DEF Control, ControlOK, LimitOK
<1>6. new \notin batches
  BY <1>2 DEF Recorded
<1>7. IsFiniteSet(batches') /\ WaveCount' = WaveCount + 1
  BY <1>2, <1>6, FS_AddElement DEF Lined, WaveCount
<1>8. Lined'
  <2>1. \A n \in Nat : Recorded(n)' <=> Recorded(n) \/ n = k
    BY <1>2 DEF Recorded
  <2>2. \A n \in Nat : Recorded(n)' <=> n < WaveCount'
    BY <1>0, <1>4, <1>7, <2>1 DEF Lined
  <2>3. \A a, b \in batches' : a.index = b.index => a = b
    BY <1>2 DEF Lined, Recorded
  <2>. QED
    BY <1>7, <2>2, <2>3 DEF Lined
<1>9. \A n \in 0..(WaveCount - 1) : Wave(n)' = Wave(n)
  <2>. SUFFICES ASSUME NEW n \in 0..(WaveCount - 1) PROVE Wave(n)' = Wave(n)
    OBVIOUS
  <2>1. PICK b \in batches : b.index = n /\ Wave(n) = b.providers
    BY TrailTyped
  <2>2. b \in batches' /\ \A a \in batches' : a.index = n => a = b
    BY <1>2, <1>8, <2>1 DEF Lined
  <2>3. (CHOOSE a \in batches' : a.index = n) = b
    BY <2>1, <2>2
  <2>. QED
    BY <2>1, <2>3 DEF Wave
<1>10. Wave(k)' = chosen
  <2>1. new \in batches' /\ \A a \in batches' : a.index = k => a = new
    BY <1>2, <1>8 DEF Lined
  <2>2. (CHOOSE a \in batches' : a.index = k) = new
    BY <1>2, <2>1
  <2>. QED
    BY <1>2, <2>2 DEF Wave
<1>11. Trail' = Append(Trail, chosen)
  <2>. DEFINE S == SUBSET Providers
              f(i) == Wave(i - 1)
              g(i) == Wave(i - 1)'
  <2>1. \A i \in 1..k : Wave(i - 1) \in S
    <3>1. \A b \in batches : b.providers \in S
      BY DEF TypeOK, Batch
    <3>2. \A i \in 1..k : i - 1 \in 0..(k - 1)
      BY <1>1
    <3>. QED
      BY <1>4, <3>1, <3>2, TrailTyped
  <2>2. \A i \in 1..k : g(i) = f(i)
    BY <1>1, <1>4, <1>9
  <2>3. g(k + 1) = chosen
    BY <1>1, <1>10
  <2>. HIDE DEF f, g
  <2>4. Trail = [i \in 1..k |-> f(i)] /\ Trail' = [i \in 1..(k + 1) |-> g(i)]
    BY <1>4, <1>7 DEF Trail, f, g
  <2>. HIDE DEF S
  <2>5. k \in Nat /\ chosen \in S /\ \A i \in 1..k : f(i) \in S
    BY <1>1, <2>1 DEF S, f
  <2>6. Trail \in Seq(S) /\ Len(Trail) = k
    BY <2>4, <2>5
  <2>7. \A i \in 1..(k + 1) : g(i) \in S
    BY <2>2, <2>3, <2>5
  <2>8. Trail' \in Seq(S) /\ Len(Trail') = k + 1
    BY <2>4, <2>5, <2>7
  <2>9. /\ Append(Trail, chosen) \in Seq(S) /\ Len(Append(Trail, chosen)) = k + 1
        /\ \A i \in 1..k : Append(Trail, chosen)[i] = Trail[i]
        /\ Append(Trail, chosen)[k + 1] = chosen
    BY <2>5, <2>6, AppendProperties
  <2>10. \A i \in 1..(k + 1) : Trail'[i] = Append(Trail, chosen)[i]
    BY <2>2, <2>3, <2>4, <2>5, <2>9
  <2>. QED
    BY <2>5, <2>8, <2>9, <2>10, SeqEqual
<1>. QED
  BY <1>1, <1>4, <1>5, <1>7, <1>8, <1>11

\* Nobody recorded before is about to be recorded.
LEMMA RecordIsFresh ==
  ASSUME TypeOK, ContactedOnce, Truthful, NEW p \in Procs, RecordStep(p),
         NEW b \in batches, NEW q \in b.providers, q \in pick[p]
  PROVE  FALSE
<1>1. pc[p] = "record" /\ b.index # doc[p].batchCount
  BY DEF RecordStep, Recorded
<1>2. PICK c \in candidates : c.provider = q /\ c.batch = b.index
  BY DEF Truthful, RecordsNameContacted
<1>3. PICK d \in candidates : d.provider = q /\ d.batch = doc[p].batchCount
  BY <1>1 DEF Truthful, Inserted
<1>. QED
  BY <1>1, <1>2, <1>3 DEF ContactedOnce

\* Cardinality, as the abstract module reaches it.
LEMMA SameCardinality == ASSUME NEW S PROVE Waves!Cardinality(S) = Cardinality(S)
BY DEF Waves!Cardinality, Cardinality

LEMMA RecordSendsWave ==
  ASSUME TypeOK, Control, Ordered, Lined, ContactedOnce, Truthful, Fitting,
         NEW p \in Procs, RecordStep(p)
  PROVE  Waves!Next
<1>1. Trail' = Append(Trail, pick[p]) /\ WaveCount < MaxBatches
  BY RecordIsNext
<1>2. pick[p] \in SUBSET Providers /\ FitsBatch(pick[p])
  BY DEF RecordStep, Fitting, TypeOK
<1>3. WaveCount \in Nat /\ Len(Trail) = WaveCount
  BY TrailTyped
<1>4. pick[p] \cap Waves!Reached = {}
  <2>. SUFFICES ASSUME NEW i \in 1..WaveCount, NEW q \in Wave(i - 1), q \in pick[p]
                PROVE  FALSE
    BY <1>3 DEF Waves!Reached, Trail
  <2>1. i - 1 \in 0..(WaveCount - 1)
    BY <1>3
  <2>2. PICK b \in batches : b.index = i - 1 /\ Wave(i - 1) = b.providers
    BY <2>1, TrailTyped
  <2>. QED
    BY <2>2, RecordIsFresh
<1>5. Waves!SendWave(pick[p])
  <2>1. /\ Len(Trail) < MaxBatches
        /\ pick[p] # {} /\ Cardinality(pick[p]) <= BatchSize
    BY <1>1, <1>2, <1>3 DEF FitsBatch
  <2>2. Trail' = Append(Trail, pick[p])
    BY <1>1
  <2>. QED
    BY <1>4, <2>1, <2>2, SameCardinality, Zenon DEF Waves!SendWave, Trail
<1>. QED
  BY <1>2, <1>5 DEF Waves!Next

LEMMA OtherStepsStutter ==
  ASSUME batches' = batches
  PROVE  Trail' = Trail /\ (Lined => Lined')
BY DEF Trail, Wave, WaveCount, Lined, Recorded

LEMMA TrailStep ==
  ASSUME TypeOK, Control, Ordered, Lined, ContactedOnce, Truthful, Fitting, [Next]_vars
  PROVE  /\ Lined' /\ Fitting'
         /\ Waves!Next \/ Trail' = Trail
<1>1. CASE UNCHANGED vars
  <2>1. batches' = batches /\ Fitting'
    BY <1>1 DEF vars, stored, locals, Fitting
  <2>. QED
    BY <2>1, OtherStepsStutter
<1>2. CASE Next
  <2>1. Fitting'
    BY <1>2, FittingStep
  <2>2. CASE batches' = batches
    BY <2>1, <2>2, OtherStepsStutter
  <2>3. ASSUME NEW p \in Procs, RecordStep(p) PROVE Lined' /\ Waves!Next
    BY <2>3, RecordIsNext, RecordSendsWave
  <2>4. batches' = batches \/ \E p \in Procs : RecordStep(p)
    BY <1>2, StepKinds DEF EnvStep, ReadStep, WriteStep, stored
  <2>. QED
    BY <2>1, <2>2, <2>3, <2>4
<1>. QED
  BY <1>1, <1>2

\* Whatever runs at the same time and wherever it is cut short, the records of
\* a match are the waves of the abstract progressive dispatch.
THEOREM TrailIsProgressive == Spec => AuditTrailIsProgressive
<1>1. Init => Waves!Init /\ Lined /\ Fitting
  <2>. SUFFICES ASSUME Init PROVE Waves!Init /\ Lined /\ Fitting
    OBVIOUS
  <2>1. batches = {} /\ WaveCount = 0 /\ IsFiniteSet(batches)
    BY FS_EmptySet DEF Init, WaveCount
  <2>2. Waves!Init
    BY <2>1 DEF Waves!Init
  <2>3. Lined
    BY <2>1 DEF Lined, Recorded
  <2>. QED
    BY <2>2, <2>3 DEF Fitting, Init
<1>2. TypeOK /\ Control /\ Ordered /\ Lined /\ ContactedOnce /\ Truthful /\ Fitting /\ [Next]_vars
        => Lined' /\ Fitting' /\ [Waves!Next]_Trail
  BY TrailStep
<1>3. [Waves!Next]_Trail => [Waves!Next]_([i \in 1..WaveCount |-> Wave(i - 1)])
  BY DEF Trail
<1>. QED
  BY <1>1, <1>2, <1>3, TypeInvariant, OrderInvariant, NobodyTwice, TruthfulAlways,
     PTL DEF Spec, AuditTrailIsProgressive, Waves!Spec

-----------------------------------------------------------------------------
(***************************************************************************)
(* The chain of batches.  Where nobody widens the search and no call       *)
(* fails, one process at a time runs the dispatch, or one job waits to:    *)
(* the writes of a batch are then never interleaved with another's.        *)
(***************************************************************************)
Undisturbed == "expand" \notin Operations /\ MaxFaults = 0

Copying == Reading \cup Marking \cup {"save", "terminate"}
Driving == Copying \cup {"load", "schedule"}
Driven  == \E p \in Procs : pc[p] \in Driving

OneDriver == \A p, q \in Procs : pc[p] \in Driving /\ pc[q] \in Driving => p = q

\* The driver's copy is the stored match, but for what it has edited.
CopyOK(p) ==
    /\ pc[p] # "expandSave"
    /\ pc[p] = "create" => doc[p].nextBatch = 0
    /\ pc[p] \in Copying => base[p] = match /\ match.status = "ACTIVE"
    /\ pc[p] \in Marking => match.batchCount = 0
    /\ pc[p] \in Copying \ {"save", "directSave"} => doc[p].batchCount = match.batchCount
    /\ pc[p] \in {"directSave", "terminate"} => doc[p].nextBatch = 0
    /\ pc[p] = "directSave" => doc[p].batchCount = 1
    /\ pc[p] = "save" => doc[p].batchCount = match.batchCount + 1 /\ doc[p].nextBatch = doc[p].batchCount
    /\ pc[p] = "schedule" => doc[p].batchCount = match.batchCount /\ match.nextBatch = match.batchCount

HeldOK(p) ==
    /\ pc[p] \in {"complete", "fail"} => job[p] # 0
    /\ job[p] # 0 => /\ jobs[job[p]] = "active"
                     /\ \A q \in Procs : job[q] = job[p] => q = p

Queued(n) == jobs[n] \in {"delayed", "due"}

JobOK(n) ==
    /\ Queued(n) => n = match.nextBatch /\ ~Driven
    /\ jobs[n] # "none" =>
          /\ n <= match.batchCount
          /\ \A p \in Procs : pc[p] = "schedule" => n # match.batchCount

Waiting == match.status = "ACTIVE" /\ match.nextBatch # 0 => Driven \/ Queued(match.nextBatch)

Unopened == match.status = "NONE" =>
                ~Driven /\ candidates = {} /\ batches = {} /\ match = NoMatch

Line == /\ OneDriver
        /\ \A p \in Procs : CopyOK(p)
        /\ \A p \in Procs : HeldOK(p)
        /\ match.nextBatch \in {0, match.batchCount}
        /\ \A n \in 1..MaxBatches : JobOK(n)
        /\ Waiting
        /\ Unopened

\* The kinds of steps.
Off(p) == /\ pc'[p] \notin Driving \cup {"expandSave"}
          /\ pc'[p] \in {"complete", "fail"} => job'[p] # 0
          /\ pc'[p] = "create" => doc'[p].nextBatch = 0

Aside(p) ==
    /\ Frame(p) /\ pc[p] \notin Driving /\ Off(p)
    /\ match' = match /\ jobs' = jobs /\ job'[p] = job[p]
    /\ batches' = batches /\ (candidates = {} => candidates' = {})

Ahead(p) ==
    /\ Frame(p) /\ pc[p] \in Driving /\ pc'[p] \in Driving \ {"schedule"} /\ CopyOK(p)'
    /\ match' = match /\ jobs' = jobs /\ job'[p] = job[p]

Stopping(p) ==
    /\ Frame(p) /\ pc[p] \in Driving /\ Off(p)
    /\ jobs' = jobs /\ job'[p] = job[p]
    /\ \/ match'.status # "NONE" /\ match'.nextBatch = 0
       \/ match' = match /\ match.status \in Terminal
    /\ match'.batchCount \in Nat /\ match.batchCount \in Nat /\ match'.batchCount >= match.batchCount

Posting(p) ==
    /\ Frame(p) /\ pc[p] = "save" /\ pc'[p] = "schedule"
    /\ jobs' = jobs /\ job'[p] = job[p]
    /\ match'.status = "ACTIVE" /\ match.batchCount \in Nat
    /\ match'.batchCount = match.batchCount + 1 /\ match'.nextBatch = match'.batchCount
    /\ doc'[p].batchCount = match'.batchCount

Scheduling(p) ==
    /\ Frame(p) /\ pc[p] = "schedule" /\ Off(p)
    /\ match' = match /\ job'[p] = job[p]
    /\ jobs' = [jobs EXCEPT ![doc[p].batchCount] = IF @ = "none" THEN "delayed" ELSE @]

Opening(p) ==
    /\ Frame(p) /\ match.status = "NONE" /\ pc'[p] = "markLoad"
    /\ match'.status = "ACTIVE" /\ match'.batchCount = 0 /\ match'.nextBatch = 0
    /\ base'[p] = match' /\ doc'[p] = match'
    /\ jobs' = jobs /\ job'[p] = job[p]

Queueing ==
    /\ UNCHANGED <<match, candidates, batches, locals>>
    /\ \E n \in 1..MaxBatches : jobs[n] = "delayed" /\ jobs' = [jobs EXCEPT ![n] = "due"]

Taking(p) ==
    /\ Frame(p) /\ pc[p] \notin Driving /\ pc'[p] = "load"
    /\ UNCHANGED <<match, candidates, batches>>
    /\ \E n \in 1..MaxBatches : jobs[n] = "due" /\ jobs' = [jobs EXCEPT ![n] = "active"] /\ job'[p] = n

Settling(p) ==
    /\ Frame(p) /\ pc[p] \in {"complete", "fail"} /\ pc'[p] = "idle"
    /\ UNCHANGED <<match, candidates, batches>>
    /\ job'[p] = 0
    /\ \E s \in {"none", "failed"} : jobs' = [jobs EXCEPT ![job[p]] = s]

Lapsing == /\ UNCHANGED <<match, batches, jobs, locals>>
           /\ candidates # {}

LEMMA ReturnsOff ==
  ASSUME LocalsOK, NEW p \in Procs, Return(p) \/ Throw(p)
  PROVE  Off(p) /\ Frame(p) /\ job'[p] = job[p]
<1>1. pc'[p] \in {"idle", "complete", "fail"} /\ (pc'[p] \in {"complete", "fail"} => job[p] # 0) /\ job' = job
  BY DEF Return, Throw, Leave, LocalsOK
<1>. QED
  BY <1>1, EditFrame DEF Off, Return, Throw, Driving, Copying, Reading, Marking

LEMMA DrivenOpen ==
  ASSUME Line, NEW p \in Procs, pc[p] \in Driving
  PROVE  match.status # "NONE" /\ CopyOK(p) /\ \A q \in Procs \ {p} : pc[q] \notin Driving
  BY DEF Line, Unopened, Driven, OneDriver

(***************************************************************************)
(* Every step is of one of these kinds.                                    *)
(***************************************************************************)
LEMMA CallsAside ==
  ASSUME TypeOK, Undisturbed, NEW p \in Procs, Call(p)
  PROVE  Aside(p)
<1>. USE TypeSplit
<1>0. Frame(p) /\ pc \in [Procs -> Labels] /\ doc \in [Procs -> MatchDoc]
  BY StepFrame DEF LocalsOK
<1>1. CASE StartAuto(p) \/ StartDirect(p)
  <2>1. PICK mode \in {"AUTO", "DIRECT"}, chosen \in SUBSET Providers : Start(p, mode, chosen)
    BY <1>1 DEF StartAuto, StartDirect
  <2>. DEFINE new == [NoMatch EXCEPT !.status = "ACTIVE", !.mode = mode, !.radius = DefaultRadius]
  <2>2. new.nextBatch = 0
    BY DEF NoMatch
  <2>3. pc[p] = "idle" /\ pc'[p] = "create" /\ doc'[p] = new /\ job' = job
    BY <1>0, <2>1 DEF Start, Edit
  <2>. HIDE DEF new
  <2>. QED
    BY <1>0, <2>1, <2>2, <2>3 DEF Start, stored, Aside, Off, Driving, Copying, Reading, Marking
<1>2. CASE CancelLoad(p)
  BY <1>0, <1>2 DEF CancelLoad, Go, stored, Aside, Off, Driving, Copying, Reading, Marking
<1>3. CASE \E c \in candidates : AnswerLoad(p, c)
  BY <1>0, <1>3 DEF AnswerLoad, stored, Aside, Off, Driving, Copying, Reading, Marking
<1>4. CASE \E input \in RadiusInputs : ExpandLoad(p, input)
  BY <1>4 DEF ExpandLoad, Undisturbed
<1>. QED
  BY <1>1, <1>2, <1>3, <1>4 DEF Call

LEMMA AnswersAside ==
  ASSUME TypeOK, NEW p \in Procs, CancelSave(p) \/ AnswerSave(p) \/ (CreateMatch(p) /\ match.status # "NONE")
  PROVE  Aside(p)
<1>. USE TypeSplit
<1>0. pc[p] \notin Driving
  BY DEF CancelSave, AnswerSave, CreateMatch, Driving, Copying, Reading, Marking
<1>1. Off(p) /\ Frame(p) /\ job'[p] = job[p]
  BY ReturnsOff DEF CancelSave, AnswerSave, CreateMatch
<1>2. candidates = {} => candidates' = {}
  BY DEF CancelSave, AnswerSave, CreateMatch
<1>. QED
  BY <1>0, <1>1, <1>2 DEF CancelSave, AnswerSave, CreateMatch, Aside

LEMMA CreateOpens ==
  ASSUME TypeOK, Control, Line, NEW p \in Procs, CreateMatch(p), match.status = "NONE"
  PROVE  Opening(p)
<1>. USE TypeSplit
<1>1. Frame(p) /\ pc \in [Procs -> Labels] /\ base \in [Procs -> MatchDoc]
  BY StepFrame DEF LocalsOK, Continue
<1>2. doc[p].status = "ACTIVE" /\ doc[p].batchCount = 0 /\ doc[p].nextBatch = 0
  BY DEF CreateMatch, Control, ControlOK, CreateOK, Line, CopyOK
<1>. QED
  BY <1>1, <1>2 DEF CreateMatch, Opening

LEMMA MarksAhead ==
  ASSUME TypeOK, Control, Line, NEW p \in Procs, MarkMatchingLoad(p) \/ MarkMatchingSave(p)
  PROVE  Ahead(p) \/ Stopping(p)
<1>. USE TypeSplit
<1>0. /\ Frame(p) /\ pc \in [Procs -> Labels] /\ pc[p] \in Driving /\ pc[p] \in Copying /\ pc[p] \in Marking
      /\ match.batchCount = 0 /\ base[p] = match /\ match.status = "ACTIVE"
      /\ doc[p].batchCount = 0 /\ match.nextBatch = 0
  <2>1. Frame(p) /\ pc \in [Procs -> Labels]
    BY StepFrame DEF LocalsOK, Continue
  <2>2. pc[p] \in {"markLoad", "markSave"}
    BY DEF MarkMatchingLoad, MarkMatchingSave
  <2>3. pc[p] \in Driving /\ pc[p] \in Copying /\ pc[p] \in Marking /\ pc[p] \in Copying \ {"save", "directSave"}
    BY <2>2 DEF Driving, Copying, Marking
  <2>4. CopyOK(p) /\ match.nextBatch \in {0, match.batchCount}
    BY DEF Line
  <2>5. match.batchCount = 0 /\ base[p] = match /\ match.status = "ACTIVE" /\ doc[p].batchCount = match.batchCount
    BY <2>3, <2>4 DEF CopyOK
  <2>. QED  BY <2>1, <2>3, <2>4, <2>5
<1>1. CASE Throw(p)
  <2>1. Off(p) /\ job'[p] = job[p]
    BY <1>1, ReturnsOff
  <2>2. match' = match /\ jobs' = jobs
    BY <1>0, <1>1 DEF MarkMatchingLoad, MarkMatchingSave, AfterMark, stored
  <2>. QED
    BY <1>0, <2>1, <2>2 DEF Stopping, TypeOK
<1>2. CASE \E l \in {"markSave", "directInsert"} : Go(p, l)
  <2>1. pc'[p] \in {"markSave", "directInsert"} /\ base' = base /\ doc' = doc /\ job' = job
    BY <1>0, <1>2 DEF Go
  <2>2. match' = match /\ jobs' = jobs
    BY DEF MarkMatchingLoad, MarkMatchingSave, stored
  <2>3. CopyOK(p)'
    BY <1>0, <2>1, <2>2 DEF CopyOK, Driving, Copying, Marking, Reading
  <2>. QED
    BY <1>0, <2>1, <2>2, <2>3 DEF Ahead, Driving, Copying, Marking
<1>3. CASE Leave(p, "load")
  <2>1. pc'[p] = "load" /\ job' = job
    BY <1>0, <1>3 DEF Leave
  <2>2. match' = match /\ jobs' = jobs
    BY DEF MarkMatchingLoad, MarkMatchingSave, stored
  <2>3. CopyOK(p)'
    BY <2>1 DEF CopyOK, Driving, Copying, Marking, Reading
  <2>. QED
    BY <1>0, <2>1, <2>2, <2>3 DEF Ahead, Driving
<1>. QED
  BY <1>1, <1>2, <1>3 DEF MarkMatchingLoad, MarkMatchingSave, AfterMark
LEMMA DirectKinds ==
  ASSUME TypeOK, Control, Line, NEW p \in Procs, DirectInsert(p) \/ DirectSave(p)
  PROVE  Ahead(p) \/ Stopping(p)
<1>. USE TypeSplit
<1>0. /\ Frame(p) /\ pc \in [Procs -> Labels] /\ doc \in [Procs -> MatchDoc] /\ match \in MatchDoc
      /\ pc[p] \in Driving /\ CopyOK(p) /\ base[p] = match /\ match.status = "ACTIVE"
      /\ match.batchCount = 0 /\ match.nextBatch = 0
  <2>1. Frame(p) /\ pc \in [Procs -> Labels] /\ doc \in [Procs -> MatchDoc] /\ match \in MatchDoc
    BY StepFrame DEF LocalsOK, Continue, TypeOK
  <2>2. pc[p] \in Driving /\ pc[p] \in Copying /\ pc[p] \in Marking
    BY DEF DirectInsert, DirectSave, Driving, Copying, Marking
  <2>3. CopyOK(p) /\ match.nextBatch \in {0, match.batchCount}
    BY DEF Line
  <2>4. base[p] = match /\ match.status = "ACTIVE" /\ match.batchCount = 0
    BY <2>2, <2>3 DEF CopyOK
  <2>. QED  BY <2>1, <2>2, <2>3, <2>4
<1>1. CASE DirectInsert(p) /\ Throw(p)
  <2>1. Off(p) /\ job'[p] = job[p]
    BY <1>1, ReturnsOff
  <2>. QED
    BY <1>0, <1>1, <2>1 DEF DirectInsert, Stopping, TypeOK
<1>2. CASE DirectInsert(p) /\ Edit(p, DirectDone(doc[p]), {}, "directSave")
  <2>1. DirectDone(doc[p]).batchCount = 1 /\ DirectDone(doc[p]).nextBatch = 0
    BY <1>0 DEF DirectDone, MatchDoc
  <2>2. pc'[p] = "directSave" /\ base' = base /\ doc'[p] = DirectDone(doc[p]) /\ job' = job
    BY <1>0, <1>2 DEF Edit
  <2>3. match' = match /\ jobs' = jobs
    BY <1>2 DEF DirectInsert
  <2>4. CopyOK(p)'
    BY <1>0, <2>1, <2>2, <2>3 DEF CopyOK, Copying, Marking, Reading
  <2>. QED
    BY <1>0, <2>2, <2>3, <2>4 DEF Ahead, Driving, Copying, Marking
<1>3. CASE DirectSave(p)
  <2>1. Off(p) /\ job'[p] = job[p]
    BY <1>3, ReturnsOff DEF DirectSave
  <2>2. doc[p].status = "EXHAUSTED" /\ doc[p].nextBatch = 0 /\ doc[p].batchCount = 1
    BY <1>0, <1>3 DEF DirectSave, Control, ControlOK, MarkOK, Marking, CopyOK
  <2>3. match'.status = "EXHAUSTED" /\ match'.nextBatch = 0 /\ match'.batchCount = 1 /\ jobs' = jobs
    BY <1>0, <1>3, <2>2 DEF DirectSave, Saved, SetIfModified
  <2>. QED
    BY <1>0, <2>1, <2>3 DEF Stopping
<1>. QED
  BY <1>1, <1>2, <1>3 DEF DirectInsert

LEMMA DriverReads ==
  ASSUME TypeOK, Line, NEW p \in Procs, pc[p] \in Reading \cup {"save", "terminate"}
  PROVE  /\ pc[p] \in Driving /\ base[p] = match /\ match.status = "ACTIVE" /\ match.batchCount \in Nat
         /\ match.nextBatch \in {0, match.batchCount}
         /\ pc[p] # "save" => doc[p].batchCount = match.batchCount
         /\ pc[p] = "terminate" => doc[p].nextBatch = 0
         /\ pc[p] = "save" => doc[p].batchCount = match.batchCount + 1 /\ doc[p].nextBatch = doc[p].batchCount
<1>1. CopyOK(p) /\ match.nextBatch \in {0, match.batchCount}
  BY DEF Line
<1>2. pc[p] \in Driving /\ pc[p] \in Copying /\ match.batchCount \in Nat
  BY DEF Driving, Copying, TypeOK, MatchDoc, BatchCount
<1>3. pc[p] # "directSave"
  BY DEF Reading
<1>. QED
  BY <1>1, <1>2, <1>3 DEF CopyOK

LEMMA ReadsAhead ==
  ASSUME TypeOK, Line, NEW p \in Procs, pc[p] \in Reading, Frame(p), match' = match, jobs' = jobs, job' = job,
         base' = base, doc'[p].batchCount = doc[p].batchCount,
         \/ pc'[p] \in Reading
         \/ pc'[p] = "terminate" /\ doc'[p].nextBatch = 0
  PROVE  Ahead(p)
<1>1. /\ pc[p] \in Driving /\ base[p] = match /\ match.status = "ACTIVE"
      /\ doc[p].batchCount = match.batchCount
  BY DriverReads DEF Reading
<1>2. pc'[p] \in Driving \ {"schedule"} /\ pc'[p] \notin Marking
  BY DEF Driving, Copying, Reading, Marking
<1>3. CopyOK(p)'
  BY <1>1, <1>2 DEF CopyOK, Reading, Marking, Copying
<1>. QED
  BY <1>1, <1>2, <1>3 DEF Ahead

LEMMA TerminatedTimer ==
  ASSUME NEW d \in MatchDoc, NEW s
  PROVE  Terminated(d, s).nextBatch = 0 /\ Terminated(d, s).batchCount = d.batchCount
  BY DEF Terminated, MatchDoc

LEMMA RunKinds ==
  ASSUME TypeOK, Control, Line, NEW p \in Procs,
         LoadMatch(p) \/ LoadRequest(p) \/ ExpireStale(p) \/ SelectNextBatch(p)
  PROVE  Ahead(p) \/ Stopping(p)
<1>. USE TypeSplit
<1>0. /\ Frame(p) /\ pc \in [Procs -> Labels] /\ base \in [Procs -> MatchDoc] /\ doc \in [Procs -> MatchDoc]
      /\ doc[p] \in MatchDoc
  BY StepFrame DEF LocalsOK, Continue, RunBatch
<1>1. match' = match /\ jobs' = jobs
  BY DEF LoadMatch, LoadRequest, ExpireStale, SelectNextBatch, stored
<1>2. CASE LoadMatch(p)
  <2>1. pc[p] = "load" /\ pc[p] \in Driving
    BY <1>2 DEF LoadMatch, Driving
  <2>2. CASE match.status = "ACTIVE"
    <3>1. pc'[p] = "loadRequest" /\ base'[p] = match /\ doc'[p] = match /\ job' = job
      BY <1>0, <1>2, <2>2 DEF LoadMatch, Load
    <3>2. CopyOK(p)'
      BY <1>1, <2>2, <3>1 DEF CopyOK, Copying, Marking, Reading
    <3>. QED
      BY <1>0, <1>1, <2>1, <3>1, <3>2 DEF Ahead, Driving, Copying, Reading
  <2>3. CASE match.status # "ACTIVE"
    <3>1. match.status \in Terminal
      BY <2>1, <2>3, DrivenOpen DEF TypeOK, MatchDoc, MatchStatus
    <3>2. Off(p) /\ job'[p] = job[p]
      BY <1>2, <2>3, ReturnsOff DEF LoadMatch
    <3>3. match.batchCount \in Nat
      BY DEF TypeOK, MatchDoc, BatchCount
    <3>. QED
      BY <1>0, <1>1, <2>1, <3>1, <3>2, <3>3 DEF Stopping
  <2>. QED  BY <2>2, <2>3
<1>3. CASE LoadRequest(p)
  <2>1. pc[p] = "loadRequest" /\ pc[p] \in Reading
    BY <1>3 DEF LoadRequest, Reading
  <2>2. base' = base /\ job' = job
    BY <1>3 DEF LoadRequest, Go, Edit
  <2>3. CASE Go(p, "expire")
    BY <1>0, <1>1, <2>1, <2>2, <2>3, ReadsAhead DEF Go, Reading
  <2>4. CASE Edit(p, Terminated(doc[p], "CANCELLED"), {}, "terminate")
    <3>1. pc'[p] = "terminate" /\ doc'[p] = Terminated(doc[p], "CANCELLED")
      BY <1>0, <2>4 DEF Edit
    <3>. QED
      BY <1>0, <1>1, <2>1, <2>2, <3>1, TerminatedTimer, ReadsAhead
  <2>. QED  BY <1>3, <2>3, <2>4 DEF LoadRequest
<1>4. CASE ExpireStale(p)
  <2>1. pc[p] = "expire" /\ pc[p] \in Reading
    BY <1>4 DEF ExpireStale, Reading
  <2>2. base' = base /\ job' = job
    BY <1>4 DEF ExpireStale, Go, Edit
  <2>3. CASE Go(p, "select")
    BY <1>0, <1>1, <2>1, <2>2, <2>3, ReadsAhead DEF Go, Reading
  <2>4. CASE Edit(p, Terminated(doc[p], "EXHAUSTED"), {}, "terminate")
    <3>1. pc'[p] = "terminate" /\ doc'[p] = Terminated(doc[p], "EXHAUSTED")
      BY <1>0, <2>4 DEF Edit
    <3>. QED
      BY <1>0, <1>1, <2>1, <2>2, <3>1, TerminatedTimer, ReadsAhead
  <2>. QED  BY <1>4, <2>3, <2>4 DEF ExpireStale
<1>5. CASE SelectNextBatch(p)
  <2>1. pc[p] = "select" /\ pc[p] \in Reading
    BY <1>5 DEF SelectNextBatch, Reading
  <2>2. base' = base /\ job' = job
    BY <1>5 DEF SelectNextBatch, Edit
  <2>3. doc[p].radius \in Nat
    BY <1>0 DEF MatchDoc
  <2>4. ASSUME NEW r \in Rungs(doc[p].radius), NEW s, Edit(p, [doc[p] EXCEPT !.radius = r], s, "insert")
        PROVE  Ahead(p)
    <3>1. r \in Nat
      BY <2>3, RadiusTyped
    <3>2. pc'[p] = "insert" /\ doc'[p].batchCount = doc[p].batchCount
      BY <1>0, <2>4, <3>1, EditedFields DEF Edit
    <3>. QED
      BY <1>0, <1>1, <2>1, <2>2, <3>2, ReadsAhead DEF Reading
  <2>5. ASSUME Edit(p, Terminated([doc[p] EXCEPT !.radius = TopRung(doc[p].radius)], "EXHAUSTED"), {}, "terminate")
        PROVE  Ahead(p)
    <3>. DEFINE d == [doc[p] EXCEPT !.radius = TopRung(doc[p].radius)]
    <3>1. TopRung(doc[p].radius) \in Nat
      BY <2>3, Numbers DEF TopRung
    <3>2. d \in MatchDoc /\ d.batchCount = doc[p].batchCount
      BY <1>0, <3>1, EditedFields
    <3>3. pc'[p] = "terminate" /\ doc'[p] = Terminated(d, "EXHAUSTED")
      BY <1>0, <2>5 DEF Edit
    <3>. HIDE DEF d
    <3>. QED
      BY <1>0, <1>1, <2>1, <2>2, <3>2, <3>3, TerminatedTimer, ReadsAhead
  <2>. QED  BY <1>5, <2>4, <2>5 DEF SelectNextBatch
<1>. QED
  BY <1>2, <1>3, <1>4, <1>5
\* The providers about to be contacted were never contacted, and the records
\* are those of the batches counted, but for the one about to be.
New     == \A p \in Procs : pc[p] = "insert" => Refused(pick[p]) = {}
Indices == \A b \in batches :
              \/ b.index < match.batchCount
              \/ b.index = match.batchCount /\ \E p \in Procs : pc[p] = "save"

LEMMA IndexFree ==
  ASSUME Line, Indices, NEW p \in Procs, pc[p] = "record", match.batchCount \in Nat
  PROVE  ~Recorded(match.batchCount)
<1>1. pc[p] \in Driving /\ \A q \in Procs : pc[q] = "save" => pc[q] \in Driving
  BY DEF Driving, Copying, Reading
<1>2. \A q \in Procs : pc[q] # "save"
  BY <1>1 DEF Line, OneDriver
<1>. QED
  BY <1>2 DEF Recorded, Indices

LEMMA WriteKinds ==
  ASSUME TypeOK, Control, Line, New, Indices, NEW p \in Procs, InsertCandidates(p) \/ CreateBatch(p)
  PROVE  Ahead(p)
<1>. USE TypeSplit
<1>0. /\ Frame(p) /\ pc \in [Procs -> Labels] /\ doc \in [Procs -> MatchDoc] /\ doc[p] \in MatchDoc
      /\ match' = match /\ jobs' = jobs
  BY StepFrame DEF LocalsOK, Continue, RunBatch, InsertCandidates, CreateBatch
<1>1. pc[p] \in Reading
  BY DEF InsertCandidates, CreateBatch, Reading
<1>2. /\ pc[p] \in Driving /\ base[p] = match /\ match.status = "ACTIVE" /\ match.batchCount \in Nat
      /\ doc[p].batchCount = match.batchCount
  BY <1>1, DriverReads DEF Reading
<1>3. CASE InsertCandidates(p)
  <2>1. Go(p, "record")
    BY <1>3 DEF InsertCandidates, AfterInsert, New
  <2>. QED
    BY <1>0, <1>1, <2>1, ReadsAhead DEF Go, Reading
<1>4. CASE CreateBatch(p)
  <2>1. Edit(p, Counted(doc[p]), {}, "save")
    BY <1>2, <1>4, IndexFree DEF CreateBatch
  <2>2. Counted(doc[p]).batchCount = doc[p].batchCount + 1 /\ Counted(doc[p]).nextBatch = doc[p].batchCount + 1
    BY <1>0 DEF Counted, MatchDoc
  <2>3. pc'[p] = "save" /\ base' = base /\ doc'[p] = Counted(doc[p]) /\ job' = job
    BY <1>0, <2>1 DEF Edit
  <2>4. CopyOK(p)'
    BY <1>0, <1>2, <2>2, <2>3 DEF CopyOK, Copying, Marking, Reading
  <2>. QED
    BY <1>0, <1>2, <2>3, <2>4 DEF Ahead, Driving, Copying
<1>. QED
  BY <1>3, <1>4

LEMMA SaveKinds ==
  ASSUME TypeOK, Control, Line, NEW p \in Procs,
         SaveMatch(p) \/ Terminate(p) \/ ScheduleNextBatch(p) \/ ExpandSave(p)
  PROVE  Stopping(p) \/ Posting(p) \/ Scheduling(p)
<1>. USE TypeSplit
<1>0. /\ Frame(p) /\ pc \in [Procs -> Labels] /\ doc \in [Procs -> MatchDoc] /\ doc[p] \in MatchDoc
      /\ match \in MatchDoc /\ match.batchCount \in Nat
  <2>1. Frame(p)
    BY StepFrame DEF Continue, RunBatch
  <2>2. match \in MatchDoc /\ match.batchCount \in Nat
    BY DEF TypeOK, MatchDoc, BatchCount
  <2>. QED
    BY <2>1, <2>2 DEF LocalsOK
<1>1. CASE SaveMatch(p)
  <2>1. /\ pc[p] = "save" /\ base[p] = match /\ match.status = "ACTIVE" /\ doc[p].status = "ACTIVE"
        /\ doc[p].batchCount = match.batchCount + 1 /\ doc[p].nextBatch = doc[p].batchCount
        /\ match.nextBatch \in {0, match.batchCount}
    BY <1>1, DriverReads DEF SaveMatch, Control, ControlOK, ReadOK, Saving
  <2>2. match'.status = "ACTIVE" /\ match'.batchCount = doc[p].batchCount /\ match'.nextBatch = doc[p].nextBatch
    BY <1>0, <1>1, <2>1 DEF SaveMatch, Saved, SetIfModified
  <2>3. pc'[p] = "schedule" /\ doc' = doc /\ job' = job /\ jobs' = jobs
    BY <1>0, <1>1 DEF SaveMatch, Go
  <2>. QED
    BY <1>0, <2>1, <2>2, <2>3 DEF Posting
<1>2. CASE Terminate(p)
  <2>1. /\ pc[p] \in Driving /\ base[p] = match /\ match.status = "ACTIVE" /\ doc[p].status \in Terminal
        /\ doc[p].batchCount = match.batchCount /\ doc[p].nextBatch = 0
    BY <1>2, DriverReads DEF Terminate, Control, ControlOK, ReadOK, Saving
  <2>2. match'.status = doc[p].status /\ match'.batchCount = match.batchCount /\ match'.nextBatch = 0
    BY <1>0, <1>2, <2>1 DEF Terminate, Saved, SetIfModified
  <2>3. Off(p) /\ job'[p] = job[p] /\ jobs' = jobs
    BY <1>2, ReturnsOff DEF Terminate
  <2>. QED
    BY <1>0, <2>1, <2>2, <2>3 DEF Stopping, Terminal
<1>3. CASE ScheduleNextBatch(p)
  BY <1>0, <1>3, ReturnsOff DEF ScheduleNextBatch, Scheduling, AdvanceBatchJob
<1>4. CASE ExpandSave(p)
  BY <1>4 DEF ExpandSave, Line, CopyOK
<1>. QED
  BY <1>1, <1>2, <1>3, <1>4

LEMMA QueueKinds ==
  ASSUME TypeOK, NEW p \in Procs
  PROVE  /\ \A n \in 1..MaxBatches : TakeJob(p, n) => Taking(p)
         /\ SettleJob(p) => Settling(p)
<1>. USE TypeSplit
<1>0. pc \in [Procs -> Labels] /\ job \in [Procs -> BatchCount]
  BY DEF LocalsOK
<1>1. ASSUME NEW n \in 1..MaxBatches, TakeJob(p, n) PROVE Taking(p)
  <2>1. Frame(p)
    BY <1>1, StepFrame
  <2>2. pc[p] \notin Driving /\ pc'[p] = "load" /\ job'[p] = n
    BY <1>0, <1>1 DEF TakeJob, Driving, Copying, Reading, Marking
  <2>. QED
    BY <1>1, <2>1, <2>2 DEF TakeJob, Taking
<1>2. ASSUME SettleJob(p) PROVE Settling(p)
  <2>1. Frame(p)
    BY <1>2, StepFrame DEF Continue
  <2>2. pc'[p] = "idle" /\ job'[p] = 0
    BY <1>0, <1>2 DEF SettleJob
  <2>. QED
    BY <1>2, <2>1, <2>2 DEF SettleJob, Settling
<1>. QED
  BY <1>1, <1>2

LEMMA NoFault ==
  ASSUME TypeOK, Undisturbed, NEW p \in Procs, faults = 0, Fault(p)
  PROVE  FALSE
  BY DEF Fault, Undisturbed

Kinds(p) == \/ Aside(p) \/ Ahead(p) \/ Stopping(p) \/ Posting(p) \/ Scheduling(p) \/ Opening(p)
            \/ Taking(p) \/ Settling(p)

LEMMA LineKinds ==
  ASSUME TypeOK, Control, Line, New, Indices, Undisturbed, faults = 0, Next
  PROVE  Queueing \/ Lapsing \/ \E p \in Procs : Kinds(p)
<1>1. ASSUME NEW p \in Procs, Continue(p) PROVE Kinds(p)
  <2>1. CASE CreateMatch(p) \/ CancelSave(p) \/ AnswerSave(p)
    BY <2>1, CreateOpens, AnswersAside DEF Kinds
  <2>2. CASE MarkMatchingLoad(p) \/ MarkMatchingSave(p) \/ DirectInsert(p) \/ DirectSave(p)
    BY <2>2, MarksAhead, DirectKinds DEF Kinds
  <2>3. CASE LoadMatch(p) \/ LoadRequest(p) \/ ExpireStale(p) \/ SelectNextBatch(p)
    BY <2>3, RunKinds DEF Kinds
  <2>4. CASE InsertCandidates(p) \/ CreateBatch(p)
    BY <2>4, WriteKinds DEF Kinds
  <2>5. CASE SaveMatch(p) \/ Terminate(p) \/ ScheduleNextBatch(p) \/ ExpandSave(p)
    BY <2>5, SaveKinds DEF Kinds
  <2>6. CASE SettleJob(p)
    BY <2>6, QueueKinds DEF Kinds
  <2>. QED
    BY <1>1, <2>1, <2>2, <2>3, <2>4, <2>5, <2>6 DEF Continue, RunBatch
<1>2. ASSUME NEW p \in Procs, Call(p) PROVE Kinds(p)
  BY <1>2, CallsAside DEF Kinds
<1>3. ASSUME NEW p \in Procs, NEW n \in 1..MaxBatches, TakeJob(p, n) PROVE Kinds(p)
  BY <1>3, QueueKinds DEF Kinds
<1>4. ASSUME NEW n \in 1..MaxBatches, JobDue(n) PROVE Queueing
  BY <1>4 DEF JobDue, Queueing
<1>5. ASSUME NEW c \in candidates, Lapse(c) PROVE Lapsing
  BY <1>5 DEF Lapse, Lapsing
<1>. QED
  BY <1>1, <1>2, <1>3, <1>4, <1>5, NoFault DEF Next
(***************************************************************************)
(* Line is kept by each kind of step.                                      *)
(***************************************************************************)
\* A process that does not drive claims nothing of the match.
LEMMA OffCopyOK ==
  ASSUME NEW p \in Procs, Off(p)
  PROVE  CopyOK(p)'
  BY DEF Off, CopyOK, Driving, Copying, Reading, Marking

LEMMA OthersCopyOK ==
  ASSUME NEW p \in Procs, NEW q \in Procs \ {p}, Frame(p), CopyOK(q),
         match' = match \/ pc[q] \notin Driving
  PROVE  CopyOK(q)'
<1>1. pc'[q] = pc[q] /\ base'[q] = base[q] /\ doc'[q] = doc[q]
  BY DEF Frame
<1>. QED
  BY <1>1 DEF CopyOK, Driving, Copying, Marking, Reading

\* Jobs and who holds them, where a step touches neither.
LEMMA SameHeld ==
  ASSUME Line, NEW p \in Procs, Frame(p), jobs' = jobs, job'[p] = job[p],
         pc'[p] \in {"complete", "fail"} => job'[p] # 0
  PROVE  \A q \in Procs : HeldOK(q)'
<1>1. \A q \in Procs : job'[q] = job[q]
  BY DEF Frame
<1>2. \A q \in Procs \ {p} : pc'[q] = pc[q]
  BY DEF Frame
<1>3. \A q \in Procs : HeldOK(q)
  BY DEF Line
<1>. QED
  BY <1>1, <1>2, <1>3 DEF HeldOK

LEMMA AsideLine ==
  ASSUME Line, NEW p \in Procs, Aside(p)
  PROVE  Line'
<1>1. \A q \in Procs : pc'[q] \in Driving <=> pc[q] \in Driving
  BY DEF Aside, Off, Frame
<1>2. \A q \in Procs : pc'[q] = "schedule" => pc[q] = "schedule"
  BY DEF Aside, Off, Frame, Driving
<1>3. OneDriver' /\ (Driven' <=> Driven)
  BY <1>1 DEF Line, OneDriver, Driven
<1>4. \A q \in Procs : CopyOK(q)'
  BY OffCopyOK, OthersCopyOK DEF Aside, Line
<1>5. \A q \in Procs : HeldOK(q)'
  BY SameHeld DEF Aside, Off
<1>6. \A n \in 1..MaxBatches : JobOK(n)'
  BY <1>2, <1>3 DEF Aside, Line, JobOK, Queued
<1>7. Waiting' /\ Unopened'
  BY <1>3 DEF Aside, Line, Waiting, Queued, Unopened
<1>. QED
  BY <1>3, <1>4, <1>5, <1>6, <1>7 DEF Line, Aside

LEMMA AheadLine ==
  ASSUME Line, NEW p \in Procs, Ahead(p)
  PROVE  Line'
<1>0. match.status # "NONE" /\ \A q \in Procs \ {p} : pc[q] \notin Driving
  BY DrivenOpen DEF Ahead
<1>1. OneDriver' /\ Driven' /\ Driven
  BY <1>0 DEF Ahead, Frame, OneDriver, Driven
<1>2. \A q \in Procs : pc'[q] # "schedule"
  BY <1>0 DEF Ahead, Frame, Driving
<1>4. \A q \in Procs : CopyOK(q)'
  BY OthersCopyOK DEF Ahead, Line
<1>5. \A q \in Procs : HeldOK(q)'
  BY SameHeld DEF Ahead, Driving, Copying, Reading, Marking
<1>6. \A n \in 1..MaxBatches : JobOK(n)'
  BY <1>1, <1>2 DEF Ahead, Line, JobOK, Queued
<1>7. Waiting' /\ Unopened'
  BY <1>0, <1>1 DEF Ahead, Waiting, Unopened
<1>. QED
  BY <1>1, <1>4, <1>5, <1>6, <1>7 DEF Line, Ahead

LEMMA StoppingLine ==
  ASSUME Line, NEW p \in Procs, Stopping(p), \A n \in 1..MaxBatches : n \in Nat
  PROVE  Line'
<1>0. match.status # "NONE" /\ \A q \in Procs \ {p} : pc[q] \notin Driving
  BY DrivenOpen DEF Stopping
<1>1. \A q \in Procs : pc'[q] \notin Driving
  BY <1>0 DEF Stopping, Frame, Off
<1>2. OneDriver' /\ ~Driven' /\ Driven
  BY <1>1 DEF Stopping, OneDriver, Driven
<1>3. \A n \in 1..MaxBatches : ~Queued(n)
  BY <1>2 DEF Line, JobOK
<1>4. \A q \in Procs : CopyOK(q)'
  BY <1>0, OffCopyOK, OthersCopyOK DEF Stopping, Line
<1>5. \A q \in Procs : HeldOK(q)'
  BY SameHeld DEF Stopping, Off
<1>6. \A n \in 1..MaxBatches : JobOK(n)'
  <2>. SUFFICES ASSUME NEW n \in 1..MaxBatches PROVE JobOK(n)'
    OBVIOUS
  <2>1. jobs'[n] # "none" => n <= match.batchCount /\ n <= match'.batchCount
    BY DEF Stopping, Line, JobOK
  <2>2. ~Queued(n)'
    BY <1>3 DEF Stopping, Queued
  <2>3. \A q \in Procs : pc'[q] # "schedule"
    BY <1>1 DEF Driving
  <2>. QED
    BY <2>1, <2>2, <2>3 DEF JobOK
<1>7. Waiting' /\ Unopened' /\ match'.nextBatch \in {0, match'.batchCount}
  BY <1>0 DEF Stopping, Line, Waiting, Unopened, Terminal
<1>. QED
  BY <1>2, <1>4, <1>5, <1>6, <1>7 DEF Line

LEMMA PostingLine ==
  ASSUME Line, NEW p \in Procs, Posting(p), \A n \in 1..MaxBatches : n \in Nat
  PROVE  Line'
<1>0. match.status # "NONE" /\ \A q \in Procs \ {p} : pc[q] \notin Driving
  BY DrivenOpen DEF Posting, Driving, Copying
<1>1. pc'[p] \in Driving /\ \A q \in Procs \ {p} : pc'[q] \notin Driving
  BY <1>0 DEF Posting, Frame, Driving
<1>2. OneDriver' /\ Driven' /\ Driven
  BY <1>1 DEF Posting, OneDriver, Driven, Driving, Copying
<1>3. CopyOK(p)'
  BY DEF Posting, CopyOK, Copying, Marking, Reading
<1>4. \A q \in Procs : CopyOK(q)'
  BY <1>0, <1>3, OthersCopyOK DEF Posting, Line
<1>5. \A q \in Procs : HeldOK(q)'
  BY SameHeld DEF Posting
<1>6. \A n \in 1..MaxBatches : JobOK(n)'
  <2>. SUFFICES ASSUME NEW n \in 1..MaxBatches PROVE JobOK(n)'
    OBVIOUS
  <2>1. jobs'[n] # "none" => n <= match.batchCount
    BY DEF Posting, Line, JobOK
  <2>2. jobs'[n] # "none" => n <= match'.batchCount /\ n # match'.batchCount
    BY <2>1 DEF Posting
  <2>3. ~Queued(n)'
    BY <1>2 DEF Posting, Queued, Line, JobOK
  <2>. QED
    BY <2>2, <2>3 DEF JobOK
<1>7. Waiting' /\ Unopened' /\ match'.nextBatch \in {0, match'.batchCount}
  BY <1>2 DEF Posting, Waiting, Unopened
<1>. QED
  BY <1>2, <1>4, <1>5, <1>6, <1>7 DEF Line

LEMMA SchedulingLine ==
  ASSUME Line, NEW p \in Procs, Scheduling(p), jobs \in [1..MaxBatches -> JobStatus],
         match.nextBatch \in BatchCount, MaxBatches \in Nat
  PROVE  Line'
<1>0. /\ match.status # "NONE" /\ CopyOK(p) /\ \A q \in Procs \ {p} : pc[q] \notin Driving
  BY DrivenOpen DEF Scheduling, Driving
<1>1. \A q \in Procs : pc'[q] \notin Driving
  BY <1>0 DEF Scheduling, Frame, Off
<1>2. OneDriver' /\ ~Driven' /\ Driven
  BY <1>1 DEF Scheduling, OneDriver, Driven, Driving
<1>3. /\ pc[p] = "schedule" /\ doc[p].batchCount = match.batchCount
      /\ match.nextBatch = match.batchCount /\ match' = match
  BY <1>0 DEF Scheduling, CopyOK
<1>4. \A q \in Procs : CopyOK(q)'
  BY <1>0, OffCopyOK, OthersCopyOK DEF Scheduling, Line
<1>5. \A n \in 1..MaxBatches :
          jobs'[n] = IF n = match.batchCount /\ jobs[n] = "none" THEN "delayed" ELSE jobs[n]
  BY <1>3 DEF Scheduling
<1>6. \A n \in 1..MaxBatches : jobs[n] # "none" => ~Queued(n) /\ n <= match.batchCount /\ n # match.batchCount
  BY <1>2, <1>3 DEF Line, JobOK
<1>7. \A q \in Procs : HeldOK(q)'
  <2>. SUFFICES ASSUME NEW q \in Procs PROVE HeldOK(q)'
    OBVIOUS
  <2>1. \A r \in Procs : job'[r] = job[r]
    BY DEF Scheduling, Frame
  <2>2. pc'[q] \in {"complete", "fail"} => job[q] # 0
    <3>1. CASE q = p
      BY <2>1, <3>1 DEF Scheduling, Off
    <3>2. CASE q # p
      BY <3>2 DEF Scheduling, Frame, Line, HeldOK
    <3>. QED  BY <3>1, <3>2
  <2>3. job[q] # 0 => jobs[job[q]] = "active" /\ \A r \in Procs : job[r] = job[q] => r = q
    BY DEF Line, HeldOK
  <2>4. jobs[job[q]] = "active" => jobs'[job[q]] = "active"
    BY DEF Scheduling
  <2>. QED
    BY <2>1, <2>2, <2>3, <2>4 DEF HeldOK
<1>8. \A n \in 1..MaxBatches : JobOK(n)'
  <2>. SUFFICES ASSUME NEW n \in 1..MaxBatches PROVE JobOK(n)'
    OBVIOUS
  <2>1. jobs'[n] = IF n = match.batchCount /\ jobs[n] = "none" THEN "delayed" ELSE jobs[n]
    BY <1>5
  <2>2. \A q \in Procs : pc'[q] # "schedule"
    BY <1>1 DEF Driving
  <2>. QED
    BY <1>2, <1>3, <1>6, <2>1, <2>2 DEF JobOK, Queued, BatchCount
<1>9. Waiting'
  <2>. SUFFICES ASSUME match.nextBatch # 0 PROVE Queued(match.nextBatch)'
    BY <1>3 DEF Waiting
  <2>1. match.batchCount \in 1..MaxBatches
    BY <1>3 DEF BatchCount
  <2>. QED
    BY <1>3, <1>5, <1>6, <2>1 DEF Queued
<1>. QED
  BY <1>0, <1>2, <1>3, <1>4, <1>7, <1>8, <1>9 DEF Line, Unopened

LEMMA OpeningLine ==
  ASSUME Line, NEW p \in Procs, Opening(p), \A n \in 1..MaxBatches : n \in Nat /\ n > 0
  PROVE  Line'
<1>0. ~Driven /\ match.batchCount = 0
  BY DEF Opening, Line, Unopened, NoMatch
<1>1. pc'[p] \in Driving /\ \A q \in Procs \ {p} : pc'[q] \notin Driving /\ pc[q] \notin Driving
  BY <1>0 DEF Opening, Frame, Driving, Copying, Marking, Driven
<1>2. OneDriver' /\ Driven'
  BY <1>1 DEF OneDriver, Driven
<1>3. CopyOK(p)'
  BY DEF Opening, CopyOK, Copying, Marking, Reading
<1>4. \A q \in Procs : CopyOK(q)'
  BY <1>1, <1>3, OthersCopyOK DEF Opening, Line
<1>5. \A q \in Procs : HeldOK(q)'
  BY SameHeld DEF Opening
<1>6. \A n \in 1..MaxBatches : jobs[n] = "none"
  BY <1>0 DEF Line, JobOK
<1>7. \A n \in 1..MaxBatches : JobOK(n)'
  BY <1>6 DEF Opening, JobOK, Queued
<1>8. Waiting' /\ Unopened' /\ match'.nextBatch \in {0, match'.batchCount}
  BY DEF Opening, Waiting, Unopened
<1>. QED
  BY <1>2, <1>4, <1>5, <1>7, <1>8 DEF Line

LEMMA QueueingLine ==
  ASSUME Line, Queueing, jobs \in [1..MaxBatches -> JobStatus], match.nextBatch \in BatchCount, MaxBatches \in Nat
  PROVE  Line'
<1>1. PICK n \in 1..MaxBatches : jobs[n] = "delayed" /\ jobs' = [jobs EXCEPT ![n] = "due"]
  BY DEF Queueing
<1>2. \A k \in 1..MaxBatches : (Queued(k)' <=> Queued(k)) /\ (jobs'[k] = "none" <=> jobs[k] = "none")
  BY <1>1 DEF Queued
<1>3. match' = match /\ pc' = pc /\ base' = base /\ doc' = doc /\ job' = job
  BY DEF Queueing, locals
<1>4. OneDriver' /\ (Driven' <=> Driven) /\ \A q \in Procs : CopyOK(q)'
  BY <1>3 DEF Line, OneDriver, Driven, CopyOK
<1>5. \A q \in Procs : HeldOK(q)'
  BY <1>1, <1>3 DEF Line, HeldOK
<1>6. \A k \in 1..MaxBatches : JobOK(k)'
  BY <1>2, <1>3, <1>4 DEF Line, JobOK
<1>7. Waiting'
  <2>1. match.nextBatch # 0 => match.nextBatch \in 1..MaxBatches
    BY DEF BatchCount
  <2>. QED
    BY <1>2, <1>3, <1>4, <2>1 DEF Line, Waiting, Queued
<1>. QED
  BY <1>3, <1>4, <1>5, <1>6, <1>7 DEF Line, Unopened, Queueing

LEMMA TakingLine ==
  ASSUME Line, NEW p \in Procs, Taking(p), jobs \in [1..MaxBatches -> JobStatus], MaxBatches \in Nat
  PROVE  Line'
<1>1. PICK n \in 1..MaxBatches : jobs[n] = "due" /\ jobs' = [jobs EXCEPT ![n] = "active"] /\ job'[p] = n
  BY DEF Taking
<1>2. ~Driven /\ n = match.nextBatch /\ match' = match
  BY <1>1 DEF Line, JobOK, Queued, Taking
<1>3. pc'[p] = "load" /\ \A q \in Procs \ {p} : pc'[q] \notin Driving /\ pc[q] \notin Driving
  BY <1>2 DEF Taking, Frame, Driven
<1>4. OneDriver' /\ Driven'
  BY <1>3 DEF OneDriver, Driven, Driving
<1>5. CopyOK(p)'
  BY <1>3 DEF CopyOK, Copying, Marking, Reading
<1>6. \A q \in Procs : CopyOK(q)'
  BY <1>2, <1>5, OthersCopyOK DEF Taking, Line
<1>7. \A q \in Procs : HeldOK(q)'
  <2>. SUFFICES ASSUME NEW q \in Procs PROVE HeldOK(q)'
    OBVIOUS
  <2>1. \A r \in Procs \ {p} : job'[r] = job[r] /\ pc'[r] = pc[r] /\ HeldOK(r)
    BY DEF Taking, Frame, Line
  <2>2. \A r \in Procs \ {p} : job[r] # n
    BY <1>1, <2>1 DEF HeldOK
  <2>3. CASE q = p
    BY <1>1, <1>3, <2>1, <2>2, <2>3 DEF HeldOK
  <2>4. CASE q # p
    <3>1. job[q] # 0 => jobs'[job[q]] = "active"
      BY <1>1, <2>1, <2>4 DEF HeldOK
    <3>. QED
      BY <1>1, <2>1, <2>2, <2>4, <3>1 DEF HeldOK
  <2>. QED  BY <2>3, <2>4
<1>8. \A k \in 1..MaxBatches : JobOK(k)'
  <2>. SUFFICES ASSUME NEW k \in 1..MaxBatches PROVE JobOK(k)'
    OBVIOUS
  <2>1. Queued(k) => k = n
    BY <1>2 DEF Line, JobOK
  <2>2. ~Queued(k)'
    BY <1>1, <2>1 DEF Queued
  <2>3. jobs'[k] # "none" => k <= match.batchCount
    BY <1>1 DEF Line, JobOK
  <2>4. \A q \in Procs : pc'[q] # "schedule"
    BY <1>3 DEF Driving
  <2>. QED
    BY <1>2, <2>2, <2>3, <2>4 DEF JobOK
<1>9. match.status # "NONE"
  BY <1>1, <1>2 DEF Line, Unopened, NoMatch
<1>. QED
  BY <1>2, <1>4, <1>6, <1>7, <1>8, <1>9 DEF Line, Waiting, Unopened

LEMMA SettlingLine ==
  ASSUME Line, NEW p \in Procs, Settling(p), jobs \in [1..MaxBatches -> JobStatus]
  PROVE  Line'
<1>1. PICK s \in {"none", "failed"} : jobs' = [jobs EXCEPT ![job[p]] = s]
  BY DEF Settling
<1>2. jobs[job[p]] = "active" /\ job[p] # 0 /\ match' = match /\ \A q \in Procs : job[q] = job[p] => q = p
  BY DEF Line, HeldOK, Settling
<1>3. \A q \in Procs : pc'[q] \in Driving <=> pc[q] \in Driving
  BY DEF Settling, Frame, Driving, Copying, Reading, Marking
<1>4. OneDriver' /\ (Driven' <=> Driven)
  BY <1>3 DEF Line, OneDriver, Driven
<1>5. Off(p)
  BY DEF Off, Settling, Driving, Copying, Reading, Marking
<1>6. \A q \in Procs : CopyOK(q)'
  BY <1>2, <1>5, OffCopyOK, OthersCopyOK DEF Settling, Line
<1>7. \A q \in Procs : HeldOK(q)'
  <2>. SUFFICES ASSUME NEW q \in Procs PROVE HeldOK(q)'
    OBVIOUS
  <2>1. \A r \in Procs \ {p} : job'[r] = job[r] /\ pc'[r] = pc[r] /\ HeldOK(r) /\ job[r] # job[p]
    BY <1>2 DEF Settling, Frame, Line
  <2>2. job'[p] = 0 /\ pc'[p] = "idle"
    BY DEF Settling
  <2>3. CASE q = p
    BY <2>2, <2>3 DEF HeldOK
  <2>4. CASE q # p
    <3>1. job[q] # 0 => jobs'[job[q]] = "active"
      BY <1>1, <2>1, <2>4 DEF HeldOK
    <3>. QED
      BY <2>1, <2>2, <2>4, <3>1 DEF HeldOK
  <2>. QED  BY <2>3, <2>4
<1>8. \A k \in 1..MaxBatches : JobOK(k)'
  <2>. SUFFICES ASSUME NEW k \in 1..MaxBatches PROVE JobOK(k)'
    OBVIOUS
  <2>1. (Queued(k)' => Queued(k)) /\ (jobs'[k] # "none" => jobs[k] # "none")
    BY <1>1, <1>2 DEF Queued
  <2>2. \A q \in Procs : pc'[q] = "schedule" => pc[q] = "schedule"
    BY DEF Settling, Frame
  <2>. QED
    BY <1>2, <1>4, <2>1, <2>2 DEF Line, JobOK
<1>9. Waiting'
  <2>1. Queued(match.nextBatch) => Queued(match.nextBatch)'
    BY <1>1, <1>2 DEF Queued
  <2>. QED
    BY <1>2, <1>4, <2>1 DEF Line, Waiting
<1>. QED
  BY <1>2, <1>4, <1>6, <1>7, <1>8, <1>9 DEF Line, Unopened, Settling

LEMMA LapsingLine ==
  ASSUME Line, Lapsing
  PROVE  Line'
<1>1. match' = match /\ pc' = pc /\ base' = base /\ doc' = doc /\ job' = job /\ jobs' = jobs /\ match.status # "NONE"
  BY DEF Lapsing, locals, Line, Unopened
<1>. QED
  BY <1>1 DEF Line, OneDriver, Driven, CopyOK, HeldOK, JobOK, Queued, Waiting, Unopened

LEMMA LineStep ==
  ASSUME TypeOK, Line, Queueing \/ Lapsing \/ \E p \in Procs : Kinds(p)
  PROVE  Line'
<1>1. jobs \in [1..MaxBatches -> JobStatus] /\ match.nextBatch \in BatchCount /\ MaxBatches \in Nat
  BY Numbers DEF TypeOK, MatchDoc
<1>2. \A n \in 1..MaxBatches : n \in Nat /\ n > 0
  BY <1>1
<1>. QED
  BY <1>1, <1>2, AsideLine, AheadLine, StoppingLine, PostingLine, SchedulingLine, OpeningLine,
     QueueingLine, TakingLine, SettlingLine, LapsingLine DEF Kinds
(***************************************************************************)
(* What the batches hold: the candidates of the batches counted, and of    *)
(* the one being written, no other.                                        *)
(***************************************************************************)
Named(n) == {c.provider : c \in {d \in candidates : d.batch = n}}

Writing == {"record", "save", "directSave"}

Carried == \A c \in candidates :
              \/ c.batch < match.batchCount
              \/ c.batch = match.batchCount /\ \E p \in Procs : pc[p] \in Writing

\* Each is named by the record of its batch, or that record comes next.
Covered == match.mode = "AUTO" => \A c \in candidates :
              \/ \E b \in batches : b.index = c.batch /\ c.provider \in b.providers
              \/ \E p \in Procs : /\ pc[p] = "record" /\ doc[p].batchCount = c.batch
                                  /\ c.provider \in pick[p]

Sized == \A n \in BatchCount : Cardinality(Named(n)) <= BatchSize

\* A direct dispatch has one provider, or none.
SingleOK(p) == pc[p] \in {"create"} \cup Marking => \E q : pick[p] \subseteq {q}
Single      == \A p \in Procs : SingleOK(p)

Contents == New /\ Indices /\ Carried /\ Covered /\ Sized /\ Single

\* A step that contacts nobody and records nothing.
Calm ==
    /\ Kept /\ Came /\ batches' = batches
    /\ match'.mode = match.mode \/ candidates = {}
    /\ \A q \in Procs : pc[q] = "record" => pc'[q] = "record" /\ doc'[q] = doc[q] /\ pick'[q] = pick[q]
    /\ New' /\ Single'
    /\ \/ match'.batchCount = match.batchCount /\ \A q \in Procs : pc[q] \in Writing => pc'[q] = pc[q]
       \/ match'.batchCount > match.batchCount
       \/ batches = {} /\ candidates = {}

LEMMA SameNames ==
  ASSUME Kept, Came
  PROVE  Contacted' = Contacted /\ \A n : Named(n)' = Named(n)
  BY DEF Kept, Came, Contacted, Named

LEMMA CalmStep ==
  ASSUME TypeOK, TypeOK', Contents, Calm
  PROVE  Contents'
<1>0. match.batchCount \in Nat /\ match'.batchCount \in Nat
  BY DEF TypeOK, MatchDoc, BatchCount
<1>1. New' /\ Single'
  BY DEF Calm
<1>2. Sized'
  BY SameNames DEF Calm, Contents, Sized
<1>3. Indices'
  <2>. SUFFICES ASSUME NEW b \in batches
                PROVE  \/ b.index < match'.batchCount
                       \/ b.index = match'.batchCount /\ \E p \in Procs : pc'[p] = "save"
    BY DEF Indices, Calm
  <2>1. b.index \in Nat
    BY DEF TypeOK, Batch, BatchCount
  <2>. QED
    BY <1>0, <2>1 DEF Calm, Contents, Indices, Writing
<1>4. Carried'
  <2>. SUFFICES ASSUME NEW d \in candidates'
                PROVE  \/ d.batch < match'.batchCount
                       \/ d.batch = match'.batchCount /\ \E p \in Procs : pc'[p] \in Writing
    BY DEF Carried
  <2>1. PICK c \in candidates : d.provider = c.provider /\ d.batch = c.batch
    BY DEF Calm, Came
  <2>2. c.batch \in Nat
    BY DEF TypeOK, Candidate, BatchCount
  <2>3. \/ c.batch < match.batchCount
        \/ c.batch = match.batchCount /\ \E p \in Procs : pc[p] \in Writing
    BY DEF Contents, Carried
  <2>4. CASE match'.batchCount = match.batchCount /\ \A q \in Procs : pc[q] \in Writing => pc'[q] = pc[q]
    BY <2>1, <2>3, <2>4
  <2>5. CASE match'.batchCount > match.batchCount
    BY <1>0, <2>1, <2>2, <2>3, <2>5
  <2>. QED
    BY <2>4, <2>5 DEF Calm
<1>5. Covered'
  <2>. SUFFICES ASSUME match'.mode = "AUTO", NEW d \in candidates'
                PROVE  \/ \E b \in batches' : b.index = d.batch /\ d.provider \in b.providers
                       \/ \E p \in Procs : /\ pc'[p] = "record" /\ doc'[p].batchCount = d.batch
                                           /\ d.provider \in pick'[p]
    BY DEF Covered
  <2>1. PICK c \in candidates : d.provider = c.provider /\ d.batch = c.batch
    BY DEF Calm, Came
  <2>2. match.mode = "AUTO"
    BY DEF Calm
  <2>3. \/ \E b \in batches : b.index = c.batch /\ c.provider \in b.providers
        \/ \E p \in Procs : /\ pc[p] = "record" /\ doc[p].batchCount = c.batch
                            /\ c.provider \in pick[p]
    BY <2>2 DEF Contents, Covered
  <2>. QED
    BY <2>1, <2>3 DEF Calm
<1>. QED
  BY <1>1, <1>2, <1>3, <1>4, <1>5 DEF Contents

LEMMA Calmly ==
  ASSUME Contents, NEW p \in Procs, Frame(p), Kept, Came, batches' = batches,
         match'.mode = match.mode \/ candidates = {},
         pc[p] # "record", pc'[p] = "insert" => Refused(pick[p])' = {}, SingleOK(p)',
         \/ match'.batchCount = match.batchCount /\ pc[p] \notin {"save", "directSave"}
         \/ match'.batchCount > match.batchCount
         \/ batches = {} /\ candidates = {}
  PROVE  Calm
<1>1. \A q \in Procs \ {p} : pc'[q] = pc[q] /\ pick'[q] = pick[q] /\ doc'[q] = doc[q]
  BY DEF Frame
<1>2. \A q \in Procs : pc[q] = "record" => pc'[q] = "record" /\ doc'[q] = doc[q] /\ pick'[q] = pick[q]
  BY <1>1
<1>3. Contacted' = Contacted
  BY SameNames
<1>4. New'
  BY <1>1, <1>3 DEF New, Contents, Refused
<1>5. Single'
  BY <1>1 DEF Single, SingleOK, Contents
<1>6. pc[p] \notin {"save", "directSave"} => \A q \in Procs : pc[q] \in Writing => pc'[q] = pc[q]
  BY <1>1 DEF Writing
<1>. QED
  BY <1>2, <1>4, <1>5, <1>6 DEF Calm

\* The same for a step that leaves the match and its candidates alone.
LEMMA Calmest ==
  ASSUME Contents, NEW p \in Procs, Frame(p), UNCHANGED <<match, candidates, batches>>,
         pc[p] \notin Writing, pc'[p] # "insert", SingleOK(p)'
  PROVE  Calm
<1>1. Kept /\ Came
  BY DEF Kept, Came
<1>. QED
  BY <1>1, Calmly DEF Writing

LEMMA ReturnsSingle ==
  ASSUME LocalsOK, NEW p \in Procs, Return(p) \/ Throw(p)
  PROVE  SingleOK(p)' /\ pc'[p] # "insert"
  BY DEF Return, Throw, Leave, LocalsOK, SingleOK, Marking

LEMMA CallsCalm ==
  ASSUME TypeOK, Contents, NEW p \in Procs, Call(p) \/ \E n \in 1..MaxBatches : TakeJob(p, n)
  PROVE  Calm
<1>. USE TypeSplit
<1>0. Frame(p) /\ pc \in [Procs -> Labels] /\ pick \in [Procs -> SUBSET Providers]
  BY StepFrame DEF LocalsOK
<1>1. CASE StartAuto(p) \/ StartDirect(p)
  <2>1. PICK mode \in {"AUTO", "DIRECT"}, chosen \in SUBSET Providers : Start(p, mode, chosen) /\ \E q : chosen \subseteq {q}
    BY <1>1 DEF StartAuto, StartDirect
  <2>2. pc[p] = "idle" /\ pc'[p] = "create" /\ pick'[p] = chosen
    BY <1>0, <2>1 DEF Start, Edit
  <2>3. SingleOK(p)'
    BY <2>1, <2>2 DEF SingleOK
  <2>. QED
    BY <1>0, <2>1, <2>2, <2>3, Calmest DEF Start, stored, Writing
<1>2. CASE CancelLoad(p)
  BY <1>0, <1>2, Calmest DEF CancelLoad, Go, stored, Writing, SingleOK, Marking
<1>3. CASE \E c \in candidates : AnswerLoad(p, c)
  BY <1>0, <1>3, Calmest DEF AnswerLoad, stored, Writing, SingleOK, Marking
<1>4. CASE \E input \in RadiusInputs : ExpandLoad(p, input)
  BY <1>0, <1>4, Calmest DEF ExpandLoad, stored, Writing, SingleOK, Marking
<1>5. CASE \E n \in 1..MaxBatches : TakeJob(p, n)
  BY <1>0, <1>5, Calmest DEF TakeJob, Writing, SingleOK, Marking
<1>. QED
  BY <1>1, <1>2, <1>3, <1>4, <1>5 DEF Call

LEMMA CreateCalm ==
  ASSUME TypeOK, Line, Contents, NEW p \in Procs, CreateMatch(p)
  PROVE  Calm
<1>. USE TypeSplit
<1>0. Frame(p) /\ pc \in [Procs -> Labels] /\ pick \in [Procs -> SUBSET Providers] /\ pc[p] = "create"
  BY StepFrame DEF LocalsOK, Continue, CreateMatch
<1>1. CASE match.status # "NONE"
  BY <1>0, <1>1, Calmest, ReturnsSingle DEF CreateMatch, Writing
<1>2. CASE match.status = "NONE"
  <2>1. candidates = {} /\ batches = {}
    BY <1>2 DEF Line, Unopened
  <2>2. Kept /\ Came /\ batches' = batches
    BY <1>2 DEF CreateMatch, Kept, Came
  <2>3. pc'[p] = "markLoad" /\ pick' = pick
    BY <1>0, <1>2 DEF CreateMatch
  <2>4. SingleOK(p)'
    BY <1>0, <2>3 DEF Contents, Single, SingleOK
  <2>. QED
    BY <1>0, <2>1, <2>2, <2>3, <2>4, Calmly
<1>. QED
  BY <1>1, <1>2

LEMMA MarksCalm ==
  ASSUME TypeOK, Contents, NEW p \in Procs, MarkMatchingLoad(p) \/ MarkMatchingSave(p)
  PROVE  Calm
<1>. USE TypeSplit
<1>0. /\ Frame(p) /\ pc \in [Procs -> Labels] /\ pick \in [Procs -> SUBSET Providers]
      /\ pc[p] \in {"markLoad", "markSave"} /\ UNCHANGED <<match, candidates, batches>>
  BY StepFrame DEF LocalsOK, Continue, MarkMatchingLoad, MarkMatchingSave, stored
<1>1. CASE \E l \in {"markSave", "directInsert"} : Go(p, l)
  <2>1. pick' = pick /\ pc'[p] \in {"markSave", "directInsert"}
    BY <1>0, <1>1 DEF Go
  <2>2. SingleOK(p)'
    BY <1>0, <2>1 DEF Contents, Single, SingleOK, Marking
  <2>. QED
    BY <1>0, <2>1, <2>2, Calmest DEF Writing
<1>2. CASE Leave(p, "load")
  BY <1>0, <1>2, Calmest DEF Leave, SingleOK, Marking, Writing
<1>3. CASE Throw(p)
  BY <1>0, <1>3, Calmest, ReturnsSingle DEF Writing
<1>. QED
  BY <1>1, <1>2, <1>3 DEF MarkMatchingLoad, MarkMatchingSave, AfterMark

LEMMA RunCalm ==
  ASSUME TypeOK, Contents, NEW p \in Procs,
         LoadMatch(p) \/ LoadRequest(p) \/ ExpireStale(p) \/ SelectNextBatch(p)
  PROVE  Calm
<1>. USE TypeSplit
<1>0. /\ Frame(p) /\ pc \in [Procs -> Labels] /\ pick \in [Procs -> SUBSET Providers]
  BY StepFrame DEF LocalsOK, Continue, RunBatch
<1>1. CASE LoadMatch(p)
  <2>1. UNCHANGED <<match, candidates, batches>> /\ pc[p] \notin Writing
    BY <1>1 DEF LoadMatch, stored, Writing
  <2>2. SingleOK(p)' /\ pc'[p] # "insert"
    BY <1>0, <1>1, ReturnsSingle DEF LoadMatch, Load, SingleOK, Marking
  <2>. QED
    BY <1>0, <2>1, <2>2, Calmest
<1>2. CASE LoadRequest(p)
  BY <1>0, <1>2, Calmest DEF LoadRequest, stored, Go, Edit, Writing, SingleOK, Marking
<1>3. CASE ExpireStale(p)
  <2>1. pc[p] = "expire" /\ pc'[p] \in {"select", "terminate"} /\ match' = match /\ batches' = batches
    BY <1>0, <1>3 DEF ExpireStale, Go, Edit
  <2>2. Kept /\ Came
    BY <1>3, ExpireKeeps
  <2>3. SingleOK(p)'
    BY <2>1 DEF SingleOK, Marking
  <2>. QED
    BY <1>0, <2>1, <2>2, <2>3, Calmly
<1>4. CASE SelectNextBatch(p)
  <2>1. UNCHANGED <<match, candidates, batches>> /\ pc[p] = "select" /\ pc'[p] \in {"insert", "terminate"}
    BY <1>0, <1>4 DEF SelectNextBatch, stored, Edit
  <2>2. pc'[p] = "insert" => pick'[p] \cap Contacted = {}
    BY <1>0, <1>4 DEF SelectNextBatch, Edit
  <2>3. Kept /\ Came /\ SingleOK(p)'
    BY <2>1 DEF Kept, Came, SingleOK, Marking
  <2>4. Contacted' = Contacted
    BY <2>3, SameNames
  <2>5. pc'[p] = "insert" => Refused(pick[p])' = {}
    BY <2>2, <2>4 DEF Refused
  <2>. QED
    BY <1>0, <2>1, <2>3, <2>5, Calmly
<1>. QED
  BY <1>1, <1>2, <1>3, <1>4
LEMMA SavesCalm ==
  ASSUME TypeOK, Control, Line, Contents, NEW p \in Procs,
         DirectSave(p) \/ SaveMatch(p) \/ Terminate(p) \/ ScheduleNextBatch(p) \/ ExpandSave(p)
  PROVE  Calm
<1>. USE TypeSplit
<1>0. /\ Frame(p) /\ pc \in [Procs -> Labels] /\ UNCHANGED <<candidates, batches>>
      /\ match.batchCount \in Nat /\ match'.mode = match.mode
  <2>1. Frame(p)
    BY StepFrame DEF Continue, RunBatch
  <2>2. match.batchCount \in Nat
    BY DEF TypeOK, MatchDoc, BatchCount
  <2>3. UNCHANGED <<candidates, batches>> /\ match'.mode = match.mode
    BY DEF DirectSave, SaveMatch, Terminate, ScheduleNextBatch, ExpandSave, Saved
  <2>. QED
    BY <2>1, <2>2, <2>3 DEF LocalsOK
<1>1. Kept /\ Came
  BY <1>0 DEF Kept, Came
<1>2. CASE DirectSave(p)
  <2>1. pc[p] = "directSave" /\ CopyOK(p)
    BY <1>2 DEF DirectSave, Line
  <2>2. match.batchCount = 0 /\ base[p] = match /\ doc[p].batchCount = 1
    BY <2>1 DEF CopyOK, Marking, Copying
  <2>3. match'.batchCount > match.batchCount
    BY <1>2, <2>2 DEF DirectSave, Saved, SetIfModified
  <2>4. SingleOK(p)' /\ pc'[p] # "insert"
    BY <1>2, ReturnsSingle DEF DirectSave
  <2>. QED
    BY <1>0, <1>1, <2>1, <2>3, <2>4, Calmly
<1>3. CASE SaveMatch(p)
  <2>1. pc[p] = "save" /\ base[p] = match /\ doc[p].batchCount = match.batchCount + 1
    BY <1>3, DriverReads DEF SaveMatch
  <2>2. match'.batchCount > match.batchCount
    BY <1>0, <1>3, <2>1 DEF SaveMatch, Saved, SetIfModified
  <2>3. pc'[p] = "schedule"
    BY <1>0, <1>3 DEF SaveMatch, Go
  <2>4. SingleOK(p)'
    BY <2>3 DEF SingleOK, Marking
  <2>. QED
    BY <1>0, <1>1, <2>1, <2>2, <2>3, <2>4, Calmly
<1>4. CASE Terminate(p)
  <2>1. pc[p] = "terminate" /\ base[p] = match /\ doc[p].batchCount = match.batchCount
    BY <1>4, DriverReads DEF Terminate
  <2>2. match'.batchCount = match.batchCount
    BY <1>4, <2>1 DEF Terminate, Saved, SetIfModified
  <2>3. SingleOK(p)' /\ pc'[p] # "insert"
    BY <1>4, ReturnsSingle DEF Terminate
  <2>. QED
    BY <1>0, <1>1, <2>1, <2>2, <2>3, Calmly
<1>5. CASE ScheduleNextBatch(p)
  <2>1. pc[p] = "schedule" /\ match' = match
    BY <1>5 DEF ScheduleNextBatch
  <2>2. SingleOK(p)' /\ pc'[p] # "insert"
    BY <1>5, ReturnsSingle DEF ScheduleNextBatch
  <2>. QED
    BY <1>0, <1>1, <2>1, <2>2, Calmly
<1>6. CASE ExpandSave(p)
  BY <1>6 DEF ExpandSave, Line, CopyOK
<1>. QED
  BY <1>2, <1>3, <1>4, <1>5, <1>6

LEMMA AnswersCalm ==
  ASSUME TypeOK, Contents, NEW p \in Procs, CancelSave(p) \/ AnswerSave(p) \/ SettleJob(p)
  PROVE  Calm
<1>. USE TypeSplit
<1>0. Frame(p) /\ pc \in [Procs -> Labels]
  BY StepFrame DEF LocalsOK, Continue
<1>1. CASE CancelSave(p)
  BY <1>0, <1>1, Calmest, ReturnsSingle DEF CancelSave, Writing
<1>2. CASE AnswerSave(p)
  <2>1. Kept /\ Came
    BY <1>2, AnswerKeeps
  <2>2. SingleOK(p)' /\ pc'[p] # "insert"
    BY <1>2, ReturnsSingle DEF AnswerSave
  <2>. QED
    BY <1>0, <1>2, <2>1, <2>2, Calmly DEF AnswerSave
<1>3. CASE SettleJob(p)
  <2>1. pc'[p] = "idle"
    BY <1>0, <1>3 DEF SettleJob
  <2>. QED
    BY <1>0, <1>3, <2>1, Calmest DEF SettleJob, Writing, SingleOK, Marking
<1>. QED
  BY <1>1, <1>2, <1>3

LEMMA ClockCalm ==
  ASSUME TypeOK, Contents, (\E n \in 1..MaxBatches : JobDue(n)) \/ (\E c \in candidates : Lapse(c))
  PROVE  Calm
<1>1. match' = match /\ batches' = batches /\ pc' = pc /\ doc' = doc /\ pick' = pick
  BY DEF JobDue, Lapse, locals
<1>2. Kept /\ Came
  BY LapseKeeps DEF JobDue, Kept, Came
<1>3. New' /\ Single'
  BY <1>1, <1>2, SameNames DEF Contents, New, Refused, Single, SingleOK
<1>. QED
  BY <1>1, <1>2, <1>3 DEF Calm

(***************************************************************************)
(* The steps that contact providers and record a batch.                    *)
(***************************************************************************)
\* While a driver inserts, no candidate belongs to the batch it writes.
LEMMA BatchEmpty ==
  ASSUME TypeOK, Line, Contents, NEW p \in Procs, pc[p] \in Driving, pc[p] \notin Writing
  PROVE  \A c \in candidates : c.batch < match.batchCount
<1>1. \A q \in Procs : pc[q] \notin Writing
  <2>1. \A q \in Procs : pc[q] \in Writing => pc[q] \in Driving
    BY DEF Writing, Driving, Copying, Reading, Marking
  <2>. QED
    BY <2>1 DEF Line, OneDriver
<1>. QED
  BY <1>1 DEF Contents, Carried

\* Whatever the batch before, these are its providers after.
LEMMA NamedAfter ==
  ASSUME NEW chosen, NEW n, candidates' = candidates \cup NewCandidates(chosen, n),
         \A c \in candidates : c.batch # n
  PROVE  /\ Named(n)' = chosen
         /\ \A k : k # n => Named(k)' = Named(k)
<1>1. \A c \in NewCandidates(chosen, n) : c.provider \in chosen /\ c.batch = n
  BY NewFields
<1>2. ASSUME NEW q \in chosen PROVE \E c \in NewCandidates(chosen, n) : c.provider = q
  <2>. DEFINE c == [provider |-> q, batch |-> n, status |-> "NOTIFIED", lapsed |-> FALSE]
  <2>1. c \in NewCandidates(chosen, n)
    BY DEF NewCandidates
  <2>2. c.provider = q
    OBVIOUS
  <2>. QED
    BY <2>1, <2>2
<1>3. Named(n)' = chosen
  BY <1>1, <1>2 DEF Named
<1>4. ASSUME NEW k, k # n PROVE Named(k)' = Named(k)
  BY <1>1, <1>4 DEF Named
<1>. QED
  BY <1>3, <1>4

LEMMA InsertContents ==
  ASSUME TypeOK, TypeOK', Line, Contents, Fitting, NEW p \in Procs, InsertCandidates(p)
  PROVE  Contents'
<1>. USE TypeSplit
<1>0. Frame(p) /\ pc \in [Procs -> Labels] /\ match.batchCount \in Nat
  <2>1. Frame(p)
    BY StepFrame DEF Continue, RunBatch
  <2>. QED
    BY <2>1 DEF LocalsOK, TypeOK, MatchDoc, BatchCount
<1>1. pc[p] = "insert" /\ pc[p] \in Reading /\ pc[p] \in Driving /\ pc[p] \notin Writing
  BY DEF InsertCandidates, Reading, Driving, Copying, Writing
<1>2. doc[p].batchCount = match.batchCount
  BY <1>1, DriverReads
<1>3. Refused(pick[p]) = {}
  BY <1>1 DEF Contents, New
<1>4. /\ candidates' = candidates \cup NewCandidates(pick[p], match.batchCount)
      /\ pc'[p] = "record" /\ doc' = doc /\ pick' = pick /\ match' = match /\ batches' = batches
  BY <1>0, <1>2, <1>3 DEF InsertCandidates, AfterInsert, Go
<1>5. \A q \in Procs \ {p} : pc'[q] = pc[q] /\ pc[q] \notin Driving
  BY <1>1, DrivenOpen, <1>0 DEF Frame
<1>6. \A c \in candidates : c.batch < match.batchCount
  BY <1>1, BatchEmpty
<1>7. \A c \in NewCandidates(pick[p], match.batchCount) : c.provider \in pick[p] /\ c.batch = match.batchCount
  BY NewFields
<1>8. New' /\ Single'
  <2>1. \A q \in Procs : pc'[q] # "insert"
    BY <1>4, <1>5 DEF Driving, Copying, Reading
  <2>2. \A q \in Procs : SingleOK(q)'
    BY <1>4, <1>5 DEF Contents, Single, SingleOK, Marking
  <2>. QED
    BY <2>1, <2>2 DEF New, Single
<1>9. Indices'
  BY <1>1, <1>4, <1>5 DEF Contents, Indices
<1>10. Carried'
  BY <1>4, <1>6, <1>7 DEF Carried, Writing
<1>11. Covered'
  <2>. SUFFICES ASSUME match.mode = "AUTO", NEW c \in candidates'
                PROVE  \/ \E b \in batches : b.index = c.batch /\ c.provider \in b.providers
                       \/ c.batch = doc[p].batchCount /\ c.provider \in pick[p]
    BY <1>4 DEF Covered
  <2>1. CASE c \in candidates
    <3>1. \A q \in Procs : pc[q] # "record"
      BY <1>1, <1>5 DEF Driving, Copying, Reading
    <3>. QED
      BY <2>1, <3>1 DEF Contents, Covered
  <2>2. CASE c \in NewCandidates(pick[p], match.batchCount)
    BY <1>2, <1>7, <2>2
  <2>. QED
    BY <1>4, <2>1, <2>2
<1>12. Sized'
  <2>1. \A c \in candidates : c.batch # match.batchCount
    <3>1. \A c \in candidates : c.batch \in Nat
      BY DEF TypeOK, Candidate, BatchCount
    <3>. QED
      BY <1>0, <1>6, <3>1
  <2>2. Named(match.batchCount)' = pick[p] /\ \A k : k # match.batchCount => Named(k)' = Named(k)
    BY <1>4, <2>1, NamedAfter
  <2>3. Cardinality(pick[p]) <= BatchSize
    BY <1>1 DEF Fitting, FitsBatch
  <2>. SUFFICES ASSUME NEW k \in BatchCount PROVE Cardinality(Named(k)') <= BatchSize
    BY DEF Sized
  <2>4. CASE k = match.batchCount
    BY <1>4, <2>2, <2>3, <2>4
  <2>5. CASE k # match.batchCount
    BY <2>2, <2>5 DEF Contents, Sized
  <2>. QED
    BY <2>4, <2>5
<1>. QED
  BY <1>8, <1>9, <1>10, <1>11, <1>12 DEF Contents

LEMMA DirectContents ==
  ASSUME TypeOK, TypeOK', Control, Line, Contents, NEW p \in Procs, DirectInsert(p)
  PROVE  Contents'
<1>. USE TypeSplit
<1>0. /\ Frame(p) /\ pc \in [Procs -> Labels] /\ pick \in [Procs -> SUBSET Providers]
      /\ match' = match /\ batches' = batches
  BY StepFrame DEF LocalsOK, Continue, DirectInsert
<1>1. /\ pc[p] = "directInsert" /\ pc[p] \in Marking /\ pc[p] \in Driving /\ pc[p] \notin Writing
  BY DEF DirectInsert, Marking, Driving, Copying, Writing
<1>2. CASE Throw(p) /\ candidates' = candidates
  BY <1>0, <1>1, <1>2, Calmest, CalmStep, ReturnsSingle
<1>3. CASE candidates' = candidates \cup NewCandidates(pick[p], 0) /\ Edit(p, DirectDone(doc[p]), {}, "directSave")
  <2>1. match.batchCount = 0 /\ match.mode = "DIRECT"
    BY <1>1 DEF Line, CopyOK, Control, ControlOK, MarkOK
  <2>2. pc'[p] = "directSave" /\ pick'[p] = {}
    BY <1>0, <1>3 DEF Edit
  <2>3. \A q \in Procs \ {p} : pc'[q] = pc[q] /\ pc[q] \notin Driving /\ pick'[q] = pick[q]
    BY <1>1, DrivenOpen, <1>0 DEF Frame
  <2>4. \A c \in candidates : c.batch < 0 /\ c.batch \in Nat
    BY <1>1, <2>1, BatchEmpty DEF TypeOK, Candidate, BatchCount
  <2>5. candidates = {}
    BY <2>4
  <2>6. \A c \in NewCandidates(pick[p], 0) : c.provider \in pick[p] /\ c.batch = 0
    BY NewFields
  <2>7. New' /\ Single'
    <3>1. \A q \in Procs : pc'[q] # "insert"
      BY <2>2, <2>3 DEF Driving, Copying, Reading
    <3>2. \A q \in Procs : SingleOK(q)'
      BY <2>2, <2>3 DEF Contents, Single, SingleOK, Marking
    <3>. QED
      BY <3>1, <3>2 DEF New, Single
  <2>8. Indices'
    BY <1>0, <1>1, <2>3 DEF Contents, Indices
  <2>9. Carried'
    BY <1>0, <1>3, <2>1, <2>2, <2>5, <2>6 DEF Carried, Writing
  <2>10. Covered'
    BY <1>0, <2>1 DEF Covered
  <2>11. Sized'
    <3>1. Named(0)' = pick[p] /\ \A k : k # 0 => Named(k)' = Named(k)
      BY <1>3, <2>5, NamedAfter
    <3>2. PICK q : pick[p] \subseteq {q}
      BY <1>1 DEF Contents, Single, SingleOK
    <3>3. Cardinality(pick[p]) <= 1
      <4>1. CASE pick[p] = {}
        <5>1. Cardinality({}) = 0
          BY FS_EmptySet
        <5>. QED  BY <4>1, <5>1
      <4>2. CASE pick[p] = {q}
        <5>1. Cardinality({q}) = 1
          BY FS_Singleton
        <5>. QED  BY <4>2, <5>1
      <4>. QED
        BY <3>2, <4>1, <4>2
    <3>4. Cardinality(pick[p]) \in Nat
      BY <1>0, InstanceAssumption, FS_Subset, FS_CardinalityType
    <3>. QED
      BY <3>1, <3>3, <3>4, ConfigAssumption DEF Sized, Contents
  <2>. QED
    BY <2>7, <2>8, <2>9, <2>10, <2>11 DEF Contents
<1>. QED
  BY <1>2, <1>3 DEF DirectInsert

LEMMA RecordContents ==
  ASSUME TypeOK, TypeOK', Line, Contents, NEW p \in Procs, CreateBatch(p)
  PROVE  Contents'
<1>. USE TypeSplit
<1>0. /\ Frame(p) /\ pc \in [Procs -> Labels] /\ pick \in [Procs -> SUBSET Providers] /\ match' = match
      /\ candidates' = candidates /\ match.batchCount \in Nat
  <2>1. Frame(p)
    BY StepFrame DEF Continue, RunBatch
  <2>2. match.batchCount \in Nat
    BY DEF TypeOK, MatchDoc, BatchCount
  <2>. QED
    BY <2>1, <2>2 DEF LocalsOK, CreateBatch
<1>1. pc[p] = "record" /\ pc[p] \in Reading /\ pc[p] \in Driving
  BY DEF CreateBatch, Reading, Driving, Copying
<1>2. doc[p].batchCount = match.batchCount
  BY <1>1, DriverReads
<1>3. ~Recorded(doc[p].batchCount)
  BY <1>0, <1>1, <1>2, IndexFree DEF Contents
<1>. DEFINE b == [index |-> doc[p].batchCount, radius |-> doc[p].radius, providers |-> pick[p]]
<1>4. batches' = batches \cup {b} /\ pc'[p] = "save"
  BY <1>0, <1>3 DEF CreateBatch, Edit
<1>5. b.index = match.batchCount /\ b.providers = pick[p]
  BY <1>2
<1>. HIDE DEF b
<1>6. \A q \in Procs \ {p} : pc'[q] = pc[q] /\ pc[q] \notin Driving /\ pick'[q] = pick[q]
  BY <1>1, DrivenOpen, <1>0 DEF Frame
<1>7. New' /\ Single'
  <2>1. \A q \in Procs : pc'[q] # "insert"
    BY <1>4, <1>6 DEF Driving, Copying, Reading
  <2>2. \A q \in Procs : SingleOK(q)'
    BY <1>4, <1>6 DEF Contents, Single, SingleOK, Marking
  <2>. QED
    BY <2>1, <2>2 DEF New, Single
<1>8. Indices'
  <2>1. \A q \in Procs : pc[q] # "save"
    BY <1>1, <1>6 DEF Driving, Copying
  <2>2. \A a \in batches : a.index < match.batchCount
    BY <2>1 DEF Contents, Indices
  <2>. QED
    BY <1>0, <1>4, <1>5, <2>2 DEF Indices
<1>9. Carried'
  BY <1>0, <1>4 DEF Contents, Carried, Writing
<1>10. Covered'
  <2>. SUFFICES ASSUME match.mode = "AUTO", NEW c \in candidates
                PROVE  \E a \in batches' : a.index = c.batch /\ c.provider \in a.providers
    BY <1>0 DEF Covered
  <2>1. CASE \E a \in batches : a.index = c.batch /\ c.provider \in a.providers
    BY <1>4, <2>1
  <2>2. CASE \E q \in Procs : pc[q] = "record" /\ doc[q].batchCount = c.batch /\ c.provider \in pick[q]
    <3>1. doc[p].batchCount = c.batch /\ c.provider \in pick[p]
      BY <1>6, <2>2 DEF Driving, Copying, Reading
    <3>. QED
      BY <1>2, <1>4, <1>5, <3>1
  <2>. QED
    BY <2>1, <2>2 DEF Contents, Covered
<1>11. Sized'
  BY <1>0 DEF Contents, Sized, Named
<1>. QED
  BY <1>7, <1>8, <1>9, <1>10, <1>11 DEF Contents

LEMMA ContentsStep ==
  ASSUME TypeOK, TypeOK', Control, Line, Contents, Fitting, Undisturbed, faults = 0, Next
  PROVE  Contents'
<1>1. ASSUME NEW p \in Procs, Continue(p) PROVE Contents'
  <2>1. CASE CreateMatch(p) \/ MarkMatchingLoad(p) \/ MarkMatchingSave(p)
    BY <2>1, CreateCalm, MarksCalm, CalmStep
  <2>2. CASE LoadMatch(p) \/ LoadRequest(p) \/ ExpireStale(p) \/ SelectNextBatch(p)
    BY <2>2, RunCalm, CalmStep
  <2>3. CASE DirectSave(p) \/ SaveMatch(p) \/ Terminate(p) \/ ScheduleNextBatch(p) \/ ExpandSave(p)
    BY <2>3, SavesCalm, CalmStep
  <2>4. CASE CancelSave(p) \/ AnswerSave(p) \/ SettleJob(p)
    BY <2>4, AnswersCalm, CalmStep
  <2>. QED
    BY <1>1, <2>1, <2>2, <2>3, <2>4, InsertContents, DirectContents, RecordContents
       DEF Continue, RunBatch
<1>. QED
  BY <1>1, CallsCalm, ClockCalm, CalmStep, NoFault DEF Next

(***************************************************************************)
(* The invariant of the chain, and what it gives.                          *)
(***************************************************************************)
Chain == Line /\ Contents /\ Fitting /\ faults = 0

LEMMA ChainInit ==
  ASSUME Init
  PROVE  Chain
<1>1. /\ \A p \in Procs : pc[p] = "idle" /\ job[p] = 0 /\ pick[p] = {}
      /\ \A n \in 1..MaxBatches : jobs[n] = "none"
      /\ match = NoMatch /\ match.status = "NONE" /\ match.nextBatch = 0
      /\ candidates = {} /\ batches = {} /\ faults = 0
  BY DEF Init, NoMatch
<1>2. Line
  BY <1>1 DEF Line, OneDriver, CopyOK, HeldOK, JobOK, Queued, Waiting, Unopened, Driven, Driving,
     Copying, Reading, Marking
<1>3. Sized
  <2>1. \A n : Named(n) = {}
    BY <1>1 DEF Named
  <2>. QED
    BY <2>1, FS_EmptySet, ConfigAssumption DEF Sized
<1>4. Contents
  BY <1>1, <1>3 DEF Contents, New, Indices, Carried, Covered, Single, SingleOK, Marking
<1>. QED
  BY <1>1, <1>2, <1>4 DEF Chain, Fitting

LEMMA ChainStep ==
  ASSUME TypeOK, TypeOK', Control, Chain, Undisturbed, [Next]_vars
  PROVE  Chain'
<1>1. CASE Next
  <2>1. Contents' /\ Fitting'
    BY <1>1, ContentsStep, FittingStep DEF Chain
  <2>2. Line'
    BY <1>1, LineKinds, LineStep DEF Chain, Contents
  <2>3. faults' = faults
    <3>1. \A p \in Procs : ~Fault(p)
      BY NoFault DEF Chain
    <3>. QED
      BY <1>1, <3>1 DEF Next, Call, Continue, RunBatch, StartAuto, StartDirect, Start, CancelLoad,
         ExpandLoad, AnswerLoad, CreateMatch, MarkMatchingLoad, MarkMatchingSave, DirectInsert,
         DirectSave, ExpandSave, LoadMatch, LoadRequest, ExpireStale, SelectNextBatch,
         InsertCandidates, CreateBatch, SaveMatch, Terminate, ScheduleNextBatch, SettleJob,
         CancelSave, AnswerSave, TakeJob, JobDue, Lapse
  <2>. QED
    BY <2>1, <2>2, <2>3 DEF Chain
<1>2. CASE UNCHANGED vars
  <2>1. Line'
    BY <1>2 DEF vars, stored, locals, Chain, Line, OneDriver, CopyOK, HeldOK, JobOK, Queued, Waiting,
       Unopened, Driven
  <2>2. Contents'
    BY <1>2 DEF vars, stored, locals, Chain, Contents, New, Refused, Contacted, Indices, Carried, Covered,
       Sized, Named, Single, SingleOK
  <2>. QED
    BY <1>2, <2>1, <2>2 DEF vars, stored, locals, Chain, Fitting
<1>. QED
  BY <1>1, <1>2

\* One driver, one job, batches that never mix: the invariant of the chain.
THEOREM ChainInvariant ==
  ASSUME Undisturbed
  PROVE  Spec => []Chain
<1>1. Init => Chain
  BY ChainInit
<1>2. TypeOK /\ TypeOK' /\ Control /\ Chain /\ [Next]_vars => Chain'
  BY ChainStep
<1>. QED
  BY <1>1, <1>2, TypeInvariant, PTL DEF Spec

LEMMA QuietIsIdle ==
  ASSUME Quiet
  PROVE  ~Driven /\ \A p \in Procs : pc[p] # "record"
  BY DEF Quiet, Driven, Driving, Copying, Reading, Marking

\* A match that waits for its next batch has the job that will run it: no
\* interleaving of the calls leaves the search without a timer, as long as no
\* call fails and nobody widens it.
THEOREM TheTimerRuns ==
  ASSUME Undisturbed
  PROVE  Spec => []TimerHasJob
<1>1. Chain => TimerHasJob
  BY QuietIsIdle DEF Chain, Line, Waiting, Queued, TimerHasJob
<1>. QED
  BY <1>1, ChainInvariant, PTL

\* Every provider an AUTO match has contacted is in the record of its batch.
THEOREM ContactsAreRecorded ==
  ASSUME Undisturbed
  PROVE  Spec => []ContactsRecorded
<1>1. Chain => ContactsRecorded
  BY QuietIsIdle DEF Chain, Contents, Covered, ContactsRecorded
<1>. QED
  BY <1>1, ChainInvariant, PTL

\* No batch contacts more providers than the configured size, although the
\* members of a batch and its size are written by different calls.
THEOREM BatchesStaySmall ==
  ASSUME Undisturbed
  PROVE  Spec => []SmallBatches
<1>1. TypeOK /\ ContactedOnce /\ Chain => SmallBatches
  <2>. SUFFICES ASSUME TypeOK, ContactedOnce, Chain, NEW n \in BatchCount
                PROVE  Cardinality({c \in candidates : c.batch = n}) <= BatchSize
    BY DEF SmallBatches
  <2>. DEFINE mine == {c \in candidates : c.batch = n}
              who  == [c \in mine |-> c.provider]
  <2>1. Named(n) \subseteq Providers /\ IsFiniteSet(Named(n))
    <3>1. Named(n) \subseteq Providers
      BY DEF Named, TypeOK, Candidate
    <3>. QED
      BY <3>1, InstanceAssumption, FS_Subset
  <2>2. who \in Injection(mine, Named(n))
    <3>1. who \in [mine -> Named(n)]
      BY DEF Named
    <3>2. \A c, d \in mine : who[c] = who[d] => c = d
      BY DEF ContactedOnce
    <3>. QED
      BY <3>1, <3>2 DEF Injection, IsInjective
  <2>3. Cardinality(mine) <= Cardinality(Named(n)) /\ IsFiniteSet(mine)
    BY <2>1, <2>2, FS_Injection DEF ExistsInjection
  <2>4. Cardinality(Named(n)) <= BatchSize
    BY DEF Chain, Contents, Sized
  <2>5. Cardinality(mine) \in Nat /\ Cardinality(Named(n)) \in Nat /\ BatchSize \in Nat
    BY <2>1, <2>3, FS_CardinalityType, ConfigAssumption
  <2>. QED
    BY <2>3, <2>4, <2>5
<1>. QED
  BY <1>1, ChainInvariant, TypeCorrect, NobodyTwice, PTL
=============================================================================
