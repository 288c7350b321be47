---------------------------- MODULE Verification ----------------------------
(***************************************************************************)
(* The collections of VerificationService and the storage it asks about    *)
(* uploaded documents.  Module Onboarding makes the calls.                 *)
(***************************************************************************)
EXTENDS Companies, Providers

CONSTANTS
    MaxDocuments,  \* bound on the documents announced
    MaxDecisions   \* bound on the decisions recorded

VARIABLES
    cases,      \* verification_cases, in the order of their insertion
    documents,  \* verification_documents, likewise
    decisions,  \* verification_decisions, likewise
    stored      \* the documents whose object is in storage

Status  == {"DRAFT", "IN_REVIEW", "NEEDS_CORRECTION", "VERIFIED", "REJECTED", "SUSPENDED"}
Outcome == {"APPROVED", "REJECTED", "CORRECTION_REQUESTED", "SUSPENDED"}
Target  == [type: {"PROVIDER", "COMPANY"}, id: Nat]

Case     == [target: Target, status: Status]
Document == [case: Nat, status: {"PENDING_UPLOAD", "UPLOADED"}]
Decision == [case: Nat, outcome: Outcome]

Targets ==
    {[type |-> "PROVIDER", id |-> i] : i \in DOMAIN profiles} \cup
    {[type |-> "COMPANY",  id |-> i] : i \in DOMAIN companies}

OwnsTarget(t, u) ==
    IF t.type = "PROVIDER" THEN t.id \in DOMAIN profiles /\ profiles[t.id] = u
    ELSE IsActiveOwner(t.id, u)

CasesOf(t) == {k \in DOMAIN cases : cases[k].target = t}

\* Mutant: the collection without its unique index.
SeveralCases(t) == TRUE

\* The unique index on (targetType, targetId).
NoCase(t) == CasesOf(t) = {}

InsertCase(t) == cases' = IF NoCase(t) THEN Append(cases, [target |-> t, status |-> "DRAFT"]) ELSE cases

SaveCase(k, seen, status) == cases' = [cases EXCEPT ![k].status = SetIfModified(seen, status, @)]

\* getOwnedCaseForEdit.  Its second call, for the owner, is read with the case:
\* a target never changes its owner.
EditableBy(k, u) == OwnsTarget(cases[k].target, u) /\ cases[k].status \in {"DRAFT", "NEEDS_CORRECTION"}

InsertDocument(k) == documents' = Append(documents, [case |-> k, status |-> "PENDING_UPLOAD"])

\* objectExists.
ObjectExists(d) == d \in stored

SaveUploaded(d) == documents' = [documents EXCEPT ![d].status = "UPLOADED"]

\* Mutant: an announced document is enough to be reviewed.
SomeAnnounced(k) == \E d \in DOMAIN documents : documents[d].case = k

\* submit counts the uploaded documents of the case.
SomeUploaded(k) == \E d \in DOMAIN documents : documents[d].case = k /\ documents[d].status = "UPLOADED"

\* Mutant: a case may be suspended while it is reviewed.
AnyTransition(status, outcome) == status \in {"IN_REVIEW", "VERIFIED"}

\* The transitions decide accepts.
ValidTransition(status, outcome) ==
    IF outcome = "SUSPENDED" THEN status = "VERIFIED" ELSE status = "IN_REVIEW"

OutcomeToStatus(outcome) ==
    CASE outcome = "APPROVED"             -> "VERIFIED"
      [] outcome = "REJECTED"             -> "REJECTED"
      [] outcome = "CORRECTION_REQUESTED" -> "NEEDS_CORRECTION"
      [] outcome = "SUSPENDED"            -> "SUSPENDED"

InsertDecision(k, outcome) == decisions' = Append(decisions, [case |-> k, outcome |-> outcome])

Decided(k, outcome) == \E i \in DOMAIN decisions : decisions[i] = [case |-> k, outcome |-> outcome]

\* findVerifiedTargetIds: what ranking and the public profile read.
VerifiedTargets == {cases[k].target : k \in {j \in DOMAIN cases : cases[j].status = "VERIFIED"}}

VerificationOK ==
    /\ CompaniesOK /\ ProvidersOK
    /\ cases \in Seq(Case) /\ documents \in Seq(Document) /\ decisions \in Seq(Decision)
    /\ stored \subseteq DOMAIN documents
    /\ Len(documents) <= MaxDocuments /\ Len(decisions) <= MaxDecisions
=============================================================================
