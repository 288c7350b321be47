----------------------------- MODULE Onboarding -----------------------------
(***************************************************************************)
(* How a provider or a company comes to be verified: the requests served   *)
(* by AuthService, ProviderService, CompanyService and VerificationService.*)
(* A request makes one database or storage call per step, and a replica    *)
(* may die between two of them.                                            *)
(***************************************************************************)
EXTENDS Verification

CONSTANTS
    Handlers,  \* requests served at the same time
    Crashes    \* whether requests may die half way

ASSUME OnboardingAssumption ==
    /\ {MaxCompanies, MaxDocuments, MaxDecisions} \subseteq Nat /\ Crashes \in BOOLEAN
    /\ Users # {} /\ People \subseteq Users

VARIABLE h  \* h[p]: what handler p is doing

companyVars      == <<companies, members>>
providerVars     == <<accounts, profiles>>
verificationVars == <<cases, documents, decisions, stored>>
vars == <<companyVars, providerVars, verificationVars, h>>

Steps == {"idle", "saveAge", "saveRole", "createProfile", "createOwner", "findMember", "createMember",
          "saveActive", "loadMember", "countOwners", "saveRemoved", "findCase", "createCase",
          "createDocument", "askStorage", "saveUploaded", "countUploaded", "saveInReview",
          "createDecision", "saveDecided"}

\* The row the request works on, what it loaded of it and what it was asked for.
Handler == [step: Steps, user: Users, row: Nat, seen: {"none"} \cup Age \cup Standing \cup Status,
            asked: {"none", "PROVIDER", "COMPANY"} \cup Age \cup Outcome]
Idle    == [step |-> "idle", user |-> CHOOSE u \in Users : TRUE, row |-> 0, seen |-> "none", asked |-> "none"]

Begin(p, step, u, row, seen, asked) ==
    /\ h[p] = Idle
    /\ h' = [h EXCEPT ![p] = [step |-> step, user |-> u, row |-> row, seen |-> seen, asked |-> asked]]
At(p, step)   == h[p].step = step
Go(p, step)   == h' = [h EXCEPT ![p].step = step]
Return(p)     == h' = [h EXCEPT ![p] = Idle]

-----------------------------------------------------------------------------
\* PATCH /auth/me.
UpdateMe(p, u, age) ==
    /\ Begin(p, "saveAge", u, 0, accounts[u].age, age)
    /\ UNCHANGED <<companyVars, providerVars, verificationVars>>

SaveAge(p) ==
    /\ At(p, "saveAge")
    /\ accounts' = [accounts EXCEPT ![h[p].user].age = SetIfModified(h[p].seen, h[p].asked, @)]
    /\ Return(p)
    /\ UNCHANGED <<companyVars, profiles, verificationVars>>

\* POST /auth/roles/provider.
BecomeProvider(p, u) ==
    /\ MayBecomeProvider(accounts[u])
    /\ Begin(p, "saveRole", u, 0, "none", "none")
    /\ UNCHANGED <<companyVars, providerVars, verificationVars>>

SaveRole(p) ==
    /\ At(p, "saveRole")
    /\ accounts' = [accounts EXCEPT ![h[p].user].provider = TRUE]
    /\ Return(p)
    /\ UNCHANGED <<companyVars, profiles, verificationVars>>

\* POST /providers/me: findOne, then create.
OpenProfile(p, u) ==
    /\ HasProviderRole(u) /\ ProfilesOf(u) = {}
    /\ Begin(p, "createProfile", u, 0, "none", "none")
    /\ UNCHANGED <<companyVars, providerVars, verificationVars>>

CreateProfile(p) ==
    /\ At(p, "createProfile")
    /\ InsertProfile(h[p].user)
    /\ Return(p)
    /\ UNCHANGED <<companyVars, accounts, verificationVars>>

-----------------------------------------------------------------------------
\* POST /companies: the company, then its owner.
CreateCompany(p, u) ==
    /\ Len(companies) < MaxCompanies
    /\ InsertCompany(u)
    /\ Begin(p, "createOwner", u, Len(companies) + 1, "none", "none")
    /\ UNCHANGED <<members, providerVars, verificationVars>>

CreateOwner(p) ==
    /\ At(p, "createOwner")
    /\ InsertMember(h[p].row, h[p].user, "OWNER", "ACTIVE")
    /\ Return(p)
    /\ UNCHANGED <<companies, providerVars, verificationVars>>

\* POST /companies/:id/members by owner u, for user v.
Invite(p, u, c, v) ==
    /\ IsActiveOwner(c, u)
    /\ Begin(p, "findMember", v, c, "none", "none")
    /\ UNCHANGED <<companyVars, providerVars, verificationVars>>

FindMember(p) ==
    /\ At(p, "findMember")
    /\ IF Membership(h[p].row, h[p].user) = {} THEN Go(p, "createMember") ELSE Return(p)
    /\ UNCHANGED <<companyVars, providerVars, verificationVars>>

CreateMember(p) ==
    /\ At(p, "createMember")
    /\ InsertMember(h[p].row, h[p].user, "MEMBER", "INVITED")
    /\ Return(p)
    /\ UNCHANGED <<companies, providerVars, verificationVars>>

\* POST /companies/:id/members/me/accept.
AcceptInvite(p, u, i) ==
    /\ members[i].user = u /\ members[i].status = "INVITED"
    /\ Begin(p, "saveActive", u, i, members[i].status, "none")
    /\ UNCHANGED <<companyVars, providerVars, verificationVars>>

SaveActive(p) ==
    /\ At(p, "saveActive")
    /\ SaveMember(h[p].row, h[p].seen, "ACTIVE")
    /\ Return(p)
    /\ UNCHANGED <<companies, providerVars, verificationVars>>

\* DELETE /companies/:id/members/:memberId by owner u.
RemoveMember(p, u, i) ==
    /\ IsActiveOwner(members[i].company, u)
    /\ Begin(p, "loadMember", u, i, "none", "none")
    /\ UNCHANGED <<companyVars, providerVars, verificationVars>>

LoadMember(p) ==
    /\ At(p, "loadMember")
    /\ h' = [h EXCEPT ![p].seen = members[h[p].row].status,
                      ![p].step = IF members[h[p].row].role = "OWNER" THEN "countOwners" ELSE "saveRemoved"]
    /\ UNCHANGED <<companyVars, providerVars, verificationVars>>

CountOwners(p) ==
    /\ At(p, "countOwners")
    /\ IF Removable(h[p].row) THEN Go(p, "saveRemoved") ELSE Return(p)
    /\ UNCHANGED <<companyVars, providerVars, verificationVars>>

SaveRemoved(p) ==
    /\ At(p, "saveRemoved")
    /\ SaveMember(h[p].row, h[p].seen, "REMOVED")
    /\ Return(p)
    /\ UNCHANGED <<companies, providerVars, verificationVars>>

-----------------------------------------------------------------------------
\* POST /verification/cases.
OpenCase(p, u, t) ==
    /\ OwnsTarget(t, u)
    /\ Begin(p, "findCase", u, t.id, "none", t.type)
    /\ UNCHANGED <<companyVars, providerVars, verificationVars>>

Wanted(p) == [type |-> h[p].asked, id |-> h[p].row]

FindCase(p) ==
    /\ At(p, "findCase")
    /\ IF CasesOf(Wanted(p)) = {} THEN Go(p, "createCase") ELSE Return(p)
    /\ UNCHANGED <<companyVars, providerVars, verificationVars>>

CreateCase(p) ==
    /\ At(p, "createCase")
    /\ InsertCase(Wanted(p))
    /\ Return(p)
    /\ UNCHANGED <<companyVars, providerVars, documents, decisions, stored>>

\* POST /verification/cases/:id/documents.
RequestDocumentUpload(p, u, k) ==
    /\ EditableBy(k, u)
    /\ Begin(p, "createDocument", u, k, "none", "none")
    /\ UNCHANGED <<companyVars, providerVars, verificationVars>>

CreateDocument(p) ==
    /\ At(p, "createDocument") /\ Len(documents) < MaxDocuments
    /\ InsertDocument(h[p].row)
    /\ Return(p)
    /\ UNCHANGED <<companyVars, providerVars, cases, decisions, stored>>

\* The owner's PUT reaches storage, through the presigned URL.
PutObject(d) ==
    /\ d \notin stored /\ stored' = stored \cup {d}
    /\ UNCHANGED <<companyVars, providerVars, cases, documents, decisions, h>>

\* POST /verification/documents/:documentId/confirm.
ConfirmDocumentUpload(p, u, d) ==
    /\ EditableBy(documents[d].case, u)
    /\ Begin(p, "askStorage", u, d, "none", "none")
    /\ UNCHANGED <<companyVars, providerVars, verificationVars>>

AskStorage(p) ==
    /\ At(p, "askStorage")
    /\ IF ObjectExists(h[p].row) THEN Go(p, "saveUploaded") ELSE Return(p)
    /\ UNCHANGED <<companyVars, providerVars, verificationVars>>

ConfirmSave(p) ==
    /\ At(p, "saveUploaded")
    /\ SaveUploaded(h[p].row)
    /\ Return(p)
    /\ UNCHANGED <<companyVars, providerVars, cases, decisions, stored>>

\* POST /verification/cases/:id/submit.
Submit(p, u, k) ==
    /\ EditableBy(k, u)
    /\ Begin(p, "countUploaded", u, k, cases[k].status, "none")
    /\ UNCHANGED <<companyVars, providerVars, verificationVars>>

CountUploaded(p) ==
    /\ At(p, "countUploaded")
    /\ IF SomeUploaded(h[p].row) THEN Go(p, "saveInReview") ELSE Return(p)
    /\ UNCHANGED <<companyVars, providerVars, verificationVars>>

SubmitSave(p) ==
    /\ At(p, "saveInReview")
    /\ SaveCase(h[p].row, h[p].seen, "IN_REVIEW")
    /\ Return(p)
    /\ UNCHANGED <<companyVars, providerVars, documents, decisions, stored>>

\* POST /verification/cases/:id/decisions, by an agent.
Decide(p, k, outcome) ==
    /\ ValidTransition(cases[k].status, outcome)
    /\ Begin(p, "createDecision", CHOOSE u \in Users : TRUE, k, cases[k].status, outcome)
    /\ UNCHANGED <<companyVars, providerVars, verificationVars>>

CreateDecision(p) ==
    /\ At(p, "createDecision") /\ Len(decisions) < MaxDecisions
    /\ InsertDecision(h[p].row, h[p].asked)
    /\ Go(p, "saveDecided")
    /\ UNCHANGED <<companyVars, providerVars, cases, documents, stored>>

DecideSave(p) ==
    /\ At(p, "saveDecided")
    /\ SaveCase(h[p].row, h[p].seen, OutcomeToStatus(h[p].asked))
    /\ Return(p)
    /\ UNCHANGED <<companyVars, providerVars, documents, decisions, stored>>

\* A replica dies between two calls of a handler.
Crash(p) ==
    /\ Crashes /\ h[p] # Idle
    /\ Return(p)
    /\ UNCHANGED <<companyVars, providerVars, verificationVars>>

-----------------------------------------------------------------------------
Init ==
    /\ companies = <<>> /\ members = <<>>
    /\ accounts = [u \in People |-> [age |-> "unset", provider |-> FALSE]] /\ profiles = <<>>
    /\ cases = <<>> /\ documents = <<>> /\ decisions = <<>> /\ stored = {}
    /\ h = [p \in Handlers |-> Idle]

CallProviders(p) == \E u \in People :
    BecomeProvider(p, u) \/ OpenProfile(p, u) \/ \E age \in Age \ {"unset"} : UpdateMe(p, u, age)

CallCompanies(p) == \E u \in Users :
    \/ CreateCompany(p, u)
    \/ \E c \in DOMAIN companies, v \in Users : Invite(p, u, c, v)
    \/ \E i \in DOMAIN members : AcceptInvite(p, u, i) \/ RemoveMember(p, u, i)

CallVerification(p) ==
    \/ \E u \in Users :
        \/ \E t \in Targets : OpenCase(p, u, t)
        \/ \E k \in DOMAIN cases : RequestDocumentUpload(p, u, k) \/ Submit(p, u, k)
        \/ \E d \in DOMAIN documents : ConfirmDocumentUpload(p, u, d)
    \/ \E k \in DOMAIN cases, outcome \in Outcome : Decide(p, k, outcome)

Continue(p) ==
    \/ SaveAge(p) \/ SaveRole(p) \/ CreateProfile(p)
    \/ CreateOwner(p) \/ FindMember(p) \/ CreateMember(p) \/ SaveActive(p)
    \/ LoadMember(p) \/ CountOwners(p) \/ SaveRemoved(p)
    \/ FindCase(p) \/ CreateCase(p) \/ CreateDocument(p) \/ AskStorage(p) \/ ConfirmSave(p)
    \/ CountUploaded(p) \/ SubmitSave(p) \/ CreateDecision(p) \/ DecideSave(p)

Next ==
    \/ \E p \in Handlers :
        CallProviders(p) \/ CallCompanies(p) \/ CallVerification(p) \/ Continue(p) \/ Crash(p)
    \/ \E d \in DOMAIN documents : PutObject(d)

Spec == Init /\ [][Next]_vars

-----------------------------------------------------------------------------
TypeOK == VerificationOK /\ h \in [Handlers -> Handler]

\* One profile per account, one membership per company and one case per
\* target: every creation looks first and inserts in a later call, so two
\* requests may both have seen nothing.
OneRowEach ==
    /\ \A u \in People : Cardinality(ProfilesOf(u)) <= 1
    /\ \A c \in DOMAIN companies, u \in Users : Cardinality(Membership(c, u)) <= 1
    /\ \A k, l \in DOMAIN cases : cases[k].target = cases[l].target => k = l

\* A company that has had an owner has an active one, whoever is removed and
\* whatever invitations are accepted meanwhile (company.service.ts:127).  One
\* whose creation died half way never gets one.
OwnerKept ==
    \A i \in DOMAIN members : members[i].role = "OWNER" => IsActiveOwner(members[i].company, members[i].user)

\* "chaque decision doit etre historisee" (verification-decision.schema.ts:6):
\* a status that only a decision gives is explained by a recorded one, also
\* when the request died after its first write; a suspension was preceded by
\* an approval.
DecisionsHistorised ==
    \A k \in DOMAIN cases :
        /\ \A outcome \in Outcome : cases[k].status = OutcomeToStatus(outcome) => Decided(k, outcome)
        /\ Decided(k, "SUSPENDED") => Decided(k, "APPROVED")

\* A target that ranking and its public profile call verified is owned by a
\* provider account or an active company owner, and its case was approved with
\* a document whose file really reached storage.
BadgeIsEarned ==
    \A t \in VerifiedTargets :
        /\ IF t.type = "PROVIDER" THEN HasProviderRole(profiles[t.id])
                                  ELSE IsActiveOwner(t.id, companies[t.id])
        /\ \E k \in CasesOf(t), d \in stored : documents[d] = [case |-> k, status |-> "UPLOADED"]
=============================================================================
