-------------------------- MODULE Onboarding_proofs -------------------------
(***************************************************************************)
(* The onboarding for any number of users, requests, companies, documents  *)
(* and decisions, whatever dies half way.  What a request has seen in one  *)
(* call it uses in a later one: it stays true, because nothing that these  *)
(* services test is ever taken back (Grows), but for the status of a case  *)
(* and of a membership, of which the invariant keeps what matters.         *)
(***************************************************************************)
EXTENDS Onboarding, FiniteSetTheorems, SequenceTheorems, TLAPS

\* The only owner of a company is its representative, who is never removed.
MembersInv ==
    /\ \A i, j \in DOMAIN members :
        members[i].company = members[j].company /\ members[i].user = members[j].user => i = j
    /\ \A i \in DOMAIN members : members[i].role = "OWNER" =>
        /\ members[i].status = "ACTIVE" /\ members[i].company \in DOMAIN companies
        /\ members[i].user = companies[members[i].company]

ProfilesInv ==
    /\ \A i, j \in DOMAIN profiles : profiles[i] = profiles[j] => i = j
    /\ \A i \in DOMAIN profiles : accounts[profiles[i]].provider

\* Somebody may act for the target.
HasOwner(t) ==
    IF t.type = "PROVIDER" THEN t.id \in DOMAIN profiles
    ELSE t.id \in DOMAIN companies /\ \E i \in DOMAIN members :
            members[i].company = t.id /\ members[i].user = companies[t.id] /\ members[i].role = "OWNER"

HasUploaded(k) ==
    \E d \in DOMAIN documents : documents[d].case = k /\ documents[d].status = "UPLOADED"

CasesInv ==
    /\ \A k, l \in DOMAIN cases : cases[k].target = cases[l].target => k = l
    /\ \A k \in DOMAIN cases :
        /\ HasOwner(cases[k].target)
        /\ \A outcome \in Outcome : cases[k].status = OutcomeToStatus(outcome) => Decided(k, outcome)
        /\ cases[k].status \in {"IN_REVIEW", "VERIFIED"} => HasUploaded(k)
    /\ \A k \in Nat : Decided(k, "SUSPENDED") => Decided(k, "APPROVED")
    /\ \A d \in DOMAIN documents : documents[d].status = "UPLOADED" => d \in stored

\* What a request that is at step k.step has established.
Known(k) ==
    /\ k.step = "saveAge" => k.user \in People /\ k.asked \in Age
    /\ k.step = "saveRole" => k.user \in People
    /\ k.step = "createProfile" => k.user \in People /\ accounts[k.user].provider
    /\ k.step = "createOwner" => k.row \in DOMAIN companies /\ k.user = companies[k.row]
    /\ k.step \in {"findMember", "createMember"} => k.row \in DOMAIN companies
    /\ k.step \in {"loadMember", "countOwners", "saveActive", "saveRemoved"} => k.row \in DOMAIN members
    /\ k.step \in {"saveActive", "saveRemoved"} => members[k.row].role = "MEMBER"
    /\ k.step \in {"findCase", "createCase"} =>
        k.asked \in {"PROVIDER", "COMPANY"} /\ HasOwner([type |-> k.asked, id |-> k.row])
    /\ k.step \in {"createDocument", "countUploaded", "saveInReview", "createDecision", "saveDecided"} =>
        k.row \in DOMAIN cases
    /\ k.step \in {"askStorage", "saveUploaded"} => k.row \in DOMAIN documents
    /\ k.step = "saveUploaded" => k.row \in stored
    /\ k.step \in {"saveInReview", "createDecision", "saveDecided"} => HasUploaded(k.row)
    /\ k.step \in {"createDecision", "saveDecided"} => k.asked \in Outcome
    /\ k.step = "createDecision" /\ k.asked = "SUSPENDED" => Decided(k.row, "APPROVED")
    /\ k.step = "saveDecided" => Decided(k.row, k.asked)

CollectionsInv == VerificationOK /\ MembersInv /\ ProfilesInv /\ CasesInv

IInv ==
    /\ CollectionsInv
    /\ h \in [Handlers -> Handler]
    /\ \A p \in Handlers : Known(h[p])

-----------------------------------------------------------------------------
(***************************************************************************)
(* Nothing that is tested is taken back.                                   *)
(***************************************************************************)
Grows ==
    /\ \A c \in DOMAIN companies : c \in DOMAIN companies' /\ companies'[c] = companies[c]
    /\ \A i \in DOMAIN members :
        /\ i \in DOMAIN members' /\ members'[i].company = members[i].company
        /\ members'[i].user = members[i].user /\ members'[i].role = members[i].role
    /\ \A u \in People : accounts[u].provider => accounts'[u].provider
    /\ \A i \in DOMAIN profiles : i \in DOMAIN profiles' /\ profiles'[i] = profiles[i]
    /\ \A k \in DOMAIN cases : k \in DOMAIN cases' /\ cases'[k].target = cases[k].target
    /\ \A d \in DOMAIN documents :
        /\ d \in DOMAIN documents' /\ documents'[d].case = documents[d].case
        /\ documents[d].status = "UPLOADED" => documents'[d].status = "UPLOADED"
    /\ \A i \in DOMAIN decisions : i \in DOMAIN decisions' /\ decisions'[i] = decisions[i]
    /\ stored \subseteq stored'

LEMMA OwnerStays ==
    ASSUME Grows, NEW t, HasOwner(t)
    PROVE  HasOwner(t)'
<1>1. CASE t.type = "PROVIDER" BY <1>1 DEF HasOwner, Grows
<1>2. CASE t.type # "PROVIDER"
  <2>1. PICK i \in DOMAIN members :
          members[i].company = t.id /\ members[i].user = companies[t.id] /\ members[i].role = "OWNER"
    BY <1>2 DEF HasOwner
  <2>2. t.id \in DOMAIN companies' /\ companies'[t.id] = companies[t.id] BY <1>2 DEF HasOwner, Grows
  <2>3. /\ i \in DOMAIN members' /\ members'[i].company = t.id
        /\ members'[i].user = companies'[t.id] /\ members'[i].role = "OWNER"
    BY <2>1, <2>2 DEF Grows
  <2> QED BY <1>2, <2>2, <2>3 DEF HasOwner
<1> QED BY <1>1, <1>2

LEMMA UploadStays ==
    ASSUME Grows, NEW k, HasUploaded(k)
    PROVE  HasUploaded(k)'
BY DEF HasUploaded, Grows

LEMMA DecisionStays ==
    ASSUME Grows, NEW k, NEW outcome, Decided(k, outcome)
    PROVE  Decided(k, outcome)'
BY DEF Decided, Grows

LEMMA KnownStays ==
    ASSUME Grows, NEW k, Known(k)
    PROVE  Known(k)'
<1>1. /\ k.step = "createProfile" => k.user \in People /\ accounts'[k.user].provider
      /\ k.step = "createOwner" => k.row \in DOMAIN companies' /\ k.user = companies'[k.row]
      /\ k.step \in {"findMember", "createMember"} => k.row \in DOMAIN companies'
  BY DEF Known, Grows
<1>2. /\ k.step \in {"loadMember", "countOwners", "saveActive", "saveRemoved"} => k.row \in DOMAIN members'
      /\ k.step \in {"saveActive", "saveRemoved"} => members'[k.row].role = "MEMBER"
  BY DEF Known, Grows
<1>3. /\ k.step \in {"createDocument", "countUploaded", "saveInReview", "createDecision", "saveDecided"} =>
           k.row \in DOMAIN cases'
      /\ k.step \in {"askStorage", "saveUploaded"} => k.row \in DOMAIN documents'
      /\ k.step = "saveUploaded" => k.row \in stored'
  BY DEF Known, Grows
<1>4. k.step \in {"findCase", "createCase"} =>
        k.asked \in {"PROVIDER", "COMPANY"} /\ HasOwner([type |-> k.asked, id |-> k.row])'
  BY OwnerStays DEF Known
<1>5. k.step \in {"saveInReview", "createDecision", "saveDecided"} => HasUploaded(k.row)'
  BY UploadStays DEF Known
<1>6. /\ k.step = "createDecision" /\ k.asked = "SUSPENDED" => Decided(k.row, "APPROVED")'
      /\ k.step = "saveDecided" => Decided(k.row, k.asked)'
  BY DecisionStays DEF Known
<1> QED BY <1>1, <1>2, <1>3, <1>4, <1>5, <1>6 DEF Known

\* One request moves to k, with what it knows afterwards; the others stay.
LEMMA Moves ==
    ASSUME IInv, CollectionsInv', Grows, NEW p \in Handlers, NEW k \in Handler,
           h' = [h EXCEPT ![p] = k], Known(k)'
    PROVE  IInv'
<1>1. h' \in [Handlers -> Handler] /\ h'[p] = k /\ \A q \in Handlers : q # p => h'[q] = h[q]
  BY DEF IInv
<1>2. ASSUME NEW q \in Handlers PROVE Known(h[q])'
  <2>1. CASE q = p
    <3>1. h'[q] = k BY <1>1, <2>1
    <3> QED BY <3>1
  <2>2. CASE q # p
    <3>1. PICK j : j = h[q] OBVIOUS
    <3>2. Known(j) BY <3>1 DEF IInv
    <3>3. Known(j)' BY <3>2, KnownStays
    <3>4. h'[q] = j BY <1>1, <2>2, <3>1
    <3> QED BY <3>3, <3>4
  <2> QED BY <2>1, <2>2
<1> QED BY <1>1, <1>2 DEF IInv

allVars == <<companyVars, providerVars, verificationVars>>

LEMMA Unchanged ==
    ASSUME IInv, UNCHANGED allVars
    PROVE  CollectionsInv' /\ Grows
<1>1. /\ companies' = companies /\ members' = members /\ accounts' = accounts /\ profiles' = profiles
      /\ cases' = cases /\ documents' = documents /\ decisions' = decisions /\ stored' = stored
  BY DEF allVars, companyVars, providerVars, verificationVars
<1>2. Grows BY <1>1 DEF Grows
<1>3. VerificationOK' /\ MembersInv' /\ ProfilesInv'
  BY <1>1 DEF IInv, CollectionsInv, VerificationOK, CompaniesOK, ProvidersOK, MembersInv, ProfilesInv
<1>4. CasesInv' BY <1>1 DEF IInv, CollectionsInv, CasesInv, HasOwner, HasUploaded, Decided
<1> QED BY <1>2, <1>3, <1>4 DEF CollectionsInv

\* A request that has only read.
LEMMA Reads ==
    ASSUME IInv, UNCHANGED allVars, NEW p \in Handlers, NEW k \in Handler, h' = [h EXCEPT ![p] = k], Known(k)
    PROVE  IInv'
<1>1. PICK j \in Handler : j = k OBVIOUS
<1>2. CollectionsInv' /\ Grows BY Unchanged
<1>3. Known(j)' BY <1>1, <1>2, KnownStays
<1>4. h' = [h EXCEPT ![p] = j] BY <1>1
<1> QED BY <1>2, <1>3, <1>4, Moves

LEMMA Begins ==
    ASSUME IInv, UNCHANGED allVars, NEW p \in Handlers, NEW step \in Steps, NEW u \in Users, NEW row \in Nat,
           NEW seen \in {"none"} \cup Age \cup Standing \cup Status,
           NEW asked \in {"none", "PROVIDER", "COMPANY"} \cup Age \cup Outcome,
           Begin(p, step, u, row, seen, asked),
           Known([step |-> step, user |-> u, row |-> row, seen |-> seen, asked |-> asked])
    PROVE  IInv'
<1> DEFINE k == [step |-> step, user |-> u, row |-> row, seen |-> seen, asked |-> asked]
<1>1. k \in Handler BY DEF Handler
<1>2. h' = [h EXCEPT ![p] = k] BY DEF Begin
<1> HIDE DEF k
<1>3. Known(k) BY DEF k
<1> QED BY <1>1, <1>2, <1>3, Reads

LEMMA Advances ==
    ASSUME IInv, UNCHANGED allVars, NEW p \in Handlers, NEW step \in Steps, Go(p, step),
           Known([h[p] EXCEPT !.step = step])
    PROVE  IInv'
<1> DEFINE k == [h[p] EXCEPT !.step = step]
<1>1. h[p] \in Handler BY DEF IInv
<1>2. k \in Handler BY <1>1 DEF Handler
<1>3. h' = [h EXCEPT ![p] = k] BY DEF Go
<1> HIDE DEF k
<1>4. Known(k) BY DEF k
<1> QED BY <1>2, <1>3, <1>4, Reads

LEMMA IdleKnown == OnboardingAssumption => Idle \in Handler
BY DEF OnboardingAssumption, Idle, Handler, Steps

\* A request whose last call keeps the collections right.
LEMMA Writes ==
    ASSUME OnboardingAssumption, IInv, CollectionsInv', Grows, NEW p \in Handlers, Return(p)
    PROVE  IInv'
<1>1. PICK k \in Handler : k = Idle BY IdleKnown
<1>2. k.step = "idle" BY <1>1 DEF Idle
<1>3. Known(k)' BY <1>2 DEF Known
<1>4. h' = [h EXCEPT ![p] = k] BY <1>1 DEF Return
<1> QED BY <1>3, <1>4, Moves

LEMMA Returns ==
    ASSUME OnboardingAssumption, IInv, UNCHANGED allVars, NEW p \in Handlers, Return(p)
    PROVE  IInv'
BY Unchanged, Writes

-----------------------------------------------------------------------------
(***************************************************************************)
(* What one write leaves of the others' collections.                       *)
(***************************************************************************)
LEMMA MembersFrame ==
    ASSUME MembersInv, Grows, members' = members
    PROVE  MembersInv'
BY DEF MembersInv, Grows

LEMMA ProfilesFrame ==
    ASSUME ProfilesInv, ProvidersOK, Grows, profiles' = profiles
    PROVE  ProfilesInv'
<1>1. \A i \in DOMAIN profiles : profiles[i] \in People BY DEF ProvidersOK
<1> QED BY <1>1 DEF ProfilesInv, Grows

LEMMA CasesFrame ==
    ASSUME CasesInv, Grows, UNCHANGED <<cases, documents, decisions, stored>>
    PROVE  CasesInv'
<1>1. ASSUME NEW k \in DOMAIN cases'
      PROVE  /\ HasOwner(cases[k].target)'
             /\ \A outcome \in Outcome : cases'[k].status = OutcomeToStatus(outcome) => Decided(k, outcome)'
             /\ cases'[k].status \in {"IN_REVIEW", "VERIFIED"} => HasUploaded(k)'
  <2>1. cases'[k] = cases[k] /\ HasOwner(cases[k].target) BY DEF CasesInv
  <2>2. PICK t : t = cases[k].target OBVIOUS
  <2>3. HasOwner(t)' BY <2>1, <2>2, OwnerStays
  <2>4. cases'[k].target = t BY <2>1, <2>2
  <2>5. HasOwner(cases[k].target)' BY <2>3, <2>4
  <2>6. \A outcome \in Outcome : cases'[k].status = OutcomeToStatus(outcome) => Decided(k, outcome)'
    BY <2>1 DEF CasesInv, Decided
  <2>7. cases'[k].status \in {"IN_REVIEW", "VERIFIED"} => HasUploaded(k)' BY <2>1 DEF CasesInv, HasUploaded
  <2> QED BY <2>5, <2>6, <2>7
<1>2. \A k \in Nat : Decided(k, "SUSPENDED")' => Decided(k, "APPROVED")' BY DEF CasesInv, Decided
<1> QED BY <1>1, <1>2 DEF CasesInv

-----------------------------------------------------------------------------
(***************************************************************************)
(* Accounts and profiles.                                                  *)
(***************************************************************************)
LEMMA SaveAccountKeeps ==
    ASSUME IInv, NEW u \in People, NEW v \in Account, accounts[u].provider => v.provider,
           accounts' = [accounts EXCEPT ![u] = v], UNCHANGED <<companyVars, profiles, verificationVars>>
    PROVE  CollectionsInv' /\ Grows
<1>1. /\ companies' = companies /\ members' = members /\ profiles' = profiles /\ cases' = cases
      /\ documents' = documents /\ decisions' = decisions /\ stored' = stored
  BY DEF companyVars, verificationVars
<1>2. CompaniesOK /\ ProvidersOK /\ VerificationOK /\ MembersInv /\ ProfilesInv /\ CasesInv
  BY DEF IInv, CollectionsInv, VerificationOK
<1>3. /\ accounts' \in [People -> Account] /\ \A w \in People : accounts[w].provider => accounts'[w].provider
  BY <1>2 DEF ProvidersOK
<1>4. Grows BY <1>1, <1>3 DEF Grows
<1>5. VerificationOK' BY <1>1, <1>2, <1>3 DEF VerificationOK, CompaniesOK, ProvidersOK
<1> QED BY <1>1, <1>2, <1>4, <1>5, MembersFrame, ProfilesFrame, CasesFrame DEF CollectionsInv

LEMMA InsertProfileKeeps ==
    ASSUME IInv, NEW u \in People, accounts[u].provider, InsertProfile(u),
           UNCHANGED <<companyVars, accounts, verificationVars>>
    PROVE  CollectionsInv' /\ Grows
<1>1. /\ companies' = companies /\ members' = members /\ accounts' = accounts /\ cases' = cases
      /\ documents' = documents /\ decisions' = decisions /\ stored' = stored
  BY DEF companyVars, verificationVars
<1>2. CASE ~NoProfile(u)
  <2>1. UNCHANGED allVars
    BY <1>1, <1>2 DEF InsertProfile, allVars, companyVars, providerVars, verificationVars
  <2> QED BY <2>1, Unchanged
<1>3. CASE NoProfile(u)
  <2>1. CompaniesOK /\ ProvidersOK /\ VerificationOK /\ MembersInv /\ ProfilesInv /\ CasesInv
    BY DEF IInv, CollectionsInv, VerificationOK
  <2>2. profiles' = Append(profiles, u) /\ profiles \in Seq(People) BY <1>3, <2>1 DEF InsertProfile, ProvidersOK
  <2>3. /\ profiles' \in Seq(People) /\ Len(profiles) \in Nat /\ DOMAIN profiles = 1..Len(profiles)
        /\ DOMAIN profiles' = 1..(Len(profiles) + 1) /\ profiles'[Len(profiles) + 1] = u
        /\ \A i \in DOMAIN profiles : i \in DOMAIN profiles' /\ profiles'[i] = profiles[i]
    BY <2>2
  <2>4. \A i \in DOMAIN profiles : profiles[i] # u BY <1>3 DEF NoProfile, ProfilesOf
  <2>5. Grows BY <1>1, <2>3 DEF Grows
  <2>6. ASSUME NEW i \in DOMAIN profiles', NEW j \in DOMAIN profiles', profiles'[i] = profiles'[j] PROVE i = j
    BY <2>1, <2>3, <2>4, <2>6 DEF ProfilesInv
  <2>7. ASSUME NEW i \in DOMAIN profiles' PROVE accounts'[profiles'[i]].provider
    BY <1>1, <2>1, <2>3 DEF ProfilesInv
  <2>8. ProfilesInv' BY <2>6, <2>7 DEF ProfilesInv
  <2>9. VerificationOK' BY <1>1, <2>1, <2>3 DEF VerificationOK, CompaniesOK, ProvidersOK
  <2> QED BY <1>1, <2>1, <2>5, <2>8, <2>9, MembersFrame, CasesFrame DEF CollectionsInv
<1> QED BY <1>2, <1>3

-----------------------------------------------------------------------------
(***************************************************************************)
(* Companies and their members.                                            *)
(***************************************************************************)
LEMMA InsertCompanyKeeps ==
    ASSUME IInv, NEW u \in Users, Len(companies) < MaxCompanies, MaxCompanies \in Nat, InsertCompany(u),
           UNCHANGED <<members, providerVars, verificationVars>>
    PROVE  /\ CollectionsInv' /\ Grows
           /\ Len(companies) + 1 \in DOMAIN companies' /\ companies'[Len(companies) + 1] = u
           /\ Len(companies) + 1 \in Nat
<1>1. /\ members' = members /\ accounts' = accounts /\ profiles' = profiles /\ cases' = cases
      /\ documents' = documents /\ decisions' = decisions /\ stored' = stored
  BY DEF providerVars, verificationVars
<1>2. CompaniesOK /\ ProvidersOK /\ VerificationOK /\ MembersInv /\ ProfilesInv /\ CasesInv
  BY DEF IInv, CollectionsInv, VerificationOK
<1>3. companies \in Seq(Users) /\ companies' = Append(companies, u) BY <1>2 DEF CompaniesOK, InsertCompany
<1>4. /\ companies' \in Seq(Users) /\ Len(companies) \in Nat /\ Len(companies') = Len(companies) + 1
      /\ DOMAIN companies' = 1..(Len(companies) + 1) /\ companies'[Len(companies) + 1] = u
      /\ \A c \in DOMAIN companies : c \in DOMAIN companies' /\ companies'[c] = companies[c]
  BY <1>3
<1>5. Grows BY <1>1, <1>4 DEF Grows
<1>6. VerificationOK' BY <1>1, <1>2, <1>4 DEF VerificationOK, CompaniesOK, ProvidersOK
<1>7. CollectionsInv'
  BY <1>1, <1>2, <1>5, <1>6, MembersFrame, ProfilesFrame, CasesFrame DEF CollectionsInv
<1> QED BY <1>4, <1>5, <1>7

LEMMA InsertMemberKeeps ==
    ASSUME IInv, NEW c \in DOMAIN companies, NEW u \in Users, NEW role \in Role, NEW status \in Standing,
           role = "OWNER" => status = "ACTIVE" /\ u = companies[c], MaxCompanies \in Nat,
           InsertMember(c, u, role, status), UNCHANGED <<companies, providerVars, verificationVars>>
    PROVE  CollectionsInv' /\ Grows
<1> DEFINE new == [company |-> c, user |-> u, role |-> role, status |-> status]
           n   == Len(members) + 1
<1>1. /\ companies' = companies /\ accounts' = accounts /\ profiles' = profiles /\ cases' = cases
      /\ documents' = documents /\ decisions' = decisions /\ stored' = stored
  BY DEF providerVars, verificationVars
<1>2. CASE ~NoMembership(c, u)
  <2>1. UNCHANGED allVars
    BY <1>1, <1>2 DEF InsertMember, allVars, companyVars, providerVars, verificationVars
  <2> QED BY <2>1, Unchanged
<1>3. CASE NoMembership(c, u)
  <2>1. CompaniesOK /\ ProvidersOK /\ VerificationOK /\ MembersInv /\ ProfilesInv /\ CasesInv
    BY DEF IInv, CollectionsInv, VerificationOK
  <2>2. members' = Append(members, new) /\ members \in Seq(Member) /\ c \in 1..MaxCompanies
    BY <1>3, <2>1 DEF InsertMember, CompaniesOK
  <2>3. new \in Member BY <2>2 DEF Member
  <2>4. new.company = c /\ new.user = u /\ new.role = role /\ new.status = status OBVIOUS
  <2> HIDE DEF new
  <2>5. /\ members' \in Seq(Member) /\ n \in Nat /\ DOMAIN members = 1..Len(members)
        /\ DOMAIN members' = 1..n /\ members'[n] = new
        /\ \A i \in DOMAIN members : i \in DOMAIN members' /\ members'[i] = members[i]
        /\ \A i \in DOMAIN members' : i \in DOMAIN members \/ i = n
    BY <2>2, <2>3
  <2> HIDE DEF n
  <2>6. \A i \in DOMAIN members : ~(members[i].company = c /\ members[i].user = u)
    BY <1>3 DEF NoMembership, Membership
  <2>7. Grows BY <1>1, <2>5 DEF Grows
  <2>8. ASSUME NEW i \in DOMAIN members', NEW j \in DOMAIN members',
               members'[i].company = members'[j].company, members'[i].user = members'[j].user
        PROVE  i = j
    BY <2>1, <2>4, <2>5, <2>6, <2>8 DEF MembersInv
  <2>9. ASSUME NEW i \in DOMAIN members', members'[i].role = "OWNER"
        PROVE  /\ members'[i].status = "ACTIVE" /\ members'[i].company \in DOMAIN companies'
               /\ members'[i].user = companies'[members'[i].company]
    <3>1. CASE i = n BY <3>1, <2>4, <2>5, <2>9, <1>1
    <3>2. CASE i \in DOMAIN members BY <3>2, <2>1, <2>5, <2>9, <1>1 DEF MembersInv
    <3> QED BY <3>1, <3>2, <2>5
  <2>10. MembersInv' BY <2>8, <2>9 DEF MembersInv
  <2>11. VerificationOK' BY <1>1, <2>1, <2>5 DEF VerificationOK, CompaniesOK, ProvidersOK
  <2> QED BY <1>1, <2>1, <2>7, <2>10, <2>11, ProfilesFrame, CasesFrame DEF CollectionsInv
<1> QED BY <1>2, <1>3

LEMMA SaveMemberKeeps ==
    ASSUME IInv, NEW i \in DOMAIN members, NEW seen, NEW status \in Standing, members[i].role = "MEMBER",
           SaveMember(i, seen, status), UNCHANGED <<companies, providerVars, verificationVars>>
    PROVE  CollectionsInv' /\ Grows
<1> DEFINE s == SetIfModified(seen, status, members[i].status)
           v == [members[i] EXCEPT !.status = s]
<1>1. /\ companies' = companies /\ accounts' = accounts /\ profiles' = profiles /\ cases' = cases
      /\ documents' = documents /\ decisions' = decisions /\ stored' = stored
  BY DEF providerVars, verificationVars
<1>2. CompaniesOK /\ ProvidersOK /\ VerificationOK /\ MembersInv /\ ProfilesInv /\ CasesInv
  BY DEF IInv, CollectionsInv, VerificationOK
<1>3. members \in Seq(Member) /\ members[i] \in Member BY <1>2 DEF CompaniesOK
<1>4. s \in Standing BY <1>3 DEF SetIfModified, Member
<1>5. members' = [members EXCEPT ![i] = v] BY DEF SaveMember
<1> HIDE DEF s
<1>6. /\ v \in Member /\ v.company = members[i].company /\ v.user = members[i].user
      /\ v.role = members[i].role
  BY <1>3, <1>4 DEF Member
<1> HIDE DEF v
<1>7. /\ members' \in Seq(Member) /\ DOMAIN members' = DOMAIN members /\ members'[i] = v
      /\ \A j \in DOMAIN members : j # i => members'[j] = members[j]
  BY <1>3, <1>5, <1>6
<1>8. \A j \in DOMAIN members : /\ members'[j].company = members[j].company /\ members'[j].user = members[j].user
                                /\ members'[j].role = members[j].role
  BY <1>6, <1>7
<1>9. Grows BY <1>1, <1>7, <1>8 DEF Grows
<1>10. ASSUME NEW j \in DOMAIN members', members'[j].role = "OWNER" PROVE j # i /\ members'[j] = members[j]
  BY <1>7, <1>8, <1>10
<1>11. MembersInv'
  <2>1. \A j, k \in DOMAIN members' :
          members'[j].company = members'[k].company /\ members'[j].user = members'[k].user => j = k
    BY <1>2, <1>7, <1>8 DEF MembersInv
  <2>2. \A j \in DOMAIN members' : members'[j].role = "OWNER" =>
          /\ members'[j].status = "ACTIVE" /\ members'[j].company \in DOMAIN companies'
          /\ members'[j].user = companies'[members'[j].company]
    BY <1>1, <1>2, <1>7, <1>10 DEF MembersInv
  <2> QED BY <2>1, <2>2 DEF MembersInv
<1>12. VerificationOK' BY <1>1, <1>2, <1>7 DEF VerificationOK, CompaniesOK, ProvidersOK
<1> QED BY <1>1, <1>2, <1>9, <1>11, <1>12, ProfilesFrame, CasesFrame DEF CollectionsInv

-----------------------------------------------------------------------------
(***************************************************************************)
(* Cases, their documents and their decisions.                             *)
(***************************************************************************)
LEMMA InsertCaseKeeps ==
    ASSUME IInv, NEW t \in Target, HasOwner(t), InsertCase(t),
           UNCHANGED <<companyVars, providerVars, documents, decisions, stored>>
    PROVE  CollectionsInv' /\ Grows
<1> DEFINE new == [target |-> t, status |-> "DRAFT"]
           n   == Len(cases) + 1
<1>1. /\ companies' = companies /\ members' = members /\ accounts' = accounts /\ profiles' = profiles
      /\ documents' = documents /\ decisions' = decisions /\ stored' = stored
  BY DEF companyVars, providerVars
<1>2. CASE ~NoCase(t)
  <2>1. UNCHANGED allVars
    BY <1>1, <1>2 DEF InsertCase, allVars, companyVars, providerVars, verificationVars
  <2> QED BY <2>1, Unchanged
<1>3. CASE NoCase(t)
  <2>1. CompaniesOK /\ ProvidersOK /\ VerificationOK /\ MembersInv /\ ProfilesInv /\ CasesInv
    BY DEF IInv, CollectionsInv, VerificationOK
  <2>2. cases' = Append(cases, new) /\ cases \in Seq(Case) BY <1>3, <2>1 DEF InsertCase, VerificationOK
  <2>3. new \in Case BY DEF Case, Status
  <2>4. new.target = t /\ new.status = "DRAFT" OBVIOUS
  <2> HIDE DEF new
  <2>5. /\ cases' \in Seq(Case) /\ n \in Nat /\ DOMAIN cases = 1..Len(cases)
        /\ DOMAIN cases' = 1..n /\ cases'[n] = new
        /\ \A k \in DOMAIN cases : k \in DOMAIN cases' /\ cases'[k] = cases[k]
        /\ \A k \in DOMAIN cases' : k \in DOMAIN cases \/ k = n
    BY <2>2, <2>3
  <2> HIDE DEF n
  <2>6. \A k \in DOMAIN cases : cases[k].target # t BY <1>3 DEF NoCase, CasesOf
  <2>7. Grows BY <1>1, <2>5 DEF Grows
  <2>8. ASSUME NEW k \in DOMAIN cases', NEW l \in DOMAIN cases', cases'[k].target = cases'[l].target PROVE k = l
    BY <2>1, <2>4, <2>5, <2>6, <2>8 DEF CasesInv
  <2>9. ASSUME NEW k \in DOMAIN cases'
        PROVE  /\ HasOwner(cases[k].target)'
               /\ \A outcome \in Outcome : cases'[k].status = OutcomeToStatus(outcome) => Decided(k, outcome)'
               /\ cases'[k].status \in {"IN_REVIEW", "VERIFIED"} => HasUploaded(k)'
    <3>1. CASE k = n
      <4>1. cases'[k].target = t /\ cases'[k].status = "DRAFT" BY <2>4, <2>5, <3>1
      <4>2. HasOwner(t)' BY <2>7, OwnerStays
      <4>3. HasOwner(cases[k].target)' BY <4>1, <4>2
      <4>4. \A outcome \in Outcome : OutcomeToStatus(outcome) # "DRAFT" BY DEF Outcome, OutcomeToStatus
      <4> QED BY <4>1, <4>3, <4>4
    <3>2. CASE k \in DOMAIN cases
      <4>1. cases'[k] = cases[k] /\ HasOwner(cases[k].target) BY <2>1, <2>5, <3>2 DEF CasesInv
      <4>2. PICK s : s = cases[k].target OBVIOUS
      <4>3. HasOwner(s)' BY <2>7, <4>1, <4>2, OwnerStays
      <4>4. cases'[k].target = s BY <4>1, <4>2
      <4>5. HasOwner(cases[k].target)' BY <4>3, <4>4
      <4>6. \A outcome \in Outcome : cases'[k].status = OutcomeToStatus(outcome) => Decided(k, outcome)'
        BY <1>1, <2>1, <3>2, <4>1 DEF CasesInv, Decided
      <4>7. cases'[k].status \in {"IN_REVIEW", "VERIFIED"} => HasUploaded(k)'
        BY <1>1, <2>1, <3>2, <4>1 DEF CasesInv, HasUploaded
      <4> QED BY <4>5, <4>6, <4>7
    <3> QED BY <2>5, <3>1, <3>2
  <2>10. \A k \in Nat : Decided(k, "SUSPENDED")' => Decided(k, "APPROVED")' BY <1>1, <2>1 DEF CasesInv, Decided
  <2>11. CasesInv' BY <1>1, <2>1, <2>8, <2>9, <2>10 DEF CasesInv
  <2>12. VerificationOK' BY <1>1, <2>1, <2>5 DEF VerificationOK, CompaniesOK, ProvidersOK
  <2> QED BY <1>1, <2>1, <2>7, <2>11, <2>12, MembersFrame, ProfilesFrame DEF CollectionsInv
<1> QED BY <1>2, <1>3

LEMMA SaveCaseKeeps ==
    ASSUME IInv, NEW k \in DOMAIN cases, NEW seen, NEW status \in Status, SaveCase(k, seen, status),
           \A outcome \in Outcome : status = OutcomeToStatus(outcome) => Decided(k, outcome),
           HasUploaded(k), UNCHANGED <<companyVars, providerVars, documents, decisions, stored>>
    PROVE  CollectionsInv' /\ Grows
<1> DEFINE s == SetIfModified(seen, status, cases[k].status)
           v == [cases[k] EXCEPT !.status = s]
<1>1. /\ companies' = companies /\ members' = members /\ accounts' = accounts /\ profiles' = profiles
      /\ documents' = documents /\ decisions' = decisions /\ stored' = stored
  BY DEF companyVars, providerVars
<1>2. CompaniesOK /\ ProvidersOK /\ VerificationOK /\ MembersInv /\ ProfilesInv /\ CasesInv
  BY DEF IInv, CollectionsInv, VerificationOK
<1>3. cases \in Seq(Case) /\ cases[k] \in Case BY <1>2 DEF VerificationOK
<1>4. s \in Status /\ s \in {status, cases[k].status} BY <1>3 DEF SetIfModified, Case
<1>5. cases' = [cases EXCEPT ![k] = v] BY DEF SaveCase
<1> HIDE DEF s
<1>6. v \in Case /\ v.target = cases[k].target /\ v.status = s BY <1>3, <1>4 DEF Case
<1> HIDE DEF v
<1>7. /\ cases' \in Seq(Case) /\ DOMAIN cases' = DOMAIN cases /\ cases'[k] = v
      /\ \A j \in DOMAIN cases : j # k => cases'[j] = cases[j]
  BY <1>3, <1>5, <1>6
<1>8. \A j \in DOMAIN cases : cases'[j].target = cases[j].target BY <1>6, <1>7
<1>9. Grows BY <1>1, <1>7, <1>8 DEF Grows
<1>10. \A i, j \in DOMAIN cases' : cases'[i].target = cases'[j].target => i = j
  BY <1>2, <1>7, <1>8 DEF CasesInv
<1>11. ASSUME NEW j \in DOMAIN cases'
       PROVE  /\ HasOwner(cases[j].target)'
              /\ \A outcome \in Outcome : cases'[j].status = OutcomeToStatus(outcome) => Decided(j, outcome)'
              /\ cases'[j].status \in {"IN_REVIEW", "VERIFIED"} => HasUploaded(j)'
  <2>1. HasOwner(cases[j].target) /\ j \in DOMAIN cases BY <1>2, <1>7 DEF CasesInv
  <2>2. PICK t : t = cases[j].target OBVIOUS
  <2>3. HasOwner(t)' BY <1>9, <2>1, <2>2, OwnerStays
  <2>4. cases'[j].target = t BY <1>8, <2>1, <2>2
  <2>5. HasOwner(cases[j].target)' BY <2>3, <2>4
  <2>6. \A outcome \in Outcome : cases'[j].status = OutcomeToStatus(outcome) => Decided(j, outcome)
    <3>1. CASE j = k BY <1>2, <1>4, <1>6, <1>7, <3>1 DEF CasesInv
    <3>2. CASE j # k BY <1>2, <1>7, <2>1, <3>2 DEF CasesInv
    <3> QED BY <3>1, <3>2
  <2>7. cases'[j].status \in {"IN_REVIEW", "VERIFIED"} => HasUploaded(j)
    <3>1. CASE j = k BY <3>1
    <3>2. CASE j # k BY <1>2, <1>7, <2>1, <3>2 DEF CasesInv
    <3> QED BY <3>1, <3>2
  <2> QED BY <1>1, <2>5, <2>6, <2>7 DEF Decided, HasUploaded
<1>12. \A j \in Nat : Decided(j, "SUSPENDED")' => Decided(j, "APPROVED")' BY <1>1, <1>2 DEF CasesInv, Decided
<1>13. CasesInv' BY <1>1, <1>2, <1>10, <1>11, <1>12 DEF CasesInv
<1>14. VerificationOK' BY <1>1, <1>2, <1>7 DEF VerificationOK, CompaniesOK, ProvidersOK
<1> QED BY <1>1, <1>2, <1>9, <1>13, <1>14, MembersFrame, ProfilesFrame DEF CollectionsInv

\* The cases do not depend on how many documents, files and decisions are
\* added, as long as what is added is explained.
LEMMA CasesGrow ==
    ASSUME CasesInv, Grows, cases' = cases,
           \A d \in DOMAIN documents' : documents'[d].status = "UPLOADED" => d \in stored',
           \A k \in Nat : Decided(k, "SUSPENDED")' => Decided(k, "APPROVED")'
    PROVE  CasesInv'
<1>1. ASSUME NEW k \in DOMAIN cases'
      PROVE  /\ HasOwner(cases[k].target)'
             /\ \A outcome \in Outcome : cases'[k].status = OutcomeToStatus(outcome) => Decided(k, outcome)'
             /\ cases'[k].status \in {"IN_REVIEW", "VERIFIED"} => HasUploaded(k)'
  <2>1. /\ cases'[k] = cases[k] /\ HasOwner(cases[k].target)
        /\ \A outcome \in Outcome : cases[k].status = OutcomeToStatus(outcome) => Decided(k, outcome)
        /\ cases[k].status \in {"IN_REVIEW", "VERIFIED"} => HasUploaded(k)
    BY DEF CasesInv
  <2>2. PICK t : t = cases[k].target OBVIOUS
  <2>3. HasOwner(t)' BY <2>1, <2>2, OwnerStays
  <2>4. cases'[k].target = t BY <2>1, <2>2
  <2>5. HasOwner(cases[k].target)' BY <2>3, <2>4
  <2>6. \A outcome \in Outcome : Decided(k, outcome) => Decided(k, outcome)' BY DecisionStays
  <2>7. HasUploaded(k) => HasUploaded(k)' BY UploadStays
  <2> QED BY <2>1, <2>5, <2>6, <2>7
<1>2. \A k, l \in DOMAIN cases' : cases'[k].target = cases'[l].target => k = l BY DEF CasesInv
<1> QED BY <1>1, <1>2 DEF CasesInv

LEMMA InsertDocumentKeeps ==
    ASSUME IInv, NEW k \in DOMAIN cases, InsertDocument(k), Len(documents) < MaxDocuments, MaxDocuments \in Nat,
           UNCHANGED <<companyVars, providerVars, cases, decisions, stored>>
    PROVE  CollectionsInv' /\ Grows
<1> DEFINE new == [case |-> k, status |-> "PENDING_UPLOAD"]
           n   == Len(documents) + 1
<1>1. /\ companies' = companies /\ members' = members /\ accounts' = accounts /\ profiles' = profiles
      /\ cases' = cases /\ decisions' = decisions /\ stored' = stored
  BY DEF companyVars, providerVars
<1>2. CompaniesOK /\ ProvidersOK /\ VerificationOK /\ MembersInv /\ ProfilesInv /\ CasesInv
  BY DEF IInv, CollectionsInv, VerificationOK
<1>3. documents' = Append(documents, new) /\ documents \in Seq(Document) /\ k \in Nat
  BY <1>2 DEF InsertDocument, VerificationOK
<1>4. new \in Document /\ new.status = "PENDING_UPLOAD" BY <1>3 DEF Document
<1> HIDE DEF new
<1>5. /\ documents' \in Seq(Document) /\ n \in Nat /\ DOMAIN documents = 1..Len(documents)
      /\ Len(documents) \in Nat /\ Len(documents') = n
      /\ DOMAIN documents' = 1..n /\ documents'[n] = new
      /\ \A d \in DOMAIN documents : d \in DOMAIN documents' /\ documents'[d] = documents[d]
      /\ \A d \in DOMAIN documents' : d \in DOMAIN documents \/ d = n
  BY <1>3, <1>4
<1>6. Len(documents') <= MaxDocuments BY <1>5
<1> HIDE DEF n
<1>7. Grows BY <1>1, <1>5 DEF Grows
<1>8. \A d \in DOMAIN documents' : documents'[d].status = "UPLOADED" => d \in stored'
  BY <1>1, <1>2, <1>4, <1>5 DEF CasesInv
<1>9. \A j \in Nat : Decided(j, "SUSPENDED")' => Decided(j, "APPROVED")' BY <1>1, <1>2 DEF CasesInv, Decided
<1>10. VerificationOK' BY <1>1, <1>2, <1>5, <1>6 DEF VerificationOK, CompaniesOK, ProvidersOK
<1> QED BY <1>1, <1>2, <1>7, <1>8, <1>9, <1>10, MembersFrame, ProfilesFrame, CasesGrow DEF CollectionsInv

LEMMA SaveUploadedKeeps ==
    ASSUME IInv, NEW d \in DOMAIN documents, d \in stored, SaveUploaded(d),
           UNCHANGED <<companyVars, providerVars, cases, decisions, stored>>
    PROVE  CollectionsInv' /\ Grows
<1> DEFINE v == [documents[d] EXCEPT !.status = "UPLOADED"]
<1>1. /\ companies' = companies /\ members' = members /\ accounts' = accounts /\ profiles' = profiles
      /\ cases' = cases /\ decisions' = decisions /\ stored' = stored
  BY DEF companyVars, providerVars
<1>2. CompaniesOK /\ ProvidersOK /\ VerificationOK /\ MembersInv /\ ProfilesInv /\ CasesInv
  BY DEF IInv, CollectionsInv, VerificationOK
<1>3. documents \in Seq(Document) /\ documents[d] \in Document BY <1>2 DEF VerificationOK
<1>4. documents' = [documents EXCEPT ![d] = v] BY DEF SaveUploaded
<1>5. v \in Document /\ v.case = documents[d].case /\ v.status = "UPLOADED" BY <1>3 DEF Document
<1> HIDE DEF v
<1>6. /\ documents' \in Seq(Document) /\ DOMAIN documents' = DOMAIN documents /\ Len(documents') = Len(documents)
      /\ documents'[d] = v /\ \A e \in DOMAIN documents : e # d => documents'[e] = documents[e]
  BY <1>3, <1>4, <1>5
<1>7. Grows BY <1>1, <1>5, <1>6 DEF Grows
<1>8. \A e \in DOMAIN documents' : documents'[e].status = "UPLOADED" => e \in stored'
  BY <1>1, <1>2, <1>6 DEF CasesInv
<1>9. \A j \in Nat : Decided(j, "SUSPENDED")' => Decided(j, "APPROVED")' BY <1>1, <1>2 DEF CasesInv, Decided
<1>10. VerificationOK' BY <1>1, <1>2, <1>6 DEF VerificationOK, CompaniesOK, ProvidersOK
<1> QED BY <1>1, <1>2, <1>7, <1>8, <1>9, <1>10, MembersFrame, ProfilesFrame, CasesGrow DEF CollectionsInv

LEMMA PutObjectKeeps ==
    ASSUME IInv, NEW d \in DOMAIN documents, PutObject(d)
    PROVE  CollectionsInv' /\ Grows
<1>1. /\ companies' = companies /\ members' = members /\ accounts' = accounts /\ profiles' = profiles
      /\ cases' = cases /\ documents' = documents /\ decisions' = decisions /\ stored' = stored \cup {d}
  BY DEF PutObject, companyVars, providerVars
<1>2. CompaniesOK /\ ProvidersOK /\ VerificationOK /\ MembersInv /\ ProfilesInv /\ CasesInv
  BY DEF IInv, CollectionsInv, VerificationOK
<1>3. Grows BY <1>1 DEF Grows
<1>4. \A e \in DOMAIN documents' : documents'[e].status = "UPLOADED" => e \in stored' BY <1>1, <1>2 DEF CasesInv
<1>5. \A j \in Nat : Decided(j, "SUSPENDED")' => Decided(j, "APPROVED")' BY <1>1, <1>2 DEF CasesInv, Decided
<1>6. VerificationOK' BY <1>1, <1>2 DEF VerificationOK, CompaniesOK, ProvidersOK
<1> QED BY <1>1, <1>2, <1>3, <1>4, <1>5, <1>6, MembersFrame, ProfilesFrame, CasesGrow DEF CollectionsInv

LEMMA InsertDecisionKeeps ==
    ASSUME IInv, NEW k \in DOMAIN cases, NEW outcome \in Outcome, InsertDecision(k, outcome),
           Len(decisions) < MaxDecisions, MaxDecisions \in Nat,
           outcome = "SUSPENDED" => Decided(k, "APPROVED"),
           UNCHANGED <<companyVars, providerVars, cases, documents, stored>>
    PROVE  CollectionsInv' /\ Grows /\ Decided(k, outcome)'
<1> DEFINE new == [case |-> k, outcome |-> outcome]
           n   == Len(decisions) + 1
<1>1. /\ companies' = companies /\ members' = members /\ accounts' = accounts /\ profiles' = profiles
      /\ cases' = cases /\ documents' = documents /\ stored' = stored
  BY DEF companyVars, providerVars
<1>2. CompaniesOK /\ ProvidersOK /\ VerificationOK /\ MembersInv /\ ProfilesInv /\ CasesInv
  BY DEF IInv, CollectionsInv, VerificationOK
<1>3. decisions' = Append(decisions, new) /\ decisions \in Seq(Decision) /\ k \in Nat
  BY <1>2 DEF InsertDecision, VerificationOK
<1>4. new \in Decision /\ new.case = k /\ new.outcome = outcome BY <1>3 DEF Decision
<1> HIDE DEF new
<1>5. /\ decisions' \in Seq(Decision) /\ n \in Nat /\ DOMAIN decisions = 1..Len(decisions)
      /\ Len(decisions) \in Nat /\ Len(decisions') = n /\ n \in DOMAIN decisions'
      /\ DOMAIN decisions' = 1..n /\ decisions'[n] = new
      /\ \A i \in DOMAIN decisions : i \in DOMAIN decisions' /\ decisions'[i] = decisions[i]
      /\ \A i \in DOMAIN decisions' : i \in DOMAIN decisions \/ i = n
  BY <1>3, <1>4
<1>6. Len(decisions') <= MaxDecisions BY <1>5
<1> HIDE DEF n
<1>7. Grows BY <1>1, <1>5 DEF Grows
<1>8. Decided(k, outcome)' BY <1>5 DEF Decided, new
<1>9. ASSUME NEW j \in Nat, Decided(j, "SUSPENDED")' PROVE Decided(j, "APPROVED")'
  <2>1. PICK i \in DOMAIN decisions' : decisions'[i] = [case |-> j, outcome |-> "SUSPENDED"]
    BY <1>9 DEF Decided
  <2>2. CASE i = n
    <3>1. j = k /\ outcome = "SUSPENDED" BY <1>4, <1>5, <2>1, <2>2
    <3>2. Decided(j, "APPROVED") BY <3>1
    <3> QED BY <1>7, <3>2, DecisionStays
  <2>3. CASE i \in DOMAIN decisions
    <3>1. Decided(j, "SUSPENDED") BY <1>5, <2>1, <2>3 DEF Decided
    <3>2. Decided(j, "APPROVED") BY <1>2, <3>1 DEF CasesInv
    <3> QED BY <1>7, <3>2, DecisionStays
  <2> QED BY <1>5, <2>2, <2>3
<1>10. \A d \in DOMAIN documents' : documents'[d].status = "UPLOADED" => d \in stored'
  BY <1>1, <1>2 DEF CasesInv
<1>11. VerificationOK' BY <1>1, <1>2, <1>5, <1>6 DEF VerificationOK, CompaniesOK, ProvidersOK
<1> QED BY <1>1, <1>2, <1>7, <1>8, <1>9, <1>10, <1>11, MembersFrame, ProfilesFrame, CasesGrow DEF CollectionsInv

-----------------------------------------------------------------------------
(***************************************************************************)
(* The first call of each request.                                         *)
(***************************************************************************)
LEMMA CollectionsTyped ==
    ASSUME IInv
    PROVE  /\ companies \in Seq(Users) /\ members \in Seq(Member) /\ accounts \in [People -> Account]
           /\ profiles \in Seq(People) /\ cases \in Seq(Case) /\ documents \in Seq(Document)
           /\ DOMAIN companies \subseteq Nat /\ DOMAIN members \subseteq Nat /\ DOMAIN cases \subseteq Nat
           /\ DOMAIN documents \subseteq Nat /\ DOMAIN profiles \subseteq Nat
<1>1. /\ companies \in Seq(Users) /\ members \in Seq(Member) /\ accounts \in [People -> Account]
      /\ profiles \in Seq(People) /\ cases \in Seq(Case) /\ documents \in Seq(Document)
  BY DEF IInv, CollectionsInv, VerificationOK, CompaniesOK, ProvidersOK
<1> QED BY <1>1

LEMMA ProviderCalls ==
    ASSUME OnboardingAssumption, IInv, NEW p \in Handlers, CallProviders(p)
    PROVE  IInv'
<1>1. PICK u \in People :
        BecomeProvider(p, u) \/ OpenProfile(p, u) \/ \E age \in Age \ {"unset"} : UpdateMe(p, u, age)
  BY DEF CallProviders
<1>2. u \in Users /\ 0 \in Nat BY DEF OnboardingAssumption
<1>3. CASE BecomeProvider(p, u)
  <2>1. Begin(p, "saveRole", u, 0, "none", "none") /\ UNCHANGED allVars
    BY <1>3 DEF BecomeProvider, allVars
  <2>2. Known([step |-> "saveRole", user |-> u, row |-> 0, seen |-> "none", asked |-> "none"]) BY DEF Known
  <2>3. "saveRole" \in Steps BY DEF Steps
  <2> QED BY <1>2, <2>1, <2>2, <2>3, Begins
<1>4. CASE OpenProfile(p, u)
  <2>1. Begin(p, "createProfile", u, 0, "none", "none") /\ UNCHANGED allVars /\ accounts[u].provider
    BY <1>4 DEF OpenProfile, allVars, HasProviderRole
  <2>2. Known([step |-> "createProfile", user |-> u, row |-> 0, seen |-> "none", asked |-> "none"])
    BY <2>1 DEF Known
  <2>3. "createProfile" \in Steps BY DEF Steps
  <2> QED BY <1>2, <2>1, <2>2, <2>3, Begins
<1>5. ASSUME NEW age \in Age, UpdateMe(p, u, age) PROVE IInv'
  <2>1. Begin(p, "saveAge", u, 0, accounts[u].age, age) /\ UNCHANGED allVars BY <1>5 DEF UpdateMe, allVars
  <2>2. accounts[u].age \in Age BY CollectionsTyped DEF Account
  <2>3. Known([step |-> "saveAge", user |-> u, row |-> 0, seen |-> accounts[u].age, asked |-> age]) BY DEF Known
  <2>4. "saveAge" \in Steps BY DEF Steps
  <2> QED BY <1>2, <2>1, <2>2, <2>3, <2>4, Begins
<1> QED BY <1>1, <1>3, <1>4, <1>5

LEMMA CompanyCalls ==
    ASSUME OnboardingAssumption, IInv, NEW p \in Handlers, CallCompanies(p)
    PROVE  IInv'
<1>1. PICK u \in Users :
        \/ CreateCompany(p, u)
        \/ \E c \in DOMAIN companies, v \in Users : Invite(p, u, c, v)
        \/ \E i \in DOMAIN members : AcceptInvite(p, u, i) \/ RemoveMember(p, u, i)
  BY DEF CallCompanies
<1>2. CASE CreateCompany(p, u)
  <2> DEFINE n == Len(companies) + 1
             r == [step |-> "createOwner", user |-> u, row |-> n, seen |-> "none", asked |-> "none"]
  <2>1. /\ CollectionsInv' /\ Grows /\ n \in DOMAIN companies' /\ companies'[n] = u /\ n \in Nat
    BY <1>2, InsertCompanyKeeps DEF CreateCompany, OnboardingAssumption
  <2>2. h' = [h EXCEPT ![p] = r] BY <1>2 DEF CreateCompany, Begin
  <2>3. r \in Handler /\ r.step = "createOwner" /\ r.row = n /\ r.user = u BY <2>1 DEF Handler, Steps
  <2> HIDE DEF n, r
  <2>4. PICK k \in Handler : k = r BY <2>3
  <2>5. Known(k)' BY <2>1, <2>3, <2>4 DEF Known
  <2>6. h' = [h EXCEPT ![p] = k] BY <2>2, <2>4
  <2> QED BY <2>1, <2>5, <2>6, Moves
<1>3. ASSUME NEW c \in DOMAIN companies, NEW v \in Users, Invite(p, u, c, v) PROVE IInv'
  <2>1. Begin(p, "findMember", v, c, "none", "none") /\ UNCHANGED allVars BY <1>3 DEF Invite, allVars
  <2>2. Known([step |-> "findMember", user |-> v, row |-> c, seen |-> "none", asked |-> "none"]) BY DEF Known
  <2>3. "findMember" \in Steps /\ c \in Nat BY CollectionsTyped DEF Steps
  <2> QED BY <2>1, <2>2, <2>3, Begins
<1>4. ASSUME NEW i \in DOMAIN members, AcceptInvite(p, u, i) PROVE IInv'
  <2>1. /\ Begin(p, "saveActive", u, i, members[i].status, "none") /\ UNCHANGED allVars
        /\ members[i].status = "INVITED"
    BY <1>4 DEF AcceptInvite, allVars
  <2>2. members[i] \in Member BY CollectionsTyped
  <2>3. members[i].role = "MEMBER"
    BY <2>1, <2>2 DEF IInv, CollectionsInv, MembersInv, Member, Role
  <2>4. Known([step |-> "saveActive", user |-> u, row |-> i, seen |-> members[i].status, asked |-> "none"])
    BY <2>3 DEF Known
  <2>5. "saveActive" \in Steps /\ i \in Nat /\ members[i].status \in Standing
    BY <2>2, CollectionsTyped DEF Steps, Member
  <2> QED BY <2>1, <2>4, <2>5, Begins
<1>5. ASSUME NEW i \in DOMAIN members, RemoveMember(p, u, i) PROVE IInv'
  <2>1. Begin(p, "loadMember", u, i, "none", "none") /\ UNCHANGED allVars BY <1>5 DEF RemoveMember, allVars
  <2>2. Known([step |-> "loadMember", user |-> u, row |-> i, seen |-> "none", asked |-> "none"]) BY DEF Known
  <2>3. "loadMember" \in Steps /\ i \in Nat BY CollectionsTyped DEF Steps
  <2> QED BY <2>1, <2>2, <2>3, Begins
<1> QED BY <1>1, <1>2, <1>3, <1>4, <1>5

LEMMA VerificationCalls ==
    ASSUME OnboardingAssumption, IInv, NEW p \in Handlers, CallVerification(p)
    PROVE  IInv'
<1>1. ASSUME NEW u \in Users, NEW t \in Targets, OpenCase(p, u, t) PROVE IInv'
  <2>1. Begin(p, "findCase", u, t.id, "none", t.type) /\ UNCHANGED allVars /\ OwnsTarget(t, u)
    BY <1>1 DEF OpenCase, allVars
  <2>2. t \in Target /\ t.type \in {"PROVIDER", "COMPANY"} /\ t.id \in Nat
    BY CollectionsTyped DEF Targets, Target
  <2>3. HasOwner(t)
    <3>1. CASE t.type = "PROVIDER" BY <2>1, <3>1 DEF OwnsTarget, HasOwner
    <3>2. CASE t.type # "PROVIDER"
      <4>1. PICK i \in DOMAIN members : members[i].company = t.id /\ members[i].user = u /\ members[i].role = "OWNER"
        BY <2>1, <3>2 DEF OwnsTarget, IsActiveOwner, Membership
      <4>2. t.id \in DOMAIN companies /\ members[i].user = companies[t.id]
        BY <4>1 DEF IInv, CollectionsInv, MembersInv
      <4> QED BY <3>2, <4>1, <4>2 DEF HasOwner
    <3> QED BY <3>1, <3>2
  <2>4. t = [type |-> t.type, id |-> t.id] BY <2>2 DEF Target
  <2>5. HasOwner([type |-> t.type, id |-> t.id]) BY <2>3, <2>4
  <2> DEFINE r == [step |-> "findCase", user |-> u, row |-> t.id, seen |-> "none", asked |-> t.type]
  <2>6. r.step = "findCase" /\ r.row = t.id /\ r.asked = t.type OBVIOUS
  <2> HIDE DEF r
  <2>7. Known(r) BY <2>2, <2>5, <2>6 DEF Known
  <2>8. "findCase" \in Steps BY DEF Steps
  <2> QED BY <2>1, <2>2, <2>7, <2>8, Begins DEF r
<1>2. ASSUME NEW u \in Users, NEW k \in DOMAIN cases, RequestDocumentUpload(p, u, k) PROVE IInv'
  <2>1. Begin(p, "createDocument", u, k, "none", "none") /\ UNCHANGED allVars
    BY <1>2 DEF RequestDocumentUpload, allVars
  <2>2. Known([step |-> "createDocument", user |-> u, row |-> k, seen |-> "none", asked |-> "none"]) BY DEF Known
  <2>3. "createDocument" \in Steps /\ k \in Nat BY CollectionsTyped DEF Steps
  <2> QED BY <2>1, <2>2, <2>3, Begins
<1>3. ASSUME NEW u \in Users, NEW k \in DOMAIN cases, Submit(p, u, k) PROVE IInv'
  <2>1. Begin(p, "countUploaded", u, k, cases[k].status, "none") /\ UNCHANGED allVars BY <1>3 DEF Submit, allVars
  <2>2. Known([step |-> "countUploaded", user |-> u, row |-> k, seen |-> cases[k].status, asked |-> "none"])
    BY DEF Known
  <2>3. "countUploaded" \in Steps /\ k \in Nat BY CollectionsTyped DEF Steps
  <2>4. cases[k] \in Case BY CollectionsTyped
  <2>5. cases[k].status \in Status BY <2>4 DEF Case
  <2> QED BY <2>1, <2>2, <2>3, <2>5, Begins
<1>4. ASSUME NEW u \in Users, NEW d \in DOMAIN documents, ConfirmDocumentUpload(p, u, d) PROVE IInv'
  <2>1. Begin(p, "askStorage", u, d, "none", "none") /\ UNCHANGED allVars
    BY <1>4 DEF ConfirmDocumentUpload, allVars
  <2>2. Known([step |-> "askStorage", user |-> u, row |-> d, seen |-> "none", asked |-> "none"]) BY DEF Known
  <2>3. "askStorage" \in Steps /\ d \in Nat BY CollectionsTyped DEF Steps
  <2> QED BY <2>1, <2>2, <2>3, Begins
<1>5. ASSUME NEW k \in DOMAIN cases, NEW outcome \in Outcome, Decide(p, k, outcome) PROVE IInv'
  <2>1. PICK u \in Users : u = CHOOSE v \in Users : TRUE BY DEF OnboardingAssumption
  <2>2. /\ Begin(p, "createDecision", u, k, cases[k].status, outcome) /\ UNCHANGED allVars
        /\ ValidTransition(cases[k].status, outcome)
    BY <1>5, <2>1 DEF Decide, allVars
  <2>3. HasUploaded(k) BY <2>2 DEF ValidTransition, IInv, CollectionsInv, CasesInv
  <2>4. outcome = "SUSPENDED" => Decided(k, "APPROVED")
    <3>1. outcome = "SUSPENDED" => cases[k].status = "VERIFIED" BY <2>2 DEF ValidTransition
    <3>2. "APPROVED" \in Outcome /\ OutcomeToStatus("APPROVED") = "VERIFIED" BY DEF Outcome, OutcomeToStatus
    <3> QED BY <3>1, <3>2 DEF IInv, CollectionsInv, CasesInv
  <2>5. Known([step |-> "createDecision", user |-> u, row |-> k, seen |-> cases[k].status, asked |-> outcome])
    BY <2>3, <2>4 DEF Known
  <2>6. "createDecision" \in Steps /\ k \in Nat BY CollectionsTyped DEF Steps
  <2>7. cases[k] \in Case BY CollectionsTyped
  <2>8. cases[k].status \in Status BY <2>7 DEF Case
  <2> QED BY <2>2, <2>5, <2>6, <2>8, Begins
<1> QED BY <1>1, <1>2, <1>3, <1>4, <1>5 DEF CallVerification

-----------------------------------------------------------------------------
(***************************************************************************)
(* The later calls.                                                        *)
(***************************************************************************)
LEMMA RequestTyped ==
    ASSUME IInv, NEW p \in Handlers
    PROVE  /\ h[p] \in Handler /\ Known(h[p]) /\ h[p].user \in Users
           /\ h[p].asked \in {"none", "PROVIDER", "COMPANY"} \cup Age \cup Outcome
BY DEF IInv, Handler

LEMMA ProviderSteps ==
    ASSUME OnboardingAssumption, IInv, NEW p \in Handlers, SaveAge(p) \/ SaveRole(p) \/ CreateProfile(p)
    PROVE  IInv'
<1>1. h[p] \in Handler /\ Known(h[p]) BY RequestTyped
<1> DEFINE u == h[p].user
<1>2. CASE SaveAge(p)
  <2>1. u \in People /\ h[p].asked \in Age BY <1>1, <1>2 DEF SaveAge, At, Known
  <2> DEFINE age == SetIfModified(h[p].seen, h[p].asked, accounts[u].age)
             v == [accounts[u] EXCEPT !.age = age]
  <2>2. accounts[u] \in Account BY <2>1, CollectionsTyped
  <2>3. age \in Age BY <2>1, <2>2 DEF SetIfModified, Account
  <2>4. accounts' = [accounts EXCEPT ![u] = v] BY <1>2 DEF SaveAge
  <2> HIDE DEF age
  <2>5. v \in Account /\ v.provider = accounts[u].provider BY <2>2, <2>3 DEF Account
  <2> HIDE DEF v
  <2>6. UNCHANGED <<companyVars, profiles, verificationVars>> /\ Return(p) BY <1>2 DEF SaveAge
  <2>7. CollectionsInv' /\ Grows BY <2>1, <2>4, <2>5, <2>6, SaveAccountKeeps
  <2> QED BY <2>6, <2>7, Writes
<1>3. CASE SaveRole(p)
  <2>1. u \in People BY <1>1, <1>3 DEF SaveRole, At, Known
  <2> DEFINE v == [accounts[u] EXCEPT !.provider = TRUE]
  <2>2. accounts[u] \in Account BY <2>1, CollectionsTyped
  <2>3. accounts' = [accounts EXCEPT ![u] = v] BY <1>3 DEF SaveRole
  <2>4. v \in Account /\ v.provider BY <2>2 DEF Account
  <2> HIDE DEF v
  <2>5. UNCHANGED <<companyVars, profiles, verificationVars>> /\ Return(p) BY <1>3 DEF SaveRole
  <2>6. CollectionsInv' /\ Grows BY <2>1, <2>3, <2>4, <2>5, SaveAccountKeeps
  <2> QED BY <2>5, <2>6, Writes
<1>4. CASE CreateProfile(p)
  <2>1. u \in People /\ accounts[u].provider BY <1>1, <1>4 DEF CreateProfile, At, Known
  <2>2. /\ InsertProfile(u) /\ UNCHANGED <<companyVars, accounts, verificationVars>> /\ Return(p)
    BY <1>4 DEF CreateProfile
  <2>3. CollectionsInv' /\ Grows BY <2>1, <2>2, InsertProfileKeeps
  <2> QED BY <2>2, <2>3, Writes
<1> QED BY <1>2, <1>3, <1>4

\* The last owner is never removed: he is the only one.
LEMMA OwnerNotRemovable ==
    ASSUME IInv, NEW i \in DOMAIN members, members[i].role = "OWNER"
    PROVE  ~Removable(i)
<1> DEFINE S == {j \in DOMAIN members :
            /\ members[j].company = members[i].company
            /\ members[j].role = "OWNER" /\ members[j].status = "ACTIVE"}
<1>1. S \subseteq {i} BY DEF IInv, CollectionsInv, MembersInv
<1>2. IsFiniteSet({i}) /\ Cardinality({i}) = 1 BY FS_Singleton
<1>3. Cardinality(S) \in Nat /\ Cardinality(S) <= 1
  <2> HIDE DEF S
  <2>1. IsFiniteSet(S) /\ Cardinality(S) <= Cardinality({i}) BY <1>1, <1>2, FS_Subset
  <2> QED BY <1>2, <2>1, FS_CardinalityType
<1>4. ~(Cardinality(S) > 1) BY <1>3
<1> QED BY <1>4 DEF Removable

LEMMA CompanySteps ==
    ASSUME OnboardingAssumption, IInv, NEW p \in Handlers,
           \/ CreateOwner(p) \/ FindMember(p) \/ CreateMember(p) \/ SaveActive(p)
           \/ LoadMember(p) \/ CountOwners(p) \/ SaveRemoved(p)
    PROVE  IInv'
<1>1. h[p] \in Handler /\ Known(h[p]) /\ h[p].user \in Users BY RequestTyped
<1>2. MaxCompanies \in Nat BY DEF OnboardingAssumption
<1> DEFINE c == h[p].row
           u == h[p].user
<1>3. CASE CreateOwner(p)
  <2>1. c \in DOMAIN companies /\ u = companies[c] BY <1>1, <1>3 DEF CreateOwner, At, Known
  <2>2. InsertMember(c, u, "OWNER", "ACTIVE") /\ UNCHANGED <<companies, providerVars, verificationVars>> /\ Return(p)
    BY <1>3 DEF CreateOwner
  <2>3. "OWNER" \in Role /\ "ACTIVE" \in Standing BY DEF Role, Standing
  <2>4. CollectionsInv' /\ Grows BY <1>1, <1>2, <2>1, <2>2, <2>3, InsertMemberKeeps
  <2> QED BY <2>2, <2>4, Writes
<1>4. CASE FindMember(p)
  <2>1. UNCHANGED allVars BY <1>4 DEF FindMember, allVars
  <2>2. c \in DOMAIN companies BY <1>1, <1>4 DEF FindMember, At, Known
  <2>3. CASE Return(p) BY <2>1, <2>3, Returns
  <2>4. CASE Go(p, "createMember")
    <3> DEFINE r == [h[p] EXCEPT !.step = "createMember"]
    <3>1. r.step = "createMember" /\ r.row = c BY <1>1 DEF Handler
    <3> HIDE DEF r
    <3>2. Known(r) BY <2>2, <3>1 DEF Known
    <3>3. "createMember" \in Steps BY DEF Steps
    <3> QED BY <2>1, <2>4, <3>2, <3>3, Advances DEF r
  <2> QED BY <1>4, <2>3, <2>4 DEF FindMember
<1>5. CASE CreateMember(p)
  <2>1. c \in DOMAIN companies BY <1>1, <1>5 DEF CreateMember, At, Known
  <2>2. InsertMember(c, u, "MEMBER", "INVITED") /\ UNCHANGED <<companies, providerVars, verificationVars>> /\ Return(p)
    BY <1>5 DEF CreateMember
  <2>3. "MEMBER" \in Role /\ "INVITED" \in Standing BY DEF Role, Standing
  <2>4. CollectionsInv' /\ Grows BY <1>1, <1>2, <2>1, <2>2, <2>3, InsertMemberKeeps
  <2> QED BY <2>2, <2>4, Writes
<1>6. CASE SaveActive(p)
  <2>1. c \in DOMAIN members /\ members[c].role = "MEMBER" BY <1>1, <1>6 DEF SaveActive, At, Known
  <2>2. SaveMember(c, h[p].seen, "ACTIVE") /\ UNCHANGED <<companies, providerVars, verificationVars>> /\ Return(p)
    BY <1>6 DEF SaveActive
  <2>3. "ACTIVE" \in Standing BY DEF Standing
  <2>4. CollectionsInv' /\ Grows BY <2>1, <2>2, <2>3, SaveMemberKeeps
  <2> QED BY <2>2, <2>4, Writes
<1>7. CASE LoadMember(p)
  <2>1. UNCHANGED allVars BY <1>7 DEF LoadMember, allVars
  <2>2. c \in DOMAIN members BY <1>1, <1>7 DEF LoadMember, At, Known
  <2>3. members[c] \in Member BY <2>2, CollectionsTyped
  <2>4. members[c].status \in Standing /\ members[c].role \in {"OWNER", "MEMBER"} BY <2>3 DEF Member, Role
  <2> DEFINE next == IF members[c].role = "OWNER" THEN "countOwners" ELSE "saveRemoved"
             r == [h[p] EXCEPT !.seen = members[c].status, !.step = next]
  <2>5. h' = [h EXCEPT ![p] = r] BY <1>7 DEF LoadMember
  <2>6. next \in Steps BY DEF Steps
  <2>7. /\ next = "countOwners" \/ (next = "saveRemoved" /\ members[c].role = "MEMBER")
    BY <2>4
  <2> HIDE DEF next
  <2>8. r \in Handler /\ r.step = next /\ r.row = c BY <1>1, <2>4, <2>6 DEF Handler
  <2> HIDE DEF r
  <2>9. Known(r)
    <3>1. CASE next = "countOwners" BY <2>2, <2>8, <3>1 DEF Known
    <3>2. CASE next = "saveRemoved" /\ members[c].role = "MEMBER" BY <2>2, <2>8, <3>2 DEF Known
    <3> QED BY <2>7, <3>1, <3>2
  <2> QED BY <2>1, <2>5, <2>8, <2>9, Reads
<1>8. CASE CountOwners(p)
  <2>1. UNCHANGED allVars BY <1>8 DEF CountOwners, allVars
  <2>2. c \in DOMAIN members BY <1>1, <1>8 DEF CountOwners, At, Known
  <2>3. CASE Return(p) BY <2>1, <2>3, Returns
  <2>4. CASE Removable(c) /\ Go(p, "saveRemoved")
    <3>1. members[c] \in Member BY <2>2, CollectionsTyped
    <3>2. members[c].role = "MEMBER" BY <2>2, <2>4, <3>1, OwnerNotRemovable DEF Member, Role
    <3> DEFINE r == [h[p] EXCEPT !.step = "saveRemoved"]
    <3>3. r.step = "saveRemoved" /\ r.row = c BY <1>1 DEF Handler
    <3> HIDE DEF r
    <3>4. Known(r) BY <2>2, <3>2, <3>3 DEF Known
    <3>5. "saveRemoved" \in Steps BY DEF Steps
    <3> QED BY <2>1, <2>4, <3>4, <3>5, Advances DEF r
  <2> QED BY <1>8, <2>3, <2>4 DEF CountOwners
<1>9. CASE SaveRemoved(p)
  <2>1. c \in DOMAIN members /\ members[c].role = "MEMBER" BY <1>1, <1>9 DEF SaveRemoved, At, Known
  <2>2. SaveMember(c, h[p].seen, "REMOVED") /\ UNCHANGED <<companies, providerVars, verificationVars>> /\ Return(p)
    BY <1>9 DEF SaveRemoved
  <2>3. "REMOVED" \in Standing BY DEF Standing
  <2>4. CollectionsInv' /\ Grows BY <2>1, <2>2, <2>3, SaveMemberKeeps
  <2> QED BY <2>2, <2>4, Writes
<1> QED BY <1>3, <1>4, <1>5, <1>6, <1>7, <1>8, <1>9

LEMMA CaseSteps ==
    ASSUME OnboardingAssumption, IInv, NEW p \in Handlers,
           \/ FindCase(p) \/ CreateCase(p) \/ CountUploaded(p) \/ SubmitSave(p) \/ CreateDecision(p) \/ DecideSave(p)
    PROVE  IInv'
<1>1. h[p] \in Handler /\ Known(h[p]) BY RequestTyped
<1> DEFINE k == h[p].row
<1>2. k \in Nat BY <1>1 DEF Handler
<1>3. CASE FindCase(p)
  <2>1. UNCHANGED allVars BY <1>3 DEF FindCase, allVars
  <2>2. CASE Return(p) BY <2>1, <2>2, Returns
  <2>3. CASE Go(p, "createCase")
    <3>1. h[p].asked \in {"PROVIDER", "COMPANY"} /\ HasOwner([type |-> h[p].asked, id |-> k])
      BY <1>1, <1>3 DEF FindCase, At, Known
    <3> DEFINE r == [h[p] EXCEPT !.step = "createCase"]
    <3>2. r.step = "createCase" /\ r.row = k /\ r.asked = h[p].asked BY <1>1 DEF Handler
    <3> HIDE DEF r
    <3>3. Known(r) BY <3>1, <3>2 DEF Known
    <3>4. "createCase" \in Steps BY DEF Steps
    <3> QED BY <2>1, <2>3, <3>3, <3>4, Advances DEF r
  <2> QED BY <1>3, <2>2, <2>3 DEF FindCase
<1>4. CASE CreateCase(p)
  <2>1. h[p].asked \in {"PROVIDER", "COMPANY"} /\ HasOwner(Wanted(p))
    BY <1>1, <1>4 DEF CreateCase, At, Known, Wanted
  <2>2. InsertCase(Wanted(p)) /\ UNCHANGED <<companyVars, providerVars, documents, decisions, stored>> /\ Return(p)
    BY <1>4 DEF CreateCase
  <2>3. PICK t \in Target : t = Wanted(p) BY <1>2, <2>1 DEF Wanted, Target
  <2>4. HasOwner(t) /\ InsertCase(t) BY <2>1, <2>2, <2>3
  <2>5. CollectionsInv' /\ Grows BY <2>2, <2>4, InsertCaseKeeps
  <2> QED BY <2>2, <2>5, Writes
<1>5. CASE CountUploaded(p)
  <2>1. UNCHANGED allVars BY <1>5 DEF CountUploaded, allVars
  <2>2. CASE Return(p) BY <2>1, <2>2, Returns
  <2>3. CASE SomeUploaded(k) /\ Go(p, "saveInReview")
    <3>1. k \in DOMAIN cases BY <1>1, <1>5 DEF CountUploaded, At, Known
    <3>2. HasUploaded(k) BY <2>3 DEF SomeUploaded, HasUploaded
    <3> DEFINE r == [h[p] EXCEPT !.step = "saveInReview"]
    <3>3. r.step = "saveInReview" /\ r.row = k BY <1>1 DEF Handler
    <3> HIDE DEF r
    <3>4. Known(r) BY <3>1, <3>2, <3>3 DEF Known
    <3>5. "saveInReview" \in Steps BY DEF Steps
    <3> QED BY <2>1, <2>3, <3>4, <3>5, Advances DEF r
  <2> QED BY <1>5, <2>2, <2>3 DEF CountUploaded
<1>6. CASE SubmitSave(p)
  <2>1. k \in DOMAIN cases /\ HasUploaded(k) BY <1>1, <1>6 DEF SubmitSave, At, Known
  <2>2. /\ SaveCase(k, h[p].seen, "IN_REVIEW") /\ Return(p)
        /\ UNCHANGED <<companyVars, providerVars, documents, decisions, stored>>
    BY <1>6 DEF SubmitSave
  <2>3. "IN_REVIEW" \in Status /\ \A outcome \in Outcome : OutcomeToStatus(outcome) # "IN_REVIEW"
    BY DEF Status, Outcome, OutcomeToStatus
  <2>4. CollectionsInv' /\ Grows BY <2>1, <2>2, <2>3, SaveCaseKeeps
  <2> QED BY <2>2, <2>4, Writes
<1>7. CASE CreateDecision(p)
  <2>1. /\ k \in DOMAIN cases /\ HasUploaded(k) /\ h[p].asked \in Outcome
        /\ h[p].asked = "SUSPENDED" => Decided(k, "APPROVED")
    BY <1>1, <1>7 DEF CreateDecision, At, Known
  <2>2. /\ InsertDecision(k, h[p].asked) /\ Len(decisions) < MaxDecisions /\ MaxDecisions \in Nat
        /\ UNCHANGED <<companyVars, providerVars, cases, documents, stored>>
    BY <1>7 DEF CreateDecision, OnboardingAssumption
  <2>3. PICK j, outcome : j = k /\ outcome = h[p].asked OBVIOUS
  <2>4. CollectionsInv' /\ Grows /\ Decided(j, outcome)' BY <2>1, <2>2, <2>3, InsertDecisionKeeps
  <2> DEFINE v == [h[p] EXCEPT !.step = "saveDecided"]
  <2>5. v \in Handler /\ v.step = "saveDecided" /\ v.row = j /\ v.asked = outcome
    BY <1>1, <2>3 DEF Handler, Steps
  <2>6. h' = [h EXCEPT ![p] = v] BY <1>7 DEF CreateDecision, Go
  <2> HIDE DEF v
  <2>7. PICK r \in Handler : r = v BY <2>5
  <2>8. j \in DOMAIN cases' /\ HasUploaded(j)' BY <2>1, <2>3, <2>4, UploadStays DEF Grows
  <2>9. Known(r)' BY <2>1, <2>3, <2>4, <2>5, <2>7, <2>8 DEF Known
  <2>10. h' = [h EXCEPT ![p] = r] BY <2>6, <2>7
  <2> QED BY <2>4, <2>9, <2>10, Moves
<1>8. CASE DecideSave(p)
  <2>1. k \in DOMAIN cases /\ HasUploaded(k) /\ h[p].asked \in Outcome /\ Decided(k, h[p].asked)
    BY <1>1, <1>8 DEF DecideSave, At, Known
  <2>2. /\ SaveCase(k, h[p].seen, OutcomeToStatus(h[p].asked)) /\ Return(p)
        /\ UNCHANGED <<companyVars, providerVars, documents, decisions, stored>>
    BY <1>8 DEF DecideSave
  <2>3. /\ OutcomeToStatus(h[p].asked) \in Status
        /\ \A outcome \in Outcome : OutcomeToStatus(h[p].asked) = OutcomeToStatus(outcome) => outcome = h[p].asked
    BY <2>1 DEF Status, Outcome, OutcomeToStatus
  <2>4. CollectionsInv' /\ Grows BY <2>1, <2>2, <2>3, SaveCaseKeeps
  <2> QED BY <2>2, <2>4, Writes
<1> QED BY <1>3, <1>4, <1>5, <1>6, <1>7, <1>8

LEMMA DocumentSteps ==
    ASSUME OnboardingAssumption, IInv, NEW p \in Handlers, CreateDocument(p) \/ AskStorage(p) \/ ConfirmSave(p)
    PROVE  IInv'
<1>1. h[p] \in Handler /\ Known(h[p]) BY RequestTyped
<1> DEFINE d == h[p].row
<1>2. CASE CreateDocument(p)
  <2>1. d \in DOMAIN cases BY <1>1, <1>2 DEF CreateDocument, At, Known
  <2>2. /\ InsertDocument(d) /\ Len(documents) < MaxDocuments /\ MaxDocuments \in Nat /\ Return(p)
        /\ UNCHANGED <<companyVars, providerVars, cases, decisions, stored>>
    BY <1>2 DEF CreateDocument, OnboardingAssumption
  <2>3. CollectionsInv' /\ Grows BY <2>1, <2>2, InsertDocumentKeeps
  <2> QED BY <2>2, <2>3, Writes
<1>3. CASE AskStorage(p)
  <2>1. UNCHANGED allVars BY <1>3 DEF AskStorage, allVars
  <2>2. CASE Return(p) BY <2>1, <2>2, Returns
  <2>3. CASE ObjectExists(d) /\ Go(p, "saveUploaded")
    <3>1. d \in DOMAIN documents BY <1>1, <1>3 DEF AskStorage, At, Known
    <3>2. d \in stored BY <2>3 DEF ObjectExists
    <3> DEFINE r == [h[p] EXCEPT !.step = "saveUploaded"]
    <3>3. r.step = "saveUploaded" /\ r.row = d BY <1>1 DEF Handler
    <3> HIDE DEF r
    <3>4. Known(r) BY <3>1, <3>2, <3>3 DEF Known
    <3>5. "saveUploaded" \in Steps BY DEF Steps
    <3> QED BY <2>1, <2>3, <3>4, <3>5, Advances DEF r
  <2> QED BY <1>3, <2>2, <2>3 DEF AskStorage
<1>4. CASE ConfirmSave(p)
  <2>1. d \in DOMAIN documents /\ d \in stored BY <1>1, <1>4 DEF ConfirmSave, At, Known
  <2>2. SaveUploaded(d) /\ Return(p) /\ UNCHANGED <<companyVars, providerVars, cases, decisions, stored>>
    BY <1>4 DEF ConfirmSave
  <2>3. CollectionsInv' /\ Grows BY <2>1, <2>2, SaveUploadedKeeps
  <2> QED BY <2>2, <2>3, Writes
<1> QED BY <1>2, <1>3, <1>4

-----------------------------------------------------------------------------
LEMMA InitInv == OnboardingAssumption /\ Init => IInv
<1> SUFFICES ASSUME OnboardingAssumption, Init PROVE IInv OBVIOUS
<1>1. PICK k \in Handler : k = Idle BY IdleKnown
<1>2. \A p \in Handlers : h[p] = k BY <1>1 DEF Init
<1>3. h \in [Handlers -> Handler] BY <1>1 DEF Init
<1>4. k.step = "idle" BY <1>1 DEF Idle
<1>5. \A p \in Handlers : Known(h[p]) BY <1>2, <1>4 DEF Known
<1>6. /\ companies = <<>> /\ members = <<>> /\ profiles = <<>> /\ cases = <<>> /\ documents = <<>>
      /\ decisions = <<>> /\ stored = {}
  BY DEF Init
<1>7. accounts \in [People -> Account] BY DEF Init, Account, Age
<1>8. VerificationOK
  BY <1>6, <1>7 DEF VerificationOK, CompaniesOK, ProvidersOK, OnboardingAssumption
<1>9. MembersInv /\ ProfilesInv BY <1>6 DEF MembersInv, ProfilesInv
<1>10. CasesInv BY <1>6 DEF CasesInv, Decided
<1> QED BY <1>3, <1>5, <1>8, <1>9, <1>10 DEF IInv, CollectionsInv

LEMMA NextKeeps ==
    ASSUME OnboardingAssumption, IInv, [Next]_vars
    PROVE  IInv'
<1>1. CASE UNCHANGED vars
  <2>1. UNCHANGED allVars /\ h' = h BY <1>1 DEF vars, allVars
  <2>2. CollectionsInv' /\ Grows BY <2>1, Unchanged
  <2>3. ASSUME NEW p \in Handlers PROVE Known(h[p])'
    <3>1. PICK k : k = h[p] OBVIOUS
    <3>2. Known(k) BY <3>1 DEF IInv
    <3>3. Known(k)' BY <2>2, <3>2, KnownStays
    <3>4. h'[p] = k BY <2>1, <3>1
    <3> QED BY <3>3, <3>4
  <2> QED BY <2>1, <2>2, <2>3 DEF IInv
<1>2. ASSUME NEW d \in DOMAIN documents, PutObject(d) PROVE IInv'
  <2>1. CollectionsInv' /\ Grows BY <1>2, PutObjectKeeps
  <2>2. h' = h BY <1>2 DEF PutObject
  <2>3. ASSUME NEW p \in Handlers PROVE Known(h[p])'
    <3>1. PICK k : k = h[p] OBVIOUS
    <3>2. Known(k) BY <3>1 DEF IInv
    <3>3. Known(k)' BY <2>1, <3>2, KnownStays
    <3>4. h'[p] = k BY <2>2, <3>1
    <3> QED BY <3>3, <3>4
  <2> QED BY <2>1, <2>2, <2>3 DEF IInv
<1>3. ASSUME NEW p \in Handlers, Continue(p) PROVE IInv'
  BY <1>3, ProviderSteps, CompanySteps, CaseSteps, DocumentSteps DEF Continue
<1>4. ASSUME NEW p \in Handlers, Crash(p) PROVE IInv'
  <2>1. UNCHANGED allVars /\ Return(p) BY <1>4 DEF Crash, allVars
  <2> QED BY <2>1, Returns
<1> QED BY <1>1, <1>2, <1>3, <1>4, ProviderCalls, CompanyCalls, VerificationCalls DEF Next

\* The invariant holds in every reachable state.
THEOREM Invariance == Spec => []IInv
<1>1. Init => IInv BY InitInv, OnboardingAssumption
<1>2. IInv /\ [Next]_vars => IInv' BY NextKeeps, OnboardingAssumption
<1> QED BY <1>1, <1>2, PTL DEF Spec

\* Every variable keeps its type.
THEOREM Typed == Spec => []TypeOK
<1>1. IInv => TypeOK BY DEF IInv, CollectionsInv, TypeOK
<1> QED BY <1>1, Invariance, PTL

\* One profile per account, one membership per company and user and one case
\* per target, however many requests find none at the same time: the unique
\* indexes refuse the second insertion.
THEOREM NoTwin == Spec => []OneRowEach
<1>1. ASSUME IInv PROVE OneRowEach
  <2>1. ASSUME NEW S, \A i, j \in S : i = j PROVE Cardinality(S) <= 1
    <3>1. CASE S = {} BY <3>1, FS_EmptySet
    <3>2. CASE S # {}
      <4>1. PICK i \in S : TRUE BY <3>2
      <4>2. S = {i} BY <2>1, <4>1
      <4>3. Cardinality({i}) = 1 BY FS_Singleton
      <4> QED BY <4>2, <4>3
    <3> QED BY <3>1, <3>2
  <2>2. ASSUME NEW u \in People PROVE Cardinality(ProfilesOf(u)) <= 1
    <3>1. \A i, j \in ProfilesOf(u) : i = j BY <1>1 DEF ProfilesOf, IInv, CollectionsInv, ProfilesInv
    <3> QED BY <2>1, <3>1
  <2>3. ASSUME NEW c \in DOMAIN companies, NEW u \in Users PROVE Cardinality(Membership(c, u)) <= 1
    <3>1. \A i, j \in Membership(c, u) : i = j BY <1>1 DEF Membership, IInv, CollectionsInv, MembersInv
    <3> QED BY <2>1, <3>1
  <2>4. \A k, l \in DOMAIN cases : cases[k].target = cases[l].target => k = l
    BY <1>1 DEF IInv, CollectionsInv, CasesInv
  <2> QED BY <2>2, <2>3, <2>4 DEF OneRowEach
<1> QED BY <1>1, Invariance, PTL

\* A company that has had an owner keeps an active one: removals count the
\* active owners first, and the count of one company never exceeds one, so no
\* two removals can pass together.
THEOREM OwnerStands == Spec => []OwnerKept
<1>1. ASSUME IInv PROVE OwnerKept
  BY <1>1 DEF OwnerKept, IsActiveOwner, Membership, IInv, CollectionsInv, MembersInv
<1> QED BY <1>1, Invariance, PTL

\* Every status that only a decision gives has its decision on record, and
\* every suspension an approval, whatever requests overlap or die.
THEOREM NothingUnexplained == Spec => []DecisionsHistorised
<1>1. ASSUME IInv PROVE DecisionsHistorised
  <2>1. CasesInv /\ DOMAIN cases \subseteq Nat BY <1>1, CollectionsTyped DEF IInv, CollectionsInv
  <2> QED BY <2>1 DEF DecisionsHistorised, CasesInv
<1> QED BY <1>1, Invariance, PTL

\* What is shown as verified belongs to somebody who may offer services, and
\* a file of its case is in storage.
THEOREM BadgeStands == Spec => []BadgeIsEarned
<1>1. ASSUME IInv PROVE BadgeIsEarned
  <2>1. SUFFICES ASSUME NEW t \in VerifiedTargets
                 PROVE  /\ IF t.type = "PROVIDER" THEN HasProviderRole(profiles[t.id])
                                                  ELSE IsActiveOwner(t.id, companies[t.id])
                        /\ \E k \in CasesOf(t), d \in stored : documents[d] = [case |-> k, status |-> "UPLOADED"]
    BY DEF BadgeIsEarned
  <2>2. PICK k \in DOMAIN cases : cases[k].target = t /\ cases[k].status = "VERIFIED" BY DEF VerifiedTargets
  <2>3. HasOwner(t) /\ HasUploaded(k) BY <1>1, <2>2 DEF IInv, CollectionsInv, CasesInv
  <2>4. IF t.type = "PROVIDER" THEN HasProviderRole(profiles[t.id]) ELSE IsActiveOwner(t.id, companies[t.id])
    BY <1>1, <2>3 DEF HasOwner, HasProviderRole, IsActiveOwner, Membership, IInv, CollectionsInv,
       MembersInv, ProfilesInv
  <2>5. PICK d \in DOMAIN documents : documents[d].case = k /\ documents[d].status = "UPLOADED"
    BY <2>3 DEF HasUploaded
  <2>6. d \in stored BY <1>1, <2>5 DEF IInv, CollectionsInv, CasesInv
  <2>7. documents[d] \in Document BY <1>1, CollectionsTyped
  <2>8. documents[d] = [case |-> k, status |-> "UPLOADED"] BY <2>5, <2>7 DEF Document
  <2> QED BY <2>2, <2>4, <2>6, <2>8 DEF CasesOf
<1> QED BY <1>1, Invariance, PTL
=============================================================================
