------------------------------- MODULE Reads --------------------------------
(***************************************************************************)
(* What the API answers to those who only read: the ownership rules, the   *)
(* lists, the reads of many documents at once that stand beside the read   *)
(* of one, and the views that are poorer than what is stored.              *)
(*                                                                         *)
(* A collection is the sequence of its documents in the order of the field *)
(* the query sorts on: ids and dates of creation grow together, and no two *)
(* are equal.                                                              *)
(***************************************************************************)
EXTENDS Transport, SequencesExt

NotFound  == "404"
Forbidden == "403"
Refused   == "400"
Served    == "200"
None      == [id |-> 0]

Ids(docs) == [n \in DOMAIN docs |-> docs[n].id]
IdsOf(docs) == ToSet(Ids(docs))

FindById(docs, id) ==
    LET n == SelectInSeq(docs, LAMBDA d : d.id = id) IN IF n = 0 THEN None ELSE docs[n]

\* findManyByIds, findSummaries, getDevicesByIds: unknown ids are absent.
FindMany(docs, ids) ==
    LET found == SelectSeq(docs, LAMBDA d : d.id \in ids) IN
    [id \in IdsOf(found) |-> FindById(found, id)]

\* The document must exist and be the caller's own.
RequireOwned(docs, id, user) ==
    LET doc == FindById(docs, id) IN
    CASE doc = None -> NotFound
      [] doc # None /\ doc.user # user -> Forbidden
      [] OTHER -> Served

-----------------------------------------------------------------------------
(***************************************************************************)
(* Requests: one bounded page, newest first, of what is older than the     *)
(* cursor; one document more than the page tells whether there are others. *)
(***************************************************************************)
RequestsPage(requests, client, before, limit) ==
    LET older == Reverse(SelectSeq(requests, LAMBDA r : r.user = client /\ (before = 0 \/ r.id < before)))
        docs == SubSeq(older, 1, IF Len(older) < limit + 1 THEN Len(older) ELSE limit + 1)
        page == SubSeq(docs, 1, IF Len(docs) < limit THEN Len(docs) ELSE limit) IN
    [requests |-> Ids(page), hasMore |-> Len(docs) > limit]

\* "Mes demandes" asks for one page more from the last id of the page before,
\* each time from the collection as it then is.
ReadPages(collections, client, limit) ==
    FoldLeft(LAMBDA read, requests :
                IF ~read.hasMore THEN read
                ELSE LET page == RequestsPage(requests, client, IF read.rows = <<>> THEN 0 ELSE Last(read.rows), limit) IN
                     [rows |-> read.rows \o page.requests, hasMore |-> page.hasMore],
             [rows |-> <<>>, hasMore |-> TRUE], collections)

\* Every status: the caller has checked the ownership of the target.
ListForTarget(files, target) == SelectSeq(files, LAMBDA f : f.target = target)

\* Nothing where the request is not the client's.
ListMedia(requests, files, id, client) ==
    IF RequireOwned(requests, id, client) = Served THEN ListForTarget(files, id) ELSE <<>>

-----------------------------------------------------------------------------
(***************************************************************************)
(* Media: a file is shown, and counted as attached, once its scan is done. *)
(***************************************************************************)
ReadMedia(files, id, user) == RequireOwned(files, id, user)

Attachable(files, ids, owner, target) ==
    Cardinality({id \in ids : LET f == FindById(files, id) IN
                    f # None /\ f.user = owner /\ f.target = target /\ f.status = "READY"}) = Cardinality(ids)

Displayed(files, ids) == ToSet(Ids(SelectSeq(files, LAMBDA f : f.id \in ids /\ f.status = "READY")))

ReadyIdsFor(files, target) == ToSet(Ids(SelectSeq(files, LAMBDA f : f.target = target /\ f.status = "READY")))

-----------------------------------------------------------------------------
(***************************************************************************)
(* Dispatches.                                                             *)
(***************************************************************************)
IsLive(c, time) == c.status = "VIEWED" \/ (c.status = "NOTIFIED" /\ c.expires > time)

CandidacyView(c, time) == [id |-> c.id, provider |-> c.provider, live |-> IsLive(c, time)]

\* The most recent candidacy of a provider on a request.
FindCandidacy(rows, request, user, time) ==
    LET n == SelectLastInSeq(rows, LAMBDA c : c.request = request /\ c.user = user) IN
    IF n = 0 THEN None ELSE CandidacyView(rows[n], time)

FindCandidacyById(rows, id, time) ==
    LET c == FindById(rows, id) IN
    IF c = None THEN None ELSE CandidacyView(c, time) @@ [request |-> c.request, user |-> c.user]

CandidacyKey(c) == <<c.request, c.user>>

\* Many pairs in one query, oldest first: a later row overwrites.
FindCandidacies(rows, pairs, time) ==
    FoldLeft(LAMBDA found, c : (CandidacyKey(c) :> CandidacyView(c, time)) @@ found, <<>>,
             SelectSeq(rows, LAMBDA c : CandidacyKey(c) \in pairs))

OwnCandidate(rows, id, user) == RequireOwned(rows, id, user)

\* What a provider may still answer: the place is blurred, and the trip is
\* quoted for the distance that was stored when the dispatch was sent.
ListForProvider(rows, requests, user, config) ==
    LET open == SelectSeq(rows, LAMBDA c : c.user = user /\ c.status \in {"NOTIFIED", "VIEWED"}
                                              /\ FindById(requests, c.request) # None
                                              /\ FindById(requests, c.request).complete) IN
    [n \in DOMAIN open |->
        LET c == Reverse(open)[n] IN
        [id |-> c.id, place |-> ApproximateCoordinates(FindById(requests, c.request).point),
         quote |-> QuoteForDistance(c.distance, config)]]

\* getByRequest and requireActiveMatch: the client's request, then its match.
ReadMatch(requests, matches, request, client) ==
    LET owned == RequireOwned(requests, request, client) IN
    IF owned # Served THEN owned
    ELSE IF \E m \in ToSet(matches) : m.request = request THEN Served ELSE NotFound

ActiveMatch(requests, matches, request, client) ==
    LET read == ReadMatch(requests, matches, request, client) IN
    IF read # Served THEN read
    ELSE IF \E m \in ToSet(matches) : m.request = request /\ m.status = "ACTIVE" THEN Served ELSE Refused

\* listCandidates: by batch, the best score first.
ListCandidates(rows, match) ==
    LET Before(c, d) == c.batch < d.batch \/ (c.batch = d.batch /\ c.score > d.score) IN
    SetToSortSeq({c \in ToSet(rows) : c.match = match}, Before)

-----------------------------------------------------------------------------
(***************************************************************************)
(* Sessions, companies, verification, providers.                           *)
(***************************************************************************)
ListSessions(sessions, user, current) ==
    LET active == SelectSeq(sessions, LAMBDA s : s.user = user /\ s.status = "ACTIVE") IN
    [n \in DOMAIN active |-> [id |-> active[n].id, current |-> active[n].id = current]]

RevokeSession(sessions, user, id) ==
    IF \E s \in ToSet(sessions) : s.id = id /\ s.status = "ACTIVE" /\ s.user = user THEN Served ELSE NotFound

MyCompanies(members, user) ==
    {m.company : m \in {x \in ToSet(members) : x.user = user /\ x.status \in {"ACTIVE", "INVITED"}}}

ListMembers(members, company, user) ==
    IF \E m \in ToSet(members) : m.company = company /\ m.user = user /\ m.status = "ACTIVE"
    THEN Served ELSE Forbidden

\* Documents and decisions of a case are shown to whom the case is shown.
Reviewers == {"VERIFICATION_AGENT", "ADMIN", "MODERATOR"}

MayRead(case, user, roles) == roles \cap Reviewers # {} \/ user \in case.owners

RequireCase(cases, id) == IF FindById(cases, id) = None THEN NotFound ELSE Served

ReadCase(cases, id, user, roles) ==
    IF RequireCase(cases, id) = Served /\ ~MayRead(FindById(cases, id), user, roles)
    THEN Forbidden ELSE RequireCase(cases, id)

\* update: an input is the set of its one value, or empty where it is absent.
\* References are checked before the profile is saved.
UpdatedProfile(profile, input, skills, services) ==
    IF (\E ids \in input.skills : ~(ids \subseteq skills)) \/ (\E ids \in input.services : ~(ids \subseteq services))
    THEN profile
    ELSE [profile EXCEPT !.skills = UNION (IF input.skills = {} THEN {@} ELSE input.skills),
                         !.services = UNION (IF input.services = {} THEN {@} ELSE input.services)]

ReadProfile(profiles, id) == IF FindById(profiles, id) = None THEN NotFound ELSE Served

\* The public view has no user and no exact centre.
PublicProfile(profile, cases) ==
    [id |-> profile.id, name |-> profile.name, skills |-> profile.skills, services |-> profile.services,
     zones |-> [n \in DOMAIN profile.areas |->
                  [centre |-> ApproximateCoordinates(profile.areas[n].centre), radius |-> profile.areas[n].radius]],
     verified |-> \E k \in ToSet(cases) : k.target = profile.id /\ k.status = "VERIFIED"]
=============================================================================
