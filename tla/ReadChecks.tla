----------------------------- MODULE ReadChecks -----------------------------
(***************************************************************************)
(* The reads against each other, over every small collection: a list and   *)
(* what opening its rows answers, the read of many and the read of one,    *)
(* what is accepted and what is then shown.  The statements are            *)
(* assumptions, so that TLC evaluates them.                                *)
(***************************************************************************)
EXTENDS Reads, TLC

Users == 1..2
Collections(n, Doc) == UNION {{[i \in 1..k |-> [id |-> i] @@ docs[i]] : docs \in [1..k -> Doc]} : k \in 0..n}

\* request.service.ts:52, "One bounded page": reading on from the last id
\* until hasMore is false shows each request of the client that was there at
\* the start once, newest first, and nobody else's, although requests are
\* created between the pages; a draft begun meanwhile is not shown twice.
ASSUME PagesMissNothing ==
    \A requests \in Collections(4, [user: Users]), start \in 0..4, limit \in 1..2 :
        \A before \in start .. Len(requests) :
            LET mine == SelectSeq(SubSeq(requests, 1, start), LAMBDA r : r.user = 1)
                seen == [n \in 1..5 |-> SubSeq(requests, 1, CASE n = 1 -> start [] n = 2 -> before [] OTHER -> Len(requests))]
                read == ReadPages(seen, 1, limit) IN
            start <= Len(requests) => ~read.hasMore /\ read.rows = Reverse(Ids(mine))

\* A row of a list opens for the user the list was made for, and what opens is
\* in the list: the requests, the sessions one may revoke (one of them being
\* the current one), the companies (auth.service.ts:148, request.service.ts:58,
\* company.service.ts:53).  An invitation is listed, its roster does not open.
ASSUME ListsOpen ==
    /\ \A requests \in Collections(3, [user: Users]) :
          {id \in 0..4 : ReadProfile(requests, id) = Served /\ RequireOwned(requests, id, 1) = Served} =
              ToSet(ReadPages([n \in 1..4 |-> requests], 1, 2).rows)
    /\ \A sessions \in Collections(3, [user: Users, status: {"ACTIVE", "REVOKED"}]), current \in 1..3 :
          LET listed == ListSessions(sessions, 1, current) IN
          /\ {id \in 0..4 : RevokeSession(sessions, 1, id) = Served} = IdsOf(listed)
          /\ Cardinality({s \in ToSet(listed) : s.current}) =
                IF RevokeSession(sessions, 1, current) = Served THEN 1 ELSE 0
    /\ \A members \in Collections(3, [user: Users, company: 1..2, status: {"ACTIVE", "INVITED", "REMOVED"}]) :
          {c \in 1..2 : ListMembers(members, c, 1) = Served} =
              MyCompanies(SelectSeq(members, LAMBDA m : m.status # "INVITED"), 1)

Files == Collections(3, [user: Users, target: 1..2, status: {"PENDING_UPLOAD", "READY", "REJECTED"}])

\* media.service.ts:140: a set of attachments that is accepted is shown whole,
\* belongs to the conversation's files that count as attached, and opens for
\* its sender; one id that does not pass makes the whole set fail.
ASSUME AttachedIsShown ==
    \A files \in Files, ids \in SUBSET (1..3) :
        Attachable(files, ids, 1, 2) =>
            /\ Displayed(files, ids) = ids /\ ids \subseteq ReadyIdsFor(files, 2)
            /\ \A id \in ids : ReadMedia(files, id, 1) = Served /\ Attachable(files, {id}, 1, 2)
            /\ \A requests \in Collections(2, [user: Users]) :
                  RequireOwned(requests, 2, 1) = Served => ids \subseteq IdsOf(ListMedia(requests, files, 2, 1))

Dispatches ==
    Collections(3, [request: 1..2, user: Users, provider: {1}, status: {"NOTIFIED", "VIEWED", "DECLINED"}, expires: {0, 2}])

\* matching.service.ts:287, "the most recent wins — same rule as
\* findCandidacy": the list of conversations and a conversation that is opened
\* see the same candidacy, and the candidate the client designates reads the
\* same by its own id.
ASSUME CandidacyReadsAgree ==
    \A rows \in Dispatches :
        LET pairs == (1..2) \X Users
            many == FindCandidacies(rows, pairs, 1) IN
        /\ \A pair \in pairs :
              LET one == FindCandidacy(rows, pair[1], pair[2], 1) IN
              IF one = None THEN pair \notin DOMAIN many ELSE many[pair] = one
        /\ \A pair \in DOMAIN many :
              LET byId == FindCandidacyById(rows, many[pair].id, 1) IN
              CandidacyKey(byId) = pair /\ byId.live = many[pair].live
        /\ \A pair \in pairs : FindCandidacies(rows, {pair}, 1) = Restrict(many, {pair} \cap DOMAIN many)

Tariff == [freeRadius |-> 50, perKm |-> 3, maxFee |-> 20, speed |-> 40]
Asked == Collections(2, [user: {1}, complete: BOOLEAN, point: {[lat |-> 335731, lng |-> -75898]}])

\* A dispatch that a provider finds in the list is the provider's own and can
\* be answered; marking one of a submitted request viewed finds it there
\* (matching.service.ts:171); the newest comes first, and a row quotes the stored
\* distance.
ASSUME InboxIsAnswerable ==
    \A rows \in {[n \in DOMAIN d |-> [distance |-> 60 * n] @@ d[n]] : d \in Dispatches}, requests \in Asked :
        LET list == ListForProvider(rows, requests, 1, Tariff) IN
        /\ \A id \in IdsOf(list) : OwnCandidate(rows, id, 1) = Served
        /\ \A c \in ToSet(rows) :
              c.user = 1 /\ c.status \in {"NOTIFIED", "VIEWED"} /\ FindById(requests, c.request) # None =>
                  (c.id \in IdsOf(list)) = FindById(requests, c.request).complete
        /\ \A n \in DOMAIN list : list[n].quote = Quote(60 * list[n].id, Tariff)
        /\ \A m, n \in DOMAIN list : m < n => list[m].id > list[n].id

\* The match page: widening is refused to whom the match does not open, and
\* the candidates come in batches, best first (matching.service.ts:96).
ASSUME CandidatesInOrder ==
    /\ \A requests \in Collections(2, [user: Users]), matches \in Collections(2, [request: 1..2, status: {"ACTIVE", "EXHAUSTED"}]) :
          \A q \in 1..2 :
              ActiveMatch(requests, matches, q, 1) \in {Served, Refused} <=> ReadMatch(requests, matches, q, 1) = Served
    /\ \A rows \in Collections(3, [match: 1..2, batch: 0..1, score: 1..3]) :
          LET list == ListCandidates(rows, 1) IN
          \A m, n \in DOMAIN list : m < n => /\ list[m].batch <= list[n].batch
                                             /\ list[m].batch = list[n].batch => list[m].score >= list[n].score

Profiles ==
    [id: {1}, user: Users, name: {"n"}, skills: SUBSET {1, 2}, services: SUBSET {3},
     areas: {<<[centre |-> [lat |-> lat, lng |-> lng], radius |-> r]>>
               : lat \in {335651, 335749, 335751}, lng \in {-75850, -75751}, r \in {5}}]

\* public-provider.service.ts:28: two providers who differ in their user and in
\* where in a cell they live have the same public view, cells apart differ;
\* the badge is that of a verified case, which whoever decided it may read.
ASSUME PublicIsPoorer ==
    /\ \A p, q \in Profiles :
          PublicProfile(p, <<>>) = PublicProfile(q, <<>>) <=>
              /\ p.skills = q.skills /\ p.services = q.services
              /\ \A axis \in {"lat", "lng"} :
                    Round(p.areas[1].centre[axis], Cell) = Round(q.areas[1].centre[axis], Cell)
    /\ \A cases \in Collections(2, [target: 1..2, status: {"IN_REVIEW", "VERIFIED", "SUSPENDED"}, owners: {{1}, {2}}]) :
          LET p == CHOOSE x \in Profiles : TRUE IN
          PublicProfile(p, cases).verified =>
              \E id \in IdsOf(cases) : FindById(cases, id).status = "VERIFIED" /\ ReadCase(cases, id, 3, {"MODERATOR"}) = Served

\* provider.service.ts:94: whatever the inputs, the references a profile keeps
\* are nodes of their level, and a refused update changes neither list.
ASSUME ReferencesExist ==
    \A p \in Profiles, skills, services \in UNION {{{}}, {{ids} : ids \in SUBSET (1..3)}} :
        LET updated == UpdatedProfile(p, [skills |-> skills, services |-> services], {1, 2}, {3}) IN
        /\ updated.skills \subseteq {1, 2} /\ updated.services \subseteq {3}
        /\ updated.services # p.services => \A ids \in skills : updated.skills = ids

\* The time of a trip grows with the distance and falls with the speed.
ASSUME TravelTimeGrows ==
    \A near, far \in 0..60, speed \in {1, 7, 40, 200} :
        near <= far => /\ EstimateTravelMinutes(near, speed) <= EstimateTravelMinutes(far, speed)
                       /\ EstimateTravelMinutes(near, speed + 1) <= EstimateTravelMinutes(near, speed)
=============================================================================
