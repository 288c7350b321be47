---------------------------- MODULE CatalogViews ----------------------------
(***************************************************************************)
(* What a visitor sees of the catalogue: the tree that GET /catalog/tree   *)
(* builds, the search over it (lib/catalog.ts, services/page.tsx), the way *)
(* from a result to the form of a request, and the navigation.             *)
(*                                                                         *)
(* A catalogue is a sequence of nodes in the order the query sorts them, a *)
(* node is its level, parent (0: none), name and whether it is active.     *)
(***************************************************************************)
EXTENDS Naturals, SequencesExt, FiniteSetsExt

\* getTree: the skills and the deactivated nodes are not fetched.
Fetched(nodes) == {i \in DOMAIN nodes : nodes[i].active /\ nodes[i].level # "SKILL"}

\* buildTree: a node whose parent was not fetched becomes a root.
Above(nodes, i) == IF nodes[i].parent \in Fetched(nodes) THEN nodes[i].parent ELSE 0
Children(nodes, i) ==
    SelectSeq([k \in DOMAIN nodes |-> k], LAMBDA k : k \in Fetched(nodes) /\ Above(nodes, k) = i)
Roots(nodes) == Children(nodes, 0)

CatalogNames(nodes) == [i \in Fetched(nodes) |-> nodes[i].name]

\* The ids from the root of node i down to it.
AncestryOf(nodes, i) ==
    LET trail[k \in Fetched(nodes)] ==
          IF Above(nodes, k) = 0 THEN <<k>> ELSE Append(trail[Above(nodes, k)], k)
    IN  IF i \in Fetched(nodes) THEN trail[i] ELSE <<>>

-----------------------------------------------------------------------------
(***************************************************************************)
(* searchCatalog.  A query is the set of names that contain it, none where *)
(* it is blank; domain 0 is "Tous les domaines".                           *)
(***************************************************************************)
SearchableLevels == <<"DOMAIN", "CATEGORY", "SERVICE", "INTERVENTION_TYPE", "COMPLEXITY">>

\* Every node of a subtree, parents first.
Walk(nodes, roots) ==
    LET under[k \in Fetched(nodes)] ==
          LET children == Children(nodes, k)
          IN  <<k>> \o FlattenSeq([n \in DOMAIN children |-> under[children[n]]])
    IN  FlattenSeq([n \in DOMAIN roots |-> under[roots[n]]])

\* The sort by level is stable.
SearchCatalog(nodes, query, domain) ==
    LET roots == SelectSeq(Roots(nodes), LAMBDA k : domain \in {0, k})
        found == SelectSeq(Walk(nodes, roots), LAMBDA k : nodes[k].name \in query)
    IN  FlattenSeq([n \in DOMAIN SearchableLevels |->
            SelectSeq(found, LAMBDA k : nodes[k].level = SearchableLevels[n])])

PathOf(nodes, i) == LET trail == AncestryOf(nodes, i) IN [n \in DOMAIN trail |-> nodes[trail[n]].name]

\* Only a service can start a request.
Linked(nodes, results) == {i \in ToSet(results) : nodes[i].level = "SERVICE"}

\* /requests/new?serviceId=: the cascade is filled once, while it is empty.
NoSelection == [domain |-> 0, category |-> 0, service |-> 0]
Preselect(selection, nodes, service) ==
    LET trail == AncestryOf(nodes, service) IN
    IF service = 0 \/ selection.domain # 0 \/ Len(trail) < 3 THEN selection
    ELSE [domain |-> trail[1], category |-> trail[2], service |-> trail[3]]

\* The options of the cascade, each list below the choice above it.
Options(nodes, above) == ToSet(Children(nodes, above))

\* "Mes demandes" names the service of a request, if the tree still has it.
ServiceNameOf(nodes, service) ==
    IF service \in Fetched(nodes) THEN CatalogNames(nodes)[service] ELSE "Service a preciser"

-----------------------------------------------------------------------------
(***************************************************************************)
(* Navigation.  A path is the sequence of its segments.                    *)
(***************************************************************************)
NavHrefs == [newRequest |-> <<"requests", "new">>, requests |-> <<"requests">>,
             providerRequests |-> <<"provider", "requests">>,
             conversations |-> <<"conversations">>, profile |-> <<"profile">>]

\* A user is the set of the account's roles, {} nobody.
NavigationFor(user) ==
    CASE user = {}           -> <<>>
      [] "PROVIDER" \in user -> <<"providerRequests", "conversations", "newRequest", "requests", "profile">>
      [] OTHER               -> <<"newRequest", "requests", "conversations", "profile">>

\* The entry whose href is the longest prefix of the path, "" for none.
ActiveNavHref(path, items) ==
    FoldLeft(LAMBDA best, item :
                 IF IsPrefix(NavHrefs[item], path) /\ (best = "" \/ Len(NavHrefs[item]) > Len(NavHrefs[best]))
                 THEN item ELSE best, "", items)

\* AppChrome: the navigation around a screen, none until the stored session is
\* read back.
Chrome(hydrated, user, path) ==
    LET items == IF hydrated THEN NavigationFor(user) ELSE <<>>
    IN  [items |-> items, active |-> ActiveNavHref(path, items)]

\* A screen for users: blank until the session is read, /login without one.
Screen(hydrated, user, path) ==
    IF ~hydrated THEN <<>> ELSE IF user = {} THEN <<"login">> ELSE path

\* Where a request of the list leads; <<>> is nowhere.
RequestHref(status) ==
    CASE status = "DRAFT"                     -> NavHrefs.newRequest
      [] status \in {"REQUESTED", "MATCHING"} -> <<"requests", "id", "match">>
      [] OTHER                                -> <<>>

\* Where a fresh login, and "Reprendre" of the home page, lead.
StartRouteFor(user) ==
    CASE user = {}            -> <<"login">>
      [] "PROVIDER" \in user  -> NavHrefs.providerRequests
      [] OTHER                -> NavHrefs.newRequest

\* The primary button of the home page, for a visitor or a user.
PrimaryAction(user) == IF user = {} THEN <<"login">> ELSE NavHrefs.newRequest

-----------------------------------------------------------------------------
(***************************************************************************)
(* What the pages promise of the search and of the navigation, over every  *)
(* catalogue of two domains, two categories and two services, any of which *)
(* is deactivated.  The statements are assumptions, so that TLC evaluates  *)
(* them.                                                                   *)
(***************************************************************************)
\* Siblings have different names: the unique index of the collection.
Catalogues ==
    {nodes \in
       {[i \in 1..6 |-> [level  |-> SearchableLevels[(i + 1) \div 2],
                         parent |-> CASE i \in 1..2 -> 0 [] i = 3 -> 1 [] i = 4 -> above[1] [] i = 5 -> 3 [] OTHER -> above[2],
                         name   |-> IF i <= 2 THEN <<"Electricite", "Plomberie">>[i] ELSE name[i],
                         active |-> i \in active]]
        : above \in (1..2) \X (3..4), name \in [3..6 -> {"Panne", "Fuite"}], active \in SUBSET (1..6)} :
     \A i, j \in 1..6 : i # j => <<nodes[i].level, nodes[i].parent, nodes[i].name>> #
                                 <<nodes[j].level, nodes[j].parent, nodes[j].name>>}

Rank(level) == CHOOSE n \in DOMAIN SearchableLevels : SearchableLevels[n] = level

\* Whether every node above i is active, and whether a root is above it.
Whole(nodes, i) == i \in Fetched(nodes) /\ Len(AncestryOf(nodes, i)) = Rank(nodes[i].level)

\* lib/catalog.ts:46: the search over the tree misses no active node whose name
\* matches, below the domain that is asked for, shows none twice, and the
\* broader levels come first (:28).
ASSUME SearchIsComplete ==
    \A nodes \in Catalogues, domain \in 0..2 :
        LET found == SearchCatalog(nodes, {"Panne"}, domain) IN
        /\ IsInjective(found)
        /\ ToSet(found) = {i \in Fetched(nodes) : nodes[i].name = "Panne" /\ domain \in {0, AncestryOf(nodes, i)[1]}}
        /\ \A m, n \in DOMAIN found : m < n => Rank(nodes[found[m]].level) <= Rank(nodes[found[n]].level)

\* services/page.tsx:99, "Two nodes can share a name; the ancestry is what
\* tells them apart": it does among the nodes below a domain, and fails only
\* for one that deactivating what is above it made a root of the tree.
ASSUME PathsTellApart ==
    \A nodes \in Catalogues :
        \A i, j \in Fetched(nodes) :
            i # j /\ PathOf(nodes, i) = PathOf(nodes, j) => ~Whole(nodes, i) \/ ~Whole(nodes, j)

\* A result that links to the form fills the cascade with a domain, a category
\* of it and this service, each an option below the one before, or leaves it
\* empty: exactly where the category or the domain is deactivated, although the
\* search still offers the service (services/page.tsx:134).  What was chosen
\* before stays.
ASSUME PreselectIsAChain ==
    \A nodes \in Catalogues :
        \A i \in Linked(nodes, SearchCatalog(nodes, {"Panne", "Fuite"}, 0)) :
            LET chosen == Preselect(NoSelection, nodes, i) IN
            /\ (chosen = NoSelection) <=> ~Whole(nodes, i)
            /\ chosen # NoSelection =>
                  /\ chosen.domain \in Options(nodes, 0) /\ nodes[chosen.domain].level = "DOMAIN"
                  /\ chosen.category \in Options(nodes, chosen.domain)
                  /\ i \in Options(nodes, chosen.category) /\ chosen.service = i
            /\ Preselect(chosen, nodes, i) = chosen

\* navigation.ts:45: a detail screen stays under its list, "/requests/new" does
\* not light up "Mes demandes", and every screen a user is sent to, or a row of
\* the list leads to, opens and is under an entry of the user's own navigation;
\* nobody is sent from one screen to the other and back.
ASSUME NavigationCovers ==
    /\ \A user \in {{"CLIENT"}, {"CLIENT", "PROVIDER"}} :
          LET active(path) == Chrome(TRUE, user, Screen(TRUE, user, path)).active IN
          /\ \A item \in ToSet(NavigationFor(user)) :
                active(NavHrefs[item]) = item /\ active(Append(NavHrefs[item], "id")) = item
          /\ active(RequestHref("MATCHING")) = "requests" /\ active(RequestHref("DRAFT")) = "newRequest"
          /\ active(StartRouteFor(user)) # "" /\ active(PrimaryAction(user)) = "newRequest"
    /\ \A user \in SUBSET {"CLIENT", "PROVIDER"} :
          /\ Screen(TRUE, user, StartRouteFor(user)) = StartRouteFor(user)
          /\ Chrome(FALSE, user, StartRouteFor(user)) = [items |-> <<>>, active |-> ""]
=============================================================================
