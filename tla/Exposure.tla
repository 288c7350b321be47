------------------------------ MODULE Exposure ------------------------------
(***************************************************************************)
(* Who is contacted, over many matches of one service at one place:        *)
(* EligibilityService, the ranking, the configuration that an              *)
(* administrator changes meanwhile and the availability that providers     *)
(* set.  A search reads each of these in a call of its own, and several    *)
(* run at the same time.  Module Dispatch models one match in depth.       *)
(***************************************************************************)
EXTENDS Ranking

CONSTANTS
    Providers,    \* their numbers, in the order of their ids
    Profile,      \* Profile[p]: the rest of the profile of provider p
    Weights,      \* the stored weights, in tenths
    BatchSizes, Slots, Radii, \* the values administrators choose from
    RadiusStep,
    Searches,     \* searches that run at the same time
    MaxSearches,  \* bound on the searches begun
    MaxChanges    \* bound on the changes of availability and configuration

\* A batch of one has no seat to reserve: NewcomersEnter needs two.
ASSUME ExposureAssumption ==
    /\ Providers \subseteq Nat /\ IsFiniteSet(Providers) /\ Cardinality(Providers) >= 2
    /\ BatchSizes \subseteq Nat \ {0, 1} /\ Slots \subseteq Nat \ {0} /\ Radii \subseteq Nat \ {0}
    /\ RadiusStep \in Nat \ {0} /\ MaxSearches \in Nat /\ MaxChanges \in Nat /\ IsFiniteSet(Searches)
    /\ \A p \in Providers : {Profile[p].distance, Profile[p].travels, Profile[p].years} \subseteq Nat
    /\ Weights \in [distance: Nat, availability: Nat, verification: Nat, experience: Nat, exploration: Nat]

VARIABLES
    config,     \* the stored configuration
    patch,      \* the update of it in progress: what it read and its patch
    available,  \* providers whose availabilityStatus is AVAILABLE
    past,       \* past[p]: rows of match_candidates that name provider p
    search,     \* search[s]: how far search s is
    waited,     \* waited[p]: batches since p was last chosen that p was eligible for
    begun, changes

vars == <<config, patch, available, past, search, waited, begun, changes>>

Config == [batchSize: BatchSizes, slots: Slots, radius: Radii, maxRadius: Radii]
NoPatch == [field |-> "none", value |-> 0, read |-> CHOOSE c \in Config : TRUE]

Idle == [step |-> "idle", config |-> CHOOSE c \in Config : TRUE, radius |-> 0, found |-> {}, pool |-> {}]

Now == [day |-> 1, minute |-> 600]

\* advance reads the configuration; the search starts at the default radius.
BeginSearch(s) ==
    /\ search[s].step = "idle" /\ begun < MaxSearches
    /\ search' = [search EXCEPT ![s] = [Idle EXCEPT !.step = "find", !.config = config, !.radius = config.radius]]
    /\ begun' = begun + 1
    /\ UNCHANGED <<config, patch, available, past, waited, changes>>

\* searchForDispatch: available, within the client's radius, and willing to
\* travel that far.
Found(radius) == {p \in available : Profile[p].distance <= radius /\ Profile[p].distance <= Profile[p].travels}

\* selectNextBatch widens the radius until somebody is found or it is maximal.
FindEligible(s) ==
    LET found == Found(search[s].radius)
        r == search[s].radius
        most == search[s].config.maxRadius IN
    /\ search[s].step = "find"
    /\ search' = CASE found # {}  -> [search EXCEPT ![s].step = "count", ![s].found = found]
                   [] found = {} /\ r >= most -> [search EXCEPT ![s] = Idle]
                   [] found = {} /\ r < most  -> [search EXCEPT ![s].radius = AtMost(most, r + RadiusStep)]
    /\ UNCHANGED <<config, patch, available, past, waited, begun, changes>>

Candidate(p, times) == [id |-> p, distance |-> Profile[p].distance, years |-> Profile[p].years,
                        slots |-> Profile[p].slots, verified |-> Profile[p].verified, past |-> times]

\* countPastDispatches.
CountPast(s) ==
    /\ search[s].step = "count"
    /\ search' = [search EXCEPT ![s].step = "insert", ![s].pool = {Candidate(p, past[p]) : p \in search[s].found}]
    /\ UNCHANGED <<config, patch, available, past, waited, begun, changes>>

\* rankEligible: the ids of the batch.
Selected(s) ==
    LET ranked == Ranked(search[s].pool, search[s].radius, Now, Weights) IN
    {c.id : c \in SelectBatch(ranked, search[s].config.batchSize, search[s].config.slots)}

\* persistBatch: one candidate per chosen provider.
InsertBatch(s) ==
    LET chosen == Selected(s) IN
    /\ search[s].step = "insert"
    /\ past' = [p \in Providers |-> IF p \in chosen THEN past[p] + 1 ELSE past[p]]
    /\ waited' = [p \in Providers |-> IF p \in chosen THEN 0
                                      ELSE IF p \in search[s].found THEN waited[p] + 1 ELSE waited[p]]
    /\ search' = [search EXCEPT ![s] = Idle]
    /\ UNCHANGED <<config, patch, available, begun, changes>>

\* PATCH /providers/me/availability.
UpdateAvailability(p) ==
    /\ changes < MaxChanges /\ changes' = changes + 1
    /\ available' = IF p \in available THEN available \ {p} ELSE available \cup {p}
    /\ UNCHANGED <<config, patch, past, search, waited, begun>>

\* PATCH /configuration reads the document ...
BeginUpdate(field, value) ==
    /\ patch = NoPatch /\ changes < MaxChanges /\ changes' = changes + 1
    /\ patch' = [field |-> field, value |-> value, read |-> config]
    /\ UNCHANGED <<config, available, past, search, waited, begun>>

\* ... and writes all of it, if the whole is valid.
WriteConfiguration ==
    /\ patch # NoPatch
    /\ config' = [patch.read EXCEPT ![patch.field] = patch.value]
    /\ patch' = NoPatch
    /\ UNCHANGED <<available, past, search, waited, begun, changes>>

Init ==
    /\ config \in Config /\ patch = NoPatch
    /\ available = Providers
    /\ past = [p \in Providers |-> 0] /\ waited = [p \in Providers |-> 0]
    /\ search = [s \in Searches |-> Idle] /\ begun = 0 /\ changes = 0

Next ==
    \/ \E s \in Searches : BeginSearch(s) \/ FindEligible(s) \/ CountPast(s) \/ InsertBatch(s)
    \/ \E p \in Providers : UpdateAvailability(p)
    \/ \E size \in BatchSizes : BeginUpdate("batchSize", size)
    \/ \E slots \in Slots : BeginUpdate("slots", slots)
    \/ \E radius \in Radii : BeginUpdate("radius", radius) \/ BeginUpdate("maxRadius", radius)
    \/ WriteConfiguration

Spec == Init /\ [][Next]_vars

-----------------------------------------------------------------------------
TypeOK ==
    /\ config \in Config /\ available \subseteq Providers
    /\ past \in [Providers -> Nat] /\ waited \in [Providers -> Nat]
    /\ \A s \in Searches : search[s].found \subseteq Providers /\ search[s].config \in Config

\* "so ranking cannot permanently lock them out" (configuration.ts:57): a
\* provider nobody has contacted yet is passed over at most once per search at
\* a time and provider other than the best and itself, however it is ranked.
NewcomersEnter ==
    \A p \in Providers : past[p] = 0 => waited[p] <= Cardinality(Searches) * (Cardinality(Providers) - 2)

\* "the provider matched automatically must deserve it" and the reserved seats
\* (ranking.ts, selectBatch).  Whoever of the pool is left out ranks below the
\* batch but for the reserved seats, and that many seats went to providers
\* contacted no more often.  Nobody takes a seat from a provider who ranks
\* higher and was contacted no more often; and the batch is full.
BatchIsDeserved ==
    \A s \in Searches : search[s].step = "insert" =>
        LET ranked   == Ranked(search[s].pool, search[s].radius, Now, Weights)
            chosen   == {c \in ranked : c.id \in Selected(s)}
            size     == search[s].config.batchSize
            reserved == AtMost(search[s].config.slots, size - 1)
        IN /\ Cardinality(Selected(s)) = AtMost(size, Cardinality(ranked))
           /\ \A c \in ranked \ chosen :
                /\ Cardinality({q \in chosen : Above(q, c)}) >= size - reserved
                /\ Cardinality({q \in chosen : q.past <= c.past}) >= reserved
                /\ \A q \in chosen : Above(q, c) \/ q.past < c.past
=============================================================================
