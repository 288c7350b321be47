------------------------------ MODULE Requests ------------------------------
(***************************************************************************)
(* The draft of a service request: RequestService, the media attached to   *)
(* it, and the form of apps/web that drives both, in the tabs of one       *)
(* client.  A tab awaits one call at a time, so what the server does for   *)
(* it is part of the tab's own steps, one database or store call each; the *)
(* answer of a call, or the call itself, may be lost.                      *)
(***************************************************************************)
EXTENDS Documents, Media, Integers

CONSTANTS
    Tabs,
    Files,         \* the files a tab may attach
    Services, Types, Complexities, NoNode,
    Parent,        \* Parent[n]: the catalog node above a type or a complexity
    MaxRequests,   \* bound on the requests created
    MaxSubmits,    \* MaxSubmits[t]: bound on the presses of the button in tab t
    PageSize,      \* LIST_PAGE_DEFAULT_LIMIT
    MaxFaults      \* bound on lost calls and lost answers

ASSUME RequestsAssumption ==
    /\ Parent \in [Types \cup Complexities -> Services \cup Types]
    /\ NoNode \notin Services \cup Types \cup Complexities
    /\ IsFiniteSet(Tabs) /\ MaxSubmits \in [Tabs -> Nat]
    /\ Uploads = UNION {{t} \X Files \X (1..MaxSubmits[t]) : t \in Tabs}
    /\ Targets = 1..MaxRequests /\ NoTarget = 0
    /\ {MaxRequests, PageSize} \subseteq Nat \ {0} /\ MaxFaults \in Nat

VARIABLES
    request,   \* the requests of the client, in the order of their ids
    tab,       \* tab[t]: the form in tab t and the call it awaits
    cancel,    \* a cancellation in progress: the request it loaded, or 0
    writers,   \* writers[r]: the tabs that saved the details of request r
    faults

vars == <<store, request, tab, cancel, writers, faults>>

Requests == 1..MaxRequests
Chain    == [service: Services \cup {NoNode}, type: Types \cup {NoNode},
             complexity: Complexities \cup {NoNode}]
NoChain  == [service |-> NoNode, type |-> NoNode, complexity |-> NoNode]

\* assertValidCatalogChain.
ValidChain(c) ==
    /\ c.type # NoNode => c.service # NoNode /\ Parent[c.type] = c.service
    /\ c.complexity # NoNode => c.type # NoNode /\ Parent[c.complexity] = c.type

FullChain(c) == ValidChain(c) /\ c.complexity # NoNode

Request    == [status: {"NONE", "DRAFT", "REQUESTED", "CANCELLED"}, chain: Chain, filled: BOOLEAN]
NewRequest == [status |-> "DRAFT", chain |-> NoChain, filled |-> FALSE]

Item == {"none", "pending", "uploading", "ready", "rejected", "error"}
Step == {"closed", "lookup", "create", "initError", "form", "patchLoad", "patchSave",
         "mediaCheck", "mediaCreate", "put", "finalizeLoad", "scan", "settle", "reject", "delete",
         "submitLoad", "submitSave", "submitted"}
Tab  == [step: Step, request: 0..MaxRequests, chain: Chain, loaded: Chain,
         item: [Files -> Item], todo: SUBSET Files, submits: Nat]
Closed == [step |-> "closed", request |-> 0, chain |-> NoChain, loaded |-> NoChain,
           item |-> [f \in Files |-> "none"], todo |-> {}, submits |-> 0]

Drafts   == {r \in Requests : request[r].status = "DRAFT"}
Go(t, s) == tab' = [tab EXCEPT ![t].step = s]

\* Mutant: any owned request can be edited.
AnyOwned(r) == request[r].status # "NONE"

\* requireEditable: EDITABLE_STATUSES.
Editable(r) == request[r].status = "DRAFT"

-----------------------------------------------------------------------------
(***************************************************************************)
(* Opening the form: the newest draft of the first page, or a new one.     *)
(***************************************************************************)
OpenForm(t) ==
    /\ tab[t].step \in {"closed", "initError"}
    /\ tab' = [tab EXCEPT ![t].step = "lookup"]
    /\ UNCHANGED <<store, request, cancel, writers, faults>>

Page == {r \in Requests : /\ request[r].status # "NONE"
                          /\ Cardinality({s \in Requests : s > r /\ request[s].status # "NONE"}) < PageSize}

\* Mutant: the page is not searched for a draft.
NoneOpen == {}

OpenDrafts == Page \cap Drafts

LookUpDraft(t) ==
    /\ tab[t].step = "lookup"
    /\ tab' = [tab EXCEPT ![t] =
         IF OpenDrafts = {} THEN [@ EXCEPT !.step = "create"]
         ELSE [@ EXCEPT !.step = "form",
                        !.request = CHOOSE r \in OpenDrafts : \A s \in OpenDrafts : s <= r]]
    /\ UNCHANGED <<store, request, cancel, writers, faults>>

\* What the tab learns of a call that succeeded: the answer may be lost.
Answer(t, ok, lost) ==
    \/ tab' = [tab EXCEPT ![t] = ok] /\ UNCHANGED faults
    \/ tab' = [tab EXCEPT ![t] = lost] /\ faults < MaxFaults /\ faults' = faults + 1

Create(t) ==
    LET r == Cardinality({s \in Requests : request[s].status # "NONE"}) + 1 IN
    /\ tab[t].step = "create" /\ r \in Requests
    /\ request' = [request EXCEPT ![r] = NewRequest]
    /\ Answer(t, [tab[t] EXCEPT !.step = "form", !.request = r], [tab[t] EXCEPT !.step = "initError"])
    /\ UNCHANGED <<store, cancel, writers>>

\* Picking a level of the cascade clears the levels below it; the form is
\* judged by the full selection only.
Choose(t, c) ==
    /\ tab[t].step = "form" /\ c # tab[t].chain /\ tab[t].submits < MaxSubmits[t]
    /\ tab' = [tab EXCEPT ![t].chain = c]
    /\ UNCHANGED <<store, request, cancel, writers, faults>>

AddFile(t, f) ==
    /\ tab[t].step = "form" /\ tab[t].item[f] = "none" /\ tab[t].submits < MaxSubmits[t]
    /\ tab' = [tab EXCEPT ![t].item[f] = "pending"]
    /\ UNCHANGED <<store, request, cancel, writers, faults>>

\* The tab is closed, or leaves the form, between two calls.
Leave(t) ==
    /\ tab[t].step \in {"form", "initError", "submitted"}
    /\ tab' = [tab EXCEPT ![t] = [Closed EXCEPT !.submits = tab[t].submits]]
    /\ UNCHANGED <<store, request, cancel, writers, faults>>

-----------------------------------------------------------------------------
(***************************************************************************)
(* handleSubmit: PATCH, then the uploads one by one, then submit.          *)
(***************************************************************************)
Submit(t) ==
    /\ tab[t].step = "form" /\ tab[t].request # 0 /\ FullChain(tab[t].chain)
    /\ tab[t].submits < MaxSubmits[t]
    /\ tab' = [tab EXCEPT ![t].step = "patchLoad", ![t].submits = @ + 1]
    /\ UNCHANGED <<store, request, cancel, writers, faults>>

\* The next item to upload, or the submission where none is left.
NextCall(todo) == IF todo = {} THEN "submitLoad" ELSE "mediaCheck"

\* requireEditable, then the check of the chain the input leads to.
PatchLoad(t) ==
    LET r == tab[t].request IN
    /\ tab[t].step = "patchLoad"
    /\ tab' = [tab EXCEPT ![t] = IF Editable(r) /\ ValidChain(@.chain)
                                 THEN [@ EXCEPT !.step = "patchSave", !.loaded = request[r].chain]
                                 ELSE [@ EXCEPT !.step = "form"]]
    /\ UNCHANGED <<store, request, cancel, writers, faults>>

\* Mutant: the type is left out of the PATCH.
WithoutType(old, new, current) ==
    [n \in {"service", "type", "complexity"} |->
        IF n = "type" THEN current[n] ELSE SetIfModified(old[n], new[n], current[n])]

\* The three paths of the chain a save writes.
SavedChain(old, new, current) ==
    [n \in {"service", "type", "complexity"} |-> SetIfModified(old[n], new[n], current[n])]

\* The items handleSubmit goes through: those chosen and not uploaded yet.
Remaining(t) == {f \in Files : tab[t].item[f] \notin {"none", "ready"}}

PatchSave(t) ==
    LET r == tab[t].request IN
    /\ tab[t].step = "patchSave"
    /\ request' = [request EXCEPT ![r].chain = SavedChain(tab[t].loaded, tab[t].chain, @),
                                  ![r].filled = TRUE]
    /\ writers' = [writers EXCEPT ![r] = @ \cup {t}]
    /\ Answer(t, [tab[t] EXCEPT !.todo = Remaining(t), !.step = NextCall(Remaining(t)), !.loaded = NoChain],
                 [tab[t] EXCEPT !.step = "form", !.loaded = NoChain])
    /\ UNCHANGED <<store, cancel>>

-----------------------------------------------------------------------------
(***************************************************************************)
(* uploadOneFile: whatever fails leaves the item in "error" and goes on.   *)
(***************************************************************************)
Current(t) == CHOOSE f \in tab[t].todo : TRUE
Upload(t)  == <<t, Current(t), tab[t].submits>>

\* Mutant: an item that is not ready is tried again.
UntilReady(t, status) == IF status = "ready" THEN tab[t].todo \ {Current(t)} ELSE tab[t].todo

Left(t, status) == tab[t].todo \ {Current(t)}

Done(t, status) ==
    [tab[t] EXCEPT !.item[Current(t)] = status, !.todo = Left(t, status),
                   !.step = NextCall(Left(t, status))]

\* POST :id/media, requireEditable and the limits of the declaration.
MediaCheck(t) ==
    /\ tab[t].step = "mediaCheck"
    /\ tab' = [tab EXCEPT ![t] = IF Editable(@.request) /\ Allowed(Upload(t))
                                 THEN [@ EXCEPT !.step = "mediaCreate", !.item[Current(t)] = "uploading"]
                                 ELSE Done(t, "error")]
    /\ UNCHANGED <<store, request, cancel, writers, faults>>

MediaCreate(t) ==
    /\ tab[t].step = "mediaCreate"
    /\ CreateUploadSession(Upload(t), tab[t].request)
    /\ Answer(t, [tab[t] EXCEPT !.step = "put"], Done(t, "error"))
    /\ UNCHANGED <<request, cancel, writers>>

UploadFile(t) ==
    /\ tab[t].step = "put"
    /\ PutObject(Upload(t))
    /\ Answer(t, [tab[t] EXCEPT !.step = "finalizeLoad"], Done(t, "error"))
    /\ UNCHANGED <<request, cancel, writers>>

\* POST finalize: requireEditable, then the media still PENDING_UPLOAD.
FinalizeLoad(t) ==
    /\ tab[t].step = "finalizeLoad"
    /\ tab' = [tab EXCEPT ![t] = IF Editable(@.request) /\ media[Upload(t)].status = "PENDING_UPLOAD"
                                 THEN [@ EXCEPT !.step = "scan"] ELSE Done(t, "error")]
    /\ UNCHANGED <<store, request, cancel, writers, faults>>

Scan(t) ==
    /\ tab[t].step = "scan"
    /\ tab' = [tab EXCEPT ![t] = CASE Verdict(Upload(t)) = "READY"    -> [@ EXCEPT !.step = "settle"]
                                   [] Verdict(Upload(t)) = "REJECTED" -> [@ EXCEPT !.step = "reject"]
                                   [] OTHER                           -> Done(t, "error")]
    /\ UNCHANGED <<store, request, cancel, writers, faults>>

FinalizeSave(t) ==
    /\ tab[t].step = "settle"
    /\ Settle(Upload(t), "READY")
    /\ Answer(t, Done(t, "ready"), Done(t, "error"))
    /\ UNCHANGED <<request, cancel, writers>>

RejectSave(t) ==
    /\ tab[t].step = "reject"
    /\ Settle(Upload(t), "REJECTED") /\ Go(t, "delete")
    /\ UNCHANGED <<request, cancel, writers, faults>>

RejectDelete(t) ==
    /\ tab[t].step = "delete"
    /\ DeleteObject(Upload(t))
    /\ Answer(t, Done(t, "rejected"), Done(t, "error"))
    /\ UNCHANGED <<request, cancel, writers>>

-----------------------------------------------------------------------------
(***************************************************************************)
(* POST :id/submit and POST :id/cancel.                                    *)
(***************************************************************************)
\* Every field a provider needs; the chain itself is not checked again.
Complete(r) ==
    /\ NoNode \notin {request[r].chain[n] : n \in {"service", "type", "complexity"}}
    /\ request[r].filled

SubmitLoad(t) ==
    /\ tab[t].step = "submitLoad"
    /\ Go(t, IF Editable(tab[t].request) /\ Complete(tab[t].request) THEN "submitSave" ELSE "form")
    /\ UNCHANGED <<store, request, cancel, writers, faults>>

SubmitSave(t) ==
    /\ tab[t].step = "submitSave"
    /\ request' = [request EXCEPT ![tab[t].request].status = "REQUESTED"]
    /\ Answer(t, [Closed EXCEPT !.step = "submitted", !.submits = tab[t].submits],
                 [tab[t] EXCEPT !.step = "form"])
    /\ UNCHANGED <<store, cancel, writers>>

\* No page cancels yet: the route has callers outside the tabs.
CancelLoad(r) ==
    /\ cancel = 0 /\ request[r].status \in {"DRAFT", "REQUESTED"}
    /\ cancel' = r
    /\ UNCHANGED <<store, request, tab, writers, faults>>

CancelSave ==
    /\ cancel # 0
    /\ request' = [request EXCEPT ![cancel].status = "CANCELLED"]
    /\ cancel' = 0
    /\ UNCHANGED <<store, tab, writers, faults>>

\* A call fails before its next effect: the server or the network is down.
CallFails(t) ==
    /\ faults < MaxFaults /\ tab[t].step \notin {"closed", "initError", "form", "submitted"}
    /\ faults' = faults + 1
    /\ tab' = [tab EXCEPT ![t] =
         CASE @.step \in {"lookup", "create"} -> [@ EXCEPT !.step = "initError"]
           [] @.step \in {"patchLoad", "patchSave", "submitLoad", "submitSave"} ->
                [@ EXCEPT !.step = "form", !.loaded = NoChain]
           [] OTHER -> Done(t, "error")]
    /\ UNCHANGED <<store, request, cancel, writers>>

Init ==
    /\ MediaInit
    /\ request = [r \in Requests |-> [NewRequest EXCEPT !.status = "NONE"]]
    /\ tab = [t \in Tabs |-> Closed]
    /\ cancel = 0 /\ writers = [r \in Requests |-> {}] /\ faults = 0

UserStep(t) ==
    \/ OpenForm(t) \/ Leave(t) \/ Submit(t)
    \/ \E c \in {x \in Chain : FullChain(x)} : Choose(t, c)
    \/ \E f \in Files : AddFile(t, f)

CallStep(t) ==
    \/ LookUpDraft(t) \/ Create(t) \/ PatchLoad(t) \/ PatchSave(t)
    \/ MediaCheck(t) \/ MediaCreate(t) \/ UploadFile(t) \/ FinalizeLoad(t) \/ Scan(t)
    \/ FinalizeSave(t) \/ RejectSave(t) \/ RejectDelete(t) \/ SubmitLoad(t) \/ SubmitSave(t)

Next ==
    \/ \E t \in Tabs : UserStep(t) \/ CallStep(t) \/ CallFails(t)
    \/ CancelSave \/ \E r \in Requests : CancelLoad(r)

Spec == Init /\ [][Next]_vars

\* A call is answered or fails: the browser ends a request that is not.
FairSpec == Spec /\ \A t \in Tabs : WF_vars(CallStep(t))

-----------------------------------------------------------------------------
TypeOK ==
    /\ MediaTypeOK
    /\ request \in [Requests -> Request] /\ tab \in [Tabs -> Tab]
    /\ cancel \in 0..MaxRequests /\ writers \in [Requests -> SUBSET Tabs] /\ faults \in Nat

\* A client holds at most one open draft for each tab, however the lookups and
\* creations of the tabs, lost answers and cancellations interleave
\* (requests/new/page.tsx:103 counts on one draft, which is true of one tab).
DraftPerTab == Cardinality(Drafts) <= Cardinality(Tabs)

\* The chain of a request never mixes two choices as long as one tab writes
\* its details: no lost answer, retry or cancellation breaks it.
ChainKept == \A r \in Requests : Cardinality(writers[r]) <= 1 => ValidChain(request[r].chain)

\* A file shown as uploaded is one a provider can open: scanned, of its
\* declared type, stored, and attached to the request the form will submit.
ShownReadyIsAttached ==
    \A t \in Tabs, f \in Files : tab[t].item[f] = "ready" =>
        \E n \in 1..MaxSubmits[t] :
            LET m == <<t, f, n>> IN m \in ReadyFor(tab[t].request) \cap bucket /\ m \notin Disguised

\* What a provider is asked to answer does not change under him: once it left
\* DRAFT, a request that one tab wrote keeps its details and its media, whatever
\* that tab retries after a lost answer.
SubmittedIsFrozen ==
    [][\A r \in Requests :
         request[r].status = "REQUESTED" /\ Cardinality(writers'[r]) <= 1
           => request'[r].chain = request[r].chain /\ ReadyFor(r)' = ReadyFor(r)]_vars

\* The button never spins for ever: a submission ends in the confirmation or
\* back in the form, whichever of its calls fail.
SubmitReturns ==
    \A t \in Tabs : tab[t].step = "patchLoad" ~> tab[t].step \in {"form", "submitted"}
=============================================================================
