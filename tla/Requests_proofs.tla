-------------------------- MODULE Requests_proofs ---------------------------
(***************************************************************************)
(* Requests and their forms for any number of tabs, files, requests,       *)
(* submissions and faults.  A tab knows of the store and of its request    *)
(* what it saw when it called them: TabOK says which part of that is still *)
(* true.  Every step is a turn of one tab, which writes no request and     *)
(* only media documents of its own, a save of one request, with which what *)
(* the other tabs know agrees, or a cancellation.                          *)
(***************************************************************************)
EXTENDS Requests, FiniteSetTheorems, WellFoundedInduction, NaturalsInduction, TLAPS

\* The steps of a submission: the uploads, those of a media that exists, and
\* what follows the PATCH.
Late      == {"put", "finalizeLoad", "scan", "settle", "reject", "delete"}
Uploading == {"mediaCheck", "mediaCreate"} \cup Late
Detailed  == Uploading \cup {"submitLoad", "submitSave"}
Patching  == {"patchLoad", "patchSave"}
Outside   == {"closed", "lookup", "create", "initError", "submitted"}

\* The media document a form k of tab t is uploading.
Up(t, k) == <<t, CHOOSE f \in k.todo : TRUE, k.submits>>

Attached(m, r) == m \in ReadyFor(r) \cap bucket /\ m \notin Disguised

Shape(t, k) ==
    /\ k.submits <= MaxSubmits[t]
    /\ k.step \in Outside => k.item = [f \in Files |-> "none"]
    /\ k.step \in Uploading => k.todo # {}
    /\ k.step \notin Uploading => k.todo = {}
    /\ \A f \in k.todo : k.item[f] \notin {"none", "ready"}
    /\ k.step \in Detailed \cup Patching => k.submits > 0 /\ k.request # 0

\* What the form shows is there, and what it is about to upload is not: each
\* press of the button has media documents of its own.
Shown(t, k) ==
    \A f \in Files : k.item[f] = "ready" => \E n \in 1..MaxSubmits[t] : Attached(<<t, f, n>>, k.request)

Fresh(t, k) ==
    \A f \in Files, n \in 1..MaxSubmits[t] : media[<<t, f, n>>].status = "READY" =>
        /\ n <= k.submits
        /\ n = k.submits => k.step \notin Patching /\ f \notin k.todo

Aimed(t, k) ==
    /\ k.step \in Late => media[Up(t, k)].target = k.request
    /\ k.step = "settle" => Up(t, k) \in bucket \ Disguised

\* A tab that is past the check of its PATCH holds a request that was a draft:
\* if it is one no more, another tab has submitted it.
Backed(t, k) ==
    /\ k.request # 0 => request[k.request].status # "NONE"
    /\ k.step \in Detailed => t \in writers[k.request]
    /\ k.step \in Detailed \cup {"patchSave"} /\ request[k.request].status = "REQUESTED" =>
          \E u \in writers[k.request] : u # t

\* The chain it loaded is the one it will save over, if it writes alone.
Alone(t, k) ==
    k.step = "patchSave" =>
        /\ ValidChain(k.chain)
        /\ writers[k.request] \subseteq {t} => request[k.request].chain = k.loaded

TabOK(t, k) == Shape(t, k) /\ Shown(t, k) /\ Fresh(t, k) /\ Aimed(t, k) /\ Backed(t, k) /\ Alone(t, k)

\* The ids are given in order.
Numbered == \E n \in 0..MaxRequests : \A r \in Requests : request[r].status # "NONE" <=> r <= n

IInv ==
    /\ TypeOK
    /\ \A t \in Tabs : TabOK(t, tab[t])
    /\ ChainKept
    /\ Numbered
    /\ cancel # 0 => request[cancel].status # "NONE"

\* The requests newer than r, and the tabs about to create one more.
Newer(r)  == {s \in Requests : s > r /\ request[s].status # "NONE"}
Creators  == {t \in Tabs : tab[t].step = "create"}

\* No draft is so old that the page the lookups read could miss it.
Reachable == \A d \in Drafts : Cardinality(Newer(d)) + Cardinality(Creators) < Cardinality(Tabs)

-----------------------------------------------------------------------------
(***************************************************************************)
(* Numbers, uploads and the fields of a form.                              *)
(***************************************************************************)
LEMMA Numbers ==
    /\ IsFiniteSet(Tabs) /\ Cardinality(Tabs) \in Nat /\ IsFiniteSet(Requests)
    /\ MaxRequests \in Nat \ {0} /\ PageSize \in Nat \ {0} /\ MaxFaults \in Nat
    /\ MaxSubmits \in [Tabs -> Nat] /\ 0 \notin Requests
<1>1. MaxRequests \in Nat \ {0} /\ 1 \in Int BY RequestsAssumption DEF RequestsAssumption
<1>2. IsFiniteSet(Requests) BY <1>1, FS_Interval DEF Requests
<1>3. IsFiniteSet(Tabs) BY RequestsAssumption DEF RequestsAssumption
<1> QED BY <1>1, <1>2, <1>3, FS_CardinalityType, RequestsAssumption DEF RequestsAssumption, Requests

LEMMA UploadOf ==
    ASSUME NEW t \in Tabs, NEW f \in Files, NEW n \in 1..MaxSubmits[t]
    PROVE  <<t, f, n>> \in Uploads
BY RequestsAssumption DEF RequestsAssumption

LEMMA FormFields ==
    ASSUME NEW k \in Tab
    PROVE  /\ k.step \in Step /\ k.request \in 0..MaxRequests /\ k.chain \in Chain /\ k.loaded \in Chain
           /\ k.item \in [Files -> Item] /\ k.todo \subseteq Files /\ k.submits \in Nat
BY DEF Tab

LEMMA FormIs ==
    ASSUME NEW s \in Step, NEW r \in 0..MaxRequests, NEW c \in Chain, NEW l \in Chain,
           NEW i \in [Files -> Item], NEW todo \in SUBSET Files, NEW n \in Nat
    PROVE  [step |-> s, request |-> r, chain |-> c, loaded |-> l, item |-> i, todo |-> todo, submits |-> n] \in Tab
BY DEF Tab

\* The media document that a form in the middle of an upload writes.
LEMMA UploadIs ==
    ASSUME NEW t \in Tabs, NEW k \in Tab, Shape(t, k), k.step \in Uploading
    PROVE  /\ Up(t, k) \in Uploads
           /\ \E f \in k.todo : Up(t, k) = <<t, f, k.submits>> /\ f = CHOOSE g \in k.todo : TRUE
           /\ k.submits \in 1..MaxSubmits[t]
<1>1. PICK f : f = CHOOSE g \in k.todo : TRUE OBVIOUS
<1>2. k.todo # {} /\ k.todo \subseteq Files BY FormFields DEF Shape
<1>3. f \in k.todo BY <1>1, <1>2
<1>4. k.submits \in 1..MaxSubmits[t] BY FormFields, Numbers DEF Shape, Detailed
<1>5. Up(t, k) = <<t, f, k.submits>> BY <1>1 DEF Up
<1> QED BY <1>1, <1>2, <1>3, <1>4, <1>5, UploadOf

LEMMA ChainIs ==
    ASSUME NEW old \in Chain, NEW new \in Chain, NEW current \in Chain
    PROVE  SavedChain(old, new, current) \in Chain
BY DEF SavedChain, Chain, SetIfModified

LEMMA ChainSaved ==
    ASSUME NEW old \in Chain, NEW new \in Chain
    PROVE  SavedChain(old, new, old) = new
BY DEF SavedChain, Chain, SetIfModified

LEMMA Single ==
    ASSUME NEW S, NEW x \in S, IsFiniteSet(S), Cardinality(S) <= 1
    PROVE  S = {x}
<1>1. IsFiniteSet(S \ {x}) /\ Cardinality(S \ {x}) = Cardinality(S) - 1 BY FS_RemoveElement
<1>2. Cardinality(S) \in Nat /\ Cardinality(S \ {x}) \in Nat BY <1>1, FS_CardinalityType
<1>3. Cardinality(S \ {x}) = 0 BY <1>1, <1>2
<1>4. S \ {x} = {} BY <1>1, <1>3, FS_EmptySet
<1> QED BY <1>4
-----------------------------------------------------------------------------
(***************************************************************************)
(* A step of one tab that leaves the requests alone: what it writes in the *)
(* store are media documents of its own.                                   *)
(***************************************************************************)
Own(t) ==
    /\ media' \in [Uploads -> MediaDoc] /\ bucket' \subseteq Uploads
    /\ \A m \in Uploads : m[1] # t => media'[m] = media[m] /\ (m \in bucket' <=> m \in bucket)

Turn(t) ==
    /\ UNCHANGED <<request, cancel, writers>> /\ faults' \in Nat /\ Own(t)
    /\ \E k \in Tab : tab' = [tab EXCEPT ![t] = k] /\ TabOK(t, k)'

LEMMA OwnOfAnother ==
    ASSUME NEW t \in Tabs, NEW u \in Tabs, u # t, Own(t), NEW f \in Files, NEW n \in 1..MaxSubmits[u]
    PROVE  /\ media'[<<u, f, n>>] = media[<<u, f, n>>]
           /\ \A r : Attached(<<u, f, n>>, r)' <=> Attached(<<u, f, n>>, r)
<1>1. <<u, f, n>> \in Uploads BY UploadOf
<1>2. <<u, f, n>>[1] # t OBVIOUS
<1>3. media'[<<u, f, n>>] = media[<<u, f, n>>] /\ (<<u, f, n>> \in bucket' <=> <<u, f, n>> \in bucket)
  BY <1>1, <1>2 DEF Own
<1> QED BY <1>3 DEF Attached, ReadyFor

LEMMA OthersKept ==
    ASSUME NEW t \in Tabs, NEW u \in Tabs, u # t, Own(t), NEW k \in Tab, TabOK(u, k),
           UNCHANGED <<request, writers>>
    PROVE  TabOK(u, k)'
<1>1. Shape(u, k)' BY DEF TabOK, Shape
<1>2. Shown(u, k)' BY OwnOfAnother DEF TabOK, Shown
<1>3. Fresh(u, k)' BY OwnOfAnother DEF TabOK, Fresh
<1>4. Aimed(u, k)'
  <2>1. SUFFICES ASSUME k.step \in Late PROVE Aimed(u, k)' BY DEF Aimed, Late
  <2>2. Up(u, k) \in Uploads /\ Up(u, k)[1] = u
    BY <2>1, UploadIs DEF TabOK, Uploading
  <2>3. media'[Up(u, k)] = media[Up(u, k)] /\ (Up(u, k) \in bucket' <=> Up(u, k) \in bucket) BY <2>2 DEF Own
  <2>4. Up(u, k)' = Up(u, k) BY DEF Up
  <2> QED BY <2>3, <2>4 DEF TabOK, Aimed
<1>5. Backed(u, k)' BY DEF TabOK, Backed
<1>6. Alone(u, k)' BY DEF TabOK, Alone, ValidChain
<1> QED BY <1>1, <1>2, <1>3, <1>4, <1>5, <1>6 DEF TabOK

LEMMA TurnKeeps ==
    ASSUME IInv, NEW t \in Tabs, Turn(t)
    PROVE  IInv'
<1>1. PICK k \in Tab : tab' = [tab EXCEPT ![t] = k] /\ TabOK(t, k)' BY DEF Turn
<1>2. UNCHANGED <<request, cancel, writers>> /\ faults' \in Nat /\ Own(t) BY DEF Turn
<1>3. TypeOK /\ tab \in [Tabs -> Tab] BY DEF IInv, TypeOK
<1>4. TypeOK' BY <1>1, <1>2, <1>3 DEF TypeOK, MediaTypeOK, Own
<1>5. ASSUME NEW u \in Tabs PROVE TabOK(u, tab[u])'
  <2>1. CASE u = t
    <3>1. tab'[u] = k BY <1>1, <1>3, <2>1
    <3> QED BY <1>1, <2>1, <3>1
  <2>2. CASE u # t
    <3>1. PICK l \in Tab : l = tab[u] BY <1>3
    <3>2. tab'[u] = l BY <1>1, <1>3, <2>2, <3>1
    <3>3. TabOK(u, l) BY <3>1 DEF IInv
    <3>4. TabOK(u, l)' BY <1>2, <2>2, <3>3, OthersKept
    <3> QED BY <3>2, <3>4
  <2> QED BY <2>1, <2>2
<1>6. ChainKept' BY <1>2 DEF IInv, ChainKept, ValidChain
<1>7. Numbered' BY <1>2 DEF IInv, Numbered
<1>8. cancel' # 0 => request'[cancel'].status # "NONE" BY <1>2 DEF IInv
<1> QED BY <1>4, <1>5, <1>6, <1>7, <1>8 DEF IInv
-----------------------------------------------------------------------------
(***************************************************************************)
(* What a form may become: the next step of an upload, and its end.        *)
(***************************************************************************)
Cur(k) == CHOOSE f \in k.todo : TRUE

Ended(k, s) == [k EXCEPT !.item[Cur(k)] = s, !.todo = k.todo \ {Cur(k)}, !.step = NextCall(k.todo \ {Cur(k)})]

\* No file that is left has been stored, but for the one that is being settled.
FreshButCurrent(t, k) ==
    \A f \in Files, n \in 1..MaxSubmits[t] : media[<<t, f, n>>].status = "READY" =>
        n <= k.submits /\ (n = k.submits => f \notin k.todo \ {Cur(k)})

LEMMA DoneIsEnded ==
    ASSUME NEW t \in Tabs, NEW k, tab[t] = k, NEW s
    PROVE  Done(t, s) = Ended(k, s)
BY DEF Done, Ended, Left, Current, Cur

LEMMA FormStays ==
    ASSUME NEW t \in Tabs, NEW k \in Tab, TabOK(t, k), UNCHANGED <<store, request, writers>>
    PROVE  TabOK(t, k)'
<1>1. UNCHANGED <<media, bucket, request, writers>> BY DEF store
<1>2. \A m, r : Attached(m, r)' <=> Attached(m, r) BY <1>1 DEF Attached, ReadyFor
<1>3. Shape(t, k)' BY DEF TabOK, Shape
<1>4. Shown(t, k)' BY <1>2 DEF TabOK, Shown
<1>5. Fresh(t, k)' BY <1>1 DEF TabOK, Fresh
<1>6. Aimed(t, k)' BY <1>1 DEF TabOK, Aimed, Up
<1>7. Backed(t, k)' BY <1>1 DEF TabOK, Backed
<1>8. Alone(t, k)' BY <1>1 DEF TabOK, Alone, ValidChain
<1> QED BY <1>3, <1>4, <1>5, <1>6, <1>7, <1>8 DEF TabOK

LEMMA FreshForgives ==
    ASSUME NEW t \in Tabs, NEW k \in Tab, Fresh(t, k)
    PROVE  FreshButCurrent(t, k)
BY DEF Fresh, FreshButCurrent

LEMMA FreshForgivesThen ==
    ASSUME NEW t \in Tabs, NEW k \in Tab, Fresh(t, k)'
    PROVE  FreshButCurrent(t, k)'
BY DEF Fresh, FreshButCurrent, Cur

\* The next file, or the submission.
LEMMA EndedIsForm ==
    ASSUME NEW k \in Tab, NEW s \in {"error", "rejected", "ready"}, k.todo # {}
    PROVE  /\ Ended(k, s) \in Tab
           /\ Ended(k, s).request = k.request /\ Ended(k, s).submits = k.submits
           /\ Ended(k, s).todo = k.todo \ {Cur(k)} /\ Cur(k) \in k.todo
           /\ Ended(k, s).step = NextCall(k.todo \ {Cur(k)})
           /\ \A f \in Files : Ended(k, s).item[f] = IF f = Cur(k) THEN s ELSE k.item[f]
<1>1. PICK c \in Files : c = Cur(k) /\ c \in k.todo BY FormFields DEF Cur
<1>2. PICK left \in SUBSET Files : left = k.todo \ {Cur(k)} BY FormFields
<1>3. NextCall(left) \in Step BY DEF NextCall, Step
<1>4. s \in Item BY DEF Item
<1>5. Ended(k, s) = [k EXCEPT !.item[c] = s, !.todo = left, !.step = NextCall(left)]
  BY <1>1, <1>2 DEF Ended
<1>6. k.item \in [Files -> Item] BY FormFields
<1>7. Ended(k, s) = [k EXCEPT !.item = [k.item EXCEPT ![c] = s], !.todo = left, !.step = NextCall(left)]
  BY <1>5
<1>8. [k.item EXCEPT ![c] = s] \in [Files -> Item] BY <1>4, <1>6
<1>9. Ended(k, s) \in Tab BY <1>2, <1>3, <1>7, <1>8 DEF Tab
<1>10. Ended(k, s).item = [k.item EXCEPT ![c] = s] BY <1>7 DEF Tab
<1>11. \A f \in Files : Ended(k, s).item[f] = IF f = c THEN s ELSE k.item[f] BY <1>6, <1>10
<1>12. /\ Ended(k, s).request = k.request /\ Ended(k, s).submits = k.submits
       /\ Ended(k, s).todo = left /\ Ended(k, s).step = NextCall(left)
  BY <1>7 DEF Tab
<1> QED BY <1>1, <1>2, <1>9, <1>11, <1>12

LEMMA EndKeeps ==
    ASSUME NEW t \in Tabs, NEW k \in Tab, NEW s \in {"error", "rejected", "ready"}, k.step \in Uploading,
           Shape(t, k)', Shown(t, k)', FreshButCurrent(t, k)', Backed(t, k)',
           s = "ready" => Attached(Up(t, k), k.request)'
    PROVE  Ended(k, s) \in Tab /\ TabOK(t, Ended(k, s))'
<1>. DEFINE e == Ended(k, s)
<1>1. Shape(t, k) BY DEF Shape
<1>2. k.todo # {} /\ k.submits \in 1..MaxSubmits[t] /\ k.submits > 0 /\ k.request # 0
  BY <1>1, UploadIs DEF Shape, Detailed
<1>3. /\ e \in Tab /\ e.request = k.request /\ e.submits = k.submits
      /\ e.todo = k.todo \ {Cur(k)} /\ Cur(k) \in k.todo
      /\ e.step = NextCall(k.todo \ {Cur(k)})
      /\ \A f \in Files : e.item[f] = IF f = Cur(k) THEN s ELSE k.item[f]
  BY <1>2, EndedIsForm
<1>4. (e.todo = {} /\ e.step = "submitLoad") \/ (e.todo # {} /\ e.step = "mediaCheck")
  BY <1>3 DEF NextCall
<1>5. k.todo \subseteq Files BY FormFields
<1>. HIDE DEF e
<1>6. Shape(t, e)'
  <2>1. e.step \in Detailed /\ e.step \notin Outside BY <1>4 DEF Detailed, Uploading, Outside
  <2>2. e.step \in Uploading <=> e.todo # {} BY <1>4 DEF Uploading, Late
  <2>3. \A f \in e.todo : e.item[f] \notin {"none", "ready"} BY <1>1, <1>3, <1>5 DEF Shape
  <2> QED BY <1>1, <1>2, <1>3, <2>1, <2>2, <2>3 DEF Shape
<1>7. Shown(t, e)'
  <2>1. SUFFICES ASSUME NEW f \in Files, e.item[f] = "ready"
                 PROVE  \E n \in 1..MaxSubmits[t] : Attached(<<t, f, n>>, k.request)'
    BY <1>3 DEF Shown
  <2>2. CASE f = Cur(k)
    <3>1. Up(t, k) = <<t, f, k.submits>> BY <2>2 DEF Up, Cur
    <3>2. s = "ready" BY <1>3, <2>1, <2>2
    <3>3. Attached(<<t, f, k.submits>>, k.request)' BY <3>1, <3>2
    <3> QED BY <1>2, <3>3
  <2>3. CASE f # Cur(k) BY <1>3, <2>1, <2>3 DEF Shown
  <2> QED BY <2>2, <2>3
<1>8. Fresh(t, e)' BY <1>3, <1>4 DEF Fresh, FreshButCurrent, Patching, Cur
<1>9. Aimed(t, e)' BY <1>4 DEF Aimed, Late
<1>10. Backed(t, e)'
  <2>1. k.step \in Detailed /\ e.step \in Detailed BY <1>4 DEF Detailed, Uploading
  <2> QED BY <1>3, <2>1 DEF Backed
<1>11. Alone(t, e)' BY <1>4 DEF Alone
<1> QED BY <1>3, <1>6, <1>7, <1>8, <1>9, <1>10, <1>11 DEF e, TabOK

\* A step further in the same upload.
LEMMA AdvanceKeeps ==
    ASSUME NEW t \in Tabs, NEW k \in Tab, NEW s \in Late, k.step \in {"mediaCreate"} \cup Late,
           TabOK(t, k)', media'[Up(t, k)].target = k.request,
           s = "settle" => Up(t, k) \in bucket' \ Disguised
    PROVE  [k EXCEPT !.step = s] \in Tab /\ TabOK(t, [k EXCEPT !.step = s])'
<1>. DEFINE e == [k EXCEPT !.step = s]
<1>1. s \in Step BY DEF Step, Late
<1>2. /\ e \in Tab /\ e.request = k.request /\ e.submits = k.submits /\ e.todo = k.todo /\ e.step = s
      /\ e.item = k.item
  BY <1>1 DEF Tab
<1>. HIDE DEF e
<1>3. Shape(t, e)' BY <1>2 DEF TabOK, Shape, Late, Uploading, Detailed, Outside
<1>4. Shown(t, e)' BY <1>2 DEF TabOK, Shown
<1>5. Fresh(t, e)' BY <1>2 DEF TabOK, Fresh, Patching, Late
<1>6. Aimed(t, e)' BY <1>2 DEF Aimed, Up
<1>7. Backed(t, e)' BY <1>2 DEF TabOK, Backed, Detailed, Uploading, Late
<1>8. Alone(t, e)' BY <1>2 DEF Alone, Late
<1> QED BY <1>2, <1>3, <1>4, <1>5, <1>6, <1>7, <1>8 DEF e, TabOK
\* Outside a submission a form only has to show what it knows.
LEMMA IdleForm ==
    ASSUME NEW t \in Tabs, NEW k \in Tab, Shape(t, k)', Shown(t, k)', Fresh(t, k)',
           NEW e \in Tab, e.step \in Outside \cup {"form"}, e.todo = {}, e.submits = k.submits,
           e.step \in Outside => e.item = [f \in Files |-> "none"],
           \A f \in Files : e.item[f] = "ready" => k.item[f] = "ready" /\ e.request = k.request,
           e.request # 0 => request'[e.request].status # "NONE"
    PROVE  TabOK(t, e)'
<1>1. /\ e.step \notin Detailed \cup Patching /\ e.step \notin Uploading /\ e.step \notin Late
      /\ e.step \notin {"settle", "patchSave"}
  BY DEF Outside, Detailed, Patching, Uploading, Late
<1>2. Shape(t, e)' BY <1>1 DEF Shape
<1>3. Shown(t, e)' BY DEF Shown
<1>4. Fresh(t, e)' BY <1>1 DEF Fresh
<1>5. Aimed(t, e)' BY <1>1 DEF Aimed
<1>6. Backed(t, e)' BY <1>1 DEF Backed
<1>7. Alone(t, e)' BY <1>1 DEF Alone
<1> QED BY <1>2, <1>3, <1>4, <1>5, <1>6, <1>7 DEF TabOK

LEMMA NothingWritten ==
    ASSUME TypeOK, NEW t \in Tabs, UNCHANGED store
    PROVE  Own(t)
BY DEF store, Own, TypeOK, MediaTypeOK

LEMMA Answered ==
    ASSUME TypeOK, NEW t \in Tabs, NEW a \in Tab, NEW b \in Tab, Answer(t, a, b)
    PROVE  /\ faults' \in Nat
           /\ \E k \in {a, b} : tab' = [tab EXCEPT ![t] = k]
BY DEF Answer, TypeOK

LEMMA AnswerTurn ==
    ASSUME TypeOK, NEW t \in Tabs, NEW a \in Tab, NEW b \in Tab, Answer(t, a, b),
           UNCHANGED <<request, cancel, writers>>, Own(t), TabOK(t, a)', TabOK(t, b)'
    PROVE  Turn(t)
BY Answered DEF Turn

LEMMA QuietTurn ==
    ASSUME TypeOK, NEW t \in Tabs, NEW e \in Tab, tab' = [tab EXCEPT ![t] = e],
           UNCHANGED <<store, request, cancel, writers>>, faults' \in Nat, TabOK(t, e)'
    PROVE  Turn(t)
BY NothingWritten DEF Turn

LEMMA UpIsNotReady ==
    ASSUME NEW t \in Tabs, NEW k \in Tab, TabOK(t, k), k.step \in Uploading
    PROVE  media[Up(t, k)].status # "READY"
<1>1. PICK f \in k.todo : Up(t, k) = <<t, f, k.submits>> BY UploadIs DEF TabOK
<1>2. f \in Files /\ k.submits \in 1..MaxSubmits[t] BY FormFields, UploadIs DEF TabOK
<1> QED BY <1>1, <1>2 DEF TabOK, Fresh

\* A call that writes the document or the object of the current file, and does
\* not make it ready.
LEMMA WriteKeeps ==
    ASSUME TypeOK, NEW t \in Tabs, NEW k \in Tab, TabOK(t, k), k.step \in Uploading,
           media' \in [Uploads -> MediaDoc], bucket' \subseteq Uploads,
           \A m \in Uploads \ {Up(t, k)} : media'[m] = media[m] /\ (m \in bucket' <=> m \in bucket),
           media'[Up(t, k)].status # "READY",
           k.step \in Late => media'[Up(t, k)].target = media[Up(t, k)].target,
           k.step = "settle" => Up(t, k) \in bucket',
           UNCHANGED <<request, writers>>
    PROVE  Own(t) /\ TabOK(t, k)'
<1>1. Up(t, k) \in Uploads /\ Up(t, k)[1] = t BY UploadIs DEF TabOK
<1>2. Own(t) BY <1>1 DEF Own
<1>3. media[Up(t, k)].status # "READY" BY UpIsNotReady
<1>4. ASSUME NEW m \in Uploads, NEW r PROVE Attached(m, r)' <=> Attached(m, r)
  <2>1. CASE m = Up(t, k) BY <1>3, <2>1 DEF Attached, ReadyFor
  <2>2. CASE m # Up(t, k) BY <2>2 DEF Attached, ReadyFor
  <2> QED BY <2>1, <2>2
<1>5. \A m \in Uploads : media'[m].status = "READY" <=> media[m].status = "READY" BY <1>3
<1>6. Shape(t, k)' BY DEF TabOK, Shape
<1>7. Shown(t, k)' BY <1>4, UploadOf DEF TabOK, Shown
<1>8. Fresh(t, k)' BY <1>5, UploadOf DEF TabOK, Fresh
<1>9. Aimed(t, k)'
  <2>1. Up(t, k)' = Up(t, k) BY DEF Up
  <2> QED BY <2>1 DEF TabOK, Aimed
<1>10. Backed(t, k)' BY DEF TabOK, Backed
<1>11. Alone(t, k)' BY DEF TabOK, Alone, ValidChain
<1> QED BY <1>2, <1>6, <1>7, <1>8, <1>9, <1>10, <1>11 DEF TabOK

-----------------------------------------------------------------------------
(***************************************************************************)
(* The steps of one tab that leave the requests alone.                     *)
(***************************************************************************)
LEMMA NoItems == [f \in Files |-> "none"] \in [Files -> Item] /\ NoChain \in Chain /\ 0 \in 0..MaxRequests
BY Numbers DEF Item, NoChain, Chain

LEMMA FormOf ==
    ASSUME IInv, NEW t \in Tabs
    PROVE  /\ tab[t] \in Tab /\ TabOK(t, tab[t])
           /\ TypeOK /\ tab \in [Tabs -> Tab]
BY DEF IInv, TypeOK

LEMMA ClosedForm ==
    ASSUME NEW n \in Nat, NEW s \in Step
    PROVE  /\ [Closed EXCEPT !.step = s, !.submits = n] \in Tab
           /\ [Closed EXCEPT !.step = s, !.submits = n].step = s
           /\ [Closed EXCEPT !.step = s, !.submits = n].request = 0
           /\ [Closed EXCEPT !.step = s, !.submits = n].submits = n
           /\ [Closed EXCEPT !.step = s, !.submits = n].todo = {}
           /\ [Closed EXCEPT !.step = s, !.submits = n].item = [f \in Files |-> "none"]
<1>1. Closed \in Tab BY NoItems, FormIs DEF Closed, Step
<1>2. Closed.request = 0 /\ Closed.todo = {} /\ Closed.item = [f \in Files |-> "none"] BY DEF Closed
<1>3. /\ Closed.chain \in Chain /\ Closed.loaded \in Chain /\ Closed.item \in [Files -> Item]
      /\ Closed.todo \subseteq Files /\ Closed.request \in 0..MaxRequests
  BY <1>1, FormFields
<1> QED BY <1>1, <1>2, <1>3 DEF Tab

LEMMA UserTurns ==
    ASSUME IInv, NEW t \in Tabs, UserStep(t)
    PROVE  Turn(t)
<1>1. PICK k \in Tab : k = tab[t] /\ TabOK(t, k) BY FormOf
<1>2. TypeOK /\ tab \in [Tabs -> Tab] BY FormOf
<1>3. UNCHANGED <<store, request, cancel, writers, faults>> /\ faults' \in Nat
  BY <1>2 DEF UserStep, OpenForm, Leave, Submit, Choose, AddFile, TypeOK
<1>4. TabOK(t, k)' BY <1>1, <1>3, FormStays
<1>5. Shape(t, k)' /\ Shown(t, k)' /\ Fresh(t, k)' /\ Backed(t, k)' BY <1>4 DEF TabOK
<1>6. Shape(t, k) /\ Backed(t, k) BY <1>1 DEF TabOK
<1>7. /\ k.step \in Step /\ k.request \in 0..MaxRequests /\ k.chain \in Chain /\ k.loaded \in Chain
      /\ k.item \in [Files -> Item] /\ k.todo \subseteq Files /\ k.submits \in Nat
  BY FormFields
<1>8. CASE OpenForm(t)
  <2>. DEFINE e == [k EXCEPT !.step = "lookup"]
  <2>1. tab' = [tab EXCEPT ![t] = e] /\ k.step \in Outside /\ k.step \notin Uploading
    BY <1>1, <1>2, <1>8 DEF OpenForm, Outside, Uploading, Late
  <2>2. e \in Tab /\ e.step = "lookup" /\ e.todo = {} /\ e.submits = k.submits /\ e.item = [f \in Files |-> "none"]
        /\ e.request = k.request
    BY <1>6, <2>1 DEF Tab, Step, Shape
  <2>. HIDE DEF e
  <2>3. TabOK(t, e)' BY <1>5, <2>2, IdleForm DEF Outside, Backed
  <2> QED BY <1>2, <1>3, <2>1, <2>2, <2>3, QuietTurn
<1>9. CASE Leave(t)
  <2>. DEFINE e == [Closed EXCEPT !.step = "closed", !.submits = k.submits]
  <2>0. [Closed EXCEPT !.submits = k.submits] = e
    <3>1. Closed.step = "closed" BY DEF Closed
    <3>2. Closed \in Tab BY NoItems, FormIs DEF Closed, Step
    <3> QED BY <3>1, <3>2 DEF Tab
  <2>1. tab' = [tab EXCEPT ![t] = e] BY <1>1, <1>9, <2>0 DEF Leave
  <2>2. /\ e \in Tab /\ e.step = "closed" /\ e.todo = {} /\ e.submits = k.submits /\ e.request = 0
        /\ e.item = [f \in Files |-> "none"]
    <3>1. "closed" \in Step BY DEF Step
    <3> QED BY <1>7, <3>1, ClosedForm
  <2>. HIDE DEF e
  <2>3. TabOK(t, e)' BY <1>5, <2>2, IdleForm DEF Outside
  <2> QED BY <1>2, <1>3, <2>1, <2>2, <2>3, QuietTurn
<1>10. CASE Submit(t)
  <2>. DEFINE e == [k EXCEPT !.step = "patchLoad", !.submits = k.submits + 1]
  <2>1. /\ tab' = [tab EXCEPT ![t] = e] /\ k.step = "form" /\ k.submits < MaxSubmits[t]
        /\ k.request # 0
    BY <1>1, <1>2, <1>10 DEF Submit
  <2>0. PICK next \in Nat : next = k.submits + 1 BY <1>7
  <2>2. /\ e \in Tab /\ e.step = "patchLoad" /\ e.todo = k.todo /\ e.submits = k.submits + 1
        /\ e.request = k.request /\ e.item = k.item
    BY <2>0 DEF Tab, Step
  <2>3. k.todo = {} BY <1>6, <2>1 DEF Shape, Uploading, Late
  <2>. HIDE DEF e
  <2>4. MaxSubmits[t] \in Nat BY Numbers
  <2>5. Shape(t, e)' BY <1>5, <1>7, <2>1, <2>2, <2>3, <2>4 DEF Shape, Outside, Uploading, Late, Detailed, Patching
  <2>6. Shown(t, e)' BY <1>5, <2>2 DEF Shown
  <2>7. Fresh(t, e)'
    <3>1. SUFFICES ASSUME NEW f \in Files, NEW n \in 1..MaxSubmits[t], media'[<<t, f, n>>].status = "READY"
                   PROVE  n <= e.submits /\ n # e.submits
      BY DEF Fresh
    <3>2. n <= k.submits BY <1>5, <3>1 DEF Fresh
    <3> QED BY <1>7, <2>2, <2>4, <3>2
  <2>8. Aimed(t, e)' BY <2>2 DEF Aimed, Late
  <2>9. Backed(t, e)' BY <1>5, <2>2 DEF Backed, Detailed, Uploading, Late
  <2>10. Alone(t, e)' BY <2>2 DEF Alone
  <2>11. TabOK(t, e)' BY <2>5, <2>6, <2>7, <2>8, <2>9, <2>10 DEF TabOK
  <2> QED BY <1>2, <1>3, <2>1, <2>2, <2>11, QuietTurn
<1>11. ASSUME NEW c \in Chain, Choose(t, c) PROVE Turn(t)
  <2>. DEFINE e == [k EXCEPT !.chain = c]
  <2>1. tab' = [tab EXCEPT ![t] = e] /\ k.step = "form" BY <1>1, <1>2, <1>11 DEF Choose
  <2>2. /\ e \in Tab /\ e.step = "form" /\ e.todo = k.todo /\ e.submits = k.submits
        /\ e.request = k.request /\ e.item = k.item
    BY <2>1 DEF Tab
  <2>3. k.todo = {} BY <1>6, <2>1 DEF Shape, Uploading, Late
  <2>. HIDE DEF e
  <2>4. TabOK(t, e)' BY <1>5, <2>2, <2>3, IdleForm DEF Outside, Backed
  <2> QED BY <1>2, <1>3, <2>1, <2>2, <2>4, QuietTurn
<1>12. ASSUME NEW f \in Files, AddFile(t, f) PROVE Turn(t)
  <2>. DEFINE e == [k EXCEPT !.item[f] = "pending"]
  <2>1. tab' = [tab EXCEPT ![t] = e] /\ k.step = "form" BY <1>1, <1>2, <1>12 DEF AddFile
  <2>2. e = [k EXCEPT !.item = [k.item EXCEPT ![f] = "pending"]] OBVIOUS
  <2>3. [k.item EXCEPT ![f] = "pending"] \in [Files -> Item] BY <1>7 DEF Item
  <2>4. /\ e \in Tab /\ e.step = "form" /\ e.todo = k.todo /\ e.submits = k.submits
        /\ e.request = k.request /\ e.item = [k.item EXCEPT ![f] = "pending"]
    BY <2>1, <2>2, <2>3 DEF Tab
  <2>5. \A g \in Files : e.item[g] = "ready" => k.item[g] = "ready" BY <1>7, <2>4
  <2>6. k.todo = {} BY <1>6, <2>1 DEF Shape, Uploading, Late
  <2>. HIDE DEF e
  <2>7. TabOK(t, e)' BY <1>5, <2>4, <2>5, <2>6, IdleForm DEF Outside, Backed
  <2> QED BY <1>2, <1>3, <2>1, <2>4, <2>7, QuietTurn
<1> QED BY <1>8, <1>9, <1>10, <1>11, <1>12 DEF UserStep
\* A set of requests has a newest and an oldest one.
LEMMA Newest ==
    ASSUME NEW S \in SUBSET Requests, S # {}
    PROVE  \E r \in S : \A s \in S : s <= r
<1>. DEFINE R == OpToRel(<, Nat)
            T == {MaxRequests - s : s \in S}
<1>1. MaxRequests \in Nat BY Numbers
<1>2. \A s \in S : s \in Nat /\ MaxRequests - s \in Nat BY <1>1 DEF Requests
<1>3. T # {} /\ T \subseteq Nat BY <1>2
<1>4. PICK m \in T : \A n \in T : <<n, m>> \notin R BY <1>3, NatLessThanWellFounded, WFMin
<1>5. PICK r \in S : m = MaxRequests - r BY <1>4
<1>6. ASSUME NEW s \in S PROVE s <= r
  <2>1. MaxRequests - s \in T /\ MaxRequests - s \in Nat /\ m \in Nat BY <1>2, <1>3, <1>4
  <2>2. ~(MaxRequests - s < m) BY <1>4, <2>1 DEF OpToRel
  <2> QED BY <1>1, <1>2, <1>5, <2>1, <2>2
<1> QED BY <1>6

LEMMA Oldest ==
    ASSUME NEW S \in SUBSET Requests, S # {}
    PROVE  \E r \in S : \A s \in S : r <= s
<1>. DEFINE R == OpToRel(<, Nat)
<1>1. S \subseteq Nat BY Numbers DEF Requests
<1>2. PICK m \in S : \A n \in S : <<n, m>> \notin R BY <1>1, NatLessThanWellFounded, WFMin
<1>3. ASSUME NEW s \in S PROVE m <= s
  <2>1. s \in Nat /\ m \in Nat BY <1>1
  <2>2. ~(s < m) BY <1>2, <2>1 DEF OpToRel
  <2> QED BY <2>1, <2>2
<1> QED BY <1>3

LEMMA LookUpTurns ==
    ASSUME IInv, NEW t \in Tabs, LookUpDraft(t)
    PROVE  Turn(t)
<1>1. PICK k \in Tab : k = tab[t] /\ TabOK(t, k) BY FormOf
<1>2. TypeOK /\ tab \in [Tabs -> Tab] BY FormOf
<1>3. UNCHANGED <<store, request, cancel, writers, faults>> /\ faults' \in Nat
  BY <1>2 DEF LookUpDraft, TypeOK
<1>4. TabOK(t, k)' BY <1>1, <1>3, FormStays
<1>5. Shape(t, k)' /\ Shown(t, k)' /\ Fresh(t, k)' /\ Backed(t, k)' BY <1>4 DEF TabOK
<1>6. k.step = "lookup" /\ k.todo = {} /\ k.item = [f \in Files |-> "none"]
  BY <1>1, LookUpDraft(t) DEF LookUpDraft, TabOK, Shape, Outside, Uploading, Late
<1>7. CASE OpenDrafts = {}
  <2>. DEFINE e == [k EXCEPT !.step = "create"]
  <2>1. tab' = [tab EXCEPT ![t] = e] BY <1>1, <1>2, <1>7 DEF LookUpDraft
  <2>2. /\ e \in Tab /\ e.step = "create" /\ e.todo = k.todo /\ e.submits = k.submits
        /\ e.request = k.request /\ e.item = k.item
    BY DEF Tab, Step
  <2>. HIDE DEF e
  <2>3. TabOK(t, e)' BY <1>5, <1>6, <2>2, IdleForm DEF Outside, Backed
  <2> QED BY <1>2, <1>3, <2>1, <2>2, <2>3, QuietTurn
<1>8. CASE OpenDrafts # {}
  <2>1. PICK r : r = CHOOSE q \in OpenDrafts : \A s \in OpenDrafts : s <= q OBVIOUS
  <2>2. OpenDrafts \subseteq Requests BY DEF OpenDrafts, Page
  <2>3. r \in OpenDrafts BY <1>8, <2>1, <2>2, Newest
  <2>4. r \in 0..MaxRequests /\ r \in Requests /\ request[r].status = "DRAFT"
    BY <2>2, <2>3, Numbers DEF OpenDrafts, Drafts, Requests
  <2>. DEFINE e == [k EXCEPT !.step = "form", !.request = r]
  <2>5. tab' = [tab EXCEPT ![t] = e] BY <1>1, <1>2, <1>8, <2>1 DEF LookUpDraft
  <2>6. /\ e \in Tab /\ e.step = "form" /\ e.todo = k.todo /\ e.submits = k.submits
        /\ e.request = r /\ e.item = k.item
    BY <2>4 DEF Tab, Step
  <2>. HIDE DEF e
  <2>7. request'[e.request].status # "NONE" BY <1>3, <2>4, <2>6
  <2>8. TabOK(t, e)' BY <1>5, <1>6, <2>6, <2>7, IdleForm DEF Outside
  <2> QED BY <1>2, <1>3, <2>5, <2>6, <2>8, QuietTurn
<1> QED BY <1>7, <1>8

LEMMA PatchLoadTurns ==
    ASSUME IInv, NEW t \in Tabs, PatchLoad(t)
    PROVE  Turn(t)
<1>1. PICK k \in Tab : k = tab[t] /\ TabOK(t, k) BY FormOf
<1>2. TypeOK /\ tab \in [Tabs -> Tab] BY FormOf
<1>3. UNCHANGED <<store, request, cancel, writers, faults>> /\ faults' \in Nat
  BY <1>2 DEF PatchLoad, TypeOK
<1>4. TabOK(t, k)' BY <1>1, <1>3, FormStays
<1>5. Shape(t, k)' /\ Shown(t, k)' /\ Fresh(t, k)' /\ Backed(t, k)' BY <1>4 DEF TabOK
<1>6. k.step = "patchLoad" /\ k.todo = {} /\ k.request # 0 /\ k.submits > 0
  BY <1>1, PatchLoad(t) DEF PatchLoad, TabOK, Shape, Outside, Uploading, Late, Patching
<1>7. CASE Editable(k.request) /\ ValidChain(k.chain)
  <2>1. k.request \in Requests BY <1>6, FormFields, Numbers DEF Requests
  <2>2. PICK c \in Chain : c = request[k.request].chain BY <1>2, <2>1 DEF TypeOK, Request
  <2>. DEFINE e == [k EXCEPT !.step = "patchSave", !.loaded = c]
  <2>3. tab' = [tab EXCEPT ![t] = e] BY <1>1, <1>2, <1>7, <2>2, PatchLoad(t) DEF PatchLoad
  <2>4. /\ e \in Tab /\ e.step = "patchSave" /\ e.todo = k.todo /\ e.submits = k.submits
        /\ e.request = k.request /\ e.item = k.item /\ e.chain = k.chain /\ e.loaded = c
    BY DEF Tab, Step
  <2>. HIDE DEF e
  <2>5. request'[k.request].status = "DRAFT" /\ request'[k.request].chain = c
    BY <1>3, <1>7, <2>2 DEF Editable
  <2>6. Shape(t, e)' BY <1>5, <1>6, <2>4 DEF Shape, Outside, Uploading, Late, Detailed, Patching
  <2>7. Shown(t, e)' BY <1>5, <2>4 DEF Shown
  <2>8. Fresh(t, e)' BY <1>5, <1>6, <2>4 DEF Fresh, Patching
  <2>9. Aimed(t, e)' BY <2>4 DEF Aimed, Late
  <2>10. Backed(t, e)' BY <1>5, <2>4, <2>5 DEF Backed, Detailed, Uploading, Late
  <2>11. Alone(t, e)' BY <1>7, <2>4, <2>5 DEF Alone, ValidChain
  <2>12. TabOK(t, e)' BY <2>6, <2>7, <2>8, <2>9, <2>10, <2>11 DEF TabOK
  <2> QED BY <1>2, <1>3, <2>3, <2>4, <2>12, QuietTurn
<1>8. CASE ~(Editable(k.request) /\ ValidChain(k.chain))
  <2>. DEFINE e == [k EXCEPT !.step = "form"]
  <2>1. tab' = [tab EXCEPT ![t] = e] BY <1>1, <1>2, <1>8, PatchLoad(t) DEF PatchLoad
  <2>2. /\ e \in Tab /\ e.step = "form" /\ e.todo = k.todo /\ e.submits = k.submits
        /\ e.request = k.request /\ e.item = k.item
    BY DEF Tab, Step
  <2>. HIDE DEF e
  <2>3. TabOK(t, e)' BY <1>5, <1>6, <2>2, IdleForm DEF Outside, Backed
  <2> QED BY <1>2, <1>3, <2>1, <2>2, <2>3, QuietTurn
<1> QED BY <1>7, <1>8

LEMMA SubmitLoadTurns ==
    ASSUME IInv, NEW t \in Tabs, SubmitLoad(t)
    PROVE  Turn(t)
<1>1. PICK k \in Tab : k = tab[t] /\ TabOK(t, k) BY FormOf
<1>2. TypeOK /\ tab \in [Tabs -> Tab] BY FormOf
<1>3. UNCHANGED <<store, request, cancel, writers, faults>> /\ faults' \in Nat
  BY <1>2 DEF SubmitLoad, TypeOK
<1>4. TabOK(t, k)' BY <1>1, <1>3, FormStays
<1>5. Shape(t, k)' /\ Shown(t, k)' /\ Fresh(t, k)' /\ Backed(t, k)' BY <1>4 DEF TabOK
<1>6. k.step = "submitLoad" /\ k.todo = {} /\ k.request # 0 /\ k.submits > 0
  BY <1>1, SubmitLoad(t) DEF SubmitLoad, TabOK, Shape, Outside, Uploading, Late, Detailed
<1>7. CASE tab' = [tab EXCEPT ![t].step = "submitSave"]
  <2>. DEFINE e == [k EXCEPT !.step = "submitSave"]
  <2>1. tab' = [tab EXCEPT ![t] = e] BY <1>1, <1>2, <1>7
  <2>2. /\ e \in Tab /\ e.step = "submitSave" /\ e.todo = k.todo /\ e.submits = k.submits
        /\ e.request = k.request /\ e.item = k.item
    BY DEF Tab, Step
  <2>. HIDE DEF e
  <2>3. Shape(t, e)' BY <1>5, <1>6, <2>2 DEF Shape, Outside, Uploading, Late, Detailed, Patching
  <2>4. Shown(t, e)' BY <1>5, <2>2 DEF Shown
  <2>5. Fresh(t, e)' BY <1>5, <2>2 DEF Fresh, Patching
  <2>6. Aimed(t, e)' BY <2>2 DEF Aimed, Late
  <2>7. Backed(t, e)' BY <1>5, <1>6, <2>2 DEF Backed, Detailed
  <2>8. Alone(t, e)' BY <2>2 DEF Alone
  <2>9. TabOK(t, e)' BY <2>3, <2>4, <2>5, <2>6, <2>7, <2>8 DEF TabOK
  <2> QED BY <1>2, <1>3, <2>1, <2>2, <2>9, QuietTurn
<1>8. CASE tab' = [tab EXCEPT ![t].step = "form"]
  <2>. DEFINE e == [k EXCEPT !.step = "form"]
  <2>1. tab' = [tab EXCEPT ![t] = e] BY <1>1, <1>2, <1>8
  <2>2. /\ e \in Tab /\ e.step = "form" /\ e.todo = k.todo /\ e.submits = k.submits
        /\ e.request = k.request /\ e.item = k.item
    BY DEF Tab, Step
  <2>. HIDE DEF e
  <2>3. TabOK(t, e)' BY <1>5, <1>6, <2>2, IdleForm DEF Outside, Backed
  <2> QED BY <1>2, <1>3, <2>1, <2>2, <2>3, QuietTurn
<1> QED BY <1>7, <1>8, SubmitLoad(t) DEF SubmitLoad, Go
-----------------------------------------------------------------------------
(***************************************************************************)
(* The steps of an upload.                                                 *)
(***************************************************************************)
LEMMA UploadForm ==
    ASSUME IInv, NEW t \in Tabs, tab[t].step \in Uploading
    PROVE  \E k \in Tab : /\ k = tab[t] /\ TabOK(t, k) /\ k.todo # {} /\ Up(t, k) \in Uploads
                          /\ Upload(t) = Up(t, k) /\ \A s : Done(t, s) = Ended(k, s)
<1>1. PICK k \in Tab : k = tab[t] /\ TabOK(t, k) BY FormOf
<1>2. k.todo # {} /\ Up(t, k) \in Uploads BY <1>1, UploadIs DEF TabOK, Shape
<1>3. Upload(t) = Up(t, k) BY <1>1 DEF Upload, Current, Up
<1>4. \A s : Done(t, s) = Ended(k, s) BY <1>1, DoneIsEnded
<1> QED BY <1>1, <1>2, <1>3, <1>4

\* However an upload ends, the form goes on.
LEMMA EndOfUpload ==
    ASSUME NEW t \in Tabs, NEW k \in Tab, NEW s \in {"error", "rejected"}, k.step \in Uploading, TabOK(t, k)'
    PROVE  Ended(k, s) \in Tab /\ TabOK(t, Ended(k, s))'
<1>1. Shape(t, k)' /\ Shown(t, k)' /\ Fresh(t, k)' /\ Backed(t, k)' BY DEF TabOK
<1>2. FreshButCurrent(t, k)' BY <1>1, FreshForgivesThen
<1> QED BY <1>1, <1>2, EndKeeps

LEMMA MediaCheckTurns ==
    ASSUME IInv, NEW t \in Tabs, MediaCheck(t)
    PROVE  Turn(t)
<1>1. PICK k \in Tab : /\ k = tab[t] /\ TabOK(t, k) /\ k.todo # {} /\ Up(t, k) \in Uploads
                       /\ Upload(t) = Up(t, k) /\ \A s : Done(t, s) = Ended(k, s)
  BY UploadForm, MediaCheck(t) DEF MediaCheck, Uploading
<1>2. TypeOK /\ tab \in [Tabs -> Tab] BY FormOf
<1>3. UNCHANGED <<store, request, cancel, writers, faults>> /\ faults' \in Nat
  BY <1>2, MediaCheck(t) DEF MediaCheck, TypeOK
<1>4. TabOK(t, k)' /\ k.step = "mediaCheck" BY <1>1, <1>3, FormStays, MediaCheck(t) DEF MediaCheck
<1>5. Shape(t, k)' /\ Shown(t, k)' /\ Fresh(t, k)' /\ Backed(t, k)' BY <1>4 DEF TabOK
<1>6. PICK c \in Files : c = Cur(k) /\ c \in k.todo BY <1>1, FormFields DEF Cur
<1>7. CASE Editable(k.request) /\ Allowed(Upload(t))
  <2>. DEFINE e == [k EXCEPT !.step = "mediaCreate", !.item[c] = "uploading"]
  <2>1. tab' = [tab EXCEPT ![t] = e]
    BY <1>1, <1>2, <1>6, <1>7, MediaCheck(t) DEF MediaCheck, Current, Cur
  <2>2. e = [k EXCEPT !.step = "mediaCreate", !.item = [k.item EXCEPT ![c] = "uploading"]] OBVIOUS
  <2>3. k.item \in [Files -> Item] /\ [k.item EXCEPT ![c] = "uploading"] \in [Files -> Item]
    BY FormFields DEF Item
  <2>4. /\ e \in Tab /\ e.step = "mediaCreate" /\ e.todo = k.todo /\ e.submits = k.submits
        /\ e.request = k.request /\ e.item = [k.item EXCEPT ![c] = "uploading"]
    BY <2>2, <2>3 DEF Tab, Step
  <2>. HIDE DEF e
  <2>5. \A f \in Files : e.item[f] = IF f = c THEN "uploading" ELSE k.item[f] BY <2>3, <2>4
  <2>6. k.todo \subseteq Files BY FormFields
  <2>7. Shape(t, e)' BY <1>4, <1>5, <2>4, <2>5, <2>6 DEF Shape, Outside, Uploading, Late, Detailed, Patching
  <2>8. Shown(t, e)' BY <1>5, <2>4, <2>5 DEF Shown
  <2>9. Fresh(t, e)' BY <1>5, <2>4 DEF Fresh, Patching
  <2>10. Aimed(t, e)' BY <2>4 DEF Aimed, Late
  <2>11. Backed(t, e)' BY <1>4, <1>5, <2>4 DEF Backed, Detailed, Uploading
  <2>12. Alone(t, e)' BY <2>4 DEF Alone
  <2>13. TabOK(t, e)' BY <2>7, <2>8, <2>9, <2>10, <2>11, <2>12 DEF TabOK
  <2> QED BY <1>2, <1>3, <2>1, <2>4, <2>13, QuietTurn
<1>8. CASE ~(Editable(k.request) /\ Allowed(Upload(t)))
  <2>1. tab' = [tab EXCEPT ![t] = Ended(k, "error")] BY <1>1, <1>2, <1>8, MediaCheck(t) DEF MediaCheck
  <2>2. Ended(k, "error") \in Tab /\ TabOK(t, Ended(k, "error"))' BY <1>4, EndOfUpload DEF Uploading
  <2> QED BY <1>2, <1>3, <2>1, <2>2, QuietTurn
<1> QED BY <1>7, <1>8

\* A call that writes the store, and its answer.
LEMMA WriteTurns ==
    ASSUME IInv, NEW t \in Tabs, NEW s \in Late, NEW k \in Tab, k = tab[t],
           k.step \in {"mediaCreate"} \cup Late,
           Answer(t, [k EXCEPT !.step = s], Ended(k, "error")),
           UNCHANGED <<request, cancel, writers>>, Own(t), TabOK(t, k)', s # "settle",
           media'[Up(t, k)].target = k.request
    PROVE  Turn(t)
<1>1. [k EXCEPT !.step = s] \in Tab /\ TabOK(t, [k EXCEPT !.step = s])' BY AdvanceKeeps
<1>2. Ended(k, "error") \in Tab /\ TabOK(t, Ended(k, "error"))' BY EndOfUpload DEF Uploading
<1>3. TypeOK BY FormOf
<1> QED BY <1>1, <1>2, <1>3, AnswerTurn

LEMMA MediaCreateTurns ==
    ASSUME IInv, NEW t \in Tabs, MediaCreate(t)
    PROVE  Turn(t)
<1>1. PICK k \in Tab : /\ k = tab[t] /\ TabOK(t, k) /\ k.todo # {} /\ Up(t, k) \in Uploads
                       /\ Upload(t) = Up(t, k) /\ \A s : Done(t, s) = Ended(k, s)
  BY UploadForm, MediaCreate(t) DEF MediaCreate, Uploading
<1>2. TypeOK /\ media \in [Uploads -> MediaDoc] /\ bucket \subseteq Uploads BY FormOf DEF TypeOK, MediaTypeOK
<1>3. k.step = "mediaCreate" /\ k.step \in Uploading /\ k.step \notin Late
  BY <1>1, MediaCreate(t) DEF MediaCreate, Uploading, Late
<1>4. k.request \in Targets /\ k.request # 0
  <2>1. k.request # 0 BY <1>1, <1>3 DEF TabOK, Shape, Detailed
  <2> QED BY <2>1, FormFields, RequestsAssumption DEF RequestsAssumption
<1>5. media' = [media EXCEPT ![Up(t, k)] = [status |-> "PENDING_UPLOAD", target |-> k.request]] /\ bucket' = bucket
  BY <1>1, MediaCreate(t) DEF MediaCreate, CreateUploadSession
<1>6. [status |-> "PENDING_UPLOAD", target |-> k.request] \in MediaDoc BY <1>4 DEF MediaDoc
<1>7. /\ media' \in [Uploads -> MediaDoc] /\ bucket' \subseteq Uploads
      /\ \A m \in Uploads \ {Up(t, k)} : media'[m] = media[m] /\ (m \in bucket' <=> m \in bucket)
      /\ media'[Up(t, k)].status # "READY" /\ media'[Up(t, k)].target = k.request
  BY <1>1, <1>2, <1>5, <1>6
<1>8. UNCHANGED <<request, cancel, writers>> BY MediaCreate(t) DEF MediaCreate
<1>9. k.step # "settle" BY <1>3
<1>10. Own(t) /\ TabOK(t, k)' BY <1>1, <1>2, <1>3, <1>7, <1>8, <1>9, WriteKeeps
<1>11. Answer(t, [k EXCEPT !.step = "put"], Ended(k, "error")) BY <1>1, MediaCreate(t) DEF MediaCreate
<1> QED BY <1>1, <1>3, <1>7, <1>8, <1>10, <1>11, WriteTurns DEF Late

LEMMA UploadFileTurns ==
    ASSUME IInv, NEW t \in Tabs, UploadFile(t)
    PROVE  Turn(t)
<1>1. PICK k \in Tab : /\ k = tab[t] /\ TabOK(t, k) /\ k.todo # {} /\ Up(t, k) \in Uploads
                       /\ Upload(t) = Up(t, k) /\ \A s : Done(t, s) = Ended(k, s)
  BY UploadForm, UploadFile(t) DEF UploadFile, Uploading, Late
<1>2. TypeOK /\ media \in [Uploads -> MediaDoc] /\ bucket \subseteq Uploads BY FormOf DEF TypeOK, MediaTypeOK
<1>3. k.step = "put" /\ k.step \in Uploading /\ k.step \in Late
  BY <1>1, UploadFile(t) DEF UploadFile, Uploading, Late
<1>4. bucket' = bucket \cup {Up(t, k)} /\ media' = media
  BY <1>1, UploadFile(t) DEF UploadFile, PutObject
<1>5. media[Up(t, k)].target = k.request /\ media[Up(t, k)].status # "READY"
  BY <1>1, <1>3, UpIsNotReady DEF TabOK, Aimed
<1>6. /\ media' \in [Uploads -> MediaDoc] /\ bucket' \subseteq Uploads
      /\ \A m \in Uploads \ {Up(t, k)} : media'[m] = media[m] /\ (m \in bucket' <=> m \in bucket)
      /\ media'[Up(t, k)].status # "READY" /\ media'[Up(t, k)].target = k.request
  BY <1>1, <1>2, <1>4, <1>5
<1>7. UNCHANGED <<request, cancel, writers>> BY UploadFile(t) DEF UploadFile
<1>8. Own(t) /\ TabOK(t, k)' BY <1>1, <1>2, <1>3, <1>5, <1>6, <1>7, WriteKeeps
<1>9. Answer(t, [k EXCEPT !.step = "finalizeLoad"], Ended(k, "error")) BY <1>1, UploadFile(t) DEF UploadFile
<1> QED BY <1>1, <1>3, <1>6, <1>7, <1>8, <1>9, WriteTurns DEF Late

LEMMA CheckTurns ==
    ASSUME IInv, NEW t \in Tabs, FinalizeLoad(t) \/ Scan(t)
    PROVE  Turn(t)
<1>1. PICK k \in Tab : /\ k = tab[t] /\ TabOK(t, k) /\ k.todo # {} /\ Up(t, k) \in Uploads
                       /\ Upload(t) = Up(t, k) /\ \A s : Done(t, s) = Ended(k, s)
  BY UploadForm, FinalizeLoad(t) \/ Scan(t) DEF FinalizeLoad, Scan, Uploading, Late
<1>2. TypeOK /\ tab \in [Tabs -> Tab] BY FormOf
<1>3. UNCHANGED <<store, request, cancel, writers, faults>> /\ faults' \in Nat /\ k.step \in Late
  BY <1>1, <1>2, FinalizeLoad(t) \/ Scan(t) DEF FinalizeLoad, Scan, TypeOK, Late
<1>4. TabOK(t, k)' /\ media'[Up(t, k)].target = k.request /\ bucket' = bucket
  BY <1>1, <1>3, FormStays DEF TabOK, Aimed, store
<1>5. CASE tab' = [tab EXCEPT ![t] = Ended(k, "error")]
  <2>1. Ended(k, "error") \in Tab /\ TabOK(t, Ended(k, "error"))' BY <1>3, <1>4, EndOfUpload DEF Uploading
  <2> QED BY <1>2, <1>3, <1>5, <2>1, QuietTurn
<1>6. ASSUME NEW s \in Late, tab' = [tab EXCEPT ![t] = [k EXCEPT !.step = s]],
             s = "settle" => Up(t, k) \in bucket \ Disguised
      PROVE  Turn(t)
  <2>1. [k EXCEPT !.step = s] \in Tab /\ TabOK(t, [k EXCEPT !.step = s])' BY <1>3, <1>4, <1>6, AdvanceKeeps
  <2> QED BY <1>2, <1>3, <1>6, <2>1, QuietTurn
<1>7. CASE FinalizeLoad(t)
  <2>1. \/ tab' = [tab EXCEPT ![t] = [k EXCEPT !.step = "scan"]]
        \/ tab' = [tab EXCEPT ![t] = Ended(k, "error")]
    BY <1>1, <1>2, <1>7 DEF FinalizeLoad
  <2> QED BY <1>5, <1>6, <2>1 DEF Late
<1>8. CASE Scan(t)
  <2>1. CASE Verdict(Up(t, k)) = "READY"
    <3>1. tab' = [tab EXCEPT ![t] = [k EXCEPT !.step = "settle"]] BY <1>1, <1>2, <1>8, <2>1 DEF Scan
    <3>2. Up(t, k) \in bucket \ Disguised BY <2>1 DEF Verdict
    <3> QED BY <1>6, <3>1, <3>2 DEF Late
  <2>2. CASE Verdict(Up(t, k)) = "REJECTED"
    <3>1. tab' = [tab EXCEPT ![t] = [k EXCEPT !.step = "reject"]] BY <1>1, <1>2, <1>8, <2>2 DEF Scan
    <3> QED BY <1>6, <3>1 DEF Late
  <2>3. CASE Verdict(Up(t, k)) = "missing"
    <3>1. tab' = [tab EXCEPT ![t] = Ended(k, "error")] BY <1>1, <1>2, <1>8, <2>3 DEF Scan
    <3> QED BY <1>5, <3>1
  <2> QED BY <2>1, <2>2, <2>3 DEF Verdict
<1> QED BY <1>7, <1>8

LEMMA FinalizeSaveTurns ==
    ASSUME IInv, NEW t \in Tabs, FinalizeSave(t)
    PROVE  Turn(t)
<1>1. PICK k \in Tab : /\ k = tab[t] /\ TabOK(t, k) /\ k.todo # {} /\ Up(t, k) \in Uploads
                       /\ Upload(t) = Up(t, k) /\ \A s : Done(t, s) = Ended(k, s)
  BY UploadForm, FinalizeSave(t) DEF FinalizeSave, Uploading, Late
<1>2. TypeOK /\ media \in [Uploads -> MediaDoc] /\ bucket \subseteq Uploads BY FormOf DEF TypeOK, MediaTypeOK
<1>3. k.step = "settle" /\ k.step \in Uploading /\ k.step \in Late
  BY <1>1, FinalizeSave(t) DEF FinalizeSave, Uploading, Late
<1>4. PICK m \in Uploads : m = Up(t, k) BY <1>1
<1>5. media' = [media EXCEPT ![m].status = "READY"] /\ bucket' = bucket
  BY <1>1, <1>4, FinalizeSave(t) DEF FinalizeSave, Settle
<1>6. m \in bucket \ Disguised /\ media[m].target = k.request BY <1>1, <1>3, <1>4 DEF TabOK, Aimed
<1>7. /\ media' \in [Uploads -> MediaDoc]
      /\ \A o \in Uploads \ {m} : media'[o] = media[o]
      /\ media'[m].status = "READY" /\ media'[m].target = k.request
  BY <1>2, <1>5, <1>6 DEF MediaDoc
<1>8. UNCHANGED <<request, cancel, writers>> BY FinalizeSave(t) DEF FinalizeSave
<1>9. m[1] = t /\ Up(t, k)' = m BY <1>3, <1>4, <1>1, UploadIs DEF Up, TabOK
<1>10. Own(t) BY <1>2, <1>5, <1>7, <1>9 DEF Own
<1>11. Attached(m, k.request)' BY <1>4, <1>5, <1>6, <1>7 DEF Attached, ReadyFor
<1>12. Shape(t, k)' BY <1>1 DEF TabOK, Shape
<1>13. Shown(t, k)'
  <2>1. ASSUME NEW o \in Uploads, Attached(o, k.request) PROVE Attached(o, k.request)'
    <3>1. CASE o = m BY <1>11, <3>1
    <3>2. CASE o # m BY <1>5, <1>7, <2>1, <3>2 DEF Attached, ReadyFor
    <3> QED BY <3>1, <3>2
  <2> QED BY <1>1, <2>1, UploadOf DEF TabOK, Shown
<1>14. FreshButCurrent(t, k)'
  <2>1. SUFFICES ASSUME NEW f \in Files, NEW n \in 1..MaxSubmits[t], media'[<<t, f, n>>].status = "READY"
                 PROVE  n <= k.submits /\ (n = k.submits => f \notin k.todo \ {Cur(k)})
    BY DEF FreshButCurrent, Cur
  <2>2. CASE <<t, f, n>> = m
    <3>1. n = k.submits /\ f = Cur(k) BY <1>4, <2>2 DEF Up, Cur
    <3> QED BY <3>1, FormFields
  <2>3. CASE <<t, f, n>> # m
    <3>1. media[<<t, f, n>>].status = "READY" BY <1>7, <2>1, <2>3, UploadOf
    <3> QED BY <1>1, <3>1 DEF TabOK, Fresh
  <2> QED BY <2>2, <2>3
<1>15. Backed(t, k)' BY <1>1, <1>8 DEF TabOK, Backed
<1>16. Ended(k, "ready") \in Tab /\ TabOK(t, Ended(k, "ready"))'
  BY <1>3, <1>9, <1>11, <1>12, <1>13, <1>14, <1>15, EndKeeps
<1>17. Ended(k, "error") \in Tab /\ TabOK(t, Ended(k, "error"))'
  BY <1>3, <1>12, <1>13, <1>14, <1>15, EndKeeps
<1>18. Answer(t, Ended(k, "ready"), Ended(k, "error")) BY <1>1, FinalizeSave(t) DEF FinalizeSave
<1> QED BY <1>2, <1>8, <1>10, <1>16, <1>17, <1>18, AnswerTurn

LEMMA RejectSaveTurns ==
    ASSUME IInv, NEW t \in Tabs, RejectSave(t)
    PROVE  Turn(t)
<1>1. PICK k \in Tab : /\ k = tab[t] /\ TabOK(t, k) /\ k.todo # {} /\ Up(t, k) \in Uploads
                       /\ Upload(t) = Up(t, k) /\ \A s : Done(t, s) = Ended(k, s)
  BY UploadForm, RejectSave(t) DEF RejectSave, Uploading, Late
<1>2. TypeOK /\ media \in [Uploads -> MediaDoc] /\ bucket \subseteq Uploads /\ tab \in [Tabs -> Tab]
  BY FormOf DEF TypeOK, MediaTypeOK
<1>3. k.step = "reject" /\ k.step \in Uploading /\ k.step \in Late
  BY <1>1, RejectSave(t) DEF RejectSave, Uploading, Late
<1>4. PICK m \in Uploads : m = Up(t, k) BY <1>1
<1>5. media' = [media EXCEPT ![m].status = "REJECTED"] /\ bucket' = bucket
  BY <1>1, <1>4, RejectSave(t) DEF RejectSave, Settle
<1>6. media[m].target = k.request BY <1>1, <1>3, <1>4 DEF TabOK, Aimed
<1>7. /\ media' \in [Uploads -> MediaDoc]
      /\ \A o \in Uploads \ {m} : media'[o] = media[o]
      /\ media'[m].status = "REJECTED" /\ media'[m].target = k.request
  BY <1>2, <1>5, <1>6 DEF MediaDoc
<1>8. UNCHANGED <<request, cancel, writers, faults>> /\ faults' \in Nat
  BY <1>2, RejectSave(t) DEF RejectSave, TypeOK
<1>9. Own(t) /\ TabOK(t, k)' BY <1>1, <1>2, <1>3, <1>4, <1>5, <1>6, <1>7, <1>8, WriteKeeps
<1>10. [k EXCEPT !.step = "delete"] \in Tab /\ TabOK(t, [k EXCEPT !.step = "delete"])'
  BY <1>3, <1>4, <1>7, <1>9, AdvanceKeeps DEF Late
<1>11. tab' = [tab EXCEPT ![t] = [k EXCEPT !.step = "delete"]] BY <1>1, <1>2, RejectSave(t) DEF RejectSave, Go
<1> QED BY <1>8, <1>9, <1>10, <1>11 DEF Turn

LEMMA RejectDeleteTurns ==
    ASSUME IInv, NEW t \in Tabs, RejectDelete(t)
    PROVE  Turn(t)
<1>1. PICK k \in Tab : /\ k = tab[t] /\ TabOK(t, k) /\ k.todo # {} /\ Up(t, k) \in Uploads
                       /\ Upload(t) = Up(t, k) /\ \A s : Done(t, s) = Ended(k, s)
  BY UploadForm, RejectDelete(t) DEF RejectDelete, Uploading, Late
<1>2. TypeOK /\ media \in [Uploads -> MediaDoc] /\ bucket \subseteq Uploads BY FormOf DEF TypeOK, MediaTypeOK
<1>3. k.step = "delete" /\ k.step \in Uploading /\ k.step \in Late
  BY <1>1, RejectDelete(t) DEF RejectDelete, Uploading, Late
<1>4. bucket' \in {bucket, bucket \ {Up(t, k)}} /\ media' = media
  BY <1>1, RejectDelete(t) DEF RejectDelete, DeleteObject
<1>5. media[Up(t, k)].status # "READY" BY <1>1, <1>3, UpIsNotReady
<1>6. UNCHANGED <<request, cancel, writers>> BY RejectDelete(t) DEF RejectDelete
<1>7. k.step # "settle" BY <1>3
<1>8. bucket' \subseteq Uploads /\ \A m \in Uploads \ {Up(t, k)} : m \in bucket' <=> m \in bucket BY <1>2, <1>4
<1>9. Own(t) /\ TabOK(t, k)' BY <1>1, <1>2, <1>3, <1>4, <1>5, <1>6, <1>7, <1>8, WriteKeeps
<1>10. Ended(k, "rejected") \in Tab /\ TabOK(t, Ended(k, "rejected"))' BY <1>3, <1>9, EndOfUpload
<1>11. Ended(k, "error") \in Tab /\ TabOK(t, Ended(k, "error"))' BY <1>3, <1>9, EndOfUpload
<1>12. Answer(t, Ended(k, "rejected"), Ended(k, "error")) BY <1>1, RejectDelete(t) DEF RejectDelete
<1> QED BY <1>2, <1>6, <1>9, <1>10, <1>11, <1>12, AnswerTurn

LEMMA FailTurns ==
    ASSUME IInv, NEW t \in Tabs, CallFails(t)
    PROVE  Turn(t)
<1>1. PICK k \in Tab : k = tab[t] /\ TabOK(t, k) BY FormOf
<1>2. TypeOK /\ tab \in [Tabs -> Tab] BY FormOf
<1>3. UNCHANGED <<store, request, cancel, writers>> /\ faults' \in Nat
  BY <1>2, CallFails(t) DEF CallFails, TypeOK
<1>4. TabOK(t, k)' /\ k.step \in Step BY <1>1, <1>3, FormStays, FormFields
<1>5. Shape(t, k)' /\ Shown(t, k)' /\ Fresh(t, k)' /\ Backed(t, k)' BY <1>4 DEF TabOK
<1>6. k.step \notin {"closed", "initError", "form", "submitted"} BY <1>1, CallFails(t) DEF CallFails
<1>7. CASE k.step \in {"lookup", "create"}
  <2>. DEFINE e == [k EXCEPT !.step = "initError"]
  <2>1. tab' = [tab EXCEPT ![t] = e] BY <1>1, <1>2, <1>7, CallFails(t) DEF CallFails
  <2>2. /\ e \in Tab /\ e.step = "initError" /\ e.todo = k.todo /\ e.submits = k.submits
        /\ e.request = k.request /\ e.item = k.item
    BY DEF Tab, Step
  <2>. HIDE DEF e
  <2>3. k.todo = {} /\ k.item = [f \in Files |-> "none"] BY <1>5, <1>7 DEF Shape, Uploading, Late, Outside
  <2>4. TabOK(t, e)' BY <1>5, <2>2, <2>3, IdleForm DEF Outside, Backed
  <2> QED BY <1>2, <1>3, <2>1, <2>2, <2>4, QuietTurn
<1>8. CASE k.step \in {"patchLoad", "patchSave", "submitLoad", "submitSave"}
  <2>. DEFINE e == [k EXCEPT !.step = "form", !.loaded = NoChain]
  <2>1. tab' = [tab EXCEPT ![t] = e] BY <1>1, <1>2, <1>8, CallFails(t) DEF CallFails
  <2>2. /\ e \in Tab /\ e.step = "form" /\ e.todo = k.todo /\ e.submits = k.submits
        /\ e.request = k.request /\ e.item = k.item
    BY NoItems DEF Tab, Step
  <2>. HIDE DEF e
  <2>3. k.todo = {} BY <1>5, <1>8 DEF Shape, Uploading, Late
  <2>4. TabOK(t, e)' BY <1>5, <2>2, <2>3, IdleForm DEF Outside, Backed
  <2> QED BY <1>2, <1>3, <2>1, <2>2, <2>4, QuietTurn
<1>9. CASE k.step \in Uploading
  <2>1. Done(t, "error") = Ended(k, "error") BY <1>1, DoneIsEnded
  <2>2. tab' = [tab EXCEPT ![t] = Ended(k, "error")]
    BY <1>1, <1>2, <1>9, <2>1, CallFails(t) DEF CallFails, Uploading, Late
  <2>3. Ended(k, "error") \in Tab /\ TabOK(t, Ended(k, "error"))' BY <1>4, <1>9, EndOfUpload
  <2> QED BY <1>2, <1>3, <2>2, <2>3, QuietTurn
<1> QED BY <1>4, <1>6, <1>7, <1>8, <1>9 DEF Step, Uploading, Late
-----------------------------------------------------------------------------
(***************************************************************************)
(* The steps that write a request.                                         *)
(***************************************************************************)
\* What the form l of tab u knows of its request stays true.
Agrees(u, l) ==
    l.request # 0 =>
        /\ request'[l.request].status # "NONE" /\ writers[l.request] \subseteq writers'[l.request]
        /\ l.step \in Detailed \cup {"patchSave"} /\ request'[l.request].status = "REQUESTED" =>
              request[l.request].status = "REQUESTED" \/ \E v \in writers'[l.request] : v # u
        /\ writers'[l.request] \subseteq {u} => request'[l.request].chain = request[l.request].chain

LEMMA AgreedForm ==
    ASSUME NEW u \in Tabs, NEW l \in Tab, TabOK(u, l), Agrees(u, l), UNCHANGED store
    PROVE  TabOK(u, l)'
<1>1. UNCHANGED <<media, bucket>> BY DEF store
<1>2. \A m, r : Attached(m, r)' <=> Attached(m, r) BY <1>1 DEF Attached, ReadyFor
<1>3. Shape(u, l)' BY DEF TabOK, Shape
<1>4. Shown(u, l)' BY <1>2 DEF TabOK, Shown
<1>5. Fresh(u, l)' BY <1>1 DEF TabOK, Fresh
<1>6. Aimed(u, l)' BY <1>1 DEF TabOK, Aimed, Up
<1>7. l.step \in Detailed \cup {"patchSave"} => l.request # 0 BY DEF TabOK, Shape, Patching
<1>8. Backed(u, l)' BY <1>7 DEF TabOK, Backed, Agrees
<1>9. Alone(u, l)'
  <2>1. SUFFICES ASSUME l.step = "patchSave"
                 PROVE  /\ ValidChain(l.chain)
                        /\ writers'[l.request] \subseteq {u} => request'[l.request].chain = l.loaded
    BY DEF Alone, ValidChain
  <2>2. l.request # 0 BY <1>7, <2>1
  <2>3. ValidChain(l.chain) /\ (writers[l.request] \subseteq {u} => request[l.request].chain = l.loaded)
    BY <2>1 DEF TabOK, Alone
  <2> QED BY <2>2, <2>3 DEF Agrees
<1> QED BY <1>3, <1>4, <1>5, <1>6, <1>8, <1>9 DEF TabOK

\* A save of the tab t: the other tabs agree with it, and it goes on as k.
Saves(t) ==
    /\ UNCHANGED <<store, cancel>> /\ faults' \in Nat
    /\ request' \in [Requests -> Request] /\ writers' \in [Requests -> SUBSET Tabs]
    /\ \A r \in Requests : request[r].status # "NONE" => request'[r].status # "NONE"
    /\ \A u \in Tabs \ {t} : Agrees(u, tab[u])
    /\ \E k \in Tab : tab' = [tab EXCEPT ![t] = k] /\ TabOK(t, k)'

LEMMA SaveKeeps ==
    ASSUME IInv, NEW t \in Tabs, Saves(t), ChainKept', Numbered'
    PROVE  IInv'
<1>1. PICK k \in Tab : tab' = [tab EXCEPT ![t] = k] /\ TabOK(t, k)' BY DEF Saves
<1>2. TypeOK /\ tab \in [Tabs -> Tab] BY FormOf DEF IInv, TypeOK
<1>3. TypeOK' BY <1>1, <1>2 DEF TypeOK, MediaTypeOK, Saves, store
<1>4. ASSUME NEW u \in Tabs PROVE TabOK(u, tab[u])'
  <2>1. CASE u = t
    <3>1. tab'[u] = k BY <1>1, <1>2, <2>1
    <3> QED BY <1>1, <2>1, <3>1
  <2>2. CASE u # t
    <3>1. PICK l \in Tab : l = tab[u] BY <1>2
    <3>2. tab'[u] = l BY <1>1, <1>2, <2>2, <3>1
    <3>3. TabOK(u, l) /\ Agrees(u, l) BY <2>2, <3>1 DEF IInv, Saves
    <3>4. TabOK(u, l)' BY <3>3, AgreedForm DEF Saves
    <3> QED BY <3>2, <3>4
  <2> QED BY <2>1, <2>2
<1>5. cancel' # 0 => request'[cancel'].status # "NONE"
  <2>1. cancel' = cancel /\ cancel \in 0..MaxRequests BY <1>2 DEF Saves, TypeOK
  <2>2. cancel # 0 => cancel \in Requests BY <2>1, Numbers DEF Requests
  <2> QED BY <2>1, <2>2 DEF IInv, Saves
<1> QED BY <1>3, <1>4, <1>5 DEF IInv

\* The id a creation takes is the next one.
LEMMA NextId ==
    ASSUME Numbered, NEW r \in Requests, r = Cardinality({s \in Requests : request[s].status # "NONE"}) + 1
    PROVE  \A s \in Requests : request[s].status # "NONE" <=> s < r
<1>1. PICK n \in 0..MaxRequests : \A s \in Requests : request[s].status # "NONE" <=> s <= n BY DEF Numbered
<1>2. n \in Nat /\ n <= MaxRequests /\ MaxRequests \in Nat BY <1>1, Numbers
<1>3. {s \in Requests : request[s].status # "NONE"} = 1..n BY <1>1, <1>2 DEF Requests
<1>4. Cardinality(1..n) = n
  <2>1. 1 \in Int /\ n \in Int BY <1>2
  <2>2. Cardinality(1..n) = IF 1 > n THEN 0 ELSE n - 1 + 1 BY <2>1, FS_Interval
  <2> QED BY <1>2, <2>2
<1>5. r = n + 1 BY <1>3, <1>4
<1> QED BY <1>1, <1>2, <1>5 DEF Requests

LEMMA CreateSaves ==
    ASSUME IInv, NEW t \in Tabs, Create(t)
    PROVE  Saves(t) /\ ChainKept' /\ Numbered'
<1>1. PICK k \in Tab : k = tab[t] /\ TabOK(t, k) BY FormOf
<1>2. TypeOK /\ tab \in [Tabs -> Tab] /\ request \in [Requests -> Request] /\ writers \in [Requests -> SUBSET Tabs]
  BY FormOf DEF TypeOK
<1>3. PICK r \in Requests : /\ r = Cardinality({s \in Requests : request[s].status # "NONE"}) + 1
                            /\ request' = [request EXCEPT ![r] = NewRequest]
                            /\ Answer(t, [k EXCEPT !.step = "form", !.request = r], [k EXCEPT !.step = "initError"])
  BY <1>1, Create(t) DEF Create
<1>4. UNCHANGED <<store, cancel, writers>> /\ k.step = "create" BY <1>1, Create(t) DEF Create
<1>5. \A s \in Requests : request[s].status # "NONE" <=> s < r BY <1>3, NextId DEF IInv
<1>6. r \in Nat /\ ~(r < r) /\ r \in 0..MaxRequests /\ r # 0 BY Numbers DEF Requests
<1>7. NewRequest \in Request /\ NewRequest.status = "DRAFT" /\ NewRequest.chain = NoChain
  BY NoItems DEF NewRequest, Request
<1>8. /\ request' \in [Requests -> Request] /\ request'[r] = NewRequest
      /\ \A s \in Requests \ {r} : request'[s] = request[s]
  BY <1>2, <1>3, <1>7
<1>9. \A s \in Requests : request[s].status # "NONE" => request'[s] = request[s] BY <1>5, <1>6, <1>8
<1>10. ASSUME NEW u \in Tabs, NEW l \in Tab, TabOK(u, l) PROVE Agrees(u, l) /\ TabOK(u, l)'
  <2>1. l.request # 0 => l.request \in Requests BY FormFields, Numbers DEF Requests
  <2>2. l.request # 0 => request[l.request].status # "NONE" BY <1>10 DEF TabOK, Backed
  <2>3. Agrees(u, l) BY <1>4, <1>9, <2>1, <2>2 DEF Agrees
  <2> QED BY <1>4, <1>10, <2>3, AgreedForm
<1>11. \A u \in Tabs \ {t} : Agrees(u, tab[u]) BY <1>2, <1>10 DEF IInv
<1>12. Shape(t, k)' /\ Shown(t, k)' /\ Fresh(t, k)' /\ Backed(t, k)' BY <1>1, <1>10 DEF TabOK
<1>13. k.todo = {} /\ k.item = [f \in Files |-> "none"]
  BY <1>1, <1>4 DEF TabOK, Shape, Outside, Uploading, Late
<1>. DEFINE e == [k EXCEPT !.step = "form", !.request = r]
            d == [k EXCEPT !.step = "initError"]
<1>14. /\ e \in Tab /\ e.step = "form" /\ e.todo = k.todo /\ e.submits = k.submits
       /\ e.request = r /\ e.item = k.item
  BY <1>6 DEF Tab, Step
<1>15. /\ d \in Tab /\ d.step = "initError" /\ d.todo = k.todo /\ d.submits = k.submits
       /\ d.request = k.request /\ d.item = k.item
  BY DEF Tab, Step
<1>16. faults' \in Nat /\ \E f \in {e, d} : tab' = [tab EXCEPT ![t] = f]
  BY <1>2, <1>3, <1>14, <1>15, Answered
<1>. HIDE DEF e, d
<1>17. TabOK(t, e)' BY <1>7, <1>8, <1>12, <1>13, <1>14, IdleForm DEF Outside
<1>18. TabOK(t, d)' BY <1>12, <1>13, <1>15, IdleForm DEF Outside, Backed
<1>19. Saves(t) BY <1>2, <1>4, <1>8, <1>9, <1>11, <1>14, <1>15, <1>16, <1>17, <1>18 DEF Saves
<1>20. ValidChain(NoChain) BY DEF ValidChain, NoChain
<1>21. ChainKept'
  <2>1. ASSUME NEW s \in Requests, Cardinality(writers'[s]) <= 1 PROVE ValidChain(request'[s].chain)
    <3>1. CASE s = r BY <1>7, <1>8, <1>20, <3>1
    <3>2. CASE s # r BY <1>4, <1>8, <2>1, <3>2 DEF IInv, ChainKept
    <3> QED BY <3>1, <3>2
  <2> QED BY <2>1 DEF ChainKept, ValidChain
<1>22. Numbered'
  <2>1. \A s \in Requests : request'[s].status # "NONE" <=> s <= r
    BY <1>5, <1>6, <1>7, <1>8 DEF Requests
  <2> QED BY <1>6, <2>1 DEF Numbered
<1> QED BY <1>19, <1>21, <1>22
LEMMA StoreSame ==
    ASSUME NEW t \in Tabs, NEW k \in Tab, TabOK(t, k), UNCHANGED store
    PROVE  Shape(t, k)' /\ Shown(t, k)' /\ Fresh(t, k)'
<1>1. UNCHANGED <<media, bucket>> BY DEF store
<1>2. \A m, r : Attached(m, r)' <=> Attached(m, r) BY <1>1 DEF Attached, ReadyFor
<1>3. Shape(t, k)' BY DEF TabOK, Shape
<1>4. Shown(t, k)' BY <1>2 DEF TabOK, Shown
<1>5. Fresh(t, k)' BY <1>1 DEF TabOK, Fresh
<1> QED BY <1>3, <1>4, <1>5

LEMMA PatchSaves ==
    ASSUME IInv, NEW t \in Tabs, PatchSave(t)
    PROVE  Saves(t) /\ ChainKept' /\ Numbered'
<1>1. PICK k \in Tab : k = tab[t] /\ TabOK(t, k) BY FormOf
<1>2. TypeOK /\ tab \in [Tabs -> Tab] /\ request \in [Requests -> Request] /\ writers \in [Requests -> SUBSET Tabs]
  BY FormOf DEF TypeOK
<1>3. k.step = "patchSave" /\ k.request # 0 /\ k.submits > 0 /\ UNCHANGED <<store, cancel>> /\ k.todo = {}
  BY <1>1, PatchSave(t) DEF PatchSave, TabOK, Shape, Patching, Uploading, Late
<1>4. PICK r \in Requests : r = k.request BY <1>3, FormFields, Numbers DEF Requests
<1>5. PICK c \in Chain : c = SavedChain(k.loaded, k.chain, request[r].chain)
  BY <1>2, ChainIs, FormFields DEF Request
<1>6. request' = [request EXCEPT ![r] = [request[r] EXCEPT !.chain = c, !.filled = TRUE]]
  <2>1. request' = [request EXCEPT ![r].chain = c, ![r].filled = TRUE]
    BY <1>1, <1>2, <1>4, <1>5, PatchSave(t) DEF PatchSave
  <2> QED BY <1>2, <2>1
<1>7. [request[r] EXCEPT !.chain = c, !.filled = TRUE] \in Request BY <1>2 DEF Request
<1>8. /\ request' \in [Requests -> Request] /\ request'[r].status = request[r].status /\ request'[r].chain = c
      /\ \A s \in Requests \ {r} : request'[s] = request[s]
  BY <1>2, <1>6, <1>7 DEF Request
<1>9. writers' = [writers EXCEPT ![r] = writers[r] \cup {t}] BY <1>1, <1>4, PatchSave(t) DEF PatchSave
<1>10. /\ writers' \in [Requests -> SUBSET Tabs] /\ writers'[r] = writers[r] \cup {t}
       /\ \A s \in Requests \ {r} : writers'[s] = writers[s]
  BY <1>2, <1>9
<1>11. \A s \in Requests : request'[s].status = request[s].status BY <1>8
<1>12. ASSUME NEW u \in Tabs \ {t} PROVE Agrees(u, tab[u])
  <2>1. PICK l \in Tab : l = tab[u] /\ TabOK(u, l) BY FormOf
  <2>2. SUFFICES ASSUME l.request # 0 PROVE Agrees(u, l) BY <2>1 DEF Agrees
  <2>3. PICK q \in Requests : q = l.request BY <2>2, FormFields, Numbers DEF Requests
  <2>4. request'[q].status # "NONE" BY <1>11, <2>1, <2>2, <2>3 DEF TabOK, Backed
  <2>5. writers[q] \subseteq writers'[q] BY <1>10
  <2>6. writers'[q] \subseteq {u} => request'[q].chain = request[q].chain BY <1>8, <1>10
  <2> QED BY <1>11, <2>3, <2>4, <2>5, <2>6 DEF Agrees
<1>13. /\ t \in writers'[r] /\ request'[r].status # "NONE"
       /\ request'[r].status = "REQUESTED" => \E u \in writers'[r] : u # t
  BY <1>1, <1>3, <1>4, <1>8, <1>10 DEF TabOK, Backed
<1>14. PICK left \in SUBSET Files : left = Remaining(t) /\ \A f \in left : k.item[f] \notin {"none", "ready"}
  <2>1. Remaining(t) = {f \in Files : k.item[f] \notin {"none", "ready"}} BY <1>1 DEF Remaining
  <2> QED BY <2>1
<1>. DEFINE e == [k EXCEPT !.todo = left, !.step = NextCall(left), !.loaded = NoChain]
            d == [k EXCEPT !.step = "form", !.loaded = NoChain]
<1>15. NextCall(left) \in Step /\ (left = {} => NextCall(left) = "submitLoad")
       /\ (left # {} => NextCall(left) = "mediaCheck")
  BY DEF NextCall, Step
<1>16. Answer(t, e, d) BY <1>1, <1>14, PatchSave(t) DEF PatchSave
<1>17. /\ e \in Tab /\ e.step = NextCall(left) /\ e.todo = left /\ e.submits = k.submits
       /\ e.request = k.request /\ e.item = k.item
  BY <1>14, <1>15, NoItems DEF Tab
<1>18. /\ d \in Tab /\ d.step = "form" /\ d.todo = k.todo /\ d.submits = k.submits
       /\ d.request = k.request /\ d.item = k.item
  BY NoItems DEF Tab, Step
<1>. HIDE DEF e, d
<1>19. faults' \in Nat /\ \E f \in {e, d} : tab' = [tab EXCEPT ![t] = f] BY <1>2, <1>16, <1>17, <1>18, Answered
<1>20. Shape(t, k)' /\ Shown(t, k)' /\ Fresh(t, k)' BY <1>1, <1>3, StoreSame
<1>21. TabOK(t, d)' BY <1>3, <1>4, <1>13, <1>18, <1>20, IdleForm DEF Outside
<1>22. TabOK(t, e)'
  <2>1. (left = {} /\ e.step = "submitLoad") \/ (left # {} /\ e.step = "mediaCheck") BY <1>15, <1>17
  <2>2. e.step \in Detailed /\ (e.step \in Uploading <=> left # {}) /\ e.step \notin Outside \cup Late
        /\ e.step \notin Patching
    BY <2>1 DEF Detailed, Uploading, Late, Outside, Patching
  <2>3. Shape(t, e)' BY <1>3, <1>14, <1>17, <1>20, <2>2 DEF Shape
  <2>4. Shown(t, e)' BY <1>17, <1>20 DEF Shown
  <2>5. Fresh(t, e)' BY <1>3, <1>17, <1>20 DEF Fresh, Patching
  <2>6. Aimed(t, e)' BY <2>1, <2>2 DEF Aimed
  <2>7. Backed(t, e)' BY <1>4, <1>13, <1>17 DEF Backed
  <2>8. Alone(t, e)' BY <2>1 DEF Alone
  <2> QED BY <2>3, <2>4, <2>5, <2>6, <2>7, <2>8 DEF TabOK
<1>23. Saves(t) BY <1>3, <1>8, <1>10, <1>11, <1>12, <1>17, <1>18, <1>19, <1>21, <1>22 DEF Saves
<1>24. ChainKept'
  <2>1. ASSUME NEW s \in Requests, Cardinality(writers'[s]) <= 1 PROVE ValidChain(request'[s].chain)
    <3>1. CASE s = r
      <4>1. IsFiniteSet(writers'[r]) BY <1>10, Numbers, FS_Subset
      <4>2. writers'[r] = {t} BY <1>13, <2>1, <3>1, <4>1, Single
      <4>3. request[r].chain = k.loaded /\ ValidChain(k.chain)
        BY <1>1, <1>3, <1>4, <1>10, <4>2 DEF TabOK, Alone
      <4>4. c = k.chain BY <1>5, <4>3, ChainSaved, FormFields
      <4> QED BY <1>8, <3>1, <4>3, <4>4
    <3>2. CASE s # r BY <1>8, <1>10, <2>1, <3>2 DEF IInv, ChainKept
    <3> QED BY <3>1, <3>2
  <2> QED BY <2>1 DEF ChainKept, ValidChain
<1>25. Numbered' BY <1>11 DEF IInv, Numbered
<1> QED BY <1>23, <1>24, <1>25

LEMMA SubmitSaves ==
    ASSUME IInv, NEW t \in Tabs, SubmitSave(t)
    PROVE  Saves(t) /\ ChainKept' /\ Numbered'
<1>1. PICK k \in Tab : k = tab[t] /\ TabOK(t, k) BY FormOf
<1>2. TypeOK /\ tab \in [Tabs -> Tab] /\ request \in [Requests -> Request] /\ writers \in [Requests -> SUBSET Tabs]
  BY FormOf DEF TypeOK
<1>3. k.step = "submitSave" /\ k.request # 0 /\ UNCHANGED <<store, cancel, writers>> /\ k.todo = {}
  BY <1>1, SubmitSave(t) DEF SubmitSave, TabOK, Shape, Detailed, Uploading, Late
<1>4. PICK r \in Requests : r = k.request BY <1>3, FormFields, Numbers DEF Requests
<1>5. request' = [request EXCEPT ![r] = [request[r] EXCEPT !.status = "REQUESTED"]]
  BY <1>1, <1>2, <1>4, SubmitSave(t) DEF SubmitSave
<1>6. [request[r] EXCEPT !.status = "REQUESTED"] \in Request BY <1>2 DEF Request
<1>7. /\ request' \in [Requests -> Request] /\ request'[r].status = "REQUESTED"
      /\ request'[r].chain = request[r].chain
      /\ \A s \in Requests \ {r} : request'[s] = request[s]
  BY <1>2, <1>5, <1>6 DEF Request
<1>8. t \in writers[r] /\ request[r].status # "NONE" BY <1>1, <1>3, <1>4 DEF TabOK, Backed, Detailed
<1>9. \A s \in Requests : /\ request'[s].status # "NONE" <=> request[s].status # "NONE"
                          /\ request'[s].chain = request[s].chain
  BY <1>7, <1>8
<1>10. ASSUME NEW u \in Tabs \ {t} PROVE Agrees(u, tab[u])
  <2>1. PICK l \in Tab : l = tab[u] /\ TabOK(u, l) BY FormOf
  <2>2. SUFFICES ASSUME l.request # 0 PROVE Agrees(u, l) BY <2>1 DEF Agrees
  <2>3. PICK q \in Requests : q = l.request BY <2>2, FormFields, Numbers DEF Requests
  <2>4. request'[q].status # "NONE" BY <1>9, <2>1, <2>2, <2>3 DEF TabOK, Backed
  <2>5. request'[q].status = "REQUESTED" => request[q].status = "REQUESTED" \/ \E v \in writers'[q] : v # u
    BY <1>3, <1>7, <1>8
  <2> QED BY <1>3, <1>9, <2>3, <2>4, <2>5 DEF Agrees
<1>. DEFINE e == [Closed EXCEPT !.step = "submitted", !.submits = k.submits]
            d == [k EXCEPT !.step = "form"]
<1>11. Answer(t, e, d) BY <1>1, SubmitSave(t) DEF SubmitSave
<1>12. /\ e \in Tab /\ e.step = "submitted" /\ e.todo = {} /\ e.submits = k.submits /\ e.request = 0
       /\ e.item = [f \in Files |-> "none"]
  <2>1. "submitted" \in Step BY DEF Step
  <2>2. PICK n \in Nat : n = k.submits BY FormFields
  <2>3. PICK s \in Step : s = "submitted" BY <2>1
  <2>4. e = [Closed EXCEPT !.step = s, !.submits = n] BY <2>2, <2>3
  <2>. HIDE DEF e
  <2>5. /\ e \in Tab /\ e.step = s /\ e.request = 0 /\ e.submits = n /\ e.todo = {}
        /\ e.item = [f \in Files |-> "none"]
    BY <2>4, ClosedForm
  <2> QED BY <2>2, <2>3, <2>5
<1>13. /\ d \in Tab /\ d.step = "form" /\ d.todo = k.todo /\ d.submits = k.submits
       /\ d.request = k.request /\ d.item = k.item
  BY DEF Tab, Step
<1>. HIDE DEF e, d
<1>14. faults' \in Nat /\ \E f \in {e, d} : tab' = [tab EXCEPT ![t] = f] BY <1>2, <1>11, <1>12, <1>13, Answered
<1>15. Shape(t, k)' /\ Shown(t, k)' /\ Fresh(t, k)' BY <1>1, <1>3, StoreSame
<1>16. TabOK(t, e)' BY <1>12, <1>15, IdleForm DEF Outside
<1>17. TabOK(t, d)' BY <1>3, <1>4, <1>7, <1>13, <1>15, IdleForm DEF Outside
<1>18. Saves(t) BY <1>2, <1>3, <1>7, <1>9, <1>10, <1>12, <1>13, <1>14, <1>16, <1>17 DEF Saves
<1>19. ChainKept'
  <2>1. \A s \in Requests : Cardinality(writers'[s]) <= 1 => ValidChain(request'[s].chain)
    BY <1>3, <1>9 DEF IInv, ChainKept
  <2> QED BY <2>1 DEF ChainKept, ValidChain
<1>20. Numbered' BY <1>9 DEF IInv, Numbered
<1> QED BY <1>18, <1>19, <1>20

LEMMA CancelKeeps ==
    ASSUME IInv, CancelSave \/ \E r \in Requests : CancelLoad(r)
    PROVE  IInv'
<1>1. TypeOK /\ request \in [Requests -> Request] /\ cancel \in 0..MaxRequests BY DEF IInv, TypeOK
<1>2. CASE CancelSave
  <2>1. PICK r \in Requests : r = cancel BY <1>1, <1>2, Numbers DEF CancelSave, Requests
  <2>2. UNCHANGED <<store, tab, writers, faults>> /\ cancel' = 0 /\ 0 \in 0..MaxRequests
    BY <1>2, NoItems DEF CancelSave
  <2>3. request' = [request EXCEPT ![r] = [request[r] EXCEPT !.status = "CANCELLED"]]
    BY <1>1, <1>2, <2>1 DEF CancelSave
  <2>4. [request[r] EXCEPT !.status = "CANCELLED"] \in Request BY <1>1 DEF Request
  <2>5. /\ request' \in [Requests -> Request] /\ request'[r].status = "CANCELLED"
        /\ request'[r].chain = request[r].chain
        /\ \A s \in Requests \ {r} : request'[s] = request[s]
    BY <1>1, <2>3, <2>4 DEF Request
  <2>6. request[r].status # "NONE" BY <1>2, <2>1 DEF IInv, CancelSave
  <2>7. \A s \in Requests : /\ request'[s].status # "NONE" <=> request[s].status # "NONE"
                            /\ request'[s].status = "REQUESTED" => request[s].status = "REQUESTED"
                            /\ request'[s].chain = request[s].chain
    BY <2>5, <2>6
  <2>8. ASSUME NEW u \in Tabs PROVE TabOK(u, tab[u])'
    <3>1. PICK l \in Tab : l = tab[u] /\ TabOK(u, l) BY FormOf
    <3>2. l.request # 0 => l.request \in Requests BY FormFields, Numbers DEF Requests
    <3>3. Agrees(u, l) BY <2>2, <2>7, <3>1, <3>2 DEF Agrees, TabOK, Backed
    <3>4. TabOK(u, l)' BY <2>2, <3>1, <3>3, AgreedForm
    <3>5. tab'[u] = l BY <2>2, <3>1
    <3> QED BY <3>4, <3>5
  <2>9. TypeOK' BY <1>1, <2>2, <2>5 DEF TypeOK, MediaTypeOK, store
  <2>10. ChainKept'
    <3>1. \A s \in Requests : Cardinality(writers'[s]) <= 1 => ValidChain(request'[s].chain)
      BY <2>2, <2>7 DEF IInv, ChainKept
    <3> QED BY <3>1 DEF ChainKept, ValidChain
  <2>11. Numbered' BY <2>7 DEF IInv, Numbered
  <2> QED BY <2>2, <2>8, <2>9, <2>10, <2>11 DEF IInv
<1>3. ASSUME NEW r \in Requests, CancelLoad(r) PROVE IInv'
  <2>1. UNCHANGED <<store, request, tab, writers, faults>> /\ cancel' = r /\ request[r].status # "NONE"
    BY <1>3 DEF CancelLoad
  <2>2. r \in 0..MaxRequests BY Numbers DEF Requests
  <2>3. ASSUME NEW u \in Tabs PROVE TabOK(u, tab[u])'
    <3>1. PICK l \in Tab : l = tab[u] /\ TabOK(u, l) BY FormOf
    <3>2. TabOK(u, l)' BY <2>1, <3>1, FormStays
    <3>3. tab'[u] = l BY <2>1, <3>1
    <3> QED BY <3>2, <3>3
  <2>4. TypeOK' BY <1>1, <2>1, <2>2 DEF TypeOK, MediaTypeOK, store
  <2>5. ChainKept' /\ Numbered' BY <2>1 DEF IInv, ChainKept, ValidChain, Numbered
  <2> QED BY <2>1, <2>3, <2>4, <2>5 DEF IInv
<1> QED BY <1>2, <1>3

-----------------------------------------------------------------------------
(***************************************************************************)
(* The invariant, and what follows from it.                                *)
(***************************************************************************)
LEMMA CallTurns ==
    ASSUME IInv, NEW t \in Tabs, CallStep(t)
    PROVE  Turn(t) \/ Create(t) \/ PatchSave(t) \/ SubmitSave(t)
BY LookUpTurns, PatchLoadTurns, MediaCheckTurns, MediaCreateTurns, UploadFileTurns, CheckTurns,
   FinalizeSaveTurns, RejectSaveTurns, RejectDeleteTurns, SubmitLoadTurns DEF CallStep

LEMMA NextKeeps ==
    ASSUME IInv, [Next]_vars
    PROVE  IInv'
<1>1. ASSUME NEW t \in Tabs, UserStep(t) PROVE IInv' BY <1>1, UserTurns, TurnKeeps
<1>2. ASSUME NEW t \in Tabs, CallStep(t) PROVE IInv'
  BY <1>2, CallTurns, TurnKeeps, CreateSaves, PatchSaves, SubmitSaves, SaveKeeps
<1>3. ASSUME NEW t \in Tabs, CallFails(t) PROVE IInv' BY <1>3, FailTurns, TurnKeeps
<1>4. CASE CancelSave \/ \E r \in Requests : CancelLoad(r) BY <1>4, CancelKeeps
<1>5. CASE UNCHANGED vars
  <2>1. UNCHANGED <<store, request, tab, cancel, writers, faults>> BY <1>5 DEF vars
  <2>2. TypeOK /\ TypeOK' BY <2>1 DEF IInv, TypeOK, MediaTypeOK, store
  <2>3. ASSUME NEW u \in Tabs PROVE TabOK(u, tab[u])'
    <3>1. PICK l \in Tab : l = tab[u] /\ TabOK(u, l) BY FormOf
    <3>2. TabOK(u, l)' BY <2>1, <3>1, FormStays
    <3>3. tab'[u] = l BY <2>1, <3>1
    <3> QED BY <3>2, <3>3
  <2>4. ChainKept' /\ Numbered' BY <2>1 DEF IInv, ChainKept, ValidChain, Numbered
  <2> QED BY <2>1, <2>2, <2>3, <2>4 DEF IInv
<1> QED BY <1>1, <1>2, <1>3, <1>4, <1>5 DEF Next

LEMMA InitHolds == Init => IInv
<1> SUFFICES ASSUME Init PROVE IInv OBVIOUS
<1>1. Closed \in Tab BY NoItems, FormIs DEF Closed, Step
<1>2. /\ Closed.step = "closed" /\ Closed.request = 0 /\ Closed.todo = {} /\ Closed.submits = 0
      /\ Closed.item = [f \in Files |-> "none"]
  BY DEF Closed
<1>3. /\ [NewRequest EXCEPT !.status = "NONE"] \in Request
      /\ [NewRequest EXCEPT !.status = "NONE"].status = "NONE"
      /\ [NewRequest EXCEPT !.status = "NONE"].chain = NoChain
  BY NoItems DEF NewRequest, Request
<1>4. TypeOK
  <2>1. MediaTypeOK BY DEF Init, MediaInit, MediaTypeOK, MediaDoc
  <2> QED BY <1>1, <1>3, <2>1, NoItems DEF Init, TypeOK
<1>5. \A r \in Requests : request[r].status = "NONE" /\ request[r].chain = NoChain BY <1>3 DEF Init
<1>6. \A m \in Uploads : media[m].status = "NONE" BY DEF Init, MediaInit
<1>7. ASSUME NEW t \in Tabs PROVE TabOK(t, tab[t])
  <2>1. PICK k \in Tab : k = Closed /\ tab[t] = k BY <1>1 DEF Init
  <2>2. MaxSubmits[t] \in Nat BY Numbers
  <2>3. Shape(t, k) BY <1>2, <2>1, <2>2 DEF Shape, Outside, Uploading, Late, Detailed, Patching
  <2>4. Shown(t, k) BY <1>2, <2>1 DEF Shown
  <2>5. Fresh(t, k) BY <1>6, UploadOf DEF Fresh
  <2>6. Aimed(t, k) BY <1>2, <2>1 DEF Aimed, Late
  <2>7. Backed(t, k) BY <1>2, <2>1 DEF Backed, Detailed, Uploading, Late
  <2>8. Alone(t, k) BY <1>2, <2>1 DEF Alone
  <2> QED BY <2>1, <2>3, <2>4, <2>5, <2>6, <2>7, <2>8 DEF TabOK
<1>8. ChainKept BY <1>5 DEF ChainKept, ValidChain, NoChain
<1>9. Numbered
  <2>1. \A r \in Requests : ~(r <= 0) BY Numbers DEF Requests
  <2> QED BY <1>5, <2>1, NoItems DEF Numbered
<1> QED BY <1>4, <1>7, <1>8, <1>9 DEF IInv, Init

\* The inductive invariant holds in every reachable state.
THEOREM Invariance == Spec => []IInv
<1>1. IInv /\ [Next]_vars => IInv' BY NextKeeps
<1> QED BY <1>1, InitHolds, PTL DEF Spec

\* Every variable keeps its type.
THEOREM Typed == Spec => []TypeOK
<1>1. IInv => TypeOK BY DEF IInv
<1> QED BY <1>1, Invariance, PTL

\* A request that one tab writes never mixes two choices of the cascade, though
\* the chain that is validated is not the one that is saved: what the PATCH
\* loaded is still stored when it saves.
THEOREM ChainsAreKept == Spec => []ChainKept
<1>1. IInv => ChainKept BY DEF IInv
<1> QED BY <1>1, Invariance, PTL

\* What a form shows as uploaded was scanned, is stored and is attached to the
\* request it submits, for any mix of retries, lost answers and failing calls.
THEOREM ReadyIsAttached == Spec => []ShownReadyIsAttached
<1>1. IInv => ShownReadyIsAttached BY DEF IInv, TabOK, Shown, Attached, ShownReadyIsAttached
<1> QED BY <1>1, Invariance, PTL
-----------------------------------------------------------------------------
(***************************************************************************)
(* A request that one tab wrote is frozen by its submission.               *)
(***************************************************************************)
Frozen ==
    \A r \in Requests :
       request[r].status = "REQUESTED" /\ Cardinality(writers'[r]) <= 1
         => request'[r].chain = request[r].chain /\ ReadyFor(r)' = ReadyFor(r)

\* A tab that writes again what was submitted is not the one that submitted it.
LEMMA WrittenByTwo ==
    ASSUME IInv, NEW t \in Tabs, NEW k \in Tab, k = tab[t], NEW r \in Requests, r = k.request,
           k.step \in Detailed \cup {"patchSave"}, request[r].status = "REQUESTED",
           writers' \in [Requests -> SUBSET Tabs], writers[r] \cup {t} \subseteq writers'[r]
    PROVE  ~(Cardinality(writers'[r]) <= 1)
<1>1. PICK u \in writers[r] : u # t BY FormOf DEF TabOK, Backed
<1>2. u \in writers'[r] /\ t \in writers'[r] BY <1>1
<1>3. IsFiniteSet(writers'[r]) BY Numbers, FS_Subset
<1> QED BY <1>1, <1>2, <1>3, Single

\* No step but the last of an upload changes what is ready.
LEMMA ReadyStays ==
    ASSUME \A m \in Uploads : \/ media'[m] = media[m]
                              \/ media'[m].status # "READY" /\ media[m].status # "READY",
           NEW r
    PROVE  ReadyFor(r)' = ReadyFor(r)
BY DEF ReadyFor

LEMMA WriteIsFrozen ==
    ASSUME IInv, NEW t \in Tabs, MediaCreate(t) \/ UploadFile(t) \/ RejectSave(t) \/ RejectDelete(t)
    PROVE  Frozen
<1>1. PICK k \in Tab : /\ k = tab[t] /\ TabOK(t, k) /\ k.todo # {} /\ Up(t, k) \in Uploads
                       /\ Upload(t) = Up(t, k) /\ \A s : Done(t, s) = Ended(k, s)
  BY UploadForm, MediaCreate(t) \/ UploadFile(t) \/ RejectSave(t) \/ RejectDelete(t)
     DEF MediaCreate, UploadFile, RejectSave, RejectDelete, Uploading, Late
<1>2. k.step \in Uploading /\ request' = request
  BY <1>1, MediaCreate(t) \/ UploadFile(t) \/ RejectSave(t) \/ RejectDelete(t)
     DEF MediaCreate, UploadFile, RejectSave, RejectDelete, Uploading, Late
<1>3. PICK m \in Uploads : m = Up(t, k) /\ media[m].status # "READY" BY <1>1, <1>2, UpIsNotReady
<1>4. media \in [Uploads -> MediaDoc] BY DEF IInv, TypeOK, MediaTypeOK
<1>5. \/ media' = media
      \/ media' = [media EXCEPT ![m] = [status |-> "PENDING_UPLOAD", target |-> k.request]]
      \/ media' = [media EXCEPT ![m].status = "REJECTED"]
  BY <1>1, <1>3, MediaCreate(t) \/ UploadFile(t) \/ RejectSave(t) \/ RejectDelete(t)
     DEF MediaCreate, UploadFile, RejectSave, RejectDelete, CreateUploadSession, PutObject, Settle, DeleteObject
<1>6. \A o \in Uploads \ {m} : media'[o] = media[o] BY <1>4, <1>5
<1>7. media'[m].status # "READY" BY <1>3, <1>4, <1>5 DEF MediaDoc
<1> QED BY <1>2, <1>3, <1>6, <1>7, ReadyStays DEF Frozen

LEMMA FinalizeIsFrozen ==
    ASSUME IInv, NEW t \in Tabs, FinalizeSave(t)
    PROVE  Frozen
<1>1. PICK k \in Tab : /\ k = tab[t] /\ TabOK(t, k) /\ k.todo # {} /\ Up(t, k) \in Uploads
                       /\ Upload(t) = Up(t, k) /\ \A s : Done(t, s) = Ended(k, s)
  BY UploadForm, FinalizeSave(t) DEF FinalizeSave, Uploading, Late
<1>2. k.step = "settle" /\ UNCHANGED <<request, writers>> BY <1>1, FinalizeSave(t) DEF FinalizeSave
<1>3. PICK m \in Uploads : m = Up(t, k) /\ media[m].target = k.request
  BY <1>1, <1>2 DEF TabOK, Aimed, Late
<1>4. media \in [Uploads -> MediaDoc] /\ writers \in [Requests -> SUBSET Tabs] BY DEF IInv, TypeOK, MediaTypeOK
<1>5. media' = [media EXCEPT ![m].status = "READY"] BY <1>1, <1>3, FinalizeSave(t) DEF FinalizeSave, Settle
<1>6. media'[m].target = k.request /\ \A o \in Uploads \ {m} : media'[o] = media[o]
  BY <1>3, <1>4, <1>5 DEF MediaDoc
<1>7. ASSUME NEW r \in Requests, request[r].status = "REQUESTED", Cardinality(writers'[r]) <= 1
      PROVE  request'[r].chain = request[r].chain /\ ReadyFor(r)' = ReadyFor(r)
  <2>1. CASE r = k.request
    <3>1. k.step \in Detailed BY <1>2 DEF Detailed, Uploading, Late
    <3>2. t \in writers[r] BY <1>1, <2>1, <3>1 DEF TabOK, Backed
    <3>3. writers[r] \cup {t} \subseteq writers'[r] BY <1>2, <3>2
    <3> QED BY <1>1, <1>2, <1>4, <1>7, <2>1, <3>1, <3>3, WrittenByTwo
  <2>2. CASE r # k.request
    <3>1. ReadyFor(r)' = ReadyFor(r) BY <1>3, <1>6, <2>2 DEF ReadyFor
    <3> QED BY <1>2, <3>1
  <2> QED BY <2>1, <2>2
<1> QED BY <1>7 DEF Frozen

LEMMA SaveIsFrozen ==
    ASSUME IInv, NEW t \in Tabs, Create(t) \/ PatchSave(t) \/ SubmitSave(t)
    PROVE  Frozen
<1>1. PICK k \in Tab : k = tab[t] /\ TabOK(t, k) BY FormOf
<1>2. request \in [Requests -> Request] /\ writers \in [Requests -> SUBSET Tabs] BY DEF IInv, TypeOK
<1>3. \A r : ReadyFor(r)' = ReadyFor(r)
  BY Create(t) \/ PatchSave(t) \/ SubmitSave(t) DEF Create, PatchSave, SubmitSave, store, ReadyFor
<1>4. CASE Create(t)
  <2>1. PICK q \in Requests : /\ q = Cardinality({s \in Requests : request[s].status # "NONE"}) + 1
                              /\ request' = [request EXCEPT ![q] = NewRequest]
    BY <1>4 DEF Create
  <2>2. request[q].status = "NONE"
    <3>1. \A s \in Requests : request[s].status # "NONE" <=> s < q BY <2>1, NextId DEF IInv
    <3>2. ~(q < q) BY Numbers DEF Requests
    <3> QED BY <3>1, <3>2
  <2>3. \A s \in Requests : request[s].status = "REQUESTED" => request'[s] = request[s] BY <1>2, <2>1, <2>2
  <2> QED BY <1>3, <2>3 DEF Frozen
<1>5. CASE PatchSave(t)
  <2>1. k.step = "patchSave" /\ k.request # 0 BY <1>1, <1>5 DEF PatchSave, TabOK, Shape, Patching
  <2>2. PICK q \in Requests : q = k.request BY <2>1, FormFields, Numbers DEF Requests
  <2>3. \A s \in Requests \ {q} : request'[s] = request[s]
    <3>1. PICK c : request' = [request EXCEPT ![q].chain = c, ![q].filled = TRUE]
      BY <1>1, <1>5, <2>2 DEF PatchSave
    <3> QED BY <1>2, <3>1
  <2>4. writers' = [writers EXCEPT ![q] = writers[q] \cup {t}] BY <1>1, <1>5, <2>2 DEF PatchSave
  <2>5. writers' \in [Requests -> SUBSET Tabs] /\ writers[q] \cup {t} \subseteq writers'[q] BY <1>2, <2>4
  <2>6. request[q].status = "REQUESTED" => ~(Cardinality(writers'[q]) <= 1)
    BY <1>1, <2>1, <2>2, <2>5, WrittenByTwo
  <2> QED BY <1>3, <2>3, <2>6 DEF Frozen
<1>6. CASE SubmitSave(t)
  <2>1. \A s \in Requests : request'[s].chain = request[s].chain BY <1>1, <1>2, <1>6 DEF SubmitSave, Request
  <2> QED BY <1>3, <2>1 DEF Frozen
<1> QED BY <1>4, <1>5, <1>6

LEMMA StepIsFrozen ==
    ASSUME IInv, [Next]_vars
    PROVE  [Frozen]_vars
<1>1. CASE UNCHANGED vars BY <1>1
<1>2. ASSUME UNCHANGED <<store, request>> PROVE Frozen
  BY <1>2 DEF Frozen, ReadyFor, store
<1>3. ASSUME NEW t \in Tabs, UserStep(t) PROVE Frozen
  BY <1>2, <1>3 DEF UserStep, OpenForm, Leave, Submit, Choose, AddFile
<1>4. ASSUME NEW t \in Tabs, CallFails(t) PROVE Frozen BY <1>2, <1>4 DEF CallFails
<1>5. ASSUME NEW t \in Tabs,
             LookUpDraft(t) \/ PatchLoad(t) \/ MediaCheck(t) \/ FinalizeLoad(t) \/ Scan(t) \/ SubmitLoad(t)
      PROVE  Frozen
  BY <1>2, <1>5 DEF LookUpDraft, PatchLoad, MediaCheck, FinalizeLoad, Scan, SubmitLoad
<1>6. ASSUME NEW t \in Tabs, CallStep(t) PROVE Frozen
  BY <1>5, <1>6, WriteIsFrozen, FinalizeIsFrozen, SaveIsFrozen DEF CallStep
<1>7. ASSUME NEW r \in Requests, CancelLoad(r) PROVE Frozen BY <1>2, <1>7 DEF CancelLoad
<1>8. CASE CancelSave
  <2>1. request \in [Requests -> Request] BY DEF IInv, TypeOK
  <2>2. \A s \in Requests : request'[s].chain = request[s].chain BY <1>8, <2>1 DEF CancelSave, Request
  <2>3. \A r : ReadyFor(r)' = ReadyFor(r) BY <1>8 DEF CancelSave, store, ReadyFor
  <2> QED BY <2>2, <2>3 DEF Frozen
<1> QED BY <1>1, <1>3, <1>4, <1>6, <1>7, <1>8 DEF Next

\* Once submitted, a request that one tab wrote keeps its details and its media:
\* whoever still writes them is another tab than the one that submitted.
THEOREM SubmissionFreezes == Spec => SubmittedIsFrozen
<1>1. IInv /\ [Next]_vars => [Frozen]_vars BY StepIsFrozen
<1>2. Spec => [][Frozen]_vars BY <1>1, Invariance, PTL DEF Spec
<1> QED BY <1>2 DEF SubmittedIsFrozen, Frozen

-----------------------------------------------------------------------------
(***************************************************************************)
(* One draft for each tab, as long as the tabs are no more than a page.    *)
(***************************************************************************)
LEMMA Counts ==
    /\ IsFiniteSet(Drafts) /\ Drafts \subseteq Requests
    /\ IsFiniteSet(Creators) /\ Cardinality(Creators) \in Nat /\ Cardinality(Creators) <= Cardinality(Tabs)
    /\ \A r : IsFiniteSet(Newer(r)) /\ Cardinality(Newer(r)) \in Nat
<1>1. Drafts \subseteq Requests /\ Creators \subseteq Tabs BY DEF Drafts, Creators
<1>2. \A r : Newer(r) \subseteq Requests BY DEF Newer
<1> QED BY <1>1, <1>2, Numbers, FS_Subset, FS_CardinalityType

\* Steps that open no draft and bring no tab nearer to creating one.
LEMMA ReachableStays ==
    ASSUME Reachable, Drafts' \subseteq Drafts, Creators' \subseteq Creators,
           \A r \in Requests : request'[r].status # "NONE" => request[r].status # "NONE"
    PROVE  Reachable'
<1>1. ASSUME NEW d \in Drafts'
      PROVE  Cardinality(Newer(d)') + Cardinality(Creators') < Cardinality(Tabs)
  <2>1. Newer(d)' \subseteq Newer(d) BY DEF Newer
  <2>2. /\ Cardinality(Newer(d)') <= Cardinality(Newer(d)) /\ Cardinality(Creators') <= Cardinality(Creators)
        /\ Cardinality(Newer(d)') \in Nat /\ Cardinality(Creators') \in Nat
    BY <2>1, Counts, FS_Subset, FS_CardinalityType
  <2>3. Cardinality(Newer(d)) + Cardinality(Creators) < Cardinality(Tabs) BY DEF Reachable
  <2> QED BY <2>2, <2>3, Counts, Numbers
<1> QED BY <1>1 DEF Reachable, Newer

\* A lookup that finds no draft proves there is none.
LEMMA LookUpSeesAll ==
    ASSUME Cardinality(Tabs) <= PageSize, Reachable, OpenDrafts = {}
    PROVE  Drafts = {}
<1>1. SUFFICES ASSUME NEW d \in Drafts PROVE FALSE OBVIOUS
<1>2. Cardinality(Newer(d)) < Cardinality(Tabs) BY Counts, Numbers DEF Reachable
<1>3. Cardinality(Newer(d)) < PageSize BY <1>2, Counts, Numbers
<1>4. d \in Page BY <1>3, Counts DEF Page, Drafts, Newer
<1> QED BY <1>4 DEF OpenDrafts

LEMMA CreateReaches ==
    ASSUME IInv, Reachable, NEW t \in Tabs, Create(t)
    PROVE  Reachable'
<1>1. request \in [Requests -> Request] /\ tab \in [Tabs -> Tab] BY DEF IInv, TypeOK
<1>2. PICK r \in Requests : /\ r = Cardinality({s \in Requests : request[s].status # "NONE"}) + 1
                            /\ request' = [request EXCEPT ![r] = NewRequest]
  BY Create(t) DEF Create
<1>3. \A s \in Requests : request[s].status # "NONE" <=> s < r BY <1>2, NextId DEF IInv
<1>4. /\ \A s \in Requests \ {r} : request'[s] = request[s]
      /\ request'[r].status = "DRAFT" /\ r \in Nat /\ Requests \subseteq Nat
  BY <1>1, <1>2, Numbers DEF NewRequest, Requests
<1>9. \A s \in Requests : request'[s].status # "NONE" <=> s < r \/ s = r BY <1>3, <1>4
<1>5. Creators' = Creators \ {t} /\ t \in Creators
  <2>1. tab[t].step = "create" BY Create(t) DEF Create
  <2>2. PICK k \in Tab : tab' = [tab EXCEPT ![t] = k] /\ k.step # "create"
    <3>1. PICK l \in Tab : l = tab[t] BY <1>1
    <3>. DEFINE e == [l EXCEPT !.step = "form", !.request = r]
                d == [l EXCEPT !.step = "initError"]
    <3>2. Answer(t, e, d) BY <1>2, <3>1, Create(t) DEF Create
    <3>3. r \in 0..MaxRequests BY Numbers DEF Requests
    <3>4. e \in Tab /\ e.step = "form" BY <3>1, <3>3 DEF Tab, Step
    <3>5. d \in Tab /\ d.step = "initError" BY <3>1 DEF Tab, Step
    <3> QED BY <3>2, <3>4, <3>5 DEF Answer
  <2> QED BY <1>1, <2>1, <2>2 DEF Creators
<1>6. IsFiniteSet(Creators') /\ Cardinality(Creators') = Cardinality(Creators) - 1
  BY <1>5, Counts, FS_RemoveElement
<1>7. ASSUME NEW d \in Drafts'
      PROVE  Cardinality(Newer(d)') + Cardinality(Creators') < Cardinality(Tabs)
  <2>1. CASE d = r
    <3>1. Newer(d)' = {}
      <4>1. Newer(d)' = {s \in Requests : s > r /\ request'[s].status # "NONE"} BY <2>1 DEF Newer
      <4>2. \A s \in Requests : s > r => ~(s < r \/ s = r) BY <1>4
      <4> QED BY <1>9, <4>1, <4>2
    <3>2. Cardinality(Newer(d)') = 0 BY <3>1, FS_EmptySet
    <3> QED BY <1>6, <3>2, Counts, Numbers
  <2>2. CASE d # r
    <3>1. d \in Drafts /\ d < r BY <1>3, <1>4, <2>2 DEF Drafts
    <3>2. Newer(d)' = Newer(d) \cup {r} /\ r \notin Newer(d)
      <4>1. Newer(d)' = {s \in Requests : s > d /\ request'[s].status # "NONE"} BY DEF Newer
      <4>2. d \in Nat /\ \A s \in Requests : s \in Nat BY <1>4, <3>1, Counts
      <4>3. \A s \in Requests : s = r => s > d /\ request[s].status = "NONE" BY <1>3, <1>4, <3>1, <4>2
      <4> QED BY <1>3, <1>9, <4>1, <4>3 DEF Newer
    <3>3. Cardinality(Newer(d)') = Cardinality(Newer(d)) + 1 BY <3>2, Counts, FS_AddElement
    <3>4. Cardinality(Newer(d)) + Cardinality(Creators) < Cardinality(Tabs) BY <3>1 DEF Reachable
    <3> QED BY <1>6, <3>3, <3>4, Counts, Numbers
  <2> QED BY <2>1, <2>2
<1> QED BY <1>7 DEF Reachable, Newer

\* Only a lookup leads a tab to create a request.
LEMMA OnlyLookUpLeads ==
    ASSUME IInv, NEW t \in Tabs, CallStep(t) \/ CallFails(t), ~LookUpDraft(t)
    PROVE  Creators' \subseteq Creators
<1>1. PICK k \in Tab : k = tab[t] BY FormOf
<1>2. tab \in [Tabs -> Tab] BY FormOf
<1>3. ASSUME NEW e, tab' = [tab EXCEPT ![t] = e], e.step # "create" PROVE Creators' \subseteq Creators
  BY <1>2, <1>3 DEF Creators
<1>4. \A s : Done(t, s).step # "create"
  <2>1. \A s : Done(t, s) = Ended(k, s) BY <1>1, DoneIsEnded
  <2>2. \A s : Ended(k, s).step = NextCall(k.todo \ {Cur(k)}) BY DEF Ended, Tab
  <2> QED BY <2>1, <2>2 DEF NextCall
<1>5. \A s : [k EXCEPT !.step = s].step = s /\ [k EXCEPT !.step = s, !.loaded = NoChain].step = s BY DEF Tab
<1>6. CASE CallFails(t)
  <2>1. tab' = [tab EXCEPT ![t] =
          CASE k.step \in {"lookup", "create"} -> [k EXCEPT !.step = "initError"]
            [] k.step \in {"patchLoad", "patchSave", "submitLoad", "submitSave"} ->
                 [k EXCEPT !.step = "form", !.loaded = NoChain]
            [] OTHER -> Done(t, "error")]
    BY <1>1, <1>2, <1>6 DEF CallFails
  <2> QED BY <1>3, <1>4, <1>5, <2>1
<1>7. CASE Create(t)
  <2>1. PICK r : Answer(t, [k EXCEPT !.step = "form", !.request = r], [k EXCEPT !.step = "initError"])
    BY <1>1, <1>7 DEF Create
  <2>2. [k EXCEPT !.step = "form", !.request = r].step = "form" BY DEF Tab
  <2> QED BY <1>3, <1>5, <2>1, <2>2 DEF Answer
<1>8. CASE PatchLoad(t)
  <2>1. PICK c : tab' = [tab EXCEPT ![t] = IF Editable(k.request) /\ ValidChain(k.chain)
                                           THEN [k EXCEPT !.step = "patchSave", !.loaded = c]
                                           ELSE [k EXCEPT !.step = "form"]]
    BY <1>1, <1>2, <1>8 DEF PatchLoad
  <2>2. [k EXCEPT !.step = "patchSave", !.loaded = c].step = "patchSave" BY DEF Tab
  <2> QED BY <1>3, <1>5, <2>1, <2>2
<1>9. CASE PatchSave(t)
  <2>1. PICK left : Answer(t, [k EXCEPT !.todo = left, !.step = NextCall(left), !.loaded = NoChain],
                              [k EXCEPT !.step = "form", !.loaded = NoChain])
    BY <1>1, <1>9 DEF PatchSave
  <2>2. [k EXCEPT !.todo = left, !.step = NextCall(left), !.loaded = NoChain].step = NextCall(left) BY DEF Tab
  <2>3. NextCall(left) # "create" BY DEF NextCall
  <2> QED BY <1>3, <1>5, <2>1, <2>2, <2>3 DEF Answer
<1>10. CASE MediaCheck(t)
  <2>1. PICK c : tab' = [tab EXCEPT ![t] = IF Editable(k.request) /\ Allowed(Upload(t))
                                           THEN [k EXCEPT !.step = "mediaCreate", !.item[c] = "uploading"]
                                           ELSE Done(t, "error")]
    BY <1>1, <1>2, <1>10 DEF MediaCheck
  <2>2. [k EXCEPT !.step = "mediaCreate", !.item[c] = "uploading"].step = "mediaCreate" BY DEF Tab
  <2> QED BY <1>3, <1>4, <2>1, <2>2
<1>11. CASE MediaCreate(t) \/ UploadFile(t) \/ FinalizeSave(t) \/ RejectDelete(t)
  <2>1. \/ \E s \in {"put", "finalizeLoad"} : Answer(t, [k EXCEPT !.step = s], Done(t, "error"))
        \/ \E s \in {"ready", "rejected"} : Answer(t, Done(t, s), Done(t, "error"))
    BY <1>1, <1>11 DEF MediaCreate, UploadFile, FinalizeSave, RejectDelete
  <2>2. ASSUME NEW s \in {"put", "finalizeLoad"}, Answer(t, [k EXCEPT !.step = s], Done(t, "error"))
        PROVE  Creators' \subseteq Creators
    <3>1. [k EXCEPT !.step = s].step # "create" BY <1>5
    <3> QED BY <1>3, <1>4, <2>2, <3>1 DEF Answer
  <2>3. ASSUME NEW s, Answer(t, Done(t, s), Done(t, "error"))
        PROVE  Creators' \subseteq Creators
    BY <1>3, <1>4, <2>3 DEF Answer
  <2> QED BY <2>1, <2>2, <2>3
<1>12. CASE FinalizeLoad(t) \/ Scan(t) \/ RejectSave(t) \/ SubmitLoad(t)
  <2>1. \/ tab' = [tab EXCEPT ![t] = Done(t, "error")]
        \/ \E s \in {"scan", "settle", "reject", "delete", "submitSave", "form"} :
             tab' = [tab EXCEPT ![t] = [k EXCEPT !.step = s]]
    BY <1>1, <1>2, <1>12 DEF FinalizeLoad, Scan, RejectSave, SubmitLoad, Go
  <2> QED BY <1>3, <1>4, <1>5, <2>1
<1>13. CASE SubmitSave(t)
  <2>1. Answer(t, [Closed EXCEPT !.step = "submitted", !.submits = k.submits], [k EXCEPT !.step = "form"])
    BY <1>1, <1>13 DEF SubmitSave
  <2>2. [Closed EXCEPT !.step = "submitted", !.submits = k.submits].step = "submitted" BY DEF Closed
  <2> QED BY <1>3, <1>5, <2>1, <2>2 DEF Answer
<1> QED BY <1>6, <1>7, <1>8, <1>9, <1>10, <1>11, <1>12, <1>13 DEF CallStep

LEMMA NextReaches ==
    ASSUME Cardinality(Tabs) <= PageSize, IInv, Reachable, [Next]_vars
    PROVE  Reachable'
<1>1. request \in [Requests -> Request] /\ tab \in [Tabs -> Tab] BY DEF IInv, TypeOK
<1>2. ASSUME UNCHANGED request, NEW t \in Tabs, NEW k \in Tab, tab' = [tab EXCEPT ![t] = k], k.step # "create"
      PROVE  Reachable'
  <2>1. Drafts' = Drafts BY <1>2 DEF Drafts
  <2>2. Creators' \subseteq Creators BY <1>1, <1>2 DEF Creators
  <2> QED BY <1>2, <2>1, <2>2, ReachableStays
<1>3. ASSUME NEW t \in Tabs, UserStep(t) PROVE Reachable'
  <2>1. UNCHANGED request BY <1>3 DEF UserStep, OpenForm, Leave, Submit, Choose, AddFile
  <2>2. Turn(t) BY <1>3, UserTurns
  <2>3. PICK k \in Tab : tab' = [tab EXCEPT ![t] = k] BY <2>2 DEF Turn
  <2>4. k.step # "create"
    <3>1. tab'[t] = k BY <1>1, <2>3
    <3>2. tab[t] \in Tab BY <1>1
    <3>3. Closed.step = "closed" BY DEF Closed
    <3>4. tab'[t].step # "create"
      BY <1>1, <1>3, <3>2, <3>3 DEF UserStep, OpenForm, Leave, Submit, Choose, AddFile, Tab, Closed
    <3> QED BY <3>1, <3>4
  <2> QED BY <1>2, <2>1, <2>3, <2>4
<1>4. ASSUME NEW t \in Tabs, LookUpDraft(t) PROVE Reachable'
  <2>1. UNCHANGED request BY <1>4 DEF LookUpDraft
  <2>2. CASE OpenDrafts = {}
    <3>1. Drafts' = {} BY <2>1, <2>2, LookUpSeesAll DEF Drafts
    <3> QED BY <3>1 DEF Reachable
  <2>3. CASE OpenDrafts # {}
    <3>1. PICK k \in Tab : k = tab[t] BY <1>1
    <3>2. PICK r : tab' = [tab EXCEPT ![t] = [k EXCEPT !.step = "form", !.request = r]]
      BY <1>1, <1>4, <2>3, <3>1 DEF LookUpDraft
    <3>3. [k EXCEPT !.step = "form", !.request = r].step = "form" BY DEF Tab
    <3>4. Creators' \subseteq Creators BY <1>1, <3>2, <3>3 DEF Creators
    <3>5. Drafts' = Drafts BY <2>1 DEF Drafts
    <3> QED BY <2>1, <3>4, <3>5, ReachableStays
  <2> QED BY <2>2, <2>3
<1>5. ASSUME NEW t \in Tabs, CallStep(t) \/ CallFails(t), ~LookUpDraft(t), ~Create(t) PROVE Reachable'
  <2>1. Creators' \subseteq Creators BY <1>5, OnlyLookUpLeads
  <2>2. \A s \in Requests : /\ request'[s].status = "DRAFT" => request[s].status = "DRAFT"
                            /\ request'[s].status # "NONE" => request[s].status # "NONE"
    <3>1. CASE PatchSave(t)
      <4>1. PICK q, c : request' = [request EXCEPT ![q].chain = c, ![q].filled = TRUE] BY <3>1 DEF PatchSave
      <4> QED BY <1>1, <4>1 DEF Request
    <3>2. CASE SubmitSave(t)
      <4>1. PICK k \in Tab : k = tab[t] /\ TabOK(t, k) /\ k.step = "submitSave"
        BY <3>2, FormOf DEF SubmitSave
      <4>2. request[k.request].status # "NONE" BY <4>1 DEF TabOK, Shape, Detailed, Backed
      <4>3. request' = [request EXCEPT ![k.request].status = "REQUESTED"] BY <3>2, <4>1 DEF SubmitSave
      <4> QED BY <1>1, <4>2, <4>3 DEF Request
    <3>3. CASE UNCHANGED request BY <3>3
    <3> QED BY <1>5, <3>1, <3>2, <3>3, CallTurns DEF Turn, CallFails
  <2>3. Drafts' \subseteq Drafts BY <2>2 DEF Drafts
  <2> QED BY <2>1, <2>2, <2>3, ReachableStays
<1>6. CASE CancelSave
  <2>1. PICK q : q = cancel /\ request' = [request EXCEPT ![q].status = "CANCELLED"] BY <1>6 DEF CancelSave
  <2>2. request[q].status # "NONE" /\ tab' = tab BY <1>6, <2>1 DEF CancelSave, IInv
  <2>3. \A s \in Requests : /\ request'[s].status = "DRAFT" => request[s].status = "DRAFT"
                            /\ request'[s].status # "NONE" => request[s].status # "NONE"
    BY <1>1, <2>1, <2>2 DEF Request
  <2>4. Drafts' \subseteq Drafts /\ Creators' \subseteq Creators BY <2>2, <2>3 DEF Drafts, Creators
  <2> QED BY <2>3, <2>4, ReachableStays
<1>7. ASSUME UNCHANGED <<request, tab>> PROVE Reachable'
  <2>1. Drafts' \subseteq Drafts /\ Creators' \subseteq Creators BY <1>7 DEF Drafts, Creators
  <2> QED BY <1>7, <2>1, ReachableStays
<1>8. ASSUME NEW t \in Tabs, Create(t) PROVE Reachable' BY <1>8, CreateReaches
<1>9. ASSUME NEW r \in Requests, CancelLoad(r) PROVE Reachable' BY <1>7, <1>9 DEF CancelLoad
<1>10. CASE UNCHANGED vars BY <1>7, <1>10 DEF vars
<1> QED BY <1>3, <1>4, <1>5, <1>6, <1>8, <1>9, <1>10 DEF Next, CallStep

\* No draft is pushed off the page the lookups read, so that a tab that finds
\* none knows there is none.  With more tabs than a page has rows this is false.
THEOREM LookUpsReach ==
    ASSUME Cardinality(Tabs) <= PageSize
    PROVE  Spec => []Reachable
<1>1. Init => Reachable
  <2>1. Init => Drafts = {} BY DEF Init, Drafts, NewRequest
  <2> QED BY <2>1 DEF Reachable
<1>2. IInv /\ Reachable /\ [Next]_vars => Reachable' BY NextReaches
<1> QED BY <1>1, <1>2, Invariance, PTL DEF Spec

\* At most one open draft for each tab, as long as the tabs a client has open are
\* no more than the rows of a page (LIST_PAGE_DEFAULT_LIMIT).
THEOREM OneDraftEach ==
    ASSUME Cardinality(Tabs) <= PageSize
    PROVE  Spec => []DraftPerTab
<1>1. ASSUME Reachable PROVE DraftPerTab
  <2>1. CASE Drafts = {}
    <3>1. Cardinality(Drafts) = 0 BY <2>1, FS_EmptySet
    <3> QED BY <3>1, Numbers DEF DraftPerTab
  <2>2. CASE Drafts # {}
    <3>1. PICK d \in Drafts : \A s \in Drafts : d <= s BY <2>2, Counts, Oldest
    <3>2. Drafts \ {d} \subseteq Newer(d)
      <4>1. \A s \in Drafts : s \in Nat BY Counts, Numbers DEF Requests
      <4>2. \A s \in Drafts \ {d} : s > d BY <3>1, <4>1
      <4> QED BY <4>2 DEF Newer, Drafts
    <3>3. /\ IsFiniteSet(Drafts \ {d}) /\ Cardinality(Drafts \ {d}) = Cardinality(Drafts) - 1
      BY <3>1, Counts, FS_RemoveElement
    <3>4. Cardinality(Drafts \ {d}) <= Cardinality(Newer(d)) BY <3>2, Counts, FS_Subset
    <3>5. Cardinality(Newer(d)) + Cardinality(Creators) < Cardinality(Tabs) BY <1>1, <3>1 DEF Reachable
    <3>6. Cardinality(Drafts) \in Nat BY Counts, FS_CardinalityType
    <3> QED BY <3>3, <3>4, <3>5, <3>6, Counts, Numbers DEF DraftPerTab
  <2> QED BY <2>1, <2>2
<1> QED BY <1>1, LookUpsReach, PTL
=============================================================================
