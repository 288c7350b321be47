---------------------------- MODULE Chat_proofs ----------------------------
(***************************************************************************)
(* Safety of the chat for any number of messages, handlers and faults, any *)
(* page size, and any mix of the modelled operations; and that the reader  *)
(* of dictated numbers always advances.                                    *)
(***************************************************************************)
EXTENDS ChatThread, NumberWords, FiniteSetTheorems, SequenceTheorems, TLAPS

(***************************************************************************)
(* What views, pushes and pages may carry, up to a sequence number.        *)
(***************************************************************************)
Views(n) == [id : Ids \cup {"none"}, seq : 0..n, version : Nat, deleted : BOOLEAN,
             text : Texts \cup {"plain", "masked", "none"}, edited : BOOLEAN,
             reactions : SUBSET Roles, tick : {"none", "SENT", "DELIVERED", "READ"}]

Marks     == [delivered : Nat, read : Nat]
Events(n) == [kind : {"message"}, view : Views(n)] \cup [kind : {"receipts"}, role : Roles, mark : Marks]
Fetches(n) == [kind : {"first", "catchUp"}, after : Nat, read : BOOLEAN,
               page : [views : SUBSET Views(n), more : BOOLEAN]]

(***************************************************************************)
(* The highest seq a tab holds exists: the seqs are bounded by the last    *)
(* one allocated, and a non-empty finite set of naturals has a maximum.    *)
(***************************************************************************)
LEMMA HasMaximum ==
  ASSUME NEW S \in SUBSET Nat, NEW n \in Nat, \A s \in S : s <= n, S # {}
  PROVE  \E m \in S : \A s \in S : s <= m
<1>. DEFINE Above(m) == {s \in S : s > m}
            Uppers   == {Above(m) : m \in S}
<1>1. IsFiniteSet(S)
  BY FS_BoundedSetOfNaturals
<1>2. IsWellFoundedOn(StrictSubsetOrdering(S), FiniteSubsetsOf(S))
  BY FS_StrictSubsetOrderingWellFounded
<1>3. FiniteSubsetsOf(S) = SUBSET S
  BY <1>1, FS_FiniteSubsetsOfFinite
<1>4. Uppers \subseteq SUBSET S /\ Uppers # {}
  OBVIOUS
<1>5. PICK U \in Uppers : \A T \in Uppers : <<T, U>> \notin StrictSubsetOrdering(S)
  <2>. DEFINE R == StrictSubsetOrdering(S)
              family == SUBSET S
  <2>1. IsWellFoundedOn(R, family)
    BY <1>2, <1>3
  <2>. HIDE DEF Uppers, R, family
  <2>2. \E U \in Uppers : \A T \in Uppers : <<T, U>> \notin R
    <3>1. Uppers \subseteq family
      BY <1>4 DEF family
    <3>. QED
      BY <2>1, <3>1, <1>4, WFMin
  <2>. QED
    BY <2>2 DEF R
<1>6. PICK m \in S : U = Above(m)
  BY <1>5
<1>7. ASSUME NEW s \in S, s > m PROVE FALSE
  <2>1. Above(s) \subseteq Above(m) /\ s \in Above(m) /\ s \notin Above(s)
    <3>1. \A x \in S : x > s => x > m
      BY <1>7
    <3>2. ~(s > s)
      OBVIOUS
    <3>. QED
      BY <1>7, <3>1, <3>2
  <2>2. Above(s) \in SUBSET S /\ Above(m) \in SUBSET S /\ Above(s) \in Uppers
    OBVIOUS
  <2>. HIDE DEF Above, Uppers
  <2>3. <<Above(s), Above(m)>> \in StrictSubsetOrdering(S)
    BY <2>1, <2>2 DEF StrictSubsetOrdering
  <2>. QED
    BY <1>5, <1>6, <2>2, <2>3
<1>. QED
  BY <1>7

LEMMA HighestBounded ==
  ASSUME NEW n \in Nat, NEW S \in SUBSET Views(n)
  PROVE  Highest(S) \in 0..n
<1>1. CASE S = {}
  BY <1>1 DEF Highest
<1>2. CASE S # {}
  <2>. DEFINE seqs == {v.seq : v \in S}
  <2>1. \A v \in S : v.seq \in 0..n
    BY DEF Views
  <2>2. seqs \in SUBSET Nat /\ (\A s \in seqs : s <= n) /\ seqs # {}
    BY <1>2, <2>1
  <2>3. \E m \in seqs : \A s \in seqs : s <= m
    <3>. HIDE DEF seqs
    <3>. QED
      BY <2>2, HasMaximum
  <2>4. \E m \in seqs : \A v \in S : v.seq <= m
    BY <2>3
  <2>5. Highest(S) = CHOOSE m \in seqs : \A v \in S : v.seq <= m
    BY <1>2 DEF Highest
  <2>6. Highest(S) \in seqs
    <3>. HIDE DEF seqs
    <3>. QED
      BY <2>4, <2>5
  <2>. QED
    BY <2>1, <2>6
<1>. QED
  BY <1>1, <1>2

LEMMA ViewTyped ==
  ASSUME NEW n \in Nat, NEW m \in MessageDocs, m.seq <= n, NEW r, NEW c
  PROVE  View(m, r, c) \in Views(n)
<1>1. Tick(m, r, c) \in {"none", "SENT", "DELIVERED", "READ"}
  BY DEF Tick
<1>2. m.seq \in 0..n
  BY DEF MessageDocs
<1>3. m.id \in Ids \cup {"none"} /\ m.version \in Nat /\ m.deleted \in BOOLEAN
      /\ m.text \in Texts \cup {"plain", "masked"} /\ m.edited \in BOOLEAN /\ m.reactions \in SUBSET Roles
  BY DEF MessageDocs
<1>. QED
  BY <1>1, <1>2, <1>3 DEF View, Views

LEMMA Wider ==
  ASSUME NEW n \in Nat, NEW k \in Nat, n <= k
  PROVE  /\ Views(n) \subseteq Views(k)
         /\ Events(n) \subseteq Events(k)
         /\ Fetches(n) \subseteq Fetches(k)
<1>1. Views(n) \subseteq Views(k)
  BY DEF Views
<1>. QED
  BY <1>1 DEF Events, Fetches

-----------------------------------------------------------------------------
(***************************************************************************)
(* Type correctness of the server.  What a handler carries is never ahead  *)
(* of the conversation: neither its seq nor the conversation it loaded.    *)
(***************************************************************************)
LocalsOK == /\ pc     \in [Handlers -> Labels]
            /\ caller \in [Handlers -> Roles]
            /\ conv   \in [Handlers -> ChatDocs]
            /\ base   \in [Handlers -> MessageDocs]
            /\ draft  \in [Handlers -> MessageDocs]
            /\ upTo   \in [Handlers -> Nat]

StoredOK == /\ chat \in ChatDocs
            /\ messages \subseteq MessageDocs
            /\ \A m \in messages : m.id \in Ids

SocketsOK == /\ online \subseteq Roles
             /\ \A r \in Roles \ online : rooms[r] = << >>

CarriedBy(q) == /\ draft[q].seq <= chat.lastSeq
                /\ conv[q].lastSeq <= chat.lastSeq
                /\ pc[q] \in Sending \cup {"insert"} => draft[q].id \in Ids
                /\ pc[q] \in {"edit", "remove", "react"} => draft[q].id \in Stored

Carried == /\ \A m \in messages : m.seq <= chat.lastSeq
           /\ \A q \in Handlers : CarriedBy(q)

ServerOK == LocalsOK /\ StoredOK /\ Carried

\* What no step undoes.
Grown == chat'.lastSeq >= chat.lastSeq /\ Stored \subseteq Stored'

\* A step of p leaves the other handlers alone.
Frame(p) == \A q \in Handlers \ {p} :
    /\ pc'[q] = pc[q] /\ caller'[q] = caller[q] /\ conv'[q] = conv[q]
    /\ base'[q] = base[q] /\ draft'[q] = draft[q] /\ upTo'[q] = upTo[q]

LEMMA TypeSplit == TypeOK <=> LocalsOK /\ StoredOK /\ SocketsOK
  BY DEF TypeOK, LocalsOK, StoredOK, SocketsOK

LEMMA Blank == NoMessage \in MessageDocs /\ NewChat \in ChatDocs /\ NewChat.lastSeq = 0 /\ NoMessage.seq = 0
<1>1. NoMarks \in [Roles -> [delivered : Nat, read : Nat]]
  BY DEF NoMarks
<1>2. NewChat \in ChatDocs /\ NewChat.lastSeq = 0
  BY <1>1 DEF NewChat, ChatDocs
<1>3. << >> \in Detections
  BY DEF Detections
<1>. QED
  BY <1>2, <1>3 DEF NoMessage, MessageDocs

LEMMA GoTyped ==
  ASSUME LocalsOK, NEW p \in Handlers, NEW l \in Labels, Go(p, l)
  PROVE  LocalsOK' /\ Frame(p) /\ pc'[p] = l /\ draft' = draft /\ conv' = conv
  BY DEF LocalsOK, Go, Frame

LEMMA HoldTyped ==
  ASSUME LocalsOK, NEW p \in Handlers, NEW l \in Labels, NEW m \in MessageDocs, Hold(p, m, l)
  PROVE  LocalsOK' /\ Frame(p) /\ pc'[p] = l /\ draft'[p] = m /\ conv' = conv
  BY DEF LocalsOK, Hold, Frame

LEMMA FinishTyped ==
  ASSUME LocalsOK, NEW p \in Handlers, Finish(p)
  PROVE  LocalsOK' /\ Frame(p) /\ pc'[p] = "idle" /\ draft'[p] = NoMessage /\ conv'[p] = NewChat
  BY Blank DEF LocalsOK, Finish, Frame, Labels, Roles

LEMMA EnterTyped ==
  ASSUME LocalsOK, StoredOK, NEW p \in Handlers, NEW r \in Roles, NEW m \in MessageDocs,
         NEW seq \in Nat, NEW l \in Labels, Enter(p, r, m, seq, l)
  PROVE  LocalsOK' /\ Frame(p) /\ pc'[p] = l /\ draft'[p] = m /\ conv'[p] = chat
  BY DEF LocalsOK, StoredOK, Enter, Frame

LEMMA Found ==
  ASSUME NEW i \in Stored
  PROVE  Find(i) \in messages /\ Find(i).id = i
<1>1. \E m \in messages : m.id = i
  BY DEF Stored
<1>. QED
  BY <1>1 DEF Find

\* The part of Carried that is about the other handlers.
LEMMA OthersCarried ==
  ASSUME LocalsOK, StoredOK, StoredOK', Carried, NEW p \in Handlers, Frame(p), Grown,
         NEW q \in Handlers, q # p
  PROVE  CarriedBy(q)'
<1>1. pc'[q] = pc[q] /\ draft'[q] = draft[q] /\ conv'[q] = conv[q] /\ CarriedBy(q)
  BY DEF Frame, Carried
<1>2. draft[q].seq \in Nat /\ conv[q].lastSeq \in Nat /\ chat.lastSeq \in Nat /\ chat'.lastSeq \in Nat
  BY DEF LocalsOK, StoredOK, MessageDocs, ChatDocs
<1>. QED
  BY <1>1, <1>2 DEF CarriedBy, Grown

\* A step of p that stores nothing new and takes no number.
LEMMA Unstored ==
  ASSUME ServerOK, NEW p \in Handlers, Frame(p), LocalsOK', UNCHANGED server, CarriedBy(p)'
  PROVE  ServerOK'
<1>1. StoredOK' /\ Grown
  BY DEF ServerOK, StoredOK, server, Grown, Stored, ChatDocs
<1>2. \A q \in Handlers : CarriedBy(q)'
  BY <1>1, OthersCarried DEF ServerOK
<1>3. \A m \in messages' : m.seq <= chat'.lastSeq
  BY DEF ServerOK, Carried, server
<1>. QED
  BY <1>1, <1>2, <1>3 DEF ServerOK, Carried

LEMMA Carrying ==
  ASSUME ServerOK, NEW p \in Handlers
  PROVE  /\ draft[p].seq <= chat.lastSeq /\ conv[p].lastSeq <= chat.lastSeq
         /\ draft[p].seq \in Nat /\ conv[p].lastSeq \in Nat /\ chat.lastSeq \in Nat
         /\ draft[p] \in MessageDocs /\ conv[p] \in ChatDocs /\ caller[p] \in Roles
         /\ pc[p] \in Sending \cup {"insert"} => draft[p].id \in Ids
         /\ pc[p] \in {"edit", "remove", "react"} => draft[p].id \in Stored
  BY DEF ServerOK, LocalsOK, StoredOK, Carried, CarriedBy, MessageDocs, ChatDocs

LEMMA FinishOK ==
  ASSUME ServerOK, NEW p \in Handlers, Finish(p), UNCHANGED server
  PROVE  ServerOK'
<1>1. LocalsOK' /\ Frame(p) /\ pc'[p] = "idle" /\ draft'[p] = NoMessage /\ conv'[p] = NewChat
  BY FinishTyped DEF ServerOK
<1>2. CarriedBy(p)'
  BY <1>1, Blank, Carrying DEF CarriedBy, Sending, server
<1>. QED
  BY <1>1, <1>2, Unstored

LEMMA EnterOK ==
  ASSUME ServerOK, NEW p \in Handlers, NEW r \in Roles, NEW m \in MessageDocs, m.seq = 0,
         NEW seq \in Nat, NEW l \in Labels \ {"insert"}, Enter(p, r, m, seq, l), UNCHANGED server,
         l \in Sending => m.id \in Ids,
         l \in {"edit", "remove", "react"} => m.id \in Stored
  PROVE  ServerOK'
<1>1. LocalsOK' /\ Frame(p) /\ pc'[p] = l /\ draft'[p] = m /\ conv'[p] = chat
  BY EnterTyped DEF ServerOK
<1>2. CarriedBy(p)'
  BY <1>1, Carrying DEF CarriedBy, server, Stored
<1>. QED
  BY <1>1, <1>2, Unstored

LEMMA HoldOK ==
  ASSUME ServerOK, NEW p \in Handlers, NEW m \in MessageDocs, m.seq <= chat.lastSeq,
         NEW l \in {"allocate", "publish", "answer"}, l = "allocate" => m.id \in Ids,
         Hold(p, m, l), UNCHANGED server
  PROVE  ServerOK'
<1>1. LocalsOK' /\ Frame(p) /\ pc'[p] = l /\ draft'[p] = m /\ conv' = conv
  BY HoldTyped DEF ServerOK, Labels, Sending
<1>2. CarriedBy(p)'
  BY <1>1, Carrying DEF CarriedBy, Sending, server
<1>. QED
  BY <1>1, <1>2, Unstored

LEMMA GoOK ==
  ASSUME ServerOK, NEW p \in Handlers, NEW l \in {"check", "save", "publish", "answer"},
         l = "check" => pc[p] = "replay", Go(p, l), UNCHANGED server
  PROVE  ServerOK'
<1>1. LocalsOK' /\ Frame(p) /\ pc'[p] = l /\ draft' = draft /\ conv' = conv
  BY GoTyped DEF ServerOK, Labels, Sending
<1>2. CarriedBy(p)'
  BY <1>1, Carrying DEF CarriedBy, Sending, server
<1>. QED
  BY <1>1, <1>2, Unstored

LEMMA ProtectTyped ==
  ASSUME NEW m \in MessageDocs, NEW policy
  PROVE  /\ Protect(m, policy) \in MessageDocs
         /\ Protect(m, policy).id = m.id /\ Protect(m, policy).seq = m.seq
         /\ Protect(m, policy).deleted = m.deleted
         /\ Moderated(m.redactions, Protect(m, policy).redactions)
         /\ policy = "PROTECTED" => Protect(m, policy).text \notin Details
<1>1. \A kind \in Details : Append(m.redactions, kind) \in Detections
  <2>1. m.redactions \in Detections
    BY DEF MessageDocs
  <2>. QED
    BY <2>1 DEF Detections
<1>2. ASSUME NEW list \in Detections
      PROVE  LET n == [m EXCEPT !.text = "masked", !.redactions = list]
             IN  /\ n \in MessageDocs /\ n.id = m.id /\ n.seq = m.seq /\ n.deleted = m.deleted
                 /\ n.text = "masked" /\ n.redactions = list
  BY DEF MessageDocs
<1>3. CASE policy = "PROTECTED" /\ m.text \in Details
  <2>1. PICK list : list = Append(m.redactions, m.text)
    OBVIOUS
  <2>2. list \in Detections
    BY <1>1, <1>3, <2>1
  <2>3. Protect(m, policy) = [m EXCEPT !.text = "masked", !.redactions = list]
    BY <1>3, <2>1 DEF Protect
  <2>4. "masked" \notin Details
    BY DEF Details
  <2>5. Moderated(m.redactions, list)
    BY <1>3, <2>1 DEF Moderated
  <2>6. PICK n : n = Protect(m, policy)
    OBVIOUS
  <2>7. /\ n \in MessageDocs /\ n.id = m.id /\ n.seq = m.seq /\ n.deleted = m.deleted
        /\ n.text = "masked" /\ n.redactions = list
    BY <1>2, <2>2, <2>3, <2>6
  <2>. QED
    BY <2>4, <2>5, <2>6, <2>7
<1>4. CASE ~(policy = "PROTECTED" /\ m.text \in Details)
  BY <1>4 DEF Protect, Moderated
<1>. QED
  BY <1>3, <1>4

LEMMA SendOK ==
  ASSUME ServerOK, NEW p \in Handlers, NEW i \in Ids, NEW text \in Texts, Send(p, i, text)
  PROVE  ServerOK'
<1>. DEFINE m == [NoMessage EXCEPT !.id = i, !.version = 1, !.text = text]
<1>1. m \in MessageDocs /\ m.seq = 0 /\ m.id = i
  BY Blank DEF NoMessage, MessageDocs
<1>2. Author[i] \in Roles
  BY ChatAssumption
<1>3. Enter(p, Author[i], m, 0, "replay") /\ UNCHANGED server
  BY DEF Send
<1>. HIDE DEF m
<1>. QED
  BY <1>1, <1>2, <1>3, EnterOK DEF Labels, Sending

LEMMA ReplayOK ==
  ASSUME ServerOK, NEW p \in Handlers, Replay(p)
  PROVE  ServerOK'
<1>1. CASE draft[p].id \in Stored
  <2>1. Find(draft[p].id) \in MessageDocs /\ Find(draft[p].id).seq <= chat.lastSeq
    BY <1>1, Found DEF ServerOK, StoredOK, Carried
  <2>. QED
    BY <1>1, <2>1, HoldOK DEF Replay
<1>2. CASE draft[p].id \notin Stored
  BY <1>2, GoOK DEF Replay
<1>. QED
  BY <1>1, <1>2

LEMMA CheckOK ==
  ASSUME ServerOK, NEW p \in Handlers, Check(p)
  PROVE  ServerOK'
<1>. DEFINE m == Protect(draft[p], conv[p].policy)
<1>1. m \in MessageDocs /\ m.seq <= chat.lastSeq /\ m.id \in Ids
  BY ProtectTyped, Carrying DEF Check, Sending
<1>2. (Hold(p, m, "allocate") \/ Finish(p)) /\ UNCHANGED server
  BY DEF Check
<1>. HIDE DEF m
<1>. QED
  BY <1>1, <1>2, HoldOK, FinishOK

LEMMA AllocateOK ==
  ASSUME ServerOK, NEW p \in Handlers, AllocateSeq(p)
  PROVE  ServerOK'
<1>1. chat \in ChatDocs /\ chat.lastSeq \in Nat
  BY DEF ServerOK, StoredOK, ChatDocs
<1>2. chat' \in ChatDocs /\ chat'.lastSeq = chat.lastSeq + 1 /\ messages' = messages
  BY <1>1 DEF AllocateSeq, NextSeq, ChatDocs
<1>3. draft'[p] \in MessageDocs /\ draft'[p].seq = chat.lastSeq + 1 /\ draft'[p].id = draft[p].id
      /\ draft' = [draft EXCEPT ![p] = draft'[p]]
  <2>1. draft[p] \in MessageDocs /\ draft \in [Handlers -> MessageDocs]
    BY DEF ServerOK, LocalsOK
  <2>. QED
    BY <1>1, <2>1 DEF AllocateSeq, NextSeq, MessageDocs
<1>4. LocalsOK' /\ Frame(p) /\ conv'[p] = chat' /\ pc'[p] = "insert"
  BY <1>2, <1>3 DEF AllocateSeq, ServerOK, LocalsOK, Frame, Labels
<1>5. StoredOK' /\ Grown
  BY <1>1, <1>2 DEF ServerOK, StoredOK, Grown, Stored
<1>6. CarriedBy(p)'
  BY <1>1, <1>2, <1>3, <1>4, Carrying DEF CarriedBy, AllocateSeq, Sending
<1>7. \A q \in Handlers : CarriedBy(q)'
  BY <1>4, <1>5, <1>6, OthersCarried DEF ServerOK
<1>8. \A m \in messages' : m.seq <= chat'.lastSeq
  <2>. SUFFICES ASSUME NEW m \in messages PROVE m.seq <= chat'.lastSeq
    BY <1>2
  <2>1. m.seq \in Nat /\ m.seq <= chat.lastSeq
    BY DEF ServerOK, StoredOK, Carried, MessageDocs
  <2>. QED
    BY <1>1, <1>2, <2>1
<1>. QED
  BY <1>4, <1>5, <1>7, <1>8 DEF ServerOK, Carried

\* A step of p that stores messages and takes no number.
LEMMA StoredAnew ==
  ASSUME ServerOK, NEW p \in Handlers, Frame(p), LocalsOK', chat' = chat, Stored \subseteq Stored',
         \A m \in messages' : m \in MessageDocs /\ m.id \in Ids /\ m.seq <= chat.lastSeq, CarriedBy(p)'
  PROVE  ServerOK'
<1>1. StoredOK' /\ Grown
  BY DEF ServerOK, StoredOK, Grown, ChatDocs
<1>2. \A q \in Handlers : CarriedBy(q)'
  BY <1>1, OthersCarried DEF ServerOK
<1>. QED
  BY <1>1, <1>2 DEF ServerOK, Carried

LEMMA InsertOK ==
  ASSUME ServerOK, NEW p \in Handlers, InsertOnce(p)
  PROVE  ServerOK'
<1>1. CASE AlreadyStored(draft[p])
  <2>1. Find(draft[p].id) \in MessageDocs /\ Find(draft[p].id).seq <= chat.lastSeq
    BY <1>1, Found DEF ServerOK, StoredOK, Carried, AlreadyStored
  <2>. QED
    BY <1>1, <2>1, HoldOK DEF InsertOnce, server
<1>2. CASE ~AlreadyStored(draft[p])
  <2>1. messages' = messages \cup {draft[p]} /\ Go(p, "publish") /\ chat' = chat /\ pc[p] = "insert"
    BY <1>2 DEF InsertOnce
  <2>2. LocalsOK' /\ Frame(p) /\ pc'[p] = "publish" /\ draft' = draft /\ conv' = conv
    BY <2>1, GoTyped DEF ServerOK, Labels
  <2>3. CarriedBy(p)'
    BY <2>1, <2>2, Carrying DEF CarriedBy, Sending
  <2>4. \A m \in messages' : m \in MessageDocs /\ m.id \in Ids /\ m.seq <= chat.lastSeq
    BY <2>1, Carrying DEF ServerOK, StoredOK, Carried
  <2>5. Stored \subseteq Stored'
    BY <2>1 DEF Stored
  <2>. QED
    BY <2>1, <2>2, <2>3, <2>4, <2>5, StoredAnew
<1>. QED
  BY <1>1, <1>2

LEMMA PublishOK ==
  ASSUME ServerOK, NEW p \in Handlers, Publish(p)
  PROVE  ServerOK'
  BY GoOK DEF Publish

LEMMA ChangeOK ==
  ASSUME ServerOK, NEW p \in Handlers, NEW m \in messages, Change(p, m)
  PROVE  ServerOK'
<1>. DEFINE wish == [NoMessage EXCEPT !.id = m.id]
<1>1. m.id \in Ids /\ m.id \in Stored /\ Author[m.id] \in Roles
  BY ChatAssumption DEF ServerOK, StoredOK, Stored
<1>2. wish \in MessageDocs /\ wish.seq = 0 /\ wish.id = m.id
  BY <1>1, Blank DEF NoMessage, MessageDocs
<1>3. \A text \in Texts : LET w == [wish EXCEPT !.text = text]
                          IN  w \in MessageDocs /\ w.seq = 0 /\ w.id = m.id
  BY <1>2 DEF MessageDocs
<1>4. \A on \in BOOLEAN, r \in Roles :
        LET w == [wish EXCEPT !.reactions = IF on THEN {r} ELSE {}]
        IN  w \in MessageDocs /\ w.seq = 0 /\ w.id = m.id
  BY <1>2 DEF MessageDocs
<1>5. UNCHANGED server
  BY DEF Change
<1>6. \/ \E text \in Texts : Enter(p, Author[m.id], [wish EXCEPT !.text = text], 0, "edit")
      \/ Enter(p, Author[m.id], wish, 0, "remove")
      \/ \E r \in Roles, on \in BOOLEAN :
            Enter(p, r, [wish EXCEPT !.reactions = IF on THEN {r} ELSE {}], 0, "react")
  BY DEF Change
<1>7. \A l \in {"edit", "remove", "react"} : l \in Labels \ {"insert"} /\ l \notin Sending
  BY DEF Labels, Sending
<1>. HIDE DEF wish
<1>8. ASSUME NEW text \in Texts, Enter(p, Author[m.id], [wish EXCEPT !.text = text], 0, "edit")
      PROVE  ServerOK'
  BY <1>1, <1>3, <1>5, <1>7, <1>8, EnterOK
<1>9. ASSUME Enter(p, Author[m.id], wish, 0, "remove") PROVE ServerOK'
  BY <1>1, <1>2, <1>5, <1>7, <1>9, EnterOK
<1>10. ASSUME NEW r \in Roles, NEW on \in BOOLEAN,
              Enter(p, r, [wish EXCEPT !.reactions = IF on THEN {r} ELSE {}], 0, "react")
       PROVE  ServerOK'
  BY <1>1, <1>4, <1>5, <1>7, <1>10, EnterOK
<1>. QED
  BY <1>6, <1>8, <1>9, <1>10

\* What the three changes make of a message that is not deleted.
LEMMA ChangedTyped ==
  ASSUME NEW m \in MessageDocs, NEW policy, NEW text \in Texts \cup {"plain", "masked"},
         NEW r \in Roles, NEW on \in BOOLEAN,
         NEW c \in {Edited(m, policy, text), Removed(m), Reacted(m, r, on)}
  PROVE  c \in MessageDocs /\ c.id = m.id /\ c.seq = m.seq /\ Moderated(m.redactions, c.redactions)
<1>0. m.version + 1 \in Nat
  BY DEF MessageDocs
<1>1. CASE c = Edited(m, policy, text)
  <2>. DEFINE e == [m EXCEPT !.text = text, !.edited = TRUE, !.version = @ + 1]
  <2>1. e \in MessageDocs /\ e.id = m.id /\ e.seq = m.seq /\ e.redactions = m.redactions
    <3>1. \A v \in Nat : LET x == [m EXCEPT !.text = text, !.edited = TRUE, !.version = v]
                          IN  x \in MessageDocs /\ x.id = m.id /\ x.seq = m.seq /\ x.redactions = m.redactions
      BY DEF MessageDocs
    <3>. QED
      BY <1>0, <3>1
  <2>2. c = Protect(e, policy)
    BY <1>1 DEF Edited
  <2>. HIDE DEF e
  <2>. QED
    BY <2>1, <2>2, ProtectTyped
<1>2. CASE c = Removed(m)
  <2>1. \A v \in Nat : LET x == [m EXCEPT !.deleted = TRUE, !.version = v]
                        IN  x \in MessageDocs /\ x.id = m.id /\ x.seq = m.seq /\ x.redactions = m.redactions
    BY DEF MessageDocs
  <2>. QED
    BY <1>0, <1>2, <2>1 DEF Removed, Moderated
<1>3. CASE c = Reacted(m, r, on)
  <2>1. (IF on THEN m.reactions \cup {r} ELSE m.reactions \ {r}) \in SUBSET Roles
    BY DEF MessageDocs
  <2>2. \A v \in Nat, rs \in SUBSET Roles :
           LET x == [m EXCEPT !.reactions = rs, !.version = v]
           IN  x \in MessageDocs /\ x.id = m.id /\ x.seq = m.seq /\ x.redactions = m.redactions
    BY DEF MessageDocs
  <2>. QED
    BY <1>0, <1>3, <2>1, <2>2 DEF Reacted, Moderated
<1>. QED
  BY <1>1, <1>2, <1>3

\* A message loaded and changed in memory, or the end of the request.
LEMMA Loads ==
  ASSUME ServerOK, NEW p \in Handlers, LoadMessage(p)
  PROVE  \/ Finish(p)
         \/ \E m \in messages : \E c \in MessageDocs :
              /\ ~m.deleted /\ c.id = m.id /\ c.seq = m.seq /\ Moderated(m.redactions, c.redactions)
              /\ \/ \E text : c = Edited(m, conv[p].policy, text)
                 \/ c.text = m.text
              /\ pc' = [pc EXCEPT ![p] = pc'[p]] /\ pc'[p] \in {"save", "checkSave"}
              /\ base' = [base EXCEPT ![p] = m] /\ draft' = [draft EXCEPT ![p] = c]
              /\ UNCHANGED <<caller, conv, upTo>>
<1>. DEFINE m == Find(draft[p].id)
            on == draft[p].reactions # {}
            c == CASE pc[p] = "edit"   -> Edited(m, conv[p].policy, draft[p].text)
                   [] pc[p] = "remove" -> Removed(m)
                   [] pc[p] = "react"  -> Reacted(m, caller[p], on)
<1>1. pc[p] \in {"edit", "remove", "react"} /\ pc \in [Handlers -> Labels]
  BY DEF LoadMessage, ServerOK, LocalsOK
<1>2. m \in messages /\ m \in MessageDocs
  BY <1>1, Carrying, Found DEF ServerOK, StoredOK
<1>3. draft[p].text \in Texts \cup {"plain", "masked"} /\ caller[p] \in Roles
  BY Carrying DEF MessageDocs
<1>4. c \in {Edited(m, conv[p].policy, draft[p].text), Removed(m), Reacted(m, caller[p], on)}
  BY <1>1
<1>5. c \in MessageDocs /\ c.id = m.id /\ c.seq = m.seq /\ Moderated(m.redactions, c.redactions)
  <2>. HIDE DEF c, m, on
  <2>1. on \in BOOLEAN
    BY DEF on
  <2>. QED
    BY <1>2, <1>3, <1>4, <2>1, ChangedTyped
<1>6. c = Edited(m, conv[p].policy, draft[p].text) \/ c.text = m.text
  <2>. HIDE DEF c, m
  <2>. QED
    BY <1>2, <1>4 DEF Removed, Reacted, MessageDocs
<1>7. CASE m.deleted
  BY <1>7 DEF LoadMessage
<1>8. CASE ~m.deleted
  <2>1. /\ pc' = [pc EXCEPT ![p] = IF @ = "remove" THEN "save" ELSE "checkSave"]
        /\ base' = [base EXCEPT ![p] = m] /\ draft' = [draft EXCEPT ![p] = c]
        /\ UNCHANGED <<caller, conv, upTo>>
    BY <1>8 DEF LoadMessage
  <2>2. pc' = [pc EXCEPT ![p] = pc'[p]] /\ pc'[p] \in {"save", "checkSave"}
    BY <1>1, <2>1
  <2>. HIDE DEF c, m
  <2>. QED
    BY <1>2, <1>5, <1>6, <1>8, <2>1, <2>2
<1>. QED
  BY <1>7, <1>8

LEMMA LoadOK ==
  ASSUME ServerOK, NEW p \in Handlers, LoadMessage(p)
  PROVE  ServerOK'
<1>1. UNCHANGED server
  BY DEF LoadMessage
<1>2. ASSUME NEW m \in messages, NEW c \in MessageDocs, c.seq = m.seq,
             pc' = [pc EXCEPT ![p] = pc'[p]] /\ pc'[p] \in {"save", "checkSave"},
             base' = [base EXCEPT ![p] = m] /\ draft' = [draft EXCEPT ![p] = c],
             UNCHANGED <<caller, conv, upTo>>
      PROVE  ServerOK'
  <2>1. m \in MessageDocs /\ m.seq <= chat.lastSeq
    BY DEF ServerOK, StoredOK, Carried
  <2>2. LocalsOK' /\ Frame(p)
    BY <1>2, <2>1 DEF ServerOK, LocalsOK, Labels, Frame
  <2>3. draft'[p] = c /\ conv' = conv
    BY <1>2 DEF ServerOK, LocalsOK
  <2>4. CarriedBy(p)'
    BY <1>1, <1>2, <2>1, <2>3, Carrying DEF CarriedBy, Sending, server
  <2>. QED
    BY <1>1, <2>2, <2>4, Unstored
<1>. QED
  BY <1>1, <1>2, Loads, FinishOK

LEMMA CheckSaveOK ==
  ASSUME ServerOK, NEW p \in Handlers, CheckSave(p)
  PROVE  ServerOK'
  BY GoOK, FinishOK DEF CheckSave

Written(m, v, t, e, x, rs, d) ==
    [m EXCEPT !.version = v, !.text = t, !.edited = e, !.redactions = x, !.reactions = rs, !.deleted = d]

LEMMA WrittenTyped ==
  \A m \in MessageDocs, v \in Nat, t \in Texts \cup {"plain", "masked"}, e \in BOOLEAN,
     x \in Detections, rs \in SUBSET Roles, d \in BOOLEAN :
    /\ Written(m, v, t, e, x, rs, d) \in MessageDocs
    /\ Written(m, v, t, e, x, rs, d).id = m.id
    /\ Written(m, v, t, e, x, rs, d).seq = m.seq
    /\ Written(m, v, t, e, x, rs, d).text = t
    /\ Written(m, v, t, e, x, rs, d).deleted = d
    /\ Written(m, v, t, e, x, rs, d).redactions = x
<1>. TAKE m \in MessageDocs, v \in Nat, t \in Texts \cup {"plain", "masked"}, e \in BOOLEAN,
          x \in Detections, rs \in SUBSET Roles, d \in BOOLEAN
<1>. DEFINE n1 == [m EXCEPT !.version = v, !.text = t, !.edited = e]
            n2 == [n1 EXCEPT !.redactions = x, !.reactions = rs, !.deleted = d]
<1>1. n1 \in MessageDocs /\ n1.id = m.id /\ n1.seq = m.seq /\ n1.text = t
  BY DEF MessageDocs
<1>2. Written(m, v, t, e, x, rs, d) = n2
  BY Zenon DEF Written
<1>. HIDE DEF n1
<1>3. n2 \in MessageDocs /\ n2.id = n1.id /\ n2.seq = n1.seq /\ n2.text = n1.text
      /\ n2.deleted = d /\ n2.redactions = x
  BY <1>1 DEF MessageDocs
<1>. HIDE DEF n2
<1>. QED
  BY <1>1, <1>2, <1>3

\* The stored message m after the save of p.
Merged(p, m) ==
    Written(m, SetIfModified(base[p].version, draft[p].version, m.version),
               SetIfModified(base[p].text, draft[p].text, m.text),
               SetIfModified(base[p].edited, draft[p].edited, m.edited),
               SetIfModified(base[p].redactions, draft[p].redactions, m.redactions),
               SetIfModified(base[p].reactions, draft[p].reactions, m.reactions),
               SetIfModified(base[p].deleted, draft[p].deleted, m.deleted))

LEMMA MergedTyped ==
  ASSUME LocalsOK, NEW p \in Handlers, NEW m \in MessageDocs
  PROVE  /\ Merged(p, m) \in MessageDocs
         /\ Merged(p, m).id = m.id /\ Merged(p, m).seq = m.seq
         /\ Merged(p, m).text \in {m.text, draft[p].text}
         /\ Merged(p, m).deleted = SetIfModified(base[p].deleted, draft[p].deleted, m.deleted)
         /\ Merged(p, m).redactions = SetIfModified(base[p].redactions, draft[p].redactions, m.redactions)
<1>1. base[p] \in MessageDocs /\ draft[p] \in MessageDocs
  BY DEF LocalsOK
<1>. DEFINE v  == SetIfModified(base[p].version, draft[p].version, m.version)
            t  == SetIfModified(base[p].text, draft[p].text, m.text)
            e  == SetIfModified(base[p].edited, draft[p].edited, m.edited)
            x  == SetIfModified(base[p].redactions, draft[p].redactions, m.redactions)
            rs == SetIfModified(base[p].reactions, draft[p].reactions, m.reactions)
            d  == SetIfModified(base[p].deleted, draft[p].deleted, m.deleted)
<1>2. /\ v \in Nat /\ t \in Texts \cup {"plain", "masked"} /\ e \in BOOLEAN /\ x \in Detections
      /\ rs \in SUBSET Roles /\ d \in BOOLEAN
  BY <1>1 DEF SetIfModified, MessageDocs
<1>3. t \in {m.text, draft[p].text}
  BY DEF SetIfModified
<1>4. Merged(p, m) = Written(m, v, t, e, x, rs, d)
  BY Zenon DEF Merged
<1>. HIDE DEF v, t, e, x, rs, d
<1>5. /\ Written(m, v, t, e, x, rs, d) \in MessageDocs
      /\ Written(m, v, t, e, x, rs, d).id = m.id
      /\ Written(m, v, t, e, x, rs, d).seq = m.seq
      /\ Written(m, v, t, e, x, rs, d).text = t
      /\ Written(m, v, t, e, x, rs, d).deleted = d
      /\ Written(m, v, t, e, x, rs, d).redactions = x
  BY <1>2, WrittenTyped
<1>6. /\ Merged(p, m) \in MessageDocs
      /\ Merged(p, m).id = m.id /\ Merged(p, m).seq = m.seq
      /\ Merged(p, m).text \in {m.text, draft[p].text}
      /\ Merged(p, m).deleted = d /\ Merged(p, m).redactions = x
  BY <1>3, <1>4, <1>5, Zenon
<1>. QED
  BY <1>6, Zenon DEF d, x

LEMMA Saves ==
  ASSUME NEW p \in Handlers, SaveMessage(p)
  PROVE  messages' = {IF m.id = draft[p].id THEN Merged(p, m) ELSE m : m \in messages}
  BY DEF SaveMessage, Merged, Written

\* A save keeps the identity of every message.
LEMMA SavedAll ==
  ASSUME ServerOK, NEW p \in Handlers, SaveMessage(p)
  PROVE  /\ \A n \in messages' : \E m \in messages :
               /\ n.id = m.id /\ n.seq = m.seq /\ n \in MessageDocs
               /\ n = m \/ n = Merged(p, m)
         /\ \A m \in messages : \E n \in messages' : n.id = m.id
<1>1. messages' = {IF m.id = draft[p].id THEN Merged(p, m) ELSE m : m \in messages}
  BY Saves
<1>2. \A m \in messages : m \in MessageDocs /\ Merged(p, m) \in MessageDocs
                           /\ Merged(p, m).id = m.id /\ Merged(p, m).seq = m.seq
  BY MergedTyped DEF ServerOK, StoredOK
<1>. QED
  BY <1>1, <1>2

LEMMA SaveOK ==
  ASSUME ServerOK, NEW p \in Handlers, SaveMessage(p)
  PROVE  ServerOK'
<1>1. Go(p, "publish") /\ chat' = chat /\ pc[p] = "save"
  BY DEF SaveMessage
<1>2. LocalsOK' /\ Frame(p) /\ pc'[p] = "publish" /\ draft' = draft /\ conv' = conv
  BY <1>1, GoTyped DEF ServerOK, Labels
<1>3. CarriedBy(p)'
  BY <1>1, <1>2, Carrying DEF CarriedBy, Sending
<1>4. Stored \subseteq Stored'
  BY SavedAll DEF Stored
<1>5. \A m \in messages' : m \in MessageDocs /\ m.id \in Ids /\ m.seq <= chat.lastSeq
  BY SavedAll DEF ServerOK, StoredOK, Carried
<1>. QED
  BY <1>1, <1>2, <1>3, <1>4, <1>5, StoredAnew

LEMMA AcknowledgeOK ==
  ASSUME ServerOK, NEW p \in Handlers, NEW r \in Roles, NEW seq \in Nat,
         NEW l \in {"markDelivered", "markRead"}, Acknowledge(p, r, seq, l)
  PROVE  ServerOK'
  BY Blank, EnterOK DEF Acknowledge, Labels, Sending

LEMMA AdvanceCases ==
  ASSUME ServerOK, NEW p \in Handlers, AdvanceWatermarks(p)
  PROVE  \E mark \in Marks :
           /\ LET r == caller[p] IN
              /\ chat' = [chat EXCEPT !.marks[r] = mark]
              /\ mark.delivered >= chat.marks[r].delivered /\ mark.read >= chat.marks[r].read
              /\ mark.delivered <= chat.marks[r].delivered \/ mark.delivered <= chat.lastSeq
              /\ chat.marks[r].read <= chat.marks[r].delivered => mark.read <= mark.delivered
           /\ chat' \in ChatDocs /\ chat'.lastSeq = chat.lastSeq /\ chat'.policy = chat.policy
           /\ chat'.marks = [chat.marks EXCEPT ![caller[p]] = mark]
           /\ messages' = messages
<1>. DEFINE r == caller[p]
            seq == Clamp(upTo[p], conv[p])
            mark == [delivered |-> Raise(chat.marks[r].delivered, seq),
                     read      |-> IF pc[p] = "markRead" THEN Raise(chat.marks[r].read, seq)
                                                         ELSE chat.marks[r].read]
<1>1. chat \in ChatDocs /\ r \in Roles /\ upTo[p] \in Nat /\ conv[p].lastSeq \in Nat
      /\ conv[p].lastSeq <= chat.lastSeq /\ chat.lastSeq \in Nat
  BY Carrying DEF ServerOK, StoredOK, LocalsOK
<1>2. seq \in Nat /\ seq <= chat.lastSeq
  BY <1>1 DEF Clamp
<1>3. chat.marks[r].delivered \in Nat /\ chat.marks[r].read \in Nat /\ chat.marks \in [Roles -> Marks]
  BY <1>1 DEF ChatDocs, Marks
<1>. HIDE DEF seq, r
<1>4. /\ mark \in Marks
      /\ mark.delivered >= chat.marks[r].delivered /\ mark.read >= chat.marks[r].read
      /\ mark.delivered <= chat.marks[r].delivered \/ mark.delivered <= chat.lastSeq
      /\ chat.marks[r].read <= chat.marks[r].delivered => mark.read <= mark.delivered
  BY <1>2, <1>3 DEF Raise, Marks
<1>5. chat' = [chat EXCEPT !.marks[r] = mark] /\ messages' = messages
  BY DEF AdvanceWatermarks, r, seq
<1>. HIDE DEF mark
<1>6. [chat.marks EXCEPT ![r] = mark] \in [Roles -> Marks]
  BY <1>3, <1>4
<1>7. chat' = [chat EXCEPT !.marks = [chat.marks EXCEPT ![r] = mark]]
  BY <1>5
<1>8. chat' \in ChatDocs /\ chat'.lastSeq = chat.lastSeq /\ chat'.policy = chat.policy
      /\ chat'.marks = [chat.marks EXCEPT ![r] = mark]
  BY <1>1, <1>6, <1>7 DEF ChatDocs, Marks
<1>. QED
  BY <1>4, <1>5, <1>8 DEF r

\* The conversation changes, the messages do not, no number is taken.
LEMMA Unnumbered ==
  ASSUME ServerOK, chat' \in ChatDocs, chat'.lastSeq = chat.lastSeq, messages' = messages
  PROVE  StoredOK' /\ Grown /\ (\A m \in messages' : m.seq <= chat'.lastSeq)
  BY DEF ServerOK, StoredOK, Carried, Grown, Stored, ChatDocs

LEMMA AdvanceOK ==
  ASSUME ServerOK, NEW p \in Handlers, AdvanceWatermarks(p)
  PROVE  ServerOK'
<1>1. chat' \in ChatDocs /\ chat'.lastSeq = chat.lastSeq /\ messages' = messages
  BY AdvanceCases
<1>2. \/ Finish(p)
      \/ /\ pc' = [pc EXCEPT ![p] = "announce"] /\ conv' = [conv EXCEPT ![p] = chat']
         /\ UNCHANGED <<caller, base, draft, upTo>>
  BY DEF AdvanceWatermarks
<1>3. LocalsOK' /\ Frame(p) /\ CarriedBy(p)'
  <2>1. CASE Finish(p)
    <3>1. LocalsOK' /\ Frame(p) /\ pc'[p] = "idle" /\ draft'[p] = NoMessage /\ conv'[p] = NewChat
      BY <2>1, FinishTyped DEF ServerOK
    <3>. QED
      BY <1>1, <3>1, Blank, Carrying DEF CarriedBy, Sending
  <2>2. CASE /\ pc' = [pc EXCEPT ![p] = "announce"] /\ conv' = [conv EXCEPT ![p] = chat']
             /\ UNCHANGED <<caller, base, draft, upTo>>
    <3>1. LocalsOK' /\ Frame(p) /\ pc'[p] = "announce" /\ draft' = draft /\ conv'[p] = chat'
      BY <1>1, <2>2 DEF ServerOK, LocalsOK, Labels, Frame
    <3>. QED
      BY <1>1, <3>1, Carrying DEF CarriedBy, Sending
  <2>. QED
    BY <1>2, <2>1, <2>2
<1>4. \A q \in Handlers : CarriedBy(q)'
  BY <1>1, <1>3, Unnumbered, OthersCarried DEF ServerOK
<1>. QED
  BY <1>1, <1>3, <1>4, Unnumbered DEF ServerOK, Carried

LEMMA OutsideOK ==
  ASSUME ServerOK, Outside
  PROVE  ServerOK'
<1>1. chat' \in ChatDocs /\ chat'.lastSeq = chat.lastSeq /\ messages' = messages /\ UNCHANGED locals
  BY DEF Outside, UnlockContact, CloseRequest, ChangeCandidacy, ServerOK, StoredOK, ChatDocs
<1>2. LocalsOK' /\ \A q \in Handlers : CarriedBy(q)'
  BY <1>1 DEF ServerOK, LocalsOK, Carried, CarriedBy, locals, Stored
<1>. QED
  BY <1>1, <1>2, Unnumbered DEF ServerOK, Carried

-----------------------------------------------------------------------------
(***************************************************************************)
(* Type correctness of the tabs and of what is on its way to them.         *)
(***************************************************************************)
TabsOK == /\ held    \in [Roles -> SUBSET Views(chat.lastSeq)]
          /\ rooms   \in [Roles -> Seq(Events(chat.lastSeq))]
          /\ fetches \in [Roles -> SUBSET Fetches(chat.lastSeq)]

Sound == ServerOK /\ SocketsOK /\ TabsOK

LEMMA LastSeqTyped == ServerOK => chat.lastSeq \in Nat
  BY DEF ServerOK, StoredOK, ChatDocs

LEMMA Wider3 ==
  ASSUME TabsOK, NEW n \in Nat, chat.lastSeq \in Nat, chat.lastSeq <= n
  PROVE  /\ held    \in [Roles -> SUBSET Views(n)]
         /\ rooms   \in [Roles -> Seq(Events(n))]
         /\ fetches \in [Roles -> SUBSET Fetches(n)]
<1>1. /\ Views(chat.lastSeq) \subseteq Views(n)
      /\ Events(chat.lastSeq) \subseteq Events(n)
      /\ Fetches(chat.lastSeq) \subseteq Fetches(n)
  BY Wider
<1>2. \A r \in Roles : rooms[r] \in Seq(Events(n))
  BY <1>1, SeqMonotonic DEF TabsOK
<1>. QED
  BY <1>1, <1>2 DEF TabsOK

LEMMA Widen ==
  ASSUME TabsOK, chat.lastSeq \in Nat, chat'.lastSeq \in Nat, chat.lastSeq <= chat'.lastSeq,
         UNCHANGED <<held, rooms, fetches>>
  PROVE  TabsOK'
  BY Wider3 DEF TabsOK

LEMMA Pushed ==
  ASSUME TabsOK, SocketsOK, NEW events, \A r \in Roles : events[r] \in Events(chat.lastSeq),
         Push(events), chat' = chat, UNCHANGED <<online, held, fetches>>
  PROVE  TabsOK' /\ SocketsOK'
<1>1. \A r \in Roles : Append(rooms[r], events[r]) \in Seq(Events(chat.lastSeq))
  BY AppendProperties DEF TabsOK
<1>2. rooms' \in [Roles -> Seq(Events(chat.lastSeq))]
  BY <1>1 DEF Push, TabsOK
<1>. QED
  BY <1>2 DEF TabsOK, SocketsOK, Push

LEMMA PublishedTyped ==
  ASSUME Sound, NEW p \in Handlers, Publish(p), UNCHANGED tab
  PROVE  TabsOK' /\ SocketsOK'
<1>1. \A r \in Roles : View(draft[p], r, conv[p]) \in Views(chat.lastSeq)
  BY Carrying, ViewTyped DEF Sound
<1>2. \A r \in Roles : MessageEvents(draft[p], conv[p])[r] \in Events(chat.lastSeq)
  BY <1>1 DEF MessageEvents, Events
<1>. QED
  BY <1>2, Pushed DEF Sound, Publish, server, tab

LEMMA AnnouncedTyped ==
  ASSUME Sound, NEW p \in Handlers, Announce(p), UNCHANGED tab
  PROVE  TabsOK' /\ SocketsOK'
<1>1. caller[p] \in Roles /\ conv[p].marks[caller[p]] \in Marks
  BY Carrying DEF Sound, ChatDocs, Marks
<1>2. \A r \in Roles : ReceiptsEvents(caller[p], conv[p].marks[caller[p]])[r] \in Events(chat.lastSeq)
  BY <1>1 DEF ReceiptsEvents, Events
<1>. QED
  BY <1>2, Pushed DEF Sound, Announce, server, tab

LEMMA UpsertTyped ==
  ASSUME NEW n, NEW a \in SUBSET Views(n), NEW b \in SUBSET Views(n)
  PROVE  Upsert(a, b) \in SUBSET Views(n)
  BY DEF Upsert

LEMMA ReceiptsTyped ==
  ASSUME NEW n, NEW a \in SUBSET Views(n), NEW e, NEW r
  PROVE  ApplyReceipts(a, e, r) \in SUBSET Views(n)
<1>1. ASSUME NEW m \in Views(n), NEW t \in {"SENT", "DELIVERED", "READ"}
      PROVE  [m EXCEPT !.tick = t] \in Views(n)
  BY DEF Views
<1>. QED
  BY <1>1 DEF ApplyReceipts

LEMMA PageTyped ==
  ASSUME ServerOK, NEW f, NEW r
  PROVE  Page(f, r) \in [views : SUBSET Views(chat.lastSeq), more : BOOLEAN]
<1>1. \A m \in messages : View(m, r, chat) \in Views(chat.lastSeq)
  BY ViewTyped, LastSeqTyped DEF ServerOK, StoredOK, Carried
<1>. QED
  BY <1>1 DEF Page

LEMMA FetchTyped ==
  ASSUME NEW n \in Nat, NEW kind \in {"first", "catchUp"}, NEW after \in 0..n
  PROVE  Fetch(kind, after) \in Fetches(n)
  BY DEF Fetch, Fetches

LEMMA AskedTyped ==
  ASSUME Sound, NEW r \in Tabs, AskFirstPage(r) \/ Connect(r)
  PROVE  TabsOK' /\ SocketsOK'
<1>. USE LastSeqTyped, ThreadAssumption DEF Sound
<1>1. chat' = chat /\ held' = held /\ rooms' = rooms
  BY DEF AskFirstPage, Connect, server, sockets
<1>2. Highest(held[r]) \in 0..chat.lastSeq
  BY HighestBounded DEF TabsOK
<1>3. Fetch("first", 0) \in Fetches(chat.lastSeq) /\ Fetch("catchUp", CatchUpCursor(r)) \in Fetches(chat.lastSeq)
  BY <1>2, FetchTyped DEF CatchUpCursor
<1>4. fetches' \in [Roles -> SUBSET Fetches(chat.lastSeq)]
  <2>. DEFINE F == Fetches(chat.lastSeq)
  <2>1. PICK more : more \in SUBSET F /\ fetches' = [fetches EXCEPT ![r] = @ \cup more]
    <3>1. ASSUME AskFirstPage(r) PROVE fetches' = [fetches EXCEPT ![r] = @ \cup {Fetch("first", 0)}]
      BY <3>1 DEF AskFirstPage
    <3>2. ASSUME Connect(r)
          PROVE  fetches' = [fetches EXCEPT ![r] = @ \cup (IF loaded[r] THEN {Fetch("catchUp", CatchUpCursor(r))} ELSE {})]
      BY <3>2 DEF Connect
    <3>. QED
      BY <1>3, <3>1, <3>2
  <2>2. fetches \in [Roles -> SUBSET F] /\ r \in Roles
    BY DEF TabsOK
  <2>. HIDE DEF F
  <2>3. fetches' \in [Roles -> SUBSET F]
    BY <2>1, <2>2
  <2>. QED
    BY <2>3 DEF F
<1>5. SocketsOK'
  BY <1>1 DEF AskFirstPage, Connect, SocketsOK, sockets
<1>. QED
  BY <1>1, <1>4, <1>5 DEF TabsOK

LEMMA ReadTyped ==
  ASSUME Sound, NEW r \in Tabs, ReadPage(r)
  PROVE  TabsOK' /\ SocketsOK'
<1>1. PICK f \in fetches[r] : fetches' = [fetches EXCEPT ![r] =
               (@ \ {f}) \cup {[f EXCEPT !.read = TRUE, !.page = Page(f, r)]}]
  BY DEF ReadPage
<1>2. r \in Roles /\ f \in Fetches(chat.lastSeq)
  BY ThreadAssumption DEF Sound, TabsOK
<1>3. [f EXCEPT !.read = TRUE, !.page = Page(f, r)] \in Fetches(chat.lastSeq)
  <2>1. \A g \in [views : SUBSET Views(chat.lastSeq), more : BOOLEAN] :
          [f EXCEPT !.read = TRUE, !.page = g] \in Fetches(chat.lastSeq)
    BY <1>2 DEF Fetches
  <2>. QED
    BY <2>1, PageTyped DEF Sound
<1>4. fetches' \in [Roles -> SUBSET Fetches(chat.lastSeq)]
  <2>. DEFINE g == [f EXCEPT !.read = TRUE, !.page = Page(f, r)]
              F == Fetches(chat.lastSeq)
  <2>1. g \in F /\ fetches' = [fetches EXCEPT ![r] = (@ \ {f}) \cup {g}] /\ fetches \in [Roles -> SUBSET F]
    BY <1>1, <1>3 DEF Sound, TabsOK
  <2>. HIDE DEF g, F
  <2>2. fetches' \in [Roles -> SUBSET F]
    BY <1>2, <2>1
  <2>. QED
    BY <2>2 DEF F
<1>. QED
  BY <1>4 DEF ReadPage, Sound, TabsOK, SocketsOK, sockets, server

LEMMA TakenTyped ==
  ASSUME Sound, NEW r \in Tabs, TakePage(r)
  PROVE  TabsOK' /\ SocketsOK'
<1>. DEFINE n == chat.lastSeq
<1>1. PICK f \in fetches[r] : ShowFirstPage(r, f) \/ MergePage(r, f)
  BY DEF TakePage
<1>2. r \in Roles /\ f.page.views \in SUBSET Views(n) /\ held[r] \in SUBSET Views(n)
  BY ThreadAssumption DEF Sound, TabsOK, Fetches
<1>3. n \in Nat
  BY LastSeqTyped DEF Sound
<1>. HIDE DEF n
<1>4. Upsert(held[r], f.page.views) \in SUBSET Views(n)
  BY <1>2, UpsertTyped
<1>5. Fetch("catchUp", Highest(f.page.views)) \in Fetches(n)
  BY <1>2, <1>3, HighestBounded, FetchTyped
<1>6. held \in [Roles -> SUBSET Views(n)] /\ fetches \in [Roles -> SUBSET Fetches(n)]
      /\ rooms \in [Roles -> Seq(Events(n))]
  BY DEF Sound, TabsOK, n
<1>7. held' \in [Roles -> SUBSET Views(n)] /\ fetches' \in [Roles -> SUBSET Fetches(n)]
  <2>. DEFINE V == Views(n)
              F == Fetches(n)
  <2>1. /\ held' = [held EXCEPT ![r] = held'[r]] /\ held'[r] \in SUBSET V
        /\ fetches' = [fetches EXCEPT ![r] = fetches'[r]] /\ fetches'[r] \in SUBSET F
    <3>1. CASE ShowFirstPage(r, f)
      <4>1. held' = [held EXCEPT ![r] = f.page.views] /\ fetches' = [fetches EXCEPT ![r] = @ \ {f}]
        BY <3>1 DEF ShowFirstPage
      <4>. QED
        BY <1>2, <1>6, <4>1
    <3>2. CASE MergePage(r, f)
      <4>1. PICK more : more \in SUBSET F /\ fetches' = [fetches EXCEPT ![r] = (@ \ {f}) \cup more]
        BY <1>5, <3>2 DEF MergePage
      <4>2. held' = [held EXCEPT ![r] = Upsert(@, f.page.views)]
        BY <3>2 DEF MergePage
      <4>. QED
        BY <1>2, <1>4, <1>6, <4>1, <4>2
    <3>. QED
      BY <1>1, <3>1, <3>2
  <2>. HIDE DEF V, F
  <2>2. held' \in [Roles -> SUBSET V] /\ fetches' \in [Roles -> SUBSET F]
    <3>1. held \in [Roles -> SUBSET V] /\ fetches \in [Roles -> SUBSET F]
      BY <1>6 DEF V, F
    <3>. QED
      BY <1>2, <2>1, <3>1
  <2>. QED
    BY <2>2 DEF V, F
<1>. QED
  BY <1>6, <1>7 DEF TakePage, Sound, TabsOK, SocketsOK, sockets, server, n

LEMMA FailedTyped ==
  ASSUME Sound, NEW r \in Tabs, FailPage(r) \/ Disconnect(r)
  PROVE  TabsOK' /\ SocketsOK'
<1>1. << >> \in Seq(Events(chat.lastSeq))
  BY EmptySeq
<1>2. rooms' \in [Roles -> Seq(Events(chat.lastSeq))]
  BY <1>1 DEF FailPage, Disconnect, sockets, Sound, TabsOK
<1>3. fetches' \in [Roles -> SUBSET Fetches(chat.lastSeq)]
  BY DEF FailPage, Disconnect, Sound, TabsOK
<1>4. SocketsOK'
  BY ThreadAssumption DEF FailPage, Disconnect, Sound, SocketsOK, TabsOK, sockets
<1>. QED
  BY <1>2, <1>3, <1>4 DEF FailPage, Disconnect, Sound, TabsOK, sockets, server

LEMMA ReceivedTyped ==
  ASSUME Sound, NEW r \in Tabs, Receive(r)
  PROVE  TabsOK' /\ SocketsOK'
<1>. DEFINE n == chat.lastSeq
            event == Head(rooms[r])
<1>1. r \in Roles /\ rooms[r] \in Seq(Events(n)) /\ rooms[r] # << >> /\ held[r] \in SUBSET Views(n)
  BY ThreadAssumption DEF Receive, Sound, TabsOK
<1>2. event \in Events(n) /\ Tail(rooms[r]) \in Seq(Events(n))
  BY <1>1, HeadTailProperties
<1>3. held' = [held EXCEPT ![r] = IF event.kind = "message" THEN Upsert(@, {event.view})
                                                             ELSE ApplyReceipts(@, event, r)]
  BY DEF Receive
<1>4. rooms' = [rooms EXCEPT ![r] = Tail(@)] /\ chat' = chat /\ online' = online /\ fetches' = fetches
  BY DEF Receive, server
<1>. HIDE DEF n, event
<1>5. event.kind = "message" => {event.view} \in SUBSET Views(n)
  BY <1>2 DEF Events
<1>6. /\ event.kind = "message" => Upsert(held[r], {event.view}) \in SUBSET Views(n)
      /\ ApplyReceipts(held[r], event, r) \in SUBSET Views(n)
  BY <1>1, <1>5, UpsertTyped, ReceiptsTyped
<1>7. held \in [Roles -> SUBSET Views(n)] /\ rooms \in [Roles -> Seq(Events(n))]
      /\ fetches \in [Roles -> SUBSET Fetches(n)]
  BY DEF Sound, TabsOK, n
<1>8. held' \in [Roles -> SUBSET Views(n)] /\ rooms' \in [Roles -> Seq(Events(n))]
  BY <1>1, <1>2, <1>3, <1>4, <1>6, <1>7
<1>9. SocketsOK'
  BY <1>1, <1>4, <1>7 DEF Sound, SocketsOK
<1>. QED
  BY <1>4, <1>7, <1>8, <1>9 DEF TabsOK, n

\* The answer merged by the tab that asked.
LEMMA AnsweredTyped ==
  ASSUME Sound, NEW p \in Handlers, TakeAnswer(p)
  PROVE  ServerOK' /\ TabsOK' /\ SocketsOK'
<1>1. Finish(p) /\ UNCHANGED <<server, sockets>>
  BY DEF TakeAnswer, Answer
<1>2. ServerOK'
  BY <1>1, FinishOK DEF Sound
<1>3. View(draft[p], caller[p], conv[p]) \in Views(chat.lastSeq) /\ caller[p] \in Roles
  BY Carrying, ViewTyped DEF Sound
<1>4. Upsert(held[caller[p]], {View(draft[p], caller[p], conv[p])}) \in SUBSET Views(chat.lastSeq)
  BY <1>3, UpsertTyped DEF Sound, TabsOK
<1>5. held' \in [Roles -> SUBSET Views(chat.lastSeq)]
  BY <1>3, <1>4 DEF TakeAnswer, Sound, TabsOK
<1>. QED
  BY <1>1, <1>2, <1>5 DEF TakeAnswer, Sound, TabsOK, SocketsOK, sockets, server

-----------------------------------------------------------------------------
(***************************************************************************)
(* The steps as the server sees them.                                      *)
(***************************************************************************)
\* A tab acknowledges what it holds: some natural number.
Acks(p) == \E r \in Roles, seq \in Nat, l \in {"markDelivered", "markRead"} : Acknowledge(p, r, seq, l)

Ends(p) == Finish(p) /\ UNCHANGED server

Begins(p) == (\E i \in Ids, text \in Texts : Send(p, i, text)) \/ (\E m \in messages : Change(p, m)) \/ Acks(p)

LEMMA HeldAcks ==
  ASSUME Sound, NEW p \in Handlers, NEW r \in Tabs, AcknowledgeHeld(p, r)
  PROVE  Acks(p)
<1>. DEFINE others == {m \in held[r] : Author[m.id] # r}
<1>1. r \in Roles /\ others \in SUBSET Views(chat.lastSeq)
  BY ThreadAssumption DEF Sound, TabsOK
<1>2. Highest(others) \in Nat
  BY <1>1, HighestBounded, LastSeqTyped DEF Sound
<1>3. Acknowledge(p, r, Highest(others), "markRead") \/ Acknowledge(p, r, Highest(others), "markDelivered")
  BY DEF AcknowledgeHeld
<1>. HIDE DEF others
<1>. QED
  BY <1>1, <1>2, <1>3 DEF Acks

LEMMA Asks ==
  ASSUME NEW p \in Handlers, Request(p)
  PROVE  Begins(p)
<1>1. 1..MaxSeq \subseteq Nat
  BY ChatAssumption
<1>. QED
  BY <1>1 DEF Request, Begins, Acks

LEMMA Steps ==
  ASSUME Sound, Next
  PROVE  \/ UNCHANGED <<server, locals>>
         \/ Outside
         \/ \E p \in Handlers : Continue(p) \/ Begins(p) \/ Ends(p)
<1>1. ASSUME NEW r \in Tabs, AskFirstPage(r) \/ ReadPage(r) \/ TakePage(r) \/ Receive(r) \/ Connect(r)
                             \/ Disconnect(r) \/ FailPage(r)
      PROVE  UNCHANGED <<server, locals>>
  BY <1>1 DEF AskFirstPage, ReadPage, TakePage, Receive, Connect, Disconnect, FailPage
<1>2. ASSUME NEW p \in Handlers, TakeAnswer(p) \/ Crash(p) PROVE Ends(p)
  BY <1>2 DEF TakeAnswer, Answer, Crash, Ends
<1>3. ASSUME NEW p \in Handlers, Ask(p) PROVE Begins(p)
  BY <1>3, Asks DEF Ask
<1>4. ASSUME NEW p \in Handlers, NEW r \in Tabs, AcknowledgeHeld(p, r) PROVE Begins(p)
  BY <1>4, HeldAcks DEF Begins
<1>. QED
  BY <1>1, <1>2, <1>3, <1>4 DEF Next, Progress

LEMMA ContinueOK ==
  ASSUME ServerOK, NEW p \in Handlers, Continue(p)
  PROVE  ServerOK'
<1>1. ASSUME Announce(p) PROVE ServerOK'
  BY <1>1, FinishOK DEF Announce
<1>. QED
  BY <1>1, ReplayOK, CheckOK, AllocateOK, InsertOK, PublishOK, LoadOK, CheckSaveOK, SaveOK, AdvanceOK
     DEF Continue

LEMMA BeginsOK ==
  ASSUME ServerOK, NEW p \in Handlers, Begins(p)
  PROVE  ServerOK'
  BY SendOK, ChangeOK, AcknowledgeOK DEF Begins, Acks

LEMMA QuietOK ==
  ASSUME ServerOK, UNCHANGED <<server, locals>>
  PROVE  ServerOK'
  BY DEF ServerOK, LocalsOK, StoredOK, Carried, CarriedBy, Stored, server, locals

LEMMA ServerStep ==
  ASSUME Sound, Next
  PROVE  ServerOK'
<1>1. ServerOK
  BY DEF Sound
<1>2. ASSUME NEW p \in Handlers, Ends(p) PROVE ServerOK'
  BY <1>1, <1>2, FinishOK DEF Ends
<1>. QED
  BY <1>1, <1>2, Steps, QuietOK, OutsideOK, ContinueOK, BeginsOK

\* No step lowers the last seq.
LEMMA SeqGrows ==
  ASSUME Sound, Next
  PROVE  chat.lastSeq \in Nat /\ chat'.lastSeq \in Nat /\ chat.lastSeq <= chat'.lastSeq
<1>1. chat.lastSeq \in Nat /\ chat'.lastSeq \in Nat /\ chat \in ChatDocs
  BY ServerStep DEF Sound, ServerOK, StoredOK, ChatDocs
<1>2. ASSUME NEW p \in Handlers, Continue(p), ~AdvanceWatermarks(p)
      PROVE  chat'.lastSeq \in {chat.lastSeq, chat.lastSeq + 1}
  BY <1>1, <1>2 DEF Continue, Replay, Check, AllocateSeq, NextSeq, InsertOnce, Publish, LoadMessage,
     CheckSave, SaveMessage, Announce, server, ChatDocs
<1>3. ASSUME NEW p \in Handlers, AdvanceWatermarks(p) PROVE chat'.lastSeq = chat.lastSeq
  BY <1>3, AdvanceCases DEF Sound
<1>4. ASSUME NEW p \in Handlers, Begins(p) \/ Ends(p) PROVE chat' = chat
  BY <1>4 DEF Begins, Ends, Acks, Send, Change, Acknowledge, server
<1>5. ASSUME Outside PROVE chat'.lastSeq = chat.lastSeq
  BY <1>1, <1>5 DEF Outside, UnlockContact, CloseRequest, ChangeCandidacy, ChatDocs
<1>. QED
  BY <1>1, <1>2, <1>3, <1>4, <1>5, Steps DEF server

LEMMA ClientStep ==
  ASSUME Sound, Next
  PROVE  TabsOK' /\ SocketsOK'
<1>1. ASSUME NEW p \in Handlers, Continue(p), UNCHANGED tab, ~Publish(p), ~Announce(p)
      PROVE  UNCHANGED <<sockets, held, fetches>>
  BY <1>1 DEF Continue, Replay, Check, AllocateSeq, InsertOnce, LoadMessage, CheckSave, SaveMessage,
     AdvanceWatermarks, tab
<1>2. ASSUME NEW p \in Handlers, Ask(p) \/ (Crash(p) /\ UNCHANGED tab)
      PROVE  UNCHANGED <<sockets, held, fetches>>
  BY <1>2 DEF Ask, Request, Send, Change, Acknowledge, Crash, tab
<1>3. ASSUME NEW p \in Handlers, NEW r \in Tabs, AcknowledgeHeld(p, r)
      PROVE  UNCHANGED <<sockets, held, fetches>>
  BY <1>3 DEF AcknowledgeHeld, Acknowledge
<1>4. ASSUME Outside, UNCHANGED tab PROVE UNCHANGED <<sockets, held, fetches>>
  BY <1>4 DEF Outside, UnlockContact, CloseRequest, ChangeCandidacy, tab
<1>5. ASSUME UNCHANGED <<sockets, held, fetches>> PROVE TabsOK' /\ SocketsOK'
  <2>1. UNCHANGED <<held, rooms, fetches>>
    BY <1>5 DEF sockets
  <2>2. TabsOK'
    BY <2>1, SeqGrows, Widen DEF Sound
  <2>. QED
    BY <1>5, <2>2 DEF Sound, SocketsOK, sockets
<1>. QED
  BY <1>1, <1>2, <1>3, <1>4, <1>5, PublishedTyped, AnnouncedTyped, AnsweredTyped, AskedTyped, ReadTyped,
     TakenTyped, FailedTyped, ReceivedTyped DEF Next, Progress

LEMMA SoundStep ==
  ASSUME Sound, [Next]_vars
  PROVE  Sound'
<1>1. ASSUME UNCHANGED vars PROVE Sound'
  <2>1. ServerOK'
    BY <1>1, QuietOK DEF Sound, vars
  <2>. QED
    BY <1>1, <2>1 DEF Sound, TabsOK, SocketsOK, vars, server, sockets, tab
<1>. QED
  BY <1>1, ServerStep, ClientStep DEF Sound

LEMMA SoundInit == Init => Sound
<1>. SUFFICES ASSUME Init PROVE Sound
  OBVIOUS
<1>1. ServerOK
  BY Blank DEF Init, ServerInit, ServerOK, LocalsOK, StoredOK, Carried, CarriedBy, Labels, Roles, Sending
<1>2. SocketsOK
  BY ThreadAssumption DEF Init, ServerInit, SocketsOK
<1>3. TabsOK
  BY EmptySeq DEF Init, ServerInit, TabsOK
<1>. QED
  BY <1>1, <1>2, <1>3 DEF Sound

LEMMA SoundInvariant == Spec => []Sound
  BY SoundInit, SoundStep, PTL DEF Spec

\* Every handler, document, room and tab keeps its type, and nothing waits in
\* the room of a side that is not connected: for any number of messages,
\* handlers and faults.
THEOREM ChatTyped == Spec => []TypeOK
<1>1. Sound => TypeOK
  BY TypeSplit DEF Sound, ServerOK
<1>. QED
  BY <1>1, SoundInvariant, PTL

-----------------------------------------------------------------------------
(***************************************************************************)
(* One message for a clientMessageId, one message for a seq.               *)
(***************************************************************************)
LEMMA Writers ==
  ASSUME Sound, [Next]_vars
  PROVE  \/ messages' = messages
         \/ \E p \in Handlers : InsertOnce(p) \/ SaveMessage(p)
<1>1. ASSUME NEW p \in Handlers, Continue(p), ~InsertOnce(p), ~SaveMessage(p) PROVE messages' = messages
  BY <1>1 DEF Continue, Replay, Check, AllocateSeq, Publish, LoadMessage, CheckSave, AdvanceWatermarks,
     Announce, server
<1>2. ASSUME NEW p \in Handlers, Begins(p) \/ Ends(p) PROVE messages' = messages
  BY <1>2 DEF Begins, Ends, Acks, Send, Change, Acknowledge, server
<1>3. ASSUME Outside PROVE messages' = messages
  BY <1>3 DEF Outside, UnlockContact, CloseRequest, ChangeCandidacy
<1>. QED
  BY <1>1, <1>2, <1>3, Steps DEF server, vars

\* However often a send is repeated, by however many handlers, one message is
\* stored for its clientMessageId.
THEOREM OneMessagePerSend == Spec => []SentOnce
<1>1. Init => SentOnce
  BY DEF Init, ServerInit, SentOnce
<1>2. ASSUME Sound, SentOnce, [Next]_vars PROVE SentOnce'
  <2>1. ASSUME NEW p \in Handlers, InsertOnce(p) PROVE SentOnce'
    BY <1>2, <2>1 DEF InsertOnce, AlreadyStored, Stored, SentOnce
  <2>2. ASSUME NEW p \in Handlers, SaveMessage(p) PROVE SentOnce'
    <3>1. messages' = {IF m.id = draft[p].id THEN Merged(p, m) ELSE m : m \in messages}
      BY <2>2, Saves
    <3>2. \A m \in messages : Merged(p, m).id = m.id
      BY <1>2, MergedTyped DEF Sound, ServerOK, StoredOK
    <3>. QED
      BY <1>2, <3>1, <3>2 DEF SentOnce
  <2>. QED
    BY <1>2, <2>1, <2>2, Writers DEF SentOnce
<1>. QED
  BY <1>1, <1>2, SoundInvariant, PTL DEF Spec

\* A number on its way to the database is nobody else's.
Reserved ==
    \A p \in Handlers : pc[p] = "insert" =>
        /\ draft[p].seq \in 1..chat.lastSeq
        /\ \A m \in messages : m.seq # draft[p].seq
        /\ \A q \in Handlers \ {p} : pc[q] = "insert" => draft[q].seq # draft[p].seq

Numbered == SeqNamesMessage /\ Reserved

\* Whoever is not p is left alone by a step of p.
LEMMA StepFrame ==
  ASSUME ServerOK, NEW p \in Handlers, Continue(p) \/ Begins(p) \/ Ends(p)
  PROVE  Frame(p)
<1>1. ASSUME Go(p, "check") \/ Go(p, "publish") \/ Go(p, "answer") \/ Go(p, "save") PROVE Frame(p)
  BY <1>1 DEF Go, Frame, ServerOK, LocalsOK
<1>2. ASSUME NEW m, NEW l, Hold(p, m, l) PROVE Frame(p)
  BY <1>2 DEF Hold, Frame, ServerOK, LocalsOK
<1>3. ASSUME Finish(p) PROVE Frame(p)
  BY <1>3 DEF Finish, Frame, ServerOK, LocalsOK
<1>4. ASSUME NEW r, NEW m, NEW seq, NEW l, Enter(p, r, m, seq, l) PROVE Frame(p)
  BY <1>4 DEF Enter, Frame, ServerOK, LocalsOK
<1>5. ASSUME AllocateSeq(p) \/ LoadMessage(p) \/ AdvanceWatermarks(p) PROVE Frame(p)
  <2>1. CASE AllocateSeq(p)
    BY <2>1 DEF AllocateSeq, Frame, ServerOK, LocalsOK
  <2>2. CASE LoadMessage(p)
    BY <1>3, <2>2, Loads DEF Frame, ServerOK, LocalsOK
  <2>3. CASE AdvanceWatermarks(p)
    BY <1>3, <2>3 DEF AdvanceWatermarks, Frame, ServerOK, LocalsOK
  <2>. QED
    BY <1>5, <2>1, <2>2, <2>3
<1>6. ASSUME Continue(p) PROVE Frame(p)
  BY <1>1, <1>2, <1>3, <1>5, <1>6
     DEF Continue, Replay, Check, InsertOnce, Publish, CheckSave, SaveMessage, Announce
<1>7. ASSUME Begins(p) PROVE Frame(p)
  BY <1>4, <1>7 DEF Begins, Acks, Send, Change, Acknowledge
<1>. QED
  BY <1>3, <1>6, <1>7 DEF Ends

\* A handler comes to insert only by taking a number.
LEMMA Takes ==
  ASSUME Sound, [Next]_vars, NEW p \in Handlers, pc'[p] = "insert"
  PROVE  (pc[p] = "insert" /\ draft'[p] = draft[p]) \/ AllocateSeq(p)
<1>0. LocalsOK
  BY DEF Sound, ServerOK
<1>1. ASSUME NEW q \in Handlers, Continue(q), ~AllocateSeq(q), q = p PROVE FALSE
  BY <1>0, <1>1 DEF Continue, Replay, Check, InsertOnce, Publish, LoadMessage, CheckSave, SaveMessage,
     AdvanceWatermarks, Announce, Go, Hold, Finish, LocalsOK
<1>2. ASSUME NEW q \in Handlers, Begins(q) \/ Ends(q), q = p PROVE FALSE
  BY <1>0, <1>2 DEF Begins, Ends, Acks, Send, Change, Acknowledge, Enter, Finish, LocalsOK
<1>3. ASSUME NEW q \in Handlers, Continue(q) \/ Begins(q) \/ Ends(q), q # p
      PROVE  pc'[p] = pc[p] /\ draft'[p] = draft[p]
  BY <1>0, <1>3, StepFrame DEF Frame, Sound
<1>4. ASSUME Outside \/ UNCHANGED <<server, locals>> \/ UNCHANGED vars
      PROVE  pc'[p] = pc[p] /\ draft'[p] = draft[p]
  BY <1>4 DEF Outside, UnlockContact, CloseRequest, ChangeCandidacy, locals, vars
<1>. QED
  BY <1>1, <1>2, <1>3, <1>4, Steps

LEMMA SeqKept ==
  ASSUME Sound, NEW p \in Handlers, SaveMessage(p)
  PROVE  /\ \A n \in messages' : \E m \in messages : n.id = m.id /\ n.seq = m.seq
         /\ SeqNamesMessage => SeqNamesMessage'
<1>1. messages' = {IF m.id = draft[p].id THEN Merged(p, m) ELSE m : m \in messages}
  BY Saves
<1>2. \A m \in messages : Merged(p, m).id = m.id /\ Merged(p, m).seq = m.seq
  BY MergedTyped DEF Sound, ServerOK, StoredOK
<1>3. chat' = chat
  BY DEF SaveMessage
<1>. QED
  BY <1>1, <1>2, <1>3 DEF SeqNamesMessage

LEMMA NumberedStep ==
  ASSUME Sound, Numbered, [Next]_vars
  PROVE  Numbered'
<1>1. chat.lastSeq \in Nat /\ chat'.lastSeq \in Nat /\ chat.lastSeq <= chat'.lastSeq
  BY SeqGrows, LastSeqTyped DEF Sound, vars, server
<1>2. SeqNamesMessage'
  <2>1. CASE messages' = messages
    BY <1>1, <2>1 DEF Numbered, SeqNamesMessage
  <2>2. ASSUME NEW p \in Handlers, InsertOnce(p), messages' # messages PROVE SeqNamesMessage'
    <3>1. messages' = messages \cup {draft[p]} /\ chat' = chat /\ pc[p] = "insert"
      BY <2>2 DEF InsertOnce
    <3>. QED
      BY <3>1 DEF Numbered, SeqNamesMessage, Reserved
  <2>. QED
    BY <2>1, <2>2, SeqKept, Writers DEF Numbered
<1>3. Reserved'
  <2>. SUFFICES ASSUME NEW p \in Handlers, pc'[p] = "insert"
                PROVE  /\ draft'[p].seq \in 1..chat'.lastSeq
                       /\ \A m \in messages' : m.seq # draft'[p].seq
                       /\ \A q \in Handlers \ {p} : pc'[q] = "insert" => draft'[q].seq # draft'[p].seq
    BY DEF Reserved
  <2>1. ASSUME AllocateSeq(p)
        PROVE  /\ draft'[p].seq \in 1..chat'.lastSeq
               /\ \A m \in messages' : m.seq # draft'[p].seq
               /\ \A q \in Handlers \ {p} : pc'[q] = "insert" => draft'[q].seq # draft'[p].seq
    <3>1. draft'[p].seq = chat.lastSeq + 1 /\ messages' = messages /\ chat'.lastSeq = chat.lastSeq + 1
      BY <2>1 DEF AllocateSeq, NextSeq, Sound, ServerOK, LocalsOK, StoredOK, MessageDocs, ChatDocs
    <3>2. \A m \in messages : m.seq \in 1..chat.lastSeq
      BY DEF Numbered, SeqNamesMessage
    <3>3. \A q \in Handlers \ {p} : pc'[q] = pc[q] /\ draft'[q] = draft[q]
      BY <2>1, StepFrame DEF Continue, Frame, Sound
    <3>4. \A q \in Handlers \ {p} : pc[q] = "insert" => draft[q].seq \in 1..chat.lastSeq
      BY DEF Numbered, Reserved
    <3>. QED
      BY <1>1, <3>1, <3>2, <3>3, <3>4
  <2>2. ASSUME pc[p] = "insert", draft'[p] = draft[p], ~AllocateSeq(p)
        PROVE  /\ draft'[p].seq \in 1..chat'.lastSeq
               /\ \A m \in messages' : m.seq # draft'[p].seq
               /\ \A q \in Handlers \ {p} : pc'[q] = "insert" => draft'[q].seq # draft'[p].seq
    <3>1. draft[p].seq \in 1..chat.lastSeq /\ \A m \in messages : m.seq # draft[p].seq
      BY <2>2 DEF Numbered, Reserved
    <3>2. \A m \in messages' : m.seq # draft[p].seq
      <4>1. CASE messages' = messages
        BY <3>1, <4>1
      <4>2. ASSUME NEW r \in Handlers, SaveMessage(r) PROVE \A m \in messages' : m.seq # draft[p].seq
        BY <3>1, <4>2, SeqKept
      <4>3. ASSUME NEW r \in Handlers, InsertOnce(r), messages' # messages
            PROVE  \A m \in messages' : m.seq # draft[p].seq
        <5>1. messages' = messages \cup {draft[r]} /\ Go(r, "publish") /\ pc[r] = "insert"
          BY <4>3 DEF InsertOnce
        <5>2. r # p
          BY <2>2, <5>1 DEF Go, Sound, ServerOK, LocalsOK
        <5>. QED
          BY <2>2, <3>1, <5>1, <5>2 DEF Numbered, Reserved
      <4>. QED
        BY <4>1, <4>2, <4>3, Writers
    <3>3. ASSUME NEW q \in Handlers \ {p}, pc'[q] = "insert" PROVE draft'[q].seq # draft[p].seq
      <4>1. CASE pc[q] = "insert" /\ draft'[q] = draft[q]
        BY <2>2, <4>1 DEF Numbered, Reserved
      <4>2. CASE AllocateSeq(q)
        <5>1. draft'[q].seq = chat.lastSeq + 1
          BY <4>2 DEF AllocateSeq, NextSeq, Sound, ServerOK, LocalsOK, StoredOK, MessageDocs, ChatDocs
        <5>. QED
          BY <1>1, <3>1, <5>1
      <4>. QED
        BY <3>3, <4>1, <4>2, Takes
    <3>. QED
      BY <1>1, <2>2, <3>1, <3>2, <3>3
  <2>. QED
    BY <2>1, <2>2, Takes
<1>. QED
  BY <1>2, <1>3 DEF Numbered

\* The seq is a cursor: it names one message, for any interleaving of sends.
THEOREM SeqIsCursor == Spec => []SeqNamesMessage
<1>1. Init => Numbered
  BY DEF Init, ServerInit, Numbered, SeqNamesMessage, Reserved
<1>2. Numbered => SeqNamesMessage
  BY DEF Numbered
<1>. QED
  BY <1>1, <1>2, NumberedStep, SoundInvariant, PTL DEF Spec

-----------------------------------------------------------------------------
(***************************************************************************)
(* Watermarks.                                                             *)
(***************************************************************************)
LEMMA ChatWriters ==
  ASSUME Sound, [Next]_vars
  PROVE  \/ chat' = chat
         \/ Outside
         \/ \E p \in Handlers : AllocateSeq(p) \/ AdvanceWatermarks(p)
<1>1. ASSUME NEW p \in Handlers, Continue(p), ~AllocateSeq(p), ~AdvanceWatermarks(p) PROVE chat' = chat
  BY <1>1 DEF Continue, Replay, Check, InsertOnce, Publish, LoadMessage, CheckSave, SaveMessage, Announce, server
<1>2. ASSUME NEW p \in Handlers, Begins(p) \/ Ends(p) PROVE chat' = chat
  BY <1>2 DEF Begins, Ends, Acks, Send, Change, Acknowledge, server
<1>. QED
  BY <1>1, <1>2, Steps DEF server, vars

LEMMA MarksKept ==
  ASSUME Sound, [Next]_vars, ~(\E p \in Handlers : AdvanceWatermarks(p))
  PROVE  chat'.marks = chat.marks
<1>1. chat \in ChatDocs
  BY DEF Sound, ServerOK, StoredOK
<1>. QED
  BY <1>1, ChatWriters DEF AllocateSeq, Outside, UnlockContact, CloseRequest, ChangeCandidacy, ChatDocs

LEMMA MarksTyped ==
  ASSUME Sound, NEW r \in Roles
  PROVE  chat.marks[r].delivered \in Nat /\ chat.marks[r].read \in Nat /\ chat.lastSeq \in Nat
  BY DEF Sound, ServerOK, StoredOK, ChatDocs

\* Nobody acknowledges past the last seq, although the clamp uses a conversation
\* loaded before; reading implies having received.
THEOREM MarksStayOrdered == Spec => []MarksOrdered
<1>1. Init => MarksOrdered
  BY DEF Init, ServerInit, NewChat, NoMarks, MarksOrdered
<1>2. ASSUME Sound, MarksOrdered, [Next]_vars PROVE MarksOrdered'
  <2>0. chat.lastSeq \in Nat /\ chat'.lastSeq \in Nat /\ chat.lastSeq <= chat'.lastSeq
    BY <1>2, SeqGrows, LastSeqTyped DEF Sound, vars, server
  <2>1. CASE chat'.marks = chat.marks
    <3>. SUFFICES ASSUME NEW r \in Roles
                  PROVE  chat.marks[r].read <= chat.marks[r].delivered
                         /\ chat.marks[r].delivered <= chat'.lastSeq
      BY <2>1 DEF MarksOrdered
    <3>. QED
      BY <1>2, <2>0, MarksTyped DEF MarksOrdered
  <2>2. ASSUME NEW p \in Handlers, AdvanceWatermarks(p) PROVE MarksOrdered'
    <3>1. PICK mark \in Marks :
            /\ mark.delivered <= chat.marks[caller[p]].delivered \/ mark.delivered <= chat.lastSeq
            /\ chat.marks[caller[p]].read <= chat.marks[caller[p]].delivered => mark.read <= mark.delivered
            /\ chat'.lastSeq = chat.lastSeq
            /\ chat'.marks = [chat.marks EXCEPT ![caller[p]] = mark]
      BY <1>2, <2>2, AdvanceCases DEF Sound
    <3>2. caller[p] \in Roles /\ chat.marks \in [Roles -> Marks]
      BY <1>2 DEF Sound, ServerOK, LocalsOK, StoredOK, ChatDocs, Marks
    <3>3. mark.read <= mark.delivered /\ mark.delivered <= chat.lastSeq
      BY <1>2, <3>1, <3>2, MarksTyped DEF MarksOrdered, Marks
    <3>. QED
      BY <1>2, <3>1, <3>2, <3>3 DEF MarksOrdered
  <2>. QED
    BY <1>2, <2>1, <2>2, MarksKept
<1>. QED
  BY <1>1, <1>2, SoundInvariant, PTL DEF Spec

\* Watermarks only move forward, whatever acknowledgements overlap.
THEOREM MarksOnlyAdvance == Spec => MarksForward
<1>1. ASSUME Sound, [Next]_vars
      PROVE  \A r \in Roles : /\ chat'.marks[r].delivered >= chat.marks[r].delivered
                              /\ chat'.marks[r].read >= chat.marks[r].read
  <2>1. CASE chat'.marks = chat.marks
    BY <1>1, <2>1, MarksTyped
  <2>2. ASSUME NEW p \in Handlers, AdvanceWatermarks(p), NEW r \in Roles
        PROVE  /\ chat'.marks[r].delivered >= chat.marks[r].delivered
               /\ chat'.marks[r].read >= chat.marks[r].read
    <3>1. PICK mark \in Marks :
            /\ mark.delivered >= chat.marks[caller[p]].delivered /\ mark.read >= chat.marks[caller[p]].read
            /\ chat'.marks = [chat.marks EXCEPT ![caller[p]] = mark]
      BY <1>1, <2>2, AdvanceCases DEF Sound
    <3>2. caller[p] \in Roles /\ chat.marks \in [Roles -> Marks]
      BY <1>1 DEF Sound, ServerOK, LocalsOK, StoredOK, ChatDocs, Marks
    <3>. QED
      BY <1>1, <3>1, <3>2, MarksTyped
  <2>. QED
    BY <1>1, <2>1, <2>2, MarksKept
<1>2. ASSUME Sound, [Next]_vars
      PROVE  [\A r \in Roles : /\ chat'.marks[r].delivered >= chat.marks[r].delivered
                               /\ chat'.marks[r].read >= chat.marks[r].read]_server
  BY <1>1, <1>2
<1>. QED
  BY <1>2, SoundInvariant, PTL DEF Spec, MarksForward

-----------------------------------------------------------------------------
(***************************************************************************)
(* Moderation.                                                             *)
(***************************************************************************)
\* Where a handler holds a text it may still store.
Holding == {"allocate", "insert", "checkSave", "save"}

\* Contact, once unlocked, stays so: a conversation loaded before is only
\* stricter.  Under protection no text a handler may store shows a contact.
Shielded ==
    \A p \in Handlers :
        /\ conv[p].policy = "UNLOCKED" => chat.policy = "UNLOCKED"
        /\ chat.policy = "PROTECTED" /\ pc[p] \in Holding => draft[p].text \notin Details

Protected == NoContactBeforeUnlock /\ Shielded

LEMMA UnlockedStays ==
  ASSUME Sound, [Next]_vars
  PROVE  /\ chat.policy \in {"PROTECTED", "UNLOCKED"} /\ chat'.policy \in {"PROTECTED", "UNLOCKED"}
         /\ chat.policy = "UNLOCKED" => chat'.policy = "UNLOCKED"
<1>1. chat \in ChatDocs /\ chat' \in ChatDocs
  BY SoundStep DEF Sound, ServerOK, StoredOK
<1>2. ASSUME NEW p \in Handlers, AllocateSeq(p) \/ AdvanceWatermarks(p) PROVE chat'.policy = chat.policy
  BY <1>1, <1>2, AdvanceCases DEF AllocateSeq, ChatDocs, Sound
<1>3. ASSUME Outside PROVE chat.policy = "UNLOCKED" => chat'.policy = "UNLOCKED"
  BY <1>1, <1>3 DEF Outside, UnlockContact, CloseRequest, ChangeCandidacy, ChatDocs
<1>. QED
  BY <1>1, <1>2, <1>3, ChatWriters DEF ChatDocs

\* The conversation a handler holds is one it held, or the current one.
LEMMA Reloads ==
  ASSUME Sound, [Next]_vars, NEW p \in Handlers
  PROVE  conv'[p] \in {conv[p], chat, chat', NewChat}
<1>0. LocalsOK
  BY DEF Sound, ServerOK
<1>1. ASSUME Continue(p) PROVE conv'[p] \in {conv[p], chat, chat', NewChat}
  <2>1. CASE LoadMessage(p)
    BY <1>0, <2>1, Loads DEF Finish, LocalsOK, Sound
  <2>2. CASE AdvanceWatermarks(p)
    BY <1>0, <2>2 DEF AdvanceWatermarks, Finish, LocalsOK
  <2>. QED
    BY <1>0, <1>1, <2>1, <2>2 DEF Continue, Replay, Check, AllocateSeq, InsertOnce, Publish, CheckSave,
       SaveMessage, Announce, Go, Hold, Finish, LocalsOK
<1>2. ASSUME Begins(p) \/ Ends(p) PROVE conv'[p] \in {conv[p], chat, chat', NewChat}
  BY <1>0, <1>2 DEF Begins, Ends, Acks, Send, Change, Acknowledge, Enter, Finish, LocalsOK
<1>3. ASSUME NEW q \in Handlers, Continue(q) \/ Begins(q) \/ Ends(q), q # p PROVE conv'[p] = conv[p]
  BY <1>3, StepFrame DEF Frame, Sound
<1>4. ASSUME Outside \/ UNCHANGED <<server, locals>> \/ UNCHANGED vars PROVE conv'[p] = conv[p]
  BY <1>4 DEF Outside, UnlockContact, CloseRequest, ChangeCandidacy, locals, vars
<1>. QED
  BY <1>1, <1>2, <1>3, <1>4, Steps

\* What a handler may store was held before, or comes from a check or a load.
LEMMA Held ==
  ASSUME Sound, [Next]_vars, NEW p \in Handlers, pc'[p] \in Holding
  PROVE  \/ pc[p] \in Holding /\ draft'[p].text = draft[p].text
            /\ draft'[p].deleted = draft[p].deleted /\ draft'[p].redactions = draft[p].redactions
            /\ base'[p] = base[p]
            /\ (pc'[p] \in {"checkSave", "save"} => pc[p] \in {"checkSave", "save"})
         \/ Check(p) /\ draft'[p] = Protect(draft[p], conv[p].policy) /\ chat' = chat /\ pc'[p] = "allocate"
         \/ LoadMessage(p) /\ ~Finish(p)
<1>0. LocalsOK
  BY DEF Sound, ServerOK
<1>1. ASSUME Continue(p), ~Check(p), ~LoadMessage(p), ~AllocateSeq(p)
      PROVE  pc[p] \in Holding /\ draft'[p] = draft[p] /\ base'[p] = base[p]
             /\ (pc'[p] \in {"checkSave", "save"} => pc[p] \in {"checkSave", "save"})
  BY <1>0, <1>1 DEF Continue, Replay, InsertOnce, Publish, CheckSave, SaveMessage, AdvanceWatermarks,
     Announce, Go, Hold, Finish, LocalsOK, Holding
<1>2. ASSUME Check(p)
      PROVE  draft'[p] = Protect(draft[p], conv[p].policy) /\ chat' = chat /\ pc'[p] = "allocate"
  BY <1>0, <1>2 DEF Check, Hold, Finish, LocalsOK, Holding, server
<1>3. ASSUME LoadMessage(p) PROVE ~Finish(p)
  BY <1>0 DEF Finish, LocalsOK, Holding
<1>4. ASSUME AllocateSeq(p)
      PROVE  pc[p] \in Holding /\ draft'[p].text = draft[p].text /\ draft'[p].deleted = draft[p].deleted
             /\ draft'[p].redactions = draft[p].redactions /\ base'[p] = base[p] /\ pc'[p] = "insert"
  BY <1>0, <1>4 DEF AllocateSeq, LocalsOK, Holding, MessageDocs
<1>5. ASSUME Begins(p) \/ Ends(p) PROVE FALSE
  BY <1>0, <1>5 DEF Begins, Ends, Acks, Send, Change, Acknowledge, Enter, Finish, LocalsOK, Holding
<1>6. ASSUME NEW q \in Handlers, Continue(q) \/ Begins(q) \/ Ends(q), q # p
      PROVE  pc'[p] = pc[p] /\ draft'[p] = draft[p] /\ base'[p] = base[p]
  BY <1>6, StepFrame DEF Frame, Sound
<1>7. ASSUME Outside \/ UNCHANGED <<server, locals>> \/ UNCHANGED vars
      PROVE  pc'[p] = pc[p] /\ draft'[p] = draft[p] /\ base'[p] = base[p]
  BY <1>7 DEF Outside, UnlockContact, CloseRequest, ChangeCandidacy, locals, vars
<1>. QED
  BY <1>1, <1>2, <1>3, <1>4, <1>5, <1>6, <1>7, Steps

LEMMA EditedShown ==
  ASSUME NEW m \in MessageDocs, NEW text, Edited(m, "PROTECTED", text).text \in Details
  PROVE  FALSE
<1>. DEFINE e == [m EXCEPT !.text = text, !.edited = TRUE, !.version = @ + 1]
            list == Append(e.redactions, e.text)
<1>1. e.text = text /\ \A t, x : [e EXCEPT !.text = t, !.redactions = x].text = t
  BY DEF MessageDocs
<1>2. Edited(m, "PROTECTED", text)
        = IF e.text \in Details THEN [e EXCEPT !.text = "masked", !.redactions = list] ELSE e
  BY DEF Edited, Protect
<1>3. "masked" \notin Details
  BY DEF Details
<1>. HIDE DEF e, list
<1>. QED
  BY <1>1, <1>2, <1>3

LEMMA ShieldedStep ==
  ASSUME Sound, Protected, [Next]_vars
  PROVE  Shielded'
<1>. SUFFICES ASSUME NEW p \in Handlers
              PROVE  /\ conv'[p].policy = "UNLOCKED" => chat'.policy = "UNLOCKED"
                     /\ chat'.policy = "PROTECTED" /\ pc'[p] \in Holding => draft'[p].text \notin Details
  BY DEF Shielded
<1>1. conv'[p].policy = "UNLOCKED" => chat'.policy = "UNLOCKED"
  BY Reloads, UnlockedStays DEF Protected, Shielded, NewChat
<1>2. ASSUME chat'.policy = "PROTECTED", pc'[p] \in Holding PROVE draft'[p].text \notin Details
  <2>1. chat.policy = "PROTECTED" /\ conv[p].policy = "PROTECTED"
    <3>1. conv[p].policy \in {"PROTECTED", "UNLOCKED"}
      BY DEF Sound, ServerOK, LocalsOK, ChatDocs
    <3>. QED
      BY <1>2, <3>1, UnlockedStays DEF Protected, Shielded
  <2>2. CASE pc[p] \in Holding /\ draft'[p].text = draft[p].text
    BY <2>1, <2>2 DEF Protected, Shielded
  <2>3. CASE draft'[p] = Protect(draft[p], conv[p].policy)
    BY <2>1, <2>3, ProtectTyped DEF Sound, ServerOK, LocalsOK
  <2>4. CASE LoadMessage(p) /\ ~Finish(p)
    <3>1. PICK m \in messages, c \in MessageDocs :
            /\ (\E text : c = Edited(m, conv[p].policy, text)) \/ c.text = m.text
            /\ draft' = [draft EXCEPT ![p] = c]
      BY <2>4, Loads DEF Sound
    <3>2. m.text \notin Details /\ m \in MessageDocs
      BY <2>1 DEF Protected, NoContactBeforeUnlock, Sound, ServerOK, StoredOK
    <3>3. c.text \notin Details
      BY <2>1, <3>1, <3>2, EditedShown
    <3>. QED
      BY <3>1, <3>3 DEF Sound, ServerOK, LocalsOK
  <2>. QED
    BY <1>2, <2>2, <2>3, <2>4, Held
<1>. QED
  BY <1>1, <1>2

\* While contact is protected no stored text shows a contact detail, for any
\* interleaving of sends, edits and the acceptance of an offer.
THEOREM ContactStaysHidden == Spec => []NoContactBeforeUnlock
<1>1. Init => Protected
  BY DEF Init, ServerInit, Protected, NoContactBeforeUnlock, Shielded, NewChat, Holding
<1>2. ASSUME Sound, Protected, [Next]_vars PROVE NoContactBeforeUnlock'
  <2>. SUFFICES ASSUME chat'.policy = "PROTECTED", NEW n \in messages'
                PROVE  n.text \notin Details
    BY DEF NoContactBeforeUnlock
  <2>1. chat.policy = "PROTECTED"
    BY <1>2, UnlockedStays
  <2>2. \A m \in messages : m.text \notin Details /\ m \in MessageDocs
    BY <1>2, <2>1 DEF Protected, NoContactBeforeUnlock, Sound, ServerOK, StoredOK
  <2>3. \A p \in Handlers : pc[p] \in Holding => draft[p].text \notin Details
    BY <1>2, <2>1 DEF Protected, Shielded
  <2>4. ASSUME NEW p \in Handlers, InsertOnce(p) PROVE n.text \notin Details
    BY <2>2, <2>3, <2>4 DEF InsertOnce, Holding
  <2>5. ASSUME NEW p \in Handlers, SaveMessage(p) PROVE n.text \notin Details
    <3>1. PICK m \in messages : n = m \/ n = Merged(p, m)
      BY <1>2, <2>5, SavedAll DEF Sound
    <3>2. Merged(p, m).text \in {m.text, draft[p].text}
      BY <1>2, <2>2, MergedTyped DEF Sound, ServerOK
    <3>3. draft[p].text \notin Details
      BY <2>3, <2>5 DEF SaveMessage, Holding
    <3>. QED
      BY <2>2, <3>1, <3>2, <3>3
  <2>. QED
    BY <1>2, <2>2, <2>4, <2>5, Writers
<1>3. ASSUME Sound, Protected, [Next]_vars PROVE Protected'
  BY <1>2, <1>3, ShieldedStep DEF Protected
<1>4. Protected => NoContactBeforeUnlock
  BY DEF Protected
<1>. QED
  BY <1>1, <1>3, <1>4, SoundInvariant, PTL DEF Spec

\* What a save changes: it deletes and it adds a detection to those that were
\* loaded, it never does the reverse.
Careful ==
    \A p \in Handlers : pc[p] \in {"checkSave", "save"} =>
        ~base[p].deleted /\ Moderated(base[p].redactions, draft[p].redactions)

LEMMA CarefulStep ==
  ASSUME Sound, Careful, [Next]_vars
  PROVE  Careful'
<1>. SUFFICES ASSUME NEW p \in Handlers, pc'[p] \in {"checkSave", "save"}
              PROVE  ~base'[p].deleted /\ Moderated(base'[p].redactions, draft'[p].redactions)
  BY DEF Careful
<1>1. CASE LoadMessage(p) /\ ~Finish(p)
  <2>1. PICK m \in messages, c \in MessageDocs :
          /\ ~m.deleted /\ Moderated(m.redactions, c.redactions)
          /\ base' = [base EXCEPT ![p] = m] /\ draft' = [draft EXCEPT ![p] = c]
    BY <1>1, Loads DEF Sound
  <2>. QED
    BY <2>1 DEF Sound, ServerOK, LocalsOK
<1>2. CASE pc[p] \in {"checkSave", "save"} /\ draft'[p].redactions = draft[p].redactions /\ base'[p] = base[p]
  BY <1>2 DEF Careful
<1>. QED
  BY <1>1, <1>2, Held DEF Holding

\* However stale the copy it writes, no save brings a deleted message back or
\* leaves a moderated message without a detection, and none drops a detection
\* its handler had read: only a stale save of another detection can.
THEOREM ModerationSurvives == Spec => ModerationKept
<1>. DEFINE Kept(m, n) == /\ m.deleted => n.deleted
                          /\ m.redactions # << >> => n.redactions # << >>
                          /\ Moderated(m.redactions, n.redactions) \/ StaleSave(m, n)
<1>1. Init => Careful
  BY DEF Init, ServerInit, Careful
<1>2. ASSUME Sound, Careful, SentOnce, [Next]_vars
      PROVE  \A m \in messages, n \in messages' : m.id = n.id => Kept(m, n)
  <2>. SUFFICES ASSUME NEW m \in messages, NEW n \in messages', m.id = n.id
                PROVE  Kept(m, n)
    OBVIOUS
  <2>1. ASSUME n \in messages PROVE Kept(m, n)
    BY <1>2, <2>1 DEF SentOnce, Moderated
  <2>2. ASSUME NEW p \in Handlers, InsertOnce(p) PROVE n \in messages
    BY <2>2 DEF InsertOnce, AlreadyStored, Stored
  <2>3. ASSUME NEW p \in Handlers, SaveMessage(p) PROVE Kept(m, n)
    <3>1. PICK k \in messages : n = IF k.id = draft[p].id THEN Merged(p, k) ELSE k
      BY <2>3, Saves
    <3>2. k = m /\ m \in MessageDocs
      <4>1. k \in MessageDocs
        BY <1>2 DEF Sound, ServerOK, StoredOK
      <4>2. n.id = k.id
        BY <1>2, <3>1, <4>1, MergedTyped DEF Sound, ServerOK
      <4>. QED
        BY <1>2, <4>1, <4>2 DEF SentOnce
    <3>3. CASE k.id # draft[p].id
      BY <3>1, <3>2, <3>3, <2>1
    <3>4. CASE k.id = draft[p].id
      <4>1. /\ n.deleted = SetIfModified(base[p].deleted, draft[p].deleted, m.deleted)
            /\ n.redactions = SetIfModified(base[p].redactions, draft[p].redactions, m.redactions)
        BY <1>2, <3>1, <3>2, <3>4, MergedTyped DEF Sound, ServerOK
      <4>2. ~base[p].deleted /\ Moderated(base[p].redactions, draft[p].redactions) /\ pc[p] = "save"
        BY <1>2, <2>3 DEF Careful, SaveMessage
      <4>3. /\ base[p].deleted \in BOOLEAN /\ draft[p].deleted \in BOOLEAN
            /\ base[p].redactions \in Detections /\ m.redactions \in Detections
        BY <1>2, <3>2 DEF Sound, ServerOK, LocalsOK, MessageDocs
      <4>4. m.deleted => n.deleted
        BY <4>1, <4>2, <4>3 DEF SetIfModified
      <4>5. CASE draft[p].redactions = base[p].redactions
        <5>1. n.redactions = m.redactions
          BY <4>1, <4>5 DEF SetIfModified
        <5>. QED
          BY <4>4, <5>1 DEF Moderated
      <4>6. CASE draft[p].redactions # base[p].redactions
        <5>1. PICK kind \in Details : draft[p].redactions = Append(base[p].redactions, kind)
          BY <4>2, <4>6 DEF Moderated
        <5>2. n.redactions = draft[p].redactions
          BY <4>1, <4>6 DEF SetIfModified
        <5>3. Append(base[p].redactions, kind) # << >>
          BY <4>3
        <5>4. CASE base[p].redactions = m.redactions
          BY <4>4, <5>1, <5>2, <5>3, <5>4 DEF Moderated
        <5>5. CASE base[p].redactions # m.redactions
          <6>1. StaleSave(m, n)
            BY <3>2, <3>4, <4>2, <5>2, <5>5 DEF StaleSave
          <6>. QED
            BY <4>4, <5>1, <5>2, <5>3, <6>1
        <5>. QED
          BY <5>4, <5>5
      <4>. QED
        BY <4>5, <4>6
    <3>. QED
      BY <3>3, <3>4
  <2>. QED
    BY <1>2, <2>1, <2>2, <2>3, Writers
<1>3. ASSUME Sound, Careful, SentOnce, [Next]_vars
      PROVE  [\A m \in messages, n \in messages' : m.id = n.id => Kept(m, n)]_server
  BY <1>2, <1>3
<1>. QED
  BY <1>1, <1>3, CarefulStep, SoundInvariant, OneMessagePerSend, PTL DEF Spec, ModerationKept

-----------------------------------------------------------------------------
(***************************************************************************)
(* Versions in a tab whose first page is there.  Merging is safe whatever  *)
(* the order of pushes, pages and answers, as long as a tab holds one view *)
(* of each message and what it merges brings at most one: a page does,     *)
(* because the collection has one document for each clientMessageId.       *)
(***************************************************************************)
Single(views) == \A v, w \in views : v.id = w.id => v = w

Ahead(old, new) == \A v \in old, w \in new : v.id = w.id => w.version >= v.version

Versioned(views) == \A v \in views : v.version \in Nat

\* Only catch-ups are under way, and a page brings one view of a message.
Fetched(fs) == \A f \in fs : f.kind = "catchUp" /\ Single(f.page.views)

Merging == /\ \A r \in Roles : Single(held[r])
           /\ \A r \in Roles : loaded[r] /\ Fetched(fetches[r])

LEMMA UpsertForward ==
  ASSUME NEW a, Single(a), Versioned(a), NEW b, Single(b)
  PROVE  Single(Upsert(a, b)) /\ Ahead(a, Upsert(a, b))
<1>1. Single(Upsert(a, b))
  BY DEF Single, Upsert
<1>2. Ahead(a, Upsert(a, b))
  <2>. SUFFICES ASSUME NEW v \in a, NEW w \in Upsert(a, b), v.id = w.id
                PROVE  w.version >= v.version
    BY DEF Ahead
  <2>1. CASE w \in a
    BY <2>1 DEF Single, Versioned
  <2>2. CASE w \in b /\ Wins(w, v)
    BY <2>2 DEF Wins
  <2>. QED
    BY <2>1, <2>2 DEF Upsert
<1>. QED
  BY <1>1, <1>2

\* What applyReceipts makes of one message.
Ticked(m, event, r) ==
    LET reached == IF m.seq <= event.mark.read THEN "READ"
                   ELSE IF m.seq <= event.mark.delivered THEN "DELIVERED" ELSE "SENT"
    IN  IF m.tick # "none" /\ event.role # r /\ Rank(reached) > Rank(m.tick)
        THEN [m EXCEPT !.tick = reached] ELSE m

LEMMA TickedOnly ==
  ASSUME NEW n, NEW a \in SUBSET Views(n), NEW e, NEW r
  PROVE  /\ ApplyReceipts(a, e, r) = {Ticked(m, e, r) : m \in a}
         /\ \A m \in a : /\ Ticked(m, e, r).id = m.id /\ Ticked(m, e, r).seq = m.seq
                         /\ Ticked(m, e, r).version = m.version
<1>1. ApplyReceipts(a, e, r) = {Ticked(m, e, r) : m \in a}
  BY Zenon DEF ApplyReceipts, Ticked
<1>2. \A m \in a : \A t : /\ [m EXCEPT !.tick = t].id = m.id /\ [m EXCEPT !.tick = t].seq = m.seq
                          /\ [m EXCEPT !.tick = t].version = m.version
  BY DEF Views
<1>3. ASSUME NEW m \in a
      PROVE  /\ Ticked(m, e, r).id = m.id /\ Ticked(m, e, r).seq = m.seq
             /\ Ticked(m, e, r).version = m.version
  <2>1. PICK t : Ticked(m, e, r) \in {m, [m EXCEPT !.tick = t]}
    BY DEF Ticked
  <2>. QED
    BY <1>2, <2>1
<1>. QED
  BY <1>1, <1>3

LEMMA ReceiptsForward ==
  ASSUME NEW n, NEW a \in SUBSET Views(n), Single(a), NEW e, NEW r
  PROVE  Single(ApplyReceipts(a, e, r)) /\ Ahead(a, ApplyReceipts(a, e, r))
<1>1. ApplyReceipts(a, e, r) = {Ticked(m, e, r) : m \in a}
  BY TickedOnly
<1>2. \A m \in a : Ticked(m, e, r).id = m.id /\ Ticked(m, e, r).version = m.version
  BY TickedOnly
<1>3. Single(ApplyReceipts(a, e, r))
  BY <1>1, <1>2 DEF Single
<1>4. Ahead(a, ApplyReceipts(a, e, r))
  <2>. SUFFICES ASSUME NEW v \in a, NEW w \in ApplyReceipts(a, e, r), v.id = w.id
                PROVE  w.version >= v.version
    BY DEF Ahead
  <2>1. PICK m \in a : w.id = m.id /\ w.version = m.version
    BY <1>1, <1>2
  <2>2. m = v /\ v.version \in Nat
    BY <2>1 DEF Single, Views
  <2>. QED
    BY <2>1, <2>2
<1>. QED
  BY <1>3, <1>4

LEMMA PageSingle ==
  ASSUME SentOnce, NEW f, NEW r
  PROVE  Single(Page(f, r).views)
<1>1. \A m \in messages : View(m, r, chat).id = m.id
  BY DEF View
<1>2. PICK kept \in SUBSET messages : Page(f, r).views = {View(m, r, chat) : m \in kept}
  BY DEF Page
<1>. QED
  BY <1>1, <1>2 DEF Single, SentOnce

LEMMA FetchSingle ==
  ASSUME NEW after
  PROVE  Fetch("catchUp", after).kind = "catchUp" /\ Single(Fetch("catchUp", after).page.views)
  BY DEF Fetch, Single

\* What a step does to the messages a tab shows.
LEMMA Shows ==
  ASSUME Sound, Merging, Next
  PROVE  \/ held' = held
         \/ \E r \in Roles : \E b : Single(b) /\ held' = [held EXCEPT ![r] = Upsert(held[r], b)]
         \/ \E r \in Roles : \E e : held' = [held EXCEPT ![r] = ApplyReceipts(held[r], e, r)]
<1>. USE ThreadAssumption
<1>1. \A v : Single({v})
  BY DEF Single
<1>2. ASSUME NEW r \in Tabs, TakePage(r)
      PROVE  \E b : Single(b) /\ held' = [held EXCEPT ![r] = Upsert(held[r], b)]
  <2>1. PICK f \in fetches[r] : ShowFirstPage(r, f) \/ MergePage(r, f)
    BY <1>2 DEF TakePage
  <2>2. f.kind = "catchUp" /\ Single(f.page.views)
    BY <2>1 DEF Merging, Fetched
  <2>. QED
    BY <2>1, <2>2 DEF ShowFirstPage, MergePage
<1>3. ASSUME NEW r \in Tabs, Receive(r)
      PROVE  \/ \E b : Single(b) /\ held' = [held EXCEPT ![r] = Upsert(held[r], b)]
             \/ \E e : held' = [held EXCEPT ![r] = ApplyReceipts(held[r], e, r)]
  BY <1>1, <1>3 DEF Receive
<1>4. ASSUME NEW p \in Handlers, TakeAnswer(p)
      PROVE  \/ held' = held
             \/ \E r \in Roles : \E b : Single(b) /\ held' = [held EXCEPT ![r] = Upsert(held[r], b)]
  <2>1. caller[p] \in Roles
    BY DEF Sound, ServerOK, LocalsOK
  <2>2. held \in [Roles -> SUBSET Views(chat.lastSeq)]
    BY DEF Sound, TabsOK
  <2>3. CASE caller[p] \in Tabs
    <3>1. held' = [held EXCEPT ![caller[p]] = Upsert(held[caller[p]], {View(draft[p], caller[p], conv[p])})]
      BY <1>4, <2>3 DEF TakeAnswer
    <3>. QED
      BY <1>1, <2>1, <3>1
  <2>4. CASE caller[p] \notin Tabs
    <3>1. held' = [held EXCEPT ![caller[p]] = @]
      BY <1>4, <2>4 DEF TakeAnswer
    <3>. QED
      BY <2>1, <2>2, <3>1
  <2>. QED
    BY <2>3, <2>4
<1>5. ASSUME NEW r \in Tabs, AskFirstPage(r) \/ ReadPage(r) \/ Connect(r) \/ Disconnect(r) \/ FailPage(r)
      PROVE  held' = held
  BY <1>5 DEF AskFirstPage, ReadPage, Connect, Disconnect, FailPage
<1>6. ASSUME NEW p \in Handlers, Ask(p) PROVE held' = held
  BY <1>6 DEF Ask, tab
<1>7. ASSUME NEW p \in Handlers, NEW r \in Tabs, AcknowledgeHeld(p, r) PROVE held' = held
  BY <1>7 DEF AcknowledgeHeld
<1>8. ASSUME UNCHANGED tab PROVE held' = held
  BY <1>8 DEF tab
<1>. QED
  BY <1>2, <1>3, <1>4, <1>5, <1>6, <1>7, <1>8 DEF Next, Progress

\* What a step does to the pages a tab has asked for.
LEMMA Pages ==
  ASSUME Sound, Merging, SentOnce, Next
  PROVE  loaded' = loaded /\ \A r \in Roles : Fetched(fetches'[r])
<1>. USE ThreadAssumption
<1>1. fetches \in [Roles -> SUBSET Fetches(chat.lastSeq)]
  BY DEF Sound, TabsOK
<1>2. ASSUME fetches' = fetches PROVE \A r \in Roles : Fetched(fetches'[r])
  BY <1>2 DEF Merging
<1>3. ASSUME NEW r \in Tabs, NEW more, Fetched(more), NEW less \in SUBSET fetches[r],
             fetches' = [fetches EXCEPT ![r] = less \cup more]
      PROVE  \A s \in Roles : Fetched(fetches'[s])
  <2>1. Fetched(less \cup more)
    BY <1>3 DEF Merging, Fetched
  <2>. QED
    BY <1>1, <1>3, <2>1 DEF Merging
<1>4. ASSUME NEW r \in Tabs, AskFirstPage(r) PROVE FALSE
  BY <1>4 DEF AskFirstPage, Merging
<1>5. ASSUME NEW r \in Tabs, ReadPage(r)
      PROVE  loaded' = loaded /\ \A s \in Roles : Fetched(fetches'[s])
  <2>1. PICK f \in fetches[r] : fetches' = [fetches EXCEPT ![r] =
               (@ \ {f}) \cup {[f EXCEPT !.read = TRUE, !.page = Page(f, r)]}]
    BY <1>5 DEF ReadPage
  <2>2. f \in Fetches(chat.lastSeq) /\ f.kind = "catchUp"
    BY <1>1, <2>1 DEF Merging, Fetched
  <2>3. PICK g : g = [f EXCEPT !.read = TRUE, !.page = Page(f, r)]
    OBVIOUS
  <2>4. g.kind = f.kind /\ g.page = Page(f, r)
    BY <2>2, <2>3 DEF Fetches
  <2>5. Fetched({g})
    BY <2>2, <2>4, PageSingle DEF Fetched
  <2>6. fetches' = [fetches EXCEPT ![r] = (fetches[r] \ {f}) \cup {g}]
    BY <2>1, <2>3
  <2>7. fetches[r] \ {f} \in SUBSET fetches[r] /\ loaded' = loaded
    BY <1>5 DEF ReadPage
  <2>. QED
    BY <1>3, <2>5, <2>6, <2>7
<1>6. ASSUME NEW r \in Tabs, TakePage(r)
      PROVE  loaded' = loaded /\ \A s \in Roles : Fetched(fetches'[s])
  <2>1. PICK f \in fetches[r] : ShowFirstPage(r, f) \/ MergePage(r, f)
    BY <1>6 DEF TakePage
  <2>2. MergePage(r, f)
    BY <2>1 DEF ShowFirstPage, Merging, Fetched
  <2>3. PICK more : /\ Fetched(more)
                    /\ fetches' = [fetches EXCEPT ![r] = (fetches[r] \ {f}) \cup more]
    <3>1. Fetched({Fetch("catchUp", Highest(f.page.views))}) /\ Fetched({})
      BY FetchSingle DEF Fetched
    <3>. QED
      BY <2>2, <3>1 DEF MergePage
  <2>4. fetches[r] \ {f} \in SUBSET fetches[r] /\ loaded' = loaded
    BY <2>2 DEF MergePage
  <2>. QED
    BY <1>3, <2>3, <2>4
<1>7. ASSUME NEW r \in Tabs, Connect(r)
      PROVE  loaded' = loaded /\ \A s \in Roles : Fetched(fetches'[s])
  <2>1. Fetched({Fetch("catchUp", CatchUpCursor(r))})
    BY FetchSingle DEF Fetched
  <2>2. \/ fetches' = fetches
        \/ fetches' = [fetches EXCEPT ![r] = fetches[r] \cup {Fetch("catchUp", CatchUpCursor(r))}]
    BY <1>1, <1>7 DEF Connect
  <2>. QED
    BY <1>2, <1>3, <1>7, <2>1, <2>2 DEF Connect
<1>8. ASSUME NEW r \in Tabs, FailPage(r)
      PROVE  loaded' = loaded /\ \A s \in Roles : Fetched(fetches'[s])
  <2>1. PICK f \in fetches[r] : fetches' = [fetches EXCEPT ![r] = (fetches[r] \ {f}) \cup {}]
    BY <1>8 DEF FailPage
  <2>2. fetches[r] \ {f} \in SUBSET fetches[r] /\ loaded' = loaded /\ Fetched({})
    BY <1>8 DEF FailPage, Fetched
  <2>. QED
    BY <1>3, <2>1, <2>2
<1>9. ASSUME NEW p \in Handlers, TakeAnswer(p) PROVE UNCHANGED <<loaded, fetches>>
  BY <1>9 DEF TakeAnswer
<1>10. ASSUME NEW r \in Tabs, Receive(r) \/ Disconnect(r) PROVE UNCHANGED <<loaded, fetches>>
  BY <1>10 DEF Receive, Disconnect
<1>11. ASSUME NEW p \in Handlers, Ask(p) PROVE UNCHANGED <<loaded, fetches>>
  BY <1>11 DEF Ask, tab
<1>12. ASSUME NEW p \in Handlers, NEW r \in Tabs, AcknowledgeHeld(p, r) PROVE UNCHANGED <<loaded, fetches>>
  BY <1>12 DEF AcknowledgeHeld
<1>13. ASSUME UNCHANGED tab PROVE UNCHANGED <<loaded, fetches>>
  BY <1>13 DEF tab
<1>. QED
  BY <1>2, <1>4, <1>5, <1>6, <1>7, <1>8, <1>9, <1>10, <1>11, <1>12, <1>13 DEF Next, Progress

LEMMA MergingStep ==
  ASSUME Sound, Merging, SentOnce, [Next]_vars
  PROVE  Merging' /\ [\A r \in Tabs : Ahead(held[r], held'[r])]_vars
<1>1. CASE UNCHANGED vars
  BY <1>1 DEF vars, tab, Merging
<1>2. CASE Next
  <2>1. ASSUME NEW r \in Roles PROVE Single(held[r]) /\ held[r] \in SUBSET Views(chat.lastSeq)
    BY DEF Merging, Sound, TabsOK
  <2>2. ASSUME NEW r \in Roles PROVE Versioned(held[r]) /\ Ahead(held[r], held[r])
    BY <2>1 DEF Versioned, Ahead, Single, Views
  <2>3. held \in [Roles -> SUBSET Views(chat.lastSeq)]
    BY DEF Sound, TabsOK
  <2>4. ASSUME NEW r \in Roles PROVE Single(held'[r]) /\ Ahead(held[r], held'[r])
    <3>1. CASE held' = held
      BY <2>1, <2>2, <3>1
    <3>2. ASSUME NEW s \in Roles, NEW b, Single(b), held' = [held EXCEPT ![s] = Upsert(held[s], b)]
          PROVE  Single(held'[r]) /\ Ahead(held[r], held'[r])
      <4>1. held'[r] = IF r = s THEN Upsert(held[s], b) ELSE held[r]
        BY <2>3, <3>2
      <4>. QED
        BY <2>1, <2>2, <3>2, <4>1, UpsertForward
    <3>3. ASSUME NEW s \in Roles, NEW e, held' = [held EXCEPT ![s] = ApplyReceipts(held[s], e, s)]
          PROVE  Single(held'[r]) /\ Ahead(held[r], held'[r])
      <4>1. held'[r] = IF r = s THEN ApplyReceipts(held[s], e, s) ELSE held[r]
        BY <2>3, <3>3
      <4>2. Single(ApplyReceipts(held[r], e, r)) /\ Ahead(held[r], ApplyReceipts(held[r], e, r))
        BY <2>1, ReceiptsForward
      <4>. QED
        BY <2>1, <2>2, <4>1, <4>2
    <3>. QED
      BY <1>2, <3>1, <3>2, <3>3, Shows
  <2>5. loaded' = loaded /\ \A r \in Roles : Fetched(fetches'[r])
    BY <1>2, Pages
  <2>. QED
    BY <2>4, <2>5, ThreadAssumption DEF Merging
<1>. QED
  BY <1>1, <1>2

\* What a tab shows of a message never goes back to an older version, in
\* whatever order pushes, catch-up pages and the answers to its own calls
\* arrive, once its first page is there: the first page itself replaces what
\* came before it.
THEOREM NeverAnOlderView ==
  ASSUME Loaded = TRUE
  PROVE  Spec => VersionsForward
<1>1. Init => Merging
  BY DEF Init, Merging, Single, Fetched
<1>2. ASSUME Sound, Merging, SentOnce, [Next]_vars
      PROVE  [\A r \in Tabs : \A v \in held[r], w \in held'[r] : v.id = w.id => w.version >= v.version]_vars
  BY <1>2, MergingStep DEF Ahead
<1>3. ASSUME Sound, Merging, SentOnce, [Next]_vars PROVE Merging'
  BY <1>3, MergingStep
<1>. QED
  BY <1>1, <1>2, <1>3, SoundInvariant, OneMessagePerSend, PTL DEF Spec, VersionsForward

-----------------------------------------------------------------------------
(***************************************************************************)
(* Nothing is missed by a tab that only reads.  The promise fails as soon  *)
(* as two sends overlap, a replica dies before it publishes, a page        *)
(* request is lost for good, or the tab merges the answer to a message of  *)
(* its own; without these it holds for any number of messages, of dropped  *)
(* connections and of changes to messages, and for pages of any size.      *)
(*                                                                         *)
(* Every message stored is shown by the tab, or on its way in a catch-up,  *)
(* or awaited: later than everything the tab shows or is about to, so that *)
(* the cursor of the next catch-up is below it, and not yet published, or  *)
(* queued in the room, or the tab is offline.                              *)
(***************************************************************************)
OneReader == /\ Loaded = TRUE
             /\ \E h : Handlers = {h}
             /\ "fail" \notin Faults /\ "crash" \notin Operations
             /\ \A i \in Ids : Author[i] \notin Tabs

\* What is shown or about to be is stored, under that number.
OnRecord(v) == \E m \in messages : m.id = v.id /\ m.seq = v.seq

Traced ==
    /\ \A r \in Roles : \A v \in held[r] : OnRecord(v)
    /\ \A r \in Roles : \A f \in fetches[r] : \A v \in f.page.views : OnRecord(v)
    /\ \A r \in Roles : \A k \in 1..Len(rooms[r]) :
          rooms[r][k].kind = "message" => OnRecord(rooms[r][k].view)
    /\ \A p \in Handlers : pc[p] \in {"checkSave", "save", "publish", "answer"} => OnRecord(draft[p])

\* The number about to be stored is above all those stored.
Latest == \A p \in Handlers : pc[p] = "insert" => \A m \in messages : m.seq < draft[p].seq

\* The changes asked for in a tab are to messages it shows.
Reading ==
    \A p \in Handlers : caller[p] \in Tabs =>
        /\ pc[p] \notin Sending \cup {"insert"}
        /\ pc[p] \in {"edit", "remove", "react", "checkSave", "save", "publish", "answer"}
              => \E v \in held[caller[p]] : v.id = draft[p].id

\* A catch-up starts from what the tab shows.
Behind == \A r \in Roles : \A f \in fetches[r] : f.after = 0 \/ \E v \in held[r] : v.seq >= f.after

Shown(m, r) == \E v \in held[r] : v.id = m.id

Coming(m, r) ==
    \E f \in fetches[r] :
        \/ ~f.read /\ f.after < m.seq
        \/ f.read /\ \E v \in f.page.views : v.id = m.id
        \/ f.read /\ f.page.more /\ Highest(f.page.views) < m.seq

Below(views, m) == \A v \in views : v.seq < m.seq
Earlier(e, m)   == e.kind = "message" => e.view.seq < m.seq

Queued(m, r) ==
    \E k \in 1..Len(rooms[r]) :
        /\ rooms[r][k].kind = "message" /\ rooms[r][k].view.id = m.id
        /\ \A j \in 1..(k - 1) : Earlier(rooms[r][j], m)

Told(m, r) ==
    /\ \E p \in Handlers : pc[p] = "publish" /\ draft[p].id = m.id
    /\ \A k \in 1..Len(rooms[r]) : Earlier(rooms[r][k], m)

Awaited(m, r) ==
    /\ Below(held[r], m) /\ \A f \in fetches[r] : Below(f.page.views, m)
    /\ r \notin online \/ Told(m, r) \/ Queued(m, r)

Accounted == \A r \in Tabs : \A m \in messages : Shown(m, r) \/ Coming(m, r) \/ Awaited(m, r)

\* What the steps below may rely on.
Orderly == Sound /\ Merging /\ SentOnce /\ SeqNamesMessage

Followed == Traced /\ Latest /\ Reading /\ Behind /\ Accounted /\ (\A r \in Roles : ~hasOlder[r])

LEMMA HighestReached ==
  ASSUME NEW n \in Nat, NEW S \in SUBSET Views(n)
  PROVE  Highest(S) = 0 \/ \E v \in S : v.seq = Highest(S)
<1>1. CASE S = {}
  BY <1>1 DEF Highest
<1>2. CASE S # {}
  <2>. DEFINE seqs == {v.seq : v \in S}
  <2>1. \A v \in S : v.seq \in 0..n
    BY DEF Views
  <2>2. seqs \in SUBSET Nat /\ (\A s \in seqs : s <= n) /\ seqs # {}
    BY <1>2, <2>1
  <2>3. \E m \in seqs : \A s \in seqs : s <= m
    <3>. HIDE DEF seqs
    <3>. QED
      BY <2>2, HasMaximum
  <2>4. \E m \in seqs : \A v \in S : v.seq <= m
    BY <2>3
  <2>5. Highest(S) = CHOOSE m \in seqs : \A v \in S : v.seq <= m
    BY <1>2 DEF Highest
  <2>6. Highest(S) \in seqs
    <3>. HIDE DEF seqs
    <3>. QED
      BY <2>4, <2>5
  <2>. QED
    BY <2>6
<1>. QED
  BY <1>1, <1>2

LEMMA HighestBelow ==
  ASSUME NEW n \in Nat, NEW S \in SUBSET Views(n), NEW m, m.seq \in Nat, m.seq >= 1, Below(S, m)
  PROVE  Highest(S) < m.seq
  BY HighestReached, HighestBounded DEF Below

LEMMA MessagesFinite ==
  ASSUME ServerOK, SeqNamesMessage
  PROVE  IsFiniteSet(messages)
<1>. DEFINE f == [m \in messages |-> m.seq]
<1>1. IsFiniteSet(1..chat.lastSeq)
  BY LastSeqTyped, FS_Interval
<1>2. f \in Injection(messages, 1..chat.lastSeq)
  BY DEF SeqNamesMessage, Injection, IsInjective
<1>. QED
  BY <1>1, <1>2, FS_Injection

\* A page read by a catch-up that starts below m has m, or ends below it and
\* says that there is more.
LEMMA PageReaches ==
  ASSUME Orderly, NEW f, f.kind = "catchUp", NEW r, NEW m \in messages, f.after < m.seq
  PROVE  \/ \E v \in Page(f, r).views : v.id = m.id
         \/ Page(f, r).more /\ Highest(Page(f, r).views) < m.seq
<1>. DEFINE beyond == {x \in messages : f.kind = "first" \/ x.seq > f.after}
            lower(x) == {n \in beyond : Before(f, x, n)}
            kept == {x \in beyond : Cardinality(lower(x)) < PageSize}
<1>1. Page(f, r) = [views |-> {View(x, r, chat) : x \in kept}, more |-> kept # beyond]
  BY DEF Page
<1>2. m.seq \in Nat /\ m.seq >= 1 /\ \A x \in messages : x.seq \in Nat
  BY LastSeqTyped DEF Orderly, Sound, SeqNamesMessage, ServerOK, StoredOK, MessageDocs
<1>3. \A x \in messages : View(x, r, chat).id = x.id /\ View(x, r, chat).seq = x.seq
  BY DEF View
<1>4. Page(f, r).views = {View(x, r, chat) : x \in kept} /\ Page(f, r).more = (kept # beyond)
  BY <1>1
<1>5. CASE m \in kept
  <2>. HIDE DEF kept
  <2>1. m \in messages /\ View(m, r, chat) \in {View(x, r, chat) : x \in kept}
    BY <1>5
  <2>. QED
    BY <1>3, <1>4, <2>1
<1>6. CASE m \notin kept
  <2>1. m \in beyond
    BY <1>2
  <2>2. Page(f, r).more
    BY <1>6, <1>4, <2>1
  <2>3. ASSUME NEW x \in kept PROVE x.seq < m.seq
    <3>1. SUFFICES ASSUME x.seq >= m.seq PROVE FALSE
      BY <1>2
    <3>2. lower(m) \subseteq lower(x)
      BY <1>2, <3>1 DEF Before
    <3>3. IsFiniteSet(messages)
      BY MessagesFinite DEF Orderly, Sound
    <3>4. IsFiniteSet(lower(x)) /\ IsFiniteSet(lower(m))
      BY <3>3, FS_Subset
    <3>5. Cardinality(lower(m)) <= Cardinality(lower(x))
      <4>. HIDE DEF lower
      <4>. QED
        BY <3>2, <3>4, FS_Subset
    <3>6. Cardinality(lower(m)) \in Nat /\ Cardinality(lower(x)) \in Nat /\ PageSize \in Nat
      <4>. HIDE DEF lower
      <4>. QED
        BY <3>4, FS_CardinalityType, ThreadAssumption
    <3>7. Cardinality(lower(x)) < PageSize /\ ~(Cardinality(lower(m)) < PageSize)
      BY <1>6, <2>1
    <3>. HIDE DEF lower
    <3>. QED
      BY <3>5, <3>6, <3>7
  <2>4. Below(Page(f, r).views, m)
    <3>1. kept \subseteq messages
      OBVIOUS
    <3>. HIDE DEF kept
    <3>. QED
      BY <1>3, <1>4, <2>3, <3>1 DEF Below
  <2>5. Page(f, r).views \in SUBSET Views(chat.lastSeq) /\ chat.lastSeq \in Nat
    BY PageTyped, LastSeqTyped DEF Orderly, Sound
  <2>. HIDE DEF beyond, lower, kept
  <2>. QED
    BY <1>2, <2>2, <2>4, <2>5, HighestBelow
<1>. QED
  BY <1>5, <1>6

\* Merging keeps every message, under its number, and invents none.
LEMMA UpsertKeeps ==
  ASSUME NEW a, Single(a), NEW b, Single(b), \A v \in a, w \in b : v.id = w.id => v.seq = w.seq
  PROVE  /\ Upsert(a, b) \subseteq a \cup b
         /\ \A v \in a \cup b : \E w \in Upsert(a, b) : w.id = v.id /\ w.seq = v.seq
<1>1. Upsert(a, b) \subseteq a \cup b
  BY DEF Upsert
<1>2. ASSUME NEW v \in a PROVE \E w \in Upsert(a, b) : w.id = v.id /\ w.seq = v.seq
  <2>1. CASE \E w \in b : w.id = v.id /\ Wins(w, v)
    <3>1. PICK w \in b : w.id = v.id /\ Wins(w, v)
      BY <2>1
    <3>2. w \in Upsert(a, b) /\ w.seq = v.seq
      BY <3>1 DEF Upsert, Single
    <3>. QED
      BY <3>1, <3>2
  <2>2. CASE ~ \E w \in b : w.id = v.id /\ Wins(w, v)
    BY <2>2 DEF Upsert
  <2>. QED
    BY <2>1, <2>2
<1>3. ASSUME NEW v \in b PROVE \E w \in Upsert(a, b) : w.id = v.id /\ w.seq = v.seq
  <2>1. CASE \E c \in a : c.id = v.id /\ ~Wins(v, c)
    <3>1. PICK c \in a : c.id = v.id /\ ~Wins(v, c)
      BY <2>1
    <3>2. c \in Upsert(a, b) /\ c.seq = v.seq
      BY <3>1 DEF Upsert, Single
    <3>. QED
      BY <3>1, <3>2
  <2>2. CASE ~ \E c \in a : c.id = v.id /\ ~Wins(v, c)
    BY <2>2 DEF Upsert
  <2>. QED
    BY <2>1, <2>2
<1>. QED
  BY <1>1, <1>2, <1>3

LEMMA ReceiptsKeep ==
  ASSUME NEW n, NEW a \in SUBSET Views(n), NEW e, NEW r
  PROVE  /\ \A w \in ApplyReceipts(a, e, r) : \E v \in a : w.id = v.id /\ w.seq = v.seq
         /\ \A v \in a : \E w \in ApplyReceipts(a, e, r) : w.id = v.id /\ w.seq = v.seq
<1>. QED
  BY TickedOnly

\* What is on record stays on record.
LEMMA StaysOnRecord ==
  ASSUME Orderly, [Next]_vars, NEW v, OnRecord(v)
  PROVE  OnRecord(v)'
<1>1. PICK m \in messages : m.id = v.id /\ m.seq = v.seq
  BY DEF OnRecord
<1>2. CASE messages' = messages
  BY <1>1, <1>2 DEF OnRecord
<1>3. ASSUME NEW p \in Handlers, InsertOnce(p) PROVE m \in messages'
  BY <1>3 DEF InsertOnce
<1>4. ASSUME NEW p \in Handlers, SaveMessage(p) PROVE \E n \in messages' : n.id = m.id /\ n.seq = m.seq
  <2>1. messages' = {IF x.id = draft[p].id THEN Merged(p, x) ELSE x : x \in messages}
    BY <1>4, Saves
  <2>2. Merged(p, m).id = m.id /\ Merged(p, m).seq = m.seq
    BY MergedTyped DEF Orderly, Sound, ServerOK, StoredOK
  <2>. QED
    BY <2>1, <2>2
<1>. QED
  BY <1>1, <1>2, <1>3, <1>4, Writers DEF OnRecord, Orderly

\* Two views on record of one message have one number.
LEMMA OneNumber ==
  ASSUME SentOnce, NEW v, NEW w, OnRecord(v), OnRecord(w), v.id = w.id
  PROVE  v.seq = w.seq
  BY DEF SentOnce, OnRecord

LEMMA ViewNames ==
  ASSUME NEW m, NEW r, NEW c
  PROVE  View(m, r, c).id = m.id /\ View(m, r, c).seq = m.seq
  BY DEF View

LEMMA LoadKeepsId ==
  ASSUME ServerOK, NEW p \in Handlers, LoadMessage(p)
  PROVE  \/ Finish(p)
         \/ draft'[p].id = draft[p].id /\ caller' = caller /\ OnRecord(draft'[p])
<1>1. pc[p] \in {"edit", "remove", "react"} /\ draft[p].id \in Stored
  BY Carrying DEF LoadMessage
<1>2. PICK m : m = Find(draft[p].id)
  OBVIOUS
<1>3. m \in messages /\ m.id = draft[p].id
  BY <1>1, <1>2, Found
<1>4. CASE Finish(p)
  BY <1>4
<1>5. CASE ~Finish(p)
  <2>1. ~m.deleted /\ caller' = caller
    BY <1>2, <1>5 DEF LoadMessage
  <2>2. PICK c : draft' = [draft EXCEPT ![p] = c]
                 /\ c \in {Edited(m, conv[p].policy, draft[p].text), Removed(m),
                           Reacted(m, caller[p], draft[p].reactions # {})}
    BY <1>1, <1>2, <2>1 DEF LoadMessage
  <2>3. draft[p].text \in Texts \cup {"plain", "masked"} /\ caller[p] \in Roles
        /\ m \in MessageDocs /\ (draft[p].reactions # {}) \in BOOLEAN
    BY <1>3, Carrying DEF MessageDocs, ServerOK, StoredOK
  <2>4. c.id = m.id /\ c.seq = m.seq
    <3>1. PICK on \in BOOLEAN : on = (draft[p].reactions # {})
      BY <2>3
    <3>2. c \in {Edited(m, conv[p].policy, draft[p].text), Removed(m), Reacted(m, caller[p], on)}
      BY <2>2, <3>1
    <3>. QED
      BY <2>3, <3>2, ChangedTyped
  <2>5. draft'[p] = c
    BY <2>2 DEF ServerOK, LocalsOK
  <2>. QED
    BY <1>3, <2>1, <2>4, <2>5 DEF OnRecord
<1>. QED
  BY <1>4, <1>5

\* Nothing the tab of r shows or waits for changes.
Stays(r) == /\ held'[r] = held[r] /\ fetches'[r] = fetches[r] /\ rooms'[r] = rooms[r]
            /\ r \notin online => r \notin online'
            /\ \A p \in Handlers : pc[p] = "publish" => pc'[p] = "publish" /\ draft'[p] = draft[p]

LEMMA TabCases ==
  ASSUME Orderly, OneReader, Next, NEW r \in Roles
  PROVE  \/ r \in Tabs /\ (ReadPage(r) \/ TakePage(r) \/ Receive(r) \/ Connect(r) \/ Disconnect(r))
         \/ \E p \in Handlers : (Publish(p) \/ Announce(p)) /\ UNCHANGED tab
         \/ \E p \in Handlers : TakeAnswer(p)
         \/ Stays(r)
<1>. USE ThreadAssumption
<1>0. /\ held \in [Roles -> SUBSET Views(chat.lastSeq)]
      /\ rooms \in [Roles -> Seq(Events(chat.lastSeq))]
      /\ fetches \in [Roles -> SUBSET Fetches(chat.lastSeq)]
      /\ pc \in [Handlers -> Labels]
  BY DEF Orderly, Sound, TabsOK, ServerOK, LocalsOK
<1>1. PICK h : Handlers = {h}
  BY DEF OneReader
<1>2. ASSUME NEW s \in Tabs, AskFirstPage(s) \/ FailPage(s) PROVE FALSE
  BY <1>2 DEF AskFirstPage, FailPage, Orderly, Merging, OneReader
<1>3. ASSUME NEW s \in Tabs, s # r, ReadPage(s) \/ TakePage(s) \/ Receive(s) \/ Connect(s) \/ Disconnect(s)
      PROVE  Stays(r)
  <2>1. UNCHANGED locals
    BY <1>3 DEF ReadPage, TakePage, Receive, Connect, Disconnect
  <2>2. held'[r] = held[r] /\ fetches'[r] = fetches[r] /\ rooms'[r] = rooms[r]
    <3>1. CASE ReadPage(s)
      <4>1. PICK f \in fetches[s] : fetches' = [fetches EXCEPT ![s] =
               (@ \ {f}) \cup {[f EXCEPT !.read = TRUE, !.page = Page(f, s)]}]
        BY <3>1 DEF ReadPage
      <4>. QED
        BY <1>0, <1>3, <3>1, <4>1 DEF ReadPage, sockets
    <3>2. CASE TakePage(s)
      <4>1. PICK f \in fetches[s] : ShowFirstPage(s, f) \/ MergePage(s, f)
        BY <3>2 DEF TakePage
      <4>. QED
        BY <1>0, <1>3, <3>2, <4>1 DEF TakePage, ShowFirstPage, MergePage, sockets
    <3>3. CASE Receive(s)
      BY <1>0, <1>3, <3>3 DEF Receive
    <3>4. CASE Connect(s)
      BY <1>0, <1>3, <3>4 DEF Connect
    <3>5. CASE Disconnect(s)
      BY <1>0, <1>3, <3>5 DEF Disconnect
    <3>. QED
      BY <1>3, <3>1, <3>2, <3>3, <3>4, <3>5
  <2>3. r \notin online => r \notin online'
    BY <1>3 DEF ReadPage, TakePage, Receive, Connect, Disconnect, sockets
  <2>. QED
    BY <2>1, <2>2, <2>3 DEF Stays, locals
<1>4. ASSUME UNCHANGED <<sockets, held, fetches>>, pc[h] # "publish" \/ UNCHANGED locals
      PROVE  Stays(r)
  BY <1>1, <1>4 DEF Stays, sockets, locals
<1>5. ASSUME NEW p \in Handlers, Continue(p), UNCHANGED tab, ~Publish(p), ~Announce(p)
      PROVE  Stays(r)
  <2>1. UNCHANGED <<sockets, held, fetches>>
    BY <1>5 DEF Continue, Replay, Check, AllocateSeq, InsertOnce, LoadMessage, CheckSave, SaveMessage,
       AdvanceWatermarks, tab
  <2>2. pc[p] # "publish"
    BY <1>5 DEF Continue, Replay, Check, AllocateSeq, InsertOnce, LoadMessage, CheckSave, SaveMessage,
       AdvanceWatermarks
  <2>. QED
    BY <1>1, <1>4, <2>1, <2>2
<1>6. ASSUME NEW p \in Handlers, Ask(p) PROVE Stays(r)
  <2>1. UNCHANGED <<sockets, held, fetches>> /\ pc[p] # "publish"
    BY <1>6 DEF Ask, Request, Send, Change, Acknowledge, Enter, tab
  <2>. QED
    BY <1>1, <1>4, <2>1
<1>7. ASSUME NEW p \in Handlers, Crash(p) PROVE FALSE
  BY <1>7 DEF Crash, OneReader
<1>8. ASSUME NEW p \in Handlers, NEW s \in Tabs, AcknowledgeHeld(p, s) PROVE Stays(r)
  <2>1. UNCHANGED <<sockets, held, fetches>> /\ pc[p] # "publish"
    BY <1>8 DEF AcknowledgeHeld, Acknowledge, Enter
  <2>. QED
    BY <1>1, <1>4, <2>1
<1>9. ASSUME Outside, UNCHANGED tab PROVE Stays(r)
  BY <1>4, <1>9 DEF Outside, UnlockContact, CloseRequest, ChangeCandidacy, tab
<1>. QED
  BY <1>2, <1>3, <1>5, <1>6, <1>7, <1>8, <1>9 DEF Next, Progress

\* What a tab merges is on record.
LEMMA Brings ==
  ASSUME Orderly, OneReader, Traced, Next, NEW r \in Roles
  PROVE  \/ held'[r] = held[r]
         \/ \E b : Single(b) /\ (\A v \in b : OnRecord(v)) /\ held'[r] = Upsert(held[r], b)
         \/ \E e : held'[r] = ApplyReceipts(held[r], e, r)
<1>0. held \in [Roles -> SUBSET Views(chat.lastSeq)] /\ rooms \in [Roles -> Seq(Events(chat.lastSeq))]
  BY DEF Orderly, Sound, TabsOK
<1>1. ASSUME NEW v, OnRecord(v) PROVE Single({v}) /\ \A w \in {v} : OnRecord(w)
  BY <1>1 DEF Single
<1>2. CASE TakePage(r)
  <2>1. PICK f \in fetches[r] : ShowFirstPage(r, f) \/ MergePage(r, f)
    BY <1>2 DEF TakePage
  <2>2. f.kind = "catchUp" /\ Single(f.page.views) /\ \A v \in f.page.views : OnRecord(v)
    BY <2>1 DEF Orderly, Merging, Fetched, Traced
  <2>3. held' = [held EXCEPT ![r] = Upsert(held[r], f.page.views)]
    BY <2>1, <2>2 DEF ShowFirstPage, MergePage
  <2>. QED
    BY <1>0, <2>2, <2>3
<1>3. CASE Receive(r)
  <2>1. rooms[r] # << >> /\ rooms[r] \in Seq(Events(chat.lastSeq))
    BY <1>0, <1>3 DEF Receive
  <2>2. 1 \in 1..Len(rooms[r]) /\ Head(rooms[r]) = rooms[r][1]
    BY <2>1
  <2>3. CASE Head(rooms[r]).kind = "message"
    <3>1. OnRecord(Head(rooms[r]).view)
      BY <2>2, <2>3 DEF Traced
    <3>2. held'[r] = Upsert(held[r], {Head(rooms[r]).view})
      BY <1>0, <1>3, <2>3 DEF Receive
    <3>. QED
      BY <1>1, <3>1, <3>2
  <2>4. CASE Head(rooms[r]).kind # "message"
    BY <1>0, <1>3, <2>4 DEF Receive
  <2>. QED
    BY <2>3, <2>4
<1>4. ASSUME NEW p \in Handlers, TakeAnswer(p)
      PROVE  \/ held'[r] = held[r]
             \/ \E b : Single(b) /\ (\A v \in b : OnRecord(v)) /\ held'[r] = Upsert(held[r], b)
  <2>1. pc[p] = "answer"
    BY <1>4 DEF TakeAnswer, Answer
  <2>2. OnRecord(View(draft[p], caller[p], conv[p]))
    BY <2>1, ViewNames DEF Traced, OnRecord
  <2>3. \/ held'[r] = held[r]
        \/ held'[r] = Upsert(held[r], {View(draft[p], caller[p], conv[p])})
    BY <1>0, <1>4 DEF TakeAnswer
  <2>. QED
    BY <1>1, <2>2, <2>3
<1>5. ASSUME ReadPage(r) \/ Connect(r) \/ Disconnect(r) PROVE held'[r] = held[r]
  BY <1>5 DEF ReadPage, Connect, Disconnect
<1>6. ASSUME UNCHANGED tab PROVE held'[r] = held[r]
  BY <1>6 DEF tab
<1>. QED
  BY <1>2, <1>3, <1>4, <1>5, <1>6, TabCases DEF Stays

\* A tab drops nothing it shows, and what it shows is on record.
LEMMA HeldKeeps ==
  ASSUME Orderly, OneReader, Traced, Next, NEW r \in Roles
  PROVE  /\ \A v \in held[r] : \E w \in held'[r] : w.id = v.id /\ w.seq = v.seq
         /\ \A w \in held'[r] : OnRecord(w)
<1>1. Single(held[r]) /\ held[r] \in SUBSET Views(chat.lastSeq) /\ \A v \in held[r] : OnRecord(v)
  BY DEF Orderly, Merging, Sound, TabsOK, Traced
<1>2. ASSUME NEW b, Single(b), \A v \in b : OnRecord(v), held'[r] = Upsert(held[r], b)
      PROVE  /\ \A v \in held[r] : \E w \in held'[r] : w.id = v.id /\ w.seq = v.seq
             /\ \A w \in held'[r] : OnRecord(w)
  <2>1. \A v \in held[r], w \in b : v.id = w.id => v.seq = w.seq
    BY <1>1, <1>2, OneNumber DEF Orderly
  <2>2. /\ Upsert(held[r], b) \subseteq held[r] \cup b
        /\ \A v \in held[r] \cup b : \E w \in Upsert(held[r], b) : w.id = v.id /\ w.seq = v.seq
    BY <1>1, <1>2, <2>1, UpsertKeeps
  <2>. QED
    BY <1>1, <1>2, <2>2
<1>3. ASSUME NEW e, held'[r] = ApplyReceipts(held[r], e, r)
      PROVE  /\ \A v \in held[r] : \E w \in held'[r] : w.id = v.id /\ w.seq = v.seq
             /\ \A w \in held'[r] : OnRecord(w)
  <2>1. /\ \A w \in held'[r] : \E v \in held[r] : w.id = v.id /\ w.seq = v.seq
        /\ \A v \in held[r] : \E w \in held'[r] : w.id = v.id /\ w.seq = v.seq
    BY <1>1, <1>3, ReceiptsKeep
  <2>. QED
    BY <1>1, <2>1 DEF OnRecord
<1>. QED
  BY <1>1, <1>2, <1>3, Brings

\* The number a handler takes is above those stored, and it alone stores.
LEMMA LatestStep ==
  ASSUME Orderly, OneReader, Latest, [Next]_vars
  PROVE  Latest'
<1>. SUFFICES ASSUME NEW p \in Handlers, pc'[p] = "insert", NEW m \in messages'
              PROVE  m.seq < draft'[p].seq
  BY DEF Latest
<1>0. Sound
  BY DEF Orderly
<1>1. CASE AllocateSeq(p)
  <2>1. messages' = messages /\ draft'[p].seq = chat.lastSeq + 1
    BY <1>0, <1>1 DEF AllocateSeq, NextSeq, Sound, ServerOK, LocalsOK, MessageDocs
  <2>. QED
    BY <1>0, <2>1, LastSeqTyped DEF Sound, ServerOK, StoredOK, Carried, MessageDocs
<1>2. CASE pc[p] = "insert" /\ draft'[p] = draft[p]
  <2>1. ASSUME NEW q \in Handlers, InsertOnce(q) PROVE FALSE
    <3>1. q = p
      BY DEF OneReader
    <3>2. pc'[p] = "publish"
      BY <1>0, <2>1, <3>1 DEF InsertOnce, Hold, Go, Sound, ServerOK, LocalsOK
    <3>. QED
      BY <3>2
  <2>2. ASSUME NEW q \in Handlers, SaveMessage(q) PROVE FALSE
    <3>1. q = p
      BY DEF OneReader
    <3>. QED
      BY <1>2, <2>2, <3>1 DEF SaveMessage
  <2>. QED
    BY <1>0, <1>2, <2>1, <2>2, Writers DEF Latest
<1>. QED
  BY <1>0, <1>1, <1>2, Takes

\* What a handler's step does to its label, its side and its message.
LEMMA HandlerSteps ==
  ASSUME Orderly, OneReader, Traced, Next, NEW p \in Handlers, pc'[p] # "idle"
  PROVE  \/ /\ pc'[p] = pc[p] /\ caller'[p] = caller[p] /\ draft'[p] = draft[p]
         \/ /\ pc[p] \in Sending \cup {"insert"} /\ caller'[p] = caller[p]
            /\ pc'[p] \in {"publish", "answer"} => OnRecord(draft[p])'
            /\ pc'[p] \in Sending \cup {"insert", "publish", "answer"}
         \/ /\ pc[p] \in {"edit", "remove", "react"} /\ caller'[p] = caller[p]
            /\ draft'[p].id = draft[p].id /\ OnRecord(draft'[p])
            /\ pc'[p] \in {"checkSave", "save"}
         \/ /\ pc[p] \in {"checkSave", "save", "publish"} /\ caller'[p] = caller[p]
            /\ draft'[p] = draft[p] /\ pc'[p] \in {"save", "publish", "answer"}
         \/ /\ pc'[p] \in {"markDelivered", "markRead", "announce"}
         \/ /\ pc'[p] = "replay" /\ caller'[p] \notin Tabs
         \/ /\ pc'[p] \in {"edit", "remove", "react"} /\ held' = held
            /\ caller'[p] \in Tabs => \E v \in held[caller'[p]] : v.id = draft'[p].id
<1>. DEFINE Goal ==
         \/ /\ pc'[p] = pc[p] /\ caller'[p] = caller[p] /\ draft'[p] = draft[p]
         \/ /\ pc[p] \in Sending \cup {"insert"} /\ caller'[p] = caller[p]
            /\ pc'[p] \in {"publish", "answer"} => OnRecord(draft[p])'
            /\ pc'[p] \in Sending \cup {"insert", "publish", "answer"}
         \/ /\ pc[p] \in {"edit", "remove", "react"} /\ caller'[p] = caller[p]
            /\ draft'[p].id = draft[p].id /\ OnRecord(draft'[p])
            /\ pc'[p] \in {"checkSave", "save"}
         \/ /\ pc[p] \in {"checkSave", "save", "publish"} /\ caller'[p] = caller[p]
            /\ draft'[p] = draft[p] /\ pc'[p] \in {"save", "publish", "answer"}
         \/ /\ pc'[p] \in {"markDelivered", "markRead", "announce"}
         \/ /\ pc'[p] = "replay" /\ caller'[p] \notin Tabs
         \/ /\ pc'[p] \in {"edit", "remove", "react"} /\ held' = held
            /\ caller'[p] \in Tabs => \E v \in held[caller'[p]] : v.id = draft'[p].id
<1>0. /\ pc \in [Handlers -> Labels] /\ caller \in [Handlers -> Roles] /\ draft \in [Handlers -> MessageDocs]
      /\ base \in [Handlers -> MessageDocs] /\ \A q \in Handlers : q = p
  BY DEF Orderly, Sound, ServerOK, LocalsOK, OneReader
<1>1. ASSUME UNCHANGED locals PROVE Goal
  BY <1>1 DEF locals
<1>2. Finish(p) => pc'[p] = "idle"
  BY <1>0 DEF Finish
<1>3. CASE Replay(p)
  <2>1. CASE draft[p].id \in Stored
    <3>1. Find(draft[p].id) \in messages /\ messages' = messages /\ draft'[p] = Find(draft[p].id)
      BY <1>0, <1>3, <2>1, Found DEF Replay, Hold, server
    <3>2. OnRecord(draft[p])'
      BY <3>1 DEF OnRecord
    <3>. QED
      BY <1>0, <1>3, <2>1, <3>2 DEF Replay, Hold, Sending
  <2>2. CASE draft[p].id \notin Stored
    BY <1>0, <1>3, <2>2 DEF Replay, Go, Sending
  <2>. QED
    BY <2>1, <2>2
<1>4. CASE Check(p)
  BY <1>0, <1>2, <1>4 DEF Check, Hold, Sending
<1>5. CASE AllocateSeq(p)
  BY <1>0, <1>5 DEF AllocateSeq, Sending
<1>6. CASE InsertOnce(p)
  <2>1. pc[p] = "insert" /\ pc'[p] = "publish" /\ caller'[p] = caller[p]
    BY <1>0, <1>6 DEF InsertOnce, Hold, Go
  <2>2. PICK m : m \in messages' /\ m = draft'[p]
    <3>1. CASE AlreadyStored(draft[p])
      <4>1. Find(draft[p].id) \in messages /\ messages' = messages /\ draft'[p] = Find(draft[p].id)
        BY <1>0, <1>6, <3>1, Found DEF InsertOnce, Hold, AlreadyStored
      <4>. QED
        BY <4>1
    <3>2. CASE ~AlreadyStored(draft[p])
      BY <1>6, <3>2 DEF InsertOnce, Go
    <3>. QED
      BY <3>1, <3>2
  <2>3. OnRecord(draft[p])'
    BY <2>2 DEF OnRecord
  <2>. QED
    BY <2>1, <2>3
<1>7. CASE LoadMessage(p)
  <2>1. pc[p] \in {"edit", "remove", "react"} /\ pc'[p] \in {"checkSave", "save", "idle"}
    BY <1>0, <1>2, <1>7 DEF LoadMessage
  <2>. QED
    BY <1>2, <1>7, <2>1, LoadKeepsId DEF Orderly, Sound
<1>8. CASE CheckSave(p) \/ SaveMessage(p) \/ Publish(p)
  BY <1>0, <1>2, <1>8 DEF CheckSave, SaveMessage, Publish, Go
<1>9. CASE AdvanceWatermarks(p) \/ Announce(p)
  BY <1>0, <1>2, <1>9 DEF AdvanceWatermarks, Announce
<1>10. ASSUME NEW r, NEW seq, NEW l \in {"markDelivered", "markRead"}, Acknowledge(p, r, seq, l)
       PROVE  Goal
  BY <1>0, <1>10 DEF Acknowledge, Enter
<1>11. ASSUME Ask(p) PROVE Goal
  <2>1. ASSUME NEW i \in Ids, NEW text \in Texts, Send(p, i, text) PROVE Goal
    BY <1>0, <2>1 DEF Send, Enter, OneReader
  <2>2. ASSUME NEW m \in messages, Change(p, m) PROVE Goal
    <3>1. pc'[p] \in {"edit", "remove", "react"}
      BY <1>0, <2>2 DEF Change, Enter
    <3>2. held' = held /\ (caller'[p] \in Tabs => \E v \in held[caller'[p]] : v.id = draft'[p].id)
      BY <1>11, <3>1 DEF Ask, tab
    <3>. QED
      BY <3>1, <3>2
  <2>. QED
    BY <1>10, <1>11, <2>1, <2>2 DEF Ask, Request
<1>12. ASSUME NEW r \in Tabs, AcknowledgeHeld(p, r) PROVE Goal
  BY <1>10, <1>12 DEF AcknowledgeHeld
<1>13. ASSUME TakeAnswer(p) \/ Crash(p) PROVE Goal
  BY <1>2, <1>13 DEF TakeAnswer, Answer, Crash
<1>14. ASSUME NEW r \in Tabs, AskFirstPage(r) \/ ReadPage(r) \/ TakePage(r) \/ Receive(r) \/ Connect(r)
                              \/ Disconnect(r) \/ FailPage(r)
       PROVE  Goal
  BY <1>1, <1>14 DEF AskFirstPage, ReadPage, TakePage, Receive, Connect, Disconnect, FailPage
<1>15. ASSUME Outside PROVE Goal
  BY <1>1, <1>15 DEF Outside, UnlockContact, CloseRequest, ChangeCandidacy
<1>16. ASSUME Continue(p) PROVE Goal
  BY <1>3, <1>4, <1>5, <1>6, <1>7, <1>8, <1>9, <1>16 DEF Continue
<1>17. ASSUME NEW q \in Handlers, Continue(q) \/ TakeAnswer(q) \/ Ask(q) \/ Crash(q) PROVE Goal
  <2>1. q = p
    BY <1>0
  <2>. HIDE DEF Goal
  <2>. QED
    BY <1>11, <1>13, <1>16, <1>17, <2>1
<1>18. ASSUME NEW q \in Handlers, NEW r \in Tabs, AcknowledgeHeld(q, r) PROVE Goal
  <2>1. q = p
    BY <1>0
  <2>. HIDE DEF Goal
  <2>. QED
    BY <1>12, <1>18, <2>1
<1>19. Goal
  <2>. HIDE DEF Goal
  <2>. QED
    BY <1>14, <1>15, <1>17, <1>18 DEF Next, Progress
<1>. QED
  BY <1>19

LEMMA ReadingStep ==
  ASSUME Orderly, OneReader, Traced, Reading, Next
  PROVE  Reading'
<1>. SUFFICES ASSUME NEW p \in Handlers, caller'[p] \in Tabs
              PROVE  /\ pc'[p] \notin Sending \cup {"insert"}
                     /\ pc'[p] \in {"edit", "remove", "react", "checkSave", "save", "publish", "answer"}
                           => \E v \in held'[caller'[p]] : v.id = draft'[p].id
  BY DEF Reading
<1>1. caller'[p] \in Roles
  BY ThreadAssumption
<1>2. \A v \in held[caller'[p]] : \E w \in held'[caller'[p]] : w.id = v.id
  BY <1>1, HeldKeeps
<1>3. caller'[p] = caller[p] =>
        /\ pc[p] \notin Sending \cup {"insert"}
        /\ pc[p] \in {"edit", "remove", "react", "checkSave", "save", "publish", "answer"}
              => \E v \in held[caller'[p]] : v.id = draft[p].id
  BY DEF Reading
<1>4. CASE pc'[p] = "idle"
  BY <1>4 DEF Sending
<1>5. CASE pc'[p] # "idle"
  BY <1>2, <1>3, <1>5, HandlerSteps DEF Sending
<1>. QED
  BY <1>4, <1>5

\* What the pages of a tab bring is on record.
LEMMA PagesTraced ==
  ASSUME Orderly, OneReader, Traced, Next, NEW r \in Roles, NEW f \in fetches'[r], NEW v \in f.page.views
  PROVE  OnRecord(v)
<1>0. fetches \in [Roles -> SUBSET Fetches(chat.lastSeq)]
  BY DEF Orderly, Sound, TabsOK
<1>1. CASE f \in fetches[r]
  BY <1>1 DEF Traced
<1>2. ASSUME NEW kind, NEW after, f = Fetch(kind, after) PROVE FALSE
  BY <1>2 DEF Fetch
<1>3. CASE ReadPage(r)
  <2>1. PICK g \in fetches[r] : fetches' = [fetches EXCEPT ![r] =
               (@ \ {g}) \cup {[g EXCEPT !.read = TRUE, !.page = Page(g, r)]}]
    BY <1>3 DEF ReadPage
  <2>2. PICK h : h = [g EXCEPT !.read = TRUE, !.page = Page(g, r)]
    OBVIOUS
  <2>3. h.page = Page(g, r)
    BY <1>0, <2>2 DEF Fetches
  <2>4. f \in fetches[r] \/ f = h
    BY <1>0, <2>1, <2>2
  <2>5. PICK kept \in SUBSET messages : Page(g, r).views = {View(m, r, chat) : m \in kept}
    BY DEF Page
  <2>6. f = h => \E m \in kept : v = View(m, r, chat)
    BY <2>3, <2>5
  <2>. QED
    BY <1>1, <2>4, <2>6, ViewNames DEF OnRecord
<1>4. CASE TakePage(r)
  <2>1. PICK g \in fetches[r] : ShowFirstPage(r, g) \/ MergePage(r, g)
    BY <1>4 DEF TakePage
  <2>2. f \in fetches[r] \/ f = Fetch("catchUp", Highest(g.page.views))
    BY <1>0, <2>1 DEF ShowFirstPage, MergePage
  <2>. QED
    BY <1>1, <1>2, <2>2
<1>5. CASE Connect(r)
  <2>1. f \in fetches[r] \/ f = Fetch("catchUp", CatchUpCursor(r))
    BY <1>0, <1>5 DEF Connect
  <2>. QED
    BY <1>1, <1>2, <2>1
<1>6. ASSUME fetches'[r] = fetches[r] PROVE OnRecord(v)
  BY <1>1, <1>6
<1>7. ASSUME NEW p \in Handlers, TakeAnswer(p) PROVE fetches'[r] = fetches[r]
  BY <1>7 DEF TakeAnswer
<1>8. ASSUME UNCHANGED tab PROVE fetches'[r] = fetches[r]
  BY <1>8 DEF tab
<1>9. ASSUME Receive(r) \/ Disconnect(r) PROVE fetches'[r] = fetches[r]
  BY <1>9 DEF Receive, Disconnect
<1>. QED
  BY <1>3, <1>4, <1>5, <1>6, <1>7, <1>8, <1>9, TabCases DEF Stays

\* What happens to the room of a side.
LEMMA RoomCases ==
  ASSUME Orderly, OneReader, Traced, Next, NEW r \in Roles
  PROVE  \/ rooms'[r] \in {rooms[r], << >>}
         \/ rooms[r] # << >> /\ rooms'[r] = Tail(rooms[r])
         \/ \E e : /\ rooms'[r] = Append(rooms[r], e)
                   /\ e.kind = "message" => OnRecord(e.view)
<1>0. rooms \in [Roles -> Seq(Events(chat.lastSeq))]
  BY DEF Orderly, Sound, TabsOK
<1>1. ASSUME NEW p \in Handlers, Publish(p)
      PROVE  \/ rooms'[r] = rooms[r]
             \/ \E e : /\ rooms'[r] = Append(rooms[r], e)
                       /\ e.kind = "message" => OnRecord(e.view)
  <2>1. PICK e : e = [kind |-> "message", view |-> View(draft[p], r, conv[p])]
    OBVIOUS
  <2>2. rooms'[r] \in {rooms[r], Append(rooms[r], e)}
    BY <1>1, <2>1 DEF Publish, Push, MessageEvents
  <2>3. OnRecord(e.view)
    BY <1>1, <2>1, ViewNames DEF Traced, Publish, OnRecord
  <2>. QED
    BY <2>2, <2>3
<1>2. ASSUME NEW p \in Handlers, Announce(p)
      PROVE  \/ rooms'[r] = rooms[r]
             \/ \E e : /\ rooms'[r] = Append(rooms[r], e)
                       /\ e.kind = "message" => OnRecord(e.view)
  <2>1. PICK e : e = [kind |-> "receipts", role |-> caller[p], mark |-> conv[p].marks[caller[p]]]
    OBVIOUS
  <2>2. rooms'[r] \in {rooms[r], Append(rooms[r], e)}
    BY <1>2, <2>1 DEF Announce, Push, ReceiptsEvents
  <2>3. e.kind # "message"
    BY <2>1
  <2>. QED
    BY <2>2, <2>3
<1>3. ASSUME NEW p \in Handlers, TakeAnswer(p) PROVE rooms'[r] = rooms[r]
  BY <1>3 DEF TakeAnswer, Answer, sockets
<1>4. ASSUME Receive(r) PROVE rooms[r] # << >> /\ rooms'[r] = Tail(rooms[r])
  BY <1>0, <1>4 DEF Receive
<1>5. ASSUME ReadPage(r) \/ TakePage(r) \/ Connect(r) PROVE rooms'[r] = rooms[r]
  BY <1>5 DEF ReadPage, TakePage, Connect, sockets
<1>6. ASSUME Disconnect(r) PROVE rooms'[r] = << >>
  BY <1>0, <1>6 DEF Disconnect
<1>. QED
  BY <1>1, <1>2, <1>3, <1>4, <1>5, <1>6, TabCases DEF Stays

LEMMA TracedStep ==
  ASSUME Orderly, OneReader, Traced, Next
  PROVE  Traced'
<1>1. ASSUME NEW v, OnRecord(v) PROVE OnRecord(v)'
  BY <1>1, StaysOnRecord
<1>2. ASSUME NEW r \in Roles, NEW v \in held'[r] PROVE OnRecord(v)'
  BY <1>1, HeldKeeps
<1>3. ASSUME NEW r \in Roles, NEW f \in fetches'[r], NEW v \in f.page.views PROVE OnRecord(v)'
  BY <1>1, PagesTraced
<1>4. ASSUME NEW r \in Roles, NEW k \in 1..Len(rooms'[r]), rooms'[r][k].kind = "message"
      PROVE  OnRecord(rooms[r][k].view)'
  <2>0. rooms[r] \in Seq(Events(chat.lastSeq))
    BY DEF Orderly, Sound, TabsOK
  <2>1. ASSUME NEW j \in 1..Len(rooms[r]), rooms'[r][k] = rooms[r][j] PROVE OnRecord(rooms[r][k].view)'
    <3>1. PICK v : v = rooms[r][j].view
      OBVIOUS
    <3>2. OnRecord(v)'
      BY <1>1, <1>4, <2>1, <3>1 DEF Traced
    <3>. QED
      BY <2>1, <3>1, <3>2 DEF OnRecord
  <2>2. CASE rooms'[r] = rooms[r]
    BY <2>1, <2>2
  <2>3. CASE rooms'[r] = << >>
    BY <2>3
  <2>4. CASE rooms[r] # << >> /\ rooms'[r] = Tail(rooms[r])
    <3>1. k + 1 \in 1..Len(rooms[r]) /\ rooms'[r][k] = rooms[r][k + 1]
      BY <2>0, <2>4
    <3>. QED
      BY <2>1, <3>1
  <2>5. ASSUME NEW e, rooms'[r] = Append(rooms[r], e), e.kind = "message" => OnRecord(e.view)
        PROVE  OnRecord(rooms[r][k].view)'
    <3>1. CASE k \in 1..Len(rooms[r])
      <4>1. rooms'[r][k] = rooms[r][k]
        BY <2>0, <2>5, <3>1
      <4>. QED
        BY <2>1, <3>1, <4>1
    <3>2. CASE k \notin 1..Len(rooms[r])
      <4>1. rooms'[r][k] = e
        BY <2>0, <2>5, <3>2
      <4>2. PICK v : v = e.view
        OBVIOUS
      <4>3. OnRecord(v)'
        BY <1>1, <1>4, <2>5, <4>1, <4>2
      <4>. QED
        BY <4>1, <4>2, <4>3 DEF OnRecord
    <3>. QED
      BY <3>1, <3>2
  <2>. QED
    BY <2>2, <2>3, <2>4, <2>5, RoomCases
<1>5. ASSUME NEW p \in Handlers, pc'[p] \in {"checkSave", "save", "publish", "answer"}
      PROVE  OnRecord(draft[p])'
  <2>1. ASSUME draft'[p] = draft[p], OnRecord(draft[p]) PROVE OnRecord(draft[p])'
    <3>1. PICK v : v = draft[p]
      OBVIOUS
    <3>2. OnRecord(v)'
      BY <1>1, <2>1, <3>1
    <3>. QED
      BY <2>1, <3>1, <3>2 DEF OnRecord
  <2>2. ASSUME OnRecord(draft'[p]) PROVE OnRecord(draft[p])'
    <3>1. PICK v : v = draft'[p]
      OBVIOUS
    <3>2. OnRecord(v)
      BY <2>2, <3>1
    <3>3. OnRecord(v)'
      BY <1>1, <3>2
    <3>. QED
      BY <3>1, <3>3 DEF OnRecord
  <2>3. \/ pc'[p] = pc[p] /\ draft'[p] = draft[p]
        \/ OnRecord(draft[p])'
        \/ OnRecord(draft'[p])
        \/ pc[p] \in {"checkSave", "save", "publish"} /\ draft'[p] = draft[p]
    BY <1>5, HandlerSteps DEF Sending
  <2>4. pc[p] \in {"checkSave", "save", "publish", "answer"} => OnRecord(draft[p])
    BY DEF Traced
  <2>. QED
    BY <1>5, <2>1, <2>2, <2>3, <2>4
<1>. QED
  BY <1>2, <1>3, <1>4, <1>5 DEF Traced

\* Where a catch-up starts is not above what the tab shows.
LEMMA BehindStep ==
  ASSUME Orderly, OneReader, Traced, Behind, Next
  PROVE  Behind'
<1>. SUFFICES ASSUME NEW r \in Roles, NEW f \in fetches'[r]
              PROVE  f.after = 0 \/ \E v \in held'[r] : v.seq >= f.after
  BY DEF Behind
<1>0. /\ fetches \in [Roles -> SUBSET Fetches(chat.lastSeq)] /\ chat.lastSeq \in Nat
      /\ held[r] \in SUBSET Views(chat.lastSeq)
  BY LastSeqTyped DEF Orderly, Sound, TabsOK
<1>1. ASSUME NEW n, n = 0 \/ \E v \in held[r] : v.seq >= n
      PROVE  n = 0 \/ \E v \in held'[r] : v.seq >= n
  BY <1>1, HeldKeeps
<1>2. ASSUME NEW g \in fetches[r], f.after = g.after PROVE f.after = 0 \/ \E v \in held'[r] : v.seq >= f.after
  BY <1>1, <1>2 DEF Behind
<1>3. CASE ReadPage(r)
  <2>1. PICK g \in fetches[r] : fetches' = [fetches EXCEPT ![r] =
               (@ \ {g}) \cup {[g EXCEPT !.read = TRUE, !.page = Page(g, r)]}]
    BY <1>3 DEF ReadPage
  <2>2. PICK h : h = [g EXCEPT !.read = TRUE, !.page = Page(g, r)]
    OBVIOUS
  <2>3. h.after = g.after
    BY <1>0, <2>2 DEF Fetches
  <2>4. f \in fetches[r] \/ f = h
    BY <1>0, <2>1, <2>2
  <2>. QED
    BY <1>2, <2>3, <2>4
<1>4. CASE TakePage(r)
  <2>1. PICK g \in fetches[r] : ShowFirstPage(r, g) \/ MergePage(r, g)
    BY <1>4 DEF TakePage
  <2>2. g.kind = "catchUp" /\ Single(g.page.views) /\ (\A v \in g.page.views : OnRecord(v))
        /\ g.page.views \in SUBSET Views(chat.lastSeq)
    BY <1>0, <2>1 DEF Orderly, Merging, Fetched, Traced, Fetches
  <2>3. held'[r] = Upsert(held[r], g.page.views)
    BY <2>1, <2>2 DEF ShowFirstPage, MergePage, Orderly, Sound, TabsOK
  <2>4. PICK n : n = Highest(g.page.views)
    OBVIOUS
  <2>5. n = 0 \/ \E v \in g.page.views : v.seq = n /\ n \in Nat
    <3>1. n \in Nat
      BY <1>0, <2>2, <2>4, HighestBounded
    <3>. QED
      BY <1>0, <2>2, <2>4, <3>1, HighestReached
  <2>6. \A v \in held[r], w \in g.page.views : v.id = w.id => v.seq = w.seq
    BY <2>2, OneNumber DEF Traced, Orderly
  <2>7. \A v \in g.page.views : \E w \in held'[r] : w.seq = v.seq
    BY <2>2, <2>3, <2>6, UpsertKeeps DEF Orderly, Merging
  <2>8. f \in fetches[r] \/ f = Fetch("catchUp", n)
    BY <1>0, <2>1, <2>4 DEF ShowFirstPage, MergePage
  <2>9. Fetch("catchUp", n).after = n
    BY DEF Fetch
  <2>10. n = 0 \/ \E w \in held'[r] : w.seq >= n
    BY <2>5, <2>7
  <2>. QED
    BY <1>2, <2>8, <2>9, <2>10
<1>5. CASE Connect(r)
  <2>1. f \in fetches[r] \/ f = Fetch("catchUp", CatchUpCursor(r))
    BY <1>0, <1>5 DEF Connect
  <2>2. PICK n : n = CatchUpCursor(r)
    OBVIOUS
  <2>3. n \in Nat /\ (n = 0 \/ \E v \in held[r] : v.seq >= n)
    <3>1. n \in Nat
      BY <1>0, <2>2, HighestBounded DEF CatchUpCursor
    <3>. QED
      BY <1>0, <2>2, <3>1, HighestReached DEF CatchUpCursor
  <2>4. Fetch("catchUp", n).after = n
    BY DEF Fetch
  <2>. QED
    BY <1>1, <1>2, <2>1, <2>2, <2>3, <2>4
<1>6. ASSUME fetches'[r] = fetches[r] PROVE f.after = 0 \/ \E v \in held'[r] : v.seq >= f.after
  BY <1>2, <1>6
<1>7. ASSUME NEW p \in Handlers, TakeAnswer(p) PROVE fetches'[r] = fetches[r]
  BY <1>7 DEF TakeAnswer
<1>8. ASSUME UNCHANGED tab PROVE fetches'[r] = fetches[r]
  BY <1>8 DEF tab
<1>9. ASSUME Receive(r) \/ Disconnect(r) PROVE fetches'[r] = fetches[r]
  BY <1>9 DEF Receive, Disconnect
<1>. QED
  BY <1>3, <1>4, <1>5, <1>6, <1>7, <1>8, <1>9, TabCases DEF Stays

\* A message shown stays shown.
LEMMA ShownStays ==
  ASSUME Orderly, OneReader, Traced, Next, NEW r \in Roles, NEW m, Shown(m, r)
  PROVE  Shown(m, r)'
<1>1. PICK v \in held[r] : v.id = m.id
  BY DEF Shown
<1>2. PICK w \in held'[r] : w.id = v.id
  BY HeldKeeps
<1>. QED
  BY <1>1, <1>2 DEF Shown

\* A message that a catch-up will bring comes or is shown.
LEMMA ComingStays ==
  ASSUME Orderly, OneReader, Traced, Next, NEW r \in Tabs, NEW m \in messages, Coming(m, r)
  PROVE  Coming(m, r)' \/ Shown(m, r)'
<1>0. /\ fetches \in [Roles -> SUBSET Fetches(chat.lastSeq)] /\ r \in Roles
      /\ held \in [Roles -> SUBSET Views(chat.lastSeq)]
  BY ThreadAssumption DEF Orderly, Sound, TabsOK
<1>1. PICK f \in fetches[r] : \/ ~f.read /\ f.after < m.seq
                              \/ f.read /\ \E v \in f.page.views : v.id = m.id
                              \/ f.read /\ f.page.more /\ Highest(f.page.views) < m.seq
  BY DEF Coming
<1>2. ASSUME f \in fetches'[r] PROVE Coming(m, r)'
  BY <1>1, <1>2 DEF Coming
<1>3. CASE ReadPage(r)
  <2>1. PICK g \in fetches[r] : ~g.read /\ fetches' = [fetches EXCEPT ![r] =
               (@ \ {g}) \cup {[g EXCEPT !.read = TRUE, !.page = Page(g, r)]}]
    BY <1>3 DEF ReadPage
  <2>2. CASE g # f
    BY <1>0, <1>2, <2>1, <2>2
  <2>3. CASE g = f
    <3>1. PICK h : h = [f EXCEPT !.read = TRUE, !.page = Page(f, r)]
      OBVIOUS
    <3>2. h.read /\ h.page = Page(f, r)
      BY <1>0, <3>1 DEF Fetches
    <3>3. h \in fetches'[r]
      BY <1>0, <2>1, <2>3, <3>1
    <3>4. f.kind = "catchUp" /\ f.after < m.seq
      BY <1>0, <1>1, <2>1, <2>3 DEF Orderly, Merging, Fetched
    <3>5. \/ \E v \in h.page.views : v.id = m.id
          \/ h.page.more /\ Highest(h.page.views) < m.seq
      BY <3>2, <3>4, PageReaches
    <3>. QED
      BY <3>2, <3>3, <3>5 DEF Coming
  <2>. QED
    BY <2>2, <2>3
<1>4. CASE TakePage(r)
  <2>1. PICK g \in fetches[r] : g.read /\ (ShowFirstPage(r, g) \/ MergePage(r, g))
    BY <1>4 DEF TakePage
  <2>2. MergePage(r, g)
    BY <1>0, <2>1 DEF ShowFirstPage, Orderly, Merging, Fetched
  <2>3. CASE g # f
    BY <1>0, <1>2, <2>2, <2>3 DEF MergePage
  <2>4. CASE g = f
    <3>1. CASE \E v \in f.page.views : v.id = m.id
      <4>1. PICK v \in f.page.views : v.id = m.id
        BY <3>1
      <4>2. held'[r] = Upsert(held[r], f.page.views)
        BY <1>0, <2>2, <2>4 DEF MergePage
      <4>3. \A x \in held[r], w \in f.page.views : x.id = w.id => x.seq = w.seq
        BY <1>0, OneNumber DEF Traced, Orderly
      <4>4. Single(held[r]) /\ Single(f.page.views)
        BY <1>0 DEF Orderly, Merging, Fetched
      <4>5. \E w \in held'[r] : w.id = v.id
        BY <4>1, <4>2, <4>3, <4>4, UpsertKeeps
      <4>. QED
        BY <4>1, <4>5 DEF Shown
    <3>2. CASE f.page.more /\ Highest(f.page.views) < m.seq
      <4>1. PICK n : n = Highest(f.page.views)
        OBVIOUS
      <4>2. Fetch("catchUp", n) \in fetches'[r]
        BY <1>0, <2>2, <2>4, <3>2, <4>1 DEF MergePage
      <4>3. Fetch("catchUp", n).after = n /\ ~Fetch("catchUp", n).read
        BY DEF Fetch
      <4>. QED
        BY <3>2, <4>1, <4>2, <4>3 DEF Coming
    <3>. QED
      BY <1>1, <2>1, <2>4, <3>1, <3>2
  <2>. QED
    BY <2>3, <2>4
<1>5. CASE Connect(r)
  BY <1>0, <1>2, <1>5 DEF Connect
<1>6. ASSUME NEW p \in Handlers, TakeAnswer(p) PROVE fetches'[r] = fetches[r]
  BY <1>6 DEF TakeAnswer
<1>7. ASSUME UNCHANGED tab PROVE fetches'[r] = fetches[r]
  BY <1>7 DEF tab
<1>8. ASSUME Receive(r) \/ Disconnect(r) PROVE fetches'[r] = fetches[r]
  BY <1>8 DEF Receive, Disconnect
<1>. QED
  BY <1>0, <1>2, <1>3, <1>4, <1>5, <1>6, <1>7, <1>8, TabCases DEF Stays

\* A message that is awaited goes on being awaited, or comes, or is shown.
LEMMA AwaitedStays ==
  ASSUME Orderly, OneReader, Traced, Reading, Behind, Next,
         NEW r \in Tabs, NEW m \in messages, Awaited(m, r)
  PROVE  Awaited(m, r)' \/ Coming(m, r)' \/ Shown(m, r)'
<1>0. /\ fetches \in [Roles -> SUBSET Fetches(chat.lastSeq)] /\ r \in Roles
      /\ held \in [Roles -> SUBSET Views(chat.lastSeq)] /\ chat.lastSeq \in Nat
      /\ rooms \in [Roles -> Seq(Events(chat.lastSeq))] /\ \A s \in Roles \ online : rooms[s] = << >>
  BY ThreadAssumption, LastSeqTyped DEF Orderly, Sound, TabsOK, SocketsOK
<1>1. m.seq \in Nat /\ m.seq >= 1
  BY <1>0 DEF Orderly, SeqNamesMessage
<1>2. PICK h : Handlers = {h}
  BY DEF OneReader
<1>3. Below(held[r], m) /\ \A f \in fetches[r] : Below(f.page.views, m)
  BY DEF Awaited
<1>4. r \notin online \/ Told(m, r) \/ Queued(m, r)
  BY DEF Awaited
<1>5. CASE ReadPage(r)
  <2>1. PICK g \in fetches[r] : ~g.read /\ fetches' = [fetches EXCEPT ![r] =
               (@ \ {g}) \cup {[g EXCEPT !.read = TRUE, !.page = Page(g, r)]}]
    BY <1>5 DEF ReadPage
  <2>2. g.after \in Nat /\ (g.after = 0 \/ \E v \in held[r] : v.seq >= g.after)
    BY <1>0 DEF Behind, Fetches
  <2>3. \A v \in held[r] : v.seq \in Nat /\ v.seq < m.seq
    BY <1>0, <1>3 DEF Below, Views
  <2>4. g.after < m.seq
    BY <1>1, <2>2, <2>3
  <2>5. Coming(m, r)
    BY <2>1, <2>4 DEF Coming
  <2>. QED
    BY <2>5, ComingStays
<1>6. CASE TakePage(r)
  <2>1. PICK g \in fetches[r] : ShowFirstPage(r, g) \/ MergePage(r, g)
    BY <1>6 DEF TakePage
  <2>2. g.kind = "catchUp" /\ Single(g.page.views)
    BY <1>0 DEF Orderly, Merging, Fetched
  <2>3. held'[r] = Upsert(held[r], g.page.views)
    BY <1>0, <2>1, <2>2 DEF ShowFirstPage, MergePage
  <2>4. Below(held'[r], m)
    <3>1. held'[r] \subseteq held[r] \cup g.page.views
      BY <2>3 DEF Upsert
    <3>. QED
      BY <1>3, <3>1 DEF Below
  <2>5. ASSUME NEW f \in fetches'[r] PROVE Below(f.page.views, m)
    <3>1. PICK n : n = Highest(g.page.views)
      OBVIOUS
    <3>2. f \in fetches[r] \/ f = Fetch("catchUp", n)
      BY <1>0, <2>1, <2>2, <3>1 DEF ShowFirstPage, MergePage
    <3>3. Below(Fetch("catchUp", n).page.views, m)
      BY DEF Fetch, Below
    <3>. QED
      BY <1>3, <3>2, <3>3
  <2>6. UNCHANGED <<locals, rooms, online>>
    BY <1>6 DEF TakePage, sockets
  <2>. QED
    BY <1>4, <2>4, <2>5, <2>6 DEF Awaited, Told, Queued, locals, Below
<1>7. CASE Receive(r)
  <2>0. /\ rooms[r] # << >> /\ rooms[r] \in Seq(Events(chat.lastSeq)) /\ rooms'[r] = Tail(rooms[r])
        /\ UNCHANGED <<locals, online, fetches>>
    BY <1>0, <1>7 DEF Receive
  <2>1. r \in online
    BY <1>0, <2>0
  <2>2. PICK e : e = rooms[r][1]
    OBVIOUS
  <2>3. e = Head(rooms[r]) /\ Len(rooms[r]) \in Nat /\ Len(rooms[r]) >= 1
        /\ Len(rooms'[r]) = Len(rooms[r]) - 1
        /\ \A k \in 1..Len(rooms'[r]) : rooms'[r][k] = rooms[r][k + 1]
    BY <2>0, <2>2
  <2>4. ASSUME Earlier(e, m) PROVE Below(held'[r], m)
    <3>1. CASE e.kind = "message"
      <4>1. held'[r] = Upsert(held[r], {e.view})
        BY <1>0, <1>7, <2>3, <3>1 DEF Receive
      <4>2. held'[r] \subseteq held[r] \cup {e.view}
        BY <4>1 DEF Upsert
      <4>. QED
        BY <1>3, <2>4, <3>1, <4>2 DEF Below, Earlier
    <3>2. CASE e.kind # "message"
      <4>1. held'[r] = ApplyReceipts(held[r], e, r)
        BY <1>0, <1>7, <2>3, <3>2 DEF Receive
      <4>2. held[r] \in SUBSET Views(chat.lastSeq)
        BY <1>0
      <4>3. \A w \in ApplyReceipts(held[r], e, r) : \E v \in held[r] : w.id = v.id /\ w.seq = v.seq
        BY <4>2, ReceiptsKeep
      <4>. QED
        BY <1>3, <4>1, <4>3 DEF Below
    <3>. QED
      BY <3>1, <3>2
  <2>5. ASSUME Earlier(e, m), Told(m, r)' \/ Queued(m, r)' PROVE Awaited(m, r)'
    BY <1>3, <2>0, <2>4, <2>5 DEF Awaited, Below
  <2>6. CASE Told(m, r)
    <3>1. Earlier(e, m)
      BY <2>2, <2>3, <2>6 DEF Told
    <3>2. \A k \in 1..Len(rooms'[r]) : Earlier(rooms'[r][k], m)
      BY <2>3, <2>6 DEF Told
    <3>3. Told(m, r)'
      BY <2>0, <2>6, <3>2 DEF Told, locals, Earlier
    <3>. QED
      BY <2>5, <3>1, <3>3
  <2>7. CASE Queued(m, r)
    <3>1. PICK k \in 1..Len(rooms[r]) :
             /\ rooms[r][k].kind = "message" /\ rooms[r][k].view.id = m.id
             /\ \A j \in 1..(k - 1) : Earlier(rooms[r][j], m)
      BY <2>7 DEF Queued
    <3>2. CASE k = 1
      <4>1. held'[r] = Upsert(held[r], {e.view}) /\ e.view.id = m.id
        BY <1>0, <1>7, <2>2, <2>3, <3>1, <3>2 DEF Receive
      <4>2. OnRecord(e.view)
        BY <1>0, <2>2, <2>3, <3>1, <3>2 DEF Traced
      <4>3. \A x \in held[r], w \in {e.view} : x.id = w.id => x.seq = w.seq
        BY <1>0, <4>2, OneNumber DEF Traced, Orderly
      <4>4. Single(held[r]) /\ Single({e.view})
        BY <1>0 DEF Orderly, Merging, Single
      <4>5. \E w \in held'[r] : w.id = e.view.id
        BY <4>1, <4>3, <4>4, UpsertKeeps
      <4>. QED
        BY <4>1, <4>5 DEF Shown
    <3>3. CASE k # 1
      <4>1. 1 \in 1..(k - 1) /\ k - 1 \in 1..Len(rooms'[r])
        BY <2>3, <3>3
      <4>2. Earlier(e, m)
        BY <2>2, <3>1, <4>1
      <4>3. rooms'[r][k - 1] = rooms[r][k]
        BY <2>3, <4>1
      <4>4. \A j \in 1..((k - 1) - 1) : Earlier(rooms'[r][j], m)
        <5>. TAKE j \in 1..((k - 1) - 1)
        <5>1. j \in 1..Len(rooms'[r]) /\ j + 1 \in 1..(k - 1)
          BY <2>3, <4>1
        <5>. QED
          BY <2>3, <3>1, <5>1
      <4>5. Queued(m, r)'
        BY <3>1, <4>1, <4>3, <4>4 DEF Queued, Earlier
      <4>. QED
        BY <2>5, <4>2, <4>5
    <3>. QED
      BY <3>2, <3>3
  <2>. QED
    BY <1>4, <2>1, <2>6, <2>7
<1>8. CASE Connect(r)
  <2>1. PICK n : n = CatchUpCursor(r)
    OBVIOUS
  <2>2. n < m.seq
    BY <1>0, <1>1, <1>3, <2>1, HighestBelow DEF CatchUpCursor
  <2>3. Fetch("catchUp", n) \in fetches'[r]
    BY <1>0, <1>8, <2>1 DEF Connect, Orderly, Merging
  <2>4. Fetch("catchUp", n).after = n /\ ~Fetch("catchUp", n).read
    BY DEF Fetch
  <2>. QED
    BY <2>2, <2>3, <2>4 DEF Coming
<1>9. CASE Disconnect(r)
  <2>1. held' = held /\ fetches' = fetches /\ r \notin online'
    BY <1>9 DEF Disconnect
  <2>. QED
    BY <1>3, <2>1 DEF Awaited, Below
<1>10. ASSUME NEW p \in Handlers, Publish(p), UNCHANGED tab PROVE Awaited(m, r)'
  <2>0. held' = held /\ fetches' = fetches /\ online' = online /\ pc[p] = "publish" /\ p = h
    BY <1>2, <1>10 DEF Publish, tab
  <2>1. PICK e : e = [kind |-> "message", view |-> View(draft[p], r, conv[p])]
    OBVIOUS
  <2>2. rooms'[r] = IF r \in online THEN Append(rooms[r], e) ELSE rooms[r]
    BY <1>0, <1>10, <2>1 DEF Publish, Push, MessageEvents
  <2>3. CASE r \notin online
    BY <1>3, <2>0, <2>3 DEF Awaited, Below
  <2>4. CASE r \in online
    <3>1. /\ rooms[r] \in Seq(Events(chat.lastSeq)) /\ rooms'[r] = Append(rooms[r], e)
          /\ Len(rooms[r]) \in Nat /\ Len(rooms'[r]) = Len(rooms[r]) + 1
          /\ rooms'[r][Len(rooms[r]) + 1] = e
          /\ \A k \in 1..Len(rooms[r]) : rooms'[r][k] = rooms[r][k]
      BY <1>0, <2>2, <2>4
    <3>2. CASE Told(m, r)
      <4>1. e.kind = "message" /\ e.view.id = m.id
        BY <1>2, <2>0, <2>1, <3>2, ViewNames DEF Told
      <4>2. \A j \in 1..Len(rooms[r]) : Earlier(rooms'[r][j], m)
        BY <3>1, <3>2 DEF Told
      <4>3. Len(rooms[r]) + 1 \in 1..Len(rooms'[r]) /\ (Len(rooms[r]) + 1) - 1 = Len(rooms[r])
        BY <3>1
      <4>4. Queued(m, r)'
        BY <3>1, <4>1, <4>2, <4>3 DEF Queued, Earlier
      <4>. QED
        BY <1>3, <2>0, <4>4 DEF Awaited, Below
    <3>3. CASE Queued(m, r)
      <4>1. PICK k \in 1..Len(rooms[r]) :
             /\ rooms[r][k].kind = "message" /\ rooms[r][k].view.id = m.id
             /\ \A j \in 1..(k - 1) : Earlier(rooms[r][j], m)
        BY <3>3 DEF Queued
      <4>2. k \in 1..Len(rooms'[r]) /\ \A j \in 1..(k - 1) : j \in 1..Len(rooms[r])
        BY <3>1
      <4>3. Queued(m, r)'
        BY <3>1, <4>1, <4>2 DEF Queued, Earlier
      <4>. QED
        BY <1>3, <2>0, <4>3 DEF Awaited, Below
    <3>. QED
      BY <1>4, <2>4, <3>2, <3>3
  <2>. QED
    BY <2>3, <2>4
<1>11. ASSUME NEW p \in Handlers, Announce(p), UNCHANGED tab PROVE Awaited(m, r)'
  <2>0. held' = held /\ fetches' = fetches /\ online' = online /\ pc[p] = "announce" /\ p = h
    BY <1>2, <1>11 DEF Announce, tab
  <2>1. PICK e : rooms'[r] = IF r \in online THEN Append(rooms[r], e) ELSE rooms[r]
    BY <1>0, <1>11 DEF Announce, Push
  <2>2. CASE r \notin online
    BY <1>3, <2>0, <2>2 DEF Awaited, Below
  <2>3. CASE r \in online
    <3>1. /\ rooms[r] \in Seq(Events(chat.lastSeq)) /\ rooms'[r] = Append(rooms[r], e)
          /\ Len(rooms[r]) \in Nat /\ Len(rooms'[r]) = Len(rooms[r]) + 1
          /\ \A k \in 1..Len(rooms[r]) : rooms'[r][k] = rooms[r][k]
      BY <1>0, <2>1, <2>3
    <3>2. Queued(m, r)
      BY <1>2, <1>4, <2>0, <2>3 DEF Told
    <3>3. PICK k \in 1..Len(rooms[r]) :
             /\ rooms[r][k].kind = "message" /\ rooms[r][k].view.id = m.id
             /\ \A j \in 1..(k - 1) : Earlier(rooms[r][j], m)
      BY <3>2 DEF Queued
    <3>4. k \in 1..Len(rooms'[r]) /\ \A j \in 1..(k - 1) : j \in 1..Len(rooms[r])
      BY <3>1
    <3>5. Queued(m, r)'
      BY <3>1, <3>3, <3>4 DEF Queued, Earlier
    <3>. QED
      BY <1>3, <2>0, <3>5 DEF Awaited, Below
  <2>. QED
    BY <2>2, <2>3
<1>12. ASSUME NEW p \in Handlers, TakeAnswer(p) PROVE Awaited(m, r)'
  <2>0. fetches' = fetches /\ online' = online /\ rooms' = rooms /\ pc[p] = "answer" /\ p = h
    BY <1>2, <1>12 DEF TakeAnswer, Answer, sockets
  <2>1. PICK v : v = View(draft[p], caller[p], conv[p])
    OBVIOUS
  <2>2. held'[r] = held[r] \/ (caller[p] = r /\ held'[r] = Upsert(held[r], {v}))
    BY <1>0, <1>12, <2>1 DEF TakeAnswer
  <2>3. ASSUME caller[p] = r PROVE v.seq < m.seq
    <3>1. PICK w \in held[r] : w.id = draft[p].id
      BY <2>0, <2>3 DEF Reading
    <3>2. OnRecord(w) /\ OnRecord(draft[p]) /\ v.id = draft[p].id /\ v.seq = draft[p].seq
      BY <1>0, <2>0, <2>1, ViewNames DEF Traced
    <3>3. w.seq = draft[p].seq
      BY <3>1, <3>2, OneNumber DEF Orderly
    <3>. QED
      BY <1>3, <3>1, <3>2, <3>3 DEF Below
  <2>4. Below(held'[r], m)
    <3>1. Upsert(held[r], {v}) \subseteq held[r] \cup {v}
      BY DEF Upsert
    <3>. QED
      BY <1>3, <2>2, <2>3, <3>1 DEF Below
  <2>5. r \notin online \/ Queued(m, r)
    BY <1>2, <1>4, <2>0 DEF Told
  <2>. QED
    BY <1>3, <2>0, <2>4, <2>5 DEF Awaited, Below, Queued
<1>13. CASE Stays(r)
  <2>1. Below(held'[r], m) /\ \A f \in fetches'[r] : Below(f.page.views, m)
    BY <1>3, <1>13 DEF Stays
  <2>2. Told(m, r) => Told(m, r)'
    BY <1>13 DEF Told, Stays, Earlier
  <2>3. Queued(m, r) => Queued(m, r)'
    BY <1>13 DEF Queued, Stays, Earlier
  <2>. QED
    BY <1>4, <1>13, <2>1, <2>2, <2>3 DEF Awaited, Stays, Below
<1>. QED
  BY <1>0, <1>5, <1>6, <1>7, <1>8, <1>9, <1>10, <1>11, <1>12, <1>13, TabCases

\* A message just stored is above everything shown or on its way, and about to
\* be published.
LEMMA StoredIsAwaited ==
  ASSUME Orderly, OneReader, Traced, Latest, Next, NEW r \in Tabs,
         NEW p \in Handlers, InsertOnce(p), ~AlreadyStored(draft[p]), UNCHANGED tab
  PROVE  \A m \in messages' : m \in messages \/ Awaited(m, r)'
<1>. SUFFICES ASSUME NEW m \in messages', m \notin messages
              PROVE  Awaited(m, r)'
  OBVIOUS
<1>0. /\ pc[p] = "insert" /\ pc'[p] = "publish" /\ draft'[p] = draft[p] /\ m = draft[p] /\ r \in Roles
      /\ held' = held /\ fetches' = fetches /\ rooms' = rooms /\ online' = online
  BY ThreadAssumption DEF InsertOnce, Go, Orderly, Sound, ServerOK, LocalsOK, tab, sockets
<1>1. ASSUME NEW v, OnRecord(v) PROVE v.seq < m.seq
  BY <1>0, <1>1 DEF OnRecord, Latest
<1>2. Below(held[r], m) /\ \A f \in fetches[r] : Below(f.page.views, m)
  BY <1>0, <1>1 DEF Traced, Below
<1>3. \A k \in 1..Len(rooms[r]) : Earlier(rooms[r][k], m)
  BY <1>0, <1>1 DEF Traced, Earlier
<1>4. Told(m, r)'
  BY <1>0, <1>3 DEF Told, Earlier
<1>. QED
  BY <1>0, <1>2, <1>4 DEF Awaited, Below

LEMMA AccountedStep ==
  ASSUME Orderly, OneReader, Followed, Next
  PROVE  Accounted'
<1>. USE DEF Followed
<1>. SUFFICES ASSUME NEW r \in Tabs, NEW n \in messages'
              PROVE  Shown(n, r)' \/ Coming(n, r)' \/ Awaited(n, r)'
  BY DEF Accounted
<1>0. r \in Roles
  BY ThreadAssumption
<1>1. ASSUME NEW m \in messages PROVE Shown(m, r)' \/ Coming(m, r)' \/ Awaited(m, r)'
  BY <1>0, ShownStays, ComingStays, AwaitedStays DEF Accounted
<1>2. CASE messages' = messages
  BY <1>1, <1>2
<1>3. ASSUME NEW p \in Handlers, InsertOnce(p)
      PROVE  Shown(n, r)' \/ Coming(n, r)' \/ Awaited(n, r)'
  <2>1. CASE AlreadyStored(draft[p])
    BY <1>1, <1>3, <2>1 DEF InsertOnce
  <2>2. CASE ~AlreadyStored(draft[p])
    <3>1. UNCHANGED tab
      <4>1. pc[p] = "insert" /\ messages' # messages
        BY <1>3, <2>2 DEF InsertOnce, AlreadyStored, Stored
      <4>2. ASSUME NEW q \in Handlers, TakeAnswer(q) \/ Ask(q) PROVE FALSE
        BY <4>1, <4>2 DEF TakeAnswer, Answer, Ask, Request, Send, Change, Acknowledge, server
      <4>3. ASSUME NEW q \in Handlers, NEW s \in Tabs, AcknowledgeHeld(q, s) PROVE FALSE
        BY <4>1, <4>3 DEF AcknowledgeHeld, Acknowledge, server
      <4>4. ASSUME NEW s \in Tabs, AskFirstPage(s) \/ ReadPage(s) \/ TakePage(s) \/ Receive(s) \/ Connect(s)
                                   \/ Disconnect(s) \/ FailPage(s)
            PROVE  FALSE
        BY <4>1, <4>4 DEF AskFirstPage, ReadPage, TakePage, Receive, Connect, Disconnect, FailPage, server
      <4>. QED
        BY <4>2, <4>3, <4>4 DEF Next, Progress
    <3>. QED
      BY <1>1, <1>3, <2>2, <3>1, StoredIsAwaited
  <2>. QED
    BY <2>1, <2>2
<1>4. ASSUME NEW p \in Handlers, SaveMessage(p)
      PROVE  Shown(n, r)' \/ Coming(n, r)' \/ Awaited(n, r)'
  <2>1. PICK m \in messages : n.id = m.id /\ n.seq = m.seq
    BY <1>4, SeqKept DEF Orderly
  <2>2. Shown(m, r)' \/ Coming(m, r)' \/ Awaited(m, r)'
    BY <1>1
  <2>. QED
    BY <2>1, <2>2 DEF Shown, Coming, Awaited, Told, Queued, Below, Earlier
<1>. QED
  BY <1>2, <1>3, <1>4, Writers DEF Orderly

LEMMA FollowedStep ==
  ASSUME Orderly, OneReader, Followed, [Next]_vars
  PROVE  Followed'
<1>1. CASE UNCHANGED vars
  BY <1>1 DEF Followed, Traced, Latest, Reading, Behind, Accounted, OnRecord, Shown, Coming, Awaited,
     Told, Queued, Below, Earlier, vars, server, sockets, locals, tab
<1>2. CASE Next
  <2>1. Latest' /\ Traced' /\ Reading' /\ Behind' /\ Accounted'
    BY <1>2, LatestStep, TracedStep, ReadingStep, BehindStep, AccountedStep DEF Followed
  <2>2. ASSUME NEW s \in Tabs, TakePage(s) PROVE hasOlder' = hasOlder
    <3>1. PICK f \in fetches[s] : ShowFirstPage(s, f) \/ MergePage(s, f)
      BY <2>2 DEF TakePage
    <3>2. s \in Roles /\ f.kind = "catchUp"
      BY ThreadAssumption DEF Orderly, Merging, Fetched
    <3>. QED
      BY <3>1, <3>2 DEF ShowFirstPage, MergePage
  <2>3. ASSUME NEW s \in Tabs, AskFirstPage(s) \/ ReadPage(s) \/ Receive(s) \/ Connect(s)
                               \/ Disconnect(s) \/ FailPage(s)
        PROVE  hasOlder' = hasOlder
    BY <2>3 DEF AskFirstPage, ReadPage, Receive, Connect, Disconnect, FailPage
  <2>4. ASSUME NEW p \in Handlers, TakeAnswer(p) PROVE hasOlder' = hasOlder
    BY <2>4 DEF TakeAnswer
  <2>5. ASSUME NEW p \in Handlers, NEW s \in Tabs, AcknowledgeHeld(p, s) PROVE hasOlder' = hasOlder
    BY <2>5 DEF AcknowledgeHeld
  <2>6. ASSUME NEW p \in Handlers, Ask(p) PROVE hasOlder' = hasOlder
    BY <2>6 DEF Ask, tab
  <2>7. ASSUME UNCHANGED tab PROVE hasOlder' = hasOlder
    BY <2>7 DEF tab
  <2>8. hasOlder' = hasOlder
    BY <1>2, <2>2, <2>3, <2>4, <2>5, <2>6, <2>7 DEF Next, Progress
  <2>. QED
    BY <2>1, <2>8 DEF Followed
<1>. QED
  BY <1>1, <1>2

\* A tab that only reads, served by one request at a time, shows every message
\* as soon as it is connected and nothing is under way, however often its
\* connection dropped and however many pages the catch-ups took: the cursor,
\* the highest number the tab shows, never passes a message it lacks.
THEOREM NothingIsMissed ==
  ASSUME OneReader
  PROVE  Spec => []NothingMissed
<1>1. Init => Followed
  BY DEF Init, ServerInit, Followed, Traced, Latest, Reading, Behind, Accounted, Sending
<1>2. Init => Merging
  BY DEF Init, Merging, Single, Fetched, OneReader
<1>3. Followed => NothingMissed
  <2>. SUFFICES ASSUME Followed, Settled, NEW r \in Tabs, NEW m \in messages
                PROVE  \E v \in held[r] : v.id = m.id
    BY DEF NothingMissed
  <2>1. Shown(m, r) \/ Coming(m, r) \/ Awaited(m, r)
    BY DEF Followed, Accounted
  <2>2. ~Coming(m, r)
    BY DEF Settled, Coming
  <2>3. ~Told(m, r) /\ r \in online /\ rooms[r] = << >>
    BY DEF Settled, Told
  <2>4. ~Queued(m, r)
    BY <2>3 DEF Queued
  <2>. QED
    BY <2>1, <2>2, <2>3, <2>4 DEF Awaited, Shown
<1>4. ASSUME Sound, Merging, SentOnce, [Next]_vars PROVE Merging'
  BY <1>4, MergingStep
<1>5. ASSUME Sound, Merging, SentOnce, SeqNamesMessage, Followed, [Next]_vars PROVE Followed'
  BY <1>5, FollowedStep DEF Orderly
<1>. QED
  BY <1>1, <1>2, <1>3, <1>4, <1>5, SoundInvariant, OneMessagePerSend, SeqIsCursor, PTL DEF Spec

-----------------------------------------------------------------------------
(***************************************************************************)
(* What parseOne of the contact detector may return, whatever the words.   *)
(***************************************************************************)
\* A word of the lexicon is a number below 100, and no word is the end of the
\* list.
LEMMA LexiconBounded ==
    ASSUME NEW w
    PROVE  /\ Value(w) \in 0..90
           /\ Kind(w) = "unit" => Value(w) \in 0..9
           /\ Kind(w) = "teen" => Value(w) \in 10..19
           /\ Kind(w) = "tens" => Value(w) \in 20..90
           /\ Value(w) # 0 \/ Kind(w) # "none" => w # "undefined"
<1>1. DOMAIN Units \cap DOMAIN Teens = {} /\ DOMAIN Units \cap DOMAIN Tens = {} /\ DOMAIN Teens \cap DOMAIN Tens = {}
  BY DEF Units, Teens, Tens
<1>2. \A u \in DOMAIN Units : Units[u] \in 0..9
  BY SMTT(60) DEF Units
<1>3. \A u \in DOMAIN Teens : Teens[u] \in 10..19
  BY SMTT(60) DEF Teens
<1>4. \A u \in DOMAIN Tens : Tens[u] \in 20..90
  BY SMTT(60) DEF Tens
<1>5. "undefined" \notin DOMAIN Units /\ "undefined" \notin DOMAIN Teens /\ "undefined" \notin DOMAIN Tens
  BY DEF Units, Teens, Tens
<1>6. CASE w \in DOMAIN Units
  <2>1. Kind(w) = "unit" /\ Value(w) = Units[w]  BY <1>1, <1>6 DEF Kind, Value
  <2>q. QED  BY <1>2, <1>5, <1>6, <2>1
<1>7. CASE w \in DOMAIN Teens
  <2>1. Kind(w) = "teen" /\ Value(w) = Teens[w]  BY <1>1, <1>7 DEF Kind, Value
  <2>q. QED  BY <1>3, <1>5, <1>7, <2>1
<1>8. CASE w \in DOMAIN Tens
  <2>1. Kind(w) = "tens" /\ Value(w) = Tens[w]  BY <1>1, <1>8 DEF Kind, Value
  <2>q. QED  BY <1>4, <1>5, <1>8, <2>1
<1>9. CASE w \notin DOMAIN Units \cup DOMAIN Teens \cup DOMAIN Tens
  <2>1. Kind(w) = "none" /\ Value(w) = 0  BY <1>9 DEF Kind, Value
  <2>q. QED  BY <2>1
<1>q. QED  BY <1>6, <1>7, <1>8, <1>9

LEMMA QuatreAndDix ==
    /\ Kind("quatre") = "unit" /\ Kind("dix") = "teen"
<1>1. "quatre" \in DOMAIN Units /\ "quatre" \notin DOMAIN Teens /\ "quatre" \notin DOMAIN Tens
  BY DEF Units, Teens, Tens
<1>2. "dix" \notin DOMAIN Units /\ "dix" \in DOMAIN Teens /\ "dix" \notin DOMAIN Tens
  BY DEF Units, Teens, Tens
<1>q. QED  BY <1>1, <1>2 DEF Kind

\* A number word at place i is one of the words, so what is read ends there.
LEMMA WordInside ==
    ASSUME NEW words, NEW n \in Nat, DOMAIN words = 1..n, NEW i \in Nat \ {0},
           WordAt(words, i) # "undefined"
    PROVE  i <= n /\ WordAt(words, i) = words[i]
BY DEF WordAt

LEMMA SixtyOrEightyTailBounded ==
    ASSUME NEW words, NEW n \in Nat, DOMAIN words = 1..n, NEW i \in 1..n + 1
    PROVE  SixtyOrEightyTail(words, i).value \in 0..19 /\ SixtyOrEightyTail(words, i).next \in i .. n + 1
<1>1. CASE DixCompound(words, i)
  <2>1. WordAt(words, i) = "dix" /\ Kind(WordAt(words, i + 1)) = "unit"
    BY <1>1 DEF DixCompound, IsUnitAt
  <2>2. WordAt(words, i + 1) # "undefined" /\ Value(WordAt(words, i + 1)) \in 0..9
    BY <2>1, LexiconBounded
  <2>3. i + 1 <= n /\ Value(words[i + 1]) \in 0..9
    <3>1. i + 1 <= n /\ WordAt(words, i + 1) = words[i + 1]
      BY <2>2, WordInside
    <3>q. QED  BY <2>2, <3>1
  <2>4. SixtyOrEightyTail(words, i) = Read(10 + Value(words[i + 1]), i + 2)
    BY <1>1 DEF SixtyOrEightyTail
  <2>5. 10 + Value(words[i + 1]) \in 0..19 /\ i + 2 \in i .. n + 1
    BY <2>3
  <2>q. QED  BY <2>4, <2>5 DEF Read
<1>2. CASE ~DixCompound(words, i) /\ (Kind(WordAt(words, i)) = "teen" \/ IsUnitAt(words, i, 1))
  <2>1. WordAt(words, i) # "undefined" /\ Value(WordAt(words, i)) \in 0..19
    BY <1>2, LexiconBounded DEF IsUnitAt
  <2>2. i <= n /\ Value(words[i]) \in 0..19
    <3>1. i <= n /\ WordAt(words, i) = words[i]
      BY <2>1, WordInside
    <3>q. QED  BY <2>1, <3>1
  <2>3. SixtyOrEightyTail(words, i) = Read(Value(words[i]), i + 1)
    BY <1>2 DEF SixtyOrEightyTail
  <2>q. QED  BY <2>2, <2>3 DEF Read
<1>3. CASE ~DixCompound(words, i) /\ ~(Kind(WordAt(words, i)) = "teen" \/ IsUnitAt(words, i, 1))
  <2>1. SixtyOrEightyTail(words, i) = Read(0, i)
    BY <1>3 DEF SixtyOrEightyTail
  <2>q. QED  BY <2>1 DEF Read
<1>q. QED  BY <1>1, <1>2, <1>3

LEMMA TensTailBounded ==
    ASSUME NEW words, NEW n \in Nat, DOMAIN words = 1..n, NEW i \in 1..n + 1
    PROVE  TensTail(words, i).value \in 0..11 /\ TensTail(words, i).next \in i .. n + 1
<1>1. CASE WordAt(words, i) = "et" /\ Value(WordAt(words, i + 1)) \in 1..11
  <2>1. WordAt(words, i + 1) # "undefined"
    BY <1>1, LexiconBounded
  <2>2. i + 1 <= n /\ Value(words[i + 1]) \in 1..11
    BY <1>1, <2>1, WordInside
  <2>3. TensTail(words, i) = Read(Value(words[i + 1]), i + 2)
    BY <1>1 DEF TensTail
  <2>q. QED  BY <2>2, <2>3 DEF Read
<1>2. CASE WordAt(words, i) = "et" /\ Value(WordAt(words, i + 1)) \notin 1..11
  <2>1. TensTail(words, i) = Read(0, i)
    BY <1>2 DEF TensTail
  <2>q. QED  BY <2>1 DEF Read
<1>3. CASE WordAt(words, i) # "et" /\ IsUnitAt(words, i, 1)
  <2>1. WordAt(words, i) # "undefined" /\ Value(WordAt(words, i)) \in 0..9
    BY <1>3, LexiconBounded DEF IsUnitAt
  <2>2. i <= n /\ Value(words[i]) \in 0..9
    BY <2>1, WordInside
  <2>3. TensTail(words, i) = Read(Value(words[i]), i + 1)
    BY <1>3 DEF TensTail
  <2>q. QED  BY <2>2, <2>3 DEF Read
<1>4. CASE WordAt(words, i) # "et" /\ ~IsUnitAt(words, i, 1)
  <2>1. TensTail(words, i) = Read(0, i)
    BY <1>4 DEF TensTail
  <2>q. QED  BY <2>1 DEF Read
<1>q. QED  BY <1>1, <1>2, <1>3, <1>4

\* parseOne always takes at least one word and never reads past the last, so
\* the loop of parseNumberWords ends whatever it is given; what it returns has
\* at most two digits, or is 100 or 101 ("ninety et onze").
THEOREM ParseOneAdvances ==
    ASSUME NEW words, NEW n \in Nat, DOMAIN words = 1..n, NEW i \in 1..n
    PROVE  /\ ParseOne(words, i).next \in i + 1 .. n + 1
           /\ ParseOne(words, i).value \in 0..101
<1> DEFINE w == words[i]
<1>1. \A a, t : Plus(a, t).value = a + t.value /\ Plus(a, t).next = t.next
  BY DEF Plus, Read
<1>2. \A b, c : Read(b, c).value = b /\ Read(b, c).next = c
  BY DEF Read
<1>3. w = "quatre" => Kind(w) # "tens" /\ ~DixCompound(words, i)
  BY QuatreAndDix DEF DixCompound, WordAt
<1>next. i + 1 \in 1..n + 1
  OBVIOUS
<1>4. CASE w = "quatre" /\ WordAt(words, i + 1) \in {"vingt", "vingts"}
  <2>1. i + 2 \in 1..n + 1
    BY <1>4, WordInside
  <2>2. PICK v \in 0..19, j \in i + 2 .. n + 1 :
            v = SixtyOrEightyTail(words, i + 2).value /\ j = SixtyOrEightyTail(words, i + 2).next
    BY <2>1, SixtyOrEightyTailBounded
  <2>3. ParseOne(words, i) = Plus(80, SixtyOrEightyTail(words, i + 2))
    BY <1>3, <1>4 DEF ParseOne
  <2>4. ParseOne(words, i).value = 80 + v /\ ParseOne(words, i).next = j
    BY Zenon, <1>1, <2>2, <2>3
  <2>5. 80 + v \in 0..101 /\ j \in i + 1 .. n + 1
    OBVIOUS
  <2>q. QED  BY Zenon, <2>4, <2>5
<1>5. CASE DixCompound(words, i) /\ w # "quatre"
  <2>1. WordAt(words, i) = "dix" /\ Kind(WordAt(words, i + 1)) = "unit"
    BY <1>5 DEF DixCompound, IsUnitAt
  <2>2. WordAt(words, i + 1) # "undefined" /\ Value(WordAt(words, i + 1)) \in 0..9
    BY <2>1, LexiconBounded
  <2>3. i + 1 <= n /\ Value(words[i + 1]) \in 0..9
    BY <2>2, WordInside
  <2>4. PICK v \in 0..9 : v = Value(words[i + 1])
    BY <2>3
  <2>5. Kind(w) # "tens"
    BY <2>1, QuatreAndDix DEF WordAt
  <2>6. ParseOne(words, i) = Read(10 + Value(words[i + 1]), i + 2)
    BY <1>5, <2>5 DEF ParseOne
  <2>7. ParseOne(words, i).value = 10 + v /\ ParseOne(words, i).next = i + 2
    BY Zenon, <1>2, <2>4, <2>6
  <2>8. 10 + v \in 0..101 /\ i + 2 \in i + 1 .. n + 1
    BY <2>3
  <2>q. QED  BY Zenon, <2>7, <2>8
<1>6. CASE Kind(w) = "tens" /\ Value(w) = 60 /\ w # "quatre" /\ ~DixCompound(words, i)
  <2>1. PICK v \in 0..19, j \in i + 1 .. n + 1 :
            v = SixtyOrEightyTail(words, i + 1).value /\ j = SixtyOrEightyTail(words, i + 1).next
    BY <1>next, SixtyOrEightyTailBounded
  <2>2. ParseOne(words, i) = Plus(60, SixtyOrEightyTail(words, i + 1))
    BY <1>6 DEF ParseOne
  <2>3. ParseOne(words, i).value = 60 + v /\ ParseOne(words, i).next = j
    BY Zenon, <1>1, <2>1, <2>2
  <2>4. 60 + v \in 0..101 /\ j \in i + 1 .. n + 1
    OBVIOUS
  <2>q. QED  BY Zenon, <2>3, <2>4
<1>7. CASE Kind(w) = "tens" /\ Value(w) # 60 /\ w # "quatre" /\ ~DixCompound(words, i)
  <2>1. PICK v \in 0..11, j \in i + 1 .. n + 1 :
            v = TensTail(words, i + 1).value /\ j = TensTail(words, i + 1).next
    BY <1>next, TensTailBounded
  <2>2. PICK tens \in 20..90 : tens = Value(w)
    BY <1>7, LexiconBounded
  <2>3. ParseOne(words, i) = Plus(Value(w), TensTail(words, i + 1))
    BY <1>7 DEF ParseOne
  <2>4. ParseOne(words, i).value = tens + v /\ ParseOne(words, i).next = j
    BY Zenon, <1>1, <2>1, <2>2, <2>3
  <2>5. tens + v \in 0..101 /\ j \in i + 1 .. n + 1
    OBVIOUS
  <2>q. QED  BY Zenon, <2>4, <2>5
<1>8. CASE /\ ~(w = "quatre" /\ WordAt(words, i + 1) \in {"vingt", "vingts"})
           /\ ~DixCompound(words, i) /\ Kind(w) # "tens"
  <2>1. ParseOne(words, i) = Read(Value(w), i + 1)
    BY <1>8 DEF ParseOne
  <2>2. PICK v \in 0..90 : v = Value(w)
    BY LexiconBounded
  <2>3. ParseOne(words, i).value = v /\ ParseOne(words, i).next = i + 1
    BY Zenon, <1>2, <2>1, <2>2
  <2>4. v \in 0..101 /\ i + 1 \in i + 1 .. n + 1
    OBVIOUS
  <2>q. QED  BY Zenon, <2>3, <2>4
<1>q. QED  BY <1>3, <1>4, <1>5, <1>6, <1>7, <1>8
=============================================================================
