------------------------- MODULE Conversations_proofs -------------------------
(***************************************************************************)
(* The safety properties of Conversations for every set of providers and   *)
(* tabs and every bound.  What makes them inductive is that a page or a    *)
(* call never names more than the server held when it was read: rows and   *)
(* calls name dispatches that exist, links and screens conversations that  *)
(* are stored, and a dispatch only moves forward.                          *)
(***************************************************************************)
EXTENDS Conversations, TLAPS

\* What a page may hold, given the dispatches cand and the conversations tk.
RowsExist(v, t, cand) == \A q \in Providers :
    v.rows[q] # "NONE" => cand[q] # "NONE" /\ (IsClient(t) \/ q = User[t])
TalkExists(v, t, tk) ==
    v.talk # NoTalk => v.talk \in tk /\ (IsClient(t) \/ v.talk.provider = User[t])
ListedExist(v, t, tk) == \A c \in v.listed : c \in tk /\ (IsClient(t) \/ c.provider = User[t])
PageFits(v, t) ==
    /\ v.page \in {"requests", "search"} => IsClient(t)
    /\ v.page = "inbox" => ~IsClient(t)
EngagedWasViewed(v, t, cand) ==
    ~IsClient(t) /\ v.engaged => cand[User[t]] \in {"VIEWED", "DECLINED"}

ViewInv(v, t, cand, tk) ==
    /\ RowsExist(v, t, cand) /\ TalkExists(v, t, tk) /\ ListedExist(v, t, tk)
    /\ PageFits(v, t) /\ EngagedWasViewed(v, t, cand)

\* What a call in progress may go by: the provider who opens was marked as a
\* viewer first, and the loser of a race has a winner to find.
OpenInv(o, t, q, cand, tk) ==
    o.step # "none" =>
        /\ IsClient(t) \/ q = User[t]
        /\ cand[q] # "NONE"
        /\ ~IsClient(t) /\ o.step \in {"find", "create", "winner", "view"} => cand[q] # "NOTIFIED"
        /\ o.step = "winner" => \E c \in tk : c.provider = q
        /\ o.step = "view" => o.talk \in tk /\ o.talk.provider = q

RefuseInv(r, t, cand) == r # "none" => ~IsClient(t) /\ cand[User[t]] # "NONE"

OnePerProvider(tk) == \A c, d \in tk : c.provider = d.provider => c = d

IInv == /\ TypeOK
        /\ OnePerProvider(talks)
        /\ \A t \in Tabs : ViewInv(tab[t], t, candidacy, talks)
        /\ \A t \in Tabs : RefuseInv(refusing[t], t, candidacy)
        /\ \A t \in Tabs, q \in Providers : OpenInv(opening[t][q], t, q, candidacy, talks)

\* The moves of a dispatch in this module.
Forward(a, b) == \/ a = b
                 \/ a = "NONE" /\ b = "NOTIFIED"
                 \/ a = "NOTIFIED" /\ b = "EXPIRED"
                 \/ a # "NONE" /\ b \in {"VIEWED", "DECLINED"}

\* The tables only grow and every dispatch moves forward.
Evolves == talks \subseteq talks' /\ \A q \in Providers : Forward(candidacy[q], candidacy'[q])

-----------------------------------------------------------------------------
(***************************************************************************)
(* Lemmas on the operators.                                                *)
(***************************************************************************)
\* A page shown in one tab leaves the others as they are.
LEMMA ShowOne ==
    ASSUME tab \in [Tabs -> Tab], NEW t \in Tabs, NEW v \in Tab, Show(t, v)
    PROVE  /\ tab' \in [Tabs -> Tab] /\ tab'[t] = v
           /\ \A u \in Tabs \ {t} : tab'[u] = tab[u]
BY DEF Show

\* A fresh page is a page.
LEMMA MountedType ==
    ASSUME NEW page \in Pages, NEW n \in Nat PROVE Mounted(page, n) \in Tab
BY DEF Mounted, Tab, Status, Pages, Box

\* The conversation screen is a page about the conversation it was asked for.
LEMMA ScreenType ==
    ASSUME NEW v \in Tab, NEW c \in Talk
    PROVE  /\ Screen(v, c) \in Tab /\ Screen(v, c).page = "talk" /\ Screen(v, c).talk = c
           /\ Screen(v, c) = v \/ (/\ Screen(v, c).rows = [q \in Providers |-> "NONE"]
                                   /\ Screen(v, c).listed = {} /\ ~Screen(v, c).engaged)
<1>1. CASE v.page = "talk" /\ v.talk = c
  BY <1>1 DEF Screen
<1>2. CASE ~(v.page = "talk" /\ v.talk = c)
  <2>1. Screen(v, c) = [Mounted("talk", v.clicks) EXCEPT !.talk = c]
    BY <1>2 DEF Screen
  <2>2. v.clicks \in Nat
    BY DEF Tab
  <2>3. Screen(v, c) = [page |-> "talk", shown |-> FALSE, link |-> FALSE, started |-> FALSE,
          rows |-> [q \in Providers |-> "NONE"], listed |-> {}, talk |-> c, canSend |-> FALSE,
          engaged |-> FALSE, draft |-> "empty", sending |-> "no", error |-> "none", clicks |-> v.clicks]
    BY <2>1 DEF Mounted
  <2> QED BY <2>2, <2>3 DEF Tab, Pages, Status, Box
<1> QED BY <1>1, <1>2

-----------------------------------------------------------------------------
(***************************************************************************)
(* The frame: what pages and calls hold stays true while the tables evolve *)
(* and one of them changes.                                                *)
(***************************************************************************)
LEMMA KnownStaysKnown ==
    ASSUME Evolves
    PROVE  /\ \A q \in Providers : candidacy[q] # "NONE" => candidacy'[q] # "NONE"
           /\ \A q \in Providers : candidacy[q] \notin {"NONE", "NOTIFIED"}
                                       => candidacy'[q] \notin {"NONE", "NOTIFIED"}
           /\ \A q \in Providers : candidacy[q] \in {"VIEWED", "DECLINED"}
                                       => candidacy'[q] \in {"VIEWED", "DECLINED"}
BY DEF Evolves, Forward

LEMMA OwnIsProvider ==
    ASSUME NEW t \in Tabs, ~IsClient(t) PROVE User[t] \in Providers
BY ConversationsAssumption DEF ConversationsAssumption, IsClient

LEMMA ViewFrame ==
    ASSUME Evolves, NEW t \in Tabs, NEW v \in Tab, ViewInv(v, t, candidacy, talks)
    PROVE  ViewInv(v, t, candidacy', talks')
<1>1. RowsExist(v, t, candidacy')
  BY KnownStaysKnown DEF ViewInv, RowsExist
<1>2. TalkExists(v, t, talks') /\ ListedExist(v, t, talks')
  BY DEF ViewInv, TalkExists, ListedExist, Evolves
<1>3. EngagedWasViewed(v, t, candidacy')
  BY KnownStaysKnown, OwnIsProvider DEF ViewInv, EngagedWasViewed
<1> QED BY <1>1, <1>2, <1>3 DEF ViewInv

LEMMA OpenFrame ==
    ASSUME Evolves, NEW t \in Tabs, NEW q \in Providers, NEW o \in Open,
           OpenInv(o, t, q, candidacy, talks)
    PROVE  OpenInv(o, t, q, candidacy', talks')
BY KnownStaysKnown DEF OpenInv, Evolves

\* One tab shows a page that fits the new tables.
LEMMA TabStep ==
    ASSUME IInv, Evolves, NEW t \in Tabs, NEW v \in Tab, Show(t, v),
           ViewInv(v, t, candidacy', talks')
    PROVE  tab' \in [Tabs -> Tab] /\ \A u \in Tabs : ViewInv(tab'[u], u, candidacy', talks')
<1>1. tab \in [Tabs -> Tab] BY DEF IInv, TypeOK
<1>2. /\ tab' \in [Tabs -> Tab] /\ tab'[t] = v
      /\ \A u \in Tabs \ {t} : tab'[u] = tab[u]
  BY <1>1, ShowOne
<1>3. ASSUME NEW u \in Tabs PROVE ViewInv(tab'[u], u, candidacy', talks')
  <2>1. CASE u = t BY <2>1, <1>2
  <2>2. CASE u # t
    <3>1. tab'[u] = tab[u] /\ tab[u] \in Tab BY <2>2, <1>1, <1>2
    <3>2. ViewInv(tab[u], u, candidacy, talks) BY DEF IInv
    <3> QED BY <3>1, <3>2, ViewFrame
  <2> QED BY <2>1, <2>2
<1> QED BY <1>2, <1>3

\* No page changes.
LEMMA TabsSame ==
    ASSUME IInv, Evolves, tab' = tab
    PROVE  tab' \in [Tabs -> Tab] /\ \A u \in Tabs : ViewInv(tab'[u], u, candidacy', talks')
<1>1. tab \in [Tabs -> Tab] BY DEF IInv, TypeOK
<1>2. ASSUME NEW u \in Tabs PROVE ViewInv(tab[u], u, candidacy', talks')
  <2>1. tab[u] \in Tab /\ ViewInv(tab[u], u, candidacy, talks) BY <1>1 DEF IInv
  <2> QED BY <2>1, ViewFrame
<1> QED BY <1>1, <1>2

\* One call about a dispatch advances.
LEMMA OpenOne ==
    ASSUME IInv, Evolves, NEW t \in Tabs, NEW q \in Providers, NEW o \in Open,
           opening' = [opening EXCEPT ![t][q] = o], OpenInv(o, t, q, candidacy', talks')
    PROVE  /\ opening' \in [Tabs -> [Providers -> Open]] /\ opening'[t][q] = o
           /\ \A u \in Tabs, p \in Providers :
                /\ OpenInv(opening'[u][p], u, p, candidacy', talks')
                /\ u # t \/ p # q => opening'[u][p] = opening[u][p]
<1>1. opening \in [Tabs -> [Providers -> Open]] BY DEF IInv, TypeOK
<1>2. /\ opening' \in [Tabs -> [Providers -> Open]] /\ opening'[t][q] = o
      /\ \A u \in Tabs, p \in Providers : u # t \/ p # q => opening'[u][p] = opening[u][p]
  BY <1>1
<1>3. ASSUME NEW u \in Tabs, NEW p \in Providers
      PROVE  OpenInv(opening'[u][p], u, p, candidacy', talks')
  <2>1. CASE u = t /\ p = q BY <2>1, <1>2
  <2>2. CASE u # t \/ p # q
    <3>1. opening'[u][p] = opening[u][p] /\ opening[u][p] \in Open BY <2>2, <1>1, <1>2
    <3>2. OpenInv(opening[u][p], u, p, candidacy, talks) BY DEF IInv
    <3> QED BY <3>1, <3>2, OpenFrame
  <2> QED BY <2>1, <2>2
<1> QED BY <1>2, <1>3

\* No call changes.
LEMMA OpeningsSame ==
    ASSUME IInv, Evolves, opening' = opening
    PROVE  /\ opening' \in [Tabs -> [Providers -> Open]]
           /\ \A u \in Tabs, p \in Providers : OpenInv(opening'[u][p], u, p, candidacy', talks')
<1>1. opening \in [Tabs -> [Providers -> Open]] BY DEF IInv, TypeOK
<1>2. ASSUME NEW u \in Tabs, NEW p \in Providers
      PROVE  OpenInv(opening[u][p], u, p, candidacy', talks')
  <2>1. opening[u][p] \in Open /\ OpenInv(opening[u][p], u, p, candidacy, talks) BY <1>1 DEF IInv
  <2> QED BY <2>1, OpenFrame
<1> QED BY <1>1, <1>2

LEMMA RefusalsSame ==
    ASSUME IInv, Evolves, refusing' = refusing
    PROVE  /\ refusing' \in [Tabs -> {"none", "save", "refresh"}]
           /\ \A u \in Tabs : RefuseInv(refusing'[u], u, candidacy')
<1>1. refusing \in [Tabs -> {"none", "save", "refresh"}] BY DEF IInv, TypeOK
<1>2. ASSUME NEW u \in Tabs PROVE RefuseInv(refusing[u], u, candidacy')
  <2>1. RefuseInv(refusing[u], u, candidacy) BY DEF IInv
  <2> QED BY <2>1, KnownStaysKnown, OwnIsProvider DEF RefuseInv
<1> QED BY <1>1, <1>2

\* The tables stay as they are.
LEMMA ServerSame ==
    ASSUME IInv, UNCHANGED server
    PROVE  /\ Evolves /\ OnePerProvider(talks') /\ {cancelled', match'} \subseteq BOOLEAN
           /\ candidacy' \in [Providers -> Status] /\ lapsed' \subseteq Providers
           /\ talks' \subseteq Talk
BY DEF IInv, TypeOK, server, search, Evolves, Forward

\* What is left to show of a step, with the pieces above.
LEMMA Assemble ==
    ASSUME {cancelled', match'} \subseteq BOOLEAN, faults' \in Nat,
           candidacy' \in [Providers -> Status], lapsed' \subseteq Providers,
           talks' \subseteq Talk, OnePerProvider(talks'),
           tab' \in [Tabs -> Tab], \A u \in Tabs : ViewInv(tab'[u], u, candidacy', talks'),
           refusing' \in [Tabs -> {"none", "save", "refresh"}],
           \A u \in Tabs : RefuseInv(refusing'[u], u, candidacy'),
           opening' \in [Tabs -> [Providers -> Open]],
           \A u \in Tabs, p \in Providers : OpenInv(opening'[u][p], u, p, candidacy', talks')
    PROVE  IInv'
BY DEF IInv, TypeOK

-----------------------------------------------------------------------------
(***************************************************************************)
(* Steps that only change what a page shows.                               *)
(***************************************************************************)
LEMMA PageStep ==
    ASSUME IInv, UNCHANGED <<server, calls>>, faults' \in Nat,
           NEW t \in Tabs, NEW v \in Tab, Show(t, v), ViewInv(v, t, candidacy, talks)
    PROVE  IInv'
<1>1. /\ Evolves /\ OnePerProvider(talks') /\ {cancelled', match'} \subseteq BOOLEAN
      /\ candidacy' \in [Providers -> Status] /\ lapsed' \subseteq Providers
      /\ talks' \subseteq Talk
  BY ServerSame
<1>2. refusing' = refusing /\ opening' = opening BY DEF calls
<1>3. ViewInv(v, t, candidacy', talks') BY <1>1, ViewFrame
<1> QED BY <1>1, <1>2, <1>3, TabStep, OpeningsSame, RefusalsSame, Assemble

\* A page that keeps its rows, its links and its conversation still fits.
LEMMA SameView ==
    ASSUME NEW v \in Tab, NEW w \in Tab, NEW t \in Tabs, ViewInv(v, t, candidacy, talks),
           w.rows = v.rows, w.talk = v.talk, w.listed = v.listed, w.page = v.page,
           w.engaged = v.engaged
    PROVE  ViewInv(w, t, candidacy, talks)
BY DEF ViewInv, RowsExist, TalkExists, ListedExist, PageFits, EngagedWasViewed

LEMMA FreshView ==
    ASSUME NEW t \in Tabs, NEW page \in Pages, NEW n \in Nat,
           page \in {"requests", "search"} => IsClient(t), page = "inbox" => ~IsClient(t)
    PROVE  ViewInv(Mounted(page, n), t, candidacy, talks)
BY DEF Mounted, ViewInv, RowsExist, TalkExists, ListedExist, PageFits, EngagedWasViewed

LEMMA NoComposerType ==
    ASSUME NEW v \in Tab
    PROVE  /\ NoComposer(v) \in Tab /\ NoComposer(v).rows = v.rows
           /\ NoComposer(v).talk = v.talk /\ NoComposer(v).listed = v.listed
           /\ NoComposer(v).page = v.page /\ NoComposer(v).engaged = v.engaged
BY DEF NoComposer, Tab, Box

LEMMA PressedType ==
    ASSUME NEW t \in Tabs, tab[t] \in Tab
    PROVE  /\ Pressed(t) \in Tab /\ Pressed(t).rows = tab[t].rows
           /\ Pressed(t).talk = tab[t].talk /\ Pressed(t).listed = tab[t].listed
           /\ Pressed(t).page = tab[t].page /\ Pressed(t).engaged = tab[t].engaged
<1>1. PICK n \in Nat : n = tab[t].clicks BY DEF Tab
<1>2. n + 1 \in Nat OBVIOUS
<1>3. Pressed(t) = [tab[t] EXCEPT !.clicks = n + 1, !.error = "none"] BY <1>1 DEF Pressed
<1> QED BY <1>2, <1>3 DEF Tab

\* The queries show what the tables hold.
LEMMA QueryKeeps ==
    ASSUME IInv, NEW t \in Tabs, Query(t) PROVE IInv'
<1>1. /\ tab[t] \in Tab /\ ViewInv(tab[t], t, candidacy, talks) /\ faults \in Nat
      /\ candidacy \in [Providers -> Status] /\ talks \subseteq Talk
      /\ {cancelled, match} \subseteq BOOLEAN
  BY DEF IInv, TypeOK
<1>2. CASE ReadRequests(t)
  <2>. DEFINE v == [tab[t] EXCEPT !.shown = TRUE, !.link = ~cancelled]
  <2>1. /\ v \in Tab /\ v.rows = tab[t].rows /\ v.talk = tab[t].talk /\ v.listed = tab[t].listed
        /\ v.page = tab[t].page /\ v.engaged = tab[t].engaged
    BY <1>1 DEF Tab
  <2>2. ViewInv(v, t, candidacy, talks)
    <3>. HIDE DEF v
    <3> QED BY <1>1, <2>1, SameView
  <2> QED BY <1>1, <1>2, <2>1, <2>2, PageStep DEF ReadRequests, calls
<1>3. CASE ReadMatch(t)
  <2>. DEFINE v == [tab[t] EXCEPT !.shown = TRUE, !.started = match]
  <2>1. v \in Tab BY <1>1 DEF Tab
  <2>2. ViewInv(v, t, candidacy, talks) BY <1>1, <2>1, SameView DEF Tab
  <2> QED BY <1>1, <1>3, <2>1, <2>2, PageStep DEF ReadMatch, calls
<1>4. CASE ReadCandidates(t)
  <2>. DEFINE v == [tab[t] EXCEPT !.rows = candidacy]
  <2>1. v \in Tab BY <1>1 DEF Tab
  <2>2. IsClient(t) BY <1>1, <1>4 DEF ReadCandidates, ViewInv, PageFits
  <2>3. ViewInv(v, t, candidacy, talks)
    BY <1>1, <2>2 DEF ViewInv, RowsExist, TalkExists, ListedExist, PageFits, EngagedWasViewed, Tab
  <2> QED BY <1>1, <1>4, <2>1, <2>3, PageStep DEF ReadCandidates, calls
<1>5. CASE ReadInbox(t)
  <2>. DEFINE v == [tab[t] EXCEPT !.shown = TRUE, !.rows = Answerable(t)]
  <2>1. v \in Tab BY <1>1 DEF Tab, Answerable, Status
  <2>2. ViewInv(v, t, candidacy, talks)
    BY <1>1 DEF ViewInv, RowsExist, TalkExists, ListedExist, PageFits, EngagedWasViewed, Tab, Answerable
  <2> QED BY <1>1, <1>5, <2>1, <2>2, PageStep DEF ReadInbox, calls
<1>6. CASE ReadList(t)
  <2>. DEFINE v == [tab[t] EXCEPT !.shown = TRUE,
                            !.listed = {c \in talks : IsClient(t) \/ c.provider = User[t]}]
  <2>1. v \in Tab BY <1>1 DEF Tab
  <2>2. ViewInv(v, t, candidacy, talks)
    BY <1>1 DEF ViewInv, RowsExist, TalkExists, ListedExist, PageFits, EngagedWasViewed, Tab
  <2> QED BY <1>1, <1>6, <2>1, <2>2, PageStep DEF ReadList, calls
<1>7. CASE ReadTalk(t)
  <2>. DEFINE can == CanSend(tab[t].talk.provider)
              view == [tab[t] EXCEPT !.shown = TRUE, !.canSend = can]
              v == IF can THEN view ELSE NoComposer(view)
  <2>1. can \in BOOLEAN BY <1>1 DEF CanSend, Live
  <2>2. view \in Tab /\ ViewInv(view, t, candidacy, talks)
    <3>. HIDE DEF can
    <3>1. view \in Tab BY <1>1, <2>1 DEF Tab
    <3> QED BY <1>1, <3>1, SameView DEF Tab
  <2>3. v \in Tab /\ ViewInv(v, t, candidacy, talks)
    <3>. HIDE DEF can, view
    <3> QED BY <2>2, NoComposerType, SameView
  <2>4. Show(t, v) /\ UNCHANGED <<server, calls, faults>> BY <1>7 DEF ReadTalk
  <2>. HIDE DEF v
  <2> QED BY <1>1, <2>3, <2>4, PageStep
<1> QED BY <1>2, <1>3, <1>4, <1>5, <1>6, <1>7 DEF Query

\* Moving between pages, and a query that fails.
LEMMA NavigationKeeps ==
    ASSUME IInv, NEW t \in Tabs,
           (\E page \in Pages : Visit(t, page)) \/ FollowRequest(t) \/ FollowLink(t) \/ QueryFails(t)
    PROVE  IInv'
<1>1. /\ tab[t] \in Tab /\ ViewInv(tab[t], t, candidacy, talks) /\ faults \in Nat
      /\ talks \subseteq Talk
  BY DEF IInv, TypeOK
<1>n. tab[t].clicks \in Nat BY <1>1 DEF Tab
<1>2. ASSUME NEW page \in Pages, Visit(t, page) PROVE IInv'
  <2>1. page \in {"requests", "search"} => IsClient(t) BY <1>2 DEF Visit, Visited
  <2>2. page = "inbox" => ~IsClient(t) BY <1>2 DEF Visit, Visited
  <2>3. ViewInv(Mounted(page, tab[t].clicks), t, candidacy, talks) BY <1>n, <2>1, <2>2, FreshView
  <2> QED BY <1>1, <1>n, <1>2, <2>3, MountedType, PageStep DEF Visit, calls
<1>3. CASE FollowRequest(t)
  <2>1. IsClient(t) BY <1>1, <1>3 DEF FollowRequest, ViewInv, PageFits
  <2>2. ViewInv(Mounted("search", tab[t].clicks), t, candidacy, talks) BY <1>n, <2>1, FreshView DEF Pages
  <2>3. Mounted("search", tab[t].clicks) \in Tab BY <1>n, MountedType DEF Pages
  <2> QED BY <1>1, <1>3, <2>2, <2>3, PageStep DEF FollowRequest, calls
<1>4. CASE FollowLink(t)
  <2>1. PICK c \in tab[t].listed : Show(t, Screen(tab[t], c)) BY <1>4 DEF FollowLink
  <2>2. c \in talks /\ (IsClient(t) \/ c.provider = User[t]) BY <1>1, <2>1 DEF ViewInv, ListedExist
  <2>3. c \in Talk BY <1>1, <2>2
  <2>4. Screen(tab[t], c) \in Tab BY <1>1, <2>3, ScreenType
  <2>5. ViewInv(Screen(tab[t], c), t, candidacy, talks)
    <3>1. CASE Screen(tab[t], c) = tab[t] BY <3>1, <1>1
    <3>2. CASE Screen(tab[t], c) # tab[t]
      BY <3>2, <1>1, <2>2, <2>3, ScreenType
      DEF ViewInv, RowsExist, TalkExists, ListedExist, PageFits, EngagedWasViewed
    <3> QED BY <3>1, <3>2
  <2> QED BY <1>1, <1>4, <2>1, <2>4, <2>5, PageStep DEF FollowLink, calls
<1>5. CASE QueryFails(t)
  <2>. DEFINE w == [tab[t] EXCEPT !.shown = FALSE, !.link = FALSE]
              v == NoComposer(w)
  <2>1. w \in Tab /\ ViewInv(w, t, candidacy, talks)
    <3>1. w \in Tab BY <1>1 DEF Tab
    <3> QED BY <1>1, <3>1, SameView DEF Tab
  <2>2. v \in Tab /\ ViewInv(v, t, candidacy, talks)
    <3>. HIDE DEF w
    <3> QED BY <2>1, NoComposerType, SameView
  <2>3. Show(t, v) /\ UNCHANGED <<server, calls>> /\ faults' = faults + 1 BY <1>5 DEF QueryFails
  <2>. HIDE DEF v
  <2> QED BY <1>1, <2>2, <2>3, PageStep
<1> QED BY <1>2, <1>3, <1>4, <1>5

\* Pressing a button keeps what the page holds.
LEMMA PressedView ==
    ASSUME IInv, NEW t \in Tabs
    PROVE  Pressed(t) \in Tab /\ ViewInv(Pressed(t), t, candidacy, talks)
<1>1. tab[t] \in Tab /\ ViewInv(tab[t], t, candidacy, talks) BY DEF IInv, TypeOK
<1> QED BY <1>1, PressedType, SameView

\* So does an outcome that is told on the page.
LEMMA OutcomeView ==
    ASSUME NEW v \in Tab, NEW t \in Tabs, ViewInv(v, t, candidacy, talks),
           NEW e \in {"none", "network", "closed", "refused", "duplicate"},
           NEW s \in {"no", "insert", "stored"}
    PROVE  LET w == [v EXCEPT !.sending = s, !.error = e] IN
           w \in Tab /\ ViewInv(w, t, candidacy, talks)
<1>. DEFINE w == [v EXCEPT !.sending = s, !.error = e]
<1>1. /\ w \in Tab /\ w.rows = v.rows /\ w.talk = v.talk /\ w.listed = v.listed
      /\ w.page = v.page /\ w.engaged = v.engaged
  BY DEF Tab
<1>2. ViewInv(w, t, candidacy, talks)
  <2>. HIDE DEF w
  <2> QED BY <1>1, SameView
<1> QED BY <1>1, <1>2

\* So does a message that was not sent, which stays in the box.
LEMMA UnsentView ==
    ASSUME NEW v \in Tab, NEW e \in {"none", "network", "closed", "refused", "duplicate"}
    PROVE  /\ Unsent(v, e) \in Tab /\ (Unsent(v, e).draft = "empty" => v.draft = "empty")
           /\ \A t \in Tabs : ViewInv(v, t, candidacy, talks) => ViewInv(Unsent(v, e), t, candidacy, talks)
<1>1. PICK box : box = IF v.draft = "edited" THEN "typed" ELSE v.draft OBVIOUS
<1>2. box \in Box /\ (box = "empty" => v.draft = "empty") BY <1>1 DEF Tab, Box
<1>3. PICK w : w = [v EXCEPT !.sending = "no", !.error = e, !.draft = box] OBVIOUS
<1>4. w = Unsent(v, e) BY <1>1, <1>3 DEF Unsent
<1>5. /\ w \in Tab /\ w.draft = box /\ w.rows = v.rows /\ w.talk = v.talk /\ w.listed = v.listed
      /\ w.page = v.page /\ w.engaged = v.engaged
  BY <1>2, <1>3 DEF Tab
<1>6. \A t \in Tabs : ViewInv(v, t, candidacy, talks) => ViewInv(w, t, candidacy, talks) BY <1>5, SameView
<1> QED BY <1>2, <1>4, <1>5, <1>6

\* The composer touches its own page only.
LEMMA ComposerKeeps ==
    ASSUME IInv, NEW t \in Tabs, Type(t) \/ PressSend(t) \/ SendStep(t) \/ SendFails(t)
    PROVE  IInv'
<1>1. tab[t] \in Tab /\ ViewInv(tab[t], t, candidacy, talks) /\ faults \in Nat
  BY DEF IInv, TypeOK
<1>2. Pressed(t) \in Tab /\ ViewInv(Pressed(t), t, candidacy, talks) BY PressedView
<1>3. CASE Type(t)
  <2>1. PICK box \in Box : Show(t, [tab[t] EXCEPT !.draft = box])
    BY <1>3 DEF Type, Box
  <2>. DEFINE v == [tab[t] EXCEPT !.draft = box]
  <2>2. v \in Tab BY <1>1 DEF Tab
  <2>3. ViewInv(v, t, candidacy, talks) BY <1>1, <2>2, SameView DEF Tab
  <2> QED BY <1>1, <1>3, <2>1, <2>2, <2>3, PageStep DEF Type, calls
<1>4. CASE PressSend(t)
  <2>1. CASE CanSend(tab[t].talk.provider)
    <3>. DEFINE p == Pressed(t)
                v == [p EXCEPT !.sending = "insert"]
    <3>1. v \in Tab /\ ViewInv(v, t, candidacy, talks)
      <4>1. p \in Tab /\ ViewInv(p, t, candidacy, talks) BY <1>2
      <4>. HIDE DEF p
      <4>2. v \in Tab BY <4>1 DEF Tab
      <4> QED BY <4>1, <4>2, SameView DEF Tab
    <3>2. Show(t, v) /\ UNCHANGED <<server, calls, faults>> BY <1>4, <2>1 DEF PressSend
    <3>. HIDE DEF v, p
    <3> QED BY <1>1, <3>1, <3>2, PageStep
  <2>2. CASE ~CanSend(tab[t].talk.provider)
    <3>1. /\ Unsent(Pressed(t), "closed") \in Tab
          /\ ViewInv(Unsent(Pressed(t), "closed"), t, candidacy, talks)
      BY <1>2, UnsentView
    <3>2. Show(t, Unsent(Pressed(t), "closed")) /\ UNCHANGED <<server, calls, faults>>
      BY <1>4, <2>2 DEF PressSend
    <3> QED BY <1>1, <3>1, <3>2, PageStep
  <2> QED BY <2>1, <2>2
<1>5. CASE StoreMessage(t)
  <2>. DEFINE v == [tab[t] EXCEPT !.sending = "stored"]
  <2>1. v \in Tab BY <1>1 DEF Tab
  <2>2. ViewInv(v, t, candidacy, talks) BY <1>1, <2>1, SameView DEF Tab
  <2> QED BY <1>1, <1>5, <2>1, <2>2, PageStep DEF StoreMessage, calls
<1>6. CASE Sent(t)
  <2>1. NoComposer(tab[t]) \in Tab /\ ViewInv(NoComposer(tab[t]), t, candidacy, talks)
    BY <1>1, NoComposerType, SameView
  <2> QED BY <1>1, <1>6, <2>1, PageStep DEF Sent, calls
<1>7. CASE SendFails(t)
  <2>1. /\ Unsent(tab[t], "network") \in Tab
        /\ ViewInv(Unsent(tab[t], "network"), t, candidacy, talks)
    BY <1>1, UnsentView
  <2>2. faults' \in Nat BY <1>1, <1>7 DEF SendFails
  <2> QED BY <1>7, <2>1, <2>2, PageStep DEF SendFails
<1> QED BY <1>3, <1>4, <1>5, <1>6, <1>7 DEF SendStep

-----------------------------------------------------------------------------
(***************************************************************************)
(* The search, the clock and the request.                                  *)
(***************************************************************************)
\* A batch moves dispatches forward and keeps an answer that was given.
LEMMA BatchMoves ==
    ASSUME IInv, NEW new \in SUBSET Providers, Batch(new)
    PROVE  /\ candidacy' \in [Providers -> Status]
           /\ \A q \in Providers : Forward(candidacy[q], candidacy'[q])
<1>1. candidacy \in [Providers -> Status] BY DEF IInv, TypeOK
<1> QED BY <1>1 DEF Batch, Forward, Status

LEMMA TablesKeep ==
    ASSUME IInv,
           RunBatch \/ Cancel \/ \E q \in Providers : Lapse(q)
    PROVE  IInv'
<1>1. /\ {cancelled, match} \subseteq BOOLEAN /\ faults \in Nat
      /\ candidacy \in [Providers -> Status] /\ lapsed \subseteq Providers
      /\ talks \subseteq Talk /\ OnePerProvider(talks)
  BY DEF IInv, TypeOK
<1>2. CASE RunBatch
  <2>1. PICK new \in SUBSET Providers : Batch(new) BY <1>2 DEF RunBatch
  <2>2. /\ candidacy' \in [Providers -> Status]
        /\ \A q \in Providers : Forward(candidacy[q], candidacy'[q])
    BY <2>1, BatchMoves
  <2>3. UNCHANGED <<cancelled, match, lapsed, talks, tab, opening, refusing, faults>>
    BY <1>2 DEF RunBatch, calls
  <2>4. Evolves BY <2>2, <2>3 DEF Evolves
  <2> QED BY <1>1, <2>2, <2>3, <2>4, TabsSame, OpeningsSame, RefusalsSame, Assemble
<1>3. CASE Cancel
  <2>1. cancelled' = TRUE /\ UNCHANGED <<match, candidacy, lapsed, talks, tab, opening, refusing, faults>>
    BY <1>3 DEF Cancel, calls
  <2>2. Evolves BY <2>1 DEF Evolves, Forward
  <2> QED BY <1>1, <2>1, <2>2, TabsSame, OpeningsSame, RefusalsSame, Assemble
<1>4. ASSUME NEW q \in Providers, Lapse(q) PROVE IInv'
  <2>1. /\ lapsed' = lapsed \cup {q}
        /\ UNCHANGED <<cancelled, match, candidacy, talks, tab, opening, refusing, faults>>
    BY <1>4 DEF Lapse, calls
  <2>2. Evolves BY <2>1 DEF Evolves, Forward
  <2> QED BY <1>1, <2>1, <2>2, TabsSame, OpeningsSame, RefusalsSame, Assemble
<1> QED BY <1>2, <1>3, <1>4

LEMMA SearchKeeps ==
    ASSUME IInv, NEW t \in Tabs, StartSearch(t) \/ ExpandRadius(t)
    PROVE  IInv'
<1>1. /\ {cancelled, match} \subseteq BOOLEAN /\ faults \in Nat
      /\ candidacy \in [Providers -> Status] /\ lapsed \subseteq Providers
      /\ talks \subseteq Talk /\ OnePerProvider(talks)
  BY DEF IInv, TypeOK
<1>. DEFINE p == Pressed(t)
<1>2. p \in Tab /\ p.page = tab[t].page /\ ViewInv(p, t, candidacy, talks)
  <2>1. tab[t] \in Tab BY DEF IInv, TypeOK
  <2> QED BY <2>1, PressedView, PressedType
<1>3. CASE StartSearch(t)
  <2>1. UNCHANGED <<cancelled, candidacy, lapsed, talks, opening, refusing, faults>>
    BY <1>3 DEF StartSearch, calls
  <2>2. Evolves BY <2>1 DEF Evolves, Forward
  <2>3. PICK v \in Tab : Show(t, v) /\ ViewInv(v, t, candidacy, talks) /\ match' \in BOOLEAN
    <3>1. CASE cancelled /\ ~match
      <4>. DEFINE v == [p EXCEPT !.error = "refused"]
      <4>1. Show(t, v) /\ match' = match BY <1>3, <3>1 DEF StartSearch
      <4>. HIDE DEF p
      <4>2. v \in Tab BY <1>2 DEF Tab
      <4>3. ViewInv(v, t, candidacy, talks) BY <1>2, <4>2, SameView DEF Tab
      <4> QED BY <1>1, <4>1, <4>2, <4>3
    <3>2. CASE ~(cancelled /\ ~match)
      <4>. DEFINE v == [p EXCEPT !.started = TRUE]
      <4>1. Show(t, v) /\ match' = TRUE BY <1>3, <3>2 DEF StartSearch
      <4>. HIDE DEF p
      <4>2. v \in Tab BY <1>2 DEF Tab
      <4>3. ViewInv(v, t, candidacy, talks) BY <1>2, <4>2, SameView DEF Tab
      <4> QED BY <4>1, <4>2, <4>3
    <3> QED BY <3>1, <3>2
  <2>4. ViewInv(v, t, candidacy', talks') BY <2>2, <2>3, ViewFrame
  <2> QED BY <1>1, <2>1, <2>2, <2>3, <2>4, TabStep, OpeningsSame, RefusalsSame, Assemble
<1>4. CASE ExpandRadius(t)
  <2>1. PICK new \in SUBSET Providers : Batch(new) BY <1>4 DEF ExpandRadius
  <2>2. /\ candidacy' \in [Providers -> Status]
        /\ \A q \in Providers : Forward(candidacy[q], candidacy'[q])
    BY <2>1, BatchMoves
  <2>3. UNCHANGED <<cancelled, match, lapsed, talks, opening, refusing, faults>>
    BY <1>4 DEF ExpandRadius, calls
  <2>4. Evolves BY <2>2, <2>3 DEF Evolves
  <2>. DEFINE v == [p EXCEPT !.rows = candidacy']
  <2>5. Show(t, v) BY <1>4 DEF ExpandRadius
  <2>6. IsClient(t)
    <3>1. p.page = "search" BY <1>2, <1>4 DEF ExpandRadius
    <3>. HIDE DEF p
    <3> QED BY <1>2, <3>1 DEF ViewInv, PageFits
  <2>7. v \in Tab /\ ViewInv(v, t, candidacy', talks')
    <3>. HIDE DEF p
    <3>1. v \in Tab BY <1>2, <2>2 DEF Tab
    <3>2. ViewInv(p, t, candidacy', talks') BY <1>2, <2>4, ViewFrame
    <3> QED BY <1>2, <2>6, <3>1, <3>2
        DEF ViewInv, RowsExist, TalkExists, ListedExist, PageFits, EngagedWasViewed, Tab
  <2>. HIDE DEF v, p
  <2> QED BY <1>1, <2>2, <2>3, <2>4, <2>5, <2>7, TabStep, OpeningsSame, RefusalsSame, Assemble
<1> QED BY <1>3, <1>4

-----------------------------------------------------------------------------
(***************************************************************************)
(* Opening a conversation.                                                 *)
(***************************************************************************)
Steps == {"none", "candidacy", "loadViewed", "saveViewed", "find", "create", "winner", "view"}

\* An error told on the page keeps what it holds.
LEMMA ErrorView ==
    ASSUME NEW v \in Tab, NEW t \in Tabs, ViewInv(v, t, candidacy, talks),
           NEW e \in {"none", "network", "closed", "refused", "duplicate"}
    PROVE  [v EXCEPT !.error = e] \in Tab /\ ViewInv([v EXCEPT !.error = e], t, candidacy, talks)
<1>. DEFINE w == [v EXCEPT !.error = e]
<1>1. /\ w \in Tab /\ w.rows = v.rows /\ w.talk = v.talk /\ w.listed = v.listed
      /\ w.page = v.page /\ w.engaged = v.engaged
  BY DEF Tab
<1>2. ViewInv(w, t, candidacy, talks)
  <2>. HIDE DEF w
  <2> QED BY <1>1, SameView
<1> QED BY <1>1, <1>2

\* The records of a call.
LEMMA StepRecord ==
    ASSUME NEW o \in Open, NEW s \in Steps
    PROVE  [o EXCEPT !.step = s] \in Open /\ [o EXCEPT !.step = s].step = s
BY DEF Open, Steps

LEMMA FlagRecord ==
    ASSUME NEW o \in Open, NEW s \in Steps, NEW b \in BOOLEAN
    PROVE  /\ [o EXCEPT !.step = s, !.closed = b] \in Open
           /\ [o EXCEPT !.step = s, !.closed = b].step = s
           /\ [o EXCEPT !.step = s, !.live = b] \in Open
           /\ [o EXCEPT !.step = s, !.live = b].step = s
BY DEF Open, Steps

Viewing(o, c) == [o EXCEPT !.step = "view", !.talk = c]

LEMMA TalkRecord ==
    ASSUME NEW o \in Open, NEW c \in Talk
    PROVE  Viewing(o, c) \in Open /\ Viewing(o, c).step = "view" /\ Viewing(o, c).talk = c
BY DEF Open, Viewing

\* A step of a call replaces its record.
LEMMA StepIs ==
    ASSUME NEW t \in Tabs, NEW q \in Providers, NEW s \in Steps, Step(t, q, s),
           opening \in [Tabs -> [Providers -> Open]]
    PROVE  /\ [opening[t][q] EXCEPT !.step = s] \in Open
           /\ [opening[t][q] EXCEPT !.step = s].step = s
           /\ opening' = [opening EXCEPT ![t][q] = [opening[t][q] EXCEPT !.step = s]]
<1>1. opening[t][q] \in Open OBVIOUS
<1> QED BY <1>1, StepRecord, Zenon DEF Step

\* What the tables still owe when a call changes only itself and its page.
LEMMA CallStep ==
    ASSUME IInv, Evolves, faults' \in Nat, cancelled' = cancelled, match' = match, lapsed' = lapsed,
           candidacy' \in [Providers -> Status], talks' \subseteq Talk, OnePerProvider(talks'),
           refusing' = refusing,
           NEW t \in Tabs, NEW q \in Providers, NEW o \in Open,
           opening' = [opening EXCEPT ![t][q] = o], OpenInv(o, t, q, candidacy', talks'),
           \/ tab' = tab
           \/ \E v \in Tab : Show(t, v) /\ ViewInv(v, t, candidacy', talks')
    PROVE  IInv'
<1>1. {cancelled', match'} \subseteq BOOLEAN /\ lapsed' \subseteq Providers BY DEF IInv, TypeOK
<1>2. tab' \in [Tabs -> Tab] /\ \A u \in Tabs : ViewInv(tab'[u], u, candidacy', talks')
  BY TabsSame, TabStep
<1> QED BY <1>1, <1>2, OpenOne, RefusalsSame, Assemble

\* A call that is over tells its outcome and leaves no trace.
LEMMA RefuseKeeps ==
    ASSUME IInv, NEW t \in Tabs, NEW q \in Providers,
           NEW e \in {"none", "network", "closed", "refused", "duplicate"},
           Refuse(t, q, e), UNCHANGED <<server, refusing>>, faults' \in Nat
    PROVE  IInv'
<1>1. tab[t] \in Tab /\ ViewInv(tab[t], t, candidacy, talks) BY DEF IInv, TypeOK
<1>2. /\ Evolves /\ OnePerProvider(talks') /\ candidacy' \in [Providers -> Status]
      /\ talks' \subseteq Talk
  BY ServerSame
<1>3. cancelled' = cancelled /\ match' = match /\ lapsed' = lapsed BY DEF server, search
<1>4. PICK v \in Tab : Show(t, v) /\ ViewInv(v, t, candidacy, talks)
  BY <1>1, ErrorView DEF Refuse
<1>5. ViewInv(v, t, candidacy', talks') BY <1>2, <1>4, ViewFrame
<1>6. NoOpen \in Open /\ OpenInv(NoOpen, t, q, candidacy', talks')
  BY DEF NoOpen, Open, OpenInv
<1> QED BY <1>2, <1>3, <1>4, <1>5, <1>6, CallStep DEF Refuse

\* A call of tab t about q that takes conversation c.
LEMMA TakeIs ==
    ASSUME NEW t \in Tabs, NEW q \in Providers, NEW c, Take(t, q, c)
    PROVE  opening' = [opening EXCEPT ![t][q] = Viewing(opening[t][q], c)]
BY Zenon DEF Take, Viewing

LEMMA PressChatKeeps ==
    ASSUME IInv, NEW t \in Tabs, NEW q \in Providers, PressChat(t, q)
    PROVE  IInv'
<1>1. /\ opening \in [Tabs -> [Providers -> Open]] /\ tab[t] \in Tab /\ faults \in Nat
      /\ ViewInv(tab[t], t, candidacy, talks) /\ cancelled \in BOOLEAN
  BY DEF IInv, TypeOK
<1>2. UNCHANGED <<server, refusing, faults>> /\ Show(t, Pressed(t)) BY <1>1 DEF PressChat
<1>3. /\ Evolves /\ OnePerProvider(talks') /\ candidacy' \in [Providers -> Status]
      /\ talks' \subseteq Talk
  BY <1>2, ServerSame
<1>. DEFINE o == [opening[t][q] EXCEPT !.step = "candidacy", !.closed = cancelled]
<1>4. o \in Open /\ o.step = "candidacy"
  <2>1. opening[t][q] \in Open /\ "candidacy" \in Steps BY <1>1 DEF Steps
  <2> QED BY <1>1, <2>1, FlagRecord, Zenon
<1>5. opening' = [opening EXCEPT ![t][q] = o] BY <1>1 DEF PressChat
<1>6. tab[t].rows[q] # "NONE" BY DEF PressChat
<1>7. candidacy[q] # "NONE" /\ (IsClient(t) \/ q = User[t]) BY <1>1, <1>6 DEF ViewInv, RowsExist
<1>8. OpenInv(o, t, q, candidacy', talks')
  <2>1. candidacy' = candidacy BY <1>2 DEF server, search
  <2>. HIDE DEF o
  <2> QED BY <1>4, <1>7, <2>1 DEF OpenInv
<1>9. Pressed(t) \in Tab /\ ViewInv(Pressed(t), t, candidacy', talks')
  BY <1>3, PressedView, ViewFrame
<1>. HIDE DEF o
<1> QED BY <1>1, <1>2, <1>3, <1>4, <1>5, <1>8, <1>9, CallStep DEF server, search

LEMMA ResolveKeeps ==
    ASSUME IInv, NEW t \in Tabs, NEW q \in Providers, ResolveCandidacy(t, q)
    PROVE  IInv'
<1>1. opening \in [Tabs -> [Providers -> Open]] /\ faults \in Nat BY DEF IInv, TypeOK
<1>2. UNCHANGED <<server, tab, refusing, faults>> BY DEF ResolveCandidacy
<1>3. /\ Evolves /\ OnePerProvider(talks') /\ candidacy' \in [Providers -> Status]
      /\ talks' \subseteq Talk
  BY <1>2, ServerSame
<1>. DEFINE s == IF IsClient(t) THEN "find" ELSE "loadViewed"
            l == Live(q)
            o == [opening[t][q] EXCEPT !.step = s, !.live = l]
<1>4. s \in Steps /\ s \in {"find", "loadViewed"} /\ (~IsClient(t) => s = "loadViewed") BY DEF Steps
<1>5. l \in BOOLEAN BY DEF Live
<1>6. opening' = [opening EXCEPT ![t][q] = o] BY <1>1 DEF ResolveCandidacy
<1>7. o \in Open /\ o.step = s
  <2>. HIDE DEF s, l
  <2>1. opening[t][q] \in Open BY <1>1
  <2> QED BY <1>4, <1>5, <2>1, FlagRecord, Zenon
<1>8. opening[t][q].step # "none" /\ OpenInv(opening[t][q], t, q, candidacy, talks)
  BY DEF IInv, ResolveCandidacy
<1>9. OpenInv(o, t, q, candidacy', talks')
  <2>1. candidacy' = candidacy BY <1>2 DEF server, search
  <2>. HIDE DEF o, s
  <2> QED BY <1>4, <1>7, <1>8, <2>1 DEF OpenInv
<1>. HIDE DEF o
<1> QED BY <1>1, <1>2, <1>3, <1>6, <1>7, <1>9, CallStep DEF server, search

\* A provider who goes on has been marked as a viewer, or was one.
LEMMA LoadViewedKeeps ==
    ASSUME IInv, NEW t \in Tabs, NEW q \in Providers, LoadViewed(t, q)
    PROVE  IInv'
<1>1. opening \in [Tabs -> [Providers -> Open]] /\ faults \in Nat BY DEF IInv, TypeOK
<1>2. UNCHANGED <<server, tab, refusing, faults>> BY DEF LoadViewed
<1>3. /\ Evolves /\ OnePerProvider(talks') /\ candidacy' \in [Providers -> Status]
      /\ talks' \subseteq Talk
  BY <1>2, ServerSame
<1>. DEFINE s == IF candidacy[q] = "NOTIFIED" THEN "saveViewed" ELSE "find"
            o == [opening[t][q] EXCEPT !.step = s]
<1>4. /\ s \in Steps /\ s \in {"saveViewed", "find"}
      /\ s = "find" => candidacy[q] # "NOTIFIED"
  BY DEF Steps
<1>5. Step(t, q, s) BY DEF LoadViewed
<1>6. o \in Open /\ opening' = [opening EXCEPT ![t][q] = o] /\ o.step = s
  <2>. HIDE DEF s
  <2> QED BY <1>1, <1>4, <1>5, StepIs
<1>7. opening[t][q].step # "none" /\ OpenInv(opening[t][q], t, q, candidacy, talks)
  BY DEF IInv, LoadViewed
<1>8. OpenInv(o, t, q, candidacy', talks')
  <2>1. candidacy' = candidacy BY <1>2 DEF server, search
  <2>. HIDE DEF o, s
  <2> QED BY <1>4, <1>6, <1>7, <2>1 DEF OpenInv
<1>. HIDE DEF o
<1> QED BY <1>1, <1>2, <1>3, <1>6, <1>8, CallStep DEF server, search

LEMMA SaveViewedKeeps ==
    ASSUME IInv, NEW t \in Tabs, NEW q \in Providers, SaveViewed(t, q)
    PROVE  IInv'
<1>1. /\ opening \in [Tabs -> [Providers -> Open]] /\ faults \in Nat
      /\ candidacy \in [Providers -> Status] /\ talks \subseteq Talk /\ OnePerProvider(talks)
  BY DEF IInv, TypeOK
<1>2. UNCHANGED <<cancelled, match, lapsed, talks, tab, refusing, faults>> BY DEF SaveViewed
<1>3. opening[t][q].step # "none" /\ OpenInv(opening[t][q], t, q, candidacy, talks)
  BY DEF IInv, SaveViewed
<1>4. candidacy' = [candidacy EXCEPT ![q] = "VIEWED"] BY DEF SaveViewed, Viewed
<1>5. candidacy' \in [Providers -> Status] BY <1>1, <1>4 DEF Status
<1>6. Evolves BY <1>1, <1>2, <1>3, <1>4 DEF Evolves, Forward, OpenInv
<1>. DEFINE o == [opening[t][q] EXCEPT !.step = "find"]
<1>7. o \in Open /\ opening' = [opening EXCEPT ![t][q] = o] /\ o.step = "find"
  <2>1. Step(t, q, "find") /\ "find" \in Steps BY DEF SaveViewed, Steps
  <2> QED BY <1>1, <2>1, StepIs
<1>8. OpenInv(o, t, q, candidacy', talks')
  <2>1. candidacy'[q] = "VIEWED" BY <1>1, <1>4
  <2>. HIDE DEF o
  <2> QED BY <1>3, <1>7, <2>1 DEF OpenInv
<1>. HIDE DEF o
<1> QED BY <1>1, <1>2, <1>5, <1>6, <1>7, <1>8, CallStep

LEMMA FindTalkKeeps ==
    ASSUME IInv, NEW t \in Tabs, NEW q \in Providers, FindTalk(t, q)
    PROVE  IInv'
<1>1. opening \in [Tabs -> [Providers -> Open]] /\ faults \in Nat /\ talks \subseteq Talk
  BY DEF IInv, TypeOK
<1>2. UNCHANGED <<server, refusing, faults>> BY DEF FindTalk
<1>3. /\ Evolves /\ OnePerProvider(talks') /\ candidacy' \in [Providers -> Status]
      /\ talks' \subseteq Talk /\ candidacy' = candidacy /\ talks' = talks
  BY <1>2, ServerSame DEF server, search
<1>4. opening[t][q].step = "find" /\ OpenInv(opening[t][q], t, q, candidacy, talks)
  BY DEF IInv, FindTalk
<1>5. CASE \E c \in talks : c.provider = q
  <2>1. Of(q) \in talks /\ Of(q).provider = q BY <1>5 DEF Of
  <2>2. Take(t, q, Of(q)) BY <1>5 DEF FindTalk
  <2>. DEFINE o == Viewing(opening[t][q], Of(q))
  <2>3. /\ o \in Open /\ opening' = [opening EXCEPT ![t][q] = o]
        /\ o.step = "view" /\ o.talk = Of(q)
    <3>1. Of(q) \in Talk /\ opening[t][q] \in Open BY <1>1, <2>1
    <3>2. opening' = [opening EXCEPT ![t][q] = o] BY <2>2, TakeIs
    <3> QED BY <3>1, <3>2, TalkRecord
  <2>4. OpenInv(o, t, q, candidacy', talks')
    <3>. HIDE DEF o
    <3> QED BY <1>3, <1>4, <2>1, <2>3 DEF OpenInv
  <2>5. tab' = tab BY <2>2 DEF Take
  <2>. HIDE DEF o
  <2> QED BY <1>1, <1>2, <1>3, <2>3, <2>4, <2>5, CallStep DEF server, search
<1>6. CASE ~(\E c \in talks : c.provider = q) /\ (opening[t][q].closed \/ ~opening[t][q].live)
  <2>1. Refuse(t, q, "closed") BY <1>6 DEF FindTalk
  <2> QED BY <1>1, <1>2, <2>1, RefuseKeeps
<1>7. CASE ~(\E c \in talks : c.provider = q) /\ ~(opening[t][q].closed \/ ~opening[t][q].live)
  <2>1. Step(t, q, "create") /\ tab' = tab BY <1>7 DEF FindTalk
  <2>. DEFINE o == [opening[t][q] EXCEPT !.step = "create"]
  <2>2. "create" \in Steps BY DEF Steps
  <2>3. o \in Open /\ opening' = [opening EXCEPT ![t][q] = o] /\ o.step = "create"
    BY <1>1, <2>1, <2>2, StepIs
  <2>4. OpenInv(o, t, q, candidacy', talks')
    <3>. HIDE DEF o
    <3> QED BY <1>3, <1>4, <2>3 DEF OpenInv
  <2>. HIDE DEF o
  <2> QED BY <1>1, <1>2, <1>3, <2>1, <2>3, <2>4, CallStep DEF server, search
<1> QED BY <1>5, <1>6, <1>7

\* The unique index keeps the second conversation of a provider out.
LEMMA CreateTalkKeeps ==
    ASSUME IInv, NEW t \in Tabs, NEW q \in Providers, CreateTalk(t, q)
    PROVE  IInv'
<1>. DEFINE c == [id |-> Cardinality(talks) + 1, provider |-> q]
<1>1. /\ opening \in [Tabs -> [Providers -> Open]] /\ faults \in Nat /\ talks \subseteq Talk
      /\ OnePerProvider(talks) /\ candidacy \in [Providers -> Status]
  BY DEF IInv, TypeOK
<1>2. UNCHANGED <<cancelled, match, candidacy, lapsed, refusing, faults>> BY DEF CreateTalk, search
<1>3. opening[t][q].step = "create" /\ OpenInv(opening[t][q], t, q, candidacy, talks)
  BY DEF IInv, CreateTalk
<1>4. CASE Indexed(q)
  <2>1. Step(t, q, "winner") /\ UNCHANGED <<tab, talks>> BY <1>4 DEF CreateTalk, LostRace
  <2>2. Evolves BY <1>2, <2>1 DEF Evolves, Forward
  <2>. DEFINE o == [opening[t][q] EXCEPT !.step = "winner"]
  <2>3. "winner" \in Steps BY DEF Steps
  <2>4. o \in Open /\ opening' = [opening EXCEPT ![t][q] = o] /\ o.step = "winner"
    BY <1>1, <2>1, <2>3, StepIs
  <2>5. OpenInv(o, t, q, candidacy', talks')
    <3>. HIDE DEF o
    <3> QED BY <1>2, <1>3, <1>4, <2>1, <2>4 DEF OpenInv, Indexed
  <2>. HIDE DEF o
  <2> QED BY <1>1, <1>2, <2>1, <2>2, <2>4, <2>5, CallStep
<1>5. CASE ~Indexed(q)
  <2>1. c \in Talk /\ talks' = talks \cup {c} /\ Take(t, q, c) BY <1>5 DEF CreateTalk
  <2>2. c.provider = q OBVIOUS
  <2>. HIDE DEF c
  <2>3. talks' \subseteq Talk /\ OnePerProvider(talks')
    BY <1>1, <1>5, <2>1, <2>2 DEF OnePerProvider, Indexed
  <2>4. Evolves BY <1>2, <2>1 DEF Evolves, Forward
  <2>. DEFINE o == Viewing(opening[t][q], c)
  <2>5. /\ o \in Open /\ opening' = [opening EXCEPT ![t][q] = o]
        /\ o.step = "view" /\ o.talk = c
    <3>1. opening[t][q] \in Open BY <1>1
    <3>2. opening' = [opening EXCEPT ![t][q] = o] BY <2>1, TakeIs
    <3> QED BY <2>1, <3>1, <3>2, TalkRecord
  <2>6. OpenInv(o, t, q, candidacy', talks')
    <3>. HIDE DEF o
    <3> QED BY <1>2, <1>3, <2>1, <2>2, <2>5 DEF OpenInv
  <2>7. tab' = tab BY <2>1 DEF Take
  <2>. HIDE DEF o
  <2> QED BY <1>1, <1>2, <2>3, <2>4, <2>5, <2>6, <2>7, CallStep
<1> QED BY <1>4, <1>5

LEMMA FindWinnerKeeps ==
    ASSUME IInv, NEW t \in Tabs, NEW q \in Providers, FindWinner(t, q)
    PROVE  IInv'
<1>1. opening \in [Tabs -> [Providers -> Open]] /\ faults \in Nat /\ talks \subseteq Talk
  BY DEF IInv, TypeOK
<1>2. UNCHANGED <<server, refusing, faults>> BY DEF FindWinner
<1>3. /\ Evolves /\ OnePerProvider(talks') /\ candidacy' \in [Providers -> Status]
      /\ talks' \subseteq Talk /\ candidacy' = candidacy /\ talks' = talks
  BY <1>2, ServerSame DEF server, search
<1>4. opening[t][q].step = "winner" /\ OpenInv(opening[t][q], t, q, candidacy, talks)
  BY DEF IInv, FindWinner
<1>5. \E c \in talks : c.provider = q BY <1>4 DEF OpenInv
<1>6. Of(q) \in talks /\ Of(q).provider = q BY <1>5 DEF Of
<1>7. Take(t, q, Of(q)) BY DEF FindWinner
<1>. DEFINE o == Viewing(opening[t][q], Of(q))
<1>8. /\ o \in Open /\ opening' = [opening EXCEPT ![t][q] = o]
      /\ o.step = "view" /\ o.talk = Of(q)
  <2>1. Of(q) \in Talk /\ opening[t][q] \in Open BY <1>1, <1>6
  <2>2. opening' = [opening EXCEPT ![t][q] = o] BY <1>7, TakeIs
  <2> QED BY <2>1, <2>2, TalkRecord
<1>9. OpenInv(o, t, q, candidacy', talks')
  <2>. HIDE DEF o
  <2> QED BY <1>3, <1>4, <1>6, <1>8 DEF OpenInv
<1>10. tab' = tab BY <1>7 DEF Take
<1>. HIDE DEF o
<1> QED BY <1>1, <1>2, <1>3, <1>8, <1>9, <1>10, CallStep DEF server, search

\* The page that opens tells whether its user may write: a provider who may
\* was marked as a viewer, so that the clock cannot close the dispatch.
LEMMA ShowTalkKeeps ==
    ASSUME IInv, NEW t \in Tabs, NEW q \in Providers, ShowTalk(t, q)
    PROVE  IInv'
<1>. DEFINE c == opening[t][q].talk
            w == Screen(tab[t], c)
            can == CanSend(q)
            v == [w EXCEPT !.engaged = can]
<1>1. /\ opening \in [Tabs -> [Providers -> Open]] /\ faults \in Nat /\ talks \subseteq Talk
      /\ tab[t] \in Tab /\ ViewInv(tab[t], t, candidacy, talks)
      /\ candidacy \in [Providers -> Status] /\ cancelled \in BOOLEAN
  BY DEF IInv, TypeOK
<1>2. UNCHANGED <<server, refusing, faults>> BY DEF ShowTalk
<1>3. /\ Evolves /\ OnePerProvider(talks') /\ candidacy' \in [Providers -> Status]
      /\ talks' \subseteq Talk /\ candidacy' = candidacy /\ talks' = talks
  BY <1>2, ServerSame DEF server, search
<1>4. opening[t][q].step = "view" /\ OpenInv(opening[t][q], t, q, candidacy, talks)
  BY DEF IInv, ShowTalk
<1>5. /\ c \in talks /\ c.provider = q /\ (IsClient(t) \/ q = User[t])
      /\ (~IsClient(t) => candidacy[q] # "NOTIFIED")
  BY <1>4 DEF OpenInv
<1>6. c \in Talk BY <1>1, <1>5
<1>7. /\ w \in Tab /\ w.page = "talk" /\ w.talk = c
      /\ w = tab[t] \/ (w.rows = [p \in Providers |-> "NONE"] /\ w.listed = {})
  <2>. HIDE DEF c
  <2> QED BY <1>1, <1>6, ScreenType
<1>8. can \in BOOLEAN /\ (can /\ ~IsClient(t) => candidacy[q] = "VIEWED")
  BY <1>1, <1>5 DEF CanSend, Live
<1>9. /\ v \in Tab /\ v.page = "talk" /\ v.talk = c /\ v.engaged = can
      /\ v.rows = w.rows /\ v.listed = w.listed
  <2>. HIDE DEF w, can, c
  <2> QED BY <1>7, <1>8 DEF Tab
<1>10. ViewInv(v, t, candidacy', talks')
  <2>. HIDE DEF v, w, can, c
  <2>1. RowsExist(v, t, candidacy) /\ ListedExist(v, t, talks)
    BY <1>1, <1>7, <1>9 DEF ViewInv, RowsExist, ListedExist
  <2>2. TalkExists(v, t, talks) BY <1>5, <1>9 DEF TalkExists
  <2>3. PageFits(v, t) BY <1>9 DEF PageFits
  <2>4. EngagedWasViewed(v, t, candidacy) BY <1>5, <1>8, <1>9 DEF EngagedWasViewed
  <2> QED BY <1>3, <2>1, <2>2, <2>3, <2>4 DEF ViewInv
<1>11. Show(t, v) /\ opening' = [opening EXCEPT ![t][q] = NoOpen] BY DEF ShowTalk
<1>12. NoOpen \in Open /\ OpenInv(NoOpen, t, q, candidacy', talks')
  BY DEF NoOpen, Open, OpenInv
<1>. HIDE DEF v
<1> QED BY <1>1, <1>2, <1>3, <1>9, <1>10, <1>11, <1>12, CallStep DEF server, search

LEMMA OpenFailsKeeps ==
    ASSUME IInv, NEW t \in Tabs, NEW q \in Providers, OpenFails(t, q)
    PROVE  IInv'
<1>1. faults' \in Nat BY DEF IInv, TypeOK, OpenFails
<1> QED BY <1>1, RefuseKeeps DEF OpenFails

LEMMA OpenStepKeeps ==
    ASSUME IInv, NEW t \in Tabs, NEW q \in Providers, OpenStep(t, q)
    PROVE  IInv'
BY ResolveKeeps, LoadViewedKeeps, SaveViewedKeeps, FindTalkKeeps, CreateTalkKeeps,
   FindWinnerKeeps, ShowTalkKeeps DEF OpenStep

-----------------------------------------------------------------------------
(***************************************************************************)
(* Declining.                                                              *)
(***************************************************************************)
Refusals == {"none", "save", "refresh"}

\* The refusal in progress of one tab changes.
LEMMA RefusalStep ==
    ASSUME IInv, Evolves, NEW t \in Tabs, NEW r \in Refusals,
           refusing' = [refusing EXCEPT ![t] = r], RefuseInv(r, t, candidacy')
    PROVE  /\ refusing' \in [Tabs -> {"none", "save", "refresh"}]
           /\ \A u \in Tabs : RefuseInv(refusing'[u], u, candidacy')
<1>1. refusing \in [Tabs -> Refusals] BY DEF IInv, TypeOK, Refusals
<1>2. ASSUME NEW u \in Tabs PROVE RefuseInv(refusing'[u], u, candidacy')
  <2>1. CASE u = t BY <2>1, <1>1
  <2>2. CASE u # t
    <3>1. refusing'[u] = refusing[u] BY <2>2, <1>1
    <3>2. RefuseInv(refusing[u], u, candidacy) BY DEF IInv
    <3> QED BY <3>1, <3>2, KnownStaysKnown, OwnIsProvider DEF RefuseInv
  <2> QED BY <2>1, <2>2
<1> QED BY <1>1, <1>2 DEF Refusals

LEMMA DeclineKeeps ==
    ASSUME IInv, NEW t \in Tabs, PressDecline(t) \/ DeclineStep(t) \/ DeclineFails(t)
    PROVE  IInv'
<1>1. /\ {cancelled, match} \subseteq BOOLEAN /\ faults \in Nat /\ lapsed \subseteq Providers
      /\ candidacy \in [Providers -> Status] /\ talks \subseteq Talk /\ OnePerProvider(talks)
      /\ tab[t] \in Tab /\ ViewInv(tab[t], t, candidacy, talks)
      /\ RefuseInv(refusing[t], t, candidacy) /\ refusing \in [Tabs -> Refusals]
  BY DEF IInv, TypeOK, Refusals
<1>2. CASE PressDecline(t)
  <2>1. UNCHANGED <<cancelled, match, candidacy, lapsed, talks, opening, faults>>
    BY <1>2 DEF PressDecline, server, search
  <2>2. Evolves BY <2>1 DEF Evolves, Forward
  <2>3. ~IsClient(t) BY <1>1, <1>2 DEF PressDecline, ViewInv, PageFits
  <2>4. User[t] \in Providers BY <2>3, OwnIsProvider
  <2>5. candidacy[User[t]] # "NONE" BY <1>1, <1>2, <2>4 DEF PressDecline, ViewInv, RowsExist
  <2>6. Pressed(t) \in Tab /\ ViewInv(Pressed(t), t, candidacy, talks) BY PressedView
  <2>7. PICK v \in Tab : Show(t, v) /\ ViewInv(v, t, candidacy', talks')
    <3>1. [Pressed(t) EXCEPT !.error = "refused"] \in Tab
          /\ ViewInv([Pressed(t) EXCEPT !.error = "refused"], t, candidacy, talks)
      BY <2>6, ErrorView
    <3>2. Show(t, [Pressed(t) EXCEPT !.error = "refused"]) \/ Show(t, Pressed(t))
      BY <1>2, Zenon DEF PressDecline
    <3> QED BY <2>2, <2>6, <3>1, <3>2, ViewFrame
  <2>8. PICK r \in Refusals : refusing' = [refusing EXCEPT ![t] = r] /\ RefuseInv(r, t, candidacy')
    <3>1. CASE refusing' = refusing
      <4>1. refusing' = [refusing EXCEPT ![t] = refusing[t]] BY <1>1, <3>1
      <4>2. refusing[t] \in Refusals BY <1>1
      <4> QED BY <1>1, <2>1, <4>1, <4>2
    <3>2. CASE refusing' = [refusing EXCEPT ![t] = "save"]
      BY <2>1, <2>3, <2>5, <3>2 DEF RefuseInv, Refusals
    <3> QED BY <1>2, <3>1, <3>2 DEF PressDecline
  <2> QED BY <1>1, <2>1, <2>2, <2>7, <2>8, TabStep, RefusalStep, OpeningsSame, Assemble
<1>3. CASE SaveDeclined(t)
  <2>1. UNCHANGED <<cancelled, match, lapsed, talks, tab, opening, faults>> BY <1>3 DEF SaveDeclined
  <2>2. ~IsClient(t) /\ candidacy[User[t]] # "NONE" BY <1>1, <1>3 DEF SaveDeclined, RefuseInv
  <2>3. User[t] \in Providers BY <2>2, OwnIsProvider
  <2>4. candidacy' = [candidacy EXCEPT ![User[t]] = "DECLINED"] BY <1>3 DEF SaveDeclined
  <2>5. candidacy' \in [Providers -> Status] /\ candidacy'[User[t]] # "NONE"
    BY <1>1, <2>3, <2>4 DEF Status
  <2>6. Evolves BY <1>1, <2>1, <2>2, <2>3, <2>4 DEF Evolves, Forward
  <2>7. refusing' = [refusing EXCEPT ![t] = "refresh"] /\ RefuseInv("refresh", t, candidacy')
    BY <1>3, <2>2, <2>5 DEF SaveDeclined, RefuseInv
  <2>8. "refresh" \in Refusals BY DEF Refusals
  <2> QED BY <1>1, <2>1, <2>5, <2>6, <2>7, <2>8, TabsSame, RefusalStep, OpeningsSame, Assemble
<1>4. CASE Refresh(t)
  <2>1. UNCHANGED <<cancelled, match, candidacy, lapsed, talks, opening, faults>>
    BY <1>4 DEF Refresh, server, search
  <2>2. Evolves BY <2>1 DEF Evolves, Forward
  <2>3. refusing' = [refusing EXCEPT ![t] = "none"] /\ "none" \in Refusals
        /\ RefuseInv("none", t, candidacy')
    BY <1>4 DEF Refresh, Refusals, RefuseInv
  <2>4. tab' \in [Tabs -> Tab] /\ \A u \in Tabs : ViewInv(tab'[u], u, candidacy', talks')
    <3>1. CASE tab[t].page = "inbox"
      <4>. DEFINE v == [tab[t] EXCEPT !.rows = Answerable(t)]
      <4>1. v \in Tab BY <1>1 DEF Tab, Answerable, Status
      <4>2. ViewInv(v, t, candidacy, talks)
        BY <1>1 DEF ViewInv, RowsExist, TalkExists, ListedExist, PageFits, EngagedWasViewed,
                    Tab, Answerable
      <4>3. Show(t, v) BY <1>4, <3>1 DEF Refresh
      <4>. HIDE DEF v
      <4> QED BY <2>2, <4>1, <4>2, <4>3, ViewFrame, TabStep
    <3>2. CASE tab[t].page # "inbox"
      BY <1>4, <2>2, <3>2, TabsSame DEF Refresh
    <3> QED BY <3>1, <3>2
  <2> QED BY <1>1, <2>1, <2>2, <2>3, <2>4, RefusalStep, OpeningsSame, Assemble
<1>5. CASE DeclineFails(t)
  <2>1. UNCHANGED <<cancelled, match, candidacy, lapsed, talks, tab, opening>> /\ faults' \in Nat
    BY <1>1, <1>5 DEF DeclineFails, server, search
  <2>2. Evolves BY <2>1 DEF Evolves, Forward
  <2>3. refusing' = [refusing EXCEPT ![t] = "none"] /\ "none" \in Refusals
        /\ RefuseInv("none", t, candidacy')
    BY <1>5 DEF DeclineFails, Refusals, RefuseInv
  <2> QED BY <1>1, <2>1, <2>2, <2>3, TabsSame, RefusalStep, OpeningsSame, Assemble
<1> QED BY <1>2, <1>3, <1>4, <1>5 DEF DeclineStep

-----------------------------------------------------------------------------
(***************************************************************************)
(* The invariant, and what follows from it.                                *)
(***************************************************************************)
LEMMA InitInv == Init => IInv
<1> SUFFICES ASSUME Init PROVE IInv
  OBVIOUS
<1>1. TypeOK
  <2>1. candidacy \in [Providers -> Status] BY DEF Init, Status
  <2>2. tab \in [Tabs -> Tab] BY MountedType DEF Init, Pages
  <2>3. NoOpen \in Open BY DEF NoOpen, Open
  <2>4. opening \in [Tabs -> [Providers -> Open]] BY <2>3 DEF Init
  <2> QED BY <2>1, <2>2, <2>4 DEF Init, TypeOK
<1>2. OnePerProvider(talks) BY DEF Init, OnePerProvider
<1>3. ASSUME NEW t \in Tabs PROVE ViewInv(tab[t], t, candidacy, talks)
  <2>1. CASE IsClient(t)
    <3>1. tab[t] = Mounted("search", 0) BY <2>1 DEF Init
    <3> QED BY <2>1, <3>1, FreshView DEF Pages
  <2>2. CASE ~IsClient(t)
    <3>1. tab[t] = Mounted("inbox", 0) BY <2>2 DEF Init
    <3> QED BY <2>2, <3>1, FreshView DEF Pages
  <2> QED BY <2>1, <2>2
<1>4. \A t \in Tabs : RefuseInv(refusing[t], t, candidacy) BY DEF Init, RefuseInv
<1>5. \A t \in Tabs, q \in Providers : OpenInv(opening[t][q], t, q, candidacy, talks)
  BY DEF Init, NoOpen, OpenInv
<1> QED BY <1>1, <1>2, <1>3, <1>4, <1>5 DEF IInv

LEMMA NextKeeps == IInv /\ [Next]_vars => IInv'
<1> SUFFICES ASSUME IInv, [Next]_vars PROVE IInv'
  OBVIOUS
<1>1. CASE RunBatch \/ Cancel \/ \E q \in Providers : Lapse(q)
  BY <1>1, TablesKeep
<1>2. ASSUME NEW t \in Tabs, UserStep(t) PROVE IInv'
  BY <1>2, SearchKeeps, NavigationKeeps, DeclineKeeps, ComposerKeeps, PressChatKeeps DEF UserStep
<1>3. ASSUME NEW t \in Tabs, Query(t) PROVE IInv' BY <1>3, QueryKeeps
<1>4. ASSUME NEW t \in Tabs, DeclineStep(t) PROVE IInv' BY <1>4, DeclineKeeps
<1>5. ASSUME NEW t \in Tabs, SendStep(t) PROVE IInv' BY <1>5, ComposerKeeps
<1>6. ASSUME NEW t \in Tabs, Fails(t) PROVE IInv'
  BY <1>6, NavigationKeeps, DeclineKeeps, ComposerKeeps, OpenFailsKeeps DEF Fails
<1>7. ASSUME NEW t \in Tabs, NEW q \in Providers, OpenStep(t, q) PROVE IInv'
  BY <1>7, OpenStepKeeps
<1>8. CASE UNCHANGED vars
  <2>1. UNCHANGED <<server, tab, opening, refusing, faults>> BY <1>8 DEF vars, calls
  <2>2. faults' \in Nat BY <2>1 DEF IInv, TypeOK
  <2> QED BY <2>1, <2>2, ServerSame, TabsSame, OpeningsSame, RefusalsSame, Assemble
<1> QED BY <1>1, <1>2, <1>3, <1>4, <1>5, <1>6, <1>7, <1>8 DEF Next

\* In every reachable state the pages and calls name only what the server
\* holds: the invariant the rest follows from.
THEOREM Invariance == Spec => []IInv
BY InitInv, NextKeeps, PTL DEF Spec

\* Every variable keeps its type.
THEOREM Typed == Spec => []TypeOK
<1>1. IInv => TypeOK BY DEF IInv
<1> QED BY <1>1, Invariance, PTL

\* Whoever opens a conversation, and from how many tabs at once, there is one
\* per provider, and a tab shows a stored one of its own (createOnce).
THEOREM OneConversation == Spec => []SameConversation
<1>1. IInv => SameConversation BY DEF IInv, OnePerProvider, ViewInv, TalkExists, SameConversation
<1> QED BY <1>1, Invariance, PTL

\* The clock never closes the conversation of a provider who opened it while
\* the dispatch was live: opening it marks the dispatch as viewed first.
THEOREM EngagedNotCutOff == Spec => []EngagedStaysOpen
<1>1. IInv => EngagedStaysOpen
  <2> SUFFICES ASSUME IInv, NEW t \in Tabs, ~IsClient(t), tab[t].engaged
               PROVE  CanSend(User[t]) \/ cancelled \/ candidacy[User[t]] = "DECLINED"
    BY DEF EngagedStaysOpen
  <2>1. candidacy[User[t]] \in {"VIEWED", "DECLINED"} BY DEF IInv, ViewInv, EngagedWasViewed
  <2> QED BY <2>1 DEF CanSend, Live
<1> QED BY <1>1, Invariance, PTL

-----------------------------------------------------------------------------
(***************************************************************************)
(* What is typed.                                                          *)
(***************************************************************************)
\* The only ways a page may lose a draft.
DraftSafe(v, w) ==
    v.draft # "empty" /\ w.draft = "empty" =>
        \/ v.sending = "stored" /\ faults' = faults
        \/ w.page # "talk" \/ w.talk # v.talk
        \/ ~w.shown \/ ~w.canSend

LEMMA ShowSafe ==
    ASSUME IInv, NEW t \in Tabs, NEW v \in Tab, Show(t, v), DraftSafe(tab[t], v)
    PROVE  \A u \in Tabs : DraftSafe(tab[u], tab'[u])
<1>1. tab \in [Tabs -> Tab] BY DEF IInv, TypeOK
<1>2. tab'[t] = v /\ \A u \in Tabs \ {t} : tab'[u] = tab[u] BY <1>1, ShowOne
<1>3. \A u \in Tabs : DraftSafe(tab[u], tab[u]) BY DEF DraftSafe
<1> QED BY <1>2, <1>3

LEMMA SameDraft ==
    ASSUME NEW v, NEW w, w.draft = "empty" => v.draft = "empty" PROVE DraftSafe(v, w)
BY DEF DraftSafe

LEMMA FreshSafe ==
    ASSUME NEW v, NEW page \in Pages, NEW n \in Nat PROVE DraftSafe(v, Mounted(page, n))
BY DEF DraftSafe, Mounted

LEMMA ScreenSafe ==
    ASSUME NEW v \in Tab, NEW c \in Talk
    PROVE  Screen(v, c).draft = v.draft \/ Screen(v, c).shown = FALSE
<1>1. CASE v.page = "talk" /\ v.talk = c BY <1>1 DEF Screen
<1>2. CASE ~(v.page = "talk" /\ v.talk = c)
  <2>1. Screen(v, c) = [Mounted("talk", v.clicks) EXCEPT !.talk = c] BY <1>2 DEF Screen
  <2>2. Mounted("talk", v.clicks).shown = FALSE BY DEF Mounted
  <2>3. Mounted("talk", v.clicks) \in Tab BY MountedType DEF Tab, Pages
  <2> QED BY <2>1, <2>2, <2>3 DEF Tab
<1> QED BY <1>1, <1>2

LEMMA QuerySafe ==
    ASSUME IInv, NEW t \in Tabs, Query(t) PROVE \A u \in Tabs : DraftSafe(tab[u], tab'[u])
<1>1. /\ tab[t] \in Tab /\ candidacy \in [Providers -> Status] /\ talks \subseteq Talk
      /\ {cancelled, match} \subseteq BOOLEAN
  BY DEF IInv, TypeOK
<1>2. CASE ReadRequests(t)
  <2>. DEFINE v == [tab[t] EXCEPT !.shown = TRUE, !.link = ~cancelled]
  <2>1. v \in Tab /\ v.draft = tab[t].draft BY <1>1 DEF Tab
  <2>2. Show(t, v) BY <1>2 DEF ReadRequests
  <2>. HIDE DEF v
  <2> QED BY <2>1, <2>2, SameDraft, ShowSafe
<1>3. CASE ReadMatch(t)
  <2>. DEFINE v == [tab[t] EXCEPT !.shown = TRUE, !.started = match]
  <2>1. v \in Tab /\ v.draft = tab[t].draft BY <1>1 DEF Tab
  <2>2. Show(t, v) BY <1>3 DEF ReadMatch
  <2>. HIDE DEF v
  <2> QED BY <2>1, <2>2, SameDraft, ShowSafe
<1>4. CASE ReadCandidates(t)
  <2>. DEFINE v == [tab[t] EXCEPT !.rows = candidacy]
  <2>1. v \in Tab /\ v.draft = tab[t].draft BY <1>1 DEF Tab
  <2>2. Show(t, v) BY <1>4 DEF ReadCandidates
  <2>. HIDE DEF v
  <2> QED BY <2>1, <2>2, SameDraft, ShowSafe
<1>5. CASE ReadInbox(t)
  <2>. DEFINE v == [tab[t] EXCEPT !.shown = TRUE, !.rows = Answerable(t)]
  <2>1. v \in Tab /\ v.draft = tab[t].draft BY <1>1 DEF Tab, Answerable, Status
  <2>2. Show(t, v) BY <1>5 DEF ReadInbox
  <2>. HIDE DEF v
  <2> QED BY <2>1, <2>2, SameDraft, ShowSafe
<1>6. CASE ReadList(t)
  <2>. DEFINE v == [tab[t] EXCEPT !.shown = TRUE,
                            !.listed = {c \in talks : IsClient(t) \/ c.provider = User[t]}]
  <2>1. v \in Tab /\ v.draft = tab[t].draft BY <1>1 DEF Tab
  <2>2. Show(t, v) BY <1>6 DEF ReadList
  <2>. HIDE DEF v
  <2> QED BY <2>1, <2>2, SameDraft, ShowSafe
<1>7. CASE ReadTalk(t)
  <2>. DEFINE can == CanSend(tab[t].talk.provider)
              view == [tab[t] EXCEPT !.shown = TRUE, !.canSend = can]
              v == IF can THEN view ELSE NoComposer(view)
  <2>1. can \in BOOLEAN BY <1>1 DEF CanSend, Live
  <2>2. view \in Tab /\ view.draft = tab[t].draft /\ view.canSend = can
    <3>. HIDE DEF can
    <3> QED BY <1>1, <2>1 DEF Tab
  <2>3. NoComposer(view) \in Tab /\ NoComposer(view).canSend = view.canSend
    <3>. HIDE DEF can, view
    <3> QED BY <2>2 DEF NoComposer, Tab, Box
  <2>4. v \in Tab /\ DraftSafe(tab[t], v)
    <3>. HIDE DEF can, view
    <3>1. CASE can BY <2>2, <3>1, SameDraft
    <3>2. CASE ~can
      <4>1. v = NoComposer(view) /\ ~v.canSend BY <2>1, <2>2, <2>3, <3>2
      <4> QED BY <2>3, <4>1 DEF DraftSafe
    <3> QED BY <3>1, <3>2
  <2>5. Show(t, v) BY <1>7 DEF ReadTalk
  <2>. HIDE DEF v
  <2> QED BY <2>4, <2>5, ShowSafe
<1> QED BY <1>2, <1>3, <1>4, <1>5, <1>6, <1>7 DEF Query

LEMMA NavigationSafe ==
    ASSUME IInv, NEW t \in Tabs,
           (\E page \in Pages : Visit(t, page)) \/ FollowRequest(t) \/ FollowLink(t) \/ QueryFails(t)
    PROVE  \A u \in Tabs : DraftSafe(tab[u], tab'[u])
<1>1. tab[t] \in Tab /\ talks \subseteq Talk /\ ViewInv(tab[t], t, candidacy, talks)
  BY DEF IInv, TypeOK
<1>n. tab[t].clicks \in Nat BY <1>1 DEF Tab
<1>2. ASSUME NEW page \in Pages, Visit(t, page) PROVE \A u \in Tabs : DraftSafe(tab[u], tab'[u])
  BY <1>n, <1>2, FreshSafe, MountedType, ShowSafe DEF Visit
<1>3. CASE FollowRequest(t)
  BY <1>n, <1>3, FreshSafe, MountedType, ShowSafe DEF FollowRequest, Pages
<1>4. CASE FollowLink(t)
  <2>1. PICK c \in tab[t].listed : Show(t, Screen(tab[t], c)) BY <1>4 DEF FollowLink
  <2>2. c \in Talk BY <1>1, <2>1 DEF ViewInv, ListedExist
  <2>3. Screen(tab[t], c) \in Tab BY <1>1, <2>2, ScreenType
  <2>4. DraftSafe(tab[t], Screen(tab[t], c)) BY <1>1, <2>2, ScreenSafe DEF DraftSafe
  <2> QED BY <2>1, <2>3, <2>4, ShowSafe
<1>5. CASE QueryFails(t)
  <2>. DEFINE w == [tab[t] EXCEPT !.shown = FALSE, !.link = FALSE]
              v == NoComposer(w)
  <2>1. w \in Tab /\ w.shown = FALSE BY <1>1 DEF Tab
  <2>2. v \in Tab /\ v.shown = FALSE
    <3>. HIDE DEF w
    <3> QED BY <2>1 DEF NoComposer, Tab, Box
  <2>3. Show(t, v) BY <1>5 DEF QueryFails
  <2>. HIDE DEF v
  <2>4. DraftSafe(tab[t], v) BY <2>2 DEF DraftSafe
  <2> QED BY <2>2, <2>3, <2>4, ShowSafe
<1> QED BY <1>2, <1>3, <1>4, <1>5

LEMMA PressedDraft ==
    ASSUME NEW t \in Tabs, tab[t] \in Tab
    PROVE  /\ Pressed(t) \in Tab /\ Pressed(t).draft = tab[t].draft
           /\ \A e \in {"none", "network", "closed", "refused", "duplicate"} :
                /\ [Pressed(t) EXCEPT !.error = e] \in Tab
                /\ [Pressed(t) EXCEPT !.error = e].draft = tab[t].draft
                /\ [tab[t] EXCEPT !.error = e] \in Tab
                /\ [tab[t] EXCEPT !.error = e].draft = tab[t].draft
                /\ Unsent(Pressed(t), e) \in Tab /\ (Unsent(Pressed(t), e).draft = "empty" => tab[t].draft = "empty")
                /\ Unsent(tab[t], e) \in Tab /\ (Unsent(tab[t], e).draft = "empty" => tab[t].draft = "empty")
<1>. DEFINE p == Pressed(t)
<1>1. PICK n \in Nat : n = tab[t].clicks BY DEF Tab
<1>2. n + 1 \in Nat OBVIOUS
<1>3. p = [tab[t] EXCEPT !.clicks = n + 1, !.error = "none"] BY <1>1 DEF Pressed
<1>4. p \in Tab /\ p.draft = tab[t].draft
  <2>. HIDE DEF p
  <2> QED BY <1>2, <1>3 DEF Tab
<1>5. ASSUME NEW e \in {"none", "network", "closed", "refused", "duplicate"}, NEW v \in Tab
      PROVE  /\ [v EXCEPT !.error = e] \in Tab /\ [v EXCEPT !.error = e].draft = v.draft
             /\ Unsent(v, e) \in Tab /\ (Unsent(v, e).draft = "empty" => v.draft = "empty")
  <2>1. [v EXCEPT !.error = e] \in Tab /\ [v EXCEPT !.error = e].draft = v.draft BY DEF Tab
  <2> QED BY <2>1, UnsentView
<1>. HIDE DEF p
<1>6. p = Pressed(t) BY DEF p
<1> QED BY <1>4, <1>5, <1>6

LEMMA ComposerSafe ==
    ASSUME IInv, NEW t \in Tabs, Type(t) \/ PressSend(t) \/ SendStep(t) \/ SendFails(t)
    PROVE  \A u \in Tabs : DraftSafe(tab[u], tab'[u])
<1>1. tab[t] \in Tab BY DEF IInv, TypeOK
<1>2. CASE Type(t)
  <2>0. PICK box \in {"typed", "edited"} : Show(t, [tab[t] EXCEPT !.draft = box])
    BY <1>2 DEF Type
  <2>. DEFINE v == [tab[t] EXCEPT !.draft = box]
  <2>1. v \in Tab /\ v.draft # "empty" BY <1>1 DEF Tab, Box
  <2>2. Show(t, v) BY <2>0
  <2>. HIDE DEF v
  <2>3. DraftSafe(tab[t], v) BY <2>1 DEF DraftSafe
  <2> QED BY <2>1, <2>2, <2>3, ShowSafe
<1>3. CASE PressSend(t)
  <2>. DEFINE p == Pressed(t)
              v == [p EXCEPT !.sending = "insert"]
  <2>1. p \in Tab /\ p.draft = tab[t].draft BY <1>1, PressedDraft
  <2>2. v \in Tab /\ v.draft = tab[t].draft
    <3>. HIDE DEF p
    <3> QED BY <2>1 DEF Tab
  <2>3. Show(t, v) \/ Show(t, Unsent(Pressed(t), "closed")) BY <1>3 DEF PressSend
  <2>4. PICK w : w = Unsent(Pressed(t), "closed") OBVIOUS
  <2>5. w \in Tab /\ (w.draft = "empty" => tab[t].draft = "empty") BY <1>1, <2>4, PressedDraft
  <2>. HIDE DEF v, p
  <2>6. DraftSafe(tab[t], v) /\ DraftSafe(tab[t], w) BY <2>2, <2>5, SameDraft
  <2> QED BY <2>2, <2>3, <2>4, <2>5, <2>6, ShowSafe
<1>4. CASE StoreMessage(t)
  <2>. DEFINE v == [tab[t] EXCEPT !.sending = "stored"]
  <2>1. v \in Tab /\ v.draft = tab[t].draft BY <1>1 DEF Tab
  <2>2. Show(t, v) BY <1>4 DEF StoreMessage
  <2>. HIDE DEF v
  <2> QED BY <2>1, <2>2, SameDraft, ShowSafe
<1>5. CASE Sent(t)
  <2>1. NoComposer(tab[t]) \in Tab BY <1>1, NoComposerType
  <2>2. DraftSafe(tab[t], NoComposer(tab[t])) BY <1>5 DEF Sent, DraftSafe
  <2> QED BY <1>5, <2>1, <2>2, ShowSafe DEF Sent
<1>6. CASE SendFails(t)
  BY <1>1, <1>6, PressedDraft, SameDraft, ShowSafe DEF SendFails
<1> QED BY <1>2, <1>3, <1>4, <1>5, <1>6 DEF SendStep

LEMMA SearchSafe ==
    ASSUME IInv, NEW t \in Tabs, StartSearch(t) \/ ExpandRadius(t)
    PROVE  \A u \in Tabs : DraftSafe(tab[u], tab'[u])
<1>. DEFINE p == Pressed(t)
<1>1. tab[t] \in Tab BY DEF IInv, TypeOK
<1>2. p \in Tab /\ p.draft = tab[t].draft BY <1>1, PressedDraft
<1>3. CASE StartSearch(t)
  <2>. DEFINE v == [p EXCEPT !.error = "refused"]
              w == [p EXCEPT !.started = TRUE]
  <2>1. Show(t, v) \/ Show(t, w) BY <1>3 DEF StartSearch
  <2>2. v \in Tab /\ v.draft = tab[t].draft /\ w \in Tab /\ w.draft = tab[t].draft
    <3>. HIDE DEF p
    <3> QED BY <1>2 DEF Tab
  <2>. HIDE DEF v, w, p
  <2> QED BY <2>1, <2>2, SameDraft, ShowSafe
<1>4. CASE ExpandRadius(t)
  <2>. DEFINE v == [p EXCEPT !.rows = candidacy']
  <2>1. Show(t, v) BY <1>4 DEF ExpandRadius
  <2>2. candidacy' \in [Providers -> Status] BY <1>4, BatchMoves DEF ExpandRadius
  <2>3. v \in Tab /\ v.draft = tab[t].draft
    <3>. HIDE DEF p
    <3> QED BY <1>2, <2>2 DEF Tab
  <2>. HIDE DEF v, p
  <2> QED BY <2>1, <2>3, SameDraft, ShowSafe
<1> QED BY <1>3, <1>4

LEMMA CallsSafe ==
    ASSUME IInv, NEW t \in Tabs,
           \/ PressDecline(t) \/ DeclineStep(t) \/ DeclineFails(t)
           \/ \E q \in Providers : PressChat(t, q) \/ OpenStep(t, q) \/ OpenFails(t, q)
    PROVE  \A u \in Tabs : DraftSafe(tab[u], tab'[u])
<1>1. /\ tab[t] \in Tab /\ candidacy \in [Providers -> Status] /\ cancelled \in BOOLEAN
      /\ talks \subseteq Talk
  BY DEF IInv, TypeOK
<1>e. /\ Pressed(t) \in Tab /\ Pressed(t).draft = tab[t].draft
      /\ [Pressed(t) EXCEPT !.error = "refused"] \in Tab
      /\ [Pressed(t) EXCEPT !.error = "refused"].draft = tab[t].draft
      /\ [tab[t] EXCEPT !.error = "network"] \in Tab
      /\ [tab[t] EXCEPT !.error = "network"].draft = tab[t].draft
      /\ [tab[t] EXCEPT !.error = "closed"] \in Tab
      /\ [tab[t] EXCEPT !.error = "closed"].draft = tab[t].draft
  BY <1>1, PressedDraft, Zenon
<1>2. ASSUME tab' = tab PROVE \A u \in Tabs : DraftSafe(tab[u], tab'[u])
  BY <1>2 DEF DraftSafe
<1>3. CASE PressDecline(t)
  <2>1. Show(t, [Pressed(t) EXCEPT !.error = "refused"]) \/ Show(t, Pressed(t))
    BY <1>3, Zenon DEF PressDecline
  <2> QED BY <1>e, <2>1, SameDraft, ShowSafe
<1>4. CASE Refresh(t)
  <2>. DEFINE v == [tab[t] EXCEPT !.rows = Answerable(t)]
  <2>1. v \in Tab /\ v.draft = tab[t].draft BY <1>1 DEF Tab, Answerable, Status
  <2>2. Show(t, v) \/ tab' = tab BY <1>4 DEF Refresh
  <2>. HIDE DEF v
  <2> QED BY <1>2, <2>1, <2>2, SameDraft, ShowSafe
<1>5. CASE SaveDeclined(t) \/ DeclineFails(t) BY <1>2, <1>5 DEF SaveDeclined, DeclineFails
<1>6. ASSUME NEW q \in Providers, PressChat(t, q) PROVE \A u \in Tabs : DraftSafe(tab[u], tab'[u])
  <2>1. Pressed(t) \in Tab /\ Pressed(t).draft = tab[t].draft BY <1>1, PressedDraft
  <2>2. Show(t, Pressed(t)) BY <1>6 DEF PressChat
  <2> QED BY <2>1, <2>2, SameDraft, ShowSafe
<1>7. ASSUME NEW q \in Providers, OpenFails(t, q) PROVE \A u \in Tabs : DraftSafe(tab[u], tab'[u])
  BY <1>e, <1>7, SameDraft, ShowSafe DEF OpenFails, Refuse
<1>8. ASSUME NEW q \in Providers,
             ResolveCandidacy(t, q) \/ LoadViewed(t, q) \/ SaveViewed(t, q) \/ FindWinner(t, q)
               \/ CreateTalk(t, q)
      PROVE  \A u \in Tabs : DraftSafe(tab[u], tab'[u])
  <2>1. tab' = tab
    BY <1>8, Zenon DEF ResolveCandidacy, LoadViewed, SaveViewed, FindWinner, CreateTalk, Take, LostRace
  <2> QED BY <1>2, <2>1
<1>9. ASSUME NEW q \in Providers, FindTalk(t, q) PROVE \A u \in Tabs : DraftSafe(tab[u], tab'[u])
  <2>1. tab' = tab \/ Refuse(t, q, "closed") BY <1>9, Zenon DEF FindTalk, Take
  <2> QED BY <1>e, <1>2, <2>1, SameDraft, ShowSafe DEF Refuse
<1>10. ASSUME NEW q \in Providers, ShowTalk(t, q) PROVE \A u \in Tabs : DraftSafe(tab[u], tab'[u])
  <2>. DEFINE c == opening[t][q].talk
              w == Screen(tab[t], c)
              can == CanSend(q)
              v == [w EXCEPT !.engaged = can]
  <2>1. opening[t][q].step = "view" /\ OpenInv(opening[t][q], t, q, candidacy, talks)
    BY <1>10 DEF IInv, ShowTalk
  <2>2. c \in Talk BY <1>1, <2>1 DEF OpenInv
  <2>3. w \in Tab /\ (w.draft = tab[t].draft \/ w.shown = FALSE)
    <3>. HIDE DEF c
    <3> QED BY <1>1, <2>2, ScreenType, ScreenSafe
  <2>4. can \in BOOLEAN BY <1>1 DEF CanSend, Live
  <2>5. v \in Tab /\ v.draft = w.draft /\ v.shown = w.shown
    <3>. HIDE DEF w, can, c
    <3> QED BY <2>3, <2>4 DEF Tab
  <2>6. Show(t, v) BY <1>10 DEF ShowTalk
  <2>. HIDE DEF v, w
  <2>7. DraftSafe(tab[t], v) BY <2>3, <2>5 DEF DraftSafe
  <2> QED BY <2>5, <2>6, <2>7, ShowSafe
<1> QED BY <1>3, <1>4, <1>5, <1>6, <1>7, <1>8, <1>9, <1>10 DEF DeclineStep, OpenStep

\* While its composer stays on the screen, only a send that was stored and
\* answered empties the box: whatever fails, what was sent and what was typed
\* since are still there (composer.tsx).
THEOREM FailedSendKeepsText == Spec => DraftKept
<1>1. ASSUME IInv, [Next]_vars PROVE \A t \in Tabs : DraftSafe(tab[t], tab'[t])
  <2>1. CASE tab' = tab BY <2>1 DEF DraftSafe
  <2>2. ASSUME NEW t \in Tabs, UserStep(t) PROVE \A u \in Tabs : DraftSafe(tab[u], tab'[u])
    <3>1. CASE StartSearch(t) \/ ExpandRadius(t) BY <3>1, <1>1, SearchSafe
    <3>2. CASE FollowRequest(t) \/ FollowLink(t) \/ \E page \in Pages : Visit(t, page)
      BY <3>2, <1>1, NavigationSafe
    <3>3. CASE Type(t) \/ PressSend(t) BY <3>3, <1>1, ComposerSafe
    <3>4. CASE PressDecline(t) \/ \E q \in Providers : PressChat(t, q) BY <3>4, <1>1, CallsSafe
    <3> QED BY <2>2, <3>1, <3>2, <3>3, <3>4 DEF UserStep
  <2>3. ASSUME NEW t \in Tabs, Query(t) \/ DeclineStep(t) \/ SendStep(t) \/ Fails(t)
        PROVE  \A u \in Tabs : DraftSafe(tab[u], tab'[u])
    <3>1. CASE Query(t) BY <3>1, <1>1, QuerySafe
    <3>2. CASE DeclineStep(t) \/ DeclineFails(t) \/ \E q \in Providers : OpenFails(t, q)
      BY <3>2, <1>1, CallsSafe
    <3>3. CASE SendStep(t) \/ SendFails(t) BY <3>3, <1>1, ComposerSafe
    <3>4. CASE QueryFails(t) BY <3>4, <1>1, NavigationSafe
    <3> QED BY <2>3, <3>1, <3>2, <3>3, <3>4 DEF Fails
  <2>4. ASSUME NEW t \in Tabs, NEW q \in Providers, OpenStep(t, q)
        PROVE  \A u \in Tabs : DraftSafe(tab[u], tab'[u])
    BY <1>1, <2>4, CallsSafe
  <2>5. CASE RunBatch \/ Cancel \/ \E q \in Providers : Lapse(q)
    BY <2>1, <2>5 DEF RunBatch, Cancel, Lapse
  <2>6. CASE UNCHANGED vars BY <2>1, <2>6 DEF vars
  <2> QED BY <1>1, <2>2, <2>3, <2>4, <2>5, <2>6 DEF Next
<1>2. IInv /\ [Next]_vars =>
        [\A t \in Tabs :
           /\ tab[t].draft # "empty" /\ tab'[t].draft = "empty"
           /\ Composer(tab'[t]) /\ tab'[t].talk = tab[t].talk
           => tab[t].sending = "stored" /\ faults' = faults]_vars
  BY <1>1 DEF DraftSafe, Composer
<1> QED BY <1>2, Invariance, PTL DEF Spec, DraftKept

-----------------------------------------------------------------------------
(***************************************************************************)
(* Where an open ends.                                                     *)
(***************************************************************************)
\* A call about one dispatch leaves the other calls alone.
LEMMA OtherCalls ==
    ASSUME IInv, NEW u \in Tabs, NEW p \in Providers, NEW t \in Tabs, NEW q \in Providers,
           u # t \/ p # q, PressChat(u, p) \/ OpenStep(u, p) \/ OpenFails(u, p)
    PROVE  opening'[t][q] = opening[t][q]
<1>1. opening \in [Tabs -> [Providers -> Open]] /\ talks \subseteq Talk BY DEF IInv, TypeOK
<1>2. ASSUME NEW o, opening' = [opening EXCEPT ![u][p] = o]
      PROVE  opening'[t][q] = opening[t][q]
  BY <1>1, <1>2
<1>3. ASSUME NEW s \in Steps, Step(u, p, s) PROVE opening'[t][q] = opening[t][q]
  <2>1. opening' = [opening EXCEPT ![u][p] = [opening[u][p] EXCEPT !.step = s]]
    BY <1>3, Zenon DEF Step
  <2> QED BY <1>2, <2>1
<1>4. ASSUME NEW c, Take(u, p, c) PROVE opening'[t][q] = opening[t][q]
  BY <1>2, <1>4, TakeIs
<1>5. CASE PressChat(u, p)
  <2>. DEFINE o == [opening[u][p] EXCEPT !.step = "candidacy", !.closed = cancelled]
  <2>1. opening' = [opening EXCEPT ![u][p] = o] BY <1>1, <1>5 DEF PressChat
  <2> QED BY <1>2, <2>1
<1>6. CASE ResolveCandidacy(u, p)
  <2>. DEFINE s == IF IsClient(u) THEN "find" ELSE "loadViewed"
              l == Live(p)
              o == [opening[u][p] EXCEPT !.step = s, !.live = l]
  <2>1. opening' = [opening EXCEPT ![u][p] = o] BY <1>1, <1>6 DEF ResolveCandidacy
  <2> QED BY <1>2, <2>1
<1>7. CASE LoadViewed(u, p)
  <2>1. PICK s \in Steps : Step(u, p, s) BY <1>7 DEF LoadViewed, Steps
  <2> QED BY <1>3, <2>1
<1>8. CASE SaveViewed(u, p) BY <1>3, <1>8 DEF SaveViewed, Steps
<1>9. CASE OpenFails(u, p) \/ ShowTalk(u, p) BY <1>2, <1>9 DEF OpenFails, Refuse, ShowTalk
<1>10. CASE FindTalk(u, p)
  <2>1. Take(u, p, Of(p)) \/ Refuse(u, p, "closed") \/ Step(u, p, "create")
    BY <1>10, Zenon DEF FindTalk
  <2> QED BY <1>2, <1>3, <1>4, <2>1 DEF Refuse, Steps
<1>11. CASE CreateTalk(u, p)
  <2>1. Step(u, p, "winner") \/ \E c : Take(u, p, c) BY <1>11, Zenon DEF CreateTalk, LostRace
  <2> QED BY <1>3, <1>4, <2>1 DEF Steps
<1>12. CASE FindWinner(u, p) BY <1>4, <1>12 DEF FindWinner
<1> QED BY <1>5, <1>6, <1>7, <1>8, <1>9, <1>10, <1>11, <1>12 DEF OpenStep

\* The call that ends: it failed, was refused for a dispatch that had closed,
\* or lands.
LEMMA EndOfCall ==
    ASSUME IInv, NEW t \in Tabs, NEW q \in Providers,
           opening[t][q].step \in {"find", "create", "winner", "view"},
           opening[t][q].live, ~opening[t][q].closed,
           opening'[t][q].step = "none", faults' = faults,
           PressChat(t, q) \/ OpenStep(t, q) \/ OpenFails(t, q)
    PROVE  tab'[t].page = "talk" /\ tab'[t].talk \in talks /\ tab'[t].talk.provider = q
<1>1. /\ opening \in [Tabs -> [Providers -> Open]] /\ talks \subseteq Talk /\ faults \in Nat
      /\ tab \in [Tabs -> Tab] /\ candidacy \in [Providers -> Status] /\ cancelled \in BOOLEAN
  BY DEF IInv, TypeOK
<1>2. ASSUME NEW s \in Steps, s # "none", Step(t, q, s) PROVE FALSE
  <2>. DEFINE o == [opening[t][q] EXCEPT !.step = s]
  <2>1. opening' = [opening EXCEPT ![t][q] = o] BY <1>2, Zenon DEF Step
  <2>2. o.step = s
    <3>1. opening[t][q] \in Open BY <1>1
    <3> QED BY <3>1, StepRecord, Zenon
  <2>. HIDE DEF o
  <2> QED BY <1>1, <1>2, <2>1, <2>2
<1>3. ASSUME NEW c, Take(t, q, c) PROVE FALSE
  <2>1. opening' = [opening EXCEPT ![t][q] = Viewing(opening[t][q], c)] BY <1>3, TakeIs
  <2>2. Viewing(opening[t][q], c).step = "view"
    <3>1. opening[t][q] \in Open BY <1>1
    <3> QED BY <3>1, Zenon DEF Viewing, Open
  <2> QED BY <1>1, <2>1, <2>2
<1>4. ~OpenFails(t, q) BY <1>1 DEF OpenFails
<1>5. ~(PressChat(t, q) \/ ResolveCandidacy(t, q) \/ LoadViewed(t, q) \/ SaveViewed(t, q))
  BY DEF PressChat, ResolveCandidacy, LoadViewed, SaveViewed
<1>6. CASE FindTalk(t, q)
  <2>1. Take(t, q, Of(q)) \/ Step(t, q, "create") BY <1>6 DEF FindTalk
  <2> QED BY <1>2, <1>3, <2>1 DEF Steps
<1>7. CASE CreateTalk(t, q)
  <2>1. Step(t, q, "winner") \/ \E c : Take(t, q, c) BY <1>7, Zenon DEF CreateTalk, LostRace
  <2> QED BY <1>2, <1>3, <2>1 DEF Steps
<1>8. CASE FindWinner(t, q) BY <1>3, <1>8 DEF FindWinner
<1>9. CASE ShowTalk(t, q)
  <2>. DEFINE c == opening[t][q].talk
              w == Screen(tab[t], c)
              can == CanSend(q)
              v == [w EXCEPT !.engaged = can]
  <2>1. opening[t][q].step = "view" /\ OpenInv(opening[t][q], t, q, candidacy, talks)
    BY <1>9 DEF IInv, ShowTalk
  <2>2. c \in talks /\ c.provider = q BY <2>1 DEF OpenInv
  <2>3. w \in Tab /\ w.page = "talk" /\ w.talk = c
    <3>1. c \in Talk BY <1>1, <2>2
    <3>. HIDE DEF c
    <3> QED BY <1>1, <3>1, ScreenType
  <2>4. v.page = "talk" /\ v.talk = c
    <3>. HIDE DEF w, can, c
    <3> QED BY <2>3 DEF Tab
  <2>5. tab'[t] = v BY <1>1, <1>9 DEF ShowTalk, Show
  <2>. HIDE DEF v, c
  <2> QED BY <2>2, <2>4, <2>5
<1> QED BY <1>4, <1>5, <1>6, <1>7, <1>8, <1>9 DEF OpenStep

\* Every open that found the dispatch live ends in the conversation with that
\* provider, whoever created it: only a call that fails does not.
THEOREM OpensLand == Spec => OpenLands
<1>1. ASSUME IInv, [Next]_vars, NEW t \in Tabs, NEW q \in Providers,
             opening[t][q].step \in {"find", "create", "winner", "view"},
             opening[t][q].live, ~opening[t][q].closed,
             opening'[t][q].step = "none", faults' = faults
      PROVE  tab'[t].page = "talk" /\ tab'[t].talk \in talks /\ tab'[t].talk.provider = q
  <2>1. CASE opening' = opening BY <1>1, <2>1
  <2>2. ASSUME NEW u \in Tabs, NEW p \in Providers, PressChat(u, p) \/ OpenStep(u, p) \/ OpenFails(u, p)
        PROVE  tab'[t].page = "talk" /\ tab'[t].talk \in talks /\ tab'[t].talk.provider = q
    <3>1. CASE u = t /\ p = q BY <1>1, <2>2, <3>1, EndOfCall
    <3>2. CASE u # t \/ p # q
      <4>1. opening'[t][q] = opening[t][q] BY <1>1, <2>2, <3>2, OtherCalls
      <4> QED BY <1>1, <4>1
    <3> QED BY <3>1, <3>2
  <2>3. \/ opening' = opening
        \/ \E u \in Tabs, p \in Providers : PressChat(u, p) \/ OpenStep(u, p) \/ OpenFails(u, p)
    <3>1. ASSUME NEW u \in Tabs, UserStep(u)
          PROVE  opening' = opening \/ \E p \in Providers : PressChat(u, p)
      BY <3>1, Zenon DEF UserStep, StartSearch, ExpandRadius, FollowRequest, FollowLink, PressDecline,
                         Type, PressSend, Visit, calls
    <3>2. ASSUME NEW u \in Tabs, Query(u) PROVE opening' = opening
      BY <3>2 DEF Query, ReadRequests, ReadMatch, ReadCandidates, ReadInbox, ReadList, ReadTalk, calls
    <3>3. ASSUME NEW u \in Tabs, DeclineStep(u) \/ SendStep(u) PROVE opening' = opening
      BY <3>3 DEF DeclineStep, SaveDeclined, Refresh, SendStep, StoreMessage, Sent, calls
    <3>4. ASSUME NEW u \in Tabs, Fails(u)
          PROVE  opening' = opening \/ \E p \in Providers : OpenFails(u, p)
      BY <3>4 DEF Fails, QueryFails, DeclineFails, SendFails, calls
    <3>5. CASE RunBatch \/ Cancel \/ \E p \in Providers : Lapse(p)
      BY <3>5 DEF RunBatch, Cancel, Lapse, calls
    <3>6. CASE UNCHANGED vars BY <3>6 DEF vars, calls
    <3> QED BY <1>1, <3>1, <3>2, <3>3, <3>4, <3>5, <3>6 DEF Next
  <2> QED BY <2>1, <2>2, <2>3
<1>2. IInv /\ [Next]_vars =>
        [\A t \in Tabs, q \in Providers :
           /\ opening[t][q].step \in {"find", "create", "winner", "view"}
           /\ opening[t][q].live /\ ~opening[t][q].closed
           /\ opening'[t][q].step = "none" /\ faults' = faults
           => tab'[t].page = "talk" /\ tab'[t].talk \in talks /\ tab'[t].talk.provider = q]_vars
  BY <1>1
<1> QED BY <1>2, Invariance, PTL DEF Spec, OpenLands
=============================================================================
