---------------------------- MODULE Conversations ----------------------------
(***************************************************************************)
(* How the two sides of a dispatch come to talk: ConversationService and   *)
(* what MatchingService shows of a search, behind the pages of apps/web:   *)
(* the client's requests and the search for one of them, the provider's    *)
(* inbox, the list of conversations and a conversation with its composer.  *)
(*                                                                         *)
(* A call advances one database call at a time, on values read earlier.    *)
(* A dispatch batch is one step here, its interleavings are in Dispatch;   *)
(* what a conversation holds, and its receipts, are in ChatServer.         *)
(***************************************************************************)
EXTENDS Integers, FiniteSets

CONSTANTS
    Providers,   \* providers the search may contact
    Client,      \* the client of the request
    Tabs,        \* browser tabs
    User,        \* User[t]: who is signed in in tab t
    MaxTalks,    \* bound on the conversations stored
    MaxClicks,   \* MaxClicks[t]: bound on the presses in tab t
    MaxFaults    \* bound on calls and queries that fail

ASSUME ConversationsAssumption ==
    /\ Client \notin Providers
    /\ User \in [Tabs -> Providers \cup {Client}]
    /\ MaxClicks \in [Tabs -> Nat]
    /\ {MaxTalks, MaxFaults} \subseteq Nat

VARIABLES
    cancelled,  \* the request is CANCELLED
    match,      \* the match document exists
    candidacy,  \* candidacy[q]: "NONE" until q is contacted
    lapsed,     \* the providers whose expiresAt is past
    talks,      \* the conversations stored
    tab,        \* tab[t]: the page in tab t and what it shows
    opening,    \* opening[t][q]: POST /conversations of tab t about q
    refusing,   \* refusing[t]: POST decline of tab t
    faults

search == <<cancelled, match, candidacy, lapsed>>
server == <<search, talks>>
calls  == <<opening, refusing>>
vars   == <<server, tab, calls, faults>>

Status == {"NONE", "NOTIFIED", "VIEWED", "DECLINED", "EXPIRED"}
Talk   == [id: 1..MaxTalks, provider: Providers]
NoTalk == [id |-> 0, provider |-> Client]

\* Expiry is written by the next batch, not to the second.
Live(q) == candidacy[q] = "VIEWED" \/ (candidacy[q] = "NOTIFIED" /\ q \notin lapsed)

\* Before an offer is accepted, canSend lives as long as the candidacy.
CanSend(q) == ~cancelled /\ Live(q)

Pages == {"requests", "search", "inbox", "list", "talk"}

\* What the composer's box holds: text to send, or being sent, or a text that
\* was changed while a send is in progress and differs from what was sent.
Box == {"empty", "typed", "edited"}

Tab   == [page: Pages, shown: BOOLEAN, link: BOOLEAN, started: BOOLEAN,
          rows: [Providers -> Status], listed: SUBSET Talk,
          talk: Talk \cup {NoTalk}, canSend: BOOLEAN, engaged: BOOLEAN,
          draft: Box, sending: {"no", "insert", "stored"},
          error: {"none", "network", "closed", "refused", "duplicate"}, clicks: Nat]

Open   == [step: {"none", "candidacy", "loadViewed", "saveViewed", "find",
                  "create", "winner", "view"},
           closed: BOOLEAN, live: BOOLEAN, talk: Talk \cup {NoTalk}]
NoOpen == [step |-> "none", closed |-> FALSE, live |-> FALSE, talk |-> NoTalk]

IsClient(t) == User[t] = Client
Visited(t)  == IF IsClient(t) THEN {"requests", "list"} ELSE {"inbox", "list"}

\* A page just mounted: it shows nothing before its query succeeded.
Mounted(page, clicks) ==
    [page |-> page, shown |-> FALSE, link |-> FALSE, started |-> FALSE, rows |-> [q \in Providers |-> "NONE"],
     listed |-> {}, talk |-> NoTalk, canSend |-> FALSE, engaged |-> FALSE,
     draft |-> "empty", sending |-> "no", error |-> "none", clicks |-> clicks]

Show(t, view) == tab' = [tab EXCEPT ![t] = view]

\* A button pressed clears the error of the last one.
Press(t)         == tab[t].shown /\ tab[t].clicks < MaxClicks[t]
Pressed(t)       == [tab[t] EXCEPT !.clicks = @ + 1, !.error = "none"]
NoComposer(view) == [view EXCEPT !.draft = "empty", !.sending = "no"]

-----------------------------------------------------------------------------
(***************************************************************************)
(* The search, the clock and the request.                                  *)
(***************************************************************************)
\* A batch expires who did not answer in time and contacts others, if any.
Batch(new) ==
    /\ match /\ ~cancelled /\ \A q \in new : candidacy[q] = "NONE"
    /\ candidacy' = [q \in Providers |->
         IF q \in new THEN "NOTIFIED"
         ELSE IF candidacy[q] = "NOTIFIED" /\ q \in lapsed THEN "EXPIRED" ELSE candidacy[q]]

RunBatch ==
    /\ \E new \in SUBSET Providers : Batch(new)
    /\ UNCHANGED <<cancelled, match, lapsed, talks, tab, calls, faults>>

\* expiresAt passes; it matters to nobody once the dispatch was answered.
Lapse(q) ==
    /\ candidacy[q] = "NOTIFIED" /\ q \notin lapsed
    /\ lapsed' = lapsed \cup {q}
    /\ UNCHANGED <<cancelled, match, candidacy, talks, tab, calls, faults>>

Cancel ==
    /\ ~cancelled /\ cancelled' = TRUE
    /\ UNCHANGED <<match, candidacy, lapsed, talks, tab, calls, faults>>

-----------------------------------------------------------------------------
(***************************************************************************)
(* Queries: run when a page is mounted and when its window gets the focus; *)
(* between two of them a page shows what it read.  The cache of a page     *)
(* left and come back to, shown until its query is answered, is left out.  *)
(***************************************************************************)
\* GET requests/mine: a cancelled request leads nowhere.
ReadRequests(t) ==
    /\ tab[t].page = "requests"
    /\ Show(t, [tab[t] EXCEPT !.shown = TRUE, !.link = ~cancelled])
    /\ UNCHANGED <<server, calls, faults>>

\* GET match: a 404 is a search not started.
ReadMatch(t) ==
    /\ tab[t].page = "search"
    /\ Show(t, [tab[t] EXCEPT !.shown = TRUE, !.started = match])
    /\ UNCHANGED <<server, calls, faults>>

\* GET candidates, asked for once there is a match.
ReadCandidates(t) ==
    /\ tab[t].page = "search" /\ tab[t].started
    /\ Show(t, [tab[t] EXCEPT !.rows = candidacy])
    /\ UNCHANGED <<server, calls, faults>>

\* GET matches/mine: the dispatches the provider may still answer.
Answerable(t) ==
    [q \in Providers |-> IF q = User[t] /\ candidacy[q] \in {"NOTIFIED", "VIEWED"}
                         THEN candidacy[q] ELSE "NONE"]

ReadInbox(t) ==
    /\ tab[t].page = "inbox"
    /\ Show(t, [tab[t] EXCEPT !.shown = TRUE, !.rows = Answerable(t)])
    /\ UNCHANGED <<server, calls, faults>>

ReadList(t) ==
    /\ tab[t].page = "list"
    /\ Show(t, [tab[t] EXCEPT !.shown = TRUE,
                            !.listed = {c \in talks : IsClient(t) \/ c.provider = User[t]}])
    /\ UNCHANGED <<server, calls, faults>>

\* GET conversation: the composer is there while canSend is.
ReadTalk(t) ==
    /\ tab[t].page = "talk"
    /\ LET can == CanSend(tab[t].talk.provider)
           view == [tab[t] EXCEPT !.shown = TRUE, !.canSend = can]
       IN  Show(t, IF can THEN view ELSE NoComposer(view))
    /\ UNCHANGED <<server, calls, faults>>

\* A query that fails replaces the page by an error, what was typed included.
QueryFails(t) ==
    /\ faults < MaxFaults /\ faults' = faults + 1
    /\ Show(t, NoComposer([tab[t] EXCEPT !.shown = FALSE, !.link = FALSE]))
    /\ UNCHANGED <<server, calls>>

\* The destinations of the navigation, then what the rows lead to.
Visit(t, page) ==
    /\ page \in Visited(t) /\ page # tab[t].page
    /\ Show(t, Mounted(page, tab[t].clicks))
    /\ UNCHANGED <<server, calls, faults>>

FollowRequest(t) ==
    /\ tab[t].page = "requests" /\ tab[t].link
    /\ Show(t, Mounted("search", tab[t].clicks))
    /\ UNCHANGED <<server, calls, faults>>

\* The conversation screen: keyed by conversation, it forgets another one.
Screen(view, c) ==
    IF view.page = "talk" /\ view.talk = c THEN view
    ELSE [Mounted("talk", view.clicks) EXCEPT !.talk = c]

FollowLink(t) ==
    /\ tab[t].page = "list" /\ tab[t].shown
    /\ \E c \in tab[t].listed : Show(t, Screen(tab[t], c))
    /\ UNCHANGED <<server, calls, faults>>

-----------------------------------------------------------------------------
(***************************************************************************)
(* The search page: starting and widening the search.                      *)
(***************************************************************************)
\* A match that exists is the answer, whatever became of the request since.
StartSearch(t) ==
    /\ tab[t].page = "search" /\ ~tab[t].started /\ Press(t)
    /\ IF cancelled /\ ~match
       THEN UNCHANGED match /\ Show(t, [Pressed(t) EXCEPT !.error = "refused"])
       ELSE match' = TRUE   /\ Show(t, [Pressed(t) EXCEPT !.started = TRUE])
    /\ UNCHANGED <<cancelled, candidacy, lapsed, talks, calls, faults>>

\* expandRadius runs a batch at once; its answer refreshes the page.
ExpandRadius(t) ==
    /\ tab[t].page = "search" /\ tab[t].started /\ Press(t)
    /\ \E new \in SUBSET Providers : Batch(new)
    /\ Show(t, [Pressed(t) EXCEPT !.rows = candidacy'])
    /\ UNCHANGED <<cancelled, match, lapsed, talks, calls, faults>>

-----------------------------------------------------------------------------
(***************************************************************************)
(* open: both pages' message button.  The first read of a call is part of  *)
(* the press: only what the page shows decides on a press.                 *)
(***************************************************************************)
Step(t, q, s) == opening' = [opening EXCEPT ![t][q].step = s]

\* The client names a candidacy, a provider speaks for its own.
PressChat(t, q) ==
    /\ tab[t].page \in {"search", "inbox"} /\ Press(t)
    /\ tab[t].rows[q] \in {"NOTIFIED", "VIEWED"} /\ opening[t][q].step = "none"
    /\ Show(t, Pressed(t))
    /\ opening' = [opening EXCEPT ![t][q].step = "candidacy", ![t][q].closed = cancelled]
    /\ UNCHANGED <<server, refusing, faults>>

\* resolveCandidacy, and the liveness the rest of the call goes by.
ResolveCandidacy(t, q) ==
    /\ opening[t][q].step = "candidacy"
    /\ opening' = [opening EXCEPT ![t][q].step = IF IsClient(t) THEN "find" ELSE "loadViewed",
                                  ![t][q].live = Live(q)]
    /\ UNCHANGED <<server, tab, refusing, faults>>

LoadViewed(t, q) ==
    /\ opening[t][q].step = "loadViewed"
    /\ Step(t, q, IF candidacy[q] = "NOTIFIED" THEN "saveViewed" ELSE "find")
    /\ UNCHANGED <<server, tab, refusing, faults>>

\* Mutant: a provider's open is no view of the dispatch.
NotViewed(q) == candidacy[q]

\* markCandidacyViewed: only NOTIFIED candidacies expire.
Viewed(q) == "VIEWED"

SaveViewed(t, q) ==
    /\ opening[t][q].step = "saveViewed"
    /\ candidacy' = [candidacy EXCEPT ![q] = Viewed(q)] /\ Step(t, q, "find")
    /\ UNCHANGED <<cancelled, match, lapsed, talks, tab, refusing, faults>>

Of(q) == CHOOSE c \in talks : c.provider = q
Refuse(t, q, why) ==
    /\ opening' = [opening EXCEPT ![t][q] = NoOpen]
    /\ Show(t, [tab[t] EXCEPT !.error = why])

Take(t, q, c) ==
    /\ opening' = [opening EXCEPT ![t][q].step = "view", ![t][q].talk = c]
    /\ UNCHANGED tab

FindTalk(t, q) ==
    /\ opening[t][q].step = "find"
    /\ IF \E c \in talks : c.provider = q THEN Take(t, q, Of(q))
       ELSE IF opening[t][q].closed \/ ~opening[t][q].live THEN Refuse(t, q, "closed")
       ELSE Step(t, q, "create") /\ UNCHANGED tab
    /\ UNCHANGED <<server, refusing, faults>>

\* Mutant: no unique index.
NoIndex(q) == FALSE

\* The unique index on request and provider.
Indexed(q) == \E c \in talks : c.provider = q

\* Mutant: the duplicate is reported.
Rethrow(t, q) == Refuse(t, q, "duplicate")

\* Whoever loses the race looks for the winner.
LostRace(t, q) == Step(t, q, "winner") /\ UNCHANGED tab

CreateTalk(t, q) ==
    LET c == [id |-> Cardinality(talks) + 1, provider |-> q] IN
    /\ opening[t][q].step = "create"
    /\ IF Indexed(q) THEN LostRace(t, q) /\ UNCHANGED talks
       ELSE c \in Talk /\ talks' = talks \cup {c} /\ Take(t, q, c)
    /\ UNCHANGED <<search, refusing, faults>>

FindWinner(t, q) ==
    /\ opening[t][q].step = "winner" /\ Take(t, q, Of(q))
    /\ UNCHANGED <<server, refusing, faults>>

\* viewFor, and the page goes to the conversation wherever the user is now.
ShowTalk(t, q) ==
    /\ opening[t][q].step = "view"
    /\ Show(t, [Screen(tab[t], opening[t][q].talk) EXCEPT !.engaged = CanSend(q)])
    /\ opening' = [opening EXCEPT ![t][q] = NoOpen]
    /\ UNCHANGED <<server, refusing, faults>>

-----------------------------------------------------------------------------
(***************************************************************************)
(* decline: the inbox waits for its list to be read again, so that the row *)
(* it refused cannot be refused twice.                                     *)
(***************************************************************************)
PressDecline(t) ==
    /\ tab[t].page = "inbox" /\ Press(t) /\ refusing[t] = "none"
    /\ tab[t].rows[User[t]] # "NONE"
    /\ IF candidacy[User[t]] = "DECLINED"
       THEN Show(t, [Pressed(t) EXCEPT !.error = "refused"]) /\ UNCHANGED refusing
       ELSE Show(t, Pressed(t)) /\ refusing' = [refusing EXCEPT ![t] = "save"]
    /\ UNCHANGED <<server, opening, faults>>

SaveDeclined(t) ==
    /\ refusing[t] = "save" /\ refusing' = [refusing EXCEPT ![t] = "refresh"]
    /\ candidacy' = [candidacy EXCEPT ![User[t]] = "DECLINED"]
    /\ UNCHANGED <<cancelled, match, lapsed, talks, tab, opening, faults>>

Refresh(t) ==
    /\ refusing[t] = "refresh" /\ refusing' = [refusing EXCEPT ![t] = "none"]
    /\ IF tab[t].page = "inbox" THEN Show(t, [tab[t] EXCEPT !.rows = Answerable(t)]) ELSE UNCHANGED tab
    /\ UNCHANGED <<server, opening, faults>>

-----------------------------------------------------------------------------
(***************************************************************************)
(* The composer.  ChatServer stores the message and masks it.              *)
(***************************************************************************)
Composer(view) == view.page = "talk" /\ view.shown /\ view.canSend

\* The box stays open to the keyboard while a send is in progress.  Erasing
\* one's own text is left out.
Type(t) ==
    /\ Composer(tab[t])
    /\ Show(t, [tab[t] EXCEPT !.draft = IF tab[t].sending = "no" THEN "typed" ELSE "edited"])
    /\ UNCHANGED <<server, calls, faults>>

\* Mutant: the box is emptied whatever the answer.
Emptied(view, why) == [view EXCEPT !.sending = "no", !.error = why, !.draft = "empty"]

\* The draft is kept if sending fails: all the box holds is still to be sent.
Unsent(view, why) ==
    [view EXCEPT !.sending = "no", !.error = why, !.draft = IF @ = "edited" THEN "typed" ELSE @]

PressSend(t) ==
    /\ Composer(tab[t]) /\ Press(t) /\ tab[t].draft # "empty" /\ tab[t].sending = "no"
    /\ Show(t, IF CanSend(tab[t].talk.provider) THEN [Pressed(t) EXCEPT !.sending = "insert"]
               ELSE Unsent(Pressed(t), "closed"))
    /\ UNCHANGED <<server, calls, faults>>

StoreMessage(t) ==
    /\ tab[t].sending = "insert"
    /\ Show(t, [tab[t] EXCEPT !.sending = "stored"])
    /\ UNCHANGED <<server, calls, faults>>

\* setBody(""), whatever was typed since.
Sent(t) ==
    /\ tab[t].sending = "stored"
    /\ Show(t, NoComposer(tab[t]))
    /\ UNCHANGED <<server, calls, faults>>

\* A call fails, or its answer is lost, whatever it did already.
OpenFails(t, q) ==
    /\ faults < MaxFaults /\ opening[t][q].step # "none"
    /\ Refuse(t, q, "network") /\ faults' = faults + 1
    /\ UNCHANGED <<server, refusing>>

DeclineFails(t) ==
    /\ faults < MaxFaults /\ refusing[t] # "none" /\ faults' = faults + 1
    /\ refusing' = [refusing EXCEPT ![t] = "none"]
    /\ UNCHANGED <<server, tab, opening>>

SendFails(t) ==
    /\ faults < MaxFaults /\ tab[t].sending # "no" /\ faults' = faults + 1
    /\ Show(t, Unsent(tab[t], "network"))
    /\ UNCHANGED <<server, calls>>

-----------------------------------------------------------------------------
Init ==
    /\ cancelled = FALSE /\ match = FALSE
    /\ candidacy = [q \in Providers |-> "NONE"]
    /\ lapsed = {} /\ talks = {} /\ faults = 0
    /\ tab = [t \in Tabs |-> Mounted(IF IsClient(t) THEN "search" ELSE "inbox", 0)]
    /\ opening = [t \in Tabs |-> [q \in Providers |-> NoOpen]]
    /\ refusing = [t \in Tabs |-> "none"]

OpenStep(t, q) ==
    \/ ResolveCandidacy(t, q) \/ LoadViewed(t, q) \/ SaveViewed(t, q)
    \/ FindTalk(t, q) \/ CreateTalk(t, q) \/ FindWinner(t, q) \/ ShowTalk(t, q)

DeclineStep(t) == SaveDeclined(t) \/ Refresh(t)
SendStep(t)    == StoreMessage(t) \/ Sent(t)
Query(t)       == ReadRequests(t) \/ ReadMatch(t) \/ ReadCandidates(t) \/ ReadInbox(t) \/ ReadList(t) \/ ReadTalk(t)

UserStep(t) ==
    \/ StartSearch(t) \/ ExpandRadius(t) \/ FollowRequest(t) \/ FollowLink(t)
    \/ PressDecline(t) \/ Type(t) \/ PressSend(t)
    \/ \E q \in Providers : PressChat(t, q)
    \/ \E page \in Pages : Visit(t, page)

Fails(t) == QueryFails(t) \/ DeclineFails(t) \/ SendFails(t) \/ \E q \in Providers : OpenFails(t, q)

Next ==
    \/ RunBatch \/ Cancel \/ \E q \in Providers : Lapse(q)
    \/ \E t \in Tabs : UserStep(t) \/ Query(t) \/ DeclineStep(t) \/ SendStep(t) \/ Fails(t)
    \/ \E t \in Tabs, q \in Providers : OpenStep(t, q)

Spec == Init /\ [][Next]_vars

-----------------------------------------------------------------------------
TypeOK ==
    /\ {cancelled, match} \subseteq BOOLEAN /\ faults \in Nat
    /\ candidacy \in [Providers -> Status] /\ lapsed \subseteq Providers
    /\ talks \subseteq Talk /\ tab \in [Tabs -> Tab]
    /\ opening \in [Tabs -> [Providers -> Open]]
    /\ refusing \in [Tabs -> {"none", "save", "refresh"}]

\* Two clicks, two tabs, or both sides opening at once all land on the same
\* conversation, and no two conversations of one provider are stored.
SameConversation ==
    /\ \A c, d \in talks : c.provider = d.provider => c = d
    /\ \A t \in Tabs : tab[t].talk # NoTalk =>
           tab[t].talk \in talks /\ (IsClient(t) \/ tab[t].talk.provider = User[t])

\* A provider who opened a conversation it could write in is not cut off by
\* the clock, whatever batches run: only a refusal or a cancellation closes it.
EngagedStaysOpen ==
    \A t \in Tabs : ~IsClient(t) /\ tab[t].engaged =>
        CanSend(User[t]) \/ cancelled \/ candidacy[User[t]] = "DECLINED"

\* While its composer stays on the screen, only a send that was stored and
\* answered empties the box: one that is refused, fails or goes unanswered keeps
\* both what it sent and what was typed since.
DraftKept ==
    [][\A t \in Tabs :
         /\ tab[t].draft # "empty" /\ tab'[t].draft = "empty"
         /\ Composer(tab'[t]) /\ tab'[t].talk = tab[t].talk
         => tab[t].sending = "stored" /\ faults' = faults]_vars

\* An open that found the dispatch live ends in the conversation, the loser of
\* a race included: only a failed call keeps the user where he was.
OpenLands ==
    [][\A t \in Tabs, q \in Providers :
         /\ opening[t][q].step \in {"find", "create", "winner", "view"}
         /\ opening[t][q].live /\ ~opening[t][q].closed
         /\ opening'[t][q].step = "none" /\ faults' = faults
         => tab'[t].page = "talk" /\ tab'[t].talk \in talks /\ tab'[t].talk.provider = q]_vars
=============================================================================
