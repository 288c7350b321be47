----------------------------- MODULE ChatThread -----------------------------
(***************************************************************************)
(* A conversation open in browser tabs (apps/web/src/lib/use-chat-thread.ts*)
(* and realtime.ts) on top of the server: the first page, the pushes of    *)
(* the socket, the catch-up after a reconnection, the receipts.            *)
(*                                                                         *)
(* A page is read on the server at one moment and reaches the tab later;   *)
(* pushes may arrive in between.                                           *)
(***************************************************************************)
EXTENDS ChatServer

CONSTANTS
    Tabs,       \* the sides whose tab is modelled, at most one each
    PageSize,   \* messages per page of GET .../messages
    Loaded,     \* is the first page of a thread, still empty, already there?
    Faults,     \* Faults \subseteq {"drop", "fail"}: connections that drop, page
                \* requests that fail
    MaxFaults   \* bound on their number

ASSUME ThreadAssumption ==
    /\ Tabs \subseteq Roles /\ PageSize \in Nat \ {0} /\ Loaded \in BOOLEAN
    /\ Faults \subseteq {"drop", "fail"} /\ MaxFaults \in Nat

VARIABLES
    held,     \* held[r]: the messages the tab shows, keyed by id
    loaded,   \* loaded[r]: loadedRef
    hasOlder, \* hasOlder[r]: is there history before the first page?
    fetches,  \* fetches[r]: pages asked for and not yet merged
    acked,    \* acked[r]: acknowledgedRef
    faults

tab  == <<held, loaded, hasOlder, fetches, acked, faults>>
vars == <<server, sockets, locals, tab>>

\* Mutant: the last one to arrive wins.
LastWins(new, old) == TRUE

\* A newer version replaces the one held, an equal one too.
Wins(new, old) == new.version >= old.version

\* upsertMessages
Upsert(current, incoming) ==
    {c \in current : \A m \in incoming : m.id = c.id => ~Wins(m, c)}
        \cup {m \in incoming : \A c \in current : c.id = m.id => Wins(m, c)}

Rank(t) == CASE t = "SENT" -> 0 [] t = "DELIVERED" -> 1 [] t = "READ" -> 2

\* applyReceipts: the other side's watermarks, applied to my messages.
ApplyReceipts(current, event, r) ==
    LET reached(m) == IF m.seq <= event.mark.read THEN "READ"
                      ELSE IF m.seq <= event.mark.delivered THEN "DELIVERED" ELSE "SENT"
    IN  {IF m.tick # "none" /\ event.role # r /\ Rank(reached(m)) > Rank(m.tick)
         THEN [m EXCEPT !.tick = reached(m)] ELSE m : m \in current}

Highest(views) == IF views = {} THEN 0
                  ELSE CHOOSE n \in {m.seq : m \in views} : \A m \in views : m.seq <= n

\* Mutant: a catch-up that starts from the newest message.
NewestFirst(f, m, n) == n.seq > m.seq

\* What comes before m on a page: the first page shows the newest messages,
\* a catch-up starts with the oldest.
Before(f, m, n) == IF f.kind = "first" THEN n.seq > m.seq ELSE n.seq < m.seq

\* MessageService.list: the last page, or the first one after a cursor.
Page(f, r) ==
    LET beyond == {m \in messages : f.kind = "first" \/ m.seq > f.after}
        kept   == {m \in beyond : Cardinality({n \in beyond : Before(f, m, n)}) < PageSize}
    IN  [views |-> {View(m, r, chat) : m \in kept}, more |-> kept # beyond]

Fetch(kind, after) ==
    [kind |-> kind, after |-> after, read |-> FALSE, page |-> [views |-> {}, more |-> FALSE]]

\* maxSeq(messagesRef.current)
CatchUpCursor(r) == Highest(held[r])

-----------------------------------------------------------------------------
\* The effect of useChatThread: the first page is asked for, and again when
\* the reader retries; a page asked for before is then ignored.
AskFirstPage(r) ==
    /\ ~loaded[r] /\ \A f \in fetches[r] : f.kind # "first"
    /\ fetches' = [fetches EXCEPT ![r] = @ \cup {Fetch("first", 0)}]
    /\ UNCHANGED <<server, sockets, locals, held, loaded, hasOlder, acked, faults>>

\* The server answers a page request.
ReadPage(r) ==
    /\ \E f \in fetches[r] :
         /\ ~f.read
         /\ fetches' = [fetches EXCEPT ![r] =
               (@ \ {f}) \cup {[f EXCEPT !.read = TRUE, !.page = Page(f, r)]}]
    /\ UNCHANGED <<server, sockets, locals, held, loaded, hasOlder, acked, faults>>

\* The first page REPLACES what is held; loadedRef is set.
ShowFirstPage(r, f) ==
    /\ f.kind = "first"
    /\ held'    = [held EXCEPT ![r] = f.page.views]
    /\ loaded'  = [loaded EXCEPT ![r] = TRUE]
    /\ hasOlder' = [hasOlder EXCEPT ![r] = f.page.more]
    /\ fetches' = [fetches EXCEPT ![r] = @ \ {f}]

\* catchUp merges a page and asks for the next one while there is more.
MergePage(r, f) ==
    /\ f.kind = "catchUp"
    /\ held'    = [held EXCEPT ![r] = Upsert(@, f.page.views)]
    /\ fetches' = [fetches EXCEPT ![r] = (@ \ {f}) \cup
          (IF f.page.more THEN {Fetch("catchUp", Highest(f.page.views))} ELSE {})]
    /\ UNCHANGED <<loaded, hasOlder>>

TakePage(r) ==
    /\ \E f \in fetches[r] : f.read /\ (ShowFirstPage(r, f) \/ MergePage(r, f))
    /\ UNCHANGED <<server, sockets, locals, acked, faults>>

\* A page request fails: the reader may ask for the first page again, nobody
\* repeats a catch-up.
FailPage(r) ==
    /\ "fail" \in Faults /\ faults < MaxFaults
    /\ \E f \in fetches[r] : fetches' = [fetches EXCEPT ![r] = @ \ {f}]
    /\ faults' = faults + 1
    /\ UNCHANGED <<server, sockets, locals, held, loaded, hasOlder, acked>>

\* onMessage and onReceipts.
Receive(r) ==
    /\ rooms[r] # << >>
    /\ LET event == Head(rooms[r]) IN
       held' = [held EXCEPT ![r] = IF event.kind = "message" THEN Upsert(@, {event.view})
                                                             ELSE ApplyReceipts(@, event, r)]
    /\ rooms' = [rooms EXCEPT ![r] = Tail(@)]
    /\ UNCHANGED <<server, online, locals, loaded, hasOlder, fetches, acked, faults>>

\* The connection breaks: what was on its way is lost.
Disconnect(r) ==
    /\ "drop" \in Faults /\ faults < MaxFaults /\ r \in online
    /\ online' = online \ {r}
    /\ rooms'  = [rooms EXCEPT ![r] = << >>]
    /\ faults'  = faults + 1
    /\ UNCHANGED <<server, locals, held, loaded, hasOlder, fetches, acked>>

\* onConnect: catch up from the database, if the first page is there.
Connect(r) ==
    /\ r \notin online
    /\ online'  = online \cup {r}
    /\ fetches' = [fetches EXCEPT ![r] = IF loaded[r] THEN @ \cup {Fetch("catchUp", CatchUpCursor(r))} ELSE @]
    /\ UNCHANGED <<server, rooms, locals, held, loaded, hasOlder, acked, faults>>

\* useReadReceipts: the highest seq of the other side, once per advance; read
\* while the tab is visible, delivered while it is not.
AcknowledgeHeld(p, r) ==
    LET highest == Highest({m \in held[r] : Author[m.id] # r}) IN
    /\ \/ /\ highest > acked[r].read
          /\ acked' = [acked EXCEPT ![r] = [read |-> highest, delivered |-> Raise(@.delivered, highest)]]
          /\ Acknowledge(p, r, highest, "markRead")
       \/ /\ highest > acked[r].delivered
          /\ acked' = [acked EXCEPT ![r].delivered = highest]
          /\ Acknowledge(p, r, highest, "markDelivered")
    /\ UNCHANGED <<held, loaded, hasOlder, fetches, faults>>

\* Whoever changes a message from a tab sees it there.
Ask(p) ==
    /\ Request(p)
    /\ pc'[p] \in {"edit", "remove", "react"} /\ caller'[p] \in Tabs
          => \E v \in held[caller'[p]] : v.id = draft'[p].id
    /\ UNCHANGED tab

\* The answer of send, edit, remove or react is merged by the tab that asked.
TakeAnswer(p) ==
    /\ Answer(p)
    /\ held' = [held EXCEPT ![caller[p]] =
          IF caller[p] \in Tabs THEN Upsert(@, {View(draft[p], caller[p], conv[p])}) ELSE @]
    /\ UNCHANGED <<loaded, hasOlder, fetches, acked, faults>>

-----------------------------------------------------------------------------
Init ==
    /\ ServerInit
    /\ online  = Tabs
    /\ held    = [r \in Roles |-> {}]
    /\ loaded  = [r \in Roles |-> Loaded]
    /\ hasOlder = [r \in Roles |-> FALSE]
    /\ fetches = [r \in Roles |-> {}]
    /\ acked   = [r \in Roles |-> [read |-> 0, delivered |-> 0]]
    /\ faults   = 0

\* Work in progress, on the server and in the tabs.
Progress ==
    \/ \E p \in Handlers : (Continue(p) /\ UNCHANGED tab) \/ TakeAnswer(p)
    \/ \E r \in Tabs : AskFirstPage(r) \/ ReadPage(r) \/ TakePage(r) \/ Receive(r) \/ Connect(r)

Next ==
    \/ Progress
    \/ \E p \in Handlers : Ask(p) \/ (Crash(p) /\ UNCHANGED tab)
    \/ \E p \in Handlers, r \in Tabs : AcknowledgeHeld(p, r)
    \/ \E r \in Tabs : Disconnect(r) \/ FailPage(r)
    \/ Outside /\ UNCHANGED tab

Spec == Init /\ [][Next]_vars

-----------------------------------------------------------------------------
(***************************************************************************)
(* Correctness.                                                            *)
(***************************************************************************)
\* Nothing is under way: every request answered, every push and page taken.
Settled ==
    /\ \A p \in Handlers : pc[p] = "idle"
    /\ \A r \in Tabs : r \in online /\ loaded[r] /\ rooms[r] = << >> /\ fetches[r] = {}

\* A connected tab with nothing under way shows every message stored, but for
\* the history before its first page ("A failed or missed push loses nothing").
NothingMissed ==
    Settled => \A r \in Tabs : \A m \in messages :
        \/ \E v \in held[r] : v.id = m.id
        \/ hasOlder[r] /\ \A v \in held[r] : v.seq > m.seq

\* What the tab shows of a message never goes back to an older version.
VersionsForward ==
    [][\A r \in Tabs : \A v \in held[r], w \in held'[r] : v.id = w.id => w.version >= v.version]_vars
=============================================================================
