----------------------------- MODULE ChatServer -----------------------------
(***************************************************************************)
(* One conversation on the server (apps/api/src/chat): sending, editing,   *)
(* removing and reacting, receipts, and the pushes that follow a write.    *)
(*                                                                         *)
(* A handler is an HTTP request being served.  It advances one database    *)
(* call at a time on the conversation and message documents it loaded      *)
(* earlier; a push goes to the sockets connected when it is emitted.       *)
(***************************************************************************)
EXTENDS Documents, Integers, FiniteSets, Sequences

CONSTANTS
    Ids,         \* the client message ids in use
    Author,      \* Author[i]: the side that sends i
    Texts,       \* Texts \subseteq {"plain"} \cup Details: what people type
    Handlers,    \* concurrent HTTP requests
    Operations,  \* the calls the environment makes in this instance
    MaxSeq,      \* bound on allocated sequence numbers
    MaxVersion   \* bound on the version of a message

\* The kinds of contact detail a text can show, and a detection can name.
Details == {"phone", "email"}

Roles == {"CLIENT", "PROVIDER"}
Other(r) == IF r = "CLIENT" THEN "PROVIDER" ELSE "CLIENT"

AllOperations == {"close", "lapse", "unlock", "edit", "remove", "react", "receipts", "crash"}

ASSUME ChatAssumption ==
    /\ Author \in [Ids -> Roles]
    /\ Texts \subseteq {"plain"} \cup Details
    /\ Operations \subseteq AllOperations
    /\ MaxSeq \in Nat /\ MaxVersion \in Nat \ {0}

VARIABLES
    chat,      \* the conversation document, and what canSend depends on
    messages,  \* the messages collection
    rooms,     \* rooms[r]: events on their way to the socket of side r
    online,    \* the sides whose socket is connected
    pc,        \* pc[p]: the call handler p makes next
    caller,    \* caller[p]: the side that made the request
    conv,      \* conv[p]: the conversation as p loaded it
    base,      \* base[p]: the message as p loaded it
    draft,     \* draft[p]: that message as p holds it now
    upTo       \* upTo[p]: the seq p was asked to acknowledge

server  == <<chat, messages>>
sockets == <<rooms, online>>
locals  == <<pc, caller, conv, base, draft, upTo>>

NoMessage == [id |-> "none", seq |-> 0, version |-> 0, text |-> "plain", edited |-> FALSE,
              redactions |-> << >>, reactions |-> {}, deleted |-> FALSE]
NoMarks   == [r \in Roles |-> [delivered |-> 0, read |-> 0]]
NewChat   == [lastSeq |-> 0, policy |-> "PROTECTED", marks |-> NoMarks,
              closed |-> FALSE, live |-> TRUE]

Stored == {m.id : m \in messages}
Find(i) == CHOOSE m \in messages : m.id = i

(***************************************************************************)
(* Views and pushes.                                                       *)
(***************************************************************************)
\* deliveryStatusFor: how far the other side has got, for one's own message.
Tick(m, r, c) ==
    IF Author[m.id] # r THEN "none"
    ELSE IF c.marks[Other(r)].read >= m.seq THEN "READ"
    ELSE IF c.marks[Other(r)].delivered >= m.seq THEN "DELIVERED"
    ELSE "SENT"

\* toMessageView: a deleted message shows nothing.
View(m, r, c) ==
    [id |-> m.id, seq |-> m.seq, version |-> m.version, deleted |-> m.deleted,
     text      |-> IF m.deleted THEN "none" ELSE m.text,
     edited    |-> m.edited,
     reactions |-> IF m.deleted THEN {} ELSE m.reactions,
     tick      |-> Tick(m, r, c)]

\* An emit to a room without a socket is dropped.
Push(events) ==
    rooms' = [r \in Roles |-> IF r \in online THEN Append(rooms[r], events[r]) ELSE rooms[r]]

MessageEvents(m, c)   == [r \in Roles |-> [kind |-> "message", view |-> View(m, r, c)]]
ReceiptsEvents(s, mk) == [r \in Roles |-> [kind |-> "receipts", role |-> s, mark |-> mk]]

(***************************************************************************)
(* Control of a handler.                                                   *)
(***************************************************************************)
Go(p, label) == /\ pc' = [pc EXCEPT ![p] = label]
                /\ UNCHANGED <<caller, conv, base, draft, upTo>>

Hold(p, m, label) == /\ pc'    = [pc    EXCEPT ![p] = label]
                     /\ draft' = [draft EXCEPT ![p] = m]
                     /\ UNCHANGED <<caller, conv, base, upTo>>

Finish(p) == /\ pc'     = [pc     EXCEPT ![p] = "idle"]
             /\ caller' = [caller EXCEPT ![p] = "CLIENT"]
             /\ conv'   = [conv   EXCEPT ![p] = NewChat]
             /\ base'   = [base   EXCEPT ![p] = NoMessage]
             /\ draft'  = [draft  EXCEPT ![p] = NoMessage]
             /\ upTo'   = [upTo   EXCEPT ![p] = 0]

\* requireParticipant: the conversation is loaded; wish and seq are the body.
Enter(p, r, wish, seq, label) ==
    /\ pc[p] = "idle"
    /\ pc'     = [pc     EXCEPT ![p] = label]
    /\ caller' = [caller EXCEPT ![p] = r]
    /\ conv'   = [conv   EXCEPT ![p] = chat]
    /\ draft'  = [draft  EXCEPT ![p] = wish]
    /\ upTo'   = [upTo   EXCEPT ![p] = seq]
    /\ UNCHANGED base

\* The calls of a send that come before its number is taken.
Sending == {"replay", "check", "allocate"}

\* computeCanSend, from the conversation the handler loaded and the request
\* and candidacy as they are now.
CanSend(p) == ~chat.closed /\ (conv[p].policy = "UNLOCKED" \/ chat.live)

\* Mutant: the text is stored as typed.
StoreAsTyped(m, policy) == m

\* ContactDetectionService.protect: a contact detail is masked, and its kind
\* added to the detections of the message, unless contact is unlocked.
Protect(m, policy) ==
    IF policy = "PROTECTED" /\ m.text \in Details
    THEN [m EXCEPT !.text = "masked", !.redactions = Append(@, m.text)]
    ELSE m

-----------------------------------------------------------------------------
(***************************************************************************)
(* MessageService.send                                                     *)
(***************************************************************************)
\* MaxSeq bounds the sends that may still take a number.
Send(p, i, text) ==
    /\ chat.lastSeq + Cardinality({q \in Handlers : pc[q] \in Sending}) < MaxSeq
    /\ LET m == [NoMessage EXCEPT !.id = i, !.version = 1, !.text = text]
       IN  Enter(p, Author[i], m, 0, "replay")
    /\ UNCHANGED <<server, sockets>>

\* A message already stored is the answer, whatever happened since.
Replay(p) ==
    /\ pc[p] = "replay"
    /\ IF draft[p].id \in Stored THEN Hold(p, Find(draft[p].id), "answer") ELSE Go(p, "check")
    /\ UNCHANGED <<server, sockets>>

Check(p) ==
    /\ pc[p] = "check"
    /\ IF CanSend(p) THEN Hold(p, Protect(draft[p], conv[p].policy), "allocate") ELSE Finish(p)
    /\ UNCHANGED <<server, sockets>>

\* findOneAndUpdate with $inc.
NextSeq(c) == c.lastSeq + 1

AllocateSeq(p) ==
    /\ pc[p] = "allocate"
    /\ chat' = [chat EXCEPT !.lastSeq = NextSeq(chat)]
    /\ pc'    = [pc    EXCEPT ![p] = "insert"]
    /\ conv'  = [conv  EXCEPT ![p] = chat']
    /\ draft' = [draft EXCEPT ![p].seq = NextSeq(chat)]
    /\ UNCHANGED <<messages, sockets, caller, base, upTo>>

\* Mutant: the collection without its unique index.
NeverStored(m) == FALSE

\* The unique index on (conversation, sender, clientMessageId).
AlreadyStored(m) == m.id \in Stored

\* insertOnce: the loser of the index goes on with the winner's message.
InsertOnce(p) ==
    /\ pc[p] = "insert"
    /\ IF AlreadyStored(draft[p])
       THEN Hold(p, Find(draft[p].id), "publish") /\ UNCHANGED messages
       ELSE messages' = messages \cup {draft[p]} /\ Go(p, "publish")
    /\ UNCHANGED <<chat, sockets>>

\* messageCreated or messageUpdated, with the views of the document in memory.
Publish(p) ==
    /\ pc[p] = "publish"
    /\ Push(MessageEvents(draft[p], conv[p]))
    /\ Go(p, "answer")
    /\ UNCHANGED <<server, online>>

-----------------------------------------------------------------------------
(***************************************************************************)
(* MessageService.edit, remove and setReaction: load, check, save, publish *)
(***************************************************************************)
\* Mutant: an edit forgets the detections of the text it replaces.
ForgetDetections(m, policy, text) ==
    Protect([m EXCEPT !.text = text, !.edited = TRUE, !.redactions = << >>, !.version = @ + 1], policy)

\* The detections of the new text come after those of the copy that was loaded.
Edited(m, policy, text) ==
    Protect([m EXCEPT !.text = text, !.edited = TRUE, !.version = @ + 1], policy)

Removed(m)   == [m EXCEPT !.deleted = TRUE, !.version = @ + 1]
\* One reaction per user: setting replaces, null removes.
Reacted(m, r, on) == [m EXCEPT !.reactions = IF on THEN @ \cup {r} ELSE @ \ {r}, !.version = @ + 1]

\* Only the sender edits or removes; either side reacts.
Change(p, m) ==
    /\ m.version < MaxVersion
    /\ LET wish == [NoMessage EXCEPT !.id = m.id] IN
       \/ /\ "edit" \in Operations
          /\ \E text \in Texts : Enter(p, Author[m.id], [wish EXCEPT !.text = text], 0, "edit")
       \/ /\ "remove" \in Operations
          /\ Enter(p, Author[m.id], wish, 0, "remove")
       \/ /\ "react" \in Operations
          /\ \E r \in Roles, on \in BOOLEAN :
                Enter(p, r, [wish EXCEPT !.reactions = IF on THEN {r} ELSE {}], 0, "react")
    /\ UNCHANGED <<server, sockets>>

\* requireMessageIn: the message is loaded and changed in memory.
LoadMessage(p) ==
    /\ pc[p] \in {"edit", "remove", "react"}
    /\ LET m == Find(draft[p].id)
           changed == CASE pc[p] = "edit"   -> Edited(m, conv[p].policy, draft[p].text)
                        [] pc[p] = "remove" -> Removed(m)
                        [] pc[p] = "react"  -> Reacted(m, caller[p], draft[p].reactions # {})
       IN  IF m.deleted THEN Finish(p)
           ELSE /\ pc'    = [pc    EXCEPT ![p] = IF @ = "remove" THEN "save" ELSE "checkSave"]
                /\ base'  = [base  EXCEPT ![p] = m]
                /\ draft' = [draft EXCEPT ![p] = changed]
                /\ UNCHANGED <<caller, conv, upTo>>
    /\ UNCHANGED <<server, sockets>>

CheckSave(p) ==
    /\ pc[p] = "checkSave"
    /\ IF CanSend(p) THEN Go(p, "save") ELSE Finish(p)
    /\ UNCHANGED <<server, sockets>>

\* message.save() of a document whose paths may have changed since.  A list is
\* one path: the detections are replaced by those the handler holds.
SaveMessage(p) ==
    /\ pc[p] = "save"
    /\ LET old == base[p]  new == draft[p]
           saved(m) == [m EXCEPT
               !.version   = SetIfModified(old.version, new.version, @),
               !.text      = SetIfModified(old.text, new.text, @),
               !.edited    = SetIfModified(old.edited, new.edited, @),
               !.redactions = SetIfModified(old.redactions, new.redactions, @),
               !.reactions = SetIfModified(old.reactions, new.reactions, @),
               !.deleted   = SetIfModified(old.deleted, new.deleted, @)]
       IN  messages' = {IF m.id = new.id THEN saved(m) ELSE m : m \in messages}
    /\ Go(p, "publish")
    /\ UNCHANGED <<chat, sockets>>

-----------------------------------------------------------------------------
(***************************************************************************)
(* markDelivered and markRead                                              *)
(***************************************************************************)
Acknowledge(p, r, seq, label) ==
    /\ Enter(p, r, NoMessage, seq, label)
    /\ UNCHANGED <<server, sockets>>

\* Mutant: a watermark that goes where it is told.
MoveTo(old, new) == new

\* $max
Raise(old, new) == IF new > old THEN new ELSE old

\* Mutant: an acknowledgement taken at its word.
Unclamped(seq, c) == seq

\* Clamped to the last seq of the conversation as it was loaded.
Clamp(seq, c) == IF seq < c.lastSeq THEN seq ELSE c.lastSeq

\* advanceWatermarks; a mark that did not move is no news.
AdvanceWatermarks(p) ==
    /\ pc[p] \in {"markDelivered", "markRead"}
    /\ LET r    == caller[p]
           seq  == Clamp(upTo[p], conv[p])
           mark == [delivered |-> Raise(chat.marks[r].delivered, seq),
                    read      |-> IF pc[p] = "markRead" THEN Raise(chat.marks[r].read, seq)
                                                        ELSE chat.marks[r].read]
       IN  /\ chat' = [chat EXCEPT !.marks[r] = mark]
           /\ IF mark = conv[p].marks[r] THEN Finish(p)
              ELSE /\ pc'   = [pc   EXCEPT ![p] = "announce"]
                   /\ conv' = [conv EXCEPT ![p] = chat']
                   /\ UNCHANGED <<caller, base, draft, upTo>>
    /\ UNCHANGED <<messages, sockets>>

\* receiptsUpdated
Announce(p) ==
    /\ pc[p] = "announce"
    /\ Push(ReceiptsEvents(caller[p], conv[p].marks[caller[p]]))
    /\ Finish(p)
    /\ UNCHANGED <<server, online>>

-----------------------------------------------------------------------------
(***************************************************************************)
(* What other modules do to the conversation.                              *)
(***************************************************************************)
\* unlockContact: called when an offer is accepted.
UnlockContact ==
    /\ "unlock" \in Operations /\ chat.policy = "PROTECTED"
    /\ chat' = [chat EXCEPT !.policy = "UNLOCKED"]
    /\ UNCHANGED <<messages, sockets, locals>>

\* The request is cancelled or expires.
CloseRequest ==
    /\ "close" \in Operations /\ ~chat.closed
    /\ chat' = [chat EXCEPT !.closed = TRUE]
    /\ UNCHANGED <<messages, sockets, locals>>

\* The candidacy lapses or is declined, or comes back with a later dispatch.
ChangeCandidacy ==
    /\ "lapse" \in Operations
    /\ chat' = [chat EXCEPT !.live = ~@]
    /\ UNCHANGED <<messages, sockets, locals>>

\* The replica serving p dies between two calls.
Crash(p) ==
    /\ "crash" \in Operations /\ pc[p] # "idle"
    /\ Finish(p)
    /\ UNCHANGED <<server, sockets>>

\* The answer reaches whoever waits for it.
Answer(p) ==
    /\ pc[p] = "answer"
    /\ Finish(p)
    /\ UNCHANGED <<server, sockets>>

ServerInit ==
    /\ chat = NewChat
    /\ messages = {}
    /\ rooms = [r \in Roles |-> << >>]
    /\ pc     = [p \in Handlers |-> "idle"]
    /\ caller = [p \in Handlers |-> "CLIENT"]
    /\ conv   = [p \in Handlers |-> NewChat]
    /\ base   = [p \in Handlers |-> NoMessage]
    /\ draft  = [p \in Handlers |-> NoMessage]
    /\ upTo   = [p \in Handlers |-> 0]

\* A request that begins.
Request(p) ==
    \/ \E i \in Ids, text \in Texts : Send(p, i, text)
    \/ \E m \in messages : Change(p, m)
    \/ /\ "receipts" \in Operations
       /\ \E r \in Roles, seq \in 1..MaxSeq, label \in {"markDelivered", "markRead"} :
              Acknowledge(p, r, seq, label)

\* The next await of one in progress.
Continue(p) ==
    \/ Replay(p) \/ Check(p) \/ AllocateSeq(p) \/ InsertOnce(p) \/ Publish(p)
    \/ LoadMessage(p) \/ CheckSave(p) \/ SaveMessage(p)
    \/ AdvanceWatermarks(p) \/ Announce(p)

Outside == UnlockContact \/ CloseRequest \/ ChangeCandidacy

-----------------------------------------------------------------------------
(***************************************************************************)
(* Correctness of what the server stores.                                  *)
(***************************************************************************)
Detections == Seq(Details)
MessageDocs == [id : Ids \cup {"none"}, seq : Nat, version : Nat, text : Texts \cup {"plain", "masked"},
                edited : BOOLEAN, redactions : Detections, reactions : SUBSET Roles, deleted : BOOLEAN]
ChatDocs    == [lastSeq : Nat, policy : {"PROTECTED", "UNLOCKED"},
                marks : [Roles -> [delivered : Nat, read : Nat]], closed : BOOLEAN, live : BOOLEAN]
Labels      == Sending \cup {"idle", "insert", "publish", "answer", "edit", "remove", "react",
                             "checkSave", "save", "markDelivered", "markRead", "announce"}

\* Types; and nothing waits in the room of a side that is not connected.
TypeOK ==
    /\ chat \in ChatDocs
    /\ messages \subseteq MessageDocs /\ \A m \in messages : m.id \in Ids
    /\ pc \in [Handlers -> Labels]
    /\ caller \in [Handlers -> Roles]
    /\ conv \in [Handlers -> ChatDocs]
    /\ base \in [Handlers -> MessageDocs] /\ draft \in [Handlers -> MessageDocs]
    /\ upTo \in [Handlers -> Nat]
    /\ online \subseteq Roles
    /\ \A r \in Roles \ online : rooms[r] = << >>

\* A seq names one message, and none was stored without being allocated: it is
\* the cursor of every page and catch-up.  The unique index on (conversation,
\* seq), left out here, would never refuse an insert.
SeqNamesMessage ==
    /\ \A m, n \in messages : m.seq = n.seq => m = n
    /\ \A m \in messages : m.seq \in 1..chat.lastSeq

\* However often a send is repeated, and whatever races, one message is stored
\* for its clientMessageId.
SentOnce == \A m, n \in messages : m.id = n.id => m = n

\* Reading implies having received, and nobody acknowledges past the last
\* allocated seq, although the clamp uses a conversation loaded earlier.
MarksOrdered ==
    \A r \in Roles : /\ chat.marks[r].read <= chat.marks[r].delivered
                     /\ chat.marks[r].delivered <= chat.lastSeq

\* While contact is protected no stored text shows a contact detail, edits of
\* an innocent message included.
NoContactBeforeUnlock == chat.policy = "PROTECTED" => \A m \in messages : m.text \notin Details

\* What becomes of a list of detections when one text is moderated.
Moderated(old, new) == new = old \/ \E kind \in Details : new = Append(old, kind)

\* The save of an edit whose handler had read other detections than m has now.
StaleSave(m, n) ==
    \E p \in Handlers : /\ pc[p] = "save" /\ draft[p].id = m.id
                       /\ base[p].redactions # m.redactions
                       /\ n.redactions = draft[p].redactions

\* No save brings back a deleted message or leaves a moderated message without
\* a detection, and none drops a detection its handler had read.  A detection
\* recorded meanwhile by another edit can be lost to the one a stale save adds.
ModerationKept ==
    [][\A m \in messages, n \in messages' :
          m.id = n.id =>
              /\ m.deleted => n.deleted
              /\ m.redactions # << >> => n.redactions # << >>
              /\ Moderated(m.redactions, n.redactions) \/ StaleSave(m, n)]_server

\* Watermarks only move forward.
MarksForward ==
    [][\A r \in Roles : /\ chat'.marks[r].delivered >= chat.marks[r].delivered
                        /\ chat'.marks[r].read >= chat.marks[r].read]_server
=============================================================================
