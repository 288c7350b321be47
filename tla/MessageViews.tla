---------------------------- MODULE MessageViews ----------------------------
(***************************************************************************)
(* A message as each side of a conversation sees it, what the message item *)
(* of the page offers to do with it, and what MessageService lets through. *)
(* A text is a sequence of words, an age counts from the creation, and a   *)
(* deadline is the time that is left, 0 for null.                          *)
(***************************************************************************)
EXTENDS SequencesExt, Integers

\* Fifteen minutes, a day and 120 characters, in smaller units.
EditWindow   == 2
DeleteWindow == 3
ExcerptWords == 1

Nothing == [id |-> 0]
Get(stored, id) == IF \E x \in stored : x.id = id THEN CHOOSE x \in stored : x.id = id ELSE Nothing

WindowEnd(message, viewer, window) ==
    IF message.sender # viewer \/ message.deleted \/ message.age >= window THEN 0 ELSE window - message.age

\* One quotes the body as it is stored, masked where it was protected.
ReplyPreview(message, stored) ==
    LET target == Get(stored, message.replyTo) IN
    IF target = Nothing THEN Nothing
    ELSE [id |-> target.id, sender |-> target.sender, deleted |-> target.deleted,
          excerpt |-> IF target.deleted THEN <<>>
                      ELSE SubSeq(target.body, 1, IF Len(target.body) < ExcerptWords THEN Len(target.body) ELSE ExcerptWords)]

\* ready: the media that describeForDisplay knows.
ToMessageView(message, viewer, stored, ready) ==
    [id |-> message.id, seq |-> message.seq, sender |-> message.sender,
     deleted |-> message.deleted, edited |-> message.edited,
     body |-> IF message.deleted THEN <<>> ELSE message.body,
     attachments |-> IF message.deleted THEN {} ELSE message.attachments \cap ready,
     replyTo |-> IF message.deleted THEN Nothing ELSE ReplyPreview(message, stored),
     reactions |-> IF message.deleted THEN <<>> ELSE message.reactions,
     redactions |-> message.redactions,
     editableUntil |-> WindowEnd(message, viewer, EditWindow),
     deletableUntil |-> WindowEnd(message, viewer, DeleteWindow)]

\* Attachments and reply targets are looked up once for a whole page.
ViewMany(messages, viewer, stored, ready) ==
    LET shown == UNION {messages[n].attachments : n \in DOMAIN messages} \cap ready
        replies == {x \in stored : \E n \in DOMAIN messages : messages[n].replyTo = x.id} IN
    [n \in DOMAIN messages |-> ToMessageView(messages[n], viewer, replies, shown)]

ViewOne(message, viewer, stored, ready) == ViewMany(<<message>>, viewer, stored, ready)[1]

\* What is published: to each participant the participant's own view.
ViewsForBoth(message, participants, stored, ready) ==
    [user \in participants |-> ViewOne(message, user, stored, ready)]

\* The newest first, of those that contain the word.
Search(stored, word) ==
    {m.id : m \in {x \in stored : ~x.deleted /\ Contains(x.body, word)}}

-----------------------------------------------------------------------------
(***************************************************************************)
(* What the service lets through.                                          *)
(***************************************************************************)
OwnMessage(message, user) == message.sender = user /\ ~message.deleted

WithinWindow(message, window) == message.age <= window

MayEdit(message, user, canSend) == OwnMessage(message, user) /\ WithinWindow(message, EditWindow) /\ canSend
MayRemove(message, user) == OwnMessage(message, user) /\ WithinWindow(message, DeleteWindow)
MayReact(message, canSend) == ~message.deleted /\ canSend
MayReplyTo(stored, id, canSend) == canSend /\ Get(stored, id) # Nothing

\* Setting replaces, "none" removes.
SetReaction(message, user, emoji) ==
    LET others == SelectSeq(message.reactions, LAMBDA r : r.user # user) IN
    [message EXCEPT !.reactions = IF emoji = "none" THEN others ELSE Append(others, [user |-> user, emoji |-> emoji])]

-----------------------------------------------------------------------------
(***************************************************************************)
(* The message item of the page.                                           *)
(***************************************************************************)
\* waited: the time since the view was made.
StillBefore(deadline, waited) == deadline # 0 /\ deadline > waited

Actions(view, me, canAct, waited) ==
    IF view.deleted \/ ~canAct THEN {}
    ELSE {"reply", "react"}
         \cup (IF view.sender = me /\ StillBefore(view.editableUntil, waited) THEN {"edit"} ELSE {})
         \cup (IF view.sender = me /\ StillBefore(view.deletableUntil, waited) THEN {"delete"} ELSE {})

WasMasked(view) == view.redactions \ {"OFF_PLATFORM"} # {}

MyReaction(view, me) ==
    LET n == SelectInSeq(view.reactions, LAMBDA r : r.user = me) IN
    IF n = 0 THEN "none" ELSE view.reactions[n].emoji

\* Picking the emoji that is already mine takes it back.
Picked(view, me, emoji) == IF MyReaction(view, me) = emoji THEN "none" ELSE emoji

SummarizeReactions(view, me) ==
    FoldLeft(LAMBDA summary, r :
                LET before == IF r.emoji \in DOMAIN summary THEN summary[r.emoji] ELSE [count |-> 0, mine |-> FALSE] IN
                (r.emoji :> [count |-> before.count + 1, mine |-> before.mine \/ r.user = me]) @@ summary,
             <<>>, view.reactions)

\* The bubble: whose it is, the notice of what was masked in one's own
\* message, the author of what it quotes.
Bubble(view, me, canAct, waited) ==
    [own |-> view.sender = me, deleted |-> view.deleted, edited |-> view.edited,
     notice |-> view.sender = me /\ WasMasked(view),
     quoted |-> IF view.replyTo = Nothing THEN "nobody" ELSE IF view.replyTo.sender = me THEN "me" ELSE "counterpart",
     reactions |-> SummarizeReactions(view, me), actions |-> Actions(view, me, canAct, waited)]

\* Which messages are news: those above the highest seq of the first load.
Unsettled == -1
SettleBaseline(current, loading, seqs) ==
    IF current # Unsettled \/ loading THEN current
    ELSE CHOOSE s \in seqs \cup {0} : \A t \in seqs : t <= s

IsArrival(seq, baseline) == baseline # Unsettled /\ seq > baseline
=============================================================================
