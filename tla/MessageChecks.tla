--------------------------- MODULE MessageChecks ----------------------------
(***************************************************************************)
(* The views and the buttons of messages, over every pair of a message and *)
(* a reply to it.  The statements are assumptions, so that TLC evaluates   *)
(* them.                                                                   *)
(***************************************************************************)
EXTENDS MessageViews

Sides == {"client", "provider"}
Emojis == {"thumb", "heart"}

Originals ==
    {[id |-> 1, seq |-> 1, sender |-> sender, age |-> age, deleted |-> deleted, edited |-> FALSE,
      body |-> body, attachments |-> media, replyTo |-> 0,
      reactions |-> reactions, redactions |-> redactions]
       : sender \in Sides, age \in 0..4, deleted \in BOOLEAN, body \in {<<"call">>, <<"call", "mask">>},
         media \in {{}, {1, 2}}, redactions \in {{}, {"PHONE"}, {"OFF_PLATFORM"}},
         reactions \in {<<>>, <<[user |-> "client", emoji |-> "heart"]>>,
                        <<[user |-> "client", emoji |-> "heart"], [user |-> "provider", emoji |-> "thumb"]>>}}

Reply(sender) ==
    [id |-> 2, seq |-> 2, sender |-> sender, age |-> 0, deleted |-> FALSE, edited |-> FALSE, body |-> <<"ok">>,
     attachments |-> {2, 3}, replyTo |-> 1, reactions |-> <<>>, redactions |-> {}]

\* "hidden from both sides" (message.service.ts:194): once a message is
\* removed, neither side finds anything of what it said, in its own view, in a
\* reply that quotes it or in a search, and nothing is offered for it.
ASSUME DeletedIsGone ==
    \A m \in Originals, sender, viewer \in Sides :
        LET stored == {m, Reply(sender)}
            views == ViewMany(<<m, Reply(sender)>>, viewer, stored, {1, 2, 3}) IN
        /\ m.deleted =>
             /\ views[1].body = <<>> /\ views[1].attachments = {} /\ views[1].reactions = <<>>
             /\ views[2].replyTo.deleted /\ views[2].replyTo.excerpt = <<>>
             /\ \A word \in ToSet(m.body) : 1 \notin Search(stored, word)
             /\ Actions(views[1], viewer, TRUE, 0) = {}
        /\ ~m.deleted => /\ IsPrefix(views[2].replyTo.excerpt, m.body)
                         /\ \A word \in ToSet(m.body) : 1 \in Search(stored, word)

\* "the UI only hides a button once one has passed" (message-item.tsx:25):
\* however long ago the view was made, a button that is offered leads to a call
\* the service accepts, to each side its own.
ASSUME OfferedIsAccepted ==
    \A m \in Originals, viewer \in Sides, canSend \in BOOLEAN, waited \in 0..3 :
        LET actions == Actions(ViewOne(m, viewer, {m}, {}), viewer, canSend, waited)
            later == [m EXCEPT !.age = @ + waited] IN
        /\ "edit" \in actions => MayEdit(later, viewer, canSend) /\ "delete" \in actions
        /\ "delete" \in actions => MayRemove(later, viewer)
        /\ "react" \in actions => MayReact(later, canSend)
        /\ "reply" \in actions => MayReplyTo({later}, m.id, canSend)
        /\ MayEdit(later, viewer, canSend) => "edit" \in actions \/ later.age = EditWindow

\* message.service.ts:312, "each gets their own view": the two differ in what
\* one may do, never in what was said; only the sender may change it and is
\* told what was masked, each side is told who is quoted, and a page of
\* messages shows each one as it is shown alone, although lookups are shared.
ASSUME SameForBoth ==
    \A m \in Originals, sender \in Sides, ready \in {{}, {1}, {1, 2, 3}} :
        LET stored == {m, Reply(sender)}
            both == ViewsForBoth(m, Sides, stored, ready)
            Said(view) == [view EXCEPT !.editableUntil = 0, !.deletableUntil = 0] IN
        /\ Said(both["client"]) = Said(both["provider"])
        /\ \A viewer \in Sides \ {m.sender} : both[viewer] = Said(both[viewer])
        /\ \A viewer \in Sides :
              LET page == ViewMany(<<m, Reply(sender)>>, viewer, stored, ready) IN
              page[1] = both[viewer] /\ page[2] = ViewOne(Reply(sender), viewer, stored, ready)
        /\ LET Shown(x) == [user \in Sides |-> Bubble(ViewOne(x, user, stored, ready), user, TRUE, 0)] IN
           /\ {user \in Sides : Shown(m)[user].own} = {m.sender}
           /\ {user \in Sides : Shown(m)[user].notice} = IF "PHONE" \in m.redactions THEN {m.sender} ELSE {}
           /\ {Shown(Reply(sender))[user].quoted : user \in Sides} = {"me", "counterpart"}

\* message.service.ts:205, "One reaction per user per message": picking from
\* the view that shows the reactions leaves at most one of each side, touches
\* nobody else's, twice the same takes it back, and the summary counts all.
ASSUME ReactionsToggle ==
    \A m \in {x \in Originals : ~x.deleted}, me \in Sides, first, second \in Emojis :
        LET View(x) == ViewOne(x, me, {x}, {})
            once == SetReaction(m, me, Picked(View(m), me, first))
            twice == SetReaction(once, me, Picked(View(once), me, second))
            summary == SummarizeReactions(View(twice), me) IN
        /\ \A user \in Sides : Len(SelectSeq(twice.reactions, LAMBDA r : r.user = user)) <= 1
        /\ \A user \in Sides \ {me} : MyReaction(View(twice), user) = MyReaction(View(m), user)
        /\ first = second => MyReaction(View(twice), me) = IF MyReaction(View(m), me) = first THEN first ELSE "none"
        /\ \A emoji \in Emojis :
              Len(SelectSeq(twice.reactions, LAMBDA r : r.emoji = emoji)) =
                  IF emoji \in DOMAIN summary THEN summary[emoji].count ELSE 0
        /\ \A emoji \in DOMAIN summary : summary[emoji].mine <=> MyReaction(View(twice), me) = emoji

\* arrivals.ts:8: whatever loads when, the history the thread opened on and the
\* older pages loaded later never enter as news; what comes later does.
ASSUME ArrivalsAreNews ==
    \A held \in [1..3 -> SUBSET (1..4)], loading \in [1..3 -> BOOLEAN] :
        LET baseline == FoldLeft(LAMBDA b, n : SettleBaseline(b, loading[n], held[n]), Unsettled, <<1, 2, 3>>)
            opened == CHOOSE n \in 1..3 : ~loading[n] /\ \A k \in 1 .. n - 1 : loading[k] IN
        IF \A n \in 1..3 : loading[n] THEN \A seq \in 1..4 : ~IsArrival(seq, baseline)
        ELSE \A seq \in 1..4 : IsArrival(seq, baseline) <=> \A t \in held[opened] : seq > t
=============================================================================
