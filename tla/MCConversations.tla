--------------------------- MODULE MCConversations ---------------------------
(***************************************************************************)
(* A small instance: a tab of the client and one of the provider p, two    *)
(* presses each, and one call or query that fails.                         *)
(***************************************************************************)
EXTENDS Conversations, MessageChecks, TLC

CONSTANTS client, p, c1, p1

MCUser      == [t \in Tabs |-> IF t = p1 THEN p ELSE client]
MCMaxClicks == [t \in Tabs |-> 2]
=============================================================================
