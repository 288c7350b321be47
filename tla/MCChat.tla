------------------------------- MODULE MCChat -------------------------------
(***************************************************************************)
(* Small instances of the chat: the client writes c1 and c2, the provider  *)
(* writes p1.  The contact detector, whose verdict ChatServer is given, is *)
(* checked on its own by the assumptions of ContactChecks.                 *)
(***************************************************************************)
EXTENDS ChatThread, ContactChecks, TLC

CONSTANTS c1, c2, p1, h1, h2

MCAuthor == [i \in Ids |-> IF i = p1 THEN "PROVIDER" ELSE "CLIENT"]

MCSymmetry == Permutations({h1, h2})
=============================================================================
