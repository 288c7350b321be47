----------------------------- MODULE MCSessions -----------------------------
(***************************************************************************)
(* Small instances of SessionTabs: each session has a user of its own and  *)
(* the second call is the sign-out of the second tab.                      *)
(***************************************************************************)
EXTENDS SessionTabs, TLC

CONSTANTS s1, s2, u1, u2, t1, t2, c1, c2

MCOwner == [s \in Sids |-> IF s = s1 THEN u1 ELSE u2]
MCTabOf == [c \in Calls |-> IF c = c2 THEN t2 ELSE t1]
MCSignOuts == {c2} \cap Calls
=============================================================================
