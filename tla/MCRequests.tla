----------------------------- MODULE MCRequests -----------------------------
(***************************************************************************)
(* Small instances of Requests: an upload of the second press has bytes of *)
(* another type than declared, a second file is too large; two services,   *)
(* the first with two types.  MCOneForm has one tab that submits, twice.   *)
(***************************************************************************)
EXTENDS Requests, TLC

CONSTANTS t1, t2, small, large, sA, sB, tA, tX, tB, cA, cX, cB

MCParent == [n \in Types \cup Complexities |->
               CASE n = tA -> sA [] n = tX -> sA [] n = tB -> sB
                 [] n = cA -> tA [] n = cX -> tX [] n = cB -> tB]
MCOneForm   == [t \in Tabs |-> IF t = t1 THEN 2 ELSE 0]
MCTwoForms  == [t \in Tabs |-> IF t = t1 THEN 2 ELSE 1]
MCUploads   == UNION {{t} \X Files \X (1..MaxSubmits[t]) : t \in Tabs}
MCTargets   == 1..MaxRequests
MCDisguised == {m \in MCUploads : m[3] = 2}
MCOversized == {m \in MCUploads : m[2] = large}
=============================================================================
