----------------------------- MODULE MCDispatch -----------------------------
(***************************************************************************)
(* Small instances of Dispatch for TLC: providers near the request, inside *)
(* the default radius, and one in the ring a wider search reaches.         *)
(***************************************************************************)
EXTENDS Dispatch, TLC

CONSTANTS far, h1, h2

MCDistance == [q \in Providers |-> IF q = far THEN 2 ELSE 1]

\* Requests served at the same time are interchangeable, and so are the near
\* providers.  Used only where every property is a safety property.
MCSymmetry == Permutations({h1, h2}) \cup Permutations(Providers \ {far})
=============================================================================
