---------------------------- MODULE MCOnboarding ----------------------------
(***************************************************************************)
(* Small instances of Onboarding: requests served at once are              *)
(* interchangeable.                                                        *)
(***************************************************************************)
EXTENDS Onboarding, TLC

CONSTANTS u1, u2, h1, h2

MCSymmetry == Permutations(Handlers)
=============================================================================
