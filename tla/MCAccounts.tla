----------------------------- MODULE MCAccounts -----------------------------
(***************************************************************************)
(* Small instances of Accounts: requests served at once are                *)
(* interchangeable where only safety is checked.                           *)
(***************************************************************************)
EXTENDS Accounts, TLC

CONSTANTS u1, u2, e1, e2, h1, h2

MCSymmetry == Permutations(Handlers)
=============================================================================
