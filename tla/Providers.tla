----------------------------- MODULE Providers ------------------------------
(***************************************************************************)
(* Who may offer services: the role an account gives itself (AuthService,  *)
(* RolesGuard) and the provider profiles (ProviderService), as rows in the *)
(* order of their insertion.  Module Onboarding makes the calls.           *)
(***************************************************************************)
EXTENDS Integers, Sequences, FiniteSets

CONSTANT People  \* the accounts that may offer services

VARIABLES
    accounts,  \* accounts[u]: birth date and whether roles has PROVIDER
    profiles   \* profiles[i]: the account of profile i

Age     == {"unset", "minor", "adult"}
Account == [age: Age, provider: BOOLEAN]

\* becomeProvider: the phone of an account is verified from its creation.
MayBecomeProvider(account) == ~account.provider /\ account.age = "adult"

\* RolesGuard with @Roles("PROVIDER") reads the roles AuthGuard has loaded.
HasProviderRole(u) == accounts[u].provider

ProfilesOf(u) == {i \in DOMAIN profiles : profiles[i] = u}

\* The unique index on userId.
NoProfile(u) == ProfilesOf(u) = {}

InsertProfile(u) == profiles' = IF NoProfile(u) THEN Append(profiles, u) ELSE profiles

ProvidersOK == accounts \in [People -> Account] /\ profiles \in Seq(People)
=============================================================================
