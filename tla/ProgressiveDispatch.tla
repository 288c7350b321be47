------------------------ MODULE ProgressiveDispatch ------------------------
(***************************************************************************)
(* What the audit trail of a match promises (dispatch-batch.schema.ts:     *)
(* "the audit trail proving dispatch was progressive, not a broadcast"):   *)
(* an append-only list of waves, each small, each of providers no earlier  *)
(* wave contacted, and no more waves than the configuration allows.        *)
(***************************************************************************)
EXTENDS Naturals, FiniteSets, Sequences

CONSTANTS Providers, MaxWaves, WaveSize

VARIABLE waves  \* waves[i]: the providers contacted by the i-th wave

Reached == UNION {waves[i] : i \in 1..Len(waves)}

Init == waves = << >>

SendWave(chosen) ==
    /\ Len(waves) < MaxWaves
    /\ chosen # {} /\ Cardinality(chosen) <= WaveSize
    /\ chosen \cap Reached = {}
    /\ waves' = Append(waves, chosen)

Next == \E chosen \in SUBSET Providers : SendWave(chosen)

Spec == Init /\ [][Next]_waves
=============================================================================
