----------------------------- MODULE SeededOnce -----------------------------
(***************************************************************************)
(* What SeedLockService promises: the collection is complete before any    *)
(* instance serves a request, and stays so.                                *)
(***************************************************************************)
CONSTANT Instances

VARIABLES seeded, serving

Init == seeded = FALSE /\ serving = {}

Seed     == ~seeded /\ seeded' = TRUE /\ UNCHANGED serving
Serve(i) == seeded /\ serving' = serving \cup {i} /\ UNCHANGED seeded
Stop(i)  == serving' = serving \ {i} /\ UNCHANGED seeded

Next == Seed \/ \E i \in Instances : Serve(i) \/ Stop(i)

Spec == Init /\ [][Next]_<<seeded, serving>>
=============================================================================
