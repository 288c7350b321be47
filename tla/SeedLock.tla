------------------------------ MODULE SeedLock ------------------------------
(***************************************************************************)
(* SeedLockService.runOnce over the rows of one seed.  Several instances   *)
(* boot at the same time, die while they do and boot again.  The lock's    *)
(* row is never removed.                                                   *)
(***************************************************************************)
EXTENDS Integers, Sequences, FiniteSets

CONSTANTS
    Instances,
    Plan  \* the rows of the seed, in the order it inserts them

VARIABLES
    lock,  \* the row of seed_locks: "absent", "taken" or "completed"
    boot,  \* boot[i]: how far instance i is
    rows   \* the collection that is seeded

bootVars == <<lock, boot>>

Phase == {"down", "acquire", "seed", "complete", "wait", "serving"}
Go(i, phase) == boot' = [boot EXCEPT ![i] = [phase |-> phase, inserted |-> 0]]

Boot(i) ==
    /\ boot[i].phase = "down" /\ Go(i, "acquire")
    /\ UNCHANGED <<lock, rows>>

\* create() of the lock's row succeeds once, whoever calls.
TryAcquire(i) ==
    /\ boot[i].phase = "acquire"
    /\ IF lock = "absent" THEN lock' = "taken" /\ Go(i, "seed") ELSE UNCHANGED lock /\ Go(i, "wait")
    /\ UNCHANGED rows

\* The seed inserts its rows one at a time.
SeedRow(i) ==
    LET n == boot[i].inserted + 1 IN
    /\ boot[i].phase = "seed"
    /\ rows' = Append(rows, Plan[n])
    /\ boot' = [boot EXCEPT ![i] = [phase |-> IF n = Len(Plan) THEN "complete" ELSE "seed", inserted |-> n]]
    /\ UNCHANGED lock

Complete(i) ==
    /\ boot[i].phase = "complete" /\ lock' = "completed" /\ Go(i, "serving")
    /\ UNCHANGED rows

\* Mutant: the losers skip the seed and do not wait for it.
TakenSuffices == lock \in {"taken", "completed"}

Done == lock = "completed"

\* waitForCompletion polls until the row is completed ...
Poll(i) ==
    /\ boot[i].phase = "wait" /\ Done /\ Go(i, "serving")
    /\ UNCHANGED <<lock, rows>>

\* ... or throws after 30 s, and the instance does not start.
TimeOut(i) ==
    /\ boot[i].phase = "wait" /\ ~Done /\ Go(i, "down")
    /\ UNCHANGED <<lock, rows>>

Die(i) ==
    /\ boot[i].phase # "down" /\ Go(i, "down")
    /\ UNCHANGED <<lock, rows>>

Serving == {i \in Instances : boot[i].phase = "serving"}

SeedLockInit ==
    /\ lock = "absent" /\ rows = <<>>
    /\ boot = [i \in Instances |-> [phase |-> "down", inserted |-> 0]]

SeedLockNext == \E i \in Instances :
    Boot(i) \/ TryAcquire(i) \/ SeedRow(i) \/ Complete(i) \/ Poll(i) \/ TimeOut(i) \/ Die(i)

SeedLockOK ==
    /\ lock \in {"absent", "taken", "completed"}
    /\ boot \in [Instances -> [phase: Phase, inserted: 0..Len(Plan)]]
=============================================================================
