------------------------------ MODULE Ranking -------------------------------
(***************************************************************************)
(* matching/ranking.ts: pure functions from the eligible providers and the *)
(* stored weights to the providers of a batch.  A score is the numerator   *)
(* of a fraction whose denominator all candidates of a pool share, so that *)
(* comparing two of them is exact.  A provider's number is the rank of its *)
(* id, which breaks ties.                                                  *)
(***************************************************************************)
EXTENDS Integers, FiniteSets, FiniteSetsExt

SaturationYears == 10

AtMost(a, b) == IF a < b THEN a ELSE b
AtLeast(a, b) == IF a > b THEN a ELSE b

\* A moment is a day and a minute; no slots means no declared restriction.
CoversMoment(slots, at) ==
    slots = {} \/ \E slot \in slots : slot.day = at.day /\ slot.start <= at.minute /\ at.minute < slot.end

MaxPast(pool) == Max({c.past : c \in pool})

\* computeScoreBreakdown and computeScore, over the common denominator one;
\* four signals have no data yet.
Score(c, busiest, radius, at, weights) ==
    LET one == radius * SaturationYears * AtLeast(1, busiest) IN
      weights.distance     * ((radius - AtMost(c.distance, radius)) * (one \div radius))
    + weights.availability * (IF CoversMoment(c.slots, at) THEN one ELSE 0)
    + weights.verification * (IF c.verified THEN one ELSE 0)
    + weights.experience   * (AtMost(c.years, SaturationYears) * (one \div SaturationYears))
    + weights.exploration  * (IF busiest = 0 THEN one ELSE (busiest - c.past) * (one \div busiest))

\* rankCandidates: the candidates with their scores, and their order.
Ranked(pool, radius, at, weights) ==
    LET busiest == MaxPast(pool) IN
    {[id |-> c.id, past |-> c.past, score |-> Score(c, busiest, radius, at, weights)] : c \in pool}

Above(a, b) == a.score > b.score \/ (a.score = b.score /\ a.id < b.id)

Place(c, ranked) == Cardinality({b \in ranked : Above(b, c)})

\* Mutant: no seat is reserved.
NoSeats(batchSize, slots) == 0

\* Seats of a batch reserved for the least dispatched: one goes to merit.
Reserved(batchSize, slots) == AtMost(slots, AtLeast(0, batchSize - 1))

\* Mutant: the reserved seats go to those contacted most.
BusiestFirst(ranked, batchSize, slots) ==
    LET reserved == Reserved(batchSize, slots)
        merit    == {c \in ranked : Place(c, ranked) < batchSize - reserved}
        rest     == ranked \ merit
        sooner(a, b) == a.past > b.past \/ (a.past = b.past /\ Above(a, b))
    IN merit \cup {c \in rest : Cardinality({b \in rest : sooner(b, c)}) < reserved}

\* selectBatch: the best of the ranking, then the least dispatched of the rest.
SelectBatch(ranked, batchSize, slots) ==
    LET reserved == Reserved(batchSize, slots)
        merit    == {c \in ranked : Place(c, ranked) < batchSize - reserved}
        rest     == ranked \ merit
        sooner(a, b) == a.past < b.past \/ (a.past = b.past /\ Above(a, b))
    IN merit \cup {c \in rest : Cardinality({b \in rest : sooner(b, c)}) < reserved}
=============================================================================
