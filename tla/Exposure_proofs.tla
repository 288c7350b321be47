-------------------------- MODULE Exposure_proofs --------------------------
(***************************************************************************)
(* Who is contacted, for any number of providers and searches, any         *)
(* weights, and any changes of configuration and availability; and what a  *)
(* trip to the client costs, for every configuration and distance.         *)
(***************************************************************************)
EXTENDS Exposure, Transport, FiniteSetTheorems, WellFoundedInduction, TLAPS

(***************************************************************************)
(* Finite sets in a strict total order, given as the set of its pairs: the *)
(* front of the order has as many members as it may have.                  *)
(***************************************************************************)
StrictOrder(S, less) ==
    /\ \A a \in S : <<a, a>> \notin less
    /\ \A a, b, c \in S : <<a, b>> \in less /\ <<b, c>> \in less => <<a, c>> \in less
    /\ \A a, b \in S : a = b \/ <<a, b>> \in less \/ <<b, a>> \in less

Below(c, S, less) == {b \in S : <<b, c>> \in less}
Front(k, S, less) == {c \in S : Cardinality(Below(c, S, less)) < k}

LEMMA LeastNumber ==
    ASSUME NEW S \in SUBSET Nat, S # {}
    PROVE  \E m \in S : \A n \in S : m <= n
<1>1. \E m \in S : \A n \in S : <<n, m>> \notin OpToRel(<, Nat)
  BY NatLessThanWellFounded, WFMin
<1>2. PICK m \in S : \A n \in S : <<n, m>> \notin OpToRel(<, Nat) BY <1>1
<1>3. \A n \in S : ~(n < m) BY <1>2 DEF OpToRel
<1> QED BY <1>3

LEMMA BelowCounted ==
    ASSUME NEW S, IsFiniteSet(S), NEW less, NEW c
    PROVE  IsFiniteSet(Below(c, S, less)) /\ Cardinality(Below(c, S, less)) \in Nat
<1>1. Below(c, S, less) \in SUBSET S BY DEF Below
<1>2. IsFiniteSet(Below(c, S, less)) BY <1>1, FS_Subset
<1> QED BY <1>2, FS_CardinalityType

LEMMA FewerBelow ==
    ASSUME NEW S, IsFiniteSet(S), NEW less, StrictOrder(S, less), NEW a \in S, NEW b \in S, <<a, b>> \in less
    PROVE  Cardinality(Below(a, S, less)) < Cardinality(Below(b, S, less))
<1> DEFINE A == Below(a, S, less)
           B == Below(b, S, less)
<1>1. A \in SUBSET B BY DEF Below, StrictOrder
<1>2. a \in B /\ a \notin A BY DEF Below, StrictOrder
<1>3. IsFiniteSet(B) /\ Cardinality(A) \in Nat /\ Cardinality(B) \in Nat BY BelowCounted
<1> HIDE DEF A, B
<1>4. Cardinality(A) <= Cardinality(B) /\ Cardinality(A) # Cardinality(B) BY <1>1, <1>2, <1>3, FS_Subset
<1>5. Cardinality(A) < Cardinality(B) BY <1>3, <1>4
<1> QED BY <1>5 DEF A, B

LEMMA HasFirst ==
    ASSUME NEW S, IsFiniteSet(S), NEW less, StrictOrder(S, less), NEW T \in SUBSET S, T # {}
    PROVE  \E c \in T : \A b \in T : <<b, c>> \notin less
<1> DEFINE size(c) == Cardinality(Below(c, S, less))
           sizes == {size(c) : c \in T}
<1>1. \A c \in T : size(c) \in Nat BY BelowCounted
<1> HIDE DEF size
<1>2. sizes \in SUBSET Nat /\ sizes # {} BY <1>1
<1>3. PICK m \in sizes : \A n \in sizes : m <= n BY <1>2, LeastNumber
<1>4. PICK c \in T : m = size(c) BY <1>3
<1>5. \A b \in T : size(c) <= size(b) BY <1>3, <1>4
<1>6. \A b \in T : <<b, c>> \in less => size(b) < size(c) BY FewerBelow DEF size
<1>7. ASSUME NEW b \in T PROVE <<b, c>> \notin less BY <1>1, <1>5, <1>6
<1> QED BY <1>7

\* The front of length k + 1 is the front of length k and the first of the
\* others.
LEMMA FrontGrows ==
    ASSUME NEW S, IsFiniteSet(S), NEW less, StrictOrder(S, less), NEW k \in Nat,
           Cardinality(Front(k, S, less)) = k, Front(k, S, less) # S
    PROVE  \E c \in S : c \notin Front(k, S, less) /\ Front(k + 1, S, less) = Front(k, S, less) \cup {c}
<1> DEFINE F == Front(k, S, less)
           size(c) == Cardinality(Below(c, S, less))
<1>1. \A c \in S : size(c) \in Nat /\ (c \in F <=> size(c) < k) BY BelowCounted DEF Front
<1>2. F \subseteq S BY DEF Front
<1>3. PICK c \in S \ F : \A b \in S \ F : <<b, c>> \notin less
  <2>1. S \ F \in SUBSET S /\ S \ F # {} BY <1>2
  <2> HIDE DEF F
  <2> QED BY <2>1, HasFirst
<1>4. \A a, b \in S : <<a, b>> \in less => size(a) < size(b) BY FewerBelow
<1>5. \A a, b \in S : a = b \/ <<a, b>> \in less \/ <<b, a>> \in less BY DEF StrictOrder
<1>6. \A b \in S : <<b, c>> \in less <=> b \in F
  <2>1. ASSUME NEW b \in S, <<b, c>> \in less PROVE b \in F BY <1>3, <2>1
  <2>2. ASSUME NEW b \in F PROVE <<b, c>> \in less
    <3>1. b \in S /\ size(b) < k /\ b # c BY <1>1, <1>2, <1>3
    <3>2. <<c, b>> \notin less
      <4> HIDE DEF size, F
      <4>1. <<c, b>> \in less => size(c) < size(b) BY <1>4, <3>1
      <4>2. size(b) \in Nat /\ size(c) \in Nat /\ ~(size(c) < k) BY <1>1, <1>3, <3>1
      <4> QED BY <3>1, <4>1, <4>2
    <3> QED BY <1>5, <3>1, <3>2
  <2> QED BY <2>1, <2>2
<1>7. Below(c, S, less) = F BY <1>2, <1>6 DEF Below
<1>8. size(c) = k BY <1>7
<1> HIDE DEF F
<1>9. \A b \in S : size(b) < k + 1 <=> b \in F \/ b = c
  <2>1. ASSUME NEW b \in S, b \notin F, b # c PROVE ~(size(b) < k + 1)
    <3>1. <<c, b>> \in less BY <1>5, <1>6, <2>1
    <3>2. size(c) < size(b) BY <1>4, <3>1
    <3> HIDE DEF size
    <3> QED BY <1>1, <1>8, <3>2
  <2> HIDE DEF size
  <2>2. \A b \in S : b \in F => size(b) < k + 1 BY <1>1
  <2>3. size(c) < k + 1 BY <1>8
  <2> QED BY <2>1, <2>2, <2>3
<1>10. Front(k + 1, S, less) = F \cup {c} BY <1>2, <1>9 DEF Front
<1> QED BY <1>3, <1>10 DEF F

\* By the least length that is a counterexample.
LEMMA FrontSize ==
    ASSUME NEW S, IsFiniteSet(S), NEW less, StrictOrder(S, less), NEW n \in Nat
    PROVE  Cardinality(Front(n, S, less)) = AtMost(n, Cardinality(S))
<1> DEFINE F(k) == Front(k, S, less)
           bad == {k \in Nat : Cardinality(F(k)) # AtMost(k, Cardinality(S))}
<1>1. Cardinality(S) \in Nat BY FS_CardinalityType
<1>2. \A k \in Nat : F(k) \subseteq S /\ IsFiniteSet(F(k)) /\ Cardinality(F(k)) \in Nat
  <2>1. \A k \in Nat : F(k) \in SUBSET S BY DEF Front
  <2> HIDE DEF F
  <2> QED BY <2>1, FS_Subset, FS_CardinalityType
<1>3. F(0) = {} BY BelowCounted DEF Front
<1>4. SUFFICES ASSUME bad # {} PROVE FALSE OBVIOUS
<1>5. PICK m \in bad : \A k \in bad : m <= k
  <2>1. bad \in SUBSET Nat OBVIOUS
  <2> HIDE DEF bad
  <2> QED BY <1>4, <2>1, LeastNumber
<1>6. m # 0
  <2>1. Cardinality(F(0)) = 0 BY <1>3, FS_EmptySet
  <2> HIDE DEF F
  <2>2. AtMost(0, Cardinality(S)) = 0 BY <1>1 DEF AtMost
  <2> QED BY <1>5, <2>1, <2>2
<1>7. PICK k \in Nat : m = k + 1
  <2>1. m - 1 \in Nat /\ m = (m - 1) + 1 BY <1>5, <1>6
  <2> QED BY <2>1
<1>8. Cardinality(F(k)) = AtMost(k, Cardinality(S))
  <2>1. k \notin bad BY <1>5, <1>7
  <2> QED BY <2>1
<1>9. Cardinality(F(k + 1)) # AtMost(k + 1, Cardinality(S)) BY <1>5, <1>7
<1>10. CASE F(k) = S
  <2>1. F(k + 1) = S
    <3>1. \A c \in S : Cardinality(Below(c, S, less)) \in Nat BY BelowCounted
    <3>2. \A c \in S : Cardinality(Below(c, S, less)) < k BY <1>10 DEF Front
    <3> QED BY <3>1, <3>2 DEF Front
  <2> HIDE DEF F
  <2>2. AtMost(k, Cardinality(S)) = Cardinality(S) BY <1>8, <1>10
  <2>3. AtMost(k + 1, Cardinality(S)) = Cardinality(S) BY <1>1, <2>2 DEF AtMost
  <2> QED BY <1>9, <2>1, <2>3
<1>11. CASE F(k) # S
  <2> HIDE DEF F
  <2>1. Cardinality(F(k)) < Cardinality(S)
    <3>1. F(k) \in SUBSET S BY <1>2
    <3>2. Cardinality(F(k)) <= Cardinality(S) /\ Cardinality(F(k)) # Cardinality(S) BY <1>11, <3>1, FS_Subset
    <3> QED BY <1>1, <1>2, <3>2
  <2>2. Cardinality(F(k)) = k BY <1>1, <1>8, <2>1 DEF AtMost
  <2>3. PICK c \in S : c \notin F(k) /\ F(k + 1) = F(k) \cup {c} BY <1>11, <2>2, FrontGrows DEF F
  <2>4. Cardinality(F(k + 1)) = k + 1 BY <1>2, <2>2, <2>3, FS_AddElement
  <2>5. AtMost(k + 1, Cardinality(S)) = k + 1 BY <1>1, <2>1, <2>2 DEF AtMost
  <2> QED BY <1>9, <2>4, <2>5
<1> QED BY <1>10, <1>11

\* Who is not in the front comes after all of it, and it is complete.
LEMMA BehindFront ==
    ASSUME NEW S, IsFiniteSet(S), NEW less, StrictOrder(S, less), NEW k \in Nat,
           NEW c \in S, c \notin Front(k, S, less)
    PROVE  /\ Cardinality(Front(k, S, less)) = k
           /\ \A q \in Front(k, S, less) : <<q, c>> \in less
<1> DEFINE F == Front(k, S, less)
           place(q) == Cardinality(Below(q, S, less))
<1>1. \A q \in S : place(q) \in Nat /\ (q \in F <=> place(q) < k) BY BelowCounted DEF Front
<1>2. F \in SUBSET S BY DEF Front
<1>3. ASSUME NEW q \in F PROVE <<q, c>> \in less
  <2>1. q \in S /\ place(q) \in Nat /\ place(q) < k /\ place(c) \in Nat /\ ~(place(c) < k) BY <1>1, <1>2
  <2>2. <<c, q>> \in less => place(c) < place(q) BY <2>1, FewerBelow
  <2> HIDE DEF place
  <2>3. <<c, q>> \notin less /\ q # c BY <2>1, <2>2
  <2> QED BY <2>1, <2>3 DEF StrictOrder
<1> HIDE DEF F
<1>4. Cardinality(F) < Cardinality(S)
  <2>1. IsFiniteSet(F) /\ Cardinality(F) <= Cardinality(S) /\ Cardinality(F) # Cardinality(S)
    BY <1>2, FS_Subset DEF F
  <2> QED BY <2>1, FS_CardinalityType
<1>5. Cardinality(F) = AtMost(k, Cardinality(S)) /\ Cardinality(S) \in Nat BY FrontSize, FS_CardinalityType DEF F
<1>6. Cardinality(F) = k BY <1>4, <1>5 DEF AtMost
<1> QED BY <1>3, <1>6 DEF F

-----------------------------------------------------------------------------
(***************************************************************************)
(* The ranking and the batch it gives.                                     *)
(***************************************************************************)
\* What rankCandidates returns.
IsRanking(R) ==
    /\ IsFiniteSet(R)
    /\ \A c \in R : c.id \in Nat /\ c.past \in Nat /\ c.score \in Int
    /\ \A a, b \in R : a.id = b.id => a = b

Sooner(a, b) == a.past < b.past \/ (a.past = b.past /\ Above(a, b))

ByMerit(R) == {x \in R \X R : Above(x[1], x[2])}
ByNeed(R)  == {x \in R \X R : Sooner(x[1], x[2])}

LEMMA Orders ==
    ASSUME NEW R, IsRanking(R)
    PROVE  StrictOrder(R, ByMerit(R)) /\ StrictOrder(R, ByNeed(R))
<1>1. \A a, b \in R : <<a, b>> \in ByMerit(R) <=> Above(a, b) BY DEF ByMerit
<1>2. \A a, b \in R : <<a, b>> \in ByNeed(R) <=> Sooner(a, b) BY DEF ByNeed
<1>3. ASSUME NEW a \in R PROVE ~Above(a, a) /\ ~Sooner(a, a) BY DEF Above, Sooner, IsRanking
<1>4. ASSUME NEW a \in R, NEW b \in R
      PROVE  a = b \/ Above(a, b) \/ Above(b, a)
  BY DEF Above, IsRanking
<1>5. ASSUME NEW a \in R, NEW b \in R
      PROVE  a = b \/ Sooner(a, b) \/ Sooner(b, a)
  BY <1>4 DEF Sooner, IsRanking
<1>6. ASSUME NEW a \in R, NEW b \in R, NEW c \in R, Above(a, b), Above(b, c) PROVE Above(a, c)
  BY <1>6 DEF Above, IsRanking
<1>7. ASSUME NEW a \in R, NEW b \in R, NEW c \in R, Sooner(a, b), Sooner(b, c) PROVE Sooner(a, c)
  <2>1. a.past \in Nat /\ b.past \in Nat /\ c.past \in Nat BY DEF IsRanking
  <2>2. Above(a, b) /\ Above(b, c) => Above(a, c) BY <1>6
  <2> QED BY <1>7, <2>1, <2>2 DEF Sooner
<1> HIDE DEF ByMerit, ByNeed
<1>8. StrictOrder(R, ByMerit(R)) BY <1>1, <1>3, <1>4, <1>6 DEF StrictOrder
<1>9. StrictOrder(R, ByNeed(R)) BY <1>2, <1>3, <1>5, <1>7 DEF StrictOrder
<1> QED BY <1>8, <1>9

LEMMA SomeReserved ==
    ASSUME NEW size \in Nat \ {0, 1}, NEW slots \in Nat \ {0}
    PROVE  Reserved(size, slots) \in 1..size - 1
BY DEF Reserved, AtMost, AtLeast

\* selectBatch in terms of the two orders.
Merit(R, size, slots) == Front(size - Reserved(size, slots), R, ByMerit(R))
Rest(R, size, slots)  == R \ Merit(R, size, slots)

LEMMA BatchParts ==
    ASSUME NEW R, IsRanking(R), NEW size, NEW slots
    PROVE  LET rest == Rest(R, size, slots)
           IN  SelectBatch(R, size, slots) =
                   Merit(R, size, slots) \cup Front(Reserved(size, slots), rest, ByNeed(rest))
<1> DEFINE merit == {c \in R : Place(c, R) < size - Reserved(size, slots)}
           rest  == R \ merit
<1>1. \A c \in R : Below(c, R, ByMerit(R)) = {b \in R : Above(b, c)} BY DEF Below, ByMerit
<1>2. merit = Merit(R, size, slots) BY <1>1 DEF Merit, Front, Place
<1>3. rest = Rest(R, size, slots) BY <1>2 DEF Rest
<1>4. \A c \in rest : Below(c, rest, ByNeed(rest)) = {b \in rest : Sooner(b, c)}
  <2> HIDE DEF rest
  <2> QED BY DEF Below, ByNeed
<1> DEFINE sooner(a, b) == a.past < b.past \/ (a.past = b.past /\ Above(a, b))
<1>5. SelectBatch(R, size, slots) =
        merit \cup {c \in rest : Cardinality({b \in rest : sooner(b, c)}) < Reserved(size, slots)}
  BY DEF SelectBatch
<1>6. \A c \in rest : {b \in rest : sooner(b, c)} = Below(c, rest, ByNeed(rest)) BY <1>4 DEF Sooner
<1> HIDE DEF rest, merit, sooner
<1>7. {c \in rest : Cardinality({b \in rest : sooner(b, c)}) < Reserved(size, slots)}
        = Front(Reserved(size, slots), rest, ByNeed(rest))
  BY <1>6 DEF Front
<1> QED BY <1>2, <1>3, <1>5, <1>7

LEMMA RestRanked ==
    ASSUME NEW R, IsRanking(R), NEW T \in SUBSET R
    PROVE  IsRanking(T)
<1>1. IsFiniteSet(T) BY FS_Subset DEF IsRanking
<1> QED BY <1>1 DEF IsRanking

\* A batch is as large as it may be, however many of its seats are reserved.
LEMMA BatchIsFull ==
    ASSUME NEW R, IsRanking(R), NEW size \in Nat \ {0, 1}, NEW slots \in Nat \ {0}
    PROVE  /\ SelectBatch(R, size, slots) \subseteq R
           /\ Cardinality(SelectBatch(R, size, slots)) = AtMost(size, Cardinality(R))
<1> DEFINE merit == Merit(R, size, slots)
           rest  == Rest(R, size, slots)
           front == Front(Reserved(size, slots), rest, ByNeed(rest))
<1>1. PICK r \in 1..size - 1 : r = Reserved(size, slots) BY SomeReserved
<1>2. r \in Nat /\ size - r \in Nat OBVIOUS
<1>3. merit \in SUBSET R BY DEF Merit, Front
<1>4. rest \in SUBSET R BY DEF Rest
<1>5. IsFiniteSet(R) /\ Cardinality(R) \in Nat BY FS_CardinalityType DEF IsRanking
<1>6. Cardinality(merit) = AtMost(size - r, Cardinality(R)) BY <1>1, <1>2, <1>5, Orders, FrontSize DEF Merit
<1>7. front \in SUBSET rest BY DEF Front
<1> HIDE DEF merit, rest
<1>8. IsFiniteSet(merit) /\ IsFiniteSet(rest) /\ Cardinality(merit) \in Nat /\ Cardinality(rest) \in Nat
  BY <1>3, <1>4, <1>5, FS_Subset, FS_CardinalityType
<1>9. Cardinality(rest) = Cardinality(R) - Cardinality(merit)
  <2>1. rest = R \ merit BY DEF rest, merit, Rest
  <2>2. R \cap merit = merit BY <1>3
  <2> QED BY <1>5, <2>1, <2>2, FS_Difference
<1>10. Cardinality(front) = AtMost(r, Cardinality(rest))
  <2>1. StrictOrder(rest, ByNeed(rest)) BY <1>4, RestRanked, Orders
  <2> QED BY <1>1, <1>2, <1>8, <2>1, FrontSize
<1> HIDE DEF front
<1>11. IsFiniteSet(front) /\ Cardinality(front) \in Nat BY <1>7, <1>8, FS_Subset, FS_CardinalityType
<1>12. merit \cap front = {} BY <1>7 DEF rest, merit, Rest
<1>13. Cardinality(merit \cup front) = Cardinality(merit) + Cardinality(front)
  BY <1>8, <1>11, <1>12, FS_Union, FS_EmptySet
<1>14. SelectBatch(R, size, slots) = merit \cup front BY BatchParts DEF merit, rest, front
<1>15. Cardinality(merit) + Cardinality(front) = AtMost(size, Cardinality(R))
  BY <1>2, <1>5, <1>6, <1>8, <1>9, <1>10, <1>11 DEF AtMost
<1> QED BY <1>3, <1>4, <1>7, <1>13, <1>14, <1>15

\* The best of the ranking is in the batch.
LEMMA BestIsChosen ==
    ASSUME NEW R, IsRanking(R), NEW size \in Nat \ {0, 1}, NEW slots \in Nat \ {0},
           NEW c \in R, \A b \in R \ {c} : ~Above(b, c)
    PROVE  c \in Merit(R, size, slots) /\ c \in SelectBatch(R, size, slots)
<1>1. PICK r \in 1..size - 1 : r = Reserved(size, slots) BY SomeReserved
<1>2. ~Above(c, c) BY DEF Above, IsRanking
<1>3. Below(c, R, ByMerit(R)) = {} BY <1>2 DEF Below, ByMerit
<1>4. Cardinality(Below(c, R, ByMerit(R))) < size - r BY <1>3, FS_EmptySet
<1>5. c \in Merit(R, size, slots) BY <1>1, <1>4 DEF Merit, Front
<1> QED BY <1>5, BatchParts

\* Who is left out ranks below the seats of merit, and was contacted no less
\* often than those who got the reserved ones.
LEMMA LeftOut ==
    ASSUME NEW R, IsRanking(R), NEW size \in Nat \ {0, 1}, NEW slots \in Nat \ {0},
           NEW c \in R, c \notin SelectBatch(R, size, slots)
    PROVE  LET batch    == SelectBatch(R, size, slots)
               reserved == AtMost(slots, size - 1)
           IN  /\ Cardinality({q \in batch : Above(q, c)}) >= size - reserved
               /\ Cardinality({q \in batch : q.past <= c.past}) >= reserved
               /\ \A q \in batch : Above(q, c) \/ q.past < c.past
<1> DEFINE merit == Merit(R, size, slots)
           rest  == Rest(R, size, slots)
           r     == AtMost(slots, size - 1)
           front == Front(r, rest, ByNeed(rest))
           batch == SelectBatch(R, size, slots)
           above == {q \in batch : Above(q, c)}
           fewer == {q \in batch : q.past <= c.past}
<1>1. r = Reserved(size, slots) /\ r \in Nat /\ size - r \in Nat BY DEF Reserved, AtMost, AtLeast
<1>2. batch = merit \cup front BY <1>1, BatchParts
<1>3. batch \in SUBSET R /\ IsFiniteSet(R) BY BatchIsFull DEF IsRanking
<1>4. IsFiniteSet(batch) BY <1>3, FS_Subset
<1> HIDE DEF batch, r
<1>5. c \in R /\ c \notin merit /\ c \in rest /\ c \notin front BY <1>2 DEF Rest, batch
<1>6. Cardinality(merit) = size - r /\ \A q \in merit : Above(q, c)
  <2>1. c \notin Front(size - r, R, ByMerit(R)) BY <1>1, <1>5 DEF Merit
  <2>2. merit = Front(size - r, R, ByMerit(R)) BY <1>1 DEF Merit
  <2>3. StrictOrder(R, ByMerit(R)) BY Orders
  <2> HIDE DEF merit
  <2>4. Cardinality(merit) = size - r /\ \A q \in merit : <<q, c>> \in ByMerit(R)
    BY <1>1, <1>3, <2>1, <2>2, <2>3, BehindFront
  <2> QED BY <2>4 DEF ByMerit
<1>7. Cardinality(front) = r /\ \A q \in front : Sooner(q, c)
  <2>1. rest \in SUBSET R BY DEF Rest
  <2>2. IsFiniteSet(rest) /\ StrictOrder(rest, ByNeed(rest)) BY <2>1, RestRanked, Orders DEF IsRanking
  <2> HIDE DEF rest
  <2>3. Cardinality(front) = r /\ \A q \in front : <<q, c>> \in ByNeed(rest) BY <1>1, <1>5, <2>2, BehindFront
  <2> QED BY <2>3 DEF ByNeed
<1>8. \A q \in R : q.past \in Nat BY DEF IsRanking
<1> HIDE DEF merit, front, rest
<1>9. Cardinality(above) >= size - r
  <2>1. merit \in SUBSET above /\ above \in SUBSET batch BY <1>2, <1>6
  <2> HIDE DEF above
  <2>2. IsFiniteSet(above) BY <1>4, <2>1, FS_Subset
  <2>3. Cardinality(merit) <= Cardinality(above) /\ Cardinality(above) \in Nat
    BY <2>1, <2>2, FS_Subset, FS_CardinalityType
  <2> QED BY <1>1, <1>6, <2>3
<1>10. Cardinality(fewer) >= r
  <2>1. \A q \in front : q \in batch /\ q.past <= c.past BY <1>2, <1>3, <1>7, <1>8 DEF Sooner
  <2>2. front \in SUBSET fewer /\ fewer \in SUBSET batch BY <2>1
  <2> HIDE DEF fewer
  <2>3. IsFiniteSet(fewer) BY <1>4, <2>2, FS_Subset
  <2>4. Cardinality(front) <= Cardinality(fewer) /\ Cardinality(fewer) \in Nat
    BY <2>2, <2>3, FS_Subset, FS_CardinalityType
  <2> QED BY <1>1, <1>7, <2>4
<1>11. \A q \in batch : Above(q, c) \/ q.past < c.past BY <1>2, <1>6, <1>7 DEF Sooner
<1> QED BY <1>9, <1>10, <1>11 DEF batch, r

\* Who was never contacted and is left out, is left out for somebody else who
\* was never contacted, besides the best.
LEMMA NewcomerFirst ==
    ASSUME NEW R, IsRanking(R), NEW size \in Nat \ {0, 1}, NEW slots \in Nat \ {0},
           NEW c \in R, c.past = 0, c \notin SelectBatch(R, size, slots)
    PROVE  \E m, q \in SelectBatch(R, size, slots) : m # q /\ m # c /\ q # c /\ q.past = 0
<1> DEFINE merit == Merit(R, size, slots)
           rest  == Rest(R, size, slots)
           batch == SelectBatch(R, size, slots)
<1>1. PICK r \in 1..size - 1 : r = Reserved(size, slots) BY SomeReserved
<1>2. PICK m \in merit : m \in batch
  <2>1. IsFiniteSet(R) /\ R \in SUBSET R /\ R # {} BY DEF IsRanking
  <2>2. PICK m \in R : \A b \in R : <<b, m>> \notin ByMerit(R) BY <2>1, Orders, HasFirst
  <2>3. \A b \in R \ {m} : ~Above(b, m) BY <2>2 DEF ByMerit
  <2> QED BY <2>3, BestIsChosen
<1>3. c \in rest
  <2>1. merit \subseteq batch BY BatchParts
  <2>2. c \notin merit BY <2>1
  <2> QED BY <2>2 DEF Rest
<1>4. rest \in SUBSET R BY DEF Rest
<1>5. IsRanking(rest) BY <1>4, RestRanked
<1>6. PICK q \in rest : \A b \in rest : <<b, q>> \notin ByNeed(rest)
  <2>1. StrictOrder(rest, ByNeed(rest)) /\ IsFiniteSet(rest) BY <1>5, Orders DEF IsRanking
  <2> HIDE DEF rest
  <2>2. rest \in SUBSET rest /\ rest # {} BY <1>3
  <2> QED BY <2>1, <2>2, HasFirst
<1>7. Below(q, rest, ByNeed(rest)) = {} BY <1>6 DEF Below
<1>8. Cardinality(Below(q, rest, ByNeed(rest))) < r BY <1>7, FS_EmptySet
<1>9. q \in Front(r, rest, ByNeed(rest)) BY <1>8 DEF Front
<1>10. q \in batch BY <1>1, <1>9, BatchParts
<1>11. q # c BY <1>10
<1>12. q.past = 0
  <2>1. ~Sooner(c, q) BY <1>3, <1>6 DEF ByNeed
  <2>2. q.past \in Nat BY <1>5 DEF IsRanking
  <2> QED BY <2>1, <2>2 DEF Sooner
<1>13. m # q /\ m # c BY <1>2, <1>3 DEF Rest
<1> QED BY <1>2, <1>10, <1>11, <1>12, <1>13
(***************************************************************************)
(* The ranking of the candidates a search has counted.                     *)
(***************************************************************************)
LEMMA MaxOfNaturals ==
    ASSUME NEW S \in SUBSET Nat, IsFiniteSet(S), S # {}
    PROVE  Max(S) \in Nat
<1> DEFINE greater == {x \in S \X S : x[1] > x[2]}
<1>1. \A a, b \in S : <<a, b>> \in greater <=> a > b OBVIOUS
<1>2. StrictOrder(S, greater)
  <2> HIDE DEF greater
  <2>1. \A a \in S : a \in Nat OBVIOUS
  <2> QED BY <1>1, <2>1 DEF StrictOrder
<1> HIDE DEF greater
<1>3. S \in SUBSET S OBVIOUS
<1>4. PICK m \in S : \A b \in S : <<b, m>> \notin greater BY <1>2, <1>3, HasFirst
<1>5. ASSUME NEW b \in S PROVE m >= b
  <2>1. m \in Nat /\ b \in Nat OBVIOUS
  <2>2. ~(b > m) BY <1>1, <1>4
  <2> QED BY <2>1, <2>2
<1> QED BY <1>5 DEF Max

LEMMA Product ==
    ASSUME NEW a \in Int, NEW b \in Int
    PROVE  a * b \in Int
OBVIOUS

LEMMA ScoreIsANumber ==
    ASSUME ExposureAssumption, NEW c, c.distance \in Nat, c.years \in Nat, c.past \in Nat,
           NEW busiest \in Nat, NEW radius \in Nat \ {0}
    PROVE  Score(c, busiest, radius, Now, Weights) \in Int
<1>1. /\ Weights.distance \in Int /\ Weights.availability \in Int /\ Weights.verification \in Int
      /\ Weights.experience \in Int /\ Weights.exploration \in Int
  BY DEF ExposureAssumption
<1>2. PICK one \in Int : one = radius * SaturationYears * AtLeast(1, busiest)
  <2>1. AtLeast(1, busiest) \in Int /\ SaturationYears \in Int BY DEF AtLeast, SaturationYears
  <2> QED BY <2>1, Product
<1>3. PICK d \in Int : d = (radius - AtMost(c.distance, radius)) * (one \div radius)
  <2>1. radius - AtMost(c.distance, radius) \in Int /\ one \div radius \in Int BY DEF AtMost
  <2> QED BY <2>1, Product
<1>4. PICK a \in Int : a = IF CoversMoment(c.slots, Now) THEN one ELSE 0 OBVIOUS
<1>5. PICK v \in Int : v = IF c.verified THEN one ELSE 0 OBVIOUS
<1>6. PICK y \in Int : y = AtMost(c.years, SaturationYears) * (one \div SaturationYears)
  <2>1. AtMost(c.years, SaturationYears) \in Int /\ one \div SaturationYears \in Int BY DEF AtMost, SaturationYears
  <2> QED BY <2>1, Product
<1>7. PICK x \in Int : x = IF busiest = 0 THEN one ELSE (busiest - c.past) * (one \div busiest)
  <2>1. CASE busiest = 0 BY <2>1
  <2>2. CASE busiest # 0
    <3>1. busiest - c.past \in Int /\ one \div busiest \in Int BY <2>2
    <3>2. (busiest - c.past) * (one \div busiest) \in Int BY <3>1, Product
    <3> QED BY <2>2, <3>2
  <2> QED BY <2>1, <2>2
<1>8. Score(c, busiest, radius, Now, Weights) =
        Weights.distance * d + Weights.availability * a + Weights.verification * v + Weights.experience * y
          + Weights.exploration * x
  BY <1>2, <1>3, <1>4, <1>5, <1>6, <1>7 DEF Score
<1>9. /\ Weights.distance * d \in Int /\ Weights.availability * a \in Int /\ Weights.verification * v \in Int
      /\ Weights.experience * y \in Int /\ Weights.exploration * x \in Int
  BY <1>1, Product
<1> QED BY <1>8, <1>9

\* The candidates of a search that counted seen[p] past batches of provider p.
PoolOf(found, seen) == {Candidate(p, seen[p]) : p \in found}

RankedPool(found, seen, radius) == Ranked(PoolOf(found, seen), radius, Now, Weights)

LEMMA PoolRanked ==
    ASSUME ExposureAssumption, NEW found \in SUBSET Providers, found # {}, NEW seen \in [Providers -> Nat],
           NEW radius \in Nat \ {0}
    PROVE  /\ IsRanking(RankedPool(found, seen, radius))
           /\ \A c \in RankedPool(found, seen, radius) : c.id \in found /\ c.past = seen[c.id]
           /\ \A p \in found : \E c \in RankedPool(found, seen, radius) : c.id = p
<1> DEFINE pool == PoolOf(found, seen)
           pasts == {c.past : c \in pool}
           R == Ranked(pool, radius, Now, Weights)
           score(c) == Score(c, MaxPast(pool), radius, Now, Weights)
           rowOf(c) == [id |-> c.id, past |-> c.past, score |-> score(c)]
           row == [p \in found |-> [id |-> p, past |-> seen[p], score |-> score(Candidate(p, seen[p]))]]
<1>1. IsFiniteSet(found) /\ found \subseteq Nat BY FS_Subset DEF ExposureAssumption
<1>2. \A p \in found : seen[p] \in Nat OBVIOUS
<1>a. \A p \in found : Candidate(p, seen[p]).id = p /\ Candidate(p, seen[p]).past = seen[p] BY DEF Candidate
<1>3. pasts = {seen[p] : p \in found}
  <2>1. pasts = {Candidate(p, seen[p]).past : p \in found} BY DEF PoolOf
  <2> QED BY <1>a, <2>1
<1>4. MaxPast(pool) \in Nat
  <2> DEFINE f == [p \in found |-> seen[p]]
  <2>1. f \in Surjection(found, pasts) BY <1>3 DEF Surjection
  <2> HIDE DEF f, pasts
  <2>2. IsFiniteSet(pasts) BY <1>1, <2>1, FS_Surjection
  <2>3. pasts \subseteq Nat BY <1>2, <1>3
  <2>4. PICK p \in found : TRUE OBVIOUS
  <2>5. seen[p] \in pasts BY <1>3
  <2>6. pasts # {} /\ pasts \in SUBSET Nat BY <2>3, <2>5
  <2> QED BY <2>2, <2>6, MaxOfNaturals DEF MaxPast, pasts
<1>5. R = {row[p] : p \in found}
  <2>1. R = {rowOf(c) : c \in pool} BY DEF Ranked
  <2>2. pool = {Candidate(p, seen[p]) : p \in found} BY DEF PoolOf
  <2>3. \A p \in found : rowOf(Candidate(p, seen[p])) = row[p]
    <3> HIDE DEF score
    <3> QED BY <1>a
  <2> HIDE DEF R, row, rowOf, pool
  <2>4. R = {rowOf(Candidate(p, seen[p])) : p \in found} BY <2>1, <2>2
  <2> QED BY <2>3, <2>4
<1>6. \A p \in found : row[p].id = p /\ row[p].past = seen[p] OBVIOUS
<1>7. \A p \in found : row[p].score \in Int
  <2>1. SUFFICES ASSUME NEW p \in found PROVE score(Candidate(p, seen[p])) \in Int OBVIOUS
  <2>2. PICK c : c = Candidate(p, seen[p]) OBVIOUS
  <2>3. c.distance \in Nat /\ c.years \in Nat /\ c.past \in Nat BY <1>2, <2>2 DEF Candidate, ExposureAssumption
  <2> HIDE DEF pool
  <2> QED BY <1>4, <2>2, <2>3, ScoreIsANumber
<1>8. row \in Surjection(found, R) BY <1>5 DEF Surjection
<1> HIDE DEF row, R
<1>9. IsFiniteSet(R) BY <1>1, <1>8, FS_Surjection
<1>10. IsRanking(R) BY <1>1, <1>2, <1>5, <1>6, <1>7, <1>9 DEF IsRanking
<1>11. \A c \in R : c.id \in found /\ c.past = seen[c.id] BY <1>5, <1>6
<1>12. \A p \in found : \E c \in R : c.id = p BY <1>5, <1>6
<1> QED BY <1>10, <1>11, <1>12 DEF R, RankedPool
-----------------------------------------------------------------------------
(***************************************************************************)
(* The searches.  A search can pass a newcomer over for the sake of        *)
(* provider q while it takes q for a newcomer too; once q was contacted,   *)
(* the search does so at most with the count it holds, and then never      *)
(* again: the pair of the two is spent.                                    *)
(***************************************************************************)
Pools == SUBSET {Candidate(p, n) : p \in Providers, n \in Nat}
SearchRecord == [step: {"idle", "find", "count", "insert"}, config: Config, radius: Nat,
                 found: SUBSET Providers, pool: Pools]

\* The counts of a search may be old, and are then too low.
Counted(k) ==
    \E seen \in [Providers -> Nat] :
        k.pool = PoolOf(k.found, seen) /\ \A p \in Providers : seen[p] <= past[p]

Known(k) ==
    /\ k.step # "idle" => k.radius # 0
    /\ k.step \in {"count", "insert"} => k.found # {}
    /\ k.step = "insert" => Counted(k)

Patches == [field: {"batchSize"}, value: BatchSizes, read: Config] \cup [field: {"slots"}, value: Slots, read: Config]
             \cup [field: {"radius", "maxRadius"}, value: Radii, read: Config]

Usable(s, q) ==
    past[q] = 0 \/ (search[s].step = "insert" /\ \E c \in search[s].pool : c.id = q /\ c.past = 0)

Spent == {x \in Searches \X Providers : ~Usable(x[1], x[2])}

\* Each time p was passed over spent a pair; and the first time a search did
\* it, it spent two, the best of its pool being the other.
PassedOver(p) ==
    past[p] = 0 => \E W \in SUBSET Spent :
        waited[p] <= Cardinality(W) /\ \A x \in W : \E q \in Providers : <<x[1], q>> \in Spent \ W

StateOK ==
    /\ config \in Config /\ patch \in Patches \cup {NoPatch} /\ available \subseteq Providers
    /\ past \in [Providers -> Nat] /\ waited \in [Providers -> Nat]
    /\ search \in [Searches -> SearchRecord]

IInv ==
    /\ StateOK
    /\ \A s \in Searches : Known(search[s])
    /\ \A p \in Providers : PassedOver(p)

LEMMA SearchFields ==
    ASSUME StateOK, NEW s \in Searches
    PROVE  /\ search[s] \in SearchRecord /\ search[s].config \in Config /\ search[s].radius \in Nat
           /\ search[s].found \in SUBSET Providers /\ search[s].pool \in Pools
<1>1. search[s] \in SearchRecord BY DEF StateOK
<1> QED BY <1>1 DEF SearchRecord

LEMMA ConfigFields ==
    ASSUME ExposureAssumption, NEW c \in Config
    PROVE  /\ c.batchSize \in Nat \ {0, 1} /\ c.slots \in Nat \ {0}
           /\ c.radius \in Nat \ {0} /\ c.maxRadius \in Nat \ {0}
BY DEF Config, ExposureAssumption

LEMMA IdleTyped ==
    ASSUME Config # {}
    PROVE  Idle \in SearchRecord /\ Known(Idle) /\ Idle.step = "idle"
<1>1. PICK c \in Config : c = CHOOSE d \in Config : TRUE OBVIOUS
<1>2. {} \in Pools /\ {} \in SUBSET Providers BY DEF Pools
<1> QED BY <1>1, <1>2 DEF Idle, SearchRecord, Known

LEMMA PairsFinite ==
    ASSUME ExposureAssumption
    PROVE  IsFiniteSet(Searches \X Providers) /\ IsFiniteSet(Spent)
<1>1. IsFiniteSet(Searches \X Providers) BY FS_Product DEF ExposureAssumption
<1>2. Spent \in SUBSET (Searches \X Providers) BY DEF Spent
<1> QED BY <1>1, <1>2, FS_Subset

\* What is spent stays spent, so a count that did not move stays covered.
LEMMA CoverStays ==
    ASSUME StateOK, past' \in [Providers -> Nat], Spent \subseteq Spent', NEW p \in Providers, PassedOver(p),
           past'[p] >= past[p], past'[p] = 0 => waited'[p] = waited[p]
    PROVE  PassedOver(p)'
<1>1. SUFFICES ASSUME past'[p] = 0
               PROVE  \E W \in SUBSET Spent' :
                        waited'[p] <= Cardinality(W) /\ \A x \in W : \E q \in Providers : <<x[1], q>> \in Spent' \ W
  BY DEF PassedOver
<1>2. past[p] = 0 BY <1>1 DEF StateOK
<1>3. PICK W \in SUBSET Spent :
        waited[p] <= Cardinality(W) /\ \A x \in W : \E q \in Providers : <<x[1], q>> \in Spent \ W
  BY <1>2 DEF PassedOver
<1>4. W \in SUBSET Spent' /\ waited'[p] <= Cardinality(W) BY <1>1, <1>3
<1>5. \A x \in W : \E q \in Providers : <<x[1], q>> \in Spent' \ W BY <1>3
<1> QED BY <1>4, <1>5

\* A search moves to k: what it counts, it counts now.
LEMMA SearchMoves ==
    ASSUME IInv, NEW s \in Searches, NEW k \in SearchRecord, Known(k), search' = [search EXCEPT ![s] = k],
           k.step = "insert" => k.pool = PoolOf(k.found, past), UNCHANGED <<config, patch, available, past, waited>>
    PROVE  IInv'
<1>1. search' \in [Searches -> SearchRecord] /\ \A t \in Searches : search'[t] = IF t = s THEN k ELSE search[t]
  BY DEF IInv, StateOK
<1>2. StateOK' BY <1>1 DEF IInv, StateOK
<1>3. ASSUME NEW t \in Searches PROVE Known(search[t])'
  <2>1. PICK j : j = search'[t] OBVIOUS
  <2>2. Known(j) BY <1>1, <2>1 DEF IInv
  <2>3. Known(j)' BY <2>2 DEF Known, Counted
  <2> QED BY <2>1, <2>3
<1>4. Spent \subseteq Spent'
  <2>1. SUFFICES ASSUME NEW t \in Searches, NEW q \in Providers, Usable(t, q)' PROVE Usable(t, q) BY DEF Spent
  <2>2. CASE past[q] = 0 BY <2>2 DEF Usable
  <2>3. CASE past[q] # 0
    <3>1. search'[t].step = "insert" /\ \E c \in search'[t].pool : c.id = q /\ c.past = 0
      BY <2>1, <2>3 DEF Usable
    <3>2. CASE t # s BY <1>1, <3>1, <3>2 DEF Usable
    <3>3. CASE t = s
      <4>1. k.step = "insert" /\ \E c \in k.pool : c.id = q /\ c.past = 0 BY <1>1, <3>1, <3>3
      <4>2. PICK p \in k.found : Candidate(p, past[p]).id = q /\ Candidate(p, past[p]).past = 0
        BY <4>1 DEF PoolOf
      <4>3. p = q /\ past[p] = 0 BY <4>2 DEF Candidate
      <4> QED BY <2>3, <4>3
    <3> QED BY <3>2, <3>3
  <2> QED BY <2>2, <2>3
<1>5. ASSUME NEW p \in Providers PROVE PassedOver(p)'
  <2>1. past[p] \in Nat /\ past'[p] >= past[p] /\ waited'[p] = waited[p] BY DEF IInv, StateOK
  <2>2. past' \in [Providers -> Nat] /\ PassedOver(p) /\ StateOK BY DEF IInv, StateOK
  <2> QED BY <1>4, <2>1, <2>2, CoverStays
<1> QED BY <1>2, <1>3, <1>5 DEF IInv
LEMMA SearchSteps ==
    ASSUME ExposureAssumption, IInv, NEW s \in Searches, BeginSearch(s) \/ FindEligible(s) \/ CountPast(s)
    PROVE  IInv'
<1>1. UNCHANGED <<config, patch, available, past, waited>> BY DEF BeginSearch, FindEligible, CountPast
<1>2. /\ search[s] \in SearchRecord /\ search[s].config \in Config /\ search[s].radius \in Nat
      /\ search[s].found \in SUBSET Providers
  BY SearchFields DEF IInv
<1>3. Known(search[s]) BY DEF IInv
<1>4. PICK idle \in SearchRecord : idle = Idle /\ Known(idle) /\ idle.step = "idle" BY <1>2, IdleTyped
<1>5. ASSUME NEW k \in SearchRecord, Known(k), k.step # "insert", search' = [search EXCEPT ![s] = k] PROVE IInv'
  BY <1>1, <1>5, SearchMoves
<1>6. CASE BeginSearch(s)
  <2>1. config \in Config BY DEF IInv, StateOK
  <2>2. config.radius \in Nat \ {0} BY <2>1, ConfigFields
  <2> DEFINE k == [idle EXCEPT !.step = "find", !.config = config, !.radius = config.radius]
  <2>3. k \in SearchRecord /\ k.step = "find" /\ k.radius = config.radius BY <2>1, <2>2 DEF SearchRecord
  <2>4. search' = [search EXCEPT ![s] = k] BY <1>4, <1>6 DEF BeginSearch
  <2> HIDE DEF k
  <2>5. Known(k) BY <2>2, <2>3 DEF Known
  <2> QED BY <1>5, <2>3, <2>4, <2>5
<1>7. CASE FindEligible(s)
  <2> DEFINE found == Found(search[s].radius)
             r == search[s].radius
             most == search[s].config.maxRadius
             wider == AtMost(most, r + RadiusStep)
  <2>1. found \in SUBSET Providers BY DEF Found, IInv, StateOK
  <2>2. most \in Nat \ {0} BY <1>2, ConfigFields
  <2>3. wider \in Nat \ {0} BY <1>2, <2>2 DEF AtMost, ExposureAssumption
  <2>4. r # 0 BY <1>3, <1>7 DEF FindEligible, Known
  <2>5. CASE found # {}
    <3> DEFINE k == [search[s] EXCEPT !.step = "count", !.found = found]
    <3>1. search' = [search EXCEPT ![s] = k] BY <1>7, <2>5 DEF FindEligible
    <3> HIDE DEF found
    <3>2. k \in SearchRecord /\ k.step = "count" /\ k.found = found /\ k.radius = r BY <1>2, <2>1 DEF SearchRecord
    <3> HIDE DEF k
    <3>3. Known(k) BY <2>4, <2>5, <3>2 DEF Known
    <3> QED BY <1>5, <3>1, <3>2, <3>3
  <2>6. CASE found = {} /\ r >= most
    <3>1. search' = [search EXCEPT ![s] = idle] BY <1>2, <1>4, <1>7, <2>2, <2>6 DEF FindEligible
    <3> QED BY <1>4, <1>5, <3>1
  <2>7. CASE found = {} /\ r < most
    <3> DEFINE k == [search[s] EXCEPT !.radius = wider]
    <3>1. search' = [search EXCEPT ![s] = k] BY <1>2, <1>7, <2>2, <2>7 DEF FindEligible
    <3> HIDE DEF wider
    <3>2. k \in SearchRecord /\ k.step = search[s].step /\ k.radius = wider BY <1>2, <2>3 DEF SearchRecord
    <3>3. k.step = "find" BY <1>7, <3>2 DEF FindEligible
    <3> HIDE DEF k
    <3>4. Known(k) BY <2>3, <3>2, <3>3 DEF Known
    <3> QED BY <1>5, <3>1, <3>2, <3>3, <3>4
  <2>8. r >= most \/ r < most BY <1>2, <2>2
  <2> QED BY <2>5, <2>6, <2>7, <2>8
<1>8. CASE CountPast(s)
  <2> DEFINE pool == PoolOf(search[s].found, past)
             k == [search[s] EXCEPT !.step = "insert", !.pool = pool]
  <2>1. search' = [search EXCEPT ![s] = k] BY <1>8 DEF CountPast, PoolOf
  <2>2. past \in [Providers -> Nat] BY DEF IInv, StateOK
  <2>3. pool \in Pools
    <3>1. ASSUME NEW p \in search[s].found
          PROVE  Candidate(p, past[p]) \in {Candidate(q, n) : q \in Providers, n \in Nat}
      <4>1. p \in Providers /\ past[p] \in Nat BY <1>2, <2>2
      <4> QED BY <4>1
    <3> QED BY <3>1 DEF PoolOf, Pools
  <2> HIDE DEF pool
  <2>4. k \in SearchRecord /\ k.step = "insert" /\ k.pool = pool /\ k.found = search[s].found /\ k.radius = search[s].radius
    BY <1>2, <2>3 DEF SearchRecord
  <2> HIDE DEF k
  <2>5. k.found # {} /\ k.radius # 0 BY <1>3, <1>8, <2>4 DEF CountPast, Known
  <2>6. Counted(k)
    <3>1. k.pool = PoolOf(k.found, past) BY <2>4 DEF pool
    <3>2. ASSUME NEW p \in Providers PROVE past[p] <= past[p]
      <4>1. past[p] \in Nat BY <2>2
      <4> QED BY <4>1
    <3> QED BY <2>2, <3>1, <3>2 DEF Counted
  <2>7. Known(k) BY <2>5, <2>6 DEF Known
  <2>8. k.pool = PoolOf(k.found, past) BY <2>4 DEF pool
  <2> QED BY <1>1, <2>1, <2>4, <2>7, <2>8, SearchMoves
<1> QED BY <1>6, <1>7, <1>8

\* The configuration and the availability of providers change meanwhile.
LEMMA ConfigSteps ==
    ASSUME ExposureAssumption, IInv, UNCHANGED <<past, search, waited>>,
           config' \in Config, patch' \in Patches \cup {NoPatch}, available' \subseteq Providers
    PROVE  IInv'
<1>1. StateOK' BY DEF IInv, StateOK
<1>2. \A s \in Searches : Known(search[s])' BY DEF IInv, Known, Counted
<1>3. Spent' = Spent BY DEF Spent, Usable
<1>4. \A p \in Providers : PassedOver(p)' BY <1>3 DEF IInv, PassedOver
<1> QED BY <1>1, <1>2, <1>4 DEF IInv

LEMMA UpdateSteps ==
    ASSUME ExposureAssumption, IInv,
           \/ \E p \in Providers : UpdateAvailability(p)
           \/ \E size \in BatchSizes : BeginUpdate("batchSize", size)
           \/ \E slots \in Slots : BeginUpdate("slots", slots)
           \/ \E radius \in Radii : BeginUpdate("radius", radius) \/ BeginUpdate("maxRadius", radius)
           \/ WriteConfiguration
    PROVE  IInv'
<1>1. config \in Config /\ patch \in Patches \cup {NoPatch} /\ available \subseteq Providers BY DEF IInv, StateOK
<1>2. ASSUME NEW p \in Providers, UpdateAvailability(p) PROVE IInv'
  <2>1. UNCHANGED <<config, patch, past, search, waited>> /\ available' \subseteq Providers
    BY <1>1, <1>2 DEF UpdateAvailability
  <2> QED BY <1>1, <2>1, ConfigSteps
<1>3. ASSUME NEW size \in BatchSizes, BeginUpdate("batchSize", size) PROVE IInv'
  <2>1. patch' \in Patches BY <1>1, <1>3 DEF BeginUpdate, Patches
  <2> QED BY <1>1, <1>3, <2>1, ConfigSteps DEF BeginUpdate
<1>4. ASSUME NEW slots \in Slots, BeginUpdate("slots", slots) PROVE IInv'
  <2>1. patch' \in Patches BY <1>1, <1>4 DEF BeginUpdate, Patches
  <2> QED BY <1>1, <1>4, <2>1, ConfigSteps DEF BeginUpdate
<1>5. ASSUME NEW radius \in Radii, BeginUpdate("radius", radius) \/ BeginUpdate("maxRadius", radius) PROVE IInv'
  <2>1. patch' \in Patches BY <1>1, <1>5 DEF BeginUpdate, Patches
  <2> QED BY <1>1, <1>5, <2>1, ConfigSteps DEF BeginUpdate
<1>6. CASE WriteConfiguration
  <2>1. patch \in Patches /\ config' = [patch.read EXCEPT ![patch.field] = patch.value]
        /\ patch' = NoPatch /\ UNCHANGED <<available, past, search, waited>>
    BY <1>1, <1>6 DEF WriteConfiguration
  <2>2. config' \in Config
    <3>1. patch.read \in Config BY <2>1 DEF Patches
    <3>2. CASE patch.field = "batchSize" /\ patch.value \in BatchSizes BY <2>1, <3>1, <3>2 DEF Config
    <3>3. CASE patch.field = "slots" /\ patch.value \in Slots BY <2>1, <3>1, <3>3 DEF Config
    <3>4. CASE patch.field = "radius" /\ patch.value \in Radii BY <2>1, <3>1, <3>4 DEF Config
    <3>5. CASE patch.field = "maxRadius" /\ patch.value \in Radii BY <2>1, <3>1, <3>5 DEF Config
    <3> QED BY <2>1, <3>2, <3>3, <3>4, <3>5 DEF Patches
  <2> QED BY <1>1, <2>1, <2>2, ConfigSteps
<1> QED BY <1>2, <1>3, <1>4, <1>5, <1>6

-----------------------------------------------------------------------------
(***************************************************************************)
(* A batch.                                                                *)
(***************************************************************************)
\* The ranking of the search that inserts.
RankingOf(s) == Ranked(search[s].pool, search[s].radius, Now, Weights)

LEMMA InsertRanked ==
    ASSUME ExposureAssumption, IInv, NEW s \in Searches, search[s].step = "insert"
    PROVE  /\ IsRanking(RankingOf(s))
           /\ \A c \in RankingOf(s) : c.id \in search[s].found /\ (c.past = 0 => Usable(s, c.id))
           /\ \A p \in search[s].found : \E c \in RankingOf(s) : c.id = p /\ (past[p] = 0 => c.past = 0)
<1>1. /\ search[s].radius \in Nat /\ search[s].found \in SUBSET Providers
  BY SearchFields DEF IInv
<1>2. search[s].radius # 0 /\ search[s].found # {} /\ Counted(search[s]) BY DEF IInv, Known
<1>3. PICK seen \in [Providers -> Nat] :
        search[s].pool = PoolOf(search[s].found, seen) /\ \A p \in Providers : seen[p] <= past[p]
  BY <1>2 DEF Counted
<1>4. PICK radius \in Nat \ {0} : radius = search[s].radius BY <1>1, <1>2
<1>5. PICK found \in SUBSET Providers : found = search[s].found /\ found # {} BY <1>1, <1>2
<1>6. PICK R : R = RankingOf(s) OBVIOUS
<1>7. R = RankedPool(found, seen, radius) BY <1>3, <1>4, <1>5, <1>6 DEF RankingOf, RankedPool
<1>8. /\ IsRanking(R)
      /\ \A c \in R : c.id \in found /\ c.past = seen[c.id]
      /\ \A p \in found : \E c \in R : c.id = p
  <2>1. found # {} BY <1>5
  <2>2. /\ IsRanking(RankedPool(found, seen, radius))
        /\ \A c \in RankedPool(found, seen, radius) : c.id \in found /\ c.past = seen[c.id]
        /\ \A p \in found : \E c \in RankedPool(found, seen, radius) : c.id = p
    <3>1. found \in SUBSET Providers /\ seen \in [Providers -> Nat] /\ radius \in Nat \ {0}
      BY <1>3, <1>4, <1>5
    <3> HIDE <1>3, <1>4, <1>5
    <3> QED BY <2>1, <3>1, PoolRanked
  <2> QED BY <1>7, <2>2
<1>9. ASSUME NEW c \in R, c.past = 0 PROVE Usable(s, c.id)
  <2>1. c.id \in found /\ seen[c.id] = 0 BY <1>8, <1>9
  <2>2. PICK q \in found : q = c.id BY <2>1
  <2>3. Candidate(q, seen[q]) \in search[s].pool BY <1>3, <1>5 DEF PoolOf
  <2>4. Candidate(q, seen[q]).id = q /\ Candidate(q, seen[q]).past = 0 BY <2>1, <2>2 DEF Candidate
  <2> QED BY <2>2, <2>3, <2>4 DEF Usable
<1>10. ASSUME NEW p \in found PROVE \E c \in R : c.id = p /\ (past[p] = 0 => c.past = 0)
  <2>1. PICK c \in R : c.id = p /\ c.past = seen[p] BY <1>8
  <2>2. seen[p] \in Nat /\ seen[p] <= past[p] BY <1>3
  <2> QED BY <2>1, <2>2
<1> QED BY <1>5, <1>6, <1>8, <1>9, <1>10

LEMMA InsertStep ==
    ASSUME ExposureAssumption, IInv, NEW s \in Searches, InsertBatch(s)
    PROVE  IInv'
<1> DEFINE k == search[s]
           size == k.config.batchSize
           slots == k.config.slots
           R == RankingOf(s)
           batch == SelectBatch(R, size, slots)
           chosen == {c.id : c \in batch}
<1>1. k.step = "insert" BY DEF InsertBatch
<1>2. /\ k \in SearchRecord /\ k.config \in Config /\ k.found \in SUBSET Providers
  BY SearchFields DEF IInv
<1>3. size \in Nat \ {0, 1} /\ slots \in Nat \ {0} BY <1>2, ConfigFields
<1>4. /\ past' = [p \in Providers |-> IF p \in chosen THEN past[p] + 1 ELSE past[p]]
      /\ waited' = [p \in Providers |-> IF p \in chosen THEN 0
                                        ELSE IF p \in k.found THEN waited[p] + 1 ELSE waited[p]]
      /\ search' = [search EXCEPT ![s] = Idle]
      /\ UNCHANGED <<config, patch, available>>
  BY DEF InsertBatch, Selected, RankingOf
<1>5. PICK idle \in SearchRecord : idle = Idle /\ idle.step = "idle" BY <1>2, IdleTyped
<1>6. past \in [Providers -> Nat] /\ waited \in [Providers -> Nat] BY DEF IInv, StateOK
<1> HIDE DEF chosen
<1>7. past' \in [Providers -> Nat] /\ waited' \in [Providers -> Nat] BY <1>4, <1>6
<1>8. \A p \in Providers : past'[p] >= past[p] /\ (p \in chosen => past'[p] # 0) BY <1>4, <1>6
<1>9. search' \in [Searches -> SearchRecord] /\ search'[s] = idle /\ \A t \in Searches \ {s} : search'[t] = search[t]
  BY <1>4, <1>5 DEF IInv, StateOK
<1>10. StateOK' BY <1>4, <1>7, <1>9 DEF IInv, StateOK
<1>11. ASSUME NEW t \in Searches PROVE Known(search[t])'
  <2>1. CASE t = s BY <1>5, <1>9, <2>1 DEF Known
  <2>2. CASE t # s
    <3>1. PICK j : j = search[t] OBVIOUS
    <3>2. Known(j) BY <3>1 DEF IInv
    <3>3. Counted(j) => Counted(j)'
      <4>1. SUFFICES ASSUME NEW seen \in [Providers -> Nat], \A p \in Providers : seen[p] <= past[p]
                     PROVE  \A p \in Providers : seen[p] <= past'[p]
        BY DEF Counted
      <4>2. SUFFICES ASSUME NEW p \in Providers PROVE seen[p] <= past'[p] OBVIOUS
      <4>3. seen[p] \in Nat /\ past[p] \in Nat /\ past'[p] \in Nat /\ seen[p] <= past[p] /\ past'[p] >= past[p]
        BY <1>6, <1>7, <1>8, <4>1
      <4> QED BY <4>3
    <3>4. Known(j)' BY <3>2, <3>3 DEF Known
    <3> QED BY <1>9, <2>2, <3>1, <3>4
  <2> QED BY <2>1, <2>2
<1>12. Spent \subseteq Spent'
  <2>1. SUFFICES ASSUME NEW t \in Searches, NEW q \in Providers, Usable(t, q)' PROVE Usable(t, q) BY DEF Spent
  <2>2. past'[q] = 0 => past[q] = 0 BY <1>6, <1>7, <1>8
  <2>3. search'[t].step = "insert" => search'[t] = search[t] BY <1>5, <1>9
  <2> QED BY <2>1, <2>2, <2>3 DEF Usable
<1>13. IsRanking(R) /\ batch \subseteq R BY <1>1, <1>3, InsertRanked, BatchIsFull
<1>14. \A q \in Providers : q \in chosen => <<s, q>> \in Spent' BY <1>5, <1>8, <1>9 DEF Spent, Usable
<1>15. ASSUME NEW p \in Providers, past[p] = 0, p \in k.found, p \notin chosen PROVE PassedOver(p)'
  <2>1. PICK c \in R : c.id = p /\ c.past = 0 BY <1>1, <1>15, InsertRanked
  <2>2. c \notin batch BY <1>15, <2>1 DEF chosen
  <2> HIDE DEF R
  <2>3. PICK m \in batch, q \in batch : m # q /\ q.past = 0 BY <1>3, <1>13, <2>1, <2>2, NewcomerFirst
  <2>4. m.id # q.id BY <1>13, <2>3 DEF IsRanking
  <2>5. m.id \in Providers /\ q.id \in Providers /\ Usable(s, q.id)
    BY <1>1, <1>2, <1>13, <2>3, InsertRanked DEF R
  <2>6. m.id \in chosen /\ q.id \in chosen BY <2>3 DEF chosen
  <2>7. PICK mid \in Providers, qid \in Providers : mid = m.id /\ qid = q.id BY <2>5
  <2>8. /\ <<s, qid>> \notin Spent /\ <<s, qid>> \in Spent' /\ <<s, mid>> \in Spent' /\ mid # qid
    BY <1>14, <2>4, <2>5, <2>6, <2>7 DEF Spent
  <2>9. PICK W \in SUBSET Spent :
          waited[p] <= Cardinality(W) /\ \A x \in W : \E r \in Providers : <<x[1], r>> \in Spent \ W
    BY <1>15 DEF PassedOver, IInv
  <2> DEFINE V == W \cup {<<s, qid>>}
  <2>10. V \in SUBSET Spent' BY <1>12, <2>8
  <2>11. Cardinality(V) = Cardinality(W) + 1 /\ Cardinality(W) \in Nat
    <3>1. IsFiniteSet(W) BY PairsFinite, FS_Subset
    <3> QED BY <2>8, <3>1, FS_AddElement, FS_CardinalityType
  <2>12. waited'[p] = waited[p] + 1 BY <1>4, <1>15
  <2>13. waited'[p] <= Cardinality(V) BY <1>6, <2>9, <2>11, <2>12
  <2>14. ASSUME NEW x \in V PROVE \E r \in Providers : <<x[1], r>> \in Spent' \ V
    <3>1. ASSUME NEW r \in Providers, <<x[1], r>> \in Spent \ W PROVE <<x[1], r>> \in Spent' \ V
      BY <1>12, <2>8, <3>1
    <3>2. CASE x \in W BY <2>9, <3>1, <3>2
    <3>3. CASE x = <<s, qid>>
      <4>1. CASE \E r \in Providers : <<s, r>> \in Spent \ W BY <3>1, <3>3, <4>1
      <4>2. CASE \A r \in Providers : <<s, r>> \notin Spent \ W
        <5>1. <<s, mid>> \notin W BY <2>9, <4>2
        <5>2. <<s, mid>> \in Spent' \ V BY <2>8, <5>1
        <5> QED BY <3>3, <5>2
      <4> QED BY <4>1, <4>2
    <3> QED BY <3>2, <3>3
  <2> HIDE DEF V
  <2> QED BY <2>10, <2>13, <2>14 DEF PassedOver
<1>16. ASSUME NEW p \in Providers PROVE PassedOver(p)'
  <2>1. CASE p \in chosen BY <1>8, <2>1 DEF PassedOver
  <2>2. CASE p \notin chosen /\ p \in k.found /\ past[p] = 0 BY <1>15, <2>2
  <2>3. CASE p \notin chosen /\ ~(p \in k.found /\ past[p] = 0)
    <3>1. past'[p] = 0 => waited'[p] = waited[p] BY <1>4, <2>3
    <3>2. PassedOver(p) /\ StateOK BY DEF IInv
    <3> QED BY <1>7, <1>8, <1>12, <3>1, <3>2, CoverStays
  <2> QED BY <2>1, <2>2, <2>3
<1> QED BY <1>10, <1>11, <1>16 DEF IInv
-----------------------------------------------------------------------------
LEMMA InitInv == ExposureAssumption /\ Init => IInv
<1> SUFFICES ASSUME ExposureAssumption, Init PROVE IInv OBVIOUS
<1>1. Config # {} BY DEF Init
<1>2. PICK idle \in SearchRecord : idle = Idle /\ Known(idle) BY <1>1, IdleTyped
<1>3. search = [s \in Searches |-> idle] BY <1>2 DEF Init
<1>4. StateOK BY <1>3 DEF Init, StateOK
<1>5. \A s \in Searches : Known(search[s]) BY <1>2, <1>3
<1>6. ASSUME NEW p \in Providers PROVE PassedOver(p)
  <2>1. waited[p] = 0 BY DEF Init
  <2>2. {} \in SUBSET Spent /\ waited[p] <= Cardinality({}) BY <2>1, FS_EmptySet
  <2> QED BY <2>2 DEF PassedOver
<1> QED BY <1>4, <1>5, <1>6 DEF IInv

LEMMA NextKeeps ==
    ASSUME ExposureAssumption, IInv, [Next]_vars
    PROVE  IInv'
<1>1. CASE UNCHANGED vars
  <2>1. UNCHANGED <<config, patch, available, past, search, waited>> BY <1>1 DEF vars
  <2>2. config \in Config /\ patch \in Patches \cup {NoPatch} /\ available \subseteq Providers BY DEF IInv, StateOK
  <2> QED BY <2>1, <2>2, ConfigSteps
<1>2. ASSUME NEW s \in Searches, BeginSearch(s) \/ FindEligible(s) \/ CountPast(s) \/ InsertBatch(s) PROVE IInv'
  BY <1>2, SearchSteps, InsertStep
<1> QED BY <1>1, <1>2, UpdateSteps DEF Next

\* The invariant holds in every reachable state.
THEOREM Invariance == Spec => []IInv
<1>1. Init => IInv BY InitInv, ExposureAssumption
<1>2. IInv /\ [Next]_vars => IInv' BY NextKeeps, ExposureAssumption
<1> QED BY <1>1, <1>2, PTL DEF Spec

\* Every variable keeps its type, whatever an update of the configuration
\* overwrites.
THEOREM Typed == Spec => []TypeOK
<1>1. ASSUME IInv PROVE TypeOK
  <2>1. \A s \in Searches : search[s].found \subseteq Providers /\ search[s].config \in Config
    BY <1>1, SearchFields DEF IInv
  <2> QED BY <1>1, <2>1 DEF IInv, StateOK, TypeOK
<1> QED BY <1>1, Invariance, PTL

\* Pairs of a search and a provider that leave out, for each search, p and one
\* more are at most as many as the bound: the provider left out takes the
\* place of a fixed one.
LEMMA PairsCounted ==
    ASSUME ExposureAssumption, NEW p \in Providers, NEW W \in SUBSET (Searches \X Providers),
           \A x \in W : x[2] # p /\ \E q \in Providers : q # p /\ <<x[1], q>> \notin W
    PROVE  Cardinality(W) <= Cardinality(Searches) * (Cardinality(Providers) - 2)
<1>1. IsFiniteSet(Providers) /\ IsFiniteSet(Searches) /\ Cardinality(Providers) \in Nat /\ Cardinality(Providers) >= 2
  BY FS_CardinalityType DEF ExposureAssumption
<1>2. IsFiniteSet(Providers \ {p}) /\ Cardinality(Providers \ {p}) = Cardinality(Providers) - 1
  BY <1>1, FS_RemoveElement
<1>3. PICK r \in Providers : r # p
  <2>1. Providers \ {p} # {} BY <1>1, <1>2, FS_EmptySet
  <2> QED BY <2>1
<1> DEFINE T == (Providers \ {p}) \ {r}
           spare(s) == CHOOSE q \in Providers : q # p /\ <<s, q>> \notin W
           f == [x \in W |-> <<x[1], IF x[2] = r THEN spare(x[1]) ELSE x[2]>>]
<1>4. IsFiniteSet(T) /\ Cardinality(T) = Cardinality(Providers) - 2
  <2>1. r \in Providers \ {p} BY <1>3
  <2>2. IsFiniteSet(T) /\ Cardinality(T) = Cardinality(Providers \ {p}) - 1
    BY <1>2, <2>1, FS_RemoveElement
  <2> HIDE DEF T
  <2> QED BY <1>1, <1>2, <2>2
<1>5. \A x \in W : x = <<x[1], x[2]>> /\ x[1] \in Searches /\ x[2] \in Providers /\ x[2] # p OBVIOUS
<1>6. \A x \in W : spare(x[1]) \in Providers /\ spare(x[1]) # p /\ <<x[1], spare(x[1])>> \notin W
  OBVIOUS
<1> HIDE DEF spare
<1>7. \A x \in W : f[x] \in Searches \X T
  <2>1. SUFFICES ASSUME NEW x \in W PROVE (IF x[2] = r THEN spare(x[1]) ELSE x[2]) \in T BY <1>5
  <2>2. CASE x[2] = r
    <3>1. spare(x[1]) # r BY <1>5, <1>6, <2>2
    <3> QED BY <1>6, <2>2, <3>1
  <2>3. CASE x[2] # r BY <1>5, <2>3
  <2> QED BY <2>2, <2>3
<1>8. ASSUME NEW x \in W, NEW y \in W, f[x] = f[y] PROVE x = y
  <2>1. x[1] = y[1] /\ (IF x[2] = r THEN spare(x[1]) ELSE x[2]) = (IF y[2] = r THEN spare(y[1]) ELSE y[2])
    BY <1>8
  <2>2. CASE x[2] = r /\ y[2] # r
    <3>1. <<x[1], spare(x[1])>> = <<y[1], y[2]>> BY <2>1, <2>2
    <3>2. y \notin W BY <1>5, <1>6, <3>1
    <3> QED BY <3>2
  <2>3. CASE x[2] # r /\ y[2] = r
    <3>1. <<y[1], spare(y[1])>> = <<x[1], x[2]>> BY <2>1, <2>3
    <3>2. x \notin W BY <1>5, <1>6, <3>1
    <3> QED BY <3>2
  <2>4. CASE (x[2] = r) = (y[2] = r)
    <3>1. x[2] = y[2] BY <2>1, <2>4
    <3> QED BY <1>5, <2>1, <3>1
  <2> QED BY <2>2, <2>3, <2>4
<1>9. f \in Injection(W, Searches \X T) BY <1>7, <1>8 DEF Injection, IsInjective
<1> HIDE DEF f, T
<1>10. IsFiniteSet(Searches \X T) /\ Cardinality(Searches \X T) = Cardinality(Searches) * Cardinality(T)
  BY <1>1, <1>4, FS_Product
<1>11. Cardinality(W) <= Cardinality(Searches \X T) BY <1>9, <1>10, FS_Injection
<1> QED BY <1>4, <1>10, <1>11

\* A provider nobody has contacted yet is passed over at most once per search
\* at a time and provider other than the best and itself: with at least one
\* reserved seat, no weights, radius, configuration or availability can lock a
\* newcomer out for ever.
THEOREM NewcomersAreReached == Spec => []NewcomersEnter
<1>1. ASSUME ExposureAssumption, IInv PROVE NewcomersEnter
  <2>1. SUFFICES ASSUME NEW p \in Providers, past[p] = 0
                 PROVE  waited[p] <= Cardinality(Searches) * (Cardinality(Providers) - 2)
    BY DEF NewcomersEnter
  <2>2. PICK W \in SUBSET Spent :
          waited[p] <= Cardinality(W) /\ \A x \in W : \E q \in Providers : <<x[1], q>> \in Spent \ W
    BY <1>1, <2>1 DEF IInv, PassedOver
  <2>3. \A x \in Spent : x[2] # p BY <2>1 DEF Spent, Usable
  <2>4. W \in SUBSET (Searches \X Providers) BY DEF Spent
  <2>5. \A x \in W : x[2] # p /\ \E q \in Providers : q # p /\ <<x[1], q>> \notin W
    <3>1. SUFFICES ASSUME NEW x \in W PROVE x[2] # p /\ \E q \in Providers : q # p /\ <<x[1], q>> \notin W OBVIOUS
    <3>2. PICK q \in Providers : <<x[1], q>> \in Spent \ W BY <2>2
    <3>3. q # p BY <2>3, <3>2
    <3> QED BY <2>3, <3>2, <3>3
  <2>6. Cardinality(W) <= Cardinality(Searches) * (Cardinality(Providers) - 2) BY <1>1, <2>4, <2>5, PairsCounted
  <2>7. waited[p] \in Nat BY <1>1 DEF IInv, StateOK
  <2>8. Cardinality(W) \in Nat /\ Cardinality(Searches) \in Nat /\ Cardinality(Providers) \in Nat
    <3>1. IsFiniteSet(W) BY <1>1, PairsFinite, FS_Subset
    <3> QED BY <1>1, <3>1, FS_CardinalityType DEF ExposureAssumption
  <2>9. Cardinality(Searches) * (Cardinality(Providers) - 2) \in Int BY <2>8, Product
  <2> QED BY <2>2, <2>6, <2>7, <2>8, <2>9
<1> QED BY <1>1, ExposureAssumption, Invariance, PTL

\* Every batch is full and is taken in selectBatch's order: whoever is left out
\* ranks below the seats of merit, was contacted no less often than as many
\* providers as there are reserved seats, and lost no seat to a provider who
\* ranks lower and was contacted as often.
THEOREM BatchesAreDeserved == Spec => []BatchIsDeserved
<1>1. ASSUME ExposureAssumption, IInv PROVE BatchIsDeserved
  <2>1. SUFFICES ASSUME NEW s \in Searches, search[s].step = "insert"
                 PROVE  LET ranked   == RankingOf(s)
                            chosen   == {c \in ranked : c.id \in Selected(s)}
                            size     == search[s].config.batchSize
                            reserved == AtMost(search[s].config.slots, size - 1)
                        IN /\ Cardinality(Selected(s)) = AtMost(size, Cardinality(ranked))
                           /\ \A c \in ranked \ chosen :
                                /\ Cardinality({q \in chosen : Above(q, c)}) >= size - reserved
                                /\ Cardinality({q \in chosen : q.past <= c.past}) >= reserved
                                /\ \A q \in chosen : Above(q, c) \/ q.past < c.past
    BY DEF BatchIsDeserved, RankingOf
  <2> DEFINE R == RankingOf(s)
             size == search[s].config.batchSize
             slots == search[s].config.slots
             batch == SelectBatch(R, size, slots)
             chosen == {c \in R : c.id \in Selected(s)}
  <2>2. IsRanking(R) BY <1>1, <2>1, InsertRanked
  <2>3. size \in Nat \ {0, 1} /\ slots \in Nat \ {0} BY <1>1, SearchFields, ConfigFields DEF IInv
  <2>4. Selected(s) = {c.id : c \in batch} BY DEF Selected, RankingOf
  <2> HIDE DEF R, size, slots
  <2>5. batch \subseteq R /\ Cardinality(batch) = AtMost(size, Cardinality(R)) BY <2>2, <2>3, BatchIsFull
  <2>6. chosen = batch
    <3> HIDE DEF batch
    <3>1. ASSUME NEW c \in R, c.id \in Selected(s) PROVE c \in batch
      <4>1. PICK b \in batch : b.id = c.id BY <2>4, <3>1
      <4> QED BY <2>2, <2>5, <4>1 DEF IsRanking
    <3> QED BY <2>4, <2>5, <3>1
  <2>7. Cardinality(Selected(s)) = Cardinality(batch)
    <3> DEFINE f == [c \in batch |-> c.id]
    <3>1. f \in Surjection(batch, Selected(s)) BY <2>4 DEF Surjection
    <3>2. f \in Injection(batch, Selected(s))
      <4>1. \A a, b \in batch : a.id = b.id => a = b BY <2>2, <2>5 DEF IsRanking
      <4> HIDE DEF batch
      <4> QED BY <2>4, <4>1 DEF Injection, IsInjective
    <3>3. IsFiniteSet(batch) BY <2>2, <2>5, FS_Subset DEF IsRanking
    <3> HIDE DEF f, batch
    <3> QED BY <3>1, <3>2, <3>3, FS_Surjection
  <2>8. ASSUME NEW c \in R \ batch
        PROVE  /\ Cardinality({q \in batch : Above(q, c)}) >= size - AtMost(slots, size - 1)
               /\ Cardinality({q \in batch : q.past <= c.past}) >= AtMost(slots, size - 1)
               /\ \A q \in batch : Above(q, c) \/ q.past < c.past
    BY <2>2, <2>3, <2>8, LeftOut
  <2> HIDE DEF chosen, batch
  <2>9. /\ Cardinality(Selected(s)) = AtMost(size, Cardinality(R))
        /\ \A c \in R \ chosen :
             /\ Cardinality({q \in chosen : Above(q, c)}) >= size - AtMost(slots, size - 1)
             /\ Cardinality({q \in chosen : q.past <= c.past}) >= AtMost(slots, size - 1)
             /\ \A q \in chosen : Above(q, c) \/ q.past < c.past
    BY <2>5, <2>6, <2>7, <2>8
  <2> QED BY <2>9 DEF R, size, slots, chosen
<1> QED BY <1>1, ExposureAssumption, Invariance, PTL

-----------------------------------------------------------------------------
(***************************************************************************)
(* The fee of a trip and the blur of a point, for every configuration,     *)
(* distance and coordinate.                                                *)
(***************************************************************************)
LEMMA RoundOfNat ==
    ASSUME NEW n \in Nat
    PROVE  Round(n, Tenths) \in Nat
BY DEF Round, Tenths

LEMMA RoundGrows ==
    ASSUME NEW m \in Nat, NEW n \in Nat, m <= n
    PROVE  Round(m, Tenths) <= Round(n, Tenths)
BY DEF Round, Tenths

LEMMA BillableGrows ==
    ASSUME NEW rates \in TransportConfig, NEW near \in Nat, NEW far \in Nat, near <= far
    PROVE  /\ Billable(near, rates) \in Nat /\ Billable(far, rates) \in Nat
           /\ Billable(near, rates) <= Billable(far, rates)
<1>1. PICK r \in Nat : r = rates.freeRadius  BY DEF TransportConfig
<1>q. QED  BY <1>1 DEF Billable

LEMMA ProductGrows ==
    ASSUME NEW a \in Nat, NEW b \in Nat, NEW p \in Nat, a <= b
    PROVE  a * p \in Nat /\ b * p \in Nat /\ a * p <= b * p
<1>1. PICK d \in Nat : b = a + d
  <2>1. b = a + (b - a) /\ b - a \in Nat  OBVIOUS
  <2>q. QED  BY <2>1
<1>2. (a + d) * p = a * p + d * p  OBVIOUS
<1>3. a * p \in Nat /\ d * p \in Nat  OBVIOUS
<1>q. QED  BY <1>1, <1>2, <1>3

\* What BuildQuote charges lies between nothing and the administered maximum,
\* whatever the distance and the price (transport-pricing.service.ts:48).
THEOREM FeeIsCapped ==
    ASSUME NEW rates \in TransportConfig, NEW distance \in Nat
    PROVE  Fee(distance, rates) \in 0 .. rates.maxFee
<1>1. PICK m \in Nat : m = rates.maxFee  BY DEF TransportConfig
<1>2. PICK p \in Nat : p = rates.perKm  BY DEF TransportConfig
<1>3. PICK b \in Nat : b = Billable(distance, rates)  BY BillableGrows
<1>4. b * p \in Nat  OBVIOUS
<1>5. PICK u \in Nat : u = Round(b * p, Tenths)  BY <1>4, RoundOfNat
<1>6. Fee(distance, rates) = IF u < m THEN u ELSE m  BY <1>1, <1>2, <1>3, <1>5 DEF Fee
<1>q. QED  BY <1>1, <1>6

\* A trip inside the free radius costs nothing (transport-pricing.service.ts:9):
\* neither rounding nor the price can make it cost anything.
THEOREM FreeInsideTheRadius ==
    ASSUME NEW rates \in TransportConfig, NEW distance \in Nat, distance <= rates.freeRadius
    PROVE  QuoteForDistance(distance, rates).amount = 0 /\ QuoteForDistance(distance, rates).isFree
<1>1. PICK r \in Nat : r = rates.freeRadius  BY DEF TransportConfig
<1>2. PICK p \in Nat : p = rates.perKm  BY DEF TransportConfig
<1>3. PICK m \in Nat : m = rates.maxFee  BY DEF TransportConfig
<1>4. Billable(distance, rates) = 0  BY <1>1 DEF Billable
<1>5. Round(0 * p, Tenths) = 0  BY DEF Round, Tenths
<1>6. Fee(distance, rates) = IF 0 < m THEN 0 ELSE m  BY <1>2, <1>3, <1>4, <1>5 DEF Fee
<1>7. Fee(distance, rates) = 0  BY <1>6
<1>q. QED  BY <1>7 DEF QuoteForDistance, BuildQuote

\* A longer trip is never cheaper, across the free radius, the rounding and
\* the cap.
THEOREM FeeGrows ==
    ASSUME NEW rates \in TransportConfig, NEW near \in Nat, NEW far \in Nat, near <= far
    PROVE  Fee(near, rates) <= Fee(far, rates)
<1>1. PICK p \in Nat : p = rates.perKm  BY DEF TransportConfig
<1>2. PICK m \in Nat : m = rates.maxFee  BY DEF TransportConfig
<1>3. PICK a \in Nat : a = Billable(near, rates)  BY BillableGrows
<1>4. PICK b \in Nat : b = Billable(far, rates)  BY BillableGrows
<1>5. a <= b  BY <1>3, <1>4, BillableGrows
<1>6. a * p \in Nat /\ b * p \in Nat /\ a * p <= b * p  BY <1>5, ProductGrows
<1>7. PICK u \in Nat : u = Round(a * p, Tenths)  BY <1>6, RoundOfNat
<1>8. PICK v \in Nat : v = Round(b * p, Tenths)  BY <1>6, RoundOfNat
<1>9. u <= v  BY <1>6, <1>7, <1>8, RoundGrows
<1>10. Fee(near, rates) = IF u < m THEN u ELSE m  BY <1>1, <1>2, <1>3, <1>7 DEF Fee
<1>11. Fee(far, rates) = IF v < m THEN v ELSE m  BY <1>1, <1>2, <1>4, <1>8 DEF Fee
<1>q. QED  BY <1>9, <1>10, <1>11

\* approximateCoordinates moves a coordinate by at most half a cell, onto the
\* grid, on both sides of the equator and of the meridian; blurring what is
\* blurred already changes nothing (geo.ts:34), so a client's address keeps one
\* cell however often it is shown.
THEOREM ApproximationIsClose ==
    ASSUME NEW x \in Int
    PROVE  /\ Approximate(x) - x \in -50 .. 50
           /\ Approximate(x) % Cell = 0
           /\ Approximate(Approximate(x)) = Approximate(x)
<1>1. PICK k \in Int : k = Round(x, Cell)  BY DEF Round, Cell
<1>2. 200 * k <= 2 * x + 100 /\ 2 * x + 100 < 200 * k + 200  BY <1>1 DEF Round, Cell
<1>3. Approximate(x) = 100 * k  BY <1>1 DEF Approximate, Cell
<1>4. Round(100 * k, Cell) = k  BY DEF Round, Cell
<1>5. Approximate(100 * k) = 100 * k  BY <1>4 DEF Approximate, Cell
<1>6. Approximate(x) - x \in -50 .. 50  BY <1>2, <1>3
<1>7. (100 * k) % Cell = 0  BY DEF Cell
<1>q. QED  BY <1>3, <1>5, <1>6, <1>7

\* The time a row of the provider's list shows is the one a quote between the
\* two points would show: the estimate and the map provider are written twice
\* (transport-pricing.service.ts:44, dev-map.provider.ts:29).
THEOREM OneEstimate ==
    ASSUME NEW rates \in TransportConfig, NEW distance \in Nat
    PROVE  Quote(distance, rates) = QuoteForDistance(distance, rates)
BY DEF Quote, QuoteForDistance, EstimateRoute, EstimateTravelMinutes
=============================================================================
