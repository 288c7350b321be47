----------------------------- MODULE MCExposure -----------------------------
(***************************************************************************)
(* An established provider next door, one further off and two newcomers    *)
(* that every other signal puts last; the default weights.                 *)
(***************************************************************************)
EXTENDS Exposure, ReadChecks, TLC

CONSTANTS s1, s2

MCDay(start, end) == {[day |-> 1, start |-> start, end |-> end]}
MCProfile ==
    1 :> [distance |-> 0, travels |-> 9, years |-> 12, slots |-> {}, verified |-> TRUE] @@
    2 :> [distance |-> 4, travels |-> 9, years |-> 3, slots |-> MCDay(540, 660), verified |-> TRUE] @@
    3 :> [distance |-> 5, travels |-> 5, years |-> 0, slots |-> MCDay(540, 600), verified |-> FALSE] @@
    4 :> [distance |-> 9, travels |-> 9, years |-> 0, slots |-> MCDay(0, 60), verified |-> FALSE]
MCWeights == [distance |-> 4, availability |-> 2, verification |-> 2, experience |-> 1, exploration |-> 1]
MCSymmetry == Permutations(Searches)
=============================================================================
