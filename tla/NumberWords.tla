---------------------------- MODULE NumberWords -----------------------------
(***************************************************************************)
(* number-words.ts: the numbers a run of words spells, as a phone number   *)
(* is dictated, in pairs.  Accents and case are folded away before; the    *)
(* spellings of other languages behave as the English ones do here.        *)
(***************************************************************************)
EXTENDS Integers, Sequences

Units == [zero |-> 0, un |-> 1, une |-> 1, deux |-> 2, trois |-> 3, quatre |-> 4, cinq |-> 5,
          six |-> 6, sept |-> 7, huit |-> 8, neuf |-> 9, one |-> 1, seven |-> 7]
Teens == [dix |-> 10, onze |-> 11, douze |-> 12, treize |-> 13, quatorze |-> 14, quinze |-> 15,
          seize |-> 16, ten |-> 10, seventeen |-> 17]
Tens  == [vingt |-> 20, vingts |-> 20, trente |-> 30, quarante |-> 40, cinquante |-> 50,
          soixante |-> 60, twenty |-> 20, sixty |-> 60, seventy |-> 70, eighty |-> 80, ninety |-> 90]

Kind(w) == CASE w \in DOMAIN Units -> "unit"
             [] w \in DOMAIN Teens -> "teen"
             [] w \in DOMAIN Tens  -> "tens"
             [] OTHER              -> "none"
Value(w) == CASE w \in DOMAIN Units -> Units[w]
              [] w \in DOMAIN Teens -> Teens[w]
              [] w \in DOMAIN Tens  -> Tens[w]
              [] OTHER              -> 0

WordAt(words, i)  == IF i \in DOMAIN words THEN words[i] ELSE "undefined"
IsUnitAt(words, i, least) == Kind(WordAt(words, i)) = "unit" /\ Value(WordAt(words, i)) >= least

\* What was read, and the first word left.
Read(value, next) == [value |-> value, next |-> next]

\* "dix" before sept, huit or neuf.
DixCompound(words, i) == WordAt(words, i) = "dix" /\ IsUnitAt(words, i + 1, 7)

\* After soixante and quatre-vingt: dix-sept, a teen or a unit, nothing else.
SixtyOrEightyTail(words, i) ==
    IF DixCompound(words, i) THEN Read(10 + Value(words[i + 1]), i + 2)
    ELSE IF Kind(WordAt(words, i)) = "teen" \/ IsUnitAt(words, i, 1) THEN Read(Value(words[i]), i + 1)
    ELSE Read(0, i)

\* After the other tens: "et un", or a unit.
TensTail(words, i) ==
    IF WordAt(words, i) = "et"
    THEN IF Value(WordAt(words, i + 1)) \in 1..11 THEN Read(Value(words[i + 1]), i + 2) ELSE Read(0, i)
    ELSE IF IsUnitAt(words, i, 1) THEN Read(Value(words[i]), i + 1)
    ELSE Read(0, i)

Plus(value, tail) == Read(value + tail.value, tail.next)

\* The number that starts at word i.
ParseOne(words, i) ==
    LET w == words[i] IN
    CASE w = "quatre" /\ WordAt(words, i + 1) \in {"vingt", "vingts"}
                              -> Plus(80, SixtyOrEightyTail(words, i + 2))
      [] DixCompound(words, i) -> Read(10 + Value(words[i + 1]), i + 2)
      [] Kind(w) = "tens" /\ Value(w) = 60 -> Plus(60, SixtyOrEightyTail(words, i + 1))
      [] Kind(w) = "tens" /\ Value(w) # 60 -> Plus(Value(w), TensTail(words, i + 1))
      [] OTHER                -> Read(Value(w), i + 1)

\* parseNumberWords: the numbers and the words each stands for, "et" skipped.
ParseNumberWords(words) ==
    LET from[i \in 1..Len(words) + 1] ==
          IF i > Len(words) THEN <<>>
          ELSE IF words[i] = "et" THEN from[i + 1]
          ELSE LET one == ParseOne(words, i)
               IN  <<[value |-> one.value, first |-> i, last |-> one.next - 1]>> \o from[one.next]
    IN  from[1]
=============================================================================
