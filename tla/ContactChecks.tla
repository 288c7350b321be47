--------------------------- MODULE ContactChecks ----------------------------
(***************************************************************************)
(* The detector against what a phone number dictated in French means.  The *)
(* statements are assumptions, so that TLC evaluates them.                 *)
(***************************************************************************)
EXTENDS ContactDetection

\* A stand-in for libphonenumber: Moroccan numbers, national or +212.
MoroccanNumber(chars) ==
    \/ Len(chars) = 10 /\ chars[1] = "0" /\ chars[2] \in {"5", "6", "7"}
    \/ Len(chars) = 13 /\ SubSeq(chars, 1, 4) = <<"+", "2", "1", "2">> /\ chars[5] \in {"5", "6", "7"}

FrenchUnit == <<"zero", "un", "deux", "trois", "quatre", "cinq", "six", "sept", "huit", "neuf">>
FrenchTeen == <<"dix", "onze", "douze", "treize", "quatorze", "quinze", "seize">>
FrenchTens == <<"", "vingt", "trente", "quarante", "cinquante">>

Below20(n) == CASE n < 10         -> <<FrenchUnit[n + 1]>>
                [] n \in 10..16   -> <<FrenchTeen[n - 9]>>
                [] n \in 17..19   -> <<"dix", FrenchUnit[n - 9]>>

\* How a pair of digits is said: 06 zero six, 21 vingt et un, 78 soixante-dix-huit.
Spoken(n) ==
    CASE n < 10       -> <<"zero", FrenchUnit[n + 1]>>
      [] n \in 10..19 -> Below20(n)
      [] n \in 20..59 -> <<FrenchTens[n \div 10]>> \o (CASE n % 10 = 0 -> <<>>
                                                         [] n % 10 = 1 -> <<"et", "un">>
                                                         [] OTHER -> Below20(n % 10))
      [] n \in 60..79 -> <<"soixante">> \o (CASE n = 60 -> <<>>
                                              [] n \in {61, 71} -> <<"et">> \o Below20(n - 60)
                                              [] OTHER -> Below20(n - 60))
      [] OTHER        -> <<"quatre", "vingt">> \o (IF n = 80 THEN <<>> ELSE Below20(n - 80))

Pair(n) == <<Digit[(n \div 10) + 1], Digit[(n % 10) + 1]>>

DigitsRead(words) ==
    LET numbers == ParseNumberWords(words) IN FlattenSeq([n \in DOMAIN numbers |-> ToDigits(numbers[n].value)])

\* What the parser misreads: "soixante et un" and "soixante et onze", which
\* takeSixtyOrEightyTail does not know, and a pair whose last word goes on
\* with the first of the next: 60 12 sounds as 72, 04 20 as 0 80, and 20 80
\* is read 24 20.
Misread(a, b) ==
    \/ {a, b} \cap {61, 71} # {}
    \/ a \in {60, 80} /\ b \in 10..19
    \/ a = 4 /\ b \in 20..29
    \/ a \in {20, 30, 40, 50, 60, 80} /\ b \in 80..99

\* number-words.ts:14, "A French phone number is dictated in pairs, so the
\* parser handles the forms pairs take": two pairs are read as the digits they
\* stand for in every case but those of Misread.
ASSUME PairsReadBack ==
    \A a, b \in 0..99 : (DigitsRead(Spoken(a) \o Spoken(b)) = Pair(a) \o Pair(b)) <=> ~Misread(a, b)

\* The text of a number dictated after a word: the words, a space in between.
Dictated(pairs) ==
    LET words == <<"hello">> \o FlattenSeq([n \in DOMAIN pairs |-> Spoken(pairs[n])])
    IN  [k \in 1 .. 2 * Len(words) - 1 |-> IF k % 2 = 1 THEN <<words[(k \div 2) + 1]>> ELSE <<" ">>]

\* A dictated number is masked from its first word to its last, and nothing
\* else is (contact-detection.ts:11, "masking replaces exactly what the user
\* typed"), whatever the pairs, if they are read back.
ASSUME DictatedIsMasked ==
    \A p \in [1..4 -> {5, 21, 78, 97}] :
        LET pairs == <<6>> \o p
            text  == Dictated(pairs) IN
        (\A n \in 1..4 : ~Misread(pairs[n], pairs[n + 1])) =>
            DetectPhones(ExpandNumbers(text)) = <<[type |-> "PHONE", start |-> 2, end |-> EndOf(text, Len(text))]>>

\* The disguises of normalize.ts and the shapes of the tests: every one is
\* masked over exactly the characters typed, the price beside it is not.
Typed == <<"0", "6", "1", "2", "3", "4", "5", "6", "7", "8">>
Spaced(sep) == FlattenSeq([n \in 1..5 |-> (IF n = 1 THEN <<>> ELSE <<<<sep>>>>) \o <<SubSeq(Typed, 2 * n - 1, 2 * n)>>])
ASSUME DisguisesAreMasked ==
    LET phone(text, start, end) ==
          DetectPhones(ExpandNumbers(text)) = <<[type |-> "PHONE", start |-> start, end |-> end]>> IN
    /\ phone(<<Typed>>, 0, 10)
    /\ \A sep \in PhoneSeparators : phone(Spaced(sep), 0, 14)
    /\ phone(<<<<"0", "6", "l", "2", "3", "4", "5", "6", "7", "8">>>>, 0, 10)
    /\ phone(<<[Typed EXCEPT ![1] = "ar0", ![2] = "ar6"]>>, 0, 10)
    /\ phone(<<<<"3", "0", "0">>, <<" ">>, Typed>>, 4, 14)
    /\ phone(<<<<"+">>, <<"2", "1", "2">>, <<" ">>, Tail(Typed)>>, 0, 14)
    /\ DetectPhones(ExpandNumbers(<<<<"1", "5", "0", "0">>, <<" ">>, <<"DH">>>>)) = <<>>

\* What is kept of the detections never overlaps, and whatever is given up
\* overlaps a kept one of a priority at least as high.
Ranges(type, n)  == {[type |-> type, start |-> s, end |-> s + l] : s \in 0..n, l \in 1..2}
UpTo(k, S)       == UNION {[1..n -> S] : n \in 0..k}
ASSUME PriorityDecides ==
    \A emails \in UpTo(1, Ranges("EMAIL", 3)), urls \in UpTo(2, Ranges("URL", 2)),
       phones \in UpTo(1, Ranges("PHONE", 3)) :
        LET kept == DetectContacts(emails, urls, <<>>, phones)
            above(d) == CASE d.type = "EMAIL" -> {"EMAIL"}
                          [] d.type = "URL"   -> {"EMAIL", "URL"}
                          [] OTHER            -> {"EMAIL", "URL", "PHONE"}
        IN  /\ \A i, j \in DOMAIN kept : i # j => ~Overlap(kept[i], kept[j])
            /\ \A d \in ToSet(emails \o urls \o phones) :
                  \E e \in ToSet(kept) : e = d \/ (Overlap(d, e) /\ e.type \in above(d))

\* One placeholder never hides two and no masked character reappears: the
\* merged ranges are in order, apart, and cover what the detections cover.
ASSUME MaskCoversExactly ==
    \A detections \in UpTo(3, Ranges("PHONE", 3)) :
        LET merged == MaskedRanges(detections)
            covered(rs) == UNION {r.start .. r.end - 1 : r \in ToSet(rs)}
        IN  /\ \A n \in 1 .. Len(merged) - 1 : merged[n].end < merged[n + 1].start
            /\ covered(merged) = covered(detections)
=============================================================================
