-------------------------- MODULE ContactDetection --------------------------
(***************************************************************************)
(* The detector of contact details: normalize.ts and contact-detection.ts. *)
(*                                                                         *)
(* A text is a sequence of tokens, a token a sequence of characters.  The  *)
(* letters of a word do not matter: a word is one character named by it,   *)
(* except where digits and letters mix.  The regular expressions for       *)
(* addresses, links and handles are not modelled, what they match is given.*)
(***************************************************************************)
EXTENDS NumberWords, SequencesExt, FiniteSetsExt

CONSTANTS
    IsPhoneNumber(_),  \* libphonenumber: a valid number, on digits after an optional "+"
    PhoneMinDigits, PhoneMaxDigits, LookalikeMinDigits

ASSUME DetectionAssumption == {PhoneMinDigits, PhoneMaxDigits, LookalikeMinDigits} \subseteq Nat \ {0}

Digit  == <<"0", "1", "2", "3", "4", "5", "6", "7", "8", "9">>
Digits == {Digit[d] : d \in 1..10}

\* normalizeChars, one character for one; ar6 stands for the Arabic-Indic,
\* the Persian and the full-width 6.
SameChar == [ar0 |-> "0", ar1 |-> "1", ar2 |-> "2", ar3 |-> "3", ar4 |-> "4", ar5 |-> "5", ar6 |-> "6",
             ar7 |-> "7", ar8 |-> "8", ar9 |-> "9", fwAt |-> "@", fwDot |-> "."]
NormalizeChars(token) ==
    [k \in DOMAIN token |-> IF token[k] \in DOMAIN SameChar THEN SameChar[token[k]] ELSE token[k]]

\* A token of digits and look-alike letters is a number in disguise.
Lookalikes == [o |-> "0", O |-> "0", l |-> "1", I |-> "1", i |-> "1"]
UnmaskLookalikes(token) ==
    IF /\ Cardinality({k \in DOMAIN token : token[k] \in Digits}) >= LookalikeMinDigits
       /\ \A k \in DOMAIN token : token[k] \in Digits \cup DOMAIN Lookalikes
    THEN [k \in DOMAIN token |-> IF token[k] \in Digits THEN token[k] ELSE Lookalikes[token[k]]]
    ELSE token

-----------------------------------------------------------------------------
(***************************************************************************)
(* expandNumbers: a mapped text, every character of which carries the      *)
(* range [start, end) of the original characters it stands for.            *)
(***************************************************************************)
StartOf(tokens, i) == FoldLeft(LAMBDA n, token : n + Len(token), 0, SubSeq(tokens, 1, i - 1))
EndOf(tokens, i)   == StartOf(tokens, i) + Len(tokens[i])

Spanning(chars, start, end) == [k \in DOMAIN chars |-> [char |-> chars[k], start |-> start, end |-> end]]
Aligned(chars, start)       == [k \in DOMAIN chars |-> [char |-> chars[k], start |-> start + k - 1, end |-> start + k]]

IsJoiner(token)     == token \in {<<" ">>, <<"-">>}
IsNumberWord(token) == Len(token) = 1 /\ (Kind(token[1]) # "none" \/ token[1] = "et")

\* The places of a maximal run of number words from i; a lone "et" is none.
NumberRun(tokens, i) ==
    LET belongs(j) == IsNumberWord(tokens[j]) \/
                      (IsJoiner(tokens[j]) /\ j < Len(tokens) /\ IsNumberWord(tokens[j + 1]))
        run == {j \in i..Len(tokens) : IsNumberWord(tokens[i]) /\ IsNumberWord(tokens[j])
                                       /\ \A k \in i..j : belongs(k)}
    IN  IF \A j \in run : tokens[j] = <<"et">> THEN <<>>
        ELSE SelectSeq([j \in DOMAIN tokens |-> j], LAMBDA j : j \in run)

ToDigits(n) == IF n < 10 THEN <<Digit[n + 1]>>
               ELSE IF n < 100 THEN <<Digit[(n \div 10) + 1], Digit[(n % 10) + 1]>>
               ELSE <<"1", Digit[((n \div 10) % 10) + 1], Digit[(n % 10) + 1]>>

\* The numbers of a run, apart from one another, each over all its words.
EmitRun(tokens, run) ==
    LET numbers == ParseNumberWords([k \in DOMAIN run |-> tokens[run[k]][1]])
        first(n) == StartOf(tokens, run[numbers[n].first])
        gap(n)   == IF n = 1 THEN <<>> ELSE Spanning(<<" ">>, first(n), first(n))
    IN  FlattenSeq([n \in DOMAIN numbers |->
            gap(n) \o Spanning(ToDigits(numbers[n].value), first(n), EndOf(tokens, run[numbers[n].last]))])

ExpandNumbers(original) ==
    LET tokens == [i \in DOMAIN original |-> NormalizeChars(original[i])]
        from[i \in 1..Len(tokens) + 1] ==
          IF i > Len(tokens) THEN <<>>
          ELSE LET run == NumberRun(tokens, i) IN
               IF run # <<>> THEN EmitRun(tokens, run) \o from[run[Len(run)] + 1]
               ELSE Aligned(UnmaskLookalikes(tokens[i]), StartOf(tokens, i)) \o from[i + 1]
    IN  from[1]

-----------------------------------------------------------------------------
(***************************************************************************)
(* detectPhones.  A candidate is a chain of groups of digits with at most  *)
(* three separators between two of them, after an optional "+".            *)
(***************************************************************************)
PhoneSeparators == {" ", ".", "-", "/", "(", ")"}

\* The groups of digits of a mapped text, each from its first to its last.
DigitGroups(text) ==
    LET isDigit(k) == k \in DOMAIN text /\ text[k].char \in Digits
        starts     == SelectSeq([k \in DOMAIN text |-> k], LAMBDA k : isDigit(k) /\ ~isDigit(k - 1))
        end(k)     == CHOOSE e \in k..Len(text) : ~isDigit(e + 1) /\ \A i \in k..e : isDigit(i)
    IN  [n \in DOMAIN starts |-> <<starts[n], end(starts[n])>>]

\* Whether group n goes on with group n + 1.
Chained(text, groups, n) ==
    /\ n + 1 \in DOMAIN groups /\ groups[n + 1][1] - groups[n][2] <= 4
    /\ \A k \in groups[n][2] + 1 .. groups[n + 1][1] - 1 : text[k].char \in PhoneSeparators

PlusPrefixed(text, groups, n) == groups[n][1] > 1 /\ text[groups[n][1] - 1].char = "+"

DigitsOf(text, groups, from, to) ==
    FlattenSeq([n \in 1 .. to - from + 1 |->
        [k \in 1 .. groups[from + n - 1][2] - groups[from + n - 1][1] + 1 |-> text[groups[from + n - 1][1] + k - 1].char]])

\* longestPhoneFrom: the last group of the longest number, 0 for none.
LongestPhoneFrom(text, groups, from) ==
    LET isPhone(to) ==
          LET digits == DigitsOf(text, groups, from, to) IN
          /\ \A n \in from .. to - 1 : Chained(text, groups, n)
          /\ Len(digits) \in PhoneMinDigits..PhoneMaxDigits
          /\ IsPhoneNumber((IF PlusPrefixed(text, groups, from) THEN <<"+">> ELSE <<>>) \o digits)
    IN  Max({0} \cup {to \in from..Len(groups) : isPhone(to)})

DetectPhones(text) ==
    LET groups == DigitGroups(text)
        first(n) == IF PlusPrefixed(text, groups, n) THEN groups[n][1] - 1 ELSE groups[n][1]
        from[n \in 1..Len(groups) + 1] ==
          IF n > Len(groups) THEN <<>>
          ELSE LET to == LongestPhoneFrom(text, groups, n) IN
               IF to = 0 THEN from[n + 1]
               ELSE <<[type |-> "PHONE", start |-> text[first(n)].start, end |-> text[groups[to][2]].end]>>
                    \o from[to + 1]
    IN  from[1]

-----------------------------------------------------------------------------
(***************************************************************************)
(* detectContacts and redactContacts.                                      *)
(***************************************************************************)
Overlap(d, e) == d.start < e.end /\ e.start < d.end

\* Where two detections cover the same text, the one with priority is kept.
WithoutOverlaps(detections, taken) ==
    FoldLeft(LAMBDA kept, d : IF \E e \in ToSet(taken \o kept) : Overlap(d, e) THEN kept ELSE Append(kept, d),
             <<>>, detections)

DetectContacts(emails, urls, handles, phones) ==
    LET kept1 == WithoutOverlaps(emails, <<>>)
        kept2 == kept1 \o WithoutOverlaps(urls, kept1)
        kept3 == kept2 \o WithoutOverlaps(handles, kept2)
    IN  kept3 \o WithoutOverlaps(phones, kept3)

\* The ranges masked: overlapping and touching ones become one placeholder.
MergeRange(merged, r) ==
    IF merged # <<>> /\ r.start <= Last(merged).end
    THEN Front(merged) \o <<[start |-> Last(merged).start, end |-> Max({Last(merged).end, r.end})]>>
    ELSE Append(merged, [start |-> r.start, end |-> r.end])
MaskedRanges(detections) ==
    FoldLeft(MergeRange, <<>>, SortSeq(detections, LAMBDA d, e : d.start < e.start))
=============================================================================
