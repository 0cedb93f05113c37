------------------------------ MODULE Cleanup ------------------------------
(***************************************************************************)
(* speaktap/cleanup/safe.py: one pass from left to right that drops        *)
(* hesitations and the second of two equal words or phrases.               *)
(***************************************************************************)
EXTENDS Integers, Sequences, FiniteSetsExt

CONSTANTS Fillers,          \* keys of hesitations: um, uh, er, ah, ...
          Doubles,          \* keys that grammar repeats: had, that, very, ...
          PhraseWords       \* _MAX_REPEATED_PHRASE_WORDS: 4

ASSUME PhraseWordsAssumption == PhraseWords \in Nat

\* "ER" is an acronym, and "20 Ah" is an amount.
IsFiller(tokens, i) ==
    /\ tokens[i].key \in Fillers
    /\ ~tokens[i].upper
    /\ ~(tokens[i].key = "ah" /\ i > 1 /\ tokens[i - 1].digit)

\* Bug: the last word of the phrase is not compared.
BugRepeats(tokens, i, width) ==
    \A j \in i .. i + width - 2 : tokens[j].key = tokens[j + width].key

\* The width words from i on have the keys of the width words after them.
Repeats(tokens, i, width) ==
    \A j \in i .. i + width - 1 : tokens[j].key = tokens[j + width].key

\* The longest repetition from i on; that of one word may be grammatical.
RepeatedWidth(tokens, i) ==
    LET max == Min({PhraseWords, (Len(tokens) - i + 1) \div 2})
        width == Max({w \in 0 .. max : Repeats(tokens, i, w)})
    IN  IF width = 1 /\ tokens[i].key \in Doubles THEN 0 ELSE width

\* What is kept from position i on, when it is known of every later one.
Keep(tokens, kept, i) ==
    IF i > Len(tokens) THEN << >>
    ELSE IF IsFiller(tokens, i) THEN kept[i + 1]
    ELSE LET width == RepeatedWidth(tokens, i) IN
         IF width > 0
         THEN SubSeq(tokens, i, i + width - 1) \o kept[i + 2 * width]
         ELSE <<tokens[i]>> \o kept[i + 1]

\* safe_cleanup_text
SafeCleanup(tokens) ==
    LET kept[i \in 1 .. Len(tokens) + 1] == Keep(tokens, kept, i)
    IN  kept[1]

\* The keys of a text.
Keys(words) == {words[i].key : i \in 1 .. Len(words)}

\* The words are those of the text at these places, in their order.
Selects(words, places, text) ==
    \E f \in [1 .. Len(words) -> places] :
        /\ \A i, j \in 1 .. Len(words) : i < j => f[i] < f[j]
        /\ \A p \in places : \E i \in 1 .. Len(words) : f[i] = p
        /\ \A i \in 1 .. Len(words) : words[i] = text[f[i]]
=============================================================================
