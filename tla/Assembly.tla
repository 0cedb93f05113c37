------------------------------ MODULE Assembly ------------------------------
(***************************************************************************)
(* speaktap/assembly/overlap.py: chunks are put together in the order of   *)
(* their numbers; words at the start of a chunk that repeat the end of the *)
(* text so far are taken for overlapping audio and dropped.                *)
(*                                                                         *)
(* A token is what str.split yields.  Of its characters the code looks at  *)
(* norm (_normalize: case-folded, punctuation at the edges removed) and,   *)
(* in the clean-up, at key (_token_key: its first run of word characters), *)
(* digit (it has one) and upper (that run is an acronym).                  *)
(***************************************************************************)
EXTENDS Integers, Sequences, FiniteSetsExt

CONSTANT OverlapWords    \* limit of _word_overlap: 16

ASSUME OverlapWordsAssumption == OverlapWords \in Nat

Norms(text) == [i \in 1 .. Len(text) |-> text[i].norm]

\* Bug: the words are compared as they are written.
BugOverlaps(existing, incoming, n) ==
    \A i \in 1 .. n : existing[Len(existing) - n + i] = incoming[i]

\* The last n words of existing are the first n of incoming.
Overlaps(existing, incoming, n) ==
    \A i \in 1 .. n : existing[Len(existing) - n + i].norm = incoming[i].norm

\* The longest overlap, which may be no word at all.
WordOverlap(existing, incoming) ==
    LET upper == Min({Len(existing), Len(incoming), OverlapWords}) IN
    Max({n \in 0 .. upper : Overlaps(existing, incoming, n)})

\* What of a chunk is not overlap is appended.
Joined(text, incoming) == text \o SubSeq(incoming, WordOverlap(text, incoming) + 1, Len(incoming))

Assemble(texts) ==
    LET assembled[i \in 0 .. Len(texts)] ==
            IF i = 0 THEN << >> ELSE Joined(assembled[i - 1], texts[i])
    IN  assembled[Len(texts)]

\* The words that a text holds.
NormSet(words) == {words[i].norm : i \in 1 .. Len(words)}
=============================================================================
