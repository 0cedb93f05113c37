---------------------------- MODULE MCTranscript ----------------------------
(***************************************************************************)
(* Transcript with a word that grammar repeats and that is written in two  *)
(* ways, another word, a number and a hesitation that may also be a unit.  *)
(***************************************************************************)
EXTENDS Transcript

Word(form, norm, key) ==
    [form |-> form, norm |-> norm, key |-> key, digit |-> FALSE, upper |-> FALSE]
Number(norm, key) == [Word(norm, norm, key) EXCEPT !.digit = TRUE]

MCFragment == Word("ti-", "ti", "ti")
MCTokens == {Word("very", "very", "very"), Word("Very,", "very", "very"), Word("time", "time", "time"),
             Number("20", "20"), Word("ah", "ah", "ah")}
MCSpoken == {w \in MCTokens : w.form # "Very,"}
MCNumbers == {Number("3.5", "3"), Number("3.7", "3"), Word("time", "time", "time"), Word("ah", "ah", "ah")}
MCFillers == {"ah"}
MCDoubles == {"very"}
=============================================================================
