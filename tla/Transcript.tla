----------------------------- MODULE Transcript -----------------------------
(***************************************************************************)
(* From what is said to what the user is told: chunks are cut (at silence, *)
(* or by force with overlapping audio), transcribed or failed, assembled   *)
(* and cleaned up by PipelineSession._build_result, delivered and reported *)
(* by AsrService._stop.                                                    *)
(*                                                                         *)
(* The recognizer hears the words that are said.  It may write a word that *)
(* it hears twice in another case or with other punctuation, and the first *)
(* word of overlapping audio, which may be cut in half, as a fragment.     *)
(***************************************************************************)
EXTENDS Assembly, Cleanup

CONSTANTS Tokens,        \* what the recognizer may write
          Spoken,        \* those that are said
          Fragment,      \* half a word
          Cleaner,       \* cleanup_adapter: "safe" or "noop"
          Outputs,       \* the configured outputs among "typing" and "clipboard"
          MaxWords,      \* bound: words said
          MaxChunks      \* bound: chunks

ASSUME TranscriptAssumption ==
    /\ \A w \in Tokens \cup {Fragment} :
           w \in [form : STRING, norm : STRING, key : STRING, digit : BOOLEAN, upper : BOOLEAN]
    /\ Spoken \subseteq Tokens
    /\ \A w \in Tokens : w.norm # Fragment.norm
    /\ Cleaner \in {"safe", "noop"}
    /\ Outputs \subseteq {"typing", "clipboard"}
    /\ MaxWords \in Nat /\ MaxChunks \in Nat

VARIABLES
    said,       \* the words said
    buffer,     \* the words in the audio of the current chunk
    fresh,      \* the current chunk has speech that is not overlap
    misheard,   \* a fragment was heard
    chunks,     \* TranscriptChunk: its words, none if its transcription failed
    phase,      \* "recording", "transcribed" or "reported"
    raw,        \* TranscriptionResult.raw_text
    text,       \* TranscriptionResult.output_text
    delivered,  \* the outputs that took the text
    warnings,   \* what the reply warns of
    message     \* what the notification says

vars == <<said, buffer, fresh, misheard, chunks, phase, raw, text, delivered, warnings, message>>

Init ==
    /\ said = << >> /\ buffer = << >> /\ fresh = FALSE /\ misheard = FALSE
    /\ chunks = << >> /\ phase = "recording"
    /\ raw = << >> /\ text = << >>
    /\ delivered = {} /\ warnings = {} /\ message = "none"

Later == UNCHANGED <<phase, raw, text, delivered, warnings, message>>

Say(w) ==
    /\ phase = "recording"
    /\ Len(said) < MaxWords
    /\ said' = Append(said, w)
    /\ buffer' = Append(buffer, w)
    /\ fresh' = TRUE
    /\ UNCHANGED <<misheard, chunks>>
    /\ Later

\* The backend transcribes the chunk, or raises and leaves it empty.
Transcribed == {[words |-> buffer, failed |-> FALSE], [words |-> << >>, failed |-> TRUE]}

\* A chunk may hold noise, and no word.
SilenceCut ==
    /\ phase = "recording"
    /\ Len(chunks) < MaxChunks
    /\ \E chunk \in Transcribed : chunks' = Append(chunks, chunk)
    /\ buffer' = << >>
    /\ fresh' = FALSE
    /\ UNCHANGED <<said, misheard>>
    /\ Later

\* How the last n words of the buffer may read in the next chunk.  As in _word_overlap,
\* an overlap of a fraction of a second holds no more than OverlapWords words.
HeardAgain(n) ==
    LET again(i) == {w \in Tokens : w.norm = buffer[Len(buffer) - n + i].norm}
    IN  {ws \in [1 .. n -> Tokens \cup {Fragment}] :
            \A i \in 1 .. n : ws[i] \in again(i) \/ (i = 1 /\ ws[i] = Fragment)}

\* The next chunk begins with the end of this one.
ForcedCut ==
    /\ phase = "recording"
    /\ Len(chunks) < MaxChunks
    /\ buffer # << >>
    /\ \E chunk \in Transcribed : chunks' = Append(chunks, chunk)
    /\ \E n \in 0 .. Min({OverlapWords, Len(buffer)}) :
           \E words \in HeardAgain(n) :
               /\ buffer' = words
               /\ misheard' = (misheard \/ (n > 0 /\ words[1] = Fragment))
    /\ fresh' = FALSE
    /\ UNCHANGED said
    /\ Later

Texts(cs) == [i \in 1 .. Len(cs) |-> cs[i].words]

\* The policy drops a rest without new speech; _build_result assembles and, if
\* the session wants it, cleans up.
Stop ==
    /\ phase = "recording"
    /\ IF fresh THEN \E chunk \in Transcribed : chunks' = Append(chunks, chunk)
                ELSE UNCHANGED chunks
    /\ raw' = Assemble(Texts(chunks'))
    /\ \E cleanup_enabled \in BOOLEAN :
           text' = IF cleanup_enabled /\ Cleaner = "safe" THEN SafeCleanup(raw') ELSE raw'
    /\ buffer' = << >>
    /\ fresh' = FALSE
    /\ phase' = "transcribed"
    /\ UNCHANGED <<said, misheard, delivered, warnings, message>>

ChunkErrors == {<<"chunk", i>> : i \in {j \in 1 .. Len(chunks) : chunks[j].failed}}

\* Bug: a text that is not empty is announced as complete.
BugCompletionMessage(errors) ==
    IF text = << >> THEN IF ChunkErrors # {} THEN "failed segments" ELSE "empty"
    ELSE IF <<"output", "typing">> \notin errors /\ "typing" \in Outputs THEN "typed"
    ELSE IF <<"output", "clipboard">> \notin errors /\ "clipboard" \in Outputs THEN "copied"
    ELSE "complete"

\* _completion_message
CompletionMessage(errors) ==
    IF ChunkErrors # {} THEN "failed segments"
    ELSE IF text = << >> THEN "empty"
    ELSE IF <<"output", "typing">> \notin errors /\ "typing" \in Outputs THEN "typed"
    ELSE IF <<"output", "clipboard">> \notin errors /\ "clipboard" \in Outputs THEN "copied"
    ELSE "complete"

\* Every output is tried, typing only if there is something to type; then the
\* session is logged, the notification sent and the reply made.
Report ==
    /\ phase = "transcribed"
    /\ \E failing \in SUBSET Outputs, unlogged \in SUBSET {<<"diagnostics">>} :
           LET broken == IF text = << >> THEN failing \ {"typing"} ELSE failing
               errors == {<<"output", o>> : o \in broken} \cup unlogged
           IN  /\ delivered' = Outputs \ broken
               /\ message' = CompletionMessage(errors)
               /\ warnings' = ChunkErrors \cup errors
    /\ phase' = "reported"
    /\ UNCHANGED <<said, buffer, fresh, misheard, chunks, raw, text>>

Next == (\E w \in Spoken : Say(w)) \/ SilenceCut \/ ForcedCut \/ Stop \/ Report

Spec == Init /\ [][Next]_vars

-----------------------------------------------------------------------------
(* Properties.                                                              *)

Complete == ChunkErrors = {} /\ ~misheard
Distinct(f) == \A i, j \in DOMAIN f : f[i] = f[j] => i = j

\* Speech that repeats no word is assembled as it was said, whatever the cuts and
\* however much of each chunk is heard twice; and clean-up then drops the
\* hesitations and nothing else.
ExactWithoutRepeats ==
    (phase # "recording" /\ Complete /\ Distinct(Norms(said))) =>
        /\ Norms(raw) = Norms(said)
        /\ Distinct([i \in DOMAIN raw |-> raw[i].key]) =>
              text = raw \/ Selects(text, {i \in DOMAIN raw : ~IsFiller(raw, i)}, raw)

\* No word vanishes: whatever is taken for overlap or for a repetition is still
\* there once, also where the chunk between was lost or cut in the wrong place.
NoWordVanishes ==
    phase # "recording" =>
        /\ NormSet(raw) = UNION {NormSet(chunks[i].words) : i \in DOMAIN chunks}
        /\ \A i \in DOMAIN raw : IsFiller(raw, i) \/ raw[i].key \in Keys(text)

\* The notification promises no more than was done: a transcript with a hole is
\* announced as such, text is said to be typed or copied only where that output
\* took it, and the reply warns of everything that failed.
ReportIsTrue ==
    phase = "reported" =>
        /\ (\E i \in DOMAIN chunks : chunks[i].failed) <=> message = "failed segments"
        /\ message = "typed" => "typing" \in delivered /\ text # << >>
        /\ message = "copied" => "clipboard" \in delivered /\ "typing" \notin delivered
        /\ message = "complete" => delivered = {}
        /\ \A o \in Outputs \ delivered : <<"output", o>> \in warnings

\* Clean-up takes away hesitations and repetitions only: a word that was said and
\* that is no hesitation is still in the text.
OnlyRepetitionsRemoved ==
    phase # "recording" =>
        \A i \in DOMAIN raw : IsFiller(raw, i) \/ raw[i].norm \in NormSet(text)
=============================================================================
