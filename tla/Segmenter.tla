----------------------------- MODULE Segmenter -----------------------------
(***************************************************************************)
(* speaktap/segmentation/adaptive.py: AdaptiveChunkPolicy.  Frames come    *)
(* with a speech/silence verdict; push and finish cut them into chunks.    *)
(*                                                                         *)
(* A frame is its number; the buffer and the pre-roll are sets of frame    *)
(* numbers (intervals, as the code's lists are).  All frames last frameMs. *)
(* The configuration is a variable that never changes, so that one run     *)
(* covers many; thresholds are milliseconds as in the code.                *)
(***************************************************************************)
EXTENDS Integers, Sequences, FiniteSets, FiniteSetsExt

CONSTANTS Configs,     \* configurations considered
          FrameBound   \* bound: frames per session

\* What config.py accepts, and nothing more.  The chunk durations are seconds there
\* and rounded here, so that the minimum may be 0 and the overlap the maximum.
ASSUME ConfigAssumption ==
    \A c \in Configs :
        /\ c.frameMs \in Nat \ {0}
        /\ c.minMs \in Nat /\ c.targetMs \in Nat /\ c.maxMs \in Nat
        /\ c.minMs <= c.targetMs /\ c.targetMs <= c.maxMs
        /\ c.silenceMs \in Nat \ {0}
        /\ c.paddingMs \in Nat
        /\ c.overlapMs \in Nat /\ c.overlapMs <= c.maxMs

VARIABLES
    config,              \* the constructor's arguments
    pushed,              \* the verdict on every frame of the session so far
    buffer,              \* _buffer
    preRoll,             \* _pre_roll
    hasSpeech,           \* _has_speech
    speechAfterOverlap,  \* _speech_after_overlap
    trailingSilence,     \* _trailing_silence_ms
    prefixOverlap,       \* _prefix_overlap_ms
    chunks,              \* what push and finish returned, in order
    finished             \* finish() was called

vars == <<config, pushed, buffer, preRoll, hasSpeech, speechAfterOverlap, trailingSilence,
          prefixOverlap, chunks, finished>>

-----------------------------------------------------------------------------
Duration(frames) ==
    IF frames = {} THEN 0 ELSE (Max(frames) - Min(frames) + 1) * config.frameMs

SpeechIn(frames, verdicts) == {i \in frames : verdicts[i]}

\* Time from the end of the last speech frame to the end of the frames.
SilenceAtEnd(frames, verdicts) ==
    IF SpeechIn(frames, verdicts) = {}
    THEN Duration(frames)
    ELSE (Max(frames) - Max(SpeechIn(frames, verdicts))) * config.frameMs

\* Bug: the pre-roll keeps growing while nobody speaks.
BugPreRollUnbounded(frame) == preRoll \cup {frame}

\* _append_pre_roll drops the oldest frames until the padding is respected.
PreRollWith(frame) ==
    {i \in preRoll \cup {frame} :
        i = frame \/ (frame - i + 1) * config.frameMs <= config.paddingMs}

\* _trim_trailing keeps the last speech frame and the padding behind it.
Trimmed(frames, verdicts) ==
    LET lastSpeech == Max(SpeechIn(frames, verdicts))
    IN  {i \in frames : \/ i <= lastSpeech
                        \/ (i - lastSpeech - 1) * config.frameMs < config.paddingMs}

\* Bug: the whole chunk is retained.
BugRetainAll(frames) == frames

\* _retain_forced_overlap takes frames from the end until they last overlapMs.
Retained(frames) ==
    {i \in frames : i = Max(frames) \/ (Max(frames) - i) * config.frameMs < config.overlapMs}

\* Bug: overlap_ms is what was retained, however short the chunk.
BugClamp(overlap, duration) == overlap

\* AudioChunk wants overlap_ms strictly below the chunk's duration.
Clamp(overlap, duration) == Max({0, Min({overlap, duration - 1})})

\* _finalize
ChunkOf(frames, reason, verdicts) ==
    [first |-> Min(frames), last |-> Max(frames), reason |-> reason,
     sequence |-> Len(chunks),
     speechMs |-> Cardinality(SpeechIn(frames, verdicts)) * config.frameMs,
     overlapMs |-> Clamp(prefixOverlap, Duration(frames))]

Emit(chunk) == chunks' = Append(chunks, chunk)

-----------------------------------------------------------------------------
\* Bug: the overlap of the last forced cut is not forgotten.
BugClearKeepsOverlap ==
    /\ buffer' = {}
    /\ preRoll' = {}
    /\ hasSpeech' = FALSE
    /\ speechAfterOverlap' = FALSE
    /\ trailingSilence' = 0
    /\ UNCHANGED prefixOverlap

\* _clear_active
ClearActive ==
    /\ buffer' = {}
    /\ preRoll' = {}
    /\ hasSpeech' = FALSE
    /\ speechAfterOverlap' = FALSE
    /\ trailingSilence' = 0
    /\ prefixOverlap' = 0

\* Bug: what the buffer now holds is not looked at again.
BugRetainKeepsFlags(frames, verdicts) ==
    /\ buffer' = Retained(frames)
    /\ prefixOverlap' = Duration(Retained(frames))
    /\ hasSpeech' = TRUE
    /\ speechAfterOverlap' = FALSE
    /\ trailingSilence' = 0

\* _retain_forced_overlap
RetainForcedOverlap(frames, verdicts) ==
    /\ buffer' = Retained(frames)
    /\ prefixOverlap' = Duration(Retained(frames))
    /\ hasSpeech' = (SpeechIn(Retained(frames), verdicts) # {})
    /\ speechAfterOverlap' = FALSE
    /\ trailingSilence' = SilenceAtEnd(Retained(frames), verdicts)

\* Silence that ends a chunk: half as much once the target length is reached.
\* Twice the code's value, to stay in the integers.
TwiceRequiredSilence(frames) ==
    IF Duration(frames) >= config.targetMs
    THEN Max({2 * config.frameMs, config.silenceMs})
    ELSE 2 * config.silenceMs

\* The part of push() that decides, with the updated buffer and flags.
Decide(frames, verdicts, speech, afterOverlap, silence) ==
    \/ /\ Duration(frames) >= config.maxMs
       /\ Emit(ChunkOf(frames, "forced_max", verdicts))
       /\ RetainForcedOverlap(frames, verdicts)
       /\ preRoll' = {}
    \/ /\ Duration(frames) < config.maxMs
       /\ Duration(frames) >= config.minMs
       /\ speech
       /\ 2 * silence >= TwiceRequiredSilence(frames)
       /\ Emit(ChunkOf(Trimmed(frames, verdicts), "silence", verdicts))
       /\ ClearActive
    \/ /\ Duration(frames) < config.maxMs
       /\ \/ Duration(frames) < config.minMs
          \/ ~speech
          \/ 2 * silence < TwiceRequiredSilence(frames)
       /\ buffer' = frames
       /\ preRoll' = {}
       /\ hasSpeech' = speech
       /\ speechAfterOverlap' = afterOverlap
       /\ trailingSilence' = silence
       /\ UNCHANGED <<prefixOverlap, chunks>>

\* push(frame, activity); the pipeline calls it until the session ends.
Push(isSpeech) ==
    LET frame    == Len(pushed) + 1
        verdicts == Append(pushed, isSpeech)
    IN  /\ ~finished
        /\ Len(pushed) < FrameBound
        /\ pushed' = verdicts
        /\ \/ /\ buffer = {}
              /\ ~isSpeech
              /\ preRoll' = PreRollWith(frame)
              /\ UNCHANGED <<buffer, hasSpeech, speechAfterOverlap, trailingSilence,
                             prefixOverlap, chunks>>
           \/ /\ buffer = {}
              /\ isSpeech
              /\ Decide(preRoll \cup {frame}, verdicts, TRUE, TRUE,
                        SilenceAtEnd(preRoll \cup {frame}, verdicts))
           \/ /\ buffer # {}
              /\ Decide(buffer \cup {frame}, verdicts, hasSpeech \/ isSpeech,
                        speechAfterOverlap \/ isSpeech,
                        IF isSpeech THEN 0 ELSE trailingSilence + config.frameMs)
        /\ UNCHANGED <<config, finished>>

\* Bug: audio that follows a forced cut is taken for overlap only.
BugNothingNew ==
    \/ buffer = {}
    \/ ~hasSpeech
    \/ prefixOverlap > 0

\* finish() has no chunk to give: all it holds was emitted, or is silence.
NothingNew ==
    \/ buffer = {}
    \/ ~hasSpeech
    \/ prefixOverlap > 0 /\ ~speechAfterOverlap

Finish ==
    /\ ~finished
    /\ finished' = TRUE
    /\ IF NothingNew
       THEN UNCHANGED chunks
       ELSE Emit(ChunkOf(Trimmed(buffer, pushed), "stop", pushed))
    /\ ClearActive
    /\ UNCHANGED <<config, pushed>>

\* Bug: reset() leaves the pre-roll of the last session.
BugResetKeepsPreRoll ==
    /\ pushed' = << >> /\ buffer' = {} /\ hasSpeech' = FALSE /\ speechAfterOverlap' = FALSE
    /\ trailingSilence' = 0 /\ prefixOverlap' = 0 /\ chunks' = << >> /\ finished' = FALSE
    /\ UNCHANGED <<config, preRoll>>

\* reset(session_id), after a stop or, for a cancelled session, at any time.
Reset ==
    /\ pushed' = << >>
    /\ chunks' = << >>
    /\ finished' = FALSE
    /\ ClearActive
    /\ UNCHANGED config

Init ==
    /\ config \in Configs
    /\ pushed = << >>
    /\ buffer = {}
    /\ preRoll = {}
    /\ hasSpeech = FALSE
    /\ speechAfterOverlap = FALSE
    /\ trailingSilence = 0
    /\ prefixOverlap = 0
    /\ chunks = << >>
    /\ finished = FALSE

Next ==
    \/ \E isSpeech \in BOOLEAN : Push(isSpeech)
    \/ Finish
    \/ Reset

Spec == Init /\ [][Next]_vars

-----------------------------------------------------------------------------
(* Properties.                                                              *)

Frames(chunk) == chunk.first .. chunk.last
Ms(chunk) == (chunk.last - chunk.first + 1) * config.frameMs
Heard == UNION {Frames(chunks[k]) : k \in 1 .. Len(chunks)}
AllSpeech == {i \in 1 .. Len(pushed) : pushed[i]}

TypeOK ==
    /\ config \in Configs
    /\ pushed \in Seq(BOOLEAN)
    /\ buffer \subseteq 1 .. Len(pushed)
    /\ preRoll \subseteq 1 .. Len(pushed)
    /\ hasSpeech \in BOOLEAN
    /\ speechAfterOverlap \in BOOLEAN
    /\ trailingSilence \in Nat
    /\ prefixOverlap \in Nat
    /\ finished \in BOOLEAN
    /\ chunks \in Seq([first : Nat, last : Nat, reason : {"silence", "forced_max", "stop"},
                       sequence : Nat, speechMs : Nat, overlapMs : Nat])

\* Every frame judged to be speech is in a chunk already returned or still
\* buffered, and finish() leaves none behind: silence cuts, trims, discarded
\* overlaps and the pre-roll never drop a spoken word.
NoSpeechLost == AllSpeech \subseteq Heard \cup buffer

\* Two chunks share audio only across a forced cut, and overlap_ms tells the
\* assembler how much: what it shares with the chunk before, cut down by one
\* millisecond when that is all there is.  Audio is otherwise in one chunk.
OverlapDeclared ==
    \A k \in 1 .. Len(chunks) :
        LET shared == {i \in Frames(chunks[k]) : \E j \in 1 .. k - 1 : i \in Frames(chunks[j])}
        IN  /\ chunks[k].overlapMs =
                 Max({0, Min({Cardinality(shared) * config.frameMs, Ms(chunks[k]) - 1})})
            /\ shared # {} => chunks[k - 1].reason = "forced_max"

\* The AudioChunk constructor raises on none of the chunks.
ChunksValid ==
    \A k \in 1 .. Len(chunks) :
        /\ Ms(chunks[k]) > 0
        /\ chunks[k].speechMs <= Ms(chunks[k])
        /\ chunks[k].overlapMs < Ms(chunks[k])

\* The comment in _trim_trailing: whoever calls it has proved that the buffer
\* holds a speech frame.  The flags and the running silence, kept up frame by
\* frame, agree with the buffer, also after a forced cut replaced it.
FlagsMatchBuffer ==
    /\ hasSpeech <=> SpeechIn(buffer, pushed) # {}
    /\ buffer # {} => trailingSilence = SilenceAtEnd(buffer, pushed)

\* A chunk is never longer than the hard maximum by a whole frame, unless the
\* pre-roll or the retained overlap alone fill it.
ChunkBounded ==
    LET wholeFrames(ms) == Max({1, (ms + config.frameMs - 1) \div config.frameMs}) * config.frameMs
        longest == Max({config.maxMs + config.frameMs - 1,
                        config.frameMs + wholeFrames(config.paddingMs),
                        config.frameMs + wholeFrames(config.overlapMs)})
    IN  \A k \in 1 .. Len(chunks) : Ms(chunks[k]) <= longest

\* A chunk that does not continue a forced cut starts at its first word, but
\* for the padding: leading silence is trimmed.
LeadingSilenceTrimmed ==
    \A k \in 1 .. Len(chunks) :
        (k = 1 \/ chunks[k - 1].reason # "forced_max") =>
            \E i \in Frames(chunks[k]) :
                /\ pushed[i]
                /\ (i - chunks[k].first) * config.frameMs <= Max({config.paddingMs, config.frameMs})

\* The class promises "speech chunks": one without a speech frame is none.
ChunksHoldSpeech ==
    \A k \in 1 .. Len(chunks) : chunks[k].speechMs > 0
=============================================================================
