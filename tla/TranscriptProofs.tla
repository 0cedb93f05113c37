-------------------------- MODULE TranscriptProofs --------------------------
(***************************************************************************)
(* Proofs about Transcript.tla for any vocabulary, any number of words and *)
(* chunks, and any limits of assembly and clean-up.                        *)
(***************************************************************************)
EXTENDS Transcript, TextProofs

Heard == Tokens \cup {Fragment}
Chunk == [words : Seq(Heard), failed : BOOLEAN]

Typed ==
    /\ said \in Seq(Tokens)
    /\ buffer \in Seq(Heard)
    /\ fresh \in BOOLEAN /\ misheard \in BOOLEAN
    /\ chunks \in Seq(Chunk)
    /\ phase \in {"recording", "transcribed", "reported"}
    /\ raw \in Seq(Heard) /\ text \in Seq(Heard)

\* What assembly would make of the chunks so far.
SoFar == Assemble(Texts(chunks))

\* If nothing was lost and no word was repeated, the text so far and the buffer fit
\* together to what was said.
Aligned ==
    (phase = "recording" /\ Complete /\ NoRepeats(said)) =>
        /\ Fits(SoFar, buffer, said)
        /\ ~fresh => Len(SoFar) = Len(said)

\* The result is what was assembled, cleaned up or not.
Built ==
    phase # "recording" =>
        /\ raw = SoFar
        /\ text \in {raw, SafeCleanup(raw)}
        /\ Complete /\ NoRepeats(said) => Norms(raw) = Norms(said)

IInv == Typed /\ Aligned /\ Built /\ ReportIsTrue

-----------------------------------------------------------------------------
(* The texts of the chunks. *)

\* A chunk has one text.
LEMMA TextsFacts ==
    /\ Texts(<< >>) = << >>
    /\ \A cs \in Seq(Chunk) :
         /\ Texts(cs) \in Seq(Seq(Heard)) /\ Len(Texts(cs)) = Len(cs)
         /\ \A i \in 1 .. Len(cs) : Texts(cs)[i] = cs[i].words
         /\ \A c \in Chunk : Texts(Append(cs, c)) = Append(Texts(cs), c.words)
  <1>1. Texts(<< >>) = << >>
    BY DEF Texts
  <1>2. ASSUME NEW cs \in Seq(Chunk)
        PROVE  /\ Texts(cs) \in Seq(Seq(Heard)) /\ Len(Texts(cs)) = Len(cs)
               /\ \A i \in 1 .. Len(cs) : Texts(cs)[i] = cs[i].words
    <2>1. Len(cs) \in Nat /\ \A i \in 1 .. Len(cs) : cs[i] \in Chunk
      OBVIOUS
    <2>2. \A i \in 1 .. Len(cs) : cs[i].words \in Seq(Heard)
      BY <2>1 DEF Chunk
    <2> QED
      BY <2>1, <2>2 DEF Texts
  <1>3. ASSUME NEW cs \in Seq(Chunk), NEW c \in Chunk
        PROVE  Texts(Append(cs, c)) = Append(Texts(cs), c.words)
    <2> DEFINE more == Append(cs, c)
               texts == Append(Texts(cs), c.words)
    <2>1. /\ more \in Seq(Chunk) /\ Len(more) = Len(cs) + 1 /\ Len(cs) \in Nat
          /\ \A i \in 1 .. Len(cs) : more[i] = cs[i]
          /\ more[Len(cs) + 1] = c
      OBVIOUS
    <2>2. c.words \in Seq(Heard)
      BY DEF Chunk
    <2>3. /\ texts \in Seq(Seq(Heard)) /\ Len(texts) = Len(cs) + 1
          /\ \A i \in 1 .. Len(cs) : texts[i] = cs[i].words
          /\ texts[Len(cs) + 1] = c.words
      BY <1>2, <2>2
    <2>4. /\ Texts(more) \in Seq(Seq(Heard)) /\ Len(Texts(more)) = Len(cs) + 1
          /\ \A i \in 1 .. Len(cs) + 1 : Texts(more)[i] = more[i].words
      BY <1>2, <2>1
    <2> HIDE DEF more, texts
    <2>5. ASSUME NEW i \in 1 .. Len(cs) + 1 PROVE Texts(more)[i] = texts[i]
      <3>1. i \in 1 .. Len(cs) \/ i = Len(cs) + 1
        BY <2>1
      <3> QED
        BY <2>1, <2>3, <2>4, <3>1
    <2>6. Texts(more) = texts
      BY <2>3, <2>4, <2>5, SeqEqual
    <2> QED
      BY <2>6 DEF more, texts
  <1> QED
    BY <1>1, <1>2, <1>3

\* A chunk is joined to the text so far.
LEMMA SoFarFacts ==
    ASSUME Typed
    PROVE  /\ SoFar \in Seq(Heard)
           /\ NormSet(SoFar) = UNION {NormSet(chunks[i].words) : i \in DOMAIN chunks}
           /\ \A c \in Chunk : Assemble(Texts(Append(chunks, c))) = Joined(SoFar, c.words)
  <1>1. /\ chunks \in Seq(Chunk) /\ Texts(chunks) \in Seq(Seq(Heard))
        /\ Len(Texts(chunks)) = Len(chunks) /\ DOMAIN chunks = 1 .. Len(chunks)
        /\ \A i \in 1 .. Len(chunks) : Texts(chunks)[i] = chunks[i].words
    BY TextsFacts DEF Typed
  <1>2. /\ SoFar \in Seq(Heard)
        /\ NormSet(SoFar) = UNION {NormSet(Texts(chunks)[i]) : i \in 1 .. Len(Texts(chunks))}
    BY <1>1, AssembleKeepsWords DEF SoFar
  <1>3. NormSet(SoFar) = UNION {NormSet(chunks[i].words) : i \in DOMAIN chunks}
    BY <1>1, <1>2
  <1>4. ASSUME NEW c \in Chunk PROVE Assemble(Texts(Append(chunks, c))) = Joined(SoFar, c.words)
    <2>1. Texts(Append(chunks, c)) = Append(Texts(chunks), c.words) /\ c.words \in Seq(Heard)
      BY <1>1, TextsFacts DEF Chunk
    <2> QED
      BY <1>1, <2>1, AssembleSteps DEF SoFar
  <1> QED
    BY <1>2, <1>3, <1>4

\* What it means that no chunk failed and that no word was repeated.
LEMMA PlainSpeech ==
    /\ ChunkErrors = {} <=> \A i \in 1 .. Len(chunks) : ~chunks[i].failed
    /\ \A f : Distinct(Norms(f)) <=> NoRepeats(f)
  BY DEF ChunkErrors, Distinct, Norms, NoRepeats

\* The same, in the next state.
LEMMA PlainSpeechNext ==
    ChunkErrors' = {} <=> \A i \in 1 .. Len(chunks') : ~chunks'[i].failed
  BY DEF ChunkErrors

\* The buffer brings the text up to what was said.
LEMMA BufferJoins ==
    ASSUME Typed, Aligned, phase = "recording", Complete, NoRepeats(said)
    PROVE  /\ Len(Joined(SoFar, buffer)) = Len(said)
           /\ \A i \in 1 .. Len(said) : Joined(SoFar, buffer)[i].norm = said[i].norm
  <1>1. SoFar \in Seq(Heard) /\ buffer \in Seq(Heard) /\ Len(said) \in Nat
    BY SoFarFacts DEF Typed
  <1>2. Fits(SoFar, buffer, said)
    BY DEF Aligned
  <1> QED
    BY <1>1, <1>2, ExactJoin

-----------------------------------------------------------------------------
(* Steps. *)

\* A chunk holds what was heard, or failed and holds nothing.
LEMMA TranscribedFacts ==
    ASSUME Typed, NEW chunk \in Transcribed
    PROVE  chunk \in Chunk /\ (~chunk.failed => chunk.words = buffer)
  <1>1. buffer \in Seq(Heard) /\ << >> \in Seq(Heard) /\ TRUE \in BOOLEAN /\ FALSE \in BOOLEAN
    BY DEF Typed
  <1>2. CASE chunk = [words |-> buffer, failed |-> FALSE]
    BY <1>1, <1>2 DEF Chunk
  <1>3. CASE chunk = [words |-> << >>, failed |-> TRUE]
    BY <1>1, <1>3 DEF Chunk
  <1> QED
    BY <1>2, <1>3 DEF Transcribed

\* A chunk that was transcribed brings the text so far up to what was said.
LEMMA AddedChunk ==
    ASSUME Typed, Aligned, phase = "recording", NEW chunk \in Transcribed,
           chunks' = Append(chunks, chunk)
    PROVE  /\ chunks' \in Seq(Chunk)
           /\ SoFar' \in Seq(Heard)
           /\ (ChunkErrors' = {} /\ ~misheard /\ NoRepeats(said)) =>
                  /\ Len(SoFar') = Len(said)
                  /\ \A i \in 1 .. Len(said) : SoFar'[i].norm = said[i].norm
  <1>1. chunk \in Chunk /\ (~chunk.failed => chunk.words = buffer)
    BY TranscribedFacts
  <1>2. /\ chunks' \in Seq(Chunk) /\ Len(chunks') = Len(chunks) + 1 /\ Len(chunks) \in Nat
        /\ \A i \in 1 .. Len(chunks) : chunks'[i] = chunks[i]
        /\ chunks'[Len(chunks) + 1] = chunk
    BY <1>1 DEF Typed
  <1>3. SoFar' = Joined(SoFar, chunk.words)
    BY <1>1, SoFarFacts DEF SoFar
  <1>4. SoFar' \in Seq(Heard)
    <2>1. SoFar \in Seq(Heard) /\ chunk.words \in Seq(Heard)
      BY <1>1, SoFarFacts DEF Chunk
    <2> QED
      BY <1>3, <2>1, JoinedFacts
  <1>5. ASSUME ChunkErrors' = {}, ~misheard, NoRepeats(said)
        PROVE  /\ Len(SoFar') = Len(said)
               /\ \A i \in 1 .. Len(said) : SoFar'[i].norm = said[i].norm
    <2>1. \A i \in 1 .. Len(chunks') : ~chunks'[i].failed
      BY <1>5, PlainSpeechNext
    <2>2. ~chunk.failed
      <3>1. Len(chunks) + 1 \in 1 .. Len(chunks')
        BY <1>2
      <3> QED
        BY <1>2, <2>1, <3>1
    <2>3. \A i \in 1 .. Len(chunks) : ~chunks[i].failed
      <3>1. \A i \in 1 .. Len(chunks) : i \in 1 .. Len(chunks')
        BY <1>2
      <3> QED
        BY <1>2, <2>1, <3>1
    <2>4. Complete
      BY <1>5, <2>3, PlainSpeech DEF Complete
    <2>5. SoFar' = Joined(SoFar, buffer)
      BY <1>1, <1>3, <2>2
    <2> QED
      BY <1>5, <2>4, <2>5, BufferJoins
  <1> QED
    BY <1>2, <1>4, <1>5

\* One more word is said.
LEMMA SayStep == ASSUME IInv, NEW w \in Spoken, Say(w) PROVE Typed' /\ Aligned'
  <1>1. w \in Tokens /\ w \in Heard
    BY TranscriptAssumption DEF Heard
  <1>2. /\ said \in Seq(Tokens) /\ buffer \in Seq(Heard)
        /\ said' = Append(said, w) /\ buffer' = Append(buffer, w)
        /\ phase = "recording" /\ phase' = phase /\ fresh' = TRUE
        /\ UNCHANGED <<misheard, chunks, raw, text>>
    BY DEF IInv, Typed, Say, Later
  <1>3. /\ said' \in Seq(Tokens) /\ Len(said') = Len(said) + 1 /\ Len(said) \in Nat
        /\ \A i \in 1 .. Len(said) : said'[i] = said[i]
        /\ said'[Len(said) + 1] = w
    BY <1>1, <1>2
  <1>4. /\ buffer' \in Seq(Heard) /\ Len(buffer') = Len(buffer) + 1 /\ Len(buffer) \in Nat
        /\ \A i \in 1 .. Len(buffer) : buffer'[i] = buffer[i]
        /\ buffer'[Len(buffer) + 1] = w
    BY <1>1, <1>2
  <1>5. Typed'
    BY <1>2, <1>3, <1>4 DEF IInv, Typed
  <1>6. ASSUME Complete', NoRepeats(said)' PROVE Fits(SoFar, buffer, said)'
    <2>1. Complete /\ SoFar' = SoFar
      BY <1>2, <1>6 DEF Complete, ChunkErrors, SoFar
    <2>2. NoRepeats(said)
      <3>1. ASSUME NEW i \in 1 .. Len(said), NEW j \in 1 .. Len(said), said[i].norm = said[j].norm
            PROVE  i = j
        <4>1. i \in 1 .. Len(said') /\ j \in 1 .. Len(said')
          BY <1>3
        <4> QED
          BY <1>3, <1>6, <3>1, <4>1 DEF NoRepeats
      <3> QED
        BY <3>1 DEF NoRepeats
    <2>3. Fits(SoFar, buffer, said) /\ SoFar \in Seq(Heard)
      BY <1>2, <2>1, <2>2, SoFarFacts DEF IInv, Aligned
    <2>4. /\ Len(buffer) <= Len(said)
          /\ Len(said) - Len(buffer) <= Len(SoFar) /\ Len(SoFar) <= Len(said)
          /\ Len(SoFar) - (Len(said) - Len(buffer)) <= OverlapWords
          /\ \A i \in 1 .. Len(SoFar) : SoFar[i].norm = said[i].norm
          /\ \A i \in 1 .. Len(buffer) : buffer[i].norm = said[Len(said) - Len(buffer) + i].norm
      BY <2>3 DEF Fits
    <2>5. Len(SoFar) \in Nat /\ Len(said') - Len(buffer') = Len(said) - Len(buffer)
      BY <1>3, <1>4, <2>3
    <2>6. \A i \in 1 .. Len(SoFar) : SoFar[i].norm = said'[i].norm
      <3>1. \A i \in 1 .. Len(SoFar) : i \in 1 .. Len(said)
        BY <1>3, <2>4, <2>5
      <3> QED
        BY <1>3, <2>4, <3>1
    <2>7. ASSUME NEW i \in 1 .. Len(buffer')
          PROVE  buffer'[i].norm = said'[Len(said') - Len(buffer') + i].norm
      <3>1. CASE i \in 1 .. Len(buffer)
        <4>1. Len(said) - Len(buffer) + i \in 1 .. Len(said)
          BY <1>3, <1>4, <2>4, <3>1
        <4> QED
          BY <1>3, <1>4, <2>4, <2>5, <3>1, <4>1
      <3>2. CASE i = Len(buffer) + 1
        <4>1. Len(said) - Len(buffer) + i = Len(said) + 1
          BY <1>3, <1>4, <3>2
        <4> QED
          BY <1>3, <1>4, <2>5, <3>2, <4>1
      <3> QED
        BY <1>4, <3>1, <3>2
    <2>8. /\ Len(buffer') <= Len(said')
          /\ Len(said') - Len(buffer') <= Len(SoFar) /\ Len(SoFar) <= Len(said')
          /\ Len(SoFar) - (Len(said') - Len(buffer')) <= OverlapWords
      BY <1>3, <1>4, <2>4, <2>5
    <2> QED
      BY <2>1, <2>6, <2>7, <2>8 DEF Fits
  <1> QED
    BY <1>2, <1>5, <1>6 DEF Aligned

\* A cut at silence leaves nothing over.
LEMMA SilenceCutStep == ASSUME IInv, SilenceCut PROVE Typed' /\ Aligned'
  <1>1. PICK chunk \in Transcribed : chunks' = Append(chunks, chunk)
    BY DEF SilenceCut
  <1>2. /\ phase = "recording" /\ phase' = phase /\ fresh' = FALSE /\ buffer' = << >>
        /\ UNCHANGED <<said, misheard, raw, text>>
    BY DEF SilenceCut, Later
  <1>3. /\ chunks' \in Seq(Chunk) /\ SoFar' \in Seq(Heard)
        /\ (ChunkErrors' = {} /\ ~misheard /\ NoRepeats(said)) =>
               /\ Len(SoFar') = Len(said)
               /\ \A i \in 1 .. Len(said) : SoFar'[i].norm = said[i].norm
    BY <1>1, <1>2, AddedChunk DEF IInv
  <1>4. Typed'
    <2>1. << >> \in Seq(Heard) /\ FALSE \in BOOLEAN
      OBVIOUS
    <2> QED
      BY <1>2, <1>3, <2>1 DEF IInv, Typed
  <1>5. ASSUME Complete', NoRepeats(said)' PROVE Fits(SoFar, buffer, said)' /\ Len(SoFar') = Len(said')
    <2>1. /\ Len(SoFar') = Len(said) /\ said' = said
          /\ \A i \in 1 .. Len(said) : SoFar'[i].norm = said[i].norm
      BY <1>2, <1>3, <1>5 DEF Complete
    <2>2. Len(buffer') = 0 /\ Len(said) \in Nat
      BY <1>2 DEF IInv, Typed
    <2>3. /\ Len(buffer') <= Len(said')
          /\ Len(said') - Len(buffer') <= Len(SoFar') /\ Len(SoFar') <= Len(said')
          /\ Len(SoFar') - (Len(said') - Len(buffer')) <= OverlapWords
      BY <2>1, <2>2, OverlapWordsAssumption
    <2>4. \A i \in 1 .. Len(buffer') : FALSE
      BY <2>2
    <2> QED
      BY <2>1, <2>3, <2>4 DEF Fits
  <1> QED
    BY <1>4, <1>5 DEF Aligned

\* A forced cut leaves the overlap over.
LEMMA ForcedCutStep == ASSUME IInv, ForcedCut PROVE Typed' /\ Aligned'
  <1>1. PICK chunk \in Transcribed : chunks' = Append(chunks, chunk)
    BY DEF ForcedCut
  <1>2. /\ phase = "recording" /\ phase' = phase /\ fresh' = FALSE
        /\ UNCHANGED <<said, raw, text>>
    BY DEF ForcedCut, Later
  <1>3. PICK n \in 0 .. Min({OverlapWords, Len(buffer)}) : \E words \in HeardAgain(n) :
               buffer' = words /\ misheard' = (misheard \/ (n > 0 /\ words[1] = Fragment))
    BY DEF ForcedCut
  <1>4. PICK words \in HeardAgain(n) :
               buffer' = words /\ misheard' = (misheard \/ (n > 0 /\ words[1] = Fragment))
    BY <1>3
  <1>5. /\ n \in Nat /\ n <= OverlapWords /\ n <= Len(buffer) /\ Len(buffer) \in Nat
        /\ Len(said) \in Nat
    <2>1. Len(buffer) \in Nat /\ Len(said) \in Nat
      BY DEF IInv, Typed
    <2>2. /\ Min({OverlapWords, Len(buffer)}) \in Nat
          /\ Min({OverlapWords, Len(buffer)}) <= OverlapWords
          /\ Min({OverlapWords, Len(buffer)}) <= Len(buffer)
      BY <2>1, MinFacts, OverlapWordsAssumption
    <2> QED
      BY <2>1, <2>2, OverlapWordsAssumption
  <1>6. /\ words \in [1 .. n -> Heard]
        /\ \A i \in 1 .. n :
               \/ words[i].norm = buffer[Len(buffer) - n + i].norm
               \/ i = 1 /\ words[1] = Fragment
    BY DEF HeardAgain, Heard
  <1>7. buffer' \in Seq(Heard) /\ Len(buffer') = n
    BY <1>4, <1>5, <1>6
  <1>8. /\ chunks' \in Seq(Chunk) /\ SoFar' \in Seq(Heard)
        /\ (ChunkErrors' = {} /\ ~misheard /\ NoRepeats(said)) =>
               /\ Len(SoFar') = Len(said)
               /\ \A i \in 1 .. Len(said) : SoFar'[i].norm = said[i].norm
    BY <1>1, <1>2, AddedChunk DEF IInv
  <1>9. Typed'
    <2>1. misheard' \in BOOLEAN
      BY <1>4 DEF IInv, Typed
    <2> QED
      BY <1>2, <1>7, <1>8, <2>1 DEF IInv, Typed
  <1>10. ASSUME Complete', NoRepeats(said)' PROVE Fits(SoFar, buffer, said)' /\ Len(SoFar') = Len(said')
    <2>1. ~misheard /\ ~(n > 0 /\ words[1] = Fragment) /\ ChunkErrors' = {}
      BY <1>4, <1>10 DEF Complete
    <2>2. /\ Len(SoFar') = Len(said) /\ said' = said
          /\ \A i \in 1 .. Len(said) : SoFar'[i].norm = said[i].norm
      BY <1>2, <1>8, <1>10, <2>1
    <2>3. Fits(SoFar, buffer, said)
      <3>1. \A i \in 1 .. Len(chunks) : ~chunks[i].failed
        <4>1. \A i \in 1 .. Len(chunks') : ~chunks'[i].failed
          BY <2>1, PlainSpeechNext
        <4>2. chunk \in Chunk
          BY TranscribedFacts DEF IInv
        <4>3. \A i \in 1 .. Len(chunks) : i \in 1 .. Len(chunks') /\ chunks'[i] = chunks[i]
          BY <1>1, <4>2 DEF IInv, Typed
        <4> QED
          BY <4>1, <4>3
      <3>2. Complete /\ NoRepeats(said)
        BY <1>10, <2>1, <2>2, <3>1, PlainSpeech DEF Complete
      <3> QED
        BY <1>2, <3>2 DEF IInv, Aligned
    <2>4. ASSUME NEW i \in 1 .. n PROVE buffer'[i].norm = said[Len(said) - n + i].norm
      <3>1. /\ Len(buffer) - n + i \in 1 .. Len(buffer)
            /\ Len(said) - Len(buffer) + (Len(buffer) - n + i) = Len(said) - n + i
        BY <1>5
      <3>2. buffer[Len(buffer) - n + i].norm = said[Len(said) - n + i].norm
        BY <2>3, <3>1 DEF Fits
      <3>3. ~(i = 1 /\ words[1] = Fragment)
        BY <1>5, <2>1
      <3> QED
        BY <1>4, <1>6, <3>2, <3>3
    <2>5. Len(buffer) <= Len(said)
      BY <2>3 DEF Fits
    <2>6. /\ Len(buffer') <= Len(said')
          /\ Len(said') - Len(buffer') <= Len(SoFar') /\ Len(SoFar') <= Len(said')
          /\ Len(SoFar') - (Len(said') - Len(buffer')) <= OverlapWords
      BY <1>5, <1>7, <2>2, <2>5, OverlapWordsAssumption
    <2> QED
      BY <1>7, <2>2, <2>4, <2>6 DEF Fits
  <1> QED
    BY <1>9, <1>10 DEF Aligned

\* The text is assembled and cleaned up.
LEMMA StopStep == ASSUME IInv, Stop PROVE Typed' /\ Aligned' /\ Built'
  <1>1. /\ phase = "recording" /\ phase' = "transcribed"
        /\ buffer' = << >> /\ fresh' = FALSE /\ UNCHANGED <<said, misheard>>
        /\ raw' = SoFar' /\ text' \in {raw', SafeCleanup(raw')}
    BY DEF Stop, SoFar
  <1>2. /\ chunks' \in Seq(Chunk) /\ SoFar' \in Seq(Heard)
        /\ (ChunkErrors' = {} /\ ~misheard /\ NoRepeats(said)) =>
               /\ Len(SoFar') = Len(said)
               /\ \A i \in 1 .. Len(said) : SoFar'[i].norm = said[i].norm
    <2>1. CASE fresh
      <3>1. PICK chunk \in Transcribed : chunks' = Append(chunks, chunk)
        BY <2>1 DEF Stop
      <3> QED
        BY <1>1, <3>1, AddedChunk DEF IInv
    <2>2. CASE ~fresh
      <3>1. chunks' = chunks
        BY <2>2 DEF Stop
      <3>2. chunks \in Seq(Chunk) /\ SoFar' = SoFar /\ SoFar \in Seq(Heard)
        BY <3>1, SoFarFacts DEF IInv, Typed, SoFar
      <3>3. ASSUME ChunkErrors' = {}, ~misheard, NoRepeats(said)
            PROVE  /\ Len(SoFar) = Len(said)
                   /\ \A i \in 1 .. Len(SoFar) : SoFar[i].norm = said[i].norm
        <4>1. Complete
          BY <3>1, <3>3 DEF Complete, ChunkErrors
        <4>2. Fits(SoFar, buffer, said) /\ Len(SoFar) = Len(said)
          BY <1>1, <2>2, <3>3, <4>1 DEF IInv, Aligned
        <4> QED
          BY <4>2 DEF Fits
      <3> QED
        BY <3>1, <3>2, <3>3
    <2> QED
      BY <2>1, <2>2
  <1>3. Typed'
    <2>1. << >> \in Seq(Heard) /\ FALSE \in BOOLEAN
      OBVIOUS
    <2>2. raw' \in Seq(Heard) /\ text' \in Seq(Heard)
      BY <1>1, <1>2, CleanupFacts
    <2> QED
      BY <1>1, <1>2, <2>1, <2>2 DEF IInv, Typed
  <1>4. Built'
    <2>1. ASSUME Complete', NoRepeats(said)' PROVE Norms(raw)' = Norms(said)'
      <3>1. /\ Len(raw') = Len(said) /\ said' = said
            /\ \A i \in 1 .. Len(said) : raw'[i].norm = said[i].norm
        BY <1>1, <1>2, <2>1 DEF Complete
      <3> QED
        BY <3>1 DEF Norms
    <2> QED
      BY <1>1, <2>1 DEF Built
  <1> QED
    BY <1>1, <1>3, <1>4 DEF Aligned

\* The report says what became of chunks and outputs.
LEMMA ReportStep == ASSUME IInv, Report PROVE IInv'
  <1> DEFINE Broken(failing) == IF text = << >> THEN failing \ {"typing"} ELSE failing
             Errors(failing, unlogged) == {<<"output", o>> : o \in Broken(failing)} \cup unlogged
  <1>1. PICK failing \in SUBSET Outputs, unlogged \in SUBSET {<<"diagnostics">>} :
               /\ delivered' = Outputs \ Broken(failing)
               /\ message' = CompletionMessage(Errors(failing, unlogged))
               /\ warnings' = ChunkErrors \cup Errors(failing, unlogged)
    BY DEF Report
  <1>2. /\ phase = "transcribed" /\ phase' = "reported"
        /\ UNCHANGED <<said, buffer, fresh, misheard, chunks, raw, text>>
    BY DEF Report
  <1>3. Broken(failing) \subseteq Outputs /\ Outputs \subseteq {"typing", "clipboard"}
    BY TranscriptAssumption
  <1>4. \A o : <<"output", o>> \in Errors(failing, unlogged) <=> o \in Broken(failing)
    <2>1. \A o : <<"output", o>> # <<"diagnostics">>
      OBVIOUS
    <2> QED
      BY <2>1
  <1>5. ChunkErrors # {} <=> \E i \in DOMAIN chunks : chunks[i].failed
    <2>1. DOMAIN chunks = 1 .. Len(chunks)
      BY DEF IInv, Typed
    <2> QED
      BY <2>1, PlainSpeech
  <1>6. /\ ChunkErrors # {} <=> message' = "failed segments"
        /\ message' = "typed" =>
               "typing" \in Outputs /\ "typing" \notin Broken(failing) /\ text # << >>
        /\ message' = "copied" =>
               /\ "clipboard" \in Outputs /\ "clipboard" \notin Broken(failing)
               /\ "typing" \notin Outputs \ Broken(failing)
        /\ message' = "complete" =>
               "typing" \notin Outputs \ Broken(failing) /\ "clipboard" \notin Outputs \ Broken(failing)
    <2> HIDE DEF Errors, Broken
    <2> QED
      BY <1>1, <1>4 DEF CompletionMessage
  <1>7. ReportIsTrue'
    <2>1. message' = "complete" => delivered' = {}
      <3> HIDE DEF Errors, Broken
      <3> QED
        BY <1>1, <1>3, <1>6
    <2>2. \A o \in Outputs \ delivered' : <<"output", o>> \in warnings'
      <3> HIDE DEF Errors, Broken
      <3> QED
        BY <1>1, <1>4
    <2> HIDE DEF Errors, Broken
    <2> QED
      BY <1>1, <1>2, <1>5, <1>6, <2>1, <2>2 DEF ReportIsTrue
  <1>8. Typed' /\ Aligned'
    BY <1>2 DEF IInv, Typed, Aligned
  <1>9. Built'
    BY <1>2 DEF IInv, Built, SoFar, Complete, ChunkErrors
  <1> QED
    BY <1>7, <1>8, <1>9 DEF IInv

\* Nothing has been said yet.
LEMMA InitIInv == Init => IInv
  <1> SUFFICES ASSUME Init PROVE IInv
    OBVIOUS
  <1>1. SoFar = << >>
    BY TextsFacts, AssembleSteps DEF Init, SoFar
  <1>2. /\ << >> \in Seq(Tokens) /\ << >> \in Seq(Heard) /\ << >> \in Seq(Chunk)
        /\ FALSE \in BOOLEAN /\ Len(<< >>) = 0
    OBVIOUS
  <1>3. Typed
    BY <1>2 DEF Init, Typed
  <1>4. Fits(SoFar, buffer, said) /\ Len(SoFar) = Len(said)
    <2>1. Len(SoFar) = 0 /\ Len(buffer) = 0 /\ Len(said) = 0
      BY <1>1, <1>2 DEF Init
    <2>2. \A i \in 1 .. 0 : FALSE
      OBVIOUS
    <2> QED
      BY <2>1, <2>2, OverlapWordsAssumption DEF Fits
  <1> QED
    BY <1>3, <1>4 DEF Init, IInv, Aligned, Built, ReportIsTrue

\* Every step keeps the invariant.
LEMMA NextIInv == IInv /\ [Next]_vars => IInv'
  <1> SUFFICES ASSUME IInv, [Next]_vars PROVE IInv'
    OBVIOUS
  <1>1. ASSUME Typed', Aligned', phase' = "recording" PROVE IInv'
    BY <1>1 DEF IInv, Built, ReportIsTrue
  <1>2. CASE \E w \in Spoken : Say(w)
    BY <1>1, <1>2, SayStep DEF Say, Later
  <1>3. CASE SilenceCut
    BY <1>1, <1>3, SilenceCutStep DEF SilenceCut, Later
  <1>4. CASE ForcedCut
    BY <1>1, <1>4, ForcedCutStep DEF ForcedCut, Later
  <1>5. CASE Stop
    <2>1. phase' = "transcribed"
      BY <1>5 DEF Stop
    <2> QED
      BY <1>5, <2>1, StopStep DEF IInv, ReportIsTrue
  <1>6. CASE Report
    BY <1>6, ReportStep
  <1>7. CASE UNCHANGED vars
    BY <1>7 DEF vars, IInv, Typed, Aligned, Built, ReportIsTrue, SoFar, Complete, ChunkErrors
  <1> QED
    BY <1>2, <1>3, <1>4, <1>5, <1>6, <1>7 DEF Next

-----------------------------------------------------------------------------
(* Theorems. *)

\* Whatever is said, cut, lost or heard twice: what is assembled so far and the
\* audio of the current chunk fit together to what was said, and the result is what
\* was assembled, cleaned up or not.
THEOREM TranscriptInvariance == Spec => []IInv
  <1>1. Init => IInv
    BY InitIInv
  <1>2. IInv /\ [Next]_vars => IInv'
    BY NextIInv
  <1> QED
    BY <1>1, <1>2, PTL DEF Spec

\* Speech without repetitions comes out as it was said, for any number of words and
\* chunks and any limit of the search for overlap; clean-up drops its hesitations and
\* nothing else.
THEOREM SpeechIsExact == Spec => []ExactWithoutRepeats
  <1>1. IInv => ExactWithoutRepeats
    <2> SUFFICES ASSUME IInv, phase # "recording", Complete, Distinct(Norms(said))
                 PROVE  /\ Norms(raw) = Norms(said)
                        /\ Distinct([i \in DOMAIN raw |-> raw[i].key]) =>
                              text = raw \/ Selects(text, {i \in DOMAIN raw : ~IsFiller(raw, i)}, raw)
      BY DEF ExactWithoutRepeats
    <2>1. NoRepeats(said)
      BY PlainSpeech
    <2>2. Norms(raw) = Norms(said) /\ text \in {raw, SafeCleanup(raw)}
      BY <2>1 DEF IInv, Built
    <2>3. raw \in Seq(Heard) /\ DOMAIN raw = 1 .. Len(raw)
      BY DEF IInv, Typed
    <2>4. ASSUME Distinct([i \in DOMAIN raw |-> raw[i].key]) PROVE DistinctKeys(raw)
      BY <2>3, <2>4 DEF Distinct, DistinctKeys
    <2>5. DistinctKeys(raw) =>
              Selects(SafeCleanup(raw), {i \in 1 .. Len(raw) : ~IsFiller(raw, i)}, raw)
      BY <2>3, CleanupDropsHesitations
    <2> QED
      BY <2>2, <2>3, <2>4, <2>5
  <1> QED
    BY <1>1, TranscriptInvariance, PTL

\* A word taken for overlap is in the assembled text, and one taken for a repetition
\* has the key of one that stays, also next to chunks that were lost.
THEOREM NothingVanishes == Spec => []NoWordVanishes
  <1>1. IInv => NoWordVanishes
    <2> SUFFICES ASSUME IInv, phase # "recording"
                 PROVE  /\ NormSet(raw) = UNION {NormSet(chunks[i].words) : i \in DOMAIN chunks}
                        /\ \A i \in DOMAIN raw : IsFiller(raw, i) \/ raw[i].key \in Keys(text)
      BY DEF NoWordVanishes
    <2>1. raw = SoFar /\ text \in {raw, SafeCleanup(raw)}
      BY DEF IInv, Built
    <2>2. raw \in Seq(Heard) /\ DOMAIN raw = 1 .. Len(raw)
      BY DEF IInv, Typed
    <2>3. NormSet(raw) = UNION {NormSet(chunks[i].words) : i \in DOMAIN chunks}
      BY <2>1, SoFarFacts DEF IInv
    <2>4. \A i \in 1 .. Len(raw) : IsFiller(raw, i) \/ raw[i].key \in Keys(SafeCleanup(raw))
      BY <2>2, CleanupKeepsKeys
    <2>5. \A i \in 1 .. Len(raw) : raw[i].key \in Keys(raw)
      BY DEF Keys
    <2> QED
      BY <2>1, <2>2, <2>3, <2>4, <2>5
  <1> QED
    BY <1>1, TranscriptInvariance, PTL

\* What the user is told of chunks and outputs is so, for any set of outputs that
\* fail.
THEOREM ReportsAreTrue == Spec => []ReportIsTrue
  <1>1. IInv => ReportIsTrue
    BY DEF IInv
  <1> QED
    BY <1>1, TranscriptInvariance, PTL
=============================================================================
