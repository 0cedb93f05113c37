-------------------------- MODULE SegmenterProofs --------------------------
(***************************************************************************)
(* Proofs about Segmenter.tla for every configuration and any number of    *)
(* frames.                                                                 *)
(***************************************************************************)
EXTENDS Segmenter, FiniteSetTheorems, WellFoundedInduction, TLAPS

\* What is buffered ends with the frame that was pushed last.
Newest == buffer # {} => Len(pushed) \in buffer

\* While nothing was said after the overlap, the words in the buffer are in the
\* chunk that the overlap was taken from: finish() may drop the buffer.
OverlapHeard == ~speechAfterOverlap => SpeechIn(buffer, pushed) \subseteq Heard

IInv == TypeOK /\ Newest /\ OverlapHeard /\ FlagsMatchBuffer /\ NoSpeechLost /\ ChunksValid

ChunkRecord ==
    [first : Nat, last : Nat, reason : {"silence", "forced_max", "stop"},
     sequence : Nat, speechMs : Nat, overlapMs : Nat]

Valid(chunk) ==
    /\ Ms(chunk) > 0
    /\ chunk.speechMs <= Ms(chunk)
    /\ chunk.overlapMs < Ms(chunk)

-----------------------------------------------------------------------------
(* Facts about the first and the last of a set of frames. *)

\* A non-empty set of numbers has a least element.
LEMMA LeastExists ==
    ASSUME NEW S \in SUBSET Nat, S # {}
    PROVE  \E x \in S : \A y \in S : x <= y
  <1>1. PICK x \in S : \A y \in S : ~(<<y, x>> \in OpToRel(<, Nat))
    BY NatLessThanWellFounded, WFMin
  <1>2. \A y \in S : ~(y < x)
    BY <1>1 DEF OpToRel
  <1> QED
    BY <1>2

\* A non-empty bounded set of numbers has a greatest element.
LEMMA GreatestExists ==
    ASSUME NEW n \in Nat, NEW S \in SUBSET (0 .. n), S # {}
    PROVE  \E x \in S : \A y \in S : x >= y
  <1> DEFINE T == {n - x : x \in S}
  <1>1. T \in SUBSET Nat /\ T # {}
    <2>1. \A x \in S : n - x \in Nat
      OBVIOUS
    <2> QED
      BY <2>1
  <1>2. PICK t \in T : \A u \in T : t <= u
    BY <1>1, LeastExists
  <1>3. PICK x \in S : t = n - x
    BY <1>2
  <1>4. \A y \in S : n - x <= n - y
    BY <1>2, <1>3
  <1>5. \A y \in S : x >= y
    BY <1>4
  <1> QED
    BY <1>5

\* What Min and Max return.
LEMMA MinMax ==
    ASSUME NEW n \in Nat, NEW S \in SUBSET (0 .. n), S # {}
    PROVE  /\ Min(S) \in S /\ \A y \in S : Min(S) <= y
           /\ Max(S) \in S /\ \A y \in S : y <= Max(S)
           /\ Min(S) \in Nat /\ Max(S) \in Nat /\ Min(S) <= Max(S) /\ Max(S) <= n /\ Min(S) <= n
           /\ Max(S) - Min(S) + 1 \in Nat \ {0}
           /\ S \subseteq Min(S) .. Max(S)
  <1>1. Min(S) \in S /\ \A y \in S : Min(S) <= y
    <2>1. \E x \in S : \A y \in S : x <= y
      BY LeastExists
    <2> QED
      BY <2>1 DEF Min
  <1>2. Max(S) \in S /\ \A y \in S : Max(S) >= y
    <2>1. \E x \in S : \A y \in S : x >= y
      BY GreatestExists
    <2> QED
      BY <2>1 DEF Max
  <1> DEFINE lo == Min(S)
             hi == Max(S)
  <1>3. lo \in S /\ hi \in S /\ (\A y \in S : lo <= y) /\ \A y \in S : y <= hi
    <2>1. \A m \in S : (\A y \in S : m >= y) => \A y \in S : y <= m
      OBVIOUS
    <2> QED
      BY <1>1, <1>2, <2>1, Zenon
  <1> HIDE DEF lo, hi
  <1>4. lo \in Nat /\ hi \in Nat /\ lo <= hi /\ hi <= n /\ lo <= n
    BY <1>3
  <1>5. hi - lo + 1 \in Nat \ {0}
    BY <1>4
  <1>6. S \subseteq lo .. hi
    BY <1>3, <1>4
  <1> QED
    BY <1>3, <1>4, <1>5, <1>6 DEF lo, hi

\* A product with a factor that is at least as large is at least as large.
LEMMA Times ==
    /\ \A a \in Nat, f \in Nat : a * f \in Nat
    /\ \A a \in Nat, b \in Nat, f \in Nat : a <= b => a * f <= b * f
    /\ \A a \in Nat, f \in Nat \ {0} : a > 0 => a * f > 0
    /\ \A a \in Nat, f \in Nat : (a + 1) * f = a * f + f
  OBVIOUS

\* The larger and the smaller of two numbers.
LEMMA OfTwo ==
    ASSUME NEW a \in Int, NEW b \in Int
    PROVE  /\ Max({a, b}) = IF a >= b THEN a ELSE b
           /\ Min({a, b}) = IF a <= b THEN a ELSE b
  BY DEF Max, Min

-----------------------------------------------------------------------------
(* Facts about the parts of a segmenter. *)

\* Frames last some time.
LEMMA FrameLength == ASSUME TypeOK PROVE config.frameMs \in Nat \ {0}
  BY ConfigAssumption DEF TypeOK

\* The duration of frames is positive.
LEMMA DurationFacts ==
    ASSUME TypeOK, NEW n \in Nat, NEW frames \in SUBSET (0 .. n), frames # {}
    PROVE  /\ Duration(frames) = (Max(frames) - Min(frames) + 1) * config.frameMs
           /\ Duration(frames) \in Nat \ {0}
  <1>1. Max(frames) - Min(frames) + 1 \in Nat \ {0}
    BY MinMax
  <1>2. \A a \in Nat \ {0}, f \in Nat \ {0} : a * f \in Nat \ {0}
    BY Times
  <1> QED
    BY <1>1, <1>2, FrameLength DEF Duration

\* overlap_ms stays below the duration.
LEMMA ClampFacts ==
    ASSUME NEW overlap \in Nat, NEW duration \in Nat \ {0}
    PROVE  Clamp(overlap, duration) \in 0 .. duration - 1
  <1> DEFINE least == Min({overlap, duration - 1})
  <1>1. least \in Int /\ least <= duration - 1
    <2>1. overlap \in Int /\ duration - 1 \in Int
      OBVIOUS
    <2>2. least = IF overlap <= duration - 1 THEN overlap ELSE duration - 1
      BY <2>1, OfTwo
    <2> QED
      BY <2>1, <2>2
  <1>2. Clamp(overlap, duration) = Max({0, least})
    BY DEF Clamp
  <1> HIDE DEF least
  <1>3. Max({0, least}) = IF 0 >= least THEN 0 ELSE least
    BY <1>1, OfTwo
  <1> QED
    BY <1>1, <1>2, <1>3

\* A chunk holds the frames it is made of, and the AudioChunk constructor takes it.
LEMMA ChunkFacts ==
    ASSUME TypeOK, NEW verdicts, NEW n \in Nat, NEW frames \in SUBSET (0 .. n), frames # {},
           NEW reason \in {"silence", "forced_max", "stop"}
    PROVE  /\ ChunkOf(frames, reason, verdicts) \in ChunkRecord
           /\ frames \subseteq Frames(ChunkOf(frames, reason, verdicts))
           /\ Valid(ChunkOf(frames, reason, verdicts))
  <1> DEFINE chunk  == ChunkOf(frames, reason, verdicts)
             spoken == SpeechIn(frames, verdicts)
             length == Max(frames) - Min(frames) + 1
  <1>1. /\ Min(frames) \in Nat /\ Max(frames) \in Nat
        /\ frames \subseteq Min(frames) .. Max(frames)
        /\ length \in Nat \ {0}
        /\ Duration(frames) = length * config.frameMs
        /\ Duration(frames) \in Nat \ {0}
    BY MinMax, DurationFacts
  <1>2. Cardinality(spoken) \in Nat /\ Cardinality(spoken) <= length
    <2>1. spoken \in SUBSET (Min(frames) .. Max(frames))
      BY <1>1 DEF SpeechIn
    <2>2. /\ IsFiniteSet(Min(frames) .. Max(frames))
          /\ Cardinality(Min(frames) .. Max(frames)) = length
      <3>1. Min(frames) <= Max(frames)
        BY MinMax
      <3> QED
        BY <1>1, <3>1, FS_Interval
    <2>3. IsFiniteSet(spoken) /\ Cardinality(spoken) <= length
      <3> DEFINE whole == Min(frames) .. Max(frames)
      <3>1. spoken \in SUBSET whole /\ IsFiniteSet(whole) /\ Cardinality(whole) = length
        BY <2>1, <2>2
      <3> HIDE DEF whole, spoken, length
      <3> QED
        BY <3>1, FS_Subset
    <2> QED
      BY <2>3, FS_CardinalityType
  <1>3. Cardinality(spoken) * config.frameMs \in Nat
        /\ Cardinality(spoken) * config.frameMs <= length * config.frameMs
    <2> DEFINE c == Cardinality(spoken)
               f == config.frameMs
    <2>1. c \in Nat /\ length \in Nat /\ c <= length /\ f \in Nat
      BY <1>1, <1>2, FrameLength
    <2> HIDE DEF c, f, length
    <2>2. c * f \in Nat /\ c * f <= length * f
      BY <2>1, Times
    <2> QED
      BY <2>2 DEF c, f
  <1>4. Clamp(prefixOverlap, Duration(frames)) \in 0 .. Duration(frames) - 1
    BY <1>1, ClampFacts DEF TypeOK
  <1>5. /\ chunk.first = Min(frames) /\ chunk.last = Max(frames)
        /\ chunk.speechMs = Cardinality(spoken) * config.frameMs
        /\ chunk.overlapMs = Clamp(prefixOverlap, Duration(frames))
    BY DEF ChunkOf
  <1>6. chunk \in ChunkRecord
    <2>1. Len(chunks) \in Nat
      BY DEF TypeOK
    <2>2. Clamp(prefixOverlap, Duration(frames)) \in Nat
      BY <1>1, <1>4
    <2> QED
      BY <1>1, <1>3, <2>1, <2>2 DEF ChunkOf, ChunkRecord
  <1>7. frames \subseteq Frames(chunk)
    BY <1>1, <1>5 DEF Frames
  <1>8. Valid(chunk)
    BY <1>1, <1>3, <1>4, <1>5 DEF Valid, Ms
  <1> QED
    BY <1>6, <1>7, <1>8

\* A chunk more.
LEMMA EmitFacts ==
    ASSUME TypeOK, ChunksValid, NEW chunk \in ChunkRecord, Valid(chunk), Emit(chunk), config' = config
    PROVE  /\ chunks' \in Seq(ChunkRecord)
           /\ Heard' = Heard \cup Frames(chunk)
           /\ ChunksValid'
           /\ Len(chunks') = Len(chunks) + 1 /\ chunks'[Len(chunks')] = chunk
           /\ \A k \in 1 .. Len(chunks) : chunks'[k] = chunks[k]
  <1>1. chunks \in Seq(ChunkRecord)
    BY DEF TypeOK, ChunkRecord
  <1>2. /\ chunks' \in Seq(ChunkRecord) /\ Len(chunks') = Len(chunks) + 1
        /\ \A k \in 1 .. Len(chunks) : chunks'[k] = chunks[k]
        /\ chunks'[Len(chunks) + 1] = chunk
    BY <1>1 DEF Emit
  <1>3. Len(chunks) \in Nat
    BY <1>1
  <1>4. Heard \cup Frames(chunk) \subseteq Heard'
    <2>1. ASSUME NEW i \in Heard PROVE i \in Heard'
      <3>1. PICK k \in 1 .. Len(chunks) : i \in Frames(chunks[k])
        BY <2>1 DEF Heard
      <3>2. k \in 1 .. Len(chunks') /\ chunks'[k] = chunks[k]
        BY <1>2, <1>3
      <3> QED
        BY <3>1, <3>2 DEF Heard, Frames
    <2>2. ASSUME NEW i \in Frames(chunk) PROVE i \in Heard'
      <3>1. Len(chunks) + 1 \in 1 .. Len(chunks')
        BY <1>2, <1>3
      <3> QED
        BY <1>2, <2>2, <3>1 DEF Heard, Frames
    <2> QED
      BY <2>1, <2>2
  <1>5. ChunksValid'
    <2>1. ASSUME NEW k \in 1 .. Len(chunks') PROVE Valid(chunks[k])' 
      <3>1. CASE k \in 1 .. Len(chunks)
        BY <1>2, <3>1 DEF ChunksValid, Valid, Ms
      <3>2. CASE k = Len(chunks) + 1
        BY <1>2, <3>2 DEF Valid, Ms
      <3> QED
        BY <1>2, <1>3, <3>1, <3>2
    <2> QED
      BY <2>1 DEF ChunksValid, Valid
  <1>6. Heard' \subseteq Heard \cup Frames(chunk)
    <2>1. ASSUME NEW k \in 1 .. Len(chunks'), NEW i \in Frames(chunks[k])' PROVE i \in Heard \cup Frames(chunk)
      <3>1. CASE k \in 1 .. Len(chunks)
        BY <1>2, <2>1, <3>1 DEF Heard, Frames
      <3>2. CASE k = Len(chunks) + 1
        BY <1>2, <2>1, <3>2 DEF Frames
      <3> QED
        BY <1>2, <1>3, <3>1, <3>2
    <2> QED
      BY <2>1 DEF Heard, Frames
  <1> QED
    BY <1>2, <1>4, <1>5, <1>6

\* The greatest element is the bound, if the set has it.
LEMMA MaxIs == ASSUME NEW n \in Nat, NEW S \in SUBSET (0 .. n), n \in S PROVE Max(S) = n
  <1>1. Max(S) \in Nat /\ Max(S) <= n /\ n <= Max(S)
    BY MinMax
  <1> DEFINE m == Max(S)
  <1>2. m \in Nat /\ m <= n /\ n <= m
    BY <1>1
  <1> HIDE DEF m
  <1>3. m = n
    BY <1>2
  <1> QED
    BY <1>3 DEF m

\* A greater element leaves the least one as it is.
LEMMA MinStays ==
    ASSUME NEW n \in Nat, NEW S \in SUBSET (0 .. n), S # {}
    PROVE  Min(S \cup {n + 1}) = Min(S)
  <1> DEFINE T == S \cup {n + 1}
             a == Min(S)
             b == Min(T)
  <1>1. a \in S /\ \A y \in S : a <= y
    BY MinMax
  <1>2. b \in T /\ \A y \in T : b <= y
    <2>1. T \in SUBSET (0 .. n + 1) /\ T # {} /\ n + 1 \in Nat
      OBVIOUS
    <2> HIDE DEF T
    <2> QED
      BY <2>1, MinMax
  <1> HIDE DEF a, b
  <1>3. a = b
    BY <1>1, <1>2
  <1> QED
    BY <1>3 DEF a, b

\* The silence at the end of frames is a length of time.
LEMMA SilenceFacts ==
    ASSUME TypeOK, NEW verdicts, NEW n \in Nat, NEW frames \in SUBSET (0 .. n), frames # {}
    PROVE  SilenceAtEnd(frames, verdicts) \in Nat
  <1> DEFINE spoken == SpeechIn(frames, verdicts)
             hi == Max(frames)
             last == Max(spoken)
  <1>1. Duration(frames) \in Nat
    BY DurationFacts
  <1>2. spoken \in SUBSET (0 .. n) /\ spoken \subseteq frames
    BY DEF SpeechIn
  <1>3. hi \in Nat /\ \A y \in frames : y <= hi
    BY MinMax
  <1>4. CASE spoken = {}
    BY <1>1, <1>4 DEF SilenceAtEnd
  <1>5. CASE spoken # {}
    <2> HIDE DEF spoken
    <2>1. last \in spoken /\ last \in Nat
      BY <1>2, <1>5, MinMax
    <2> HIDE DEF hi, last
    <2>2. hi - last \in Nat
      BY <1>2, <1>3, <2>1
    <2>3. (hi - last) * config.frameMs \in Nat
      BY <2>2, FrameLength, Times
    <2> QED
      BY <1>5, <2>3 DEF SilenceAtEnd, hi, last, spoken
  <1> QED
    BY <1>4, <1>5

\* The verdicts with one more.
LEMMA PushedFacts ==
    ASSUME TypeOK, NEW said \in BOOLEAN
    PROVE  /\ Len(pushed) \in Nat
           /\ Append(pushed, said) \in Seq(BOOLEAN)
           /\ Len(Append(pushed, said)) = Len(pushed) + 1
           /\ \A i \in 1 .. Len(pushed) : Append(pushed, said)[i] = pushed[i]
           /\ Append(pushed, said)[Len(pushed) + 1] = said
  BY DEF TypeOK

\* What was said in frames of which one is new.
LEMMA SpeechPushed ==
    ASSUME TypeOK, NEW said \in BOOLEAN, NEW frames \in SUBSET (1 .. Len(pushed))
    PROVE  SpeechIn(frames \cup {Len(pushed) + 1}, Append(pushed, said))
               = SpeechIn(frames, pushed) \cup (IF said THEN {Len(pushed) + 1} ELSE {})
  <1> DEFINE verdicts == Append(pushed, said)
  <1>1. /\ \A i \in frames : verdicts[i] = pushed[i]
        /\ verdicts[Len(pushed) + 1] = said
    BY PushedFacts
  <1> HIDE DEF verdicts
  <1>2. SpeechIn(frames \cup {Len(pushed) + 1}, verdicts)
            = SpeechIn(frames, pushed) \cup (IF said THEN {Len(pushed) + 1} ELSE {})
    BY <1>1 DEF SpeechIn
  <1> QED
    BY <1>2 DEF verdicts

\* The running silence is kept up frame by frame.
LEMMA SilencePushed ==
    ASSUME TypeOK, NEW said \in BOOLEAN, NEW frames \in SUBSET (1 .. Len(pushed)),
           Len(pushed) \in frames
    PROVE  SilenceAtEnd(frames \cup {Len(pushed) + 1}, Append(pushed, said))
               = IF said THEN 0 ELSE SilenceAtEnd(frames, pushed) + config.frameMs
  <1> DEFINE n == Len(pushed)
             f == config.frameMs
             more == frames \cup {n + 1}
             spoken == SpeechIn(frames, pushed)
             spokenNow == SpeechIn(more, Append(pushed, said))
  <1>1. n \in Nat /\ f \in Nat
    BY PushedFacts, FrameLength
  <1>2. /\ frames \in SUBSET (0 .. n) /\ frames # {} /\ n \in frames
        /\ more \in SUBSET (0 .. n + 1) /\ more # {} /\ n + 1 \in more
        /\ spoken \in SUBSET (0 .. n)
    <2> HIDE DEF n
    <2>1. frames \in SUBSET (1 .. n) /\ n \in frames
      BY DEF n
    <2>2. frames \in SUBSET (0 .. n) /\ more \in SUBSET (0 .. n + 1)
      BY <1>1, <2>1
    <2>3. spoken \subseteq frames
      BY DEF SpeechIn
    <2> QED
      BY <2>1, <2>2, <2>3
  <1>3. Max(frames) = n /\ Max(more) = n + 1
    <2> DEFINE m == n + 1
    <2>1. m \in Nat /\ more \in SUBSET (0 .. m) /\ m \in more
      BY <1>1, <1>2
    <2> HIDE DEF n, m, more
    <2>2. Max(frames) = n
      BY <1>1, <1>2, MaxIs
    <2>3. Max(more) = m
      BY <2>1, MaxIs
    <2> QED
      BY <2>2, <2>3 DEF m
  <1>4. Min(more) = Min(frames) /\ Min(frames) \in Nat /\ Min(frames) <= n
    BY <1>1, <1>2, MinStays, MinMax
  <1>5. spokenNow = spoken \cup (IF said THEN {n + 1} ELSE {})
    BY SpeechPushed
  <1>6. CASE said
    <2>1. spokenNow \in SUBSET (0 .. n + 1) /\ n + 1 \in spokenNow
      <3> HIDE DEF n, spoken, spokenNow
      <3>1. spoken \cup {n + 1} \in SUBSET (0 .. n + 1)
        BY <1>1, <1>2
      <3> QED
        BY <1>5, <1>6, <3>1
    <2> HIDE DEF spokenNow
    <2>2. Max(spokenNow) = n + 1
      BY <1>1, <2>1, MaxIs
    <2>3. ((n + 1) - (n + 1)) * f = 0
      BY <1>1
    <2> QED
      BY <1>3, <1>6, <2>1, <2>2, <2>3 DEF SilenceAtEnd, spokenNow
  <1>7. CASE ~said /\ spoken = {}
    <2>1. SilenceAtEnd(more, Append(pushed, said)) = Duration(more)
      BY <1>5, <1>7 DEF SilenceAtEnd
    <2>2. SilenceAtEnd(frames, pushed) = Duration(frames)
      BY <1>7 DEF SilenceAtEnd
    <2>3. Duration(more) = ((n + 1) - Min(frames) + 1) * f /\ Duration(frames) = (n - Min(frames) + 1) * f
      BY <1>2, <1>3, <1>4 DEF Duration
    <2>4. ((n + 1) - Min(frames) + 1) * f = (n - Min(frames) + 1) * f + f
      <3> DEFINE a == Min(frames)
      <3>1. a \in Nat /\ a <= n
        BY <1>4
      <3> HIDE DEF a
      <3>2. n - a + 1 \in Nat /\ (n + 1) - a + 1 = (n - a + 1) + 1
        BY <1>1, <3>1
      <3>3. ((n + 1) - a + 1) * f = (n - a + 1) * f + f
        BY <1>1, <3>2, Times
      <3> QED
        BY <3>3 DEF a
    <2> QED
      BY <1>7, <2>1, <2>2, <2>3, <2>4
  <1>8. CASE ~said /\ spoken # {}
    <2> DEFINE last == Max(spoken)
    <2>1. last \in Nat /\ last <= n
      BY <1>1, <1>2, <1>8, MinMax
    <2>2. spokenNow = spoken
      BY <1>5, <1>8
    <2>3. /\ SilenceAtEnd(more, Append(pushed, said)) = ((n + 1) - last) * f
          /\ SilenceAtEnd(frames, pushed) = (n - last) * f
      BY <1>3, <1>8, <2>2 DEF SilenceAtEnd
    <2> HIDE DEF last
    <2>4. n - last \in Nat /\ (n + 1) - last = (n - last) + 1
      BY <1>1, <2>1
    <2>5. ((n + 1) - last) * f = (n - last) * f + f
      BY <1>1, <2>4, Times
    <2> QED
      BY <1>8, <2>3, <2>5
  <1> QED
    BY <1>6, <1>7, <1>8

\* A forced cut retains the newest frame; a trim keeps every word.
LEMMA PartsFacts ==
    ASSUME NEW verdicts, NEW n \in Nat, NEW frames \in SUBSET (0 .. n), frames # {}
    PROVE  /\ Retained(frames) \subseteq frames /\ Max(frames) \in Retained(frames)
           /\ Trimmed(frames, verdicts) \subseteq frames
           /\ SpeechIn(frames, verdicts) \subseteq Trimmed(frames, verdicts)
  <1> DEFINE spoken == SpeechIn(frames, verdicts)
  <1>1. Max(frames) \in frames
    BY MinMax
  <1>2. Retained(frames) \subseteq frames /\ Max(frames) \in Retained(frames)
    BY <1>1 DEF Retained
  <1>3. Trimmed(frames, verdicts) \subseteq frames
    BY DEF Trimmed
  <1>4. ASSUME NEW i \in spoken PROVE i \in Trimmed(frames, verdicts)
    <2>1. i \in frames /\ spoken \in SUBSET (0 .. n) /\ spoken # {}
      BY <1>4 DEF SpeechIn
    <2> HIDE DEF spoken
    <2>2. i <= Max(spoken)
      BY <1>4, <2>1, MinMax
    <2> QED
      BY <2>1, <2>2 DEF Trimmed, spoken
  <1> QED
    BY <1>2, <1>3, <1>4

-----------------------------------------------------------------------------
(* Every step keeps the invariant. *)

\* What push() leaves when the frames and the flags it decides with fit together.
LEMMA DecideStep ==
    ASSUME IInv, NEW frames, NEW said \in BOOLEAN, NEW speech \in BOOLEAN,
           NEW after \in BOOLEAN, NEW silence \in Nat,
           frames \in SUBSET (1 .. Len(pushed) + 1), Len(pushed) + 1 \in frames, buffer \subseteq frames,
           speech <=> SpeechIn(frames, Append(pushed, said)) # {},
           silence = SilenceAtEnd(frames, Append(pushed, said)),
           ~after => SpeechIn(frames, Append(pushed, said)) \subseteq Heard,
           Decide(frames, Append(pushed, said), speech, after, silence),
           pushed' = Append(pushed, said), config' = config, finished' = finished
    PROVE  IInv'
  <1> DEFINE n == Len(pushed) + 1
             verdicts == Append(pushed, said)
             spoken == SpeechIn(frames, verdicts)
  <1>1. TypeOK /\ ChunksValid /\ NoSpeechLost
    BY DEF IInv
  <1>2. /\ n \in Nat /\ verdicts \in Seq(BOOLEAN) /\ Len(verdicts) = n
        /\ \A i \in 1 .. n - 1 : verdicts[i] = pushed[i]
    BY <1>1, PushedFacts
  <1>3. frames \in SUBSET (0 .. n) /\ frames # {} /\ Max(frames) = n
    <2>1. frames \in SUBSET (0 .. n) /\ n \in frames
      <3> HIDE DEF n
      <3>1. frames \in SUBSET (1 .. n) /\ n \in frames
        BY DEF n
      <3> QED
        BY <1>2, <3>1
    <2> QED
      BY <1>2, <2>1, MaxIs
  <1>4. AllSpeech' \subseteq Heard \cup spoken
    <2>1. ASSUME NEW i \in 1 .. n, verdicts[i] PROVE i \in Heard \cup spoken
      <3>1. CASE i \in frames
        BY <2>1, <3>1 DEF SpeechIn
      <3>2. CASE i \notin frames
        <4>1. i \in 1 .. Len(pushed) /\ i \in 1 .. n - 1
          BY <1>2, <3>2
        <4>2. pushed[i]
          BY <1>2, <2>1, <4>1
        <4> QED
          BY <1>1, <3>2, <4>1, <4>2 DEF NoSpeechLost, AllSpeech
      <3> QED
        BY <3>1, <3>2
    <2> QED
      BY <1>2, <2>1 DEF AllSpeech
  <1>5. pushed' = verdicts /\ Len(pushed') = n
    BY <1>2
  <1>6. CASE /\ Emit(ChunkOf(frames, "forced_max", verdicts))
             /\ RetainForcedOverlap(frames, verdicts)
             /\ preRoll' = {}
    <2> DEFINE chunk == ChunkOf(frames, "forced_max", verdicts)
               kept == Retained(frames)
    <2>1. chunk \in ChunkRecord /\ frames \subseteq Frames(chunk) /\ Valid(chunk)
      BY <1>1, <1>2, <1>3, ChunkFacts
    <2>2. chunks' \in Seq(ChunkRecord) /\ Heard \cup Frames(chunk) \subseteq Heard' /\ ChunksValid'
      <3> HIDE DEF chunk
      <3> QED
        BY <1>1, <1>6, <2>1, EmitFacts DEF chunk
    <2>3. kept \subseteq frames /\ n \in kept /\ kept \in SUBSET (0 .. n) /\ kept # {}
      <3> HIDE DEF n
      <3>1. kept \subseteq frames /\ Max(frames) \in kept
        BY <1>2, <1>3, PartsFacts
      <3> HIDE DEF kept
      <3> QED
        BY <1>3, <3>1
    <2>4. Duration(kept) \in Nat /\ SilenceAtEnd(kept, verdicts) \in Nat
      BY <1>1, <1>2, <2>3, DurationFacts, SilenceFacts
    <2>5. /\ buffer' = kept /\ prefixOverlap' = Duration(kept) /\ speechAfterOverlap' = FALSE
          /\ hasSpeech' = (SpeechIn(kept, verdicts) # {})
          /\ trailingSilence' = SilenceAtEnd(kept, verdicts)
      BY <1>6 DEF RetainForcedOverlap
    <2> HIDE DEF chunk, kept
    <2>6. TypeOK'
      <3>1. buffer' \subseteq 1 .. Len(pushed')
        BY <1>5, <2>3, <2>5
      <3>2. hasSpeech' \in BOOLEAN
        BY <2>5
      <3> QED
        BY <1>1, <1>2, <1>5, <1>6, <2>2, <2>4, <2>5, <3>1, <3>2 DEF TypeOK, ChunkRecord
    <2>7. Newest'
      BY <1>5, <2>3, <2>5 DEF Newest
    <2>8. OverlapHeard' /\ NoSpeechLost'
      <3>1. frames \subseteq Heard' /\ Heard \subseteq Heard'
        BY <2>1, <2>2
      <3>2. spoken \subseteq frames /\ SpeechIn(buffer', pushed') \subseteq frames
        BY <2>3, <2>5 DEF SpeechIn
      <3> QED
        BY <1>4, <3>1, <3>2 DEF OverlapHeard, NoSpeechLost
    <2>9. FlagsMatchBuffer'
      BY <1>5, <2>5 DEF FlagsMatchBuffer, SilenceAtEnd, Duration
    <2> QED
      BY <2>2, <2>6, <2>7, <2>8, <2>9 DEF IInv
  <1>7. CASE /\ speech
             /\ Emit(ChunkOf(Trimmed(frames, verdicts), "silence", verdicts))
             /\ ClearActive
    <2> DEFINE chunk == ChunkOf(Trimmed(frames, verdicts), "silence", verdicts)
    <2>1. /\ Trimmed(frames, verdicts) \in SUBSET (0 .. n) /\ spoken \subseteq Trimmed(frames, verdicts)
          /\ Trimmed(frames, verdicts) # {}
      BY <1>2, <1>3, <1>7, PartsFacts
    <2>2. chunk \in ChunkRecord /\ Trimmed(frames, verdicts) \subseteq Frames(chunk) /\ Valid(chunk)
      BY <1>1, <1>2, <2>1, ChunkFacts
    <2>3. chunks' \in Seq(ChunkRecord) /\ Heard \cup Frames(chunk) \subseteq Heard' /\ ChunksValid'
      <3> HIDE DEF chunk
      <3> QED
        BY <1>1, <1>7, <2>2, EmitFacts DEF chunk
    <2>4. TypeOK'
      BY <1>1, <1>2, <1>5, <1>7, <2>3 DEF TypeOK, ChunkRecord, ClearActive
    <2>5. Newest' /\ OverlapHeard' /\ FlagsMatchBuffer'
      BY <1>7 DEF Newest, OverlapHeard, FlagsMatchBuffer, SpeechIn, ClearActive
    <2>6. NoSpeechLost'
      BY <1>4, <2>1, <2>2, <2>3 DEF NoSpeechLost
    <2> QED
      BY <2>3, <2>4, <2>5, <2>6 DEF IInv
  <1>8. CASE /\ buffer' = frames /\ preRoll' = {} /\ hasSpeech' = speech /\ speechAfterOverlap' = after
             /\ trailingSilence' = silence /\ prefixOverlap' = prefixOverlap /\ chunks' = chunks
    <2>1. TypeOK'
      BY <1>1, <1>2, <1>5, <1>8 DEF TypeOK
    <2>2. Heard' = Heard /\ ChunksValid'
      BY <1>1, <1>8 DEF Heard, Frames, ChunksValid, Ms
    <2>3. Newest' /\ OverlapHeard'
      BY <1>5, <1>8, <2>2 DEF Newest, OverlapHeard
    <2>4. FlagsMatchBuffer'
      BY <1>5, <1>8 DEF FlagsMatchBuffer, SilenceAtEnd, Duration
    <2>5. NoSpeechLost'
      <3>1. spoken \subseteq frames
        BY DEF SpeechIn
      <3> QED
        BY <1>4, <1>8, <2>2, <3>1 DEF NoSpeechLost
    <2> QED
      BY <2>1, <2>2, <2>3, <2>4, <2>5 DEF IInv
  <1> QED
    BY <1>6, <1>7, <1>8 DEF Decide

\* A frame of silence before speech goes to the pre-roll; any other is decided upon.
LEMMA PushStep == ASSUME IInv, NEW isSpeech \in BOOLEAN, Push(isSpeech) PROVE IInv'
  <1> DEFINE n == Len(pushed) + 1
             verdicts == Append(pushed, isSpeech)
  <1>1. TypeOK /\ FlagsMatchBuffer /\ OverlapHeard /\ Newest
    BY DEF IInv
  <1>2. n \in Nat /\ Len(pushed) \in Nat /\ verdicts \in Seq(BOOLEAN) /\ Len(verdicts) = n
    BY <1>1, PushedFacts
  <1>3. pushed' = verdicts /\ config' = config /\ finished' = finished
    BY DEF Push
  <1>4. CASE /\ buffer = {} /\ ~isSpeech /\ preRoll' = PreRollWith(n)
             /\ UNCHANGED <<buffer, hasSpeech, speechAfterOverlap, trailingSilence, prefixOverlap, chunks>>
    <2>1. Heard' = Heard /\ ChunksValid' /\ chunks' = chunks
      BY <1>3, <1>4 DEF Heard, Frames, IInv, ChunksValid, Ms
    <2>2. preRoll' \subseteq 1 .. n
      <3>1. preRoll \subseteq 1 .. Len(pushed)
        BY <1>1 DEF TypeOK
      <3>2. 1 .. Len(pushed) \subseteq 1 .. n /\ n \in 1 .. n
        BY <1>2
      <3> QED
        BY <1>2, <1>4, <3>1, <3>2 DEF PreRollWith
    <2>3. TypeOK'
      BY <1>1, <1>2, <1>3, <1>4, <2>2 DEF TypeOK
    <2>4. Newest' /\ OverlapHeard' /\ FlagsMatchBuffer'
      BY <1>1, <1>4 DEF Newest, OverlapHeard, FlagsMatchBuffer, SpeechIn
    <2>5. AllSpeech' = AllSpeech
      <3>1. /\ \A i \in 1 .. Len(pushed) : verdicts[i] = pushed[i]
            /\ verdicts[Len(pushed) + 1] = FALSE
        BY <1>1, <1>4, PushedFacts
      <3>2. 1 .. n = (1 .. Len(pushed)) \cup {Len(pushed) + 1}
        BY <1>2
      <3> QED
        BY <1>2, <1>3, <3>1, <3>2 DEF AllSpeech
    <2> QED
      BY <1>4, <2>1, <2>3, <2>4, <2>5 DEF IInv, NoSpeechLost
  <1>5. CASE /\ buffer = {} /\ isSpeech
             /\ Decide(preRoll \cup {n}, verdicts, TRUE, TRUE, SilenceAtEnd(preRoll \cup {n}, verdicts))
    <2> DEFINE frames == preRoll \cup {n}
               silence == SilenceAtEnd(frames, verdicts)
    <2>1. frames \in SUBSET (1 .. n) /\ n \in frames /\ frames \in SUBSET (0 .. n) /\ frames # {}
      <3>1. preRoll \subseteq 1 .. Len(pushed)
        BY <1>1 DEF TypeOK
      <3>2. 1 .. Len(pushed) \subseteq 1 .. n /\ 1 .. n \subseteq 0 .. n /\ n \in 1 .. n
        BY <1>2
      <3> QED
        BY <3>1, <3>2
    <2>2. silence \in Nat
      BY <1>1, <1>2, <2>1, SilenceFacts
    <2>3. n \in SpeechIn(frames, verdicts)
      BY <1>1, <1>5, <2>1, PushedFacts DEF SpeechIn
    <2>4. buffer \subseteq frames
      BY <1>5
    <2>5. Decide(frames, verdicts, TRUE, TRUE, silence)
      BY <1>5
    <2> HIDE DEF frames, silence
    <2>6. silence = SilenceAtEnd(frames, verdicts)
      BY DEF silence
    <2>7. SpeechIn(frames, verdicts) # {}
      BY <2>3
    <2> QED
      BY <1>3, <2>1, <2>2, <2>4, <2>5, <2>6, <2>7, DecideStep
  <1>6. CASE /\ buffer # {}
             /\ Decide(buffer \cup {n}, verdicts, hasSpeech \/ isSpeech, speechAfterOverlap \/ isSpeech,
                       IF isSpeech THEN 0 ELSE trailingSilence + config.frameMs)
    <2> DEFINE frames == buffer \cup {n}
               speech == hasSpeech \/ isSpeech
               after == speechAfterOverlap \/ isSpeech
               silence == IF isSpeech THEN 0 ELSE trailingSilence + config.frameMs
    <2>1. /\ buffer \in SUBSET (1 .. Len(pushed)) /\ Len(pushed) \in buffer
          /\ speech \in BOOLEAN /\ after \in BOOLEAN
      BY <1>1, <1>6 DEF TypeOK, Newest
    <2>2. frames \in SUBSET (1 .. n) /\ n \in frames
      <3>1. 1 .. Len(pushed) \subseteq 1 .. n /\ n \in 1 .. n
        BY <1>2
      <3> QED
        BY <2>1, <3>1
    <2>3. silence = SilenceAtEnd(frames, verdicts) /\ silence \in Nat
      <3>1. trailingSilence = SilenceAtEnd(buffer, pushed) /\ trailingSilence \in Nat
        BY <1>1, <1>6 DEF FlagsMatchBuffer, TypeOK
      <3>2. SilenceAtEnd(frames, verdicts)
                = IF isSpeech THEN 0 ELSE SilenceAtEnd(buffer, pushed) + config.frameMs
        BY <1>1, <2>1, SilencePushed
      <3> QED
        BY <1>1, <3>1, <3>2, FrameLength
    <2>4. SpeechIn(frames, verdicts) = SpeechIn(buffer, pushed) \cup (IF isSpeech THEN {n} ELSE {})
      BY <1>1, <2>1, SpeechPushed
    <2>5. speech <=> SpeechIn(frames, verdicts) # {}
      BY <1>1, <2>4 DEF FlagsMatchBuffer
    <2>6. ~after => SpeechIn(frames, verdicts) \subseteq Heard
      BY <1>1, <2>4 DEF OverlapHeard
    <2>7. buffer \subseteq frames
      OBVIOUS
    <2>8. Decide(frames, verdicts, speech, after, silence)
      BY <1>6
    <2> HIDE DEF frames, speech, after, silence
    <2> QED
      BY <1>3, <2>1, <2>2, <2>3, <2>5, <2>6, <2>7, <2>8, DecideStep
  <1> QED
    BY <1>4, <1>5, <1>6 DEF Push

\* finish() drops the buffer only when it holds no word, or only words of the
\* chunk before.
LEMMA FinishStep == ASSUME IInv, Finish PROVE IInv'
  <1> DEFINE spoken == SpeechIn(buffer, pushed)
             n == Len(pushed)
             chunk == ChunkOf(Trimmed(buffer, pushed), "stop", pushed)
  <1>1. TypeOK /\ ChunksValid /\ NoSpeechLost /\ OverlapHeard /\ FlagsMatchBuffer
    BY DEF IInv
  <1>2. config' = config /\ pushed' = pushed /\ finished' = TRUE /\ ClearActive
    BY DEF Finish
  <1>3. AllSpeech' = AllSpeech /\ AllSpeech \subseteq Heard \cup spoken
    <2>1. AllSpeech' = AllSpeech
      BY <1>2 DEF AllSpeech
    <2>2. AllSpeech \subseteq Heard \cup spoken
      BY <1>1 DEF NoSpeechLost, AllSpeech, SpeechIn
    <2> QED
      BY <2>1, <2>2
  <1>4. /\ chunks' \in Seq(ChunkRecord) /\ ChunksValid'
        /\ Heard \cup spoken \subseteq Heard'
    <2>1. CASE NothingNew
      <3>1. chunks' = chunks
        BY <2>1 DEF Finish
      <3>2. Heard' = Heard /\ ChunksValid' /\ chunks \in Seq(ChunkRecord)
        BY <1>1, <1>2, <3>1 DEF Heard, Frames, ChunksValid, Ms, TypeOK, ChunkRecord
      <3>3. spoken \subseteq Heard
        BY <1>1, <2>1 DEF NothingNew, FlagsMatchBuffer, OverlapHeard, SpeechIn
      <3> QED
        BY <3>1, <3>2, <3>3
    <2>2. CASE ~NothingNew
      <3>1. Emit(chunk)
        BY <2>2 DEF Finish
      <3>2. n \in Nat /\ buffer \in SUBSET (0 .. n) /\ buffer # {} /\ spoken # {}
        <4>1. n \in Nat /\ buffer \in SUBSET (1 .. n)
          BY <1>1 DEF TypeOK
        <4>2. buffer # {} /\ spoken # {}
          BY <1>1, <2>2 DEF NothingNew, FlagsMatchBuffer
        <4> HIDE DEF n, spoken
        <4>3. 1 .. n \subseteq 0 .. n
          BY <4>1
        <4> QED
          BY <4>1, <4>2, <4>3
      <3>3. /\ Trimmed(buffer, pushed) \in SUBSET (0 .. n) /\ spoken \subseteq Trimmed(buffer, pushed)
            /\ Trimmed(buffer, pushed) # {}
        BY <3>2, PartsFacts
      <3>4. chunk \in ChunkRecord /\ Trimmed(buffer, pushed) \subseteq Frames(chunk) /\ Valid(chunk)
        BY <1>1, <3>2, <3>3, ChunkFacts
      <3>5. chunks' \in Seq(ChunkRecord) /\ Heard \cup Frames(chunk) \subseteq Heard' /\ ChunksValid'
        <4> HIDE DEF chunk
        <4> QED
          BY <1>1, <1>2, <3>1, <3>4, EmitFacts
      <3> QED
        BY <3>3, <3>4, <3>5
    <2> QED
      BY <2>1, <2>2
  <1>5. TypeOK'
    BY <1>1, <1>2, <1>4 DEF TypeOK, ChunkRecord, ClearActive
  <1>6. Newest' /\ OverlapHeard' /\ FlagsMatchBuffer'
    BY <1>2 DEF Newest, OverlapHeard, FlagsMatchBuffer, SpeechIn, ClearActive
  <1>7. NoSpeechLost'
    BY <1>3, <1>4 DEF NoSpeechLost
  <1> QED
    BY <1>4, <1>5, <1>6, <1>7 DEF IInv

\* The empty sequence has every type.
LEMMA EmptySeq == << >> \in Seq(BOOLEAN) /\ << >> \in Seq(ChunkRecord)
  OBVIOUS

\* Nothing is left of a session after reset().
LEMMA FreshIInv ==
    ASSUME config \in Configs, pushed = << >>, chunks = << >>, finished = FALSE, buffer = {},
           preRoll = {}, hasSpeech = FALSE, speechAfterOverlap = FALSE, trailingSilence = 0,
           prefixOverlap = 0
    PROVE  IInv
  <1>1. TypeOK
    BY EmptySeq DEF TypeOK, ChunkRecord
  <1>2. AllSpeech = {} /\ ChunksValid
    BY DEF AllSpeech, ChunksValid
  <1> QED
    BY <1>1, <1>2 DEF IInv, Newest, OverlapHeard, FlagsMatchBuffer, NoSpeechLost, SpeechIn

\* The same after any history.
LEMMA ResetStep == ASSUME IInv, Reset PROVE IInv'
  <1>1. /\ config' \in Configs /\ pushed' = << >> /\ chunks' = << >> /\ finished' = FALSE
        /\ buffer' = {} /\ preRoll' = {} /\ hasSpeech' = FALSE /\ speechAfterOverlap' = FALSE
        /\ trailingSilence' = 0 /\ prefixOverlap' = 0
    BY DEF Reset, ClearActive, IInv, TypeOK
  <1>2. TypeOK'
    BY <1>1, EmptySeq DEF TypeOK, ChunkRecord
  <1>3. AllSpeech' = {} /\ ChunksValid'
    BY <1>1 DEF AllSpeech, ChunksValid
  <1> QED
    BY <1>1, <1>2, <1>3 DEF IInv, Newest, OverlapHeard, FlagsMatchBuffer, NoSpeechLost, SpeechIn

\* The inductive invariant.
THEOREM SegmenterInvariance == Spec => []IInv
  <1>1. Init => IInv
    BY FreshIInv DEF Init
  <1>2. IInv /\ [Next]_vars => IInv'
    <2> SUFFICES ASSUME IInv, [Next]_vars PROVE IInv'
      OBVIOUS
    <2>1. ASSUME NEW isSpeech \in BOOLEAN, Push(isSpeech) PROVE IInv'
      BY <2>1, PushStep
    <2>2. CASE Finish
      BY <2>2, FinishStep
    <2>3. CASE Reset
      BY <2>3, ResetStep
    <2>4. CASE UNCHANGED vars
      BY <2>4 DEF vars, IInv, TypeOK, Newest, OverlapHeard, FlagsMatchBuffer, SilenceAtEnd, Duration,
                  NoSpeechLost, ChunksValid, AllSpeech, Heard, Frames, Ms
    <2> QED
      BY <2>1, <2>2, <2>3, <2>4 DEF Next
  <1> QED
    BY <1>1, <1>2, PTL DEF Spec

\* Every variable of a segmenter has its type, and every chunk is a record of numbers.
THEOREM SegmenterTypeCorrect == Spec => []TypeOK
  <1>1. IInv => TypeOK
    BY DEF IInv
  <1> QED
    BY <1>1, SegmenterInvariance, PTL

\* No word is dropped, for any thresholds, however long the session.
THEOREM SpeechIsKept == Spec => []NoSpeechLost
  <1>1. IInv => NoSpeechLost
    BY DEF IInv
  <1> QED
    BY <1>1, SegmenterInvariance, PTL

\* The flags and the running silence describe the buffer: _trim_trailing always
\* finds the speech frame that it looks for.
THEOREM FlagsDescribeBuffer == Spec => []FlagsMatchBuffer
  <1>1. IInv => FlagsMatchBuffer
    BY DEF IInv
  <1> QED
    BY <1>1, SegmenterInvariance, PTL

\* The AudioChunk constructor never raises.
THEOREM ChunksAreAccepted == Spec => []ChunksValid
  <1>1. IInv => ChunksValid
    BY DEF IInv
  <1> QED
    BY <1>1, SegmenterInvariance, PTL

-----------------------------------------------------------------------------
(* Overlaps are declared. *)

\* After a forced cut the buffer starts inside the last chunk, which reaches as far
\* as anything that was heard, and prefixOverlap says how deep.  Otherwise what is
\* held lies behind everything heard.
Line ==
    /\ \A h \in Heard : h <= Len(pushed)
    /\ prefixOverlap = 0 => \A h \in Heard, i \in buffer \cup preRoll : h < i
    /\ prefixOverlap > 0 =>
         /\ buffer # {} /\ Len(chunks) > 0
         /\ LET before == chunks[Len(chunks)]
            IN  /\ before.reason = "forced_max"
                /\ before.first <= Min(buffer) /\ Min(buffer) <= before.last
                /\ prefixOverlap = (before.last - Min(buffer) + 1) * config.frameMs
                /\ \A h \in Heard : h <= before.last

\* What a chunk shares with those heard before it.
Shared(chunk) == {i \in Frames(chunk) : i \in Heard}

Declared(chunk) ==
    /\ chunk.overlapMs = Max({0, Min({Cardinality(Shared(chunk)) * config.frameMs, Ms(chunk) - 1})})
    /\ Shared(chunk) # {} => chunks[Len(chunks)].reason = "forced_max"

\* How many numbers an interval has.
LEMMA Length ==
    ASSUME NEW a \in Nat, NEW b \in Nat, a <= b
    PROVE  Cardinality(a .. b) = b - a + 1
  BY FS_Interval

\* What is at least d does not matter to the smaller of it and d - 1.
LEMMA MinBelow ==
    ASSUME NEW d \in Nat, NEW p \in Nat, d <= p
    PROVE  Min({d, d - 1}) = Min({p, d - 1})
  <1>1. d \in Int /\ p \in Int /\ d - 1 \in Int /\ ~(d <= d - 1) /\ ~(p <= d - 1)
    OBVIOUS
  <1>2. Min({d, d - 1}) = d - 1
    BY <1>1, OfTwo
  <1>3. Min({p, d - 1}) = d - 1
    BY <1>1, OfTwo
  <1> QED
    BY <1>2, <1>3

\* A chunk that starts where the buffer does declares what it shares.
LEMMA DeclaredWhenCut ==
    ASSUME TypeOK, Line, NEW chunk \in ChunkRecord, chunk.first <= chunk.last,
           prefixOverlap = 0 => \A h \in Heard : h < chunk.first,
           prefixOverlap > 0 => chunk.first = Min(buffer),
           chunk.overlapMs = Clamp(prefixOverlap, Ms(chunk))
    PROVE  Declared(chunk)
  <1> DEFINE lo == chunk.first
             hi == chunk.last
             f == config.frameMs
  <1>1. lo \in Nat /\ hi \in Nat /\ lo <= hi /\ f \in Nat \ {0} /\ prefixOverlap \in Nat
    BY FrameLength DEF ChunkRecord, TypeOK
  <1>2. Frames(chunk) = lo .. hi /\ Ms(chunk) = (hi - lo + 1) * f
    BY DEF Frames, Ms
  <1>3. CASE prefixOverlap = 0
    <2>1. Shared(chunk) = {}
      <3>1. ASSUME NEW h \in Heard, h \in lo .. hi PROVE FALSE
        BY <1>1, <1>3, <3>1
      <3> QED
        BY <1>2, <3>1 DEF Shared
    <2>2. Cardinality(Shared(chunk)) * f = 0
      BY <1>1, <2>1, FS_EmptySet
    <2> QED
      BY <1>3, <2>1, <2>2 DEF Declared, Clamp
  <1>4. CASE prefixOverlap > 0
    <2> DEFINE before == chunks[Len(chunks)]
               end == before.last
               m == IF hi <= end THEN hi ELSE end
    <2>1. /\ before.reason = "forced_max" /\ before.first <= lo /\ lo <= end
          /\ prefixOverlap = (end - lo + 1) * f /\ \A h \in Heard : h <= end
          /\ Len(chunks) \in Nat /\ Len(chunks) > 0
      <3>1. Len(chunks) \in Nat
        BY DEF TypeOK
      <3>2. chunk.first = Min(buffer) /\ prefixOverlap # 0
        BY <1>4
      <3> QED
        BY <1>4, <3>1, <3>2 DEF Line
    <2>2. before \in ChunkRecord /\ end \in Nat /\ before.first \in Nat
      <3>1. before \in ChunkRecord
        <4>1. chunks \in Seq(ChunkRecord)
          BY DEF TypeOK, ChunkRecord
        <4>2. Len(chunks) \in 1 .. Len(chunks)
          BY <2>1
        <4> QED
          BY <4>1, <4>2
      <3> QED
        BY <3>1 DEF ChunkRecord
    <2>3. before.first .. end \subseteq Heard
      BY <2>1 DEF Heard, Frames
    <2> HIDE DEF before, end
    <2>4. m \in Nat /\ lo <= m
      BY <1>1, <2>1, <2>2
    <2>5. Shared(chunk) = lo .. m
      <3>1. ASSUME NEW i \in lo .. hi, i \in Heard PROVE i \in lo .. m
        BY <1>1, <2>1, <2>2, <3>1
      <3>2. ASSUME NEW i \in lo .. m PROVE i \in lo .. hi /\ i \in before.first .. end
        <4>1. m \in Nat /\ m <= hi /\ m <= end
          BY <1>1, <2>2
        <4> HIDE DEF lo, hi, m
        <4>2. i \in Nat /\ lo <= i /\ i <= m
          BY <1>1, <3>2, <4>1
        <4> QED
          BY <1>1, <2>1, <2>2, <4>1, <4>2
      <3> QED
        BY <1>2, <2>3, <3>1, <3>2 DEF Shared
    <2>6. Cardinality(Shared(chunk)) = m - lo + 1
      <3> HIDE DEF lo, m
      <3> QED
        BY <1>1, <2>4, <2>5, Length
    <2>7. Max({0, Min({Cardinality(Shared(chunk)) * f, Ms(chunk) - 1})}) = Clamp(prefixOverlap, Ms(chunk))
      <3>1. CASE end <= hi
        <4>1. m = end
          BY <1>1, <2>2, <3>1
        <4> QED
          BY <2>1, <2>6, <4>1 DEF Clamp
      <3>2. CASE ~(end <= hi)
        <4>1. m = hi
          BY <1>1, <2>2, <3>2
        <4> DEFINE d == Ms(chunk)
        <4>2. hi - lo + 1 \in Nat /\ end - lo + 1 \in Nat /\ hi - lo + 1 <= end - lo + 1
          <5>1. end \in Nat /\ lo <= end
            BY <2>1, <2>2
          <5> HIDE DEF lo, hi
          <5> QED
            BY <1>1, <3>2, <5>1
        <4>3. d \in Nat /\ d <= prefixOverlap /\ Cardinality(Shared(chunk)) * f = d
          <5> DEFINE q == hi - lo + 1
                     r == end - lo + 1
          <5>1. q \in Nat /\ r \in Nat /\ q <= r
            BY <4>2
          <5>2. d = q * f /\ prefixOverlap = r * f /\ Cardinality(Shared(chunk)) = q
            BY <1>2, <2>1, <2>6, <4>1
          <5> HIDE DEF d, q, r
          <5>3. q * f \in Nat /\ q * f <= r * f
            BY <1>1, <5>1, Times
          <5> QED
            BY <5>2, <5>3
        <4> HIDE DEF d
        <4>4. Min({d, d - 1}) = Min({prefixOverlap, d - 1})
          BY <1>1, <4>3, MinBelow
        <4> QED
          BY <4>3, <4>4 DEF Clamp, d
      <3> QED
        BY <3>1, <3>2
    <2> QED
      BY <2>1, <2>7 DEF Declared, before
  <1> QED
    BY <1>1, <1>3, <1>4

\* A declared chunk more.
LEMMA EmitDeclared ==
    ASSUME TypeOK, ChunksValid, OverlapDeclared, NEW chunk \in ChunkRecord, Valid(chunk),
           Declared(chunk), Emit(chunk), config' = config
    PROVE  OverlapDeclared'
  <1> DEFINE SharedIn(k) == {i \in Frames(chunks[k]) : \E j \in 1 .. k - 1 : i \in Frames(chunks[j])}
             Fine(k) == /\ chunks[k].overlapMs =
                             Max({0, Min({Cardinality(SharedIn(k)) * config.frameMs, Ms(chunks[k]) - 1})})
                        /\ SharedIn(k) # {} => chunks[k - 1].reason = "forced_max"
  <1>1. /\ Len(chunks') = Len(chunks) + 1 /\ chunks'[Len(chunks) + 1] = chunk /\ Len(chunks) \in Nat
        /\ \A k \in 1 .. Len(chunks) : chunks'[k] = chunks[k]
    <2>1. Len(chunks) \in Nat
      BY DEF TypeOK
    <2>2. /\ Len(chunks') = Len(chunks) + 1 /\ chunks'[Len(chunks')] = chunk
          /\ \A k \in 1 .. Len(chunks) : chunks'[k] = chunks[k]
      BY EmitFacts
    <2> QED
      BY <2>1, <2>2
  <1>2. ASSUME NEW k \in 1 .. Len(chunks) PROVE Fine(k)'
    <2>1. Fine(k)
      BY DEF OverlapDeclared
    <2>2. \A j \in 1 .. k : chunks'[j] = chunks[j]
      BY <1>1, <1>2
    <2>3. \A j \in 1 .. k - 1 : j \in 1 .. k
      BY <1>1, <1>2
    <2>4. k \in 1 .. k /\ (k - 1 \in 1 .. k \/ SharedIn(k) = {})
      <3>1. CASE k = 1
        BY <1>1, <3>1
      <3>2. CASE k # 1
        BY <1>1, <3>2
      <3> QED
        BY <3>1, <3>2
    <2>5. SharedIn(k)' = SharedIn(k)
      BY <2>2, <2>3, <2>4 DEF Frames
    <2> QED
      BY <2>1, <2>2, <2>4, <2>5 DEF Ms
  <1>3. ASSUME NEW k \in {Len(chunks) + 1} PROVE Fine(k)'
    <2>1. k - 1 = Len(chunks) /\ k \in Nat /\ chunks'[k] = chunk
      BY <1>1
    <2>2. SharedIn(k)' = Shared(chunk)
      <3>1. \A i : (\E j \in 1 .. k - 1 : i \in Frames(chunks[j])') <=> i \in Heard
        BY <1>1, <2>1 DEF Heard, Frames
      <3> QED
        BY <2>1, <3>1 DEF Shared, Frames
    <2>3. Shared(chunk) # {} => k - 1 \in 1 .. Len(chunks)
      BY <1>1, <2>1 DEF Shared, Heard
    <2> QED
      BY <1>1, <2>1, <2>2, <2>3 DEF Declared, Ms
  <1>4. \A k \in 1 .. Len(chunks') : k \in 1 .. Len(chunks) \/ k \in {Len(chunks) + 1}
    BY <1>1
  <1> QED
    BY <1>2, <1>3, <1>4 DEF OverlapDeclared

\* The parts of a buffer that become chunks start where the buffer does.
LEMMA CutFacts ==
    ASSUME TypeOK, Line, NEW verdicts, NEW n \in Nat, NEW frames \in SUBSET (0 .. n), frames # {},
           NEW part \in SUBSET frames, part # {}, Min(part) = Min(frames),
           NEW reason \in {"silence", "forced_max", "stop"},
           prefixOverlap = 0 => \A h \in Heard, i \in frames : h < i,
           prefixOverlap > 0 => Min(frames) = Min(buffer)
    PROVE  /\ ChunkOf(part, reason, verdicts) \in ChunkRecord
           /\ Valid(ChunkOf(part, reason, verdicts))
           /\ Declared(ChunkOf(part, reason, verdicts))
           /\ \A i \in Frames(ChunkOf(part, reason, verdicts)) : i <= n
  <1> DEFINE chunk == ChunkOf(part, reason, verdicts)
  <1>1. part \in SUBSET (0 .. n)
    OBVIOUS
  <1>2. chunk \in ChunkRecord /\ Valid(chunk)
    BY <1>1, ChunkFacts
  <1>3. /\ chunk.first = Min(part) /\ chunk.last = Max(part)
        /\ chunk.overlapMs = Clamp(prefixOverlap, Duration(part))
    BY DEF ChunkOf
  <1>4. Duration(part) = Ms(chunk)
    BY <1>1, <1>3, DurationFacts DEF Ms
  <1>5. /\ Min(part) \in part /\ Min(part) <= Max(part) /\ Max(part) <= n
        /\ Min(part) \in Nat /\ Max(part) \in Nat
    BY <1>1, MinMax
  <1>6. Min(part) \in frames
    BY <1>5
  <1> HIDE DEF chunk
  <1>7. chunk.first <= chunk.last
    BY <1>3, <1>5
  <1>8. prefixOverlap = 0 => \A h \in Heard : h < chunk.first
    BY <1>3, <1>6
  <1>9. prefixOverlap > 0 => chunk.first = Min(buffer)
    BY <1>3
  <1>10. chunk.overlapMs = Clamp(prefixOverlap, Ms(chunk))
    BY <1>3, <1>4
  <1>11. Declared(chunk)
    BY <1>2, <1>7, <1>8, <1>9, <1>10, DeclaredWhenCut
  <1>12. \A i \in Frames(chunk) : i <= n
    BY <1>3, <1>5 DEF Frames
  <1> QED
    BY <1>2, <1>11, <1>12 DEF chunk

\* A trim takes nothing from the front.
LEMMA TrimStart ==
    ASSUME NEW verdicts, NEW n \in Nat, NEW frames \in SUBSET (0 .. n), SpeechIn(frames, verdicts) # {}
    PROVE  /\ Trimmed(frames, verdicts) \in SUBSET frames
           /\ Trimmed(frames, verdicts) # {}
           /\ Min(Trimmed(frames, verdicts)) = Min(frames)
  <1> DEFINE spoken == SpeechIn(frames, verdicts)
             rest == Trimmed(frames, verdicts)
             a == Min(frames)
             b == Min(rest)
  <1>1. spoken \subseteq frames /\ frames # {}
    BY DEF SpeechIn
  <1>2. rest \in SUBSET frames /\ spoken \subseteq rest /\ rest # {}
    BY <1>1, PartsFacts
  <1>3. a \in frames /\ a \in Nat /\ \A y \in frames : a <= y
    BY <1>1, MinMax
  <1>4. a \in rest
    <2>1. spoken \in SUBSET (0 .. n) /\ spoken # {}
      BY <1>1
    <2>2. Max(spoken) \in spoken
      <3> HIDE DEF spoken
      <3> QED
        BY <2>1, MinMax
    <2>3. a <= Max(spoken)
      BY <1>1, <1>3, <2>2
    <2> QED
      BY <1>3, <2>3 DEF Trimmed
  <1>5. b \in rest /\ b \in Nat /\ \A y \in rest : b <= y
    <2>1. rest \in SUBSET (0 .. n)
      BY <1>2
    <2> HIDE DEF rest
    <2> QED
      BY <1>2, <2>1, MinMax
  <1> HIDE DEF a, b, rest
  <1>6. a = b
    BY <1>2, <1>3, <1>4, <1>5
  <1> QED
    BY <1>2, <1>6 DEF a, b, rest

\* Without a new chunk nothing is heard or declared.
LEMMA SameChunks ==
    ASSUME OverlapDeclared, chunks' = chunks, config' = config
    PROVE  Heard' = Heard /\ OverlapDeclared'
  <1>1. Heard' = Heard
    BY DEF Heard, Frames
  <1>2. OverlapDeclared'
    BY ZenonT(30) DEF OverlapDeclared, Frames, Ms
  <1> QED
    BY <1>1, <1>2

\* push() keeps the chunks in line.
LEMMA DecideLine ==
    ASSUME IInv, Line, OverlapDeclared, NEW frames, NEW said \in BOOLEAN, NEW speech \in BOOLEAN,
           NEW after, NEW silence,
           frames \in SUBSET (1 .. Len(pushed) + 1), Len(pushed) + 1 \in frames,
           speech <=> SpeechIn(frames, Append(pushed, said)) # {},
           prefixOverlap = 0 => \A h \in Heard, i \in frames : h < i,
           prefixOverlap > 0 => Min(frames) = Min(buffer),
           Decide(frames, Append(pushed, said), speech, after, silence),
           pushed' = Append(pushed, said), config' = config
    PROVE  Line' /\ OverlapDeclared'
  <1> DEFINE n == Len(pushed) + 1
             verdicts == Append(pushed, said)
             f == config.frameMs
  <1>1. TypeOK /\ ChunksValid
    BY DEF IInv
  <1>2. n \in Nat /\ Len(pushed) \in Nat /\ pushed' = verdicts /\ Len(pushed') = n
    BY <1>1, PushedFacts
  <1>3. frames \in SUBSET (0 .. n) /\ frames # {} /\ n \in frames /\ Max(frames) = n
    <2>1. frames \in SUBSET (0 .. n) /\ n \in frames
      <3> HIDE DEF n
      <3>1. frames \in SUBSET (1 .. n) /\ n \in frames
        BY DEF n
      <3> QED
        BY <1>2, <3>1
    <2> QED
      BY <1>2, <2>1, MaxIs
  <1>4. \A h \in Heard : h <= n
    <2>1. Heard \subseteq Int
      BY <1>1 DEF Heard, Frames
    <2> QED
      BY <1>2, <2>1 DEF Line
  <1>5. CASE /\ Emit(ChunkOf(frames, "forced_max", verdicts))
             /\ RetainForcedOverlap(frames, verdicts)
             /\ preRoll' = {}
    <2> DEFINE chunk == ChunkOf(frames, "forced_max", verdicts)
               kept == Retained(frames)
               a == Min(frames)
               b == Min(kept)
    <2>1. /\ chunk \in ChunkRecord /\ Valid(chunk) /\ Declared(chunk)
          /\ \A i \in Frames(chunk) : i <= n
      BY <1>1, <1>2, <1>3, CutFacts
    <2>2. chunk.first = a /\ chunk.last = n /\ chunk.reason = "forced_max"
      BY <1>3 DEF ChunkOf
    <2>3. /\ kept \subseteq frames /\ n \in kept /\ kept \in SUBSET (0 .. n) /\ kept # {}
      <3> HIDE DEF n
      <3>1. kept \subseteq frames /\ Max(frames) \in kept
        BY <1>2, <1>3, PartsFacts
      <3> HIDE DEF kept
      <3> QED
        BY <1>3, <3>1
    <2>4. a <= b /\ b <= n /\ b \in Nat
      <3>1. b \in kept /\ b <= n /\ b \in Nat
        BY <1>2, <2>3, MinMax
      <3> QED
        BY <1>2, <1>3, <2>3, <3>1, MinMax
    <2>5. /\ Duration(kept) = (n - b + 1) * f
          /\ Duration(kept) \in Nat \ {0}
      <3>1. Max(kept) = n
        BY <1>2, <2>3, MaxIs
      <3> QED
        BY <1>1, <1>2, <2>3, <3>1, DurationFacts
    <2>6. buffer' = kept /\ prefixOverlap' = Duration(kept)
      BY <1>5 DEF RetainForcedOverlap
    <2> HIDE DEF chunk, kept
    <2>7. /\ OverlapDeclared' /\ Heard' = Heard \cup Frames(chunk)
          /\ Len(chunks') = Len(chunks) + 1 /\ chunks'[Len(chunks')] = chunk
      <3>1. Emit(chunk)
        BY <1>5 DEF chunk
      <3> QED
        BY <1>1, <2>1, <3>1, EmitFacts, EmitDeclared
    <2>8. \A h \in Heard' : h <= n
      BY <1>4, <2>1, <2>7
    <2>9. Len(chunks') > 0
      BY <1>1, <2>7 DEF TypeOK
    <2>10. prefixOverlap' > 0 /\ prefixOverlap' # 0 /\ prefixOverlap' = (n - b + 1) * f
      BY <2>5, <2>6
    <2>11. Line'
      BY <1>2, <2>2, <2>3, <2>4, <2>6, <2>7, <2>8, <2>9, <2>10 DEF Line
    <2> QED
      BY <2>7, <2>11
  <1>6. CASE /\ speech
             /\ Emit(ChunkOf(Trimmed(frames, verdicts), "silence", verdicts))
             /\ ClearActive
    <2> DEFINE chunk == ChunkOf(Trimmed(frames, verdicts), "silence", verdicts)
    <2>1. /\ Trimmed(frames, verdicts) \in SUBSET frames /\ Trimmed(frames, verdicts) # {}
          /\ Min(Trimmed(frames, verdicts)) = Min(frames)
      BY <1>2, <1>3, <1>6, TrimStart
    <2>2. /\ chunk \in ChunkRecord /\ Valid(chunk) /\ Declared(chunk)
          /\ \A i \in Frames(chunk) : i <= n
      BY <1>1, <1>2, <1>3, <2>1, CutFacts
    <2> HIDE DEF chunk
    <2>3. OverlapDeclared' /\ Heard' = Heard \cup Frames(chunk)
      <3>1. Emit(chunk)
        BY <1>6 DEF chunk
      <3> QED
        BY <1>1, <2>2, <3>1, EmitFacts, EmitDeclared
    <2>4. \A h \in Heard' : h <= n
      BY <1>4, <2>2, <2>3
    <2>5. Line'
      BY <1>2, <1>6, <2>4 DEF Line, ClearActive
    <2> QED
      BY <2>3, <2>5
  <1>7. CASE buffer' = frames /\ preRoll' = {} /\ prefixOverlap' = prefixOverlap /\ chunks' = chunks
    <2>1. Heard' = Heard /\ OverlapDeclared'
      BY <1>7, SameChunks
    <2>2. Line'
      BY <1>2, <1>3, <1>4, <1>7, <2>1 DEF Line
    <2> QED
      BY <2>1, <2>2
  <1> QED
    BY <1>5, <1>6, <1>7 DEF Decide

\* The same for a whole push().
LEMMA PushLine ==
    ASSUME IInv, Line, OverlapDeclared, NEW isSpeech \in BOOLEAN, Push(isSpeech)
    PROVE  Line' /\ OverlapDeclared'
  <1> DEFINE n == Len(pushed) + 1
             verdicts == Append(pushed, isSpeech)
  <1>1. TypeOK /\ FlagsMatchBuffer /\ Newest
    BY DEF IInv
  <1>2. /\ n \in Nat /\ Len(pushed) \in Nat /\ Len(verdicts) = n
        /\ 1 .. Len(pushed) \subseteq 1 .. n /\ n \in 1 .. n
    <2>1. Len(pushed) \in Nat /\ Len(verdicts) = n
      BY <1>1, PushedFacts
    <2> QED
      BY <2>1
  <1>3. pushed' = verdicts /\ config' = config
    BY DEF Push
  <1>4. \A h \in Heard : h < n /\ h <= n
    <2>1. Heard \subseteq Int
      BY DEF Heard, Frames
    <2> QED
      BY <1>2, <2>1 DEF Line
  <1>5. CASE /\ preRoll' = PreRollWith(n)
             /\ UNCHANGED <<buffer, hasSpeech, speechAfterOverlap, trailingSilence, prefixOverlap, chunks>>
    <2>1. Heard' = Heard /\ OverlapDeclared'
      BY <1>3, <1>5, SameChunks
    <2>2. preRoll' \subseteq preRoll \cup {n}
      BY <1>5 DEF PreRollWith
    <2>3. Line'
      BY <1>2, <1>3, <1>4, <1>5, <2>1, <2>2 DEF Line
    <2> QED
      BY <2>1, <2>3
  <1>6. CASE /\ buffer = {} /\ isSpeech
             /\ Decide(preRoll \cup {n}, verdicts, TRUE, TRUE, SilenceAtEnd(preRoll \cup {n}, verdicts))
    <2> DEFINE frames == preRoll \cup {n}
               silence == SilenceAtEnd(frames, verdicts)
    <2>1. frames \in SUBSET (1 .. n) /\ n \in frames
      <3>1. preRoll \subseteq 1 .. Len(pushed)
        BY <1>1 DEF TypeOK
      <3> QED
        BY <1>2, <3>1
    <2>2. SpeechIn(frames, verdicts) # {}
      BY <1>1, <1>6, <2>1, PushedFacts DEF SpeechIn
    <2>3. prefixOverlap = 0 /\ ~(prefixOverlap > 0)
      BY <1>1, <1>6 DEF Line, TypeOK
    <2>4. \A h \in Heard, i \in frames : h < i
      BY <1>4, <2>3 DEF Line
    <2>5. Decide(frames, verdicts, TRUE, TRUE, silence)
      BY <1>6
    <2> HIDE DEF frames, silence
    <2> QED
      BY <1>3, <2>1, <2>2, <2>3, <2>4, <2>5, DecideLine
  <1>7. CASE /\ buffer # {}
             /\ Decide(buffer \cup {n}, verdicts, hasSpeech \/ isSpeech, speechAfterOverlap \/ isSpeech,
                       IF isSpeech THEN 0 ELSE trailingSilence + config.frameMs)
    <2> DEFINE frames == buffer \cup {n}
               speech == hasSpeech \/ isSpeech
               after == speechAfterOverlap \/ isSpeech
               silence == IF isSpeech THEN 0 ELSE trailingSilence + config.frameMs
    <2>1. buffer \in SUBSET (1 .. Len(pushed)) /\ speech \in BOOLEAN
      BY <1>1 DEF TypeOK
    <2>2. frames \in SUBSET (1 .. n) /\ n \in frames
      BY <1>2, <2>1
    <2>3. SpeechIn(frames, verdicts) = SpeechIn(buffer, pushed) \cup (IF isSpeech THEN {n} ELSE {})
      BY <1>1, <2>1, SpeechPushed
    <2>4. speech <=> SpeechIn(frames, verdicts) # {}
      BY <1>1, <2>3 DEF FlagsMatchBuffer
    <2>5. prefixOverlap = 0 => \A h \in Heard, i \in frames : h < i
      BY <1>4 DEF Line
    <2>6. Min(frames) = Min(buffer)
      <3>1. 1 .. Len(pushed) \subseteq 0 .. Len(pushed)
        BY <1>2
      <3>2. buffer \in SUBSET (0 .. Len(pushed)) /\ buffer # {}
        BY <1>7, <2>1, <3>1
      <3> QED
        BY <1>2, <3>2, MinStays
    <2>7. Decide(frames, verdicts, speech, after, silence)
      BY <1>7
    <2> HIDE DEF frames, speech, after, silence
    <2> QED
      BY <1>3, <2>1, <2>2, <2>4, <2>5, <2>6, <2>7, DecideLine
  <1> QED
    BY <1>5, <1>6, <1>7 DEF Push

\* finish() drops what lies in the last chunk, or cuts where the buffer starts.
LEMMA FinishLine == ASSUME IInv, Line, OverlapDeclared, Finish PROVE Line' /\ OverlapDeclared'
  <1> DEFINE n == Len(pushed)
             chunk == ChunkOf(Trimmed(buffer, pushed), "stop", pushed)
  <1>1. TypeOK /\ ChunksValid /\ FlagsMatchBuffer
    BY DEF IInv
  <1>2. config' = config /\ pushed' = pushed /\ ClearActive
    BY DEF Finish
  <1>3. (\A h \in Heard' : h <= n) /\ OverlapDeclared'
    <2>1. CASE NothingNew
      <3>1. chunks' = chunks
        BY <2>1 DEF Finish
      <3>2. Heard' = Heard /\ OverlapDeclared'
        BY <1>2, <3>1, SameChunks
      <3> QED
        BY <3>2 DEF Line
    <2>2. CASE ~NothingNew
      <3>1. Emit(chunk)
        BY <2>2 DEF Finish
      <3>2. n \in Nat /\ buffer \in SUBSET (0 .. n) /\ buffer # {} /\ SpeechIn(buffer, pushed) # {}
        <4>1. n \in Nat /\ buffer \in SUBSET (1 .. n)
          BY <1>1 DEF TypeOK
        <4>2. buffer # {} /\ SpeechIn(buffer, pushed) # {}
          BY <1>1, <2>2 DEF NothingNew, FlagsMatchBuffer
        <4> HIDE DEF n
        <4>3. 1 .. n \subseteq 0 .. n
          BY <4>1
        <4> QED
          BY <4>1, <4>2, <4>3
      <3>3. /\ Trimmed(buffer, pushed) \in SUBSET buffer /\ Trimmed(buffer, pushed) # {}
            /\ Min(Trimmed(buffer, pushed)) = Min(buffer)
        BY <3>2, TrimStart
      <3>4. prefixOverlap = 0 => \A h \in Heard, i \in buffer : h < i
        BY DEF Line
      <3>5. /\ chunk \in ChunkRecord /\ Valid(chunk) /\ Declared(chunk)
            /\ \A i \in Frames(chunk) : i <= n
        BY <1>1, <3>2, <3>3, <3>4, CutFacts
      <3> HIDE DEF chunk
      <3>6. OverlapDeclared' /\ Heard' = Heard \cup Frames(chunk)
        BY <1>1, <1>2, <3>1, <3>5, EmitFacts, EmitDeclared
      <3> QED
        BY <3>5, <3>6 DEF Line
    <2> QED
      BY <2>1, <2>2
  <1> QED
    BY <1>2, <1>3 DEF Line, ClearActive

-----------------------------------------------------------------------------
(* Leading silence is trimmed. *)

Allowed == Max({config.paddingMs, config.frameMs})

Near(i, lo) == (i - lo) * config.frameMs <= Allowed

\* A word stands near the start of a chunk.
LedChunk(chunk, verdicts) ==
    \E i \in Frames(chunk) : i \in 1 .. Len(verdicts) /\ verdicts[i] /\ Near(i, chunk.first)

Led ==
    \A k \in 1 .. Len(chunks) :
        (k = 1 \/ chunks[k - 1].reason # "forced_max") => LedChunk(chunks[k], pushed)

\* A buffer that does not continue a forced cut begins near a word, and the
\* pre-roll is padding.
Lead ==
    /\ Led
    /\ buffer # {} /\ prefixOverlap = 0 => \E i \in buffer : pushed[i] /\ Near(i, Min(buffer))
    /\ \A i \in preRoll : i = Len(pushed) \/ (Len(pushed) - i + 1) * config.frameMs <= config.paddingMs

\* Allowed is at least the padding and at least a frame.
LEMMA AllowedFacts ==
    ASSUME TypeOK
    PROVE  /\ config.paddingMs \in Nat /\ config.frameMs \in Nat /\ Allowed \in Nat
           /\ config.paddingMs <= Allowed /\ config.frameMs <= Allowed
  <1> DEFINE p == config.paddingMs
             f == config.frameMs
  <1>1. p \in Nat /\ f \in Nat
    BY ConfigAssumption DEF TypeOK
  <1>2. Allowed = Max({p, f})
    BY DEF Allowed
  <1> HIDE DEF p, f
  <1>3. Max({p, f}) = IF p >= f THEN p ELSE f
    BY <1>1, OfTwo
  <1>4. Allowed \in Nat /\ p <= Allowed /\ f <= Allowed
    BY <1>1, <1>2, <1>3
  <1> QED
    BY <1>1, <1>4 DEF p, f

\* A chunk with a word near its start more.
LEMMA EmitLed ==
    ASSUME TypeOK, ChunksValid, Line, Led, NEW chunk \in ChunkRecord, Valid(chunk), Emit(chunk),
           config' = config, Len(pushed) <= Len(pushed'), Len(pushed') \in Nat,
           \A i \in 1 .. Len(pushed) : pushed'[i] = pushed[i],
           prefixOverlap = 0 => LedChunk(chunk, pushed')
    PROVE  Led'
  <1>1. Len(chunks) \in Nat /\ prefixOverlap \in Nat /\ Len(pushed) \in Nat
    BY DEF TypeOK
  <1>2. /\ Len(chunks') = Len(chunks) + 1 /\ chunks'[Len(chunks) + 1] = chunk
        /\ \A k \in 1 .. Len(chunks) : chunks'[k] = chunks[k]
    <2>1. /\ Len(chunks') = Len(chunks) + 1 /\ chunks'[Len(chunks')] = chunk
          /\ \A k \in 1 .. Len(chunks) : chunks'[k] = chunks[k]
      BY EmitFacts
    <2> QED
      BY <2>1
  <1>3. 1 .. Len(pushed) \subseteq 1 .. Len(pushed')
    BY <1>1
  <1>4. ASSUME NEW k \in 1 .. Len(chunks), k = 1 \/ chunks'[k - 1].reason # "forced_max"
        PROVE  LedChunk(chunks[k], pushed)'
    <2>1. k = 1 \/ chunks[k - 1].reason # "forced_max"
      <3>1. k = 1 \/ k - 1 \in 1 .. Len(chunks)
        BY <1>1, <1>4
      <3> QED
        BY <1>2, <1>4, <3>1
    <2>2. LedChunk(chunks[k], pushed)
      BY <2>1 DEF Led
    <2>3. chunks'[k] = chunks[k]
      BY <1>2, <1>4
    <2> QED
      BY <1>3, <2>2, <2>3 DEF LedChunk, Near, Allowed, Frames
  <1>5. ASSUME NEW k \in {Len(chunks) + 1}, k = 1 \/ chunks'[k - 1].reason # "forced_max"
        PROVE  LedChunk(chunks[k], pushed)'
    <2>1. k - 1 = Len(chunks) /\ (Len(chunks) > 0 => k # 1 /\ k - 1 \in 1 .. Len(chunks))
      BY <1>1
    <2>2. prefixOverlap = 0
      <3>1. prefixOverlap > 0 => Len(chunks) > 0 /\ chunks[Len(chunks)].reason = "forced_max"
        BY DEF Line
      <3> QED
        BY <1>1, <1>2, <1>5, <2>1, <3>1
    <2>3. LedChunk(chunk, pushed') /\ chunks'[k] = chunk
      BY <1>2, <2>2
    <2> QED
      BY <2>3 DEF LedChunk, Near, Allowed, Frames
  <1>6. \A k \in 1 .. Len(chunks') : k \in 1 .. Len(chunks) \/ k \in {Len(chunks) + 1}
    BY <1>1, <1>2
  <1> QED
    BY <1>4, <1>5, <1>6 DEF Led

\* push() cuts chunks that begin near a word.
LEMMA DecideLead ==
    ASSUME IInv, Line, Led, NEW frames, NEW said \in BOOLEAN, NEW speech \in BOOLEAN,
           NEW after, NEW silence,
           frames \in SUBSET (1 .. Len(pushed) + 1), Len(pushed) + 1 \in frames,
           speech <=> SpeechIn(frames, Append(pushed, said)) # {},
           prefixOverlap = 0 => \E i \in frames : Append(pushed, said)[i] /\ Near(i, Min(frames)),
           Decide(frames, Append(pushed, said), speech, after, silence),
           pushed' = Append(pushed, said), config' = config
    PROVE  Lead'
  <1> DEFINE n == Len(pushed) + 1
             verdicts == Append(pushed, said)
  <1>1. TypeOK /\ ChunksValid
    BY DEF IInv
  <1>2. /\ n \in Nat /\ pushed' = verdicts /\ Len(pushed') = n /\ Len(pushed) <= Len(pushed')
        /\ \A i \in 1 .. Len(pushed) : pushed'[i] = pushed[i]
    <2>1. /\ Len(pushed) \in Nat /\ pushed' = verdicts /\ Len(pushed') = Len(pushed) + 1
          /\ \A i \in 1 .. Len(pushed) : pushed'[i] = pushed[i]
      BY <1>1, PushedFacts
    <2> QED
      BY <2>1
  <1>3. frames \in SUBSET (1 .. n) /\ frames \in SUBSET (0 .. n) /\ frames # {}
    <2>1. frames \in SUBSET (1 .. n) /\ n \in frames
      OBVIOUS
    <2> HIDE DEF n
    <2> QED
      BY <1>2, <2>1
  <1> HIDE DEF n, verdicts
  <1>4. speech <=> SpeechIn(frames, verdicts) # {}
    BY DEF verdicts
  <1>5. ASSUME NEW part \in SUBSET frames, part # {}, Min(part) = Min(frames),
               SpeechIn(frames, verdicts) \subseteq part,
               NEW reason \in {"silence", "forced_max", "stop"},
               Emit(ChunkOf(part, reason, verdicts))
        PROVE  Led'
    <2> DEFINE chunk == ChunkOf(part, reason, verdicts)
    <2>1. part \in SUBSET (0 .. n)
      BY <1>3
    <2>2. chunk \in ChunkRecord /\ part \subseteq Frames(chunk) /\ Valid(chunk) /\ chunk.first = Min(frames)
      BY <1>1, <1>2, <1>5, <2>1, ChunkFacts DEF ChunkOf
    <2>3. Emit(chunk)
      BY <1>5
    <2> HIDE DEF chunk
    <2>4. prefixOverlap = 0 => LedChunk(chunk, pushed')
      BY <1>2, <1>3, <1>5, <2>2 DEF LedChunk, SpeechIn, verdicts
    <2> QED
      BY <1>1, <1>2, <2>2, <2>3, <2>4, EmitLed
  <1>6. CASE /\ Emit(ChunkOf(frames, "forced_max", verdicts))
             /\ RetainForcedOverlap(frames, verdicts)
             /\ preRoll' = {}
    <2>1. Led'
      <3>1. SpeechIn(frames, verdicts) \subseteq frames
        BY DEF SpeechIn
      <3> QED
        BY <1>3, <1>5, <1>6, <3>1
    <2>2. prefixOverlap' # 0
      <3>1. Retained(frames) \in SUBSET (0 .. n) /\ Retained(frames) # {}
        BY <1>2, <1>3, PartsFacts
      <3> QED
        BY <1>1, <1>2, <1>6, <3>1, DurationFacts DEF RetainForcedOverlap
    <2> QED
      BY <1>6, <2>1, <2>2 DEF Lead
  <1>7. CASE /\ speech
             /\ Emit(ChunkOf(Trimmed(frames, verdicts), "silence", verdicts))
             /\ ClearActive
    <2>1. /\ Trimmed(frames, verdicts) \in SUBSET frames /\ Trimmed(frames, verdicts) # {}
          /\ Min(Trimmed(frames, verdicts)) = Min(frames)
          /\ SpeechIn(frames, verdicts) \subseteq Trimmed(frames, verdicts)
      BY <1>2, <1>3, <1>4, <1>7, TrimStart, PartsFacts
    <2>2. Led'
      BY <1>5, <1>7, <2>1
    <2> QED
      BY <1>7, <2>2 DEF Lead, ClearActive
  <1>8. CASE buffer' = frames /\ preRoll' = {} /\ prefixOverlap' = prefixOverlap /\ chunks' = chunks
    <2>1. Len(pushed) \in Nat /\ 1 .. Len(pushed) \subseteq 1 .. Len(pushed')
      BY <1>1, <1>2 DEF TypeOK
    <2>2. Led'
      BY <1>2, <1>8, <2>1 DEF Led, LedChunk, Near, Allowed, Frames
    <2> QED
      BY <1>2, <1>8, <2>2 DEF Lead, Near, Allowed, verdicts
  <1> QED
    BY <1>6, <1>7, <1>8 DEF Decide, verdicts

\* The first word after silence stands behind no more than the padding.
LEMMA NearFirstWord ==
    ASSUME TypeOK, Lead, NEW frames, frames = preRoll \cup {Len(pushed) + 1}
    PROVE  Near(Len(pushed) + 1, Min(frames))
  <1> DEFINE len == Len(pushed)
             a == Min(frames)
             f == config.frameMs
             p == config.paddingMs
  <1>1. len \in Nat /\ f \in Nat /\ p \in Nat /\ Allowed \in Nat /\ p <= Allowed /\ f <= Allowed
    BY AllowedFacts, PushedFacts
  <1>2. \A i \in preRoll : i = len \/ (len - i + 1) * f <= p
    BY DEF Lead
  <1>3. a \in preRoll \cup {len + 1} /\ a \in Nat
    <2>1. preRoll \subseteq 1 .. len
      BY DEF TypeOK
    <2> HIDE DEF len
    <2> DEFINE m == len + 1
    <2>2. m \in Nat /\ preRoll \cup {m} \in SUBSET (0 .. m) /\ preRoll \cup {m} # {}
      BY <1>1, <2>1
    <2>3. frames = preRoll \cup {m}
      BY DEF len
    <2> HIDE DEF m
    <2>4. frames \in SUBSET (0 .. m) /\ frames # {}
      BY <2>2, <2>3
    <2>5. Min(frames) \in frames /\ Min(frames) \in Nat
      BY <2>2, <2>4, MinMax
    <2> QED
      BY <2>3, <2>5 DEF m
  <1> HIDE DEF len, a, f, p
  <1>4. ((len + 1) - a) * f <= Allowed
    <2>1. CASE a = len + 1
      BY <1>1, <2>1
    <2>2. CASE a = len
      BY <1>1, <2>2
    <2>3. CASE a \in preRoll /\ a # len
      <3>1. (len - a + 1) * f <= p
        BY <1>2, <2>3
      <3>2. (len + 1) - a = len - a + 1 /\ len - a + 1 \in Int
        BY <1>1, <1>3
      <3>3. \A x \in Int : x <= p => x <= Allowed
        BY <1>1
      <3>4. (len - a + 1) * f \in Int
        BY <1>1, <3>2
      <3> QED
        BY <3>1, <3>2, <3>3, <3>4
    <2> QED
      BY <1>3, <2>1, <2>2, <2>3
  <1> QED
    BY <1>4 DEF Near, len, a, f

\* The same for a whole push().
LEMMA PushLead ==
    ASSUME IInv, Line, Lead, NEW isSpeech \in BOOLEAN, Push(isSpeech)
    PROVE  Lead'
  <1> DEFINE n == Len(pushed) + 1
             verdicts == Append(pushed, isSpeech)
  <1>1. TypeOK /\ FlagsMatchBuffer /\ Led
    BY DEF IInv, Lead
  <1>2. /\ n \in Nat /\ Len(pushed) \in Nat /\ Len(verdicts) = n
        /\ 1 .. Len(pushed) \subseteq 1 .. n /\ n \in 1 .. n
    <2>1. Len(pushed) \in Nat /\ Len(verdicts) = n
      BY <1>1, PushedFacts
    <2> QED
      BY <2>1
  <1>3. pushed' = verdicts /\ config' = config
    BY DEF Push
  <1>4. \A i \in 1 .. Len(pushed) : verdicts[i] = pushed[i]
    BY <1>1, PushedFacts
  <1>5. CASE /\ buffer = {} /\ preRoll' = PreRollWith(n)
             /\ UNCHANGED <<buffer, hasSpeech, speechAfterOverlap, trailingSilence, prefixOverlap, chunks>>
    <2>1. Led'
      BY <1>1, <1>2, <1>3, <1>4, <1>5 DEF Led, LedChunk, Near, Allowed, Frames
    <2>2. \A i \in preRoll' : i = n \/ (n - i + 1) * config.frameMs <= config.paddingMs
      BY <1>5 DEF PreRollWith
    <2> QED
      BY <1>2, <1>3, <1>5, <2>1, <2>2 DEF Lead
  <1>6. CASE /\ buffer = {} /\ isSpeech
             /\ Decide(preRoll \cup {n}, verdicts, TRUE, TRUE, SilenceAtEnd(preRoll \cup {n}, verdicts))
    <2> DEFINE frames == preRoll \cup {n}
               silence == SilenceAtEnd(frames, verdicts)
    <2>1. frames \in SUBSET (1 .. n) /\ n \in frames
      <3>1. preRoll \subseteq 1 .. Len(pushed)
        BY <1>1 DEF TypeOK
      <3> QED
        BY <1>2, <3>1
    <2>2. verdicts[n]
      BY <1>1, <1>6, PushedFacts
    <2>3. SpeechIn(frames, verdicts) # {}
      BY <2>1, <2>2 DEF SpeechIn
    <2>4. Near(n, Min(frames))
      BY <1>1, NearFirstWord
    <2>5. Decide(frames, verdicts, TRUE, TRUE, silence)
      BY <1>6
    <2> HIDE DEF frames, silence
    <2>6. prefixOverlap = 0 => \E i \in frames : verdicts[i] /\ Near(i, Min(frames))
      BY <2>1, <2>2, <2>4
    <2> QED
      BY <1>1, <1>3, <2>1, <2>3, <2>5, <2>6, DecideLead
  <1>7. CASE /\ buffer # {}
             /\ Decide(buffer \cup {n}, verdicts, hasSpeech \/ isSpeech, speechAfterOverlap \/ isSpeech,
                       IF isSpeech THEN 0 ELSE trailingSilence + config.frameMs)
    <2> DEFINE frames == buffer \cup {n}
               speech == hasSpeech \/ isSpeech
               after == speechAfterOverlap \/ isSpeech
               silence == IF isSpeech THEN 0 ELSE trailingSilence + config.frameMs
    <2>1. buffer \in SUBSET (1 .. Len(pushed)) /\ speech \in BOOLEAN
      BY <1>1 DEF TypeOK
    <2>2. frames \in SUBSET (1 .. n) /\ n \in frames
      BY <1>2, <2>1
    <2>3. SpeechIn(frames, verdicts) = SpeechIn(buffer, pushed) \cup (IF isSpeech THEN {n} ELSE {})
      BY <1>1, <2>1, SpeechPushed
    <2>4. speech <=> SpeechIn(frames, verdicts) # {}
      BY <1>1, <2>3 DEF FlagsMatchBuffer
    <2>5. Min(frames) = Min(buffer)
      <3>1. 1 .. Len(pushed) \subseteq 0 .. Len(pushed)
        BY <1>2
      <3>2. buffer \in SUBSET (0 .. Len(pushed)) /\ buffer # {}
        BY <1>7, <2>1, <3>1
      <3> QED
        BY <1>2, <3>2, MinStays
    <2>6. prefixOverlap = 0 => \E i \in frames : verdicts[i] /\ Near(i, Min(frames))
      BY <1>4, <1>7, <2>1, <2>5 DEF Lead
    <2>7. Decide(frames, verdicts, speech, after, silence)
      BY <1>7
    <2> HIDE DEF frames, speech, after, silence
    <2> QED
      BY <1>1, <1>3, <2>1, <2>2, <2>4, <2>6, <2>7, DecideLead
  <1> QED
    BY <1>5, <1>6, <1>7 DEF Push

\* The same for finish().
LEMMA FinishLead == ASSUME IInv, Line, Lead, Finish PROVE Lead'
  <1> DEFINE n == Len(pushed)
             chunk == ChunkOf(Trimmed(buffer, pushed), "stop", pushed)
  <1>1. TypeOK /\ ChunksValid /\ FlagsMatchBuffer /\ Led
    BY DEF IInv, Lead
  <1>2. config' = config /\ pushed' = pushed /\ ClearActive /\ n \in Nat
    BY <1>1 DEF Finish, TypeOK
  <1>3. Led'
    <2>1. CASE NothingNew
      <3>1. chunks' = chunks
        BY <2>1 DEF Finish
      <3> QED
        BY <1>1, <1>2, <3>1 DEF Led, LedChunk, Near, Allowed, Frames
    <2>2. CASE ~NothingNew
      <3>1. Emit(chunk)
        BY <2>2 DEF Finish
      <3>2. buffer \in SUBSET (1 .. n) /\ buffer \in SUBSET (0 .. n) /\ SpeechIn(buffer, pushed) # {} /\ buffer # {}
        <4>1. buffer \in SUBSET (1 .. n)
          BY <1>1 DEF TypeOK
        <4>2. SpeechIn(buffer, pushed) # {} /\ buffer # {}
          BY <1>1, <2>2 DEF NothingNew, FlagsMatchBuffer
        <4> HIDE DEF n
        <4>3. 1 .. n \subseteq 0 .. n
          BY <1>2
        <4> QED
          BY <4>1, <4>2, <4>3
      <3>3. /\ Trimmed(buffer, pushed) \in SUBSET buffer /\ Trimmed(buffer, pushed) # {}
            /\ Min(Trimmed(buffer, pushed)) = Min(buffer)
            /\ SpeechIn(buffer, pushed) \subseteq Trimmed(buffer, pushed)
        BY <1>2, <3>2, TrimStart, PartsFacts
      <3>4. Trimmed(buffer, pushed) \in SUBSET (0 .. n)
        BY <3>2, <3>3
      <3>5. /\ chunk \in ChunkRecord /\ Valid(chunk) /\ chunk.first = Min(buffer)
            /\ Trimmed(buffer, pushed) \subseteq Frames(chunk)
        BY <1>1, <1>2, <3>3, <3>4, ChunkFacts DEF ChunkOf
      <3> HIDE DEF chunk
      <3>6. prefixOverlap = 0 => LedChunk(chunk, pushed)
        <4>1. prefixOverlap = 0 => \E i \in buffer : pushed[i] /\ Near(i, Min(buffer))
          BY <3>2 DEF Lead
        <4> QED
          BY <3>2, <3>3, <3>5, <4>1 DEF LedChunk, SpeechIn
      <3> QED
        BY <1>1, <1>2, <3>1, <3>5, <3>6, EmitLed
    <2> QED
      BY <2>1, <2>2
  <1> QED
    BY <1>2, <1>3 DEF Lead, ClearActive

-----------------------------------------------------------------------------
(* Theorems about overlap and start. *)

IInvLine == Line /\ OverlapDeclared /\ Lead

\* The chunks stand in line, each next to a word.
THEOREM SegmenterLine == Spec => []IInvLine
  <1>1. Init => IInvLine
    BY DEF Init, IInvLine, Line, OverlapDeclared, Lead, Led, Heard
  <1>2. IInv /\ IInvLine /\ [Next]_vars => IInvLine'
    <2> SUFFICES ASSUME IInv, Line, OverlapDeclared, Lead, [Next]_vars
                 PROVE  Line' /\ OverlapDeclared' /\ Lead'
      BY DEF IInvLine
    <2>1. ASSUME NEW isSpeech \in BOOLEAN, Push(isSpeech) PROVE Line' /\ OverlapDeclared' /\ Lead'
      BY <2>1, PushLine, PushLead
    <2>2. CASE Finish
      BY <2>2, FinishLine, FinishLead
    <2>3. CASE Reset
      BY <2>3 DEF Reset, ClearActive, Line, OverlapDeclared, Lead, Led, Heard
    <2>4. CASE UNCHANGED vars
      <3>1. UNCHANGED <<config, pushed, buffer, preRoll, prefixOverlap, chunks>> /\ Heard' = Heard
        BY <2>4 DEF vars, Heard, Frames
      <3>2. Line' /\ OverlapDeclared'
        <4>1. Line'
          <5>1. Heard' = Heard /\ pushed' = pushed /\ buffer' = buffer /\ preRoll' = preRoll
                /\ prefixOverlap' = prefixOverlap /\ chunks' = chunks /\ config' = config
            BY <3>1
          <5> QED
            BY <5>1 DEF Line
        <4>2. OverlapDeclared'
          <5>1. chunks' = chunks /\ config' = config
            BY <3>1
          <5> QED
            BY <5>1, SameChunks
        <4> QED
          BY <4>1, <4>2
      <3>3. Lead'
        BY <2>4 DEF vars, Lead, Led, LedChunk, Near, Allowed, Frames
      <3> QED
        BY <3>2, <3>3
    <2> QED
      BY <2>1, <2>2, <2>3, <2>4 DEF Next
  <1> QED
    BY <1>1, <1>2, SegmenterInvariance, PTL DEF Spec

\* Two chunks share audio only across a forced cut, and overlap_ms says how much.
THEOREM OverlapsAreDeclared == Spec => []OverlapDeclared
  <1>1. IInvLine => OverlapDeclared
    BY DEF IInvLine
  <1> QED
    BY <1>1, SegmenterLine, PTL

\* A chunk that does not continue a forced cut starts at its first word, but for
\* the padding.
THEOREM LeadIsTrimmed == Spec => []LeadingSilenceTrimmed
  <1>1. Lead => LeadingSilenceTrimmed
    BY DEF Lead, Led, LedChunk, Near, Allowed, LeadingSilenceTrimmed
  <1> QED
    BY <1>1, SegmenterLine, PTL DEF IInvLine

-----------------------------------------------------------------------------
(* Chunks are bounded. *)

\* How long the fewest frames last that hold ms milliseconds, of frames of f
\* milliseconds; at least one.
WholeOf(ms, f) == Max({1, (ms + f - 1) \div f}) * f

Whole(ms) == WholeOf(ms, config.frameMs)

Longest ==
    Max({config.maxMs + config.frameMs - 1,
         config.frameMs + Whole(config.paddingMs),
         config.frameMs + Whole(config.overlapMs)})

\* What is buffered between two frames is below the hard maximum or what a forced
\* cut retained.
Short ==
    /\ ChunkBounded
    /\ buffer # {} => \/ Duration(buffer) < config.maxMs
                      \/ Duration(buffer) <= Whole(config.overlapMs)

\* Whole frames hold what they are to hold, also of a duration of which one frame
\* less does not yet fill it.
LEMMA WholeFacts ==
    ASSUME NEW ms \in Nat, NEW f \in Nat \ {0}
    PROVE  /\ WholeOf(ms, f) \in Nat /\ f <= WholeOf(ms, f) /\ ms <= WholeOf(ms, f)
           /\ \A c \in Nat : c * f < ms => (c + 1) * f <= WholeOf(ms, f)
  <1> DEFINE q == (ms + f - 1) \div f
             m == Max({1, q})
  <1>1. ms + f - 1 \in Nat
    OBVIOUS
  <1>2. q \in Nat /\ ms + f - 1 < (q + 1) * f
    <2>1. \A a \in Nat, b \in Nat \ {0} : (a \div b) \in Nat /\ a < (a \div b + 1) * b
      OBVIOUS
    <2> QED
      BY <1>1, <2>1
  <1> HIDE DEF q
  <1>3. m = IF 1 >= q THEN 1 ELSE q
    BY <1>2, OfTwo
  <1>4. WholeOf(ms, f) = m * f
    BY DEF WholeOf, q
  <1> HIDE DEF m
  <1>5. m \in Nat /\ 1 <= m /\ q <= m
    BY <1>2, <1>3
  <1>6. q * f \in Nat /\ m * f \in Nat /\ q * f <= m * f /\ f <= m * f
    <2>1. 1 * f <= m * f
      BY <1>5, Times
    <2> QED
      BY <1>2, <1>5, <2>1, Times
  <1>7. ms <= q * f
    <2>1. (q + 1) * f = q * f + f
      BY <1>2, Times
    <2> QED
      BY <1>2, <1>6, <2>1
  <1>8. ASSUME NEW c \in Nat, c * f < ms PROVE (c + 1) * f <= m * f
    <2>1. c * f \in Nat /\ c * f < q * f
      BY <1>6, <1>7, <1>8, Times
    <2>2. c + 1 <= q
      <3>1. CASE q <= c
        <4>1. q * f <= c * f
          BY <1>2, <1>8, <3>1, Times
        <4> QED
          BY <1>6, <2>1, <4>1
      <3> QED
        BY <1>2, <1>8, <3>1
    <2>3. c + 1 \in Nat /\ c + 1 <= m
      BY <1>2, <1>5, <1>8, <2>2
    <2> QED
      BY <1>5, <2>3, Times
  <1> QED
    BY <1>4, <1>6, <1>7, <1>8

\* The greatest of three numbers.
LEMMA OfThree ==
    ASSUME NEW a \in Nat, NEW b \in Nat, NEW c \in Nat
    PROVE  LET m == Max({a, b, c}) IN m \in Nat /\ a <= m /\ b <= m /\ c <= m
  <1> DEFINE S == {a, b, c}
             n == a + b + c
  <1>1. S \in SUBSET (0 .. n) /\ S # {} /\ n \in Nat
    OBVIOUS
  <1>2. a \in S /\ b \in S /\ c \in S
    OBVIOUS
  <1> HIDE DEF S, n
  <1>3. Max(S) \in Nat /\ \A y \in S : y <= Max(S)
    BY <1>1, MinMax
  <1> QED
    BY <1>2, <1>3 DEF S

\* What a chunk may last.
LEMMA LongestFacts ==
    ASSUME TypeOK
    PROVE  /\ Longest \in Nat /\ config.maxMs + config.frameMs - 1 <= Longest
           /\ config.frameMs + Whole(config.paddingMs) <= Longest
           /\ config.frameMs + Whole(config.overlapMs) <= Longest
           /\ Whole(config.paddingMs) \in Nat /\ Whole(config.overlapMs) \in Nat
  <1> DEFINE a == config.maxMs + config.frameMs - 1
             b == config.frameMs + Whole(config.paddingMs)
             c == config.frameMs + Whole(config.overlapMs)
  <1>1. config.frameMs \in Nat \ {0} /\ config.maxMs \in Nat /\ config.paddingMs \in Nat /\ config.overlapMs \in Nat
    BY ConfigAssumption DEF TypeOK
  <1>2. Whole(config.paddingMs) \in Nat /\ Whole(config.overlapMs) \in Nat
    BY <1>1, WholeFacts DEF Whole
  <1>3. a \in Nat /\ b \in Nat /\ c \in Nat
    BY <1>1, <1>2
  <1>4. Longest = Max({a, b, c})
    BY DEF Longest
  <1> HIDE DEF a, b, c
  <1>5. Longest \in Nat /\ a <= Longest /\ b <= Longest /\ c <= Longest
    BY <1>3, <1>4, OfThree
  <1> QED
    BY <1>2, <1>5 DEF a, b, c

\* A part lasts no longer than the whole.
LEMMA PartDuration ==
    ASSUME TypeOK, NEW n \in Nat, NEW frames \in SUBSET (0 .. n), NEW part \in SUBSET frames, part # {}
    PROVE  Duration(part) <= Duration(frames)
  <1> DEFINE p == Max(part) - Min(part) + 1
             w == Max(frames) - Min(frames) + 1
             f == config.frameMs
  <1>1. part \in SUBSET (0 .. n) /\ frames # {}
    OBVIOUS
  <1>2. /\ Min(part) \in part /\ Max(part) \in part /\ Min(part) \in Nat /\ Max(part) \in Nat
        /\ Min(part) <= Max(part)
    BY <1>1, MinMax
  <1>3. /\ Min(frames) \in Nat /\ Max(frames) \in Nat /\ Min(frames) <= Max(frames)
        /\ \A y \in frames : Min(frames) <= y /\ y <= Max(frames)
    BY <1>1, MinMax
  <1>4. Min(frames) <= Min(part) /\ Max(part) <= Max(frames)
    BY <1>2, <1>3
  <1>5. p \in Nat /\ w \in Nat /\ p <= w
    BY <1>2, <1>3, <1>4
  <1>6. Duration(part) = p * f /\ Duration(frames) = w * f
    BY <1>1, DurationFacts
  <1>7. f \in Nat
    BY FrameLength
  <1> HIDE DEF p, w, f
  <1> QED
    BY <1>5, <1>6, <1>7, Times

\* A forced cut retains no more than the overlap in whole frames.
LEMMA RetainedShort ==
    ASSUME TypeOK, NEW n \in Nat, NEW frames \in SUBSET (0 .. n), n \in frames
    PROVE  Duration(Retained(frames)) <= Whole(config.overlapMs)
  <1> DEFINE kept == Retained(frames)
             b == Min(kept)
             f == config.frameMs
             o == config.overlapMs
  <1>1. f \in Nat \ {0} /\ o \in Nat
    BY ConfigAssumption DEF TypeOK
  <1>2. Max(frames) = n
    BY MaxIs
  <1>3. kept \in SUBSET (0 .. n) /\ n \in kept /\ kept # {}
    <2>1. kept \subseteq frames /\ n \in kept
      BY <1>2, PartsFacts
    <2> QED
      BY <2>1
  <1>4. \A i \in kept : i = n \/ (n - i) * f < o
    BY <1>2 DEF Retained
  <1> HIDE DEF kept, f, o
  <1>5. b \in kept /\ b \in Nat /\ b <= n /\ Max(kept) = n
    BY <1>3, MinMax, MaxIs
  <1>6. Duration(kept) = (n - b + 1) * f
    BY <1>3, <1>5, DurationFacts DEF f
  <1>7. Whole(config.overlapMs) = WholeOf(o, f)
    BY DEF Whole, o, f
  <1> HIDE DEF b
  <1>8. CASE b = n
    <2>1. (n - b + 1) * f = f
      BY <1>1, <1>8
    <2> QED
      BY <1>1, <1>6, <1>7, <2>1, WholeFacts DEF kept
  <1>9. CASE b # n
    <2> DEFINE c == n - b
    <2>1. c \in Nat /\ c * f < o
      BY <1>4, <1>5, <1>9
    <2>2. Duration(kept) = (c + 1) * f
      BY <1>6
    <2> HIDE DEF c
    <2> QED
      BY <1>1, <1>7, <2>1, <2>2, WholeFacts DEF kept
  <1> QED
    BY <1>8, <1>9

\* A chunk more that is not too long.
LEMMA EmitBounded ==
    ASSUME TypeOK, ChunksValid, ChunkBounded, NEW chunk \in ChunkRecord, Valid(chunk), Emit(chunk),
           config' = config, Ms(chunk) <= Longest
    PROVE  ChunkBounded'
  <1>1. Longest' = Longest /\ (\A k \in 1 .. Len(chunks) : Ms(chunks[k]) <= Longest)
        /\ (ChunkBounded' <=> \A k \in 1 .. Len(chunks') : Ms(chunks[k])' <= Longest')
    BY DEF ChunkBounded, Longest, Whole, WholeOf
  <1>2. /\ Len(chunks') = Len(chunks) + 1 /\ chunks'[Len(chunks')] = chunk
        /\ \A k \in 1 .. Len(chunks) : chunks'[k] = chunks[k]
    BY EmitFacts
  <1>3. Len(chunks) \in Nat
    BY DEF TypeOK
  <1>4. ASSUME NEW k \in 1 .. Len(chunks') PROVE Ms(chunks[k])' <= Longest
    <2>1. CASE k \in 1 .. Len(chunks)
      BY <1>1, <1>2, <2>1 DEF Ms
    <2>2. CASE k = Len(chunks')
      BY <1>2, <2>2 DEF Ms
    <2> QED
      BY <1>2, <1>3, <2>1, <2>2
  <1> QED
    BY <1>1, <1>4

\* A chunk of frames lasts as long as they do.
LEMMA ChunkOfMs ==
    ASSUME TypeOK, NEW verdicts, NEW reason, NEW n \in Nat, NEW frames \in SUBSET (0 .. n), frames # {}
    PROVE  Ms(ChunkOf(frames, reason, verdicts)) = Duration(frames)
  <1>1. Duration(frames) = (Max(frames) - Min(frames) + 1) * config.frameMs
    BY DurationFacts
  <1> QED
    BY <1>1 DEF Ms, ChunkOf

\* push() keeps chunks and buffer short.
LEMMA DecideShort ==
    ASSUME TypeOK, ChunksValid, ChunkBounded, NEW frames, NEW said \in BOOLEAN, NEW speech \in BOOLEAN,
           NEW after, NEW silence,
           frames \in SUBSET (1 .. Len(pushed) + 1), Len(pushed) + 1 \in frames,
           speech => SpeechIn(frames, Append(pushed, said)) # {},
           Duration(frames) <= Longest,
           Decide(frames, Append(pushed, said), speech, after, silence), config' = config
    PROVE  Short'
  <1> DEFINE n == Len(pushed) + 1
             verdicts == Append(pushed, said)
  <1>1. n \in Nat
    BY PushedFacts
  <1>2. frames \in SUBSET (0 .. n) /\ frames # {} /\ n \in frames
    <2>1. frames \in SUBSET (1 .. n) /\ n \in frames
      OBVIOUS
    <2> HIDE DEF n
    <2> QED
      BY <1>1, <2>1
  <1>3. Duration(frames) \in Nat /\ Longest \in Nat
    BY <1>1, <1>2, DurationFacts, LongestFacts
  <1>4. ASSUME NEW part \in SUBSET frames, part # {}, NEW reason \in {"silence", "forced_max", "stop"},
               Emit(ChunkOf(part, reason, verdicts))
        PROVE  ChunkBounded'
    <2> DEFINE chunk == ChunkOf(part, reason, verdicts)
    <2>1. part \in SUBSET (0 .. n)
      BY <1>2
    <2>2. chunk \in ChunkRecord /\ Valid(chunk) /\ Ms(chunk) = Duration(part)
      BY <1>1, <1>4, <2>1, ChunkFacts, ChunkOfMs
    <2>3. Duration(part) <= Duration(frames) /\ Duration(part) \in Nat
      BY <1>1, <1>2, <1>4, <2>1, PartDuration, DurationFacts
    <2>4. Emit(chunk)
      BY <1>4
    <2> HIDE DEF chunk
    <2>5. Ms(chunk) <= Longest
      BY <1>3, <2>2, <2>3
    <2> QED
      BY <2>2, <2>4, <2>5, EmitBounded
  <1>5. CASE /\ Emit(ChunkOf(frames, "forced_max", verdicts))
             /\ RetainForcedOverlap(frames, verdicts)
    <2>1. ChunkBounded'
      BY <1>2, <1>4, <1>5
    <2>2. Duration(Retained(frames)) <= Whole(config.overlapMs)
      BY <1>1, <1>2, RetainedShort
    <2>3. buffer' = Retained(frames)
      BY <1>5 DEF RetainForcedOverlap
    <2>4. Duration(buffer)' <= Whole(config.overlapMs)'
      BY <2>2, <2>3 DEF Duration, Whole, WholeOf
    <2> QED
      BY <2>1, <2>4 DEF Short
  <1>6. CASE /\ speech
             /\ Emit(ChunkOf(Trimmed(frames, verdicts), "silence", verdicts))
             /\ ClearActive
    <2>1. Trimmed(frames, verdicts) \in SUBSET frames /\ Trimmed(frames, verdicts) # {}
      BY <1>1, <1>2, <1>6, TrimStart
    <2>2. ChunkBounded'
      BY <1>4, <1>6, <2>1
    <2> QED
      BY <1>6, <2>2 DEF Short, ClearActive
  <1>7. CASE Duration(frames) < config.maxMs /\ buffer' = frames /\ chunks' = chunks
    <2>1. ChunkBounded'
      BY <1>7 DEF ChunkBounded, Ms
    <2>2. Duration(buffer)' < config'.maxMs
      BY <1>7 DEF Duration
    <2> QED
      BY <2>1, <2>2 DEF Short
  <1> QED
    BY <1>5, <1>6, <1>7 DEF Decide

\* The least element of a set.
LEMMA LeastIn ==
    ASSUME NEW n \in Nat, NEW S \in SUBSET (0 .. n), S # {}
    PROVE  Min(S) \in S /\ Min(S) \in Nat /\ Min(S) <= n
  BY MinMax

\* What push() holds with the first word lasts a frame more than the padding.
LEMMA FirstWordShort ==
    ASSUME TypeOK, Lead, NEW frames, frames = preRoll \cup {Len(pushed) + 1}
    PROVE  Duration(frames) <= Longest
  <1> DEFINE n == Len(pushed) + 1
             f == config.frameMs
             p == config.paddingMs
             a == Min(frames)
  <1>1. n \in Nat /\ Len(pushed) \in Nat /\ f \in Nat \ {0} /\ p \in Nat
    BY PushedFacts, ConfigAssumption DEF TypeOK
  <1>2. frames \in SUBSET (0 .. n) /\ frames # {} /\ n \in frames
    <2>1. preRoll \subseteq 1 .. Len(pushed)
      BY DEF TypeOK
    <2>2. preRoll \subseteq 0 .. n
      BY <1>1, <2>1
    <2> HIDE DEF n
    <2>3. frames = preRoll \cup {n}
      BY DEF n
    <2>4. n \in Nat /\ n \in 0 .. n
      BY <1>1
    <2>5. frames \in SUBSET (0 .. n)
      BY <2>2, <2>3, <2>4
    <2> QED
      BY <2>3, <2>5
  <1>3. a \in frames /\ a \in Nat /\ a <= n /\ Max(frames) = n
    <2> HIDE DEF n, f, p
    <2>1. Max(frames) = n
      BY <1>1, <1>2, MaxIs
    <2>2. Min(frames) \in frames /\ Min(frames) \in Nat /\ Min(frames) <= n
      BY <1>1, <1>2, LeastIn
    <2> QED
      BY <2>1, <2>2
  <1>4. Duration(frames) = (n - a + 1) * f
    BY <1>1, <1>2, <1>3, DurationFacts
  <1>5. /\ f + Whole(p) <= Longest /\ Whole(p) \in Nat /\ Longest \in Nat
        /\ f <= Whole(p) /\ p <= Whole(p)
    <2>1. f + Whole(p) <= Longest /\ Whole(p) \in Nat /\ Longest \in Nat
      BY LongestFacts
    <2> QED
      BY <1>1, <2>1, WholeFacts DEF Whole
  <1>6. \A i \in preRoll : i = n - 1 \/ (n - i) * f <= p
    <2>1. \A i \in preRoll : i = Len(pushed) \/ (Len(pushed) - i + 1) * f <= p
      BY DEF Lead
    <2>2. ASSUME NEW i \in preRoll PROVE i \in Nat
      BY <1>1 DEF TypeOK
    <2> DEFINE l == Len(pushed)
    <2>3. l \in Nat /\ n = l + 1
      BY <1>1
    <2>4. \A i \in preRoll : i = l \/ (l - i + 1) * f <= p
      BY <2>1
    <2> HIDE DEF l, n
    <2>5. ASSUME NEW i \in preRoll PROVE l - i + 1 = n - i /\ n - 1 = l
      BY <2>2, <2>3
    <2> QED
      BY <2>4, <2>5
  <1>7. a = n \/ a \in preRoll
    BY <1>3
  <1> HIDE DEF n, f, p, a
  <1>8. CASE a = n
    <2>1. (n - a + 1) * f = f
      BY <1>1, <1>8
    <2> QED
      BY <1>1, <1>4, <1>5, <2>1
  <1>9. CASE a # n
    <2> DEFINE c == n - a
    <2>1. c \in Nat /\ (c = 1 \/ c * f <= p)
      <3>1. a = n - 1 \/ (n - a) * f <= p
        BY <1>6, <1>7, <1>9
      <3> QED
        BY <1>1, <1>3, <3>1
    <2>2. Duration(frames) = (c + 1) * f
      BY <1>4
    <2> HIDE DEF c
    <2>3. Duration(frames) = c * f + f /\ c * f \in Nat
      BY <1>1, <2>1, <2>2, Times
    <2>4. c * f <= Whole(p)
      <3>1. CASE c = 1
        BY <1>1, <1>5, <3>1
      <3>2. CASE c * f <= p
        BY <1>1, <1>5, <2>3, <3>2
      <3> QED
        BY <2>1, <3>1, <3>2
    <2> QED
      BY <1>1, <1>5, <2>3, <2>4
  <1> QED
    BY <1>8, <1>9

\* One frame more makes the buffer last one frame longer.
LEMMA BufferShort ==
    ASSUME TypeOK, Newest, Short, buffer # {}, NEW frames, frames = buffer \cup {Len(pushed) + 1}
    PROVE  Duration(frames) <= Longest
  <1> DEFINE l == Len(pushed)
             n == l + 1
             f == config.frameMs
             a == Min(buffer)
             o == Whole(config.overlapMs)
             m == config.maxMs
  <1>1. n \in Nat /\ l \in Nat /\ f \in Nat \ {0} /\ m \in Nat
    BY PushedFacts, ConfigAssumption DEF TypeOK
  <1>2. buffer \in SUBSET (0 .. l) /\ l \in buffer
    <2>1. buffer \subseteq 1 .. l /\ l \in buffer
      BY DEF TypeOK, Newest
    <2> HIDE DEF l
    <2> QED
      BY <1>1, <2>1
  <1>3. frames \in SUBSET (0 .. n) /\ frames # {} /\ n \in frames /\ frames = buffer \cup {l + 1}
    <2>1. frames = buffer \cup {n}
      OBVIOUS
    <2>2. buffer \subseteq 0 .. n
      <3> HIDE DEF l
      <3> QED
        BY <1>1, <1>2
    <2> HIDE DEF n
    <2> QED
      BY <1>1, <2>1, <2>2 DEF n
  <1> HIDE DEF l
  <1>4. a \in Nat /\ a <= l /\ Max(buffer) = l /\ Min(frames) = a
    BY <1>1, <1>2, <1>3, MinMax, MaxIs, MinStays
  <1>5. Duration(buffer) = (l - a + 1) * f
    BY <1>1, <1>2, <1>4, DurationFacts
  <1>6. Duration(frames) = (n - a + 1) * f
    <2> HIDE DEF n
    <2>1. Max(frames) = n
      BY <1>1, <1>3, MaxIs
    <2> QED
      BY <1>1, <1>3, <1>4, <2>1, DurationFacts
  <1>7. m + f - 1 <= Longest /\ f + o <= Longest /\ o \in Nat /\ Longest \in Nat
    BY LongestFacts
  <1>8. Duration(buffer) < m \/ Duration(buffer) <= o
    BY DEF Short
  <1> DEFINE c == l - a + 1
  <1>9. c \in Nat /\ n - a + 1 = c + 1
    BY <1>1, <1>4
  <1>10. Duration(buffer) = c * f /\ Duration(frames) = (c + 1) * f
    BY <1>5, <1>6, <1>9
  <1> HIDE DEF c, n, f, a, o, m
  <1>11. Duration(frames) = Duration(buffer) + f /\ Duration(buffer) \in Nat
    BY <1>1, <1>9, <1>10, Times
  <1> QED
    BY <1>1, <1>7, <1>8, <1>11

\* push() keeps chunks and buffer short.
LEMMA PushShort ==
    ASSUME IInv, Lead, Short, NEW isSpeech \in BOOLEAN, Push(isSpeech)
    PROVE  Short'
  <1> DEFINE n == Len(pushed) + 1
             verdicts == Append(pushed, isSpeech)
  <1>1. TypeOK /\ ChunksValid /\ Newest /\ FlagsMatchBuffer /\ ChunkBounded
    BY DEF IInv, Short
  <1>2. n \in Nat /\ Len(pushed) \in Nat /\ 1 .. Len(pushed) \subseteq 1 .. n /\ n \in 1 .. n
    <2>1. Len(pushed) \in Nat
      BY <1>1, PushedFacts
    <2> QED
      BY <2>1
  <1>3. config' = config
    BY DEF Push
  <1>4. CASE buffer = {} /\ UNCHANGED <<buffer, chunks>>
    BY <1>1, <1>3, <1>4 DEF Short, ChunkBounded, Ms
  <1>5. CASE /\ buffer = {} /\ isSpeech
             /\ Decide(preRoll \cup {n}, verdicts, TRUE, TRUE, SilenceAtEnd(preRoll \cup {n}, verdicts))
    <2> DEFINE frames == preRoll \cup {n}
               silence == SilenceAtEnd(frames, verdicts)
    <2>1. frames \in SUBSET (1 .. n) /\ n \in frames
      <3>1. preRoll \subseteq 1 .. Len(pushed)
        BY <1>1 DEF TypeOK
      <3> QED
        BY <1>2, <3>1
    <2>2. SpeechIn(frames, verdicts) # {}
      <3>1. verdicts[n]
        BY <1>1, <1>5, PushedFacts
      <3> QED
        BY <2>1, <3>1 DEF SpeechIn
    <2>3. Duration(frames) <= Longest
      BY <1>1, FirstWordShort
    <2>4. Decide(frames, verdicts, TRUE, TRUE, silence)
      BY <1>5
    <2> HIDE DEF frames, silence
    <2> QED
      BY <1>1, <1>3, <2>1, <2>2, <2>3, <2>4, DecideShort
  <1>6. CASE /\ buffer # {}
             /\ Decide(buffer \cup {n}, verdicts, hasSpeech \/ isSpeech, speechAfterOverlap \/ isSpeech,
                       IF isSpeech THEN 0 ELSE trailingSilence + config.frameMs)
    <2> DEFINE frames == buffer \cup {n}
               speech == hasSpeech \/ isSpeech
               after == speechAfterOverlap \/ isSpeech
               silence == IF isSpeech THEN 0 ELSE trailingSilence + config.frameMs
    <2>1. buffer \in SUBSET (1 .. Len(pushed)) /\ speech \in BOOLEAN
      BY <1>1 DEF TypeOK
    <2>2. frames \in SUBSET (1 .. n) /\ n \in frames
      BY <1>2, <2>1
    <2>3. SpeechIn(frames, verdicts) = SpeechIn(buffer, pushed) \cup (IF isSpeech THEN {n} ELSE {})
      BY <1>1, <2>1, SpeechPushed
    <2>4. speech => SpeechIn(frames, verdicts) # {}
      BY <1>1, <2>3 DEF FlagsMatchBuffer
    <2>5. Duration(frames) <= Longest
      BY <1>1, <1>6, BufferShort
    <2>6. Decide(frames, verdicts, speech, after, silence)
      BY <1>6
    <2> HIDE DEF frames, speech, after, silence
    <2> QED
      BY <1>1, <1>3, <2>1, <2>2, <2>4, <2>5, <2>6, DecideShort
  <1> QED
    BY <1>4, <1>5, <1>6 DEF Push

\* So does finish().
LEMMA FinishShort == ASSUME IInv, Short, Finish PROVE Short'
  <1> DEFINE n == Len(pushed)
             chunk == ChunkOf(Trimmed(buffer, pushed), "stop", pushed)
             part == Trimmed(buffer, pushed)
  <1>1. TypeOK /\ ChunksValid /\ FlagsMatchBuffer /\ ChunkBounded
    BY DEF IInv, Short
  <1>2. config' = config /\ ClearActive /\ n \in Nat
    BY <1>1 DEF Finish, TypeOK
  <1>3. ChunkBounded'
    <2>1. CASE NothingNew
      <3>1. chunks' = chunks
        BY <2>1 DEF Finish
      <3> QED
        BY <1>1, <1>2, <3>1 DEF ChunkBounded, Ms
    <2>2. CASE ~NothingNew
      <3>1. Emit(chunk)
        BY <2>2 DEF Finish
      <3>2. buffer \in SUBSET (0 .. n) /\ SpeechIn(buffer, pushed) # {} /\ buffer # {}
        <4>1. buffer \in SUBSET (1 .. n)
          BY <1>1 DEF TypeOK
        <4>2. SpeechIn(buffer, pushed) # {} /\ buffer # {}
          BY <1>1, <2>2 DEF NothingNew, FlagsMatchBuffer
        <4> HIDE DEF n
        <4>3. 1 .. n \subseteq 0 .. n
          BY <1>2
        <4> QED
          BY <4>1, <4>2, <4>3
      <3>3. part \in SUBSET buffer /\ part # {} /\ part \in SUBSET (0 .. n)
        <4>1. part \in SUBSET buffer /\ part # {}
          BY <1>2, <3>2, TrimStart
        <4> QED
          BY <3>2, <4>1
      <3>4. chunk \in ChunkRecord /\ Valid(chunk) /\ Ms(chunk) = Duration(part)
        BY <1>1, <1>2, <3>3, ChunkFacts, ChunkOfMs
      <3>5. Duration(part) <= Duration(buffer) /\ Duration(part) \in Nat /\ Duration(buffer) \in Nat
        BY <1>1, <1>2, <3>2, <3>3, PartDuration, DurationFacts
      <3>6. Duration(buffer) < config.maxMs \/ Duration(buffer) <= Whole(config.overlapMs)
        BY <3>2 DEF Short
      <3>7. Duration(buffer) <= Longest
        <4>1. config.frameMs \in Nat \ {0} /\ config.maxMs \in Nat
          BY <1>1, ConfigAssumption DEF TypeOK
        <4> QED
          BY <1>1, <3>5, <3>6, <4>1, LongestFacts
      <3> HIDE DEF chunk, part
      <3>8. Ms(chunk) <= Longest
        BY <1>1, <3>4, <3>5, <3>7, LongestFacts
      <3> QED
        BY <1>1, <1>2, <3>1, <3>4, <3>8, EmitBounded
    <2> QED
      BY <2>1, <2>2
  <1> QED
    BY <1>2, <1>3 DEF Short, ClearActive

\* A chunk is never longer than the hard maximum by a whole frame, unless the
\* pre-roll or the retained overlap alone fill it.
THEOREM ChunksAreBounded == Spec => []ChunkBounded
  <1>1. Init => Short
    BY DEF Init, Short, ChunkBounded
  <1>2. IInv /\ IInvLine /\ Short /\ [Next]_vars => Short'
    <2> SUFFICES ASSUME IInv, IInvLine, Short, [Next]_vars PROVE Short'
      OBVIOUS
    <2>1. ASSUME NEW isSpeech \in BOOLEAN, Push(isSpeech) PROVE Short'
      BY <2>1, PushShort DEF IInvLine
    <2>2. CASE Finish
      BY <2>2, FinishShort
    <2>3. CASE Reset
      BY <2>3 DEF Reset, ClearActive, Short, ChunkBounded
    <2>4. CASE UNCHANGED vars
      BY <2>4 DEF vars, Short, ChunkBounded, Ms, Duration, Whole, WholeOf
    <2> QED
      BY <2>1, <2>2, <2>3, <2>4 DEF Next
  <1>3. Short => ChunkBounded
    BY DEF Short
  <1> QED
    BY <1>1, <1>2, <1>3, SegmenterInvariance, SegmenterLine, PTL DEF Spec
=============================================================================
