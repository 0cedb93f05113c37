--------------------------- MODULE PipelineProofs ---------------------------
(***************************************************************************)
(* Proofs about Pipeline.tla for every queue bound, every maximum duration *)
(* and any number of sessions.                                             *)
(***************************************************************************)
EXTENDS Pipeline, SequenceTheorems, TLAPS

AfterCapture == {"callback", "finish_policy", "put_final", "put_stop", "join_queue",
                 "join_asr", "build", "reset"}
AfterStop    == {"join_queue", "join_asr", "build", "reset"}

\* A session has its two threads; without one nothing is left.
ThreadsMatch ==
    /\ source = "none" => /\ caller = "idle" /\ capture = "none" /\ asr = "none"
                          /\ queue = << >>
    /\ source # "none" => capture # "none" /\ asr # "none" /\ session > 0
    /\ op = "none" <=> caller = "idle"

CaptureOver == caller \in AfterCapture => capture = "done"

\* The sentinel is sent once, by the owner, behind every chunk.
SentinelOnce ==
    /\ StopQueued => caller \in AfterStop
    /\ item = STOP => asr = "task_done" /\ caller \in AfterStop /\ queue = << >>
    /\ asr \in {"return", "exit"} => caller \in AfterStop /\ queue = << >>
    /\ caller \in {"build", "reset"} => asr = "exit"

Accounting ==
    /\ unfinished = Len(queue) + (IF asr \in {"transcribe", "task_done"} THEN 1 ELSE 0)
    /\ Len(queue) <= MaxPending

FramesLeft ==
    /\ frames <= MaxFrames
    /\ capture \in {"open", "test", "read"} => frames < MaxFrames

\* Sequence numbers start at 0.
LineStart == FirstQueued >= Working

IInv ==
    /\ TypeOK
    /\ Conveyor
    /\ ThreadsMatch
    /\ CaptureOver
    /\ SentinelOnce
    /\ Accounting
    /\ FramesLeft
    /\ LineStart

-----------------------------------------------------------------------------
(* Facts about the queue. *)

\* A put appends at the end and leaves what is queued where it is.
LEMMA AppendFacts ==
    ASSUME queue \in Seq(Chunk \cup {STOP}), NEW x \in Chunk \cup {STOP}, Put(x)
    PROVE  /\ queue' \in Seq(Chunk \cup {STOP})
           /\ Len(queue') = Len(queue) + 1
           /\ \A i \in 1 .. Len(queue) : queue'[i] = queue[i]
           /\ queue'[Len(queue) + 1] = x
           /\ queue' # << >>
  BY DEF Put

\* Putting a chunk while no sentinel is queued lengthens the line by one.
LEMMA PutChunkFacts ==
    ASSUME queue \in Seq(Chunk \cup {STOP}), ~StopQueued, NEW x \in Chunk, Put(x)
    PROVE  /\ ~StopQueued'
           /\ ChunksQueued' = ChunksQueued + 1
           /\ ChunksQueued = Len(queue)
           /\ \A i \in 1 .. ChunksQueued : queue'[i] = queue[i]
           /\ queue'[ChunksQueued + 1] = x
  <1>1. /\ queue' \in Seq(Chunk \cup {STOP})
        /\ Len(queue') = Len(queue) + 1
        /\ \A i \in 1 .. Len(queue) : queue'[i] = queue[i]
        /\ queue'[Len(queue) + 1] = x
    BY AppendFacts
  <1>2. x # STOP
    BY SentinelAssumption
  <1> QED
    BY <1>1, <1>2 DEF StopQueued, ChunksQueued

\* Putting the sentinel leaves the line of chunks alone.
LEMMA PutStopFacts ==
    ASSUME queue \in Seq(Chunk \cup {STOP}), ~StopQueued, Put(STOP)
    PROVE  /\ StopQueued'
           /\ ChunksQueued' = ChunksQueued
           /\ \A i \in 1 .. ChunksQueued : queue'[i] = queue[i]
  <1>1. /\ queue' \in Seq(Chunk \cup {STOP})
        /\ Len(queue') = Len(queue) + 1
        /\ \A i \in 1 .. Len(queue) : queue'[i] = queue[i]
        /\ queue'[Len(queue) + 1] = STOP
        /\ queue' # << >>
    BY AppendFacts
  <1> QED
    BY <1>1 DEF StopQueued, ChunksQueued

\* Taking the head of a line of chunks moves every other one up a place.
LEMMA GetFacts ==
    ASSUME queue \in Seq(Chunk \cup {STOP}), queue # << >>, queue' = Tail(queue)
    PROVE  /\ queue' \in Seq(Chunk \cup {STOP})
           /\ Len(queue') = Len(queue) - 1
           /\ Len(queue) >= 1
           /\ \A i \in 1 .. Len(queue') : queue'[i] = queue[i + 1]
           /\ Head(queue) = queue[1]
           /\ Head(queue) \in Chunk \cup {STOP}
  BY HeadTailProperties

\* A held chunk of a session under way is not the placeholder.
LEMMA HeldIsChunk ==
    ASSUME session > 0, NEW x \in Chunk \cup {NoChunk}, NEW n, x = TheChunk(n)
    PROVE  x \in Chunk
  <1>1. x.session = session
    BY DEF TheChunk
  <1>2. NoChunk.session = 0
    BY DEF NoChunk
  <1> QED
    BY <1>1, <1>2

-----------------------------------------------------------------------------
(* The invariant is inductive. *)

\* A PipelineSession just constructed satisfies the invariant.
LEMMA InitIInv == Init => IInv
  <1> SUFFICES ASSUME Init PROVE IInv
    OBVIOUS
  <1>a. Len(queue) = 0 /\ queue = << >> /\ nextSeq = 0 /\ capture = "none"
        /\ caller = "idle" /\ asr = "none"
    BY DEF Init
  <1>1. ~StopQueued /\ ChunksQueued = 0 /\ Held = 0 /\ Working = 0 /\ FirstQueued = 0
    BY <1>a DEF StopQueued, ChunksQueued, Held, Working, FirstQueued
  <1>b. transcripts = [n \in {} |-> "ok"]
    BY DEF Init, NoTranscripts
  <1>2. DOMAIN transcripts = {} /\ transcripts \in [{} -> Status]
    BY <1>b
  <1> USE PipelineAssumption, SentinelAssumption DEF Init
  <1>3. TypeOK
    <2>1. captureError \in BOOLEAN
      OBVIOUS
    <2>2. queue \in Seq(Chunk \cup {STOP})
      OBVIOUS
    <2>3. transcripts \in [DOMAIN transcripts -> Status] /\ DOMAIN transcripts \subseteq Nat
      BY <1>2
    <2> HIDE DEF Init
    <2>4. /\ session \in 0 .. MaxSessions /\ unfinished \in Nat /\ nextSeq \in Nat
          /\ frames \in Nat
      BY DEF Init
    <2>5. /\ source = "none" /\ op = "none" /\ caller = "idle" /\ capture = "none"
          /\ asr = "none" /\ heldByCaller = NoChunk /\ heldByCapture = NoChunk
          /\ item = NoChunk
      BY DEF Init
    <2> QED
      BY <2>1, <2>2, <2>3, <2>4, <2>5 DEF TypeOK, CallerPc, CapturePc, AsrPc
  <1>4. Conveyor
    BY <1>1, <1>2 DEF Conveyor
  <1>5. item # STOP
    OBVIOUS
  <1>6. ThreadsMatch /\ CaptureOver /\ SentinelOnce /\ Accounting /\ FramesLeft /\ LineStart
    BY <1>1, <1>5 DEF ThreadsMatch, CaptureOver, SentinelOnce, Accounting, FramesLeft,
                      LineStart, AfterCapture, AfterStop
  <1> QED
    BY <1>3, <1>4, <1>6 DEF IInv

\* Steps that move a program counter or the source, and no chunk.
LEMMA ControlStep ==
    ASSUME IInv,
           \/ WaitJoin \/ StopSource \/ SourceStopped \/ SourceStuck \/ JoinCapture
           \/ CaptureStoppedCallback \/ CallbackRaises \/ JoinQueue \/ JoinAsr \/ Open
           \/ Test \/ ReadFrame \/ ReadEnd \/ ReadError \/ Limit \/ Halt \/ Return
    PROVE  IInv'
  <1> USE PipelineAssumption, SentinelAssumption
      DEF IInv, TypeOK, Conveyor, ThreadsMatch, CaptureOver, SentinelOnce, Accounting,
          FramesLeft, LineStart, StopQueued, ChunksQueued, Held, Working, FirstQueued, TheChunk,
          AfterCapture, AfterStop, CallerPc, CapturePc, AsrPc, sessionVars, queueVars,
          policyVars, callerVars, captureVars, asrVars, GiveUp
  <1>1. CASE WaitJoin
    BY <1>1 DEF WaitJoin
  <1>2. CASE StopSource
    BY <1>2 DEF StopSource
  <1>3. CASE SourceStopped
    BY <1>3 DEF SourceStopped
  <1>4. CASE SourceStuck
    BY <1>4 DEF SourceStuck
  <1>5. CASE JoinCapture
    BY <1>5 DEF JoinCapture
  <1>6. CASE CaptureStoppedCallback
    BY <1>6 DEF CaptureStoppedCallback
  <1>7. CASE CallbackRaises
    BY <1>7 DEF CallbackRaises
  <1>8. CASE JoinQueue
    BY <1>8 DEF JoinQueue
  <1>9. CASE JoinAsr
    BY <1>9 DEF JoinAsr
  <1>10. CASE Open
    <2>1. captureError' \in BOOLEAN
      BY <1>10, Zenon DEF Open
    <2>2. CASE source = "stopped"
      BY <1>10, <2>1, <2>2 DEF Open
    <2>3. CASE source # "stopped"
      BY <1>10, <2>1, <2>3 DEF Open
    <2> QED
      BY <2>2, <2>3
  <1>11. CASE Test
    BY <1>11 DEF Test
  <1>12. CASE ReadFrame
    BY <1>12 DEF ReadFrame
  <1>13. CASE ReadEnd
    BY <1>13 DEF ReadEnd
  <1>14. CASE ReadError
    BY <1>14 DEF ReadError
  <1>15. CASE Limit
    BY <1>15 DEF Limit
  <1>16. CASE Halt
    <2>1. captureError' \in BOOLEAN
      BY <1>16, Zenon DEF Halt
    <2>2. CASE source' = "stopped"
      BY <1>16, <2>1, <2>2 DEF Halt
    <2>3. CASE source' # "stopped"
      BY <1>16, <2>1, <2>3 DEF Halt
    <2> QED
      BY <2>2, <2>3
  <1>17. CASE Return
    BY <1>17 DEF Return
  <1> QED
    BY <1>1, <1>2, <1>3, <1>4, <1>5, <1>6, <1>7, <1>8, <1>9, <1>10, <1>11, <1>12, <1>13, <1>14, <1>15, <1>16, <1>17

\* Steps that change the line of chunks, one lemma per action.
LEMMA StartStep ==
    ASSUME IInv, Start
    PROVE  IInv'
  <1>a. Len(queue') = 0 /\ queue' = << >> /\ nextSeq' = 0 /\ caller' = "idle"
        /\ capture' \in {"none", "open"} /\ asr' \in {"none", "get"}
    BY DEF IInv, Start, StartClears, ThreadsMatch, callerVars
  <1>1. ~StopQueued' /\ ChunksQueued' = 0 /\ Held' = 0 /\ Working' = 0 /\ FirstQueued' = 0
    <2>1. ~StopQueued'
      BY <1>a DEF StopQueued
    <2>2. ChunksQueued' = 0
      BY <1>a, <2>1 DEF ChunksQueued
    <2>3. Held' = 0
      BY <1>a DEF Held
    <2>4. Working' = 0
      BY <1>a DEF Working
    <2> QED
      BY <1>a, <2>1, <2>2, <2>3, <2>4 DEF FirstQueued
  <1> USE PipelineAssumption, SentinelAssumption DEF IInv, Start, StartClears
  <1>2. DOMAIN transcripts' = {} /\ transcripts' \in [{} -> Status]
    <2>1. transcripts' = [n \in {} |-> "ok"]
      BY DEF NoTranscripts
    <2> QED
      BY <2>1
  <1>3. captureError' \in BOOLEAN
    OBVIOUS
  <1>4. TypeOK'
    <2>1. queue' \in Seq(Chunk \cup {STOP})
      OBVIOUS
    <2>2. (transcripts \in [DOMAIN transcripts -> Status] /\ DOMAIN transcripts \subseteq Nat)'
      BY <1>2
    <2>3. /\ session' \in 0 .. MaxSessions /\ unfinished' \in Nat /\ nextSeq' \in Nat
          /\ frames' \in Nat
      BY DEF TypeOK
    <2>4. /\ source' \in {"none", "running"} /\ heldByCapture' = heldByCapture
          /\ item' = item /\ op' = op /\ heldByCaller' = heldByCaller
      BY DEF TypeOK, callerVars
    <2>5. TypeOK
      OBVIOUS
    <2> HIDE DEF IInv, Start, StartClears
    <2> QED
      BY <1>a, <1>3, <2>1, <2>2, <2>3, <2>4, <2>5 DEF TypeOK, CallerPc, CapturePc, AsrPc
  <1>5. Conveyor'
    BY <1>1, <1>2, <1>a DEF Conveyor
  <1>6. item' # STOP
    BY DEF SentinelOnce, AfterStop
  <1>7. ThreadsMatch'
    BY <1>a DEF ThreadsMatch, TypeOK, callerVars
  <1>8. SentinelOnce'
    BY <1>a, <1>1, <1>6 DEF SentinelOnce
  <1>9. (CaptureOver /\ Accounting /\ FramesLeft /\ LineStart)'
    BY <1>a, <1>1 DEF CaptureOver, Accounting, FramesLeft, LineStart, AfterCapture
  <1> QED
    BY <1>4, <1>5, <1>7, <1>8, <1>9

\* stop, cancel or wait is called; the line of chunks does not move.
LEMMA CallStep ==
    ASSUME IInv, NEW method \in {"stop", "cancel", "wait"}, Call(method)
    PROVE  IInv'
  BY PipelineAssumption, SentinelAssumption
     DEF Call, IInv, TypeOK, Conveyor, ThreadsMatch, CaptureOver, SentinelOnce, Accounting,
         FramesLeft, LineStart, StopQueued, ChunksQueued, Held, Working, FirstQueued, TheChunk,
         AfterCapture, AfterStop, CallerPc, CapturePc, AsrPc, sessionVars, queueVars,
         policyVars, callerVars, captureVars, asrVars

\* A chunk is cut: the line grows at its end, in a thread's hands.
LEMMA FinishPolicyStep ==
    ASSUME IInv, FinishPolicy
    PROVE  IInv'
  <1> USE PipelineAssumption, SentinelAssumption
      DEF FinishPolicy, IInv, TypeOK, Conveyor, ThreadsMatch, CaptureOver, SentinelOnce,
          Accounting, FramesLeft, LineStart, StopQueued, ChunksQueued, Held, Working, FirstQueued,
          TheChunk, AfterCapture, AfterStop, CallerPc, sessionVars, queueVars, captureVars,
          asrVars
  <1>1. CASE caller' = "put_stop"
    BY <1>1
  <1>2. CASE caller' = "put_final"
    <2> HIDE DEF IInv, TypeOK, Conveyor, LineStart, FirstQueued, TheChunk, ChunksQueued, Held, Working,
                 StopQueued
    <2>1. TheChunk(nextSeq) \in Chunk /\ heldByCaller' = TheChunk(nextSeq) /\ nextSeq' = nextSeq + 1
      BY <1>2 DEF IInv, TypeOK, Chunk, TheChunk
    <2>2. Held = 0 /\ Held' = 1 /\ Working' = Working
      BY <1>2 DEF IInv, Held, Working
    <2>3. StopQueued' = StopQueued /\ ChunksQueued' = ChunksQueued /\ ChunksQueued \in Int
      BY DEF IInv, TypeOK, StopQueued, ChunksQueued
    <2>4. FirstQueued' = FirstQueued
      BY <2>1, <2>2, <2>3 DEF IInv, TypeOK, FirstQueued
    <2>5. TypeOK'
      BY <1>2, <2>1 DEF IInv, TypeOK
    <2>6. Conveyor'
      <3>1. \A n : TheChunk(n)' = TheChunk(n)
        BY DEF TheChunk
      <3>2. nextSeq' - 1 = nextSeq
        BY <2>1 DEF IInv, TypeOK
      <3> QED
        BY <1>2, <2>1, <2>2, <2>3, <2>4, <3>1, <3>2 DEF IInv, Conveyor
    <2>7. LineStart'
      BY <2>2, <2>4 DEF IInv, LineStart
    <2> QED
      BY <1>2, <2>3, <2>5, <2>6, <2>7 DEF IInv
  <1> QED
    BY <1>1, <1>2

\* push() cuts a chunk, which the capture thread then holds.
LEMMA PushStep ==
    ASSUME IInv, Push
    PROVE  IInv'
  <1> USE PipelineAssumption, SentinelAssumption
      DEF Push, IInv, TypeOK, Conveyor, ThreadsMatch, CaptureOver, SentinelOnce,
          Accounting, FramesLeft, LineStart, StopQueued, ChunksQueued, Held, Working, FirstQueued,
          TheChunk, AfterCapture, AfterStop, CapturePc, sessionVars, queueVars, callerVars,
          asrVars
  <1>1. CASE capture' = "limit"
    BY <1>1
  <1>2. CASE capture' = "put"
    <2> HIDE DEF IInv, TypeOK, Conveyor, LineStart, FirstQueued, TheChunk, ChunksQueued, Held, Working,
                 StopQueued
    <2>1. TheChunk(nextSeq) \in Chunk /\ heldByCapture' = TheChunk(nextSeq) /\ nextSeq' = nextSeq + 1
      BY <1>2 DEF IInv, TypeOK, Chunk, TheChunk
    <2>2. Held = 0 /\ Held' = 1 /\ Working' = Working
      BY <1>2 DEF IInv, Held, Working
    <2>3. StopQueued' = StopQueued /\ ChunksQueued' = ChunksQueued /\ ChunksQueued \in Int
      BY DEF IInv, TypeOK, StopQueued, ChunksQueued
    <2>4. FirstQueued' = FirstQueued
      BY <2>1, <2>2, <2>3 DEF IInv, TypeOK, FirstQueued
    <2>5. TypeOK'
      BY <1>2, <2>1 DEF IInv, TypeOK
    <2>6. Conveyor'
      <3>1. \A n : TheChunk(n)' = TheChunk(n)
        BY DEF TheChunk
      <3>2. nextSeq' - 1 = nextSeq
        BY <2>1 DEF IInv, TypeOK
      <3> QED
        BY <1>2, <2>1, <2>2, <2>3, <2>4, <3>1, <3>2 DEF IInv, Conveyor
    <2>7. LineStart'
      BY <2>2, <2>4 DEF IInv, LineStart
    <2> QED
      BY <1>2, <2>3, <2>5, <2>6, <2>7 DEF IInv
  <1> QED
    BY <1>1, <1>2

\* The chunk a thread holds joins the queue: the line does not change.
LEMMA PutFinalStep ==
    ASSUME IInv, PutFinal
    PROVE  IInv'
  <1>1. /\ TypeOK /\ Conveyor /\ ThreadsMatch /\ CaptureOver /\ SentinelOnce /\ Accounting
        /\ FramesLeft /\ LineStart
    BY DEF IInv
  <1>2. ~StopQueued /\ heldByCaller = TheChunk(nextSeq - 1) /\ Held = 1 /\ Held' = 0
        /\ Working' = Working /\ capture = "done"
    BY <1>1 DEF PutFinal, SentinelOnce, AfterStop, Conveyor, Held, Working, CaptureOver,
                AfterCapture, asrVars, captureVars
  <1>3. heldByCaller \in Chunk
    BY <1>1, <1>2, HeldIsChunk DEF TypeOK, ThreadsMatch, PutFinal
  <1>4. /\ ~StopQueued' /\ ChunksQueued' = ChunksQueued + 1 /\ ChunksQueued = Len(queue)
        /\ \A i \in 1 .. ChunksQueued : queue'[i] = queue[i]
        /\ queue'[ChunksQueued + 1] = heldByCaller
    BY <1>1, <1>2, <1>3, PutChunkFacts DEF PutFinal, TypeOK
  <1>5. queue' \in Seq(Chunk \cup {STOP}) /\ Len(queue') = Len(queue) + 1 /\ queue' # << >>
    BY <1>1, <1>3, AppendFacts DEF PutFinal, TypeOK
  <1>6. ChunksQueued \in Nat /\ nextSeq' = nextSeq /\ nextSeq \in Nat
    BY <1>1, <1>4 DEF PutFinal, TypeOK, policyVars
  <1>7. FirstQueued' = FirstQueued /\ FirstQueued = nextSeq - 1 - ChunksQueued
    BY <1>2, <1>4, <1>6 DEF FirstQueued
  <1>8. TypeOK'
    BY <1>1, <1>5 DEF PutFinal, Put, TypeOK, CallerPc, sessionVars, policyVars, captureVars,
                      asrVars
  <1>9. Conveyor'
    <2>1. \A n : TheChunk(n)' = TheChunk(n)
      BY DEF PutFinal, sessionVars, TheChunk
    <2>2. \A i \in 1 .. ChunksQueued' : queue'[i] = TheChunk(FirstQueued + i - 1)
      <3>1. SUFFICES ASSUME NEW i \in 1 .. ChunksQueued'
                     PROVE  queue'[i] = TheChunk(FirstQueued + i - 1)
        OBVIOUS
      <3>2. CASE i \in 1 .. ChunksQueued
        BY <1>1, <1>4, <3>2 DEF Conveyor
      <3>3. CASE i = ChunksQueued + 1
        <4>1. FirstQueued + i - 1 = nextSeq - 1
          BY <1>6, <1>7, <3>3
        <4> QED
          BY <1>2, <1>4, <3>3, <4>1
      <3> QED
        BY <1>4, <1>6, <3>2, <3>3
    <2> QED
      BY <1>1, <1>2, <1>7, <2>1, <2>2 DEF PutFinal, Conveyor, captureVars, asrVars
  <1>10. (ThreadsMatch /\ CaptureOver /\ SentinelOnce /\ Accounting /\ FramesLeft)'
    BY <1>1, <1>2, <1>4, <1>5, PipelineAssumption
       DEF PutFinal, Put, ThreadsMatch, CaptureOver, SentinelOnce, Accounting, FramesLeft,
           AfterCapture, AfterStop, TypeOK, sessionVars, policyVars, captureVars, asrVars
  <1>11. LineStart'
    BY <1>1, <1>2, <1>7 DEF LineStart
  <1> QED
    BY <1>8, <1>9, <1>10, <1>11 DEF IInv

\* The same for the chunk that the capture thread holds.
LEMMA PutChunkStep ==
    ASSUME IInv, PutChunk
    PROVE  IInv'
  <1>1. /\ TypeOK /\ Conveyor /\ ThreadsMatch /\ CaptureOver /\ SentinelOnce /\ Accounting
        /\ FramesLeft /\ LineStart
    BY DEF IInv
  <1>2. ~StopQueued /\ heldByCapture = TheChunk(nextSeq - 1) /\ Held = 1 /\ Held' = 0
        /\ Working' = Working /\ caller # "put_final"
    BY <1>1 DEF PutChunk, SentinelOnce, AfterStop, Conveyor, Held, Working, CaptureOver,
                AfterCapture, asrVars, callerVars
  <1>3. heldByCapture \in Chunk
    BY <1>1, <1>2, HeldIsChunk DEF TypeOK, ThreadsMatch, PutChunk
  <1>4. /\ ~StopQueued' /\ ChunksQueued' = ChunksQueued + 1 /\ ChunksQueued = Len(queue)
        /\ \A i \in 1 .. ChunksQueued : queue'[i] = queue[i]
        /\ queue'[ChunksQueued + 1] = heldByCapture
    BY <1>1, <1>2, <1>3, PutChunkFacts DEF PutChunk, TypeOK
  <1>5. queue' \in Seq(Chunk \cup {STOP}) /\ Len(queue') = Len(queue) + 1 /\ queue' # << >>
    BY <1>1, <1>3, AppendFacts DEF PutChunk, TypeOK
  <1>6. ChunksQueued \in Nat /\ nextSeq' = nextSeq /\ nextSeq \in Nat
    BY <1>1, <1>4 DEF PutChunk, TypeOK, policyVars
  <1>7. FirstQueued' = FirstQueued /\ FirstQueued = nextSeq - 1 - ChunksQueued
    BY <1>2, <1>4, <1>6 DEF FirstQueued
  <1>8. TypeOK'
    BY <1>1, <1>5 DEF PutChunk, Put, TypeOK, CapturePc, sessionVars, policyVars, callerVars,
                      asrVars
  <1>9. Conveyor'
    <2>1. \A n : TheChunk(n)' = TheChunk(n)
      BY DEF PutChunk, sessionVars, TheChunk
    <2>2. \A i \in 1 .. ChunksQueued' : queue'[i] = TheChunk(FirstQueued + i - 1)
      <3>1. SUFFICES ASSUME NEW i \in 1 .. ChunksQueued'
                     PROVE  queue'[i] = TheChunk(FirstQueued + i - 1)
        OBVIOUS
      <3>2. CASE i \in 1 .. ChunksQueued
        BY <1>1, <1>4, <3>2 DEF Conveyor
      <3>3. CASE i = ChunksQueued + 1
        <4>1. FirstQueued + i - 1 = nextSeq - 1
          BY <1>6, <1>7, <3>3
        <4> QED
          BY <1>2, <1>4, <3>3, <4>1
      <3> QED
        BY <1>4, <1>6, <3>2, <3>3
    <2> QED
      BY <1>1, <1>2, <1>7, <2>1, <2>2 DEF PutChunk, Conveyor, callerVars, asrVars
  <1>10. (ThreadsMatch /\ CaptureOver /\ SentinelOnce /\ Accounting /\ FramesLeft)'
    <2>1. /\ capture = "put" /\ capture' = "limit" /\ caller' = caller /\ op' = op /\ source' = source
          /\ session' = session /\ frames' = frames /\ asr' = asr /\ item' = item
      BY DEF PutChunk, sessionVars, callerVars, policyVars, asrVars
    <2>2. caller \notin AfterCapture /\ source # "none"
      BY <1>1, <2>1 DEF CaptureOver, ThreadsMatch
    <2>3. (ThreadsMatch /\ CaptureOver /\ FramesLeft)'
      BY <1>1, <2>1, <2>2 DEF ThreadsMatch, CaptureOver, FramesLeft
    <2>4. SentinelOnce'
      BY <1>1, <1>4, <2>1, <2>2 DEF SentinelOnce, AfterStop, AfterCapture
    <2>5. Accounting'
      BY <1>1, <1>5, PipelineAssumption DEF PutChunk, Put, Accounting, TypeOK, asrVars
    <2> QED
      BY <2>3, <2>4, <2>5
  <1>11. LineStart'
    BY <1>1, <1>2, <1>7 DEF LineStart
  <1> QED
    BY <1>8, <1>9, <1>10, <1>11 DEF IInv

\* The owner holds the only sentinel and puts it behind the last chunk.
LEMMA PutStopStep ==
    ASSUME IInv, PutStop
    PROVE  IInv'
  <1>1. /\ TypeOK /\ Conveyor /\ ThreadsMatch /\ CaptureOver /\ SentinelOnce /\ Accounting
        /\ FramesLeft /\ LineStart
    BY DEF IInv
  <1>2. ~StopQueued /\ Held' = Held /\ Working' = Working
    BY <1>1 DEF PutStop, SentinelOnce, AfterStop, Held, Working, asrVars, captureVars
  <1>3. /\ StopQueued' /\ ChunksQueued' = ChunksQueued
        /\ \A i \in 1 .. ChunksQueued : queue'[i] = queue[i]
    BY <1>1, <1>2, PutStopFacts DEF PutStop, TypeOK
  <1>4. queue' \in Seq(Chunk \cup {STOP}) /\ Len(queue') = Len(queue) + 1 /\ queue' # << >>
    BY <1>1, AppendFacts DEF PutStop, TypeOK
  <1>5. FirstQueued' = FirstQueued
    BY <1>2, <1>3 DEF PutStop, policyVars, FirstQueued
  <1>6. TypeOK'
    BY <1>1, <1>4 DEF PutStop, Put, TypeOK, CallerPc, sessionVars, policyVars, captureVars,
                      asrVars
  <1>7. Conveyor'
    <2>1. \A n : TheChunk(n)' = TheChunk(n)
      BY DEF PutStop, sessionVars, TheChunk
    <2> QED
      BY <1>1, <1>2, <1>3, <1>5, <2>1
         DEF PutStop, Conveyor, policyVars, captureVars, asrVars
  <1>8. (ThreadsMatch /\ CaptureOver /\ SentinelOnce /\ Accounting /\ FramesLeft)'
    BY <1>1, <1>3, <1>4, PipelineAssumption
       DEF PutStop, Put, ThreadsMatch, CaptureOver, SentinelOnce, Accounting, FramesLeft,
           AfterCapture, AfterStop, TypeOK, sessionVars, policyVars, captureVars, asrVars
  <1>9. LineStart'
    BY <1>1, <1>2, <1>5 DEF LineStart
  <1> QED
    BY <1>6, <1>7, <1>8, <1>9 DEF IInv

\* _build_result only reads.
LEMMA BuildResultStep ==
    ASSUME IInv, BuildResult
    PROVE  IInv'
  BY DEF BuildResult, IInv, TypeOK, Conveyor, ThreadsMatch, CaptureOver, SentinelOnce,
         Accounting, FramesLeft, LineStart, StopQueued, ChunksQueued, Held, Working, FirstQueued,
         TheChunk, AfterCapture, AfterStop, CallerPc, sessionVars, queueVars, policyVars,
         captureVars, asrVars

\* The reset finds an empty queue, so dropping the queue loses nothing.
LEMMA ResetRuntimeStep ==
    ASSUME IInv, ResetRuntime
    PROVE  IInv'
  <1>1. queue = << >> /\ queue' = << >>
    BY DEF IInv, SentinelOnce, ResetRuntime, ClearRuntime
  <1>2. item # STOP /\ capture = "done" /\ asr = "exit"
    BY DEF IInv, SentinelOnce, CaptureOver, AfterCapture, ResetRuntime
  <1>3. captureError' \in BOOLEAN
    BY DEF IInv, TypeOK, ResetRuntime
  <1>4. TypeOK'
    BY <1>1, <1>2, <1>3
       DEF IInv, TypeOK, ResetRuntime, ClearRuntime, CallerPc, CapturePc, AsrPc, policyVars
  <1>5. Held = 0 /\ Held' = 0 /\ Working = 0 /\ Working' = 0 /\ ~StopQueued /\ ~StopQueued'
    BY <1>1, <1>2 DEF Held, Working, StopQueued, ResetRuntime, ClearRuntime
  <1>6. FirstQueued' = FirstQueued /\ ChunksQueued' = 0
    BY <1>1, <1>5 DEF FirstQueued, ChunksQueued, ResetRuntime, policyVars
  <1>7. Conveyor'
    BY <1>5, <1>6 DEF IInv, Conveyor, ResetRuntime, ClearRuntime
  <1>8. (ThreadsMatch /\ CaptureOver /\ SentinelOnce /\ Accounting /\ FramesLeft)'
    BY <1>1, <1>2, <1>5
       DEF IInv, ResetRuntime, ClearRuntime, ThreadsMatch, CaptureOver, SentinelOnce,
           Accounting, FramesLeft, AfterCapture, AfterStop, TypeOK, policyVars
  <1>9. LineStart'
    BY <1>5, <1>6 DEF IInv, LineStart
  <1> QED
    BY <1>4, <1>7, <1>8, <1>9 DEF IInv

\* The head of the queue passes into the ASR thread's hands.
LEMMA GetStep ==
    ASSUME IInv, Get
    PROVE  IInv'
  <1>1. /\ TypeOK /\ Conveyor /\ ThreadsMatch /\ CaptureOver /\ SentinelOnce /\ Accounting
        /\ FramesLeft /\ LineStart
    BY DEF IInv
  <1>2. /\ queue' \in Seq(Chunk \cup {STOP}) /\ Len(queue') = Len(queue) - 1
        /\ Len(queue) >= 1
        /\ \A i \in 1 .. Len(queue') : queue'[i] = queue[i + 1]
        /\ item' = queue[1] /\ item' \in Chunk \cup {STOP}
        /\ asr' = IF queue[1] = STOP THEN "task_done" ELSE "transcribe"
    BY <1>1, GetFacts DEF TypeOK, Get
  <1>3. Held' = Held /\ Working = 0 /\ nextSeq' = nextSeq /\ nextSeq \in Nat /\ Held \in Nat
    BY <1>1 DEF TypeOK, Get, Held, Working, captureVars, callerVars, policyVars
  <1>4. \A n : TheChunk(n)' = TheChunk(n)
    BY DEF Get, sessionVars, TheChunk
  <1>5. TypeOK'
    BY <1>1, <1>2 DEF Get, TypeOK, AsrPc, sessionVars, policyVars, captureVars, callerVars
  <1>6. FirstQueued \in Nat /\ ChunksQueued \in Nat
    BY <1>1, <1>2, <1>3 DEF LineStart, FirstQueued, ChunksQueued
  <1>7. 1 <= ChunksQueued => queue[1] = TheChunk(FirstQueued) /\ queue[1] # STOP
    <2>1. SUFFICES ASSUME 1 <= ChunksQueued
                   PROVE  queue[1] = TheChunk(FirstQueued) /\ queue[1] # STOP
      OBVIOUS
    <2>2. queue[1] = TheChunk(FirstQueued + 1 - 1)
      BY <1>1, <1>6, <2>1 DEF Conveyor
    <2>3. queue[1] = TheChunk(FirstQueued)
      BY <1>6, <2>2
    <2>4. TheChunk(FirstQueued) \in Chunk
      BY <1>1, <1>6 DEF Get, TypeOK, ThreadsMatch, TheChunk, Chunk
    <2> QED
      BY <2>3, <2>4, SentinelAssumption
  <1>8. CASE queue[1] = STOP
    <2>1. StopQueued /\ Len(queue) = 1 /\ ChunksQueued = 0
      BY <1>2, <1>7, <1>8 DEF StopQueued, ChunksQueued
    <2>2. ~StopQueued' /\ Len(queue') = 0 /\ queue' = << >> /\ ChunksQueued' = 0
      BY <1>2, <2>1 DEF StopQueued, ChunksQueued
    <2>3. Working' = 0 /\ asr' = "task_done" /\ item' = STOP
      BY <1>2, <1>8 DEF Working
    <2>4. FirstQueued' = FirstQueued
      BY <1>3, <2>1, <2>2 DEF FirstQueued
    <2>5. Conveyor'
      <3>1. DOMAIN transcripts' = 0 .. FirstQueued' - Working' - 1
        BY <1>1, <1>3, <2>3, <2>4 DEF Conveyor, Get
      <3> QED
        BY <1>1, <1>3, <1>4, <2>2, <2>3, <3>1 DEF Conveyor, Get, captureVars, callerVars
    <2>6. LineStart'
      BY <1>1, <1>3, <2>3, <2>4 DEF LineStart
    <2>7. Accounting'
      BY <1>1, <2>1, <2>2, <2>3, PipelineAssumption DEF Get, Accounting
    <2>8. (ThreadsMatch /\ CaptureOver /\ SentinelOnce /\ FramesLeft)'
      BY <1>1, <2>1, <2>2, <2>3
         DEF Get, ThreadsMatch, CaptureOver, SentinelOnce, FramesLeft, AfterCapture,
             sessionVars, policyVars, captureVars, callerVars
    <2> QED
      BY <1>5, <2>5, <2>6, <2>7, <2>8 DEF IInv
  <1>9. CASE queue[1] # STOP
    <2>1. asr' = "transcribe" /\ Working' = 1 /\ item' = queue[1]
      BY <1>2, <1>9 DEF Working
    <2>2. ChunksQueued >= 1 /\ ChunksQueued' = ChunksQueued - 1 /\ (StopQueued' => StopQueued)
      BY <1>2, <1>9 DEF StopQueued, ChunksQueued
    <2>3. FirstQueued' = FirstQueued + 1
      BY <1>3, <1>6, <2>2 DEF FirstQueued
    <2>4. \A i \in 1 .. ChunksQueued' : queue'[i] = TheChunk(FirstQueued + i)
      <3>1. SUFFICES ASSUME NEW i \in 1 .. ChunksQueued'
                     PROVE  queue'[i] = TheChunk(FirstQueued + i)
        OBVIOUS
      <3>2. i + 1 \in 1 .. ChunksQueued /\ i \in 1 .. Len(queue')
        BY <1>2, <1>6, <2>2 DEF ChunksQueued
      <3>3. queue[i + 1] = TheChunk(FirstQueued + (i + 1) - 1)
        BY <1>1, <3>2 DEF Conveyor
      <3>4. FirstQueued + (i + 1) - 1 = FirstQueued + i
        BY <1>6
      <3> QED
        BY <1>2, <3>2, <3>3, <3>4
    <2>5. Conveyor'
      <3>1. item' = TheChunk(FirstQueued' - 1)
        BY <1>6, <1>7, <2>1, <2>2, <2>3
      <3>2. \A i \in 1 .. ChunksQueued' : queue'[i] = TheChunk(FirstQueued' + i - 1)
        BY <1>6, <2>3, <2>4
      <3>3. DOMAIN transcripts' = 0 .. FirstQueued' - Working' - 1
        BY <1>1, <1>3, <1>6, <2>1, <2>3 DEF Conveyor, Get
      <3> QED
        BY <1>1, <1>3, <1>4, <3>1, <3>2, <3>3 DEF Conveyor, Get, captureVars, callerVars
    <2>6. LineStart'
      BY <1>6, <2>1, <2>3 DEF LineStart
    <2>7. (ThreadsMatch /\ CaptureOver /\ SentinelOnce /\ Accounting /\ FramesLeft)'
      BY <1>1, <1>2, <1>9, <2>1, <2>2, PipelineAssumption
         DEF Get, ThreadsMatch, CaptureOver, SentinelOnce, Accounting, FramesLeft, AfterCapture,
             TypeOK, sessionVars, policyVars, captureVars, callerVars
    <2> QED
      BY <1>5, <2>5, <2>6, <2>7 DEF IInv
  <1> QED
    BY <1>8, <1>9

\* The chunk in the ASR thread's hands becomes the next transcript.
LEMMA TranscribeStep ==
    ASSUME IInv, Transcribe
    PROVE  IInv'
  <1>1. /\ TypeOK /\ Conveyor /\ ThreadsMatch /\ CaptureOver /\ SentinelOnce /\ Accounting
        /\ FramesLeft /\ LineStart
    BY DEF IInv
  <1>2. /\ Held' = Held /\ ChunksQueued' = ChunksQueued /\ StopQueued' = StopQueued
        /\ FirstQueued' = FirstQueued /\ Working = 1 /\ Working' = 0
    BY DEF Transcribe, Held, ChunksQueued, StopQueued, FirstQueued, Working, queueVars,
           policyVars, captureVars, callerVars
  <1>3. FirstQueued \in Nat \ {0}
    BY <1>1, <1>2 DEF LineStart, FirstQueued, Held, ChunksQueued, TypeOK
  <1>4. item.sequence = FirstQueued - 1
    BY <1>1 DEF Transcribe, Conveyor, TheChunk
  <1>5. PICK status \in Status : Store(item.sequence, status)
    BY DEF Transcribe
  <1>6. DOMAIN transcripts' = 0 .. FirstQueued - 1
    BY <1>1, <1>2, <1>3, <1>4, <1>5 DEF Store, Conveyor
  <1>7. transcripts' \in [DOMAIN transcripts' -> Status]
    BY <1>1, <1>5 DEF Store, TypeOK
  <1>8. TypeOK'
    BY <1>1, <1>3, <1>6, <1>7
       DEF Transcribe, TypeOK, AsrPc, sessionVars, queueVars, policyVars, captureVars,
           callerVars
  <1>9. \A n : TheChunk(n)' = TheChunk(n)
    BY DEF Transcribe, sessionVars, TheChunk
  <1>10. Conveyor'
    BY <1>1, <1>2, <1>3, <1>6, <1>9
       DEF Conveyor, Transcribe, queueVars, policyVars, captureVars, callerVars
  <1>11. (ThreadsMatch /\ CaptureOver /\ SentinelOnce /\ Accounting /\ FramesLeft /\ LineStart)'
    BY <1>1, <1>2, <1>3
       DEF Transcribe, ThreadsMatch, CaptureOver, SentinelOnce, Accounting, FramesLeft,
           LineStart, AfterCapture, sessionVars, queueVars, policyVars, captureVars, callerVars
  <1> QED
    BY <1>8, <1>10, <1>11 DEF IInv

\* task_done() gives the item back; the transcripts keep their place.
LEMMA ItemDoneStep ==
    ASSUME IInv, ItemDone
    PROVE  IInv'
  <1>1. item' # STOP /\ asr' \in {"return", "get"} /\ Working = 0 /\ Working' = 0
    BY SentinelAssumption DEF ItemDone, Working
  <1>2. /\ Held' = Held /\ ChunksQueued' = ChunksQueued /\ StopQueued' = StopQueued
        /\ FirstQueued' = FirstQueued
    BY DEF ItemDone, Held, ChunksQueued, StopQueued, FirstQueued, policyVars, captureVars,
           callerVars
  <1>3. unfinished' = Len(queue) /\ Len(queue) \in Nat
    BY DEF IInv, TypeOK, Accounting, ItemDone, TaskDone
  <1>4. TypeOK'
    BY <1>1, <1>3
       DEF IInv, TypeOK, ItemDone, AsrPc, sessionVars, policyVars, captureVars, callerVars
  <1>5. \A n : TheChunk(n)' = TheChunk(n)
    BY DEF ItemDone, sessionVars, TheChunk
  <1>6. Conveyor' /\ LineStart'
    BY <1>1, <1>2, <1>5
       DEF IInv, Conveyor, LineStart, ItemDone, policyVars, captureVars, callerVars
  <1>7. (ThreadsMatch /\ CaptureOver /\ SentinelOnce /\ Accounting /\ FramesLeft)'
    BY <1>1, <1>2, <1>3
       DEF IInv, ItemDone, ThreadsMatch, CaptureOver, SentinelOnce, Accounting, FramesLeft,
           AfterCapture, sessionVars, policyVars, captureVars, callerVars
  <1> QED
    BY <1>4, <1>6, <1>7 DEF IInv

\* A step that changes nothing.
LEMMA StutterStep ==
    ASSUME IInv, UNCHANGED vars
    PROVE  IInv'
  BY DEF vars, IInv, TypeOK, Conveyor, ThreadsMatch, CaptureOver, SentinelOnce, Accounting,
         FramesLeft, LineStart, StopQueued, ChunksQueued, Held, Working, FirstQueued,
         TheChunk, AfterCapture, AfterStop, sessionVars, queueVars, policyVars, callerVars,
         captureVars, asrVars

\* Every step of every thread preserves the invariant.
LEMMA NextIInv == IInv /\ [Next]_vars => IInv'
  <1> SUFFICES ASSUME IInv, [Next]_vars
               PROVE  IInv'
    OBVIOUS
  <1>1. CASE Start
    BY <1>1, StartStep
  <1>2. CASE \E method \in {"stop", "cancel", "wait"} : Call(method)
    BY <1>2, CallStep
  <1>3. CASE CallInactive
    BY <1>3, StutterStep DEF CallInactive
  <1>4. CASE CallerStep
    BY <1>4, ControlStep, FinishPolicyStep, PutFinalStep, PutStopStep, BuildResultStep,
       ResetRuntimeStep DEF CallerStep
  <1>5. CASE CaptureStep
    BY <1>5, ControlStep, PushStep, PutChunkStep DEF CaptureStep
  <1>6. CASE AsrStep
    BY <1>6, ControlStep, GetStep, TranscribeStep, ItemDoneStep DEF AsrStep
  <1>7. CASE UNCHANGED vars
    BY <1>7, StutterStep
  <1> QED
    BY <1>1, <1>2, <1>3, <1>4, <1>5, <1>6, <1>7 DEF Next

\* The invariant holds throughout every run of the owner and both threads.
THEOREM Invariance == Spec => []IInv
  BY InitIInv, NextIInv, PTL DEF Spec

-----------------------------------------------------------------------------
(* What the invariant implies. *)

\* Each property the runs check is a consequence of the invariant.
LEMMA IInvImplies ==
    ASSUME IInv
    PROVE  /\ StableAtBuild
           /\ PolicyExclusive
           /\ ReadyBetweenCalls
           /\ MemoryBounded
           /\ RecordingBounded
  <1>1. /\ TypeOK /\ Conveyor /\ ThreadsMatch /\ CaptureOver /\ SentinelOnce /\ Accounting
        /\ FramesLeft /\ LineStart
    BY DEF IInv
  <1>2. StableAtBuild
    <2>1. SUFFICES ASSUME caller \in {"build", "reset"}
                   PROVE  /\ asr = "exit" /\ queue = << >>
                          /\ DOMAIN transcripts = 0 .. nextSeq - 1
      BY DEF StableAtBuild
    <2>2. asr = "exit" /\ queue = << >> /\ capture = "done"
      BY <1>1, <2>1 DEF SentinelOnce, CaptureOver, AfterCapture
    <2>3. FirstQueued = nextSeq /\ Working = 0
      BY <1>1, <2>1, <2>2
         DEF FirstQueued, Working, Held, ChunksQueued, StopQueued, TypeOK
    <2> QED
      BY <1>1, <2>2, <2>3 DEF Conveyor, TypeOK
  <1>3. PolicyExclusive
    BY <1>1 DEF PolicyExclusive, CaptureOver, AfterCapture
  <1>4. ReadyBetweenCalls
    <2>1. SUFFICES ASSUME caller = "idle"
                   PROVE  IF source = "none"
                          THEN capture = "none" /\ asr = "none" /\ unfinished = 0
                          ELSE /\ asr \in {"get", "transcribe", "task_done"}
                               /\ item # STOP /\ ~StopQueued
      BY DEF ReadyBetweenCalls
    <2>2. caller \notin AfterStop
      BY <2>1 DEF AfterStop
    <2>3. CASE source = "none"
      BY <1>1, <2>3 DEF ThreadsMatch, Accounting
    <2>4. CASE source # "none"
      BY <1>1, <2>2, <2>4 DEF ThreadsMatch, SentinelOnce, TypeOK, AsrPc
    <2> QED
      BY <2>3, <2>4
  <1>5. MemoryBounded
    <2>1. ChunksQueued \in 0 .. MaxPending /\ Held \in 0 .. 1 /\ Working \in 0 .. 1
      BY <1>1, PipelineAssumption
         DEF Accounting, TypeOK, ChunksQueued, StopQueued, Held, Working
    <2>2. FirstQueued - Working >= nextSeq - (MaxPending + 2)
      <3>1. nextSeq \in Int /\ MaxPending \in Int
        BY <1>1, PipelineAssumption DEF TypeOK
      <3> QED
        BY <2>1, <3>1 DEF FirstQueued
    <2>3. FirstQueued - Working \in Int
      BY <1>1, <2>1, PipelineAssumption DEF FirstQueued, TypeOK
    <2>4. SUFFICES ASSUME NEW n \in 0 .. nextSeq - 1, n + MaxPending + 2 < nextSeq
                   PROVE  n \in 0 .. FirstQueued - Working - 1
      BY <1>1 DEF Conveyor, MemoryBounded
    <2>5. n \in Int /\ n >= 0 /\ nextSeq \in Int /\ MaxPending \in Int
      BY <1>1, <2>4, PipelineAssumption DEF TypeOK
    <2> DEFINE line == FirstQueued - Working
    <2> HIDE DEF line
    <2>6. line \in Int /\ line >= nextSeq - (MaxPending + 2)
      BY <2>2, <2>3 DEF line
    <2>7. n \in 0 .. line - 1
      BY <2>4, <2>5, <2>6
    <2> QED
      BY <2>7 DEF line
  <1>6. RecordingBounded
    BY <1>1 DEF FramesLeft, RecordingBounded
  <1> QED
    BY <1>2, <1>3, <1>4, <1>5, <1>6

\* Every variable keeps its type, whatever the threads' interleaving.
THEOREM TypeCorrect == Spec => []TypeOK
  BY Invariance, PTL DEF IInv

\* No chunk of any session is lost, repeated, reordered or taken for another's.
THEOREM ChunksInLine == Spec => []Conveyor
  BY Invariance, PTL DEF IInv

\* The unlocked read in _build_result sees every transcript and no writer.
THEOREM BuildReadsAll == Spec => []StableAtBuild
  BY Invariance, IInvImplies, PTL

\* finish() and push() never run at the same time.
THEOREM PolicyHasOneUser == Spec => []PolicyExclusive
  BY Invariance, IInvImplies, PTL

\* Whatever stop() or cancel() raised, a later one finds its ASR thread.
THEOREM AlwaysReady == Spec => []ReadyBetweenCalls
  BY Invariance, IInvImplies, PTL

\* At most max_pending_chunks + 2 chunks of audio await transcription.
THEOREM BoundedBacklog == Spec => []MemoryBounded
  BY Invariance, IInvImplies, PTL

\* No session captures more than its maximum duration.
THEOREM BoundedRecording == Spec => []RecordingBounded
  BY Invariance, IInvImplies, PTL

-----------------------------------------------------------------------------
(* The pipeline implements Dictation. *)

\* stop() hands over what it read when it built the result.
BuiltInv == caller = "reset" /\ op # "cancel" => built = transcripts

\* What stop() built stays equal to the transcripts until the reset.
LEMMA BuiltStep == IInv /\ BuiltInv /\ [Next]_vars => BuiltInv'
  <1> SUFFICES ASSUME IInv, BuiltInv, [Next]_vars, caller' = "reset", op' # "cancel"
               PROVE  built' = transcripts'
    BY DEF BuiltInv
  <1>1. CASE CallerStep
    BY <1>1 DEF BuiltInv, CallerStep, WaitJoin, StopSource, SourceStopped, SourceStuck,
       JoinCapture, CaptureStoppedCallback, CallbackRaises, FinishPolicy, PutFinal, PutStop,
       JoinQueue, JoinAsr, BuildResult, ResetRuntime, GiveUp, asrVars
  <1>2. CASE CaptureStep
    BY <1>2 DEF BuiltInv, CaptureStep, Open, Test, ReadFrame, ReadEnd, ReadError, Push,
       PutChunk, Limit, Halt, asrVars, callerVars
  <1>3. CASE AsrStep
    BY <1>3 DEF IInv, SentinelOnce, BuiltInv, AsrStep, Get, Transcribe, ItemDone, Return,
       callerVars
  <1>4. CASE Start \/ CallInactive \/ UNCHANGED vars
    BY <1>4 DEF BuiltInv, Start, CallInactive, vars, callerVars, asrVars
  <1>5. CASE \E method \in {"stop", "cancel", "wait"} : Call(method)
    BY <1>5 DEF Call
  <1> QED
    BY <1>1, <1>2, <1>3, <1>4, <1>5 DEF Next

\* The abstract empty result is the empty _transcripts.
LEMMA NothingIsNoTranscripts == D!Nothing = NoTranscripts
  BY DEF D!Nothing, NoTranscripts

\* A PipelineSession just constructed is an idle Dictation.
LEMMA InitRefines == Init => D!Init
  BY NothingIsNoTranscripts DEF Init, D!Init, Active

\* Every step is a step of Dictation, or changes nothing it can see.
LEMMA StepRefines == IInv /\ BuiltInv /\ [Next]_vars => [D!Next]_(D!vars)
  <1> SUFFICES ASSUME IInv, BuiltInv, [Next]_vars
               PROVE  D!Next \/ UNCHANGED D!vars
    OBVIOUS
  <1> USE DEF D!vars
  <1>1. CASE Start
    <2>1. CASE source' = source
      BY <1>1, <2>1 DEF Start, StartClears, Active, callerVars
    <2>2. CASE source' = "running"
      <3>1. D!Begin
        BY <1>1, <2>2, NothingIsNoTranscripts
           DEF Start, StartClears, Active, callerVars, D!Begin, D!Nothing
      <3> QED
        BY <3>1 DEF D!Next
    <2> QED
      BY <1>1, <2>1, <2>2 DEF Start
  <1>2. CASE ResetRuntime
    <2>1. source # "none" /\ source' = "none"
      BY <1>2 DEF IInv, ThreadsMatch, ResetRuntime, ClearRuntime
    <2>2. DOMAIN transcripts = 0 .. nextSeq - 1
      BY <1>2, IInvImplies DEF StableAtBuild, ResetRuntime
    <2>3. CASE op = "cancel" \/ captureError
      <3>1. D!Abandon
        BY <1>2, <2>1, <2>3, NothingIsNoTranscripts
           DEF ResetRuntime, Returned, Active, D!Abandon, D!Forget
      <3> QED
        BY <3>1 DEF D!Next
    <2>4. CASE op # "cancel" /\ ~captureError
      <3>1. result' = transcripts
        BY <1>2, <2>4 DEF ResetRuntime, Returned, BuiltInv
      <3>2. D!Finish
        BY <2>1, <2>2, <2>4, <3>1, NothingIsNoTranscripts DEF Active, D!Finish, D!Forget
      <3> QED
        BY <3>2 DEF D!Next
    <2> QED
      BY <2>3, <2>4
  <1>3. CASE Transcribe
    <2> DEFINE n == FirstQueued - 1
    <2>1. source # "none" /\ UNCHANGED <<source, nextSeq, captureError, result>>
      BY <1>3 DEF IInv, ThreadsMatch, Transcribe, sessionVars, policyVars, callerVars
    <2>2. Working = 1 /\ Held \in 0 .. 1 /\ ChunksQueued \in Nat /\ nextSeq \in Nat
      BY <1>3 DEF IInv, TypeOK, Transcribe, Working, Held, ChunksQueued, StopQueued
    <2>3. n \in 0 .. nextSeq - 1 /\ DOMAIN transcripts = 0 .. n - 1 /\ item.sequence = n
      BY <1>3, <2>2 DEF IInv, LineStart, FirstQueued, Conveyor, Transcribe, TheChunk
    <2>4. PICK status \in Status : Store(n, status)
      BY <1>3, <2>3 DEF Transcribe
    <2>5. DOMAIN transcripts \cup {n} = 0 .. n
      BY <2>3
    <2>6. transcripts' = [m \in 0 .. n |-> IF m = n THEN status ELSE transcripts[m]]
      BY <2>4, <2>5 DEF Store
    <2>7. D!Hear
      <3> HIDE DEF n
      <3> QED
        BY <2>1, <2>3, <2>6 DEF D!Hear, Active
    <2> QED
      BY <2>7 DEF D!Next
  <1>4. CASE Push \/ FinishPolicy
    <2>1. source # "none" /\ UNCHANGED <<source, captureError, result, transcripts>>
      BY <1>4 DEF IInv, ThreadsMatch, Push, FinishPolicy, sessionVars, callerVars, asrVars
    <2>2. CASE nextSeq' = nextSeq + 1
      <3>1. D!Speak
        BY <2>1, <2>2 DEF D!Speak, Active
      <3> QED
        BY <3>1 DEF D!Next
    <2>3. CASE nextSeq' = nextSeq
      BY <2>1, <2>3 DEF Active
    <2> QED
      BY <1>4, <2>2, <2>3 DEF Push, FinishPolicy
  <1>5. CASE Open \/ ReadError \/ Halt
    <2>1. /\ source # "none" /\ source' # "none"
          /\ UNCHANGED <<nextSeq, result, transcripts>>
      BY <1>5 DEF IInv, ThreadsMatch, Open, ReadError, Halt, policyVars, callerVars, asrVars
    <2>2. CASE captureError' = captureError
      BY <2>1, <2>2 DEF Active
    <2>3. CASE captureError' = TRUE
      <3>1. D!Break
        BY <2>1, <2>3 DEF D!Break, Active
      <3> QED
        BY <3>1 DEF D!Next
    <2> QED
      BY <1>5, <2>2, <2>3 DEF Open, ReadError, Halt
  <1>6. CASE Limit \/ StopSource \/ SourceStopped
    <2>1. /\ source # "none" /\ source' # "none"
          /\ UNCHANGED <<nextSeq, result, transcripts, captureError>>
      BY <1>6 DEF IInv, ThreadsMatch, Limit, StopSource, SourceStopped, policyVars, callerVars,
                  asrVars
    <2> QED
      BY <2>1 DEF Active
  <1>7. CASE UNCHANGED <<source, nextSeq, result, transcripts, captureError>>
    BY <1>7 DEF Active
  <1>8. \/ Start \/ ResetRuntime \/ Transcribe \/ Push \/ FinishPolicy \/ Open \/ ReadError
        \/ Halt \/ Limit \/ StopSource \/ SourceStopped
        \/ UNCHANGED <<source, nextSeq, result, transcripts, captureError>>
    BY DEF Next, Call, CallInactive, CallerStep, WaitJoin, SourceStuck, JoinCapture,
       CaptureStoppedCallback, CallbackRaises, PutFinal, PutStop, JoinQueue, JoinAsr,
       BuildResult, GiveUp, CaptureStep, Test, ReadFrame, ReadEnd, PutChunk, AsrStep, Get,
       ItemDone, Return, vars, sessionVars, policyVars, callerVars, asrVars
  <1> QED
    BY <1>1, <1>2, <1>3, <1>4, <1>5, <1>6, <1>7, <1>8

\* PipelineSession keeps what Dictation promises: whatever stop() returns holds
\* every chunk of its session, transcribed once and in order, and a session
\* whose capture failed, or that was cancelled, returns nothing.
THEOREM ImplementsDictation == Spec => Refinement
  <1>1. Init => BuiltInv
    BY DEF Init, BuiltInv
  <1>2. Spec => []BuiltInv
    BY <1>1, Invariance, BuiltStep, PTL DEF Spec
  <1> QED
    BY <1>2, Invariance, InitRefines, StepRefines, PTL DEF Spec, Refinement, D!Spec
=============================================================================
