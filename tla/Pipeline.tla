------------------------------ MODULE Pipeline ------------------------------
(***************************************************************************)
(* speaktap/pipeline.py: PipelineSession.  One owner thread (the caller of *)
(* start, stop, cancel and wait), one capture thread and one ASR thread    *)
(* share a bounded queue; a sentinel sent after the last chunk ends the    *)
(* ASR thread.                                                             *)
(*                                                                         *)
(* The audio source is abstract here: stop() first tells the source to end *)
(* ("stopping"), then waits for its process and either succeeds            *)
(* ("stopped") or raises, leaving a process that may still live.  How      *)
(* capture/linux_arecord.py does that is the business of a module of its   *)
(* own.  The chunk policy is reduced to the number of chunks it cut: push  *)
(* and finish return no chunk or one.                                      *)
(***************************************************************************)
EXTENDS Integers, Sequences

CONSTANTS MaxPending,   \* max_pending_chunks, the maxsize of the queue
          MaxFrames,    \* frames until frame.end_ms >= max_recording_ms
          MaxSessions,  \* bound: calls of start() considered
          STOP,         \* the sentinel _STOP
          NoResult      \* stop() has not returned a result yet

(* config.py refuses max_pending_chunks < 1 and max_recording_seconds <= 0 *)
ASSUME PipelineAssumption ==
    /\ MaxPending \in Nat \ {0}
    /\ MaxFrames \in Nat \ {0}
    /\ MaxSessions \in Nat

Status == {"ok", "error"}

\* A queued chunk carries the session and the sequence number the policy gave it.
Chunk == [session : 1 .. MaxSessions, sequence : Nat]

NoChunk == [session |-> 0, sequence |-> 0]

\* object() is equal to no chunk
ASSUME SentinelAssumption == STOP \notin Chunk \cup {NoChunk}

VARIABLES
    session,      \* number of start() calls made: the current _session_id
    source,       \* _source: "none", or the condition of the source it names
    captureError, \* _capture_error is not None
    queue,        \* the contents of _queue
    unfinished,   \* _queue.unfinished_tasks, what join() waits on
    nextSeq,      \* the policy's next sequence number: chunks cut so far
    frames,       \* frames captured in this session
    transcripts,  \* _transcripts: sequence number -> Status
    op,           \* the method the owner is executing, or "none"
    caller,       \* where in that method it is
    heldByCaller, \* the chunk finish() returned, while the owner puts it
    built,        \* the local `result` of stop()
    result,       \* what stop() last returned
    capture,      \* program counter of the capture thread
    heldByCapture,\* the chunk push() returned, while the thread puts it
    asr,          \* program counter of the ASR thread
    item          \* the item the ASR thread took from the queue

sessionVars == <<session, source, captureError>>
queueVars   == <<queue, unfinished>>
policyVars  == <<nextSeq, frames>>
callerVars  == <<op, caller, heldByCaller, built, result>>
captureVars == <<capture, heldByCapture>>
asrVars     == <<asr, item, transcripts>>
vars == <<sessionVars, queueVars, policyVars, callerVars, captureVars, asrVars>>

CallerPc  == {"idle", "wait_join", "stop_source", "await_source", "join_capture",
              "callback", "finish_policy", "put_final", "put_stop",
              "join_queue", "join_asr", "build", "reset"}
CapturePc == {"none", "open", "test", "read", "push", "put", "limit", "halt", "done"}
AsrPc     == {"none", "get", "transcribe", "task_done", "return", "exit"}

NoTranscripts == [n \in {} |-> "ok"]
TheChunk(n) == [session |-> session, sequence |-> n]

Init ==
    /\ session = 0
    /\ source = "none"
    /\ captureError = FALSE
    /\ queue = << >>
    /\ unfinished = 0
    /\ nextSeq = 0
    /\ frames = 0
    /\ transcripts = NoTranscripts
    /\ op = "none"
    /\ caller = "idle"
    /\ heldByCaller = NoChunk
    /\ built = NoResult
    /\ result = NoResult
    /\ capture = "none"
    /\ heldByCapture = NoChunk
    /\ asr = "none"
    /\ item = NoChunk

-----------------------------------------------------------------------------
(* Definitions named Bug... are variants of the definition after them that  *)
(* a slip in the code would produce.  No specification uses them: they show *)
(* that the properties below can fail.                                      *)
-----------------------------------------------------------------------------
(* queue.Queue: put blocks while full and counts an unfinished task, get    *)
(* blocks while empty, task_done uncounts one.                              *)

\* Bug: Queue() without maxsize.
BugPutUnbounded(x) ==
    /\ queue' = Append(queue, x)
    /\ unfinished' = unfinished + 1

Put(x) ==
    /\ Len(queue) < MaxPending
    /\ queue' = Append(queue, x)
    /\ unfinished' = unfinished + 1

\* Bug: task_done() both in the handler and in its finally.
BugTaskDoneTwice == unfinished' = unfinished - 2

\* Bug: the sentinel's return comes before task_done().
BugNoTaskDoneForStop ==
    unfinished' = IF item = STOP THEN unfinished ELSE unfinished - 1

TaskDone == unfinished' = unfinished - 1

-----------------------------------------------------------------------------
(* The owner: start, stop, cancel, wait.                                    *)

\* Bug: the transcripts of the previous session are kept.
BugStartKeepsTranscripts ==
    /\ captureError' = FALSE
    /\ queue' = << >>
    /\ unfinished' = 0
    /\ nextSeq' = 0
    /\ frames' = 0
    /\ UNCHANGED transcripts

\* start() clears what the previous session left before it opens the source.
StartClears ==
    /\ captureError' = FALSE
    /\ queue' = << >>
    /\ unfinished' = 0
    /\ transcripts' = NoTranscripts
    /\ nextSeq' = 0
    /\ frames' = 0

\* start() succeeds, or source.start() raises and _source stays None.
Start ==
    /\ caller = "idle"
    /\ source = "none"
    /\ session < MaxSessions
    /\ session' = session + 1
    /\ StartClears
    /\ \/ /\ source' = "running"
          /\ capture' = "open"
          /\ asr' = "get"
       \/ UNCHANGED <<source, capture, asr>>
    /\ UNCHANGED <<callerVars, heldByCapture, item>>

\* stop() raises at once when no session is active; cancel() then returns.
Call(method) ==
    /\ caller = "idle"
    /\ source # "none"
    /\ op' = method
    /\ caller' = IF method = "wait" THEN "wait_join" ELSE "stop_source"
    /\ UNCHANGED <<sessionVars, queueVars, policyVars, heldByCaller, built, result,
                   captureVars, asrVars>>

CallInactive ==
    /\ caller = "idle"
    /\ source = "none"
    /\ UNCHANGED vars

\* wait() joins the capture thread, then runs stop().
WaitJoin ==
    /\ caller = "wait_join"
    /\ capture = "done"
    /\ caller' = "stop_source"
    /\ UNCHANGED <<sessionVars, queueVars, policyVars, op, heldByCaller, built, result,
                   captureVars, asrVars>>

\* source.stop() first makes the reading loop end ...
StopSource ==
    /\ caller = "stop_source"
    /\ source' = IF source = "running" THEN "stopping" ELSE source
    /\ caller' = "await_source"
    /\ UNCHANGED <<session, captureError, queueVars, policyVars, op, heldByCaller, built,
                   result, captureVars, asrVars>>

\* ... and then reaps the process ...
SourceStopped ==
    /\ caller = "await_source"
    /\ source' = "stopped"
    /\ caller' = "join_capture"
    /\ UNCHANGED <<session, captureError, queueVars, policyVars, op, heldByCaller, built,
                   result, captureVars, asrVars>>

\* The owner's method ends here; _source keeps its value.
GiveUp ==
    /\ op' = "none"
    /\ caller' = "idle"
    /\ UNCHANGED <<sessionVars, queueVars, policyVars, heldByCaller, built, result,
                   captureVars, asrVars>>

\* ... or raises TimeoutExpired out of stop() or cancel().
SourceStuck ==
    /\ caller = "await_source"
    /\ source = "stopping"
    /\ GiveUp

\* Bug: the capture thread is not joined.
BugNoJoinCapture ==
    /\ caller = "join_capture"
    /\ caller' = IF op = "cancel" THEN "put_stop" ELSE "callback"
    /\ UNCHANGED <<sessionVars, queueVars, policyVars, op, heldByCaller, built, result,
                   captureVars, asrVars>>

JoinCapture ==
    /\ caller = "join_capture"
    /\ capture = "done"
    /\ caller' = IF op = "cancel" THEN "put_stop" ELSE "callback"
    /\ UNCHANGED <<sessionVars, queueVars, policyVars, op, heldByCaller, built, result,
                   captureVars, asrVars>>

\* on_capture_stopped() plays a sound: it returns ...
CaptureStoppedCallback ==
    /\ caller = "callback"
    /\ caller' = "finish_policy"
    /\ UNCHANGED <<sessionVars, queueVars, policyVars, op, heldByCaller, built, result,
                   captureVars, asrVars>>

\* ... or raises out of stop().
CallbackRaises ==
    /\ caller = "callback"
    /\ GiveUp

\* The policy's finish() flushes what it still buffers, if anything.
FinishPolicy ==
    /\ caller = "finish_policy"
    /\ \/ /\ heldByCaller' = TheChunk(nextSeq)
          /\ nextSeq' = nextSeq + 1
          /\ caller' = "put_final"
       \/ /\ caller' = "put_stop"
          /\ UNCHANGED <<heldByCaller, nextSeq>>
    /\ UNCHANGED <<sessionVars, queueVars, frames, op, built, result, captureVars, asrVars>>

PutFinal ==
    /\ caller = "put_final"
    /\ Put(heldByCaller)
    /\ heldByCaller' = NoChunk
    /\ caller' = "put_stop"
    /\ UNCHANGED <<sessionVars, policyVars, op, built, result, captureVars, asrVars>>

\* _finish_asr: the sentinel, queue.join(), then asr_thread.join().
PutStop ==
    /\ caller = "put_stop"
    /\ Put(STOP)
    /\ caller' = "join_queue"
    /\ UNCHANGED <<sessionVars, policyVars, op, heldByCaller, built, result, captureVars,
                   asrVars>>

JoinQueue ==
    /\ caller = "join_queue"
    /\ unfinished = 0
    /\ caller' = "join_asr"
    /\ UNCHANGED <<sessionVars, queueVars, policyVars, op, heldByCaller, built, result,
                   captureVars, asrVars>>

\* Bug: queue.join() is taken to be enough.
BugNoJoinAsr ==
    /\ caller = "join_asr"
    /\ caller' = IF op = "cancel" THEN "reset" ELSE "build"
    /\ UNCHANGED <<sessionVars, queueVars, policyVars, op, heldByCaller, built, result,
                   captureVars, asrVars>>

JoinAsr ==
    /\ caller = "join_asr"
    /\ asr = "exit"
    /\ caller' = IF op = "cancel" THEN "reset" ELSE "build"
    /\ UNCHANGED <<sessionVars, queueVars, policyVars, op, heldByCaller, built, result,
                   captureVars, asrVars>>

\* _build_result reads _transcripts without the lock.
BuildResult ==
    /\ caller = "build"
    /\ built' = transcripts
    /\ caller' = "reset"
    /\ UNCHANGED <<sessionVars, queueVars, policyVars, op, heldByCaller, result,
                   captureVars, asrVars>>

\* Bug: stop() raises the capture error before it resets.
BugRaiseBeforeReset ==
    IF op # "cancel" /\ captureError
    THEN UNCHANGED <<source, capture, asr, queue>>
    ELSE source' = "none" /\ capture' = "none" /\ asr' = "none" /\ queue' = << >>

\* _reset_runtime drops the source, the two threads and the queue.
ClearRuntime ==
    /\ source' = "none"
    /\ capture' = "none"
    /\ asr' = "none"
    /\ queue' = << >>

\* Bug: what was captured before the failure passes for the whole speech.
BugReturnedAfterFailure == IF op = "cancel" THEN result ELSE built

\* cancel() returns nothing; stop() raises when capture failed.
Returned == IF op = "cancel" \/ captureError THEN result ELSE built

\* The reset comes before stop() raises, so that it happens either way.
ResetRuntime ==
    /\ caller = "reset"
    /\ ClearRuntime
    /\ result' = Returned
    /\ built' = NoResult
    /\ op' = "none"
    /\ caller' = "idle"
    /\ UNCHANGED <<session, captureError, unfinished, policyVars, heldByCaller,
                   heldByCapture, item, transcripts>>

CallerStep ==
    \/ WaitJoin \/ StopSource \/ SourceStopped \/ SourceStuck \/ JoinCapture
    \/ CaptureStoppedCallback \/ CallbackRaises \/ FinishPolicy \/ PutFinal \/ PutStop
    \/ JoinQueue \/ JoinAsr \/ BuildResult \/ ResetRuntime

-----------------------------------------------------------------------------
(* The capture thread.                                                      *)

\* frames() runs only at the first iteration: it raises when the source was
\* stopped before this thread got that far.
Open ==
    /\ capture = "open"
    /\ IF source = "stopped"
       THEN capture' = "done" /\ captureError' = TRUE
       ELSE capture' = "test" /\ UNCHANGED captureError
    /\ UNCHANGED <<session, source, queueVars, policyVars, callerVars, heldByCapture, asrVars>>

\* The generator yields no frame once the source has been told to stop.
Test ==
    /\ capture = "test"
    /\ capture' = IF source = "running" THEN "read" ELSE "done"
    /\ UNCHANGED <<sessionVars, queueVars, policyVars, callerVars, heldByCapture, asrVars>>

\* A read already under way when the source is stopped may still complete.
ReadFrame ==
    /\ capture = "read"
    /\ frames' = frames + 1
    /\ capture' = "push"
    /\ UNCHANGED <<sessionVars, queueVars, nextSeq, callerVars, heldByCapture, asrVars>>

ReadEnd ==
    /\ capture = "read"
    /\ capture' = "done"
    /\ UNCHANGED <<sessionVars, queueVars, policyVars, callerVars, heldByCapture, asrVars>>

\* The source, the detector or the policy raises.
ReadError ==
    /\ capture = "read"
    /\ capture' = "done"
    /\ captureError' = TRUE
    /\ UNCHANGED <<session, source, queueVars, policyVars, callerVars, heldByCapture, asrVars>>

Push ==
    /\ capture = "push"
    /\ \/ /\ heldByCapture' = TheChunk(nextSeq)
          /\ nextSeq' = nextSeq + 1
          /\ capture' = "put"
       \/ /\ capture' = "limit"
          /\ UNCHANGED <<heldByCapture, nextSeq>>
    /\ UNCHANGED <<sessionVars, queueVars, frames, callerVars, asrVars>>

\* _put_chunk: the capture thread waits here while the ASR thread is behind.
PutChunk ==
    /\ capture = "put"
    /\ Put(heldByCapture)
    /\ heldByCapture' = NoChunk
    /\ capture' = "limit"
    /\ UNCHANGED <<sessionVars, policyVars, callerVars, asrVars>>

\* Bug: end_ms > max_recording_ms.
BugLimitOffByOne ==
    /\ capture = "limit"
    /\ IF frames > MaxFrames
       THEN /\ source' = IF source = "running" THEN "stopping" ELSE source
            /\ capture' = "halt"
       ELSE capture' = "test" /\ UNCHANGED source
    /\ UNCHANGED <<session, captureError, queueVars, policyVars, callerVars, heldByCapture,
                   asrVars>>

\* At the maximum duration this thread stops the source itself.
Limit ==
    /\ capture = "limit"
    /\ IF frames >= MaxFrames
       THEN /\ source' = IF source = "running" THEN "stopping" ELSE source
            /\ capture' = "halt"
       ELSE capture' = "test" /\ UNCHANGED source
    /\ UNCHANGED <<session, captureError, queueVars, policyVars, callerVars, heldByCapture,
                   asrVars>>

Halt ==
    /\ capture = "halt"
    /\ capture' = "done"
    /\ \/ source' = "stopped" /\ UNCHANGED captureError
       \/ source = "stopping" /\ captureError' = TRUE /\ UNCHANGED source
    /\ UNCHANGED <<session, queueVars, policyVars, callerVars, heldByCapture, asrVars>>

CaptureStep ==
    \/ Open \/ Test \/ ReadFrame \/ ReadEnd \/ ReadError \/ Push \/ PutChunk \/ Limit \/ Halt

-----------------------------------------------------------------------------
(* The ASR thread.                                                          *)

Get ==
    /\ asr = "get"
    /\ queue # << >>
    /\ item' = Head(queue)
    /\ queue' = Tail(queue)
    /\ asr' = IF Head(queue) = STOP THEN "task_done" ELSE "transcribe"
    /\ UNCHANGED <<sessionVars, unfinished, policyVars, callerVars, captureVars, transcripts>>

\* _transcripts[n] = transcript: a dictionary store.
Store(n, status) ==
    transcripts' = [m \in DOMAIN transcripts \cup {n} |->
                      IF m = n THEN status ELSE transcripts[m]]

\* Bug: an exception of the backend ends the ASR thread.
BugTranscribeDies ==
    /\ asr = "transcribe"
    /\ \/ Store(item.sequence, "ok") /\ asr' = "task_done"
       \/ asr' = "exit" /\ UNCHANGED transcripts
    /\ UNCHANGED <<sessionVars, queueVars, policyVars, callerVars, captureVars, item>>

\* A failing backend yields a transcript that carries the error.
Transcribe ==
    /\ asr = "transcribe"
    /\ \E status \in Status : Store(item.sequence, status)
    /\ asr' = "task_done"
    /\ UNCHANGED <<sessionVars, queueVars, policyVars, callerVars, captureVars, item>>

\* finally: task_done(), also on the way out after the sentinel.
ItemDone ==
    /\ asr = "task_done"
    /\ TaskDone
    /\ asr' = IF item = STOP THEN "return" ELSE "get"
    /\ item' = NoChunk
    /\ UNCHANGED <<sessionVars, queue, policyVars, callerVars, captureVars, transcripts>>

Return ==
    /\ asr = "return"
    /\ asr' = "exit"
    /\ UNCHANGED <<sessionVars, queueVars, policyVars, callerVars, captureVars, item,
                   transcripts>>

AsrStep == Get \/ Transcribe \/ ItemDone \/ Return

-----------------------------------------------------------------------------
Next ==
    \/ Start
    \/ \E method \in {"stop", "cancel", "wait"} : Call(method)
    \/ CallInactive
    \/ CallerStep
    \/ CaptureStep
    \/ AsrStep

Spec == Init /\ [][Next]_vars

(* Threads are scheduled fairly.  Nothing makes the owner call anything,    *)
(* and a read from a source whose process may still live can block for      *)
(* ever; once the process is reaped its pipe is closed and the read ends.   *)
Fairness ==
    /\ WF_vars(CallerStep)
    /\ WF_vars(CaptureStep /\ (capture # "read" \/ source = "stopped"))
    /\ WF_vars(AsrStep)

FairSpec == Spec /\ Fairness

-----------------------------------------------------------------------------
(* Properties.                                                              *)

\* Types: every variable, including the chunk each thread holds.
TypeOK ==
    /\ session \in 0 .. MaxSessions
    /\ source \in {"none", "running", "stopping", "stopped"}
    /\ captureError \in BOOLEAN
    /\ queue \in Seq(Chunk \cup {STOP})
    /\ unfinished \in Nat
    /\ nextSeq \in Nat
    /\ frames \in Nat
    /\ transcripts \in [DOMAIN transcripts -> Status]
    /\ DOMAIN transcripts \subseteq Nat
    /\ op \in {"none", "stop", "cancel", "wait"}
    /\ caller \in CallerPc
    /\ heldByCaller \in Chunk \cup {NoChunk}
    /\ capture \in CapturePc
    /\ heldByCapture \in Chunk \cup {NoChunk}
    /\ asr \in AsrPc
    /\ item \in Chunk \cup {NoChunk, STOP}

StopQueued   == queue # << >> /\ queue[Len(queue)] = STOP
ChunksQueued == IF StopQueued THEN Len(queue) - 1 ELSE Len(queue)
Held         == IF capture = "put" \/ caller = "put_final" THEN 1 ELSE 0
Working      == IF asr = "transcribe" THEN 1 ELSE 0
FirstQueued  == nextSeq - Held - ChunksQueued

\* The chunks cut so far stand in one line, none missing, none twice, none
\* from another session: those transcribed, the one being transcribed, those
\* queued, the one a thread is putting.  Only then is the sentinel's place in
\* the FIFO the end of the session's speech.
Conveyor ==
    /\ DOMAIN transcripts = 0 .. FirstQueued - Working - 1
    /\ asr = "transcribe" => item = TheChunk(FirstQueued - 1)
    /\ \A i \in 1 .. ChunksQueued : queue[i] = TheChunk(FirstQueued + i - 1)
    /\ capture = "put" => heldByCapture = TheChunk(nextSeq - 1)
    /\ caller = "put_final" => heldByCaller = TheChunk(nextSeq - 1)

\* _build_result reads _transcripts without the lock: by then no thread may
\* write them, and they answer for every chunk cut.
StableAtBuild ==
    caller \in {"build", "reset"} =>
        /\ asr = "exit"
        /\ queue = << >>
        /\ DOMAIN transcripts = 0 .. nextSeq - 1

\* The policy is not thread-safe: finish() runs only when the capture thread
\* can no longer be in push().
PolicyExclusive == caller = "finish_policy" => capture = "done"

\* Between two calls the pipeline can take the next one.  Without a session no
\* thread is left over; with one, whatever an earlier stop() raised, the ASR
\* thread still takes the sentinel that a later stop() or cancel() sends, and
\* has not been sent one already.
ReadyBetweenCalls ==
    caller = "idle" =>
        IF source = "none"
        THEN capture = "none" /\ asr = "none" /\ unfinished = 0
        ELSE asr \in {"get", "transcribe", "task_done"} /\ item # STOP /\ ~StopQueued

\* The queue bounds the audio in memory: a chunk is transcribed before
\* MaxPending + 2 later ones have been cut (one in the ASR thread's hands and
\* one in the capture thread's).
MemoryBounded ==
    \A n \in 0 .. nextSeq - 1 : n + MaxPending + 2 < nextSeq => n \in DOMAIN transcripts

\* A session never captures past its maximum duration.
RecordingBounded == frames <= MaxFrames

\* docs/architecture.md, if ASR falls behind: "microphone capture continues;
\* finalized chunks remain queued".  The capture thread is never kept from
\* reading by a full queue.
CaptureContinues == capture = "put" => Len(queue) < MaxPending

\* A recording nobody stops lets go of the microphone at its maximum duration,
\* also when the queue is full at that moment.
LimitFreesMicrophone == (frames >= MaxFrames) ~> (source # "running")

\* stop() and cancel() return or raise, whatever the threads were doing when
\* they were called and however full the queue was.
CallsReturn == (op \in {"stop", "cancel"}) ~> (op = "none")

\* A queued chunk is transcribed although nobody stops the session and
\* although a chunk before it failed.
QueuedIsHeard ==
    \A n \in 0 .. MaxFrames :
        (\E i \in 1 .. ChunksQueued : queue[i].sequence = n) ~> (n \in DOMAIN transcripts)

-----------------------------------------------------------------------------
\* The pipeline implements what Dictation.tla promises: results are complete,
\* in order, of one session, and never made of a failed capture.
Active == source # "none"

D == INSTANCE Dictation WITH
        phase  <- IF Active THEN "active" ELSE "idle",
        spoken <- IF Active THEN nextSeq ELSE 0,
        heard  <- IF Active THEN transcripts ELSE NoTranscripts,
        broken <- Active /\ captureError

Refinement == D!Spec
=============================================================================
