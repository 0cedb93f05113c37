# SpeakTap in TLA+

SpeakTap is a dictation daemon. A hotkey runs a short-lived client, the client
talks to one long-lived service over a UNIX socket, the service records from
`arecord`, cuts the audio into chunks while the user speaks, transcribes the
chunks in a background thread and, after the second press, types or copies the
text. This directory models the parts of it where threads, failures and state
meet, checks them with TLC and proves the central ones with TLAPS.

## The system

| Component | State it keeps | Operations | Interacts with |
| --- | --- | --- | --- |
| `pipeline.py` `PipelineSession` | source, queue, transcripts, capture error, two threads | start, stop, wait, cancel; capture loop; ASR loop | source, detector, policy and backend by calls; its threads by queue, sentinel and joins |
| `segmentation/adaptive.py` | buffer, pre-roll, flags, running silence, overlap | reset, push, finish | called by the capture thread, then by the owner |
| `service.py` | idle / recording / finalizing / outputting, session, last error | start, begin_finalization, begin_output, complete, cancel, fail | called by the command handlers |
| `service_app.py` | current pipeline, shutdown flag, signal flag | status, start, stop, cancel, shutdown; socket loop | pipeline, state machine, outputs, log, cues |
| `capture/linux_arecord.py` | process, stopping event, pending bytes | start, frames, stop | child process and its pipes |
| `capture/file.py`, `file_cli.py` | payload | start, frames, stop | pipeline's wait() |
| `activity/adaptive_energy.py` | noise floor, in-speech | reset, analyze | capture thread |
| `transcription/onnx_backend.py` | model | load, warmup, transcribe, close | ASR thread, service |
| `assembly/overlap.py`, `cleanup/safe.py` | none | pure functions on words | `_build_result` |
| `output/linux.py` | none | deliver, notify, play a sound | child processes |
| `diagnostics.py` | the session log file | success, failure | service |
| `client.py`, `protocol.py`, `runtime.py` | socket and lock files | ensure service, toggle, send | service |
| `config.py`, `profiles.py`, `model_cli.py`, `install.sh` | installed configuration | load, validate, select | service at start-up |
| `speaktap/benchmark`, `benchmark/cleanup` | none | measuring, training | not part of the running system |

What is hard in it, and what makes each part correct:

* **Pipeline.** Three threads share a policy, a queue and a dictionary, mostly
  without locks; correctness rests on the order source stop, capture join,
  policy flush, sentinel, queue join, ASR join, read, reset. Each step may be
  cut short by an exception and followed by another `cancel()`. It is correct
  when every chunk cut is transcribed once, in order and in its own session,
  when calls return, and when memory is bounded.
* **Segmentation.** Flags kept incrementally must describe a buffer that a
  forced cut replaces. It is correct when no speech is dropped, audio is in two
  chunks only across a forced cut and `overlap_ms` says how much, and chunks
  stay valid and bounded.
* **Service.** A handler is a sequence of calls, any of which can raise to one
  of three places. It is correct when the state machine, the pipeline in hand
  and the recordings that really run agree between commands, when delivered text
  is not reported as lost and accepted speech is not lost.
* **Source.** A child process ends by itself, is told to end, or does not end; its
  first bytes are read past the buffer that reads the rest; two threads may stop
  it at once. It is correct when the frames are its bytes in order, when a stop
  that returned left no process, and when nobody stays blocked in its pipe.
* **Client and daemon.** Several clients start services at once, which compete
  for one lock and one socket's name; a service loads for minutes, serves one
  connection at a time, may die with the name left behind. It is correct when a
  service that listens can be found, when two never record at once, when what a
  client reports of its command is true, and when everybody comes to an end.
* **Assembly, clean-up, delivery.** Words heard in two chunks are recognized by
  comparing text, which cannot tell overlap from repetition. It is correct when
  speech without repetitions comes out as it was said, when no word vanishes
  altogether, and when the notification promises no more than was done.
* **Detector.** A recurrence over floating-point loudness.

`PROJECT.json` lists the hazards with the line where each bites and the
properties that cover it.

## Modules

    Dictation        what a pipeline promises, without threads
    Pipeline         pipeline.py; implements Dictation
      MCPipeline     its instances
      PipelineProofs theorems for all constants
    Segmenter        segmentation/adaptive.py
      MCSegmenter    its configurations
      SegmenterProofs theorems for all constants
    AudioSource      what the pipeline assumes of a microphone
    ArecordSource    capture/linux_arecord.py; implements AudioSource
      MCArecordSource
      ArecordProofs  theorems for all constants
    Handling         what one command does to a service, as an operator
    Responder        what a service promises its clients
    Service          service_app.py and service.py; implements Responder
      MCService      its fault models
      ServiceProofs  theorems for all constants
    Clients          client.py against main and _serve of service_app.py;
                     EXTENDS Handling
      MCClients      its instance
      ClientsProofs  theorems for all constants
      ClientsAnswerProofs
    Assembly         assembly/overlap.py, operators on sequences of words
    Cleanup          cleanup/safe.py, likewise
      TextProofs     theorems about the operators of both, for every text
    Transcript       cutting, transcribing, _build_result, delivery, reporting;
                     EXTENDS Assembly and Cleanup
      MCTranscript   its words
      TranscriptProofs theorems for all constants

**Pipeline** has one program counter per thread: `caller` (the owner in start,
stop, wait, cancel), `capture` (the loop in `_capture_loop`) and `asr`
(`_asr_loop`). A step is one call that another thread can notice: a queue
operation, a join, a change of the source, a store into `_transcripts`. The
queue is a sequence bounded by `MaxPending` with `unfinished` as what `join()`
waits for. The policy is reduced to the number of chunks it has cut, and a
transcript to `"ok"` or `"error"`. The source is `running`, `stopping` (it was
told to stop), `stopped` (its process was reaped), and its `stop()` may raise in
between, both when the owner calls it and when the capture thread does at the
maximum duration; after such a failure `_source` is still set and the owner may
call again, which the model allows at any time. `start()` may fail, capture may
fail at any frame, the callback that plays the stop cue may raise.

**Segmenter** is the policy itself. A frame is its number and a verdict;
buffer and pre-roll are sets of frame numbers; durations are computed from them
as in the code, in milliseconds. The half-silence threshold is doubled on both
sides to stay in the integers. Configuration is a variable that never changes,
so that one run covers several shapes: nothing a multiple of a frame, no padding
and no overlap, padding longer than the maximum chunk, overlap that fills the
next chunk, and what the rounding of seconds can make of values that `config.py`
accepts: a minimum of 0 and an overlap as long as the maximum.

**ArecordSource** has one program counter for the thread that reads (`reader`,
the places in `frames()` and `_read_exact`) and one per caller of `stop()`: the
owner, and the capture thread at the maximum duration. The recorder is a process
that writes numbered bytes, closes its output and only then becomes reapable, as
a process that exits does; it may ignore its termination and even its kill. A frame
is the sequence of the numbers of its bytes, so that a lost or repeated byte shows.
`AudioSource` is the interface: told to stop, stopped, asking, yielding, failing.

**Service** has one step per call of a handler. The variable `faults` is chosen
once and names what can fail in a behaviour: unknown adapters in the
configuration, the recording device, capture, a recorder that survives
`kill()`, the session log, spawning a cue, and the process itself. Properties
say which faults they tolerate. A pipeline is seen through what `Pipeline`
shows of it: `active` until a `stop()` or `cancel()` reaches the reset. `delivered`, `logged`,
`stopped`, `excused` and `asked` (the command in hand and the state it found) are
history. Commands arrive in any order, one at a time
because `_serve` is single-threaded; a signal is noticed between commands; a
crash may come at any step and the next client starts a new process.

**Clients** has one program counter per run of the client (`pc`: the probe of
`service-stop`, the probe and the polling of `_ensure_service`, the status
request of `_toggle`, the command) and one per service process (`at`: taking the
lock, loading, binding, waiting in `accept`, handling, replying, leaving the
loop, closing). The service that a client spawns has the client's number, as a
client spawns at most one. `net` is what became of a client's connection: it
waits, was answered, was reset because the service went away with the request
unread, ended empty because it went away with the request read, or timed out; a
request whose client gave up stays in the queue and is carried out. `lock` and
`file` are the lock file's lock and the socket's name. What a command does to a
service is `Outcomes` of `Handling`, which `Service` is shown to keep to. `carried`
counts, for each client, how often its command was carried out. Connecting and
sending are one step, because the service waits for the request; a peer that
connects and sends nothing is `Stall`. Also one step each: `bind` and `listen`,
because who connects in between is refused as before; the end of the loop with
both removals of the name; a refused connection with what the client does next.
A raising `close()` ends the process as a returning one does. A process that is
gone has no state, and its socket's name stays if it was killed.

**Assembly**, **Cleanup** and **Transcript** follow the text. A token is what
`str.split` yields, a record of what the code compares: its written form,
`_normalize` of it, `_token_key` of it, whether it holds a digit and whether it is
an acronym. `Say` adds a word to the audio of the current chunk; a silence cut
starts an empty chunk, a forced cut one that begins with the last words of this
one, which the recognizer may write in another case or punctuation, and the first
of which may be a fragment. Any chunk may fail. `Stop` is `_build_result`, `Report`
is the rest of `AsrService._stop`: every output tried, the log, the message, the
warnings. The loop over the chunks is a recursive function over their number, and
the loop over `index` in `Cleanup` one over positions: `Keep` is one turn of it, and
its value what is kept from there on. `Selects` says that a text is made of the words
at some places of another, in their order.

How they fit: `Clients` takes a handler for one step with an outcome of `Handling`;
`Responder` is a service that does just that, and that `Service` implements it is
checked and proved, with every fault;
`Service` assumes of a pipeline what `Pipeline` promises; `Pipeline`'s
`source` stands for an `AudioSource`, which `ArecordSource` implements; `Pipeline`
assumes of a policy that push and finish yield sequence numbers in order, which
`Segmenter` produces, and a transcript there is its status, whose text is in
`Transcript`; `Dictation` is the interface in between, and the refinement
is checked and proved.

## Runs

| Run | Bounds | Size | Shows |
| --- | --- | --- | --- |
| `pipeline_safety` | queue of 1, 3 frames, 2 sessions | 342,000 states | the six invariants and the refinement of `Dictation` |
| `pipeline_liveness` | queue of 2, 4 frames, 1 session | 27,000 states | calls return, queued chunks are transcribed, the maximum duration frees the microphone |
| `pipeline_backlog` | the same | violation | a full queue stops capture |
| `segmenter` | 11 frames, 6 configurations | 49,000 states | seven invariants over every speech pattern |
| `segmenter_silence` | 9 frames, 1 configuration | violation | chunks without speech |
| `arecord` | frames of 2 bytes, 6 bytes | 10,500 states | three invariants, the refinement of `AudioSource`, and that reader and stop come to an end |
| `arecord_failure` | 2 bytes | violation | a failed recorder passes for an empty recording |
| `service` | 2 sessions, 3 fault models | 124,000 states | six invariants, the refinement of `Responder`, and that a stop ends |
| `service_cue` | 1 session, cues fail | violation | a cue failure loses the transcript |
| `clients` | 2 clients that toggle or stop the service, `listen(0)`, 1 fault | 137,000 states | four invariants, that every client ends and that a service catches up |
| `transcript` | 4 words, up to 3 chunks, overlaps and phrases of up to 2 words | 1,860,000 states | what assembly and clean-up may remove, and what the user is told |
| `transcript_numbers` | 3 words | violation | clean-up removes a number that was not said twice |

Why the bounds are enough. The pipeline's threads hold at most one chunk each
besides the queue, so with a queue of one, three frames and the final flush make
four chunks: more than fit, so that capture and owner both block. A second
session sees everything the first leaves behind; a third sees nothing new, since
`start()` either resets a variable or leaves it as after the first. In the
segmenter eleven frames hold at least two forced cuts or a forced cut between two
silence cuts in every configuration. A frame of two bytes lets the priming read take
nothing, half a frame or a whole one, and three frames are one read with pending
bytes and two without. In the service two sessions suffice for a
leftover of one to disturb another. Two clients are enough for two services to
compete, for a toggle to act on a state that is gone, and for a client to meet a
service that another one started, stopped or saw die; the code listens with 8, the
run with 0, which leaves room for one connection, so that the other's fills it, and one fault is a kill, a signal or
a silent peer at any point. The proofs lift all these bounds for the safety
properties. In `transcript` the limits are 2 words instead of the code's 16 and 4, so
that with four words a text is longer than either limit; two cuts and the rest
make three chunks, so that a lost chunk lies between two that are heard. The words are chosen so that one is written in two ways
and allowed twice by grammar, one is a number, and one is a hesitation that may
also be a unit after a number.

Deadlock is checked in the runs of `Pipeline`, `Segmenter`, `ArecordSource` and
`Service`. In `Pipeline`, an owner with no active session can always make a call
that is refused. `Clients` stops when every client has ended and every service
waits or is gone, and `Transcript` when its one session was reported: there
`CHECK_DEADLOCK` is off, and `ClientEnds` and `ServiceCatchesUp` say that nobody
is stuck before.

Fairness. Each of the pipeline's threads is scheduled weakly fairly, as the
operating system does. A read from a recorder that may still live can block for
ever and is exempt; once the process is reaped the pipe is closed and the read
ends. Nothing makes the owner call. In the source the two threads run on and of
the recorder nothing is assumed: it may write nothing for ever and survive every
signal. In the service a handler that was entered
runs on; nobody has to send a command. Each `WF` is on a whole thread's step,
which is never disabled by another step of the same thread. In `Clients` a client
runs on, its deadline of six minutes passes, and a service does its next step,
except that loading the model may take for ever, fail or succeed; nobody has to
run a client, and signals and kills need not come.

Each property of a passing run has a mutant: a definition named `Bug...`
before the one it would replace, which makes the property fail.

## What the violations say

* **Backlog.** `docs/architecture.md` says that capture continues when ASR falls
  behind. `pipeline.py` blocks the capture thread in `put`, on purpose, and its
  own comment says that audio is then dropped.
* **Silent chunks.** The hard limit is tested before `_has_speech`. When a forced
  cut falls into a pause and the retained overlap is silence, the pause goes on
  filling chunks that hold no speech, and these are transcribed. The overlap must be
  shorter than the silence that would have ended the chunk, which is half of
  `silence_milliseconds` past the target length: a configuration that `config.py`
  accepts, but not the default.
* **Cues.** `play_sound` and `notify_status` spawn a process and do not catch
  `OSError`. The stop cue is played inside `pipeline.stop()` before the last
  chunk is flushed; if it raises, the handler cancels the pipeline and nothing is
  delivered, although the failure policy says that transcription continues. The
  start cue is played after the pipeline was started and before it is stored; if it
  raises, the recording goes on, and no stop transcribes it and no cancel ends it.

* **Silent failure.** `frames()` calls `poll()` once after the end of file. An
  exiting process closes its descriptors before it can be reaped, so `poll()` may
  still say that it runs, and a device that could not be opened ends the recording
  as if it were empty. `tests/test_arecord_source.py` says that this is an error;
  it sets the exit status before it reads.

* **Numbers.** `docs/architecture.md` says that clean-up removes only hesitation
  sounds and immediately repeated words or short phrases. `_token_key` is the first run of word characters,
  so 3.5 and 3.7 said in a row have the same key and the second is removed.

Smaller disagreements met while modelling, with no run of their own:

* `frames()` is a generator, so its check runs when the capture thread first asks. A
  `stop()` that is through by then makes it raise "arecord source has not been
  started", and the pipeline reports a failed capture (`Open` in `ArecordSource` and
  in `Pipeline`).
* `docs/architecture.md` says that chunks cut at silence are joined with
  whitespace; `assembly/overlap.py` looks for overlap at every join, also where no
  audio is shared. `NoWordVanishes` says what remains true.
* `safe_cleanup_text` is documented to remove fillers; one inside a repeated
  phrase is compared as a word and stays ("I um I um" becomes "I um"). It is not
  idempotent for the same reason ("hello um hello" becomes "hello hello").
* "Transcription complete" is announced also when every output failed; the
  warnings of the reply say so, which `ReportIsTrue` checks.
* A service that dies between reading a request and replying leaves an empty
  answer, which is a `ProtocolError` that `main` of the client does not catch.

## What is proved

### Pipeline

`PipelineProofs` proves about `Pipeline`, for every `MaxPending` and `MaxFrames`
of at least one and any number of sessions, from `PipelineAssumption` and
`SentinelAssumption` (the sentinel equals no chunk):

* `TypeCorrect`, `ChunksInLine`, `BuildReadsAll`, `PolicyHasOneUser`,
  `AlwaysReady`, `BoundedBacklog`: the invariants of `pipeline_safety`;
* `BoundedRecording`: frames never exceed the maximum duration;
* `ImplementsDictation`: `Pipeline` implements `Dictation`.

The argument. `Conveyor` says that the chunks of the session stand in one line:
transcripts, the ASR thread's hands, the queue, the hands of the thread that
puts. It is not inductive: a put after the sentinel, a second sentinel, a push
while `finish()` runs or a leftover thread would break it. `IInv` adds what rules
these out:

* `ThreadsMatch`: a session has exactly its two threads, and without one the
  queue is empty;
* `CaptureOver`: past the capture join the capture thread is done, so only the
  owner puts;
* `SentinelOnce`: the sentinel is queued, in hand or consumed only after the owner
  put it, and nothing is queued behind it;
* `Accounting`: `unfinished` is the queue plus the item in hand, so `join()`
  means what it should;
* `FramesLeft`: the capture thread is back at the loop's head only below the
  maximum;
* `LineStart`: the chunk in the ASR thread's hands has a sequence number of at
  least 0.

`NextIInv` has one lemma per action that moves a chunk (`PushStep`, `GetStep`,
`PutStopStep`, ...) and one, `ControlStep`, for all that only move a program
counter. The refinement maps an active session to its transcripts and needs one more
invariant, `BuiltInv`: what `stop()` built still equals the transcripts at the
reset.

### Clients

`ClientsProofs` proves about `Clients`, for any number of clients and faults, any
length of the queue and any set of commands, from `ClientsAssumption`:

* `ClientsTypeCorrect`: types, and the bound of the queue;
* `ListenerIsFound`: `SocketOwned`;
* `OneRecorder`: `OneMicrophone`;
* `AnswersAreTrue`, in `ClientsAnswerProofs`: `AnswerTellsTruth`.

The argument. `SocketOwned` is not inductive: a second service that binds, or
leaves its loop, would take the name from the first. `IInv` adds

* `Locked`: from the lock to the end of its `close()` a service holds the lock, and
  one that is not idle is in between; so only one service binds, removes the
  name or records;
* `Unborn`: a client that has not come to `Spawn` has no process, so a spawn
  never restarts one;
* `Known`: a client that asks has a command, and one that sends knows which, so that
  what waits in the queue is a request.

`NextIInv` has one lemma for the types of all service steps and one for those of all
client steps, with a lemma of its own for each step that changes the queue, and
likewise for lock and socket (`ServiceOwned`, `ClientOwned`).

`AnswerTellsTruth` speaks of clients that have ended, but whether it will hold is
decided by requests that are under way, some of clients that no longer listen.
`Truth` follows them. A request has a place, in a service's queue or, at place 0,
in its hands; it is live while its client listens, and an order if it is to change
something.

* `Single`: of each client at most one live request or order is anywhere;
* `Heeded`: the client of a live request waits for it, with what it would ask now;
* `Ordered`: an order has been carried out exactly if its reply is due, and its
  client has not ended believing that it was not delivered;
* `Spare`: a service between connections has nothing in its hands;
* `Counted`: what a client knows of its connection, and says in the end, fits to
  how often its command was carried out.

Each step either keeps every request in its place (`Kept`, from which
`KeptSingle`, `KeptHeeded` and `KeptOrdered` follow once for all), or has a lemma
of its own: `Connect` adds one at the end, `Accept` moves one, `Handle` carries one
out, `Reply`, `LeaveLoop` and `Crash` take some away, `Timeout` and `Deadline` stop
heeding one.

### Service

`ServiceProofs` proves about `Service`, for any number of sessions and every fault
model, from `ServiceAssumption`, all six invariants of the run `service` and its
refinement:

* `ServiceTypeCorrect`: `TypeOK`;
* `PipelineIsOfSession`: `PipelineHasSession`;
* `RestsAsItShows`: `RestsIdleOrRecording`;
* `NothingRecordsUnseen`: `ActiveIsReachable`;
* `SettledOnce`: `OneOutcome`;
* `TranscriptIsKept`: `NoTranscriptLost`;
* `ImplementsResponder`: `Service` implements `Responder` (`HandlesInOneStep`).

The argument. What a handler leaves behind depends on where it was cut short, so
none of these is inductive. `IInv` adds

* `Stage`: where a handler is says what the state machine and the pipeline in
  hand are, step by step;
* `Kept`: what a failing handler still holds when it comes to the place that
  handles the failure;
* `Recording`: a session that records is the one in hand;
* `Settled` and `NotLost`: what the histories `delivered`, `logged` and `excused`
  say in the middle of a handler, of which the invariants are the values between
  two commands.

There is one lemma per group of steps and conjunct, as in `Pipeline`.

The refinement shows clients the state that a command found until it is answered,
and the state after it from then on. `Asks` says at every place of a handler which
command it carries out, which state it found and what it has made of that; with it a
step either shows nothing (`Goes`) or is an answer with an outcome of its command
(`Answers`). That nothing rests in "outputting" needs one fact more: a pipeline whose
`stop()` returned is not active, so the `cancel()` of the failure path cannot raise.
The state that an answer names (`says`) is part of it: it is the state the command
leaves, except that a shutdown without a pipeline answers "idle" without looking.
Stating the refinement corrected `Outcomes`, which had left out what a refused
configuration or a cue makes of a start and of a shutdown: after a configuration was
refused a start leaves "recording" behind, and that shutdown says "idle".

### Source

`ArecordProofs` proves about `ArecordSource`, for every frame size and every number
of bytes, from `FrameAssumption`:

* `ArecordTypeCorrect`: `TypeOK`;
* `ReapedWhenStopped`: `StoppedIsReaped`;
* `FramesAreTheRecording`: `FramesContiguous`;
* `ImplementsAudioSource`: `ArecordSource` implements `AudioSource`.

The argument. `FramesContiguous` speaks of the frames yielded; what is on its way to
them is in three places, the pending bytes of the priming read, the reader's
hands and the pipe. `IInv` adds

* `Before`: nothing is read or stopped before there is a process;
* `Reaped`: where a caller of `stop()` is says what the process must have come to;
* `Held`: what the reader holds at each of its places, and how much of it;
* `Line`: the bytes taken from the pipe, in order, stand in the frames and then in
  what is held, unless `stop()` dropped the pending bytes of the first frame.

The lemmas on `Bytes` say how intervals of numbered bytes join.

### Segmentation

`SegmenterProofs` proves about `Segmenter`, for every configuration that
`ConfigAssumption` admits and any number of frames, all seven invariants of the run
`segmenter`:

* `SegmenterTypeCorrect`: `TypeOK`;
* `SpeechIsKept`: `NoSpeechLost`;
* `FlagsDescribeBuffer`: `FlagsMatchBuffer`;
* `ChunksAreAccepted`: `ChunksValid`;
* `OverlapsAreDeclared`: `OverlapDeclared`;
* `LeadIsTrimmed`: `LeadingSilenceTrimmed`;
* `ChunksAreBounded`: `ChunkBounded`.

The argument. Three layers, each of which uses the one before. `IInv` adds to the
types, the kept speech, the flags and the valid chunks

* `Newest`: what is buffered ends with the frame pushed last, so that a forced cut
  retains it and the running silence counts from it;
* `OverlapHeard`: while the buffer holds only what a forced cut retained, a chunk
  has it, so that `finish()` may discard it.

`IInvLine` adds `Line`: after a forced cut the buffer starts inside the last chunk,
no other reaches further, and `_prefix_overlap` is the time from there to its end;
otherwise what is held lies behind everything heard. With it an overlap
is an interval whose length `overlap_ms` says. Its `Lead` says how far the
buffer's first word, or the next one, is from its start. `Short` bounds the buffer by the
hard maximum or by what a forced cut retains, of which `ChunkBounded` is a frame
more.

Durations are products of two variables and ends of sets are `Min` and `Max`,
neither of which the provers know: the lemmas at the start say of them what is
needed (`MinMax`, `MinStays`, `MaxIs`, `Times`, `WholeFacts`). That a set of
numbers has a least element comes from the well-foundedness of `<`, without
induction.

### Transcript

`TextProofs` proves about `Assembly` and `Cleanup`, for texts and chunks of any
length and number, any vocabulary and any limit of either, from
`OverlapWordsAssumption` and `PhraseWordsAssumption`:

* `AssembleSteps`: one chunk after the other is joined to the text so far;
* `AssembleKeepsWords`: the result holds the words of the chunks, up to
  `_normalize`, and no other;
* `CleanupSelects`: clean-up yields words of the text, unchanged and in order;
* `CleanupKeepsKeys`: what it takes away is a hesitation or has the key of a word it
  keeps;
* `CleanupDropsHesitations`: where no key occurs twice it keeps exactly what is no
  hesitation.

`TranscriptProofs` proves with them about `Transcript`, for any words said and heard,
any number of chunks and outputs, from `TranscriptAssumption`, all three invariants of
the run `transcript`:

* `SpeechIsExact`: `ExactWithoutRepeats`;
* `NothingVanishes`: `NoWordVanishes`;
* `ReportsAreTrue`: `ReportIsTrue`.

The argument. What `Assemble` and `SafeCleanup` compute is defined by recursion. The
library's induction rule takes an operator as its parameter, and the provers cannot
use it; but that `<` is well-founded on the naturals is a fact without one. `Upward`
and `Downward` derive from it, by the least counterexample, that a set closed under a
step holds every number up to a bound. With sets in the place of predicates
`AssembleRuns` and `CleanupRuns` show that the recursive functions exist,
and `CleanupFacts` goes through the positions from the last to the first. `KeepStep` is
one turn of the loop: it keeps the words from `i` to `last`, goes on at `next`, and
what lies between is a hesitation or repeats a key of what was kept.

`ExactWithoutRepeats` speaks of the end. While chunks are cut, `Aligned` says how
the text so far and the buffer lie on what was said (`Fits`): the text is its
beginning, the buffer its end, and they have at most `OverlapWords` words in common.
Words that are not repeated can overlap in one way only, so the longest overlap that
`_word_overlap` finds is the true one (`ExactJoin`). A cut after which nothing new is
said leaves the text complete, which is why `Stop` may drop the rest. `Built` says that
the result is what was assembled, cleaned up or not.

### Only model-checked

Liveness: `CallsReturn`, `QueuedIsHeard`, `LimitFreesMicrophone`, `StopEnds`,
`ReaderEnds`, `StopAnswers`, `ClientEnds` and `ServiceCatchesUp` rest on fairness, which
is outside the prover's reach here. Every invariant and every refinement that a
passing run checks is proved.

## What is left

`FileAudioSource` has no module of its own.

## Not modelled

Audio samples, characters, JSON and its validation, paths and their modes,
formatting and timing values: data the properties do not tell apart. The speech
detector, whose noise floor is a floating-point recurrence over loudness: a
verdict is an input of `Segmenter`. Parsing the configuration and the table of
profiles; `model_cli.py` replaces the installed file, which a running service does
not read again. `install.sh` and `toggle.sh`. `close()` of the backend takes no
lock; `AsrService.close` calls it only after a `cancel()` that returned and so
joined the threads that could use the model. The benchmark and training scripts: sequential
programs outside the running system. The lock of `ServiceStateMachine`: only one
thread calls it. Threads of `subprocess` and `onnxruntime` are external. A
failure inside `_build_result` is left out because neither the assembler nor
either cleaner raises on strings.
