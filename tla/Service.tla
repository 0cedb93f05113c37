------------------------------- MODULE Service -------------------------------
(***************************************************************************)
(* speaktap/service_app.py and speaktap/service.py: AsrService, its state  *)
(* machine, and the single-threaded socket loop that hands it one command  *)
(* at a time.  A handler is a sequence of calls; each may fail, and where  *)
(* the exception goes is what this module is about.                        *)
(*                                                                         *)
(* A pipeline is seen through what its owner sees (Pipeline.tla): it is    *)
(* active from a successful start() until a stop() or cancel() that got as *)
(* far as the reset; stop() returns a result, raises after the reset       *)
(* because capture failed, or raises before it with the pipeline active.   *)
(* `faults` names the calls that may fail:                                 *)
(*   config   make_pipeline rejects the configured adapters                *)
(*   device   the recorder cannot be started                               *)
(*   capture  capture fails while recording                                *)
(*   wedge    the recorder's process survives kill() for a second          *)
(*   log      the session log cannot be written                            *)
(*   cue      a sound or notification process cannot be spawned            *)
(*   crash    the service process is killed                                *)
(***************************************************************************)
EXTENDS Naturals, FiniteSets

CONSTANTS MaxSessions,  \* bound: sessions considered
          FaultModels   \* combinations of faults considered

AllFaults == {"config", "device", "capture", "wedge", "log", "cue", "crash"}

ASSUME ServiceAssumption ==
    /\ MaxSessions \in Nat
    /\ FaultModels \subseteq SUBSET AllFaults

Sessions == 1 .. MaxSessions
None == 0

VARIABLES
    faults,       \* what may fail; never changes
    process,      \* "running", or "exited"
    state,        \* ServiceStateMachine._state
    session,      \* ServiceStateMachine._session_id, or None
    lastError,    \* ServiceStateMachine._last_error is not None
    pipeline,     \* _pipeline: the session it was made for, or None
    active,       \* sessions whose PipelineSession has not been reset
    nextId,       \* session ids handed out
    step,         \* the next call of the handler, or "ready" between commands
    job,          \* the snapshot a handler took of its session
    stopping,     \* SIGTERM or SIGINT was received
    shutdown,     \* shutdown_requested
    reply,        \* last response: command, ok and state
    delivered,    \* session -> how often its text was handed to the outputs
    logged,       \* session -> statuses recorded in the session log
    stopped,      \* sessions whose stop was accepted
    excused,      \* sessions whose recording itself failed, or died in a crash
    asked         \* the command being handled, and the state it found

machine  == <<state, session, lastError>>
control  == <<process, stopping, shutdown>>
history  == <<delivered, logged, stopped, excused, asked>>
vars == <<faults, machine, control, job, history, pipeline, active, nextId, step, reply>>

Commands == {"status", "start", "stop", "cancel", "shutdown"}
May(fault) == fault \in faults
NoReply == [command |-> "none", ok |-> TRUE, state |-> "idle"]

Init ==
    /\ faults \in FaultModels
    /\ state = "idle" /\ session = None /\ lastError = FALSE
    /\ process = "running" /\ stopping = FALSE /\ shutdown = FALSE
    /\ job = None
    /\ pipeline = None
    /\ active = {}
    /\ step = "ready"
    /\ reply = NoReply
    /\ nextId = 0
    /\ delivered = [s \in Sessions |-> 0]
    /\ logged = [s \in Sessions |-> {}]
    /\ stopped = {}
    /\ excused = {}
    /\ asked = [command |-> "none", state |-> "idle"]

-----------------------------------------------------------------------------
(* ServiceStateMachine.                                                     *)

\* Bug: the state survives the end of the session.
BugClearSession(error) ==
    /\ session' = None
    /\ lastError' = error
    /\ UNCHANGED state

ClearSession(error) ==
    /\ state' = "idle"
    /\ session' = None
    /\ lastError' = error

\* Bug: fail() enters a state of its own, which no command leaves.
BugFail ==
    /\ state' = "failed"
    /\ session' = None
    /\ lastError' = TRUE

Fail == ClearSession(TRUE)

-----------------------------------------------------------------------------
(* Responses: the handler's own, or the one built from an exception.        *)

Respond(command, ok, as) ==
    /\ step' = "ready"
    /\ reply' = [command |-> command, ok |-> ok, state |-> as]

At(s) == process = "running" /\ step = s

Receive ==
    /\ At("ready")
    /\ ~stopping /\ ~shutdown
    /\ \E command \in Commands :
         /\ command = "start" /\ state = "idle" => nextId < MaxSessions
         /\ step' = command
         /\ asked' = [command |-> command, state |-> state]
    /\ UNCHANGED <<faults, machine, control, job, delivered, logged, stopped, excused,
                   pipeline, active, nextId, reply>>

Status ==
    /\ At("status")
    /\ Respond("status", TRUE, state)
    /\ UNCHANGED <<faults, machine, control, job, history, pipeline, active, nextId>>

-----------------------------------------------------------------------------
(* _start: state.start, make_pipeline, pipeline.start, cue, notification.   *)

StartState ==
    /\ At("start")
    /\ \/ /\ state # "idle"
          /\ Respond("start", FALSE, state)
          /\ UNCHANGED <<machine, nextId>>
       \/ /\ state = "idle"
          /\ nextId' = nextId + 1
          /\ state' = "recording" /\ session' = nextId' /\ lastError' = FALSE
          /\ step' = "make_pipeline"
          /\ UNCHANGED reply
    /\ UNCHANGED <<faults, control, job, history, pipeline, active>>

\* Outside the try: what it raises leaves the state machine in "recording".
MakePipeline ==
    /\ At("make_pipeline")
    /\ \/ step' = "start_pipeline" /\ UNCHANGED reply
       \/ May("config") /\ Respond("start", FALSE, state)
    /\ UNCHANGED <<faults, machine, control, job, history, pipeline, active, nextId>>

\* Bug: a failed start leaves the state machine as it is.
BugStartPipeline ==
    /\ At("start_pipeline")
    /\ \/ active' = active \cup {session} /\ step' = "start_cue" /\ UNCHANGED <<reply, machine>>
       \/ May("device") /\ Respond("start", FALSE, state) /\ UNCHANGED <<active, machine>>
    /\ UNCHANGED <<faults, control, job, history, pipeline, nextId>>

StartPipeline ==
    /\ At("start_pipeline")
    /\ \/ /\ active' = active \cup {session}
          /\ step' = "start_cue"
          /\ UNCHANGED <<reply, machine>>
       \/ /\ May("device")
          /\ Fail
          /\ Respond("start", FALSE, "idle")
          /\ UNCHANGED active
    /\ UNCHANGED <<faults, control, job, history, pipeline, nextId>>

\* Bug: the service forgets to keep the pipeline it started.
BugStartCue ==
    /\ At("start_cue")
    /\ step' = "start_notice"
    /\ UNCHANGED <<faults, machine, control, job, history, active, nextId, pipeline,
                   reply>>

StartCue ==
    /\ At("start_cue")
    /\ \/ step' = "start_notice" /\ pipeline' = session /\ UNCHANGED reply
       \/ May("cue") /\ Respond("start", FALSE, state) /\ UNCHANGED pipeline
    /\ UNCHANGED <<faults, machine, control, job, history, active, nextId>>

StartNotice ==
    /\ At("start_notice")
    /\ \/ Respond("start", TRUE, "recording")
       \/ May("cue") /\ Respond("start", FALSE, state)
    /\ UNCHANGED <<faults, machine, control, job, history, pipeline, active, nextId>>

-----------------------------------------------------------------------------
(* _stop.                                                                   *)

\* Bug: a stop is accepted again while the first one could not end.
BugStopState ==
    /\ At("stop")
    /\ \/ /\ state = "idle"
          /\ Respond("stop", FALSE, state)
          /\ UNCHANGED <<state, job, stopped>>
       \/ /\ state # "idle"
          /\ state' = "finalizing"
          /\ job' = session
          /\ stopped' = stopped \cup {session}
          /\ step' = "stop_notice"
          /\ UNCHANGED reply
    /\ UNCHANGED <<faults, session, lastError, control, delivered, logged, excused,
                   asked, pipeline, active, nextId>>

StopState ==
    /\ At("stop")
    /\ \/ /\ state # "recording"
          /\ Respond("stop", FALSE, state)
          /\ UNCHANGED <<state, job, stopped>>
       \/ /\ state = "recording"
          /\ state' = "finalizing"
          /\ job' = session
          /\ stopped' = stopped \cup {session}
          /\ step' = "stop_notice"
          /\ UNCHANGED reply
    /\ UNCHANGED <<faults, session, lastError, control, delivered, logged, excused,
                   asked, pipeline, active, nextId>>

\* Before the try as well.
StopNotice ==
    /\ At("stop_notice")
    /\ \/ step' = "stop_pipeline" /\ UNCHANGED reply
       \/ May("cue") /\ Respond("stop", FALSE, state)
    /\ UNCHANGED <<faults, machine, control, job, history, pipeline, active, nextId>>

PipelineMissing ==
    /\ At("stop_pipeline")
    /\ pipeline = None
    /\ Fail
    /\ Respond("stop", FALSE, "idle")
    /\ UNCHANGED <<faults, control, job, history, pipeline, active, nextId>>

\* Bug: a result with failed segments is taken for a failure.
BugStopPipeline ==
    /\ At("stop_pipeline")
    /\ pipeline # None
    /\ active' = active \ {pipeline}
    /\ \/ state' = "outputting" /\ step' = "deliver"
       \/ step' = "stop_failed" /\ UNCHANGED state
    /\ UNCHANGED <<faults, session, lastError, control, job, history, pipeline, nextId,
                   reply>>

\* pipeline.stop() returns, some segments failed or none, and begin_output().
StopPipeline ==
    /\ At("stop_pipeline")
    /\ pipeline # None
    /\ active' = active \ {pipeline}
    /\ state' = "outputting"
    /\ step' = "deliver"
    /\ UNCHANGED <<faults, session, lastError, control, job, history, pipeline, nextId,
                   reply>>

\* pipeline.stop() raises: after the reset when capture failed, before it when
\* the recorder will not die or the stop cue cannot be played.
StopPipelineRaises ==
    /\ At("stop_pipeline")
    /\ pipeline # None
    /\ \/ May("capture") /\ active' = active \ {pipeline} /\ excused' = excused \cup {job}
       \/ May("wedge") /\ UNCHANGED active /\ excused' = excused \cup {job}
       \/ May("cue") /\ UNCHANGED <<active, excused>>
    /\ step' = "stop_failed"
    /\ UNCHANGED <<faults, machine, control, job, delivered, logged, stopped, asked,
                   pipeline, nextId, reply>>

\* deliver_outputs tries every adapter and only notes which of them failed.
Deliver ==
    /\ At("deliver")
    /\ delivered' = [delivered EXCEPT ![job] = @ + 1]
    /\ step' = "log_success"
    /\ UNCHANGED <<faults, machine, control, job, logged, stopped, excused, asked,
                   pipeline, active, nextId, reply>>

\* Bug: a log that cannot be written is taken for a failed transcription.
BugLogSuccess ==
    /\ At("log_success")
    /\ \/ logged' = [logged EXCEPT ![job] = @ \cup {"ok"}] /\ step' = "done_notice"
       \/ May("log") /\ step' = "stop_failed" /\ UNCHANGED logged
    /\ UNCHANGED <<faults, machine, control, job, delivered, stopped, excused, asked,
                   pipeline, active, nextId, reply>>

LogSuccess ==
    /\ At("log_success")
    /\ \/ logged' = [logged EXCEPT ![job] = @ \cup {"ok"}]
       \/ May("log") /\ UNCHANGED logged
    /\ step' = "done_notice"
    /\ UNCHANGED <<faults, machine, control, job, delivered, stopped, excused, asked,
                   pipeline, active, nextId, reply>>

DoneNotice ==
    /\ At("done_notice")
    /\ \/ step' = "complete"
       \/ May("cue") /\ step' = "stop_failed"
    /\ UNCHANGED <<faults, machine, control, job, history, pipeline, active, nextId,
                   reply>>

\* Bug: a completed session keeps its pipeline.
BugComplete ==
    /\ At("complete")
    /\ ClearSession(FALSE)
    /\ Respond("stop", TRUE, "idle")
    /\ UNCHANGED <<faults, control, job, history, pipeline, active, nextId>>

Complete ==
    /\ At("complete")
    /\ ClearSession(FALSE)
    /\ pipeline' = None
    /\ Respond("stop", TRUE, "idle")
    /\ UNCHANGED <<faults, control, job, history, active, nextId>>

\* Bug: the handler does not cancel the pipeline that stop() left active.
BugCancelPipeline(then, command) ==
    /\ step' = then
    /\ pipeline' = None
    /\ UNCHANGED <<faults, active, reply>>

\* pipeline.cancel() resets, or raises when the recorder still will not die.
CancelPipeline(then, command) ==
    \/ /\ active' = active \ {pipeline}
       /\ pipeline' = None
       /\ step' = then
       /\ UNCHANGED reply
    \/ /\ May("wedge")
       /\ pipeline \in active
       /\ Respond(command, FALSE, state)
       /\ UNCHANGED <<active, pipeline>>

\* except: cancel, then fail; an exception from cancel() skips the rest.
StopFailed ==
    /\ At("stop_failed")
    /\ CancelPipeline("log_failure", "stop")
    /\ IF step' = "log_failure" THEN Fail ELSE UNCHANGED machine
    /\ UNCHANGED <<faults, control, job, history, nextId>>

LogFailure ==
    /\ At("log_failure")
    /\ \/ logged' = [logged EXCEPT ![job] = @ \cup {"error"}]
       \/ May("log") /\ UNCHANGED logged
    /\ Respond("stop", FALSE, state)
    /\ UNCHANGED <<faults, machine, control, job, delivered, stopped, excused, asked,
                   pipeline, active, nextId>>

-----------------------------------------------------------------------------
(* _cancel and _shutdown.                                                   *)

Cancel ==
    /\ At("cancel")
    /\ \/ /\ pipeline # None
          /\ CancelPipeline("cancel_state", "cancel")
       \/ /\ pipeline = None
          /\ step' = "cancel_state"
          /\ UNCHANGED <<active, pipeline, reply>>
    /\ UNCHANGED <<faults, machine, control, job, history, nextId>>

CancelState ==
    /\ At("cancel_state")
    /\ \/ /\ state = "idle"
          /\ Respond("cancel", FALSE, state)
          /\ UNCHANGED machine
       \/ /\ state # "idle"
          /\ ClearSession(FALSE)
          /\ step' = "cancel_cue"
          /\ UNCHANGED reply
    /\ UNCHANGED <<faults, control, job, history, pipeline, active, nextId>>

CancelCue ==
    /\ At("cancel_cue")
    /\ \/ Respond("cancel", TRUE, "idle")
       \/ May("cue") /\ Respond("cancel", FALSE, state)
    /\ UNCHANGED <<faults, machine, control, job, history, pipeline, active, nextId>>

\* With a pipeline, _shutdown cancels it and the session.
Shutdown ==
    /\ At("shutdown")
    /\ \/ /\ pipeline # None
          /\ CancelPipeline("shutdown_flag", "shutdown")
          /\ IF step' = "shutdown_flag" THEN ClearSession(FALSE) ELSE UNCHANGED machine
       \/ /\ pipeline = None
          /\ step' = "shutdown_flag"
          /\ UNCHANGED <<active, pipeline, reply, machine>>
    /\ UNCHANGED <<faults, control, job, history, nextId>>

ShutdownFlag ==
    /\ At("shutdown_flag")
    /\ shutdown' = TRUE
    /\ Respond("shutdown", TRUE, "idle")
    /\ UNCHANGED <<faults, machine, process, stopping, job, history, pipeline, active,
                   nextId>>

-----------------------------------------------------------------------------
(* The process: signals, the end of the loop, crashes, a new process.       *)

Signal ==
    /\ process = "running"
    /\ stopping' = TRUE
    /\ UNCHANGED <<faults, machine, process, shutdown, job, history, pipeline, active,
                   nextId, step, reply>>

\* The loop looks at the flags between commands; main then closes the service,
\* and what close() raises ends the process too.
Exit ==
    /\ At("ready")
    /\ stopping \/ shutdown
    /\ process' = "exited"
    /\ UNCHANGED <<faults, machine, stopping, shutdown, job, history, pipeline, active,
                   nextId, step, reply>>

\* Threads die with the process, and the recorder at its next write.
Crash ==
    /\ May("crash")
    /\ process = "running"
    /\ process' = "exited"
    /\ excused' = excused \cup ({session} \ {None})
    /\ UNCHANGED <<faults, machine, stopping, shutdown, job, delivered, logged, stopped,
                   asked, pipeline, active, nextId, step, reply>>

\* The next client spawns a service; session ids are never used again.
Restart ==
    /\ process = "exited"
    /\ state' = "idle" /\ session' = None /\ lastError' = FALSE
    /\ process' = "running" /\ stopping' = FALSE /\ shutdown' = FALSE
    /\ job' = None
    /\ pipeline' = None
    /\ active' = {}
    /\ step' = "ready"
    /\ reply' = NoReply
    /\ UNCHANGED <<faults, history, nextId>>

StartSteps  == StartState \/ MakePipeline \/ StartPipeline \/ StartCue \/ StartNotice
StopSteps   == \/ StopState \/ StopNotice \/ PipelineMissing \/ StopPipeline
               \/ StopPipelineRaises \/ Deliver \/ LogSuccess \/ DoneNotice \/ Complete
               \/ StopFailed \/ LogFailure
CancelSteps == Cancel \/ CancelState \/ CancelCue
HandlerStep == Status \/ StartSteps \/ StopSteps \/ CancelSteps \/ Shutdown \/ ShutdownFlag

Next == Receive \/ HandlerStep \/ Signal \/ Exit \/ Crash \/ Restart

Spec == Init /\ [][Next]_vars

\* A handler runs on; nobody has to send a command.
FairSpec == Spec /\ WF_vars(HandlerStep)

-----------------------------------------------------------------------------
(* Properties.                                                              *)

Without(some) == faults \cap some = {}
AtRest == At("ready")

TypeOK ==
    /\ faults \in FaultModels
    /\ process \in {"running", "exited"}
    /\ state \in {"idle", "recording", "finalizing", "outputting"}
    /\ session \in Sessions \cup {None}
    /\ job \in Sessions \cup {None}
    /\ pipeline \in Sessions \cup {None}
    /\ active \subseteq Sessions
    /\ nextId \in 0 .. MaxSessions
    /\ delivered \in [Sessions -> Nat]
    /\ logged \in [Sessions -> SUBSET {"ok", "error"}]
    /\ stopped \subseteq Sessions
    /\ excused \subseteq Sessions

\* Whatever fails: the pipeline the service holds is that of the session its
\* state machine is in.  _shutdown relies on it when it cancels both.
PipelineHasSession ==
    pipeline # None => state # "idle" /\ pipeline = session

\* Between commands the service is idle with nothing recording, or recording
\* with the pipeline in hand; no failure of the recorder, the capture or the
\* log leaves it in another state, where toggle only says "service is busy".
RestsIdleOrRecording ==
    AtRest /\ Without({"cue", "wedge", "config"}) =>
        \/ state = "idle" /\ pipeline = None /\ active = {}
        \/ state = "recording" /\ pipeline = session /\ active = {session}

\* A recorder that will not die leaves a pipeline active, but only one that a
\* later cancel reaches: no recording goes on out of the service's sight.
ActiveIsReachable ==
    AtRest /\ Without({"cue"}) => active \subseteq {pipeline}

\* A session's text is delivered once at most, and one that was delivered is
\* not recorded as failed, nor recorded twice.
OneOutcome ==
    \A s \in Sessions :
        /\ delivered[s] <= 1
        /\ Without({"cue"}) =>
             /\ Cardinality(logged[s]) <= 1
             /\ "error" \in logged[s] => delivered[s] = 0

\* "No optional stage may turn a valid raw transcript into a lost
\* transcription": once stop was accepted and the recording was sound, the
\* text has been delivered by the time the command is answered.
NoTranscriptLost ==
    AtRest /\ Without({"cue", "config"}) => \A s \in stopped \ excused : delivered[s] = 1

\* A stop that was accepted ends in the idle state, whatever failed.
StopEnds ==
    (state = "finalizing" /\ Without({"cue", "wedge"})) ~> (state = "idle" \/ process = "exited")

\* docs/architecture.md, failure policy 5: "notification or sound fails ->
\* transcription continues".  The same as NoTranscriptLost, with cues failing.
CueFailureKeepsTranscript ==
    AtRest => \A s \in stopped \ excused : delivered[s] = 1

\* Clients.tla takes a handler for one step with few outcomes.  That is what the
\* calls of a handler come to, wherever they are cut short, and the answer says so: the
\* state shown to clients is the one that the command found until it is answered.
R == INSTANCE Responder WITH
        command <- IF step = "ready" THEN "none" ELSE asked.command,
        state <- IF step = "ready" THEN state ELSE asked.state,
        ok <- reply.ok,
        says <- reply.state

HandlesInOneStep == R!Spec
=============================================================================
