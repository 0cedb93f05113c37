--------------------------- MODULE ServiceProofs ---------------------------
(***************************************************************************)
(* Proofs about Service.tla for any number of sessions and any combination *)
(* of faults.                                                              *)
(***************************************************************************)
EXTENDS Service, FiniteSetTheorems, TLAPS

Starting   == {"make_pipeline", "start_pipeline", "start_cue"}
Stopping   == {"stop_notice", "stop_pipeline"}
Outputting == {"deliver", "log_success", "done_notice", "complete"}

\* Where a handler is says what the state machine and the service hold.
Stage ==
    /\ session = None <=> state = "idle"
    /\ step = "start" /\ state = "idle" => nextId < MaxSessions
    /\ step \in Starting => state = "recording" /\ pipeline = None
    /\ step = "start_notice" => state = "recording"
    /\ step \in Stopping => state = "finalizing" /\ job = session
    /\ step \in Outputting => state = "outputting" /\ job = session
    /\ step = "stop_failed" => state \in {"finalizing", "outputting"} /\ job = session
    /\ step = "log_failure" => job # None
    /\ step \in {"log_failure", "cancel_cue"} => state = "idle"
    /\ step \in {"cancel_state", "shutdown_flag"} => pipeline = None

\* Unless a cue failed or the configuration was refused, a session has its pipeline
\* from the end of its start to its cancellation.
Kept ==
    Without({"cue", "config"}) =>
        (state # "idle" /\ step \notin Starting \cup {"cancel_state"} => pipeline = session)

\* A pipeline records until it is stopped, and none does so unseen.
Recording ==
    /\ Without({"cue"}) =>
         /\ active \subseteq {IF step = "start_cue" THEN session ELSE pipeline}
         /\ step \in Outputting => active = {}
    /\ Without({"cue", "wedge", "config"}) =>
         /\ state \in {"finalizing", "outputting"} => step \in Stopping \cup Outputting \cup {"stop_failed"}
         /\ state = "recording" /\ step \notin {"make_pipeline", "start_pipeline", "cancel_state"} => session \in active

\* Session ids are new, and what became of a session is settled once.
Settled ==
    /\ session <= nextId /\ job <= nextId
    /\ \A s \in Sessions : s > nextId => delivered[s] = 0 /\ logged[s] = {}
    /\ \A s \in Sessions : delivered[s] <= 1
    /\ state \in {"recording", "finalizing"} => delivered[session] = 0 /\ logged[session] = {}
    /\ step = "deliver" => delivered[job] = 0 /\ logged[job] = {}
    /\ step = "log_success" => logged[job] = {}
    /\ Without({"cue"}) =>
         /\ \A s \in Sessions : logged[s] \in {{}, {"ok"}, {"error"}}
         /\ \A s \in Sessions : "error" \in logged[s] => delivered[s] = 0
         /\ step = "stop_failed" => state = "finalizing"
         /\ step = "log_failure" => delivered[job] = 0 /\ logged[job] = {}

\* A session that was to be stopped is delivered, unless its handler has not come to it.
NotLost ==
    Without({"cue", "config"}) =>
        \A s \in stopped \ excused :
            \/ delivered[s] = 1
            \/ process = "running" /\ s = session /\ step \in Stopping \cup {"deliver"}

IInv ==
    TypeOK /\ PipelineHasSession /\ Stage /\ Kept /\ Recording /\ Settled /\ NotLost

USE DEF Starting, Stopping, Outputting

-----------------------------------------------------------------------------
(* Every step keeps the invariant. *)

\* No step of _start breaks the invariant.
LEMMA StartStepsInv ==
    ASSUME IInv, StartState \/ MakePipeline \/ StartPipeline \/ StartCue \/ StartNotice
    PROVE  IInv'
  <1>1. CASE StartState
    <2>1. /\ step = "start"
          /\ \/ /\ state # "idle" /\ step' = "ready"
                /\ state' = state /\ session' = session /\ nextId' = nextId
             \/ /\ state = "idle" /\ step' = "make_pipeline"
                /\ nextId' = nextId + 1 /\ state' = "recording" /\ session' = nextId + 1
          /\ faults' = faults /\ process' = process /\ pipeline' = pipeline /\ active' = active /\ job' = job
          /\ delivered' = delivered /\ logged' = logged /\ stopped' = stopped /\ excused' = excused
      BY <1>1 DEF StartState, At, Respond, machine, control, history
    <2>2. TypeOK'
      <3>1. step' = "make_pipeline" => nextId + 1 \in Sessions
        BY <2>1, ServiceAssumption DEF IInv, TypeOK, Stage, Sessions
      <3>2. nextId' \in 0 .. MaxSessions
        BY <2>1, <3>1, ServiceAssumption DEF IInv, TypeOK, Stage, Sessions
      <3>3. session' \in Sessions \cup {None} /\ state' \in {"idle", "recording", "finalizing", "outputting"}
        BY <2>1, <3>1 DEF IInv, TypeOK
      <3> QED
        BY <2>1, <3>2, <3>3 DEF IInv, TypeOK
    <2>3. (PipelineHasSession /\ Stage)'
      BY <2>1 DEF IInv, TypeOK, PipelineHasSession, Stage, None
    <2>4. (Kept /\ Recording)'
      BY <2>1 DEF IInv, TypeOK, PipelineHasSession, Stage, Kept, Recording, Without, None
    <2>5. Settled'
      <3>1. step' = "make_pipeline" => nextId + 1 \in Sessions
        BY <2>1, ServiceAssumption DEF IInv, TypeOK, Stage, Sessions
      <3>2. step' = "make_pipeline" => delivered[nextId + 1] = 0 /\ logged[nextId + 1] = {}
        BY <3>1 DEF IInv, TypeOK, Settled
      <3>3. session \in Nat /\ job \in Nat /\ nextId \in Nat /\ Sessions \subseteq Nat
        BY DEF IInv, TypeOK, Sessions, None
      <3> QED
        BY <2>1, <3>2, <3>3 DEF IInv, Stage, Settled, Without
    <2>6. NotLost'
      BY <2>1 DEF IInv, TypeOK, PipelineHasSession, Stage, Kept, Settled, NotLost, Without, None
    <2> QED
      BY <2>2, <2>3, <2>4, <2>5, <2>6 DEF IInv
  <1>2. CASE MakePipeline
    <2>1. /\ step = "make_pipeline"
          /\ \/ step' = "start_pipeline"
             \/ "config" \in faults /\ step' = "ready"
          /\ faults' = faults /\ process' = process /\ state' = state /\ session' = session /\ pipeline' = pipeline
          /\ active' = active /\ nextId' = nextId /\ job' = job /\ delivered' = delivered /\ logged' = logged
          /\ stopped' = stopped /\ excused' = excused
      BY <1>2 DEF MakePipeline, At, Respond, May, machine, control, history
    <2>2. TypeOK'
      BY <2>1 DEF IInv, TypeOK, Stage, None
    <2>3. (PipelineHasSession /\ Stage)'
      BY <2>1 DEF IInv, TypeOK, PipelineHasSession, Stage, None
    <2>4. (Kept /\ Recording)'
      BY <2>1 DEF IInv, TypeOK, PipelineHasSession, Stage, Kept, Recording, Without, None
    <2>5. Settled'
      BY <2>1 DEF IInv, TypeOK, Stage, Settled, Without, None
    <2>6. NotLost'
      BY <2>1 DEF IInv, TypeOK, PipelineHasSession, Stage, Kept, Settled, NotLost, Without, None
    <2> QED
      BY <2>2, <2>3, <2>4, <2>5, <2>6 DEF IInv
  <1>3. CASE StartPipeline
    <2>1. /\ step = "start_pipeline"
          /\ \/ /\ active' = active \cup {session} /\ step' = "start_cue"
                /\ state' = state /\ session' = session
             \/ /\ active' = active /\ state' = "idle" /\ session' = None
                /\ step' = "ready"
          /\ faults' = faults /\ process' = process /\ pipeline' = pipeline /\ nextId' = nextId /\ job' = job
          /\ delivered' = delivered /\ logged' = logged /\ stopped' = stopped /\ excused' = excused
      BY <1>3 DEF StartPipeline, At, Respond, May, machine, control, history, Fail, ClearSession
    <2>2. TypeOK'
      BY <2>1 DEF IInv, TypeOK, Stage, None
    <2>3. (PipelineHasSession /\ Stage)'
      BY <2>1 DEF IInv, TypeOK, PipelineHasSession, Stage, None
    <2>4. (Kept /\ Recording)'
      <3>1. active = {} \/ ~Without({"cue"})
        BY <2>1 DEF IInv, TypeOK, Stage, Recording, Sessions, None
      <3> QED
        BY <2>1, <3>1 DEF IInv, TypeOK, Stage, Kept, Recording, Without
    <2>5. Settled'
      BY <2>1 DEF IInv, TypeOK, Stage, Settled, Without, None
    <2>6. NotLost'
      BY <2>1 DEF IInv, TypeOK, PipelineHasSession, Stage, Kept, Settled, NotLost, Without, None
    <2> QED
      BY <2>2, <2>3, <2>4, <2>5, <2>6 DEF IInv
  <1>4. CASE StartCue
    <2>1. /\ step = "start_cue"
          /\ \/ step' = "start_notice" /\ pipeline' = session
             \/ "cue" \in faults /\ step' = "ready" /\ pipeline' = pipeline
          /\ faults' = faults /\ process' = process /\ state' = state /\ session' = session /\ active' = active
          /\ nextId' = nextId /\ job' = job /\ delivered' = delivered /\ logged' = logged /\ stopped' = stopped
          /\ excused' = excused
      BY <1>4 DEF StartCue, At, Respond, May, machine, control, history
    <2>2. TypeOK'
      BY <2>1 DEF IInv, TypeOK, Stage, None
    <2>3. (PipelineHasSession /\ Stage)'
      BY <2>1 DEF IInv, TypeOK, PipelineHasSession, Stage, None
    <2>4. (Kept /\ Recording)'
      BY <2>1 DEF IInv, TypeOK, PipelineHasSession, Stage, Kept, Recording, Without, None
    <2>5. Settled'
      BY <2>1 DEF IInv, TypeOK, Stage, Settled, Without, None
    <2>6. NotLost'
      BY <2>1 DEF IInv, TypeOK, PipelineHasSession, Stage, Kept, Settled, NotLost, Without, None
    <2> QED
      BY <2>2, <2>3, <2>4, <2>5, <2>6 DEF IInv
  <1>5. CASE StartNotice
    <2>1. /\ step = "start_notice"
          /\ step' = "ready"
          /\ faults' = faults /\ process' = process /\ state' = state /\ session' = session /\ pipeline' = pipeline
          /\ active' = active /\ nextId' = nextId /\ job' = job /\ delivered' = delivered /\ logged' = logged
          /\ stopped' = stopped /\ excused' = excused
      BY <1>5 DEF StartNotice, At, Respond, May, machine, control, history
    <2>2. TypeOK'
      BY <2>1 DEF IInv, TypeOK, Stage, None
    <2>3. (PipelineHasSession /\ Stage)'
      BY <2>1 DEF IInv, TypeOK, PipelineHasSession, Stage, None
    <2>4. (Kept /\ Recording)'
      BY <2>1 DEF IInv, TypeOK, PipelineHasSession, Stage, Kept, Recording, Without, None
    <2>5. Settled'
      BY <2>1 DEF IInv, TypeOK, Stage, Settled, Without, None
    <2>6. NotLost'
      BY <2>1 DEF IInv, TypeOK, PipelineHasSession, Stage, Kept, Settled, NotLost, Without, None
    <2> QED
      BY <2>2, <2>3, <2>4, <2>5, <2>6 DEF IInv
  <1> QED
    BY <1>1, <1>2, <1>3, <1>4, <1>5

\* Nor does a step of _stop up to the end of the pipeline,
LEMMA StopCallsInv ==
    ASSUME IInv, StopState \/ StopNotice \/ PipelineMissing \/ StopPipeline \/ StopPipelineRaises
    PROVE  IInv'
  <1>1. CASE StopState
    <2>1. /\ step = "stop" /\ process = "running"
          /\ \/ /\ state # "recording" /\ step' = "ready"
                /\ state' = state /\ job' = job /\ stopped' = stopped
             \/ /\ state = "recording" /\ state' = "finalizing" /\ step' = "stop_notice"
                /\ job' = session /\ stopped' = stopped \cup {session}
          /\ faults' = faults /\ process' = process /\ session' = session /\ pipeline' = pipeline /\ active' = active
          /\ nextId' = nextId /\ delivered' = delivered /\ logged' = logged /\ excused' = excused
      BY <1>1 DEF StopState, At, Respond, control
    <2>2. TypeOK'
      BY <2>1 DEF IInv, TypeOK, Stage, None
    <2>3. (PipelineHasSession /\ Stage)'
      BY <2>1 DEF IInv, TypeOK, PipelineHasSession, Stage, None
    <2>4. (Kept /\ Recording)'
      BY <2>1 DEF IInv, TypeOK, PipelineHasSession, Stage, Kept, Recording, Without, None
    <2>5. Settled'
      BY <2>1 DEF IInv, TypeOK, Stage, Settled, Without, None
    <2>6. NotLost'
      BY <2>1 DEF IInv, TypeOK, PipelineHasSession, Stage, Kept, Settled, NotLost, Without, None
    <2> QED
      BY <2>2, <2>3, <2>4, <2>5, <2>6 DEF IInv
  <1>2. CASE StopNotice
    <2>1. /\ step = "stop_notice"
          /\ \/ step' = "stop_pipeline"
             \/ "cue" \in faults /\ step' = "ready"
          /\ faults' = faults /\ process' = process /\ state' = state /\ session' = session /\ pipeline' = pipeline
          /\ active' = active /\ nextId' = nextId /\ job' = job /\ delivered' = delivered /\ logged' = logged
          /\ stopped' = stopped /\ excused' = excused
      BY <1>2 DEF StopNotice, At, Respond, May, machine, control, history
    <2>2. TypeOK'
      BY <2>1 DEF IInv, TypeOK, Stage, None
    <2>3. (PipelineHasSession /\ Stage)'
      BY <2>1 DEF IInv, TypeOK, PipelineHasSession, Stage, None
    <2>4. (Kept /\ Recording)'
      BY <2>1 DEF IInv, TypeOK, PipelineHasSession, Stage, Kept, Recording, Without, None
    <2>5. Settled'
      BY <2>1 DEF IInv, TypeOK, Stage, Settled, Without, None
    <2>6. NotLost'
      BY <2>1 DEF IInv, TypeOK, PipelineHasSession, Stage, Kept, Settled, NotLost, Without, None
    <2> QED
      BY <2>2, <2>3, <2>4, <2>5, <2>6 DEF IInv
  <1>3. CASE PipelineMissing
    <2>1. /\ step = "stop_pipeline" /\ pipeline = None
          /\ state' = "idle" /\ session' = None
          /\ step' = "ready"
          /\ faults' = faults /\ process' = process /\ pipeline' = pipeline /\ active' = active /\ nextId' = nextId
          /\ job' = job /\ delivered' = delivered /\ logged' = logged /\ stopped' = stopped /\ excused' = excused
      BY <1>3 DEF PipelineMissing, At, Respond, control, history, Fail, ClearSession
    <2>2. TypeOK'
      BY <2>1 DEF IInv, TypeOK, Stage, None
    <2>3. (PipelineHasSession /\ Stage)'
      BY <2>1 DEF IInv, TypeOK, PipelineHasSession, Stage, None
    <2>4. (Kept /\ Recording)'
      BY <2>1 DEF IInv, TypeOK, PipelineHasSession, Stage, Kept, Recording, Without, None
    <2>5. Settled'
      BY <2>1 DEF IInv, TypeOK, Stage, Settled, Without, None
    <2>6. NotLost'
      BY <2>1 DEF IInv, TypeOK, PipelineHasSession, Stage, Kept, Settled, NotLost, Without, None
    <2> QED
      BY <2>2, <2>3, <2>4, <2>5, <2>6 DEF IInv
  <1>4. CASE StopPipeline
    <2>1. /\ step = "stop_pipeline" /\ pipeline # None
          /\ active' = active \ {pipeline} /\ state' = "outputting" /\ step' = "deliver"
          /\ faults' = faults /\ process' = process /\ session' = session /\ pipeline' = pipeline /\ nextId' = nextId
          /\ job' = job /\ delivered' = delivered /\ logged' = logged /\ stopped' = stopped
          /\ excused' = excused
      BY <1>4 DEF StopPipeline, At, control, history
    <2>2. TypeOK'
      BY <2>1 DEF IInv, TypeOK, Stage, None
    <2>3. (PipelineHasSession /\ Stage)'
      BY <2>1 DEF IInv, TypeOK, PipelineHasSession, Stage, None
    <2>4. (Kept /\ Recording)'
      BY <2>1 DEF IInv, TypeOK, PipelineHasSession, Stage, Kept, Recording, Without, None
    <2>5. Settled'
      BY <2>1 DEF IInv, TypeOK, Stage, Settled, Without, None
    <2>6. NotLost'
      BY <2>1 DEF IInv, TypeOK, PipelineHasSession, Stage, Kept, Settled, NotLost, Without, None
    <2> QED
      BY <2>2, <2>3, <2>4, <2>5, <2>6 DEF IInv
  <1>5. CASE StopPipelineRaises
    <2>1. /\ step = "stop_pipeline" /\ pipeline # None /\ step' = "stop_failed"
          /\ \/ "capture" \in faults /\ active' = active \ {pipeline} /\ excused' = excused \cup {job}
             \/ "wedge" \in faults /\ active' = active /\ excused' = excused \cup {job}
             \/ "cue" \in faults /\ active' = active /\ excused' = excused
          /\ faults' = faults /\ process' = process /\ state' = state /\ session' = session /\ pipeline' = pipeline
          /\ nextId' = nextId /\ job' = job /\ delivered' = delivered /\ logged' = logged
          /\ stopped' = stopped
      BY <1>5 DEF StopPipelineRaises, At, May, machine, control
    <2>2. TypeOK'
      BY <2>1 DEF IInv, TypeOK, Stage, None
    <2>3. (PipelineHasSession /\ Stage)'
      BY <2>1 DEF IInv, TypeOK, PipelineHasSession, Stage, None
    <2>4. (Kept /\ Recording)'
      BY <2>1 DEF IInv, TypeOK, PipelineHasSession, Stage, Kept, Recording, Without, None
    <2>5. Settled'
      BY <2>1 DEF IInv, TypeOK, Stage, Settled, Without, None
    <2>6. NotLost'
      BY <2>1 DEF IInv, TypeOK, PipelineHasSession, Stage, Kept, Settled, NotLost, Without, None
    <2> QED
      BY <2>2, <2>3, <2>4, <2>5, <2>6 DEF IInv
  <1> QED
    BY <1>1, <1>2, <1>3, <1>4, <1>5

\* nor one that delivers and records the text,
LEMMA DeliveryInv ==
    ASSUME IInv, Deliver \/ LogSuccess \/ DoneNotice \/ Complete
    PROVE  IInv'
  <1>1. CASE Deliver
    <2>1. /\ step = "deliver" /\ step' = "log_success"
          /\ delivered' = [delivered EXCEPT ![job] = delivered[job] + 1]
          /\ faults' = faults /\ process' = process /\ state' = state /\ session' = session /\ pipeline' = pipeline
          /\ active' = active /\ nextId' = nextId /\ job' = job /\ logged' = logged
          /\ stopped' = stopped /\ excused' = excused
      BY <1>1 DEF Deliver, At, machine, control
    <2>2. TypeOK'
      BY <2>1 DEF IInv, TypeOK, Stage, None
    <2>3. (PipelineHasSession /\ Stage)'
      BY <2>1 DEF IInv, TypeOK, PipelineHasSession, Stage, None
    <2>4. (Kept /\ Recording)'
      BY <2>1 DEF IInv, TypeOK, PipelineHasSession, Stage, Kept, Recording, Without, None
    <2>5. Settled'
      <3>1. job \in Sessions /\ job <= nextId /\ Sessions \subseteq Nat /\ nextId \in Nat
        BY <2>1 DEF IInv, TypeOK, Stage, Settled, Sessions, None
      <3>2. /\ delivered[job] = 0 /\ logged[job] = {} /\ delivered' = [delivered EXCEPT ![job] = 1]
        <4>1. delivered[job] = 0 /\ logged[job] = {}
          BY <2>1 DEF IInv, Settled
        <4>2. delivered[job] + 1 = 1
          BY <4>1
        <4> QED
          BY <2>1, <4>1, <4>2
      <3>3. \A s \in Sessions : delivered'[s] = IF s = job THEN 1 ELSE delivered[s]
        BY <3>2 DEF IInv, TypeOK
      <3>4. state' = "outputting" /\ logged' = logged
        BY <2>1 DEF IInv, Stage
      <3> QED
        BY <2>1, <3>1, <3>2, <3>3, <3>4 DEF IInv, Settled, Without
    <2>6. NotLost'
      BY <2>1 DEF IInv, TypeOK, PipelineHasSession, Stage, Kept, Settled, NotLost, Without, None
    <2> QED
      BY <2>2, <2>3, <2>4, <2>5, <2>6 DEF IInv
  <1>2. CASE LogSuccess
    <2>1. /\ step = "log_success" /\ step' = "done_notice"
          /\ logged' = [logged EXCEPT ![job] = logged[job] \cup {"ok"}] \/ logged' = logged
          /\ faults' = faults /\ process' = process /\ state' = state /\ session' = session /\ pipeline' = pipeline
          /\ active' = active /\ nextId' = nextId /\ job' = job /\ delivered' = delivered
          /\ stopped' = stopped /\ excused' = excused
      BY <1>2 DEF LogSuccess, At, May, machine, control
    <2>2. TypeOK'
      BY <2>1 DEF IInv, TypeOK, Stage, None
    <2>3. (PipelineHasSession /\ Stage)'
      BY <2>1 DEF IInv, TypeOK, PipelineHasSession, Stage, None
    <2>4. (Kept /\ Recording)'
      BY <2>1 DEF IInv, TypeOK, PipelineHasSession, Stage, Kept, Recording, Without, None
    <2>5. Settled'
      <3>1. job \in Sessions /\ job <= nextId /\ Sessions \subseteq Nat /\ nextId \in Nat
        BY <2>1 DEF IInv, TypeOK, Stage, Settled, Sessions, None
      <3>2. logged[job] = {} /\ state' = "outputting"
        BY <2>1 DEF IInv, Stage, Settled
      <3>3. \A s \in Sessions : logged'[s] = logged[s] \/ (s = job /\ logged'[s] = {"ok"})
        BY <2>1, <3>2 DEF IInv, TypeOK
      <3> QED
        BY <2>1, <3>1, <3>2, <3>3 DEF IInv, Settled, Without
    <2>6. NotLost'
      BY <2>1 DEF IInv, TypeOK, PipelineHasSession, Stage, Kept, Settled, NotLost, Without, None
    <2> QED
      BY <2>2, <2>3, <2>4, <2>5, <2>6 DEF IInv
  <1>3. CASE DoneNotice
    <2>1. /\ step = "done_notice"
          /\ \/ step' = "complete"
             \/ "cue" \in faults /\ step' = "stop_failed"
          /\ faults' = faults /\ process' = process /\ state' = state /\ session' = session /\ pipeline' = pipeline
          /\ active' = active /\ nextId' = nextId /\ job' = job /\ delivered' = delivered
          /\ logged' = logged /\ stopped' = stopped /\ excused' = excused
      BY <1>3 DEF DoneNotice, At, May, machine, control, history
    <2>2. TypeOK'
      BY <2>1 DEF IInv, TypeOK, Stage, None
    <2>3. (PipelineHasSession /\ Stage)'
      BY <2>1 DEF IInv, TypeOK, PipelineHasSession, Stage, None
    <2>4. (Kept /\ Recording)'
      BY <2>1 DEF IInv, TypeOK, PipelineHasSession, Stage, Kept, Recording, Without, None
    <2>5. Settled'
      BY <2>1 DEF IInv, TypeOK, Stage, Settled, Without, None
    <2>6. NotLost'
      BY <2>1 DEF IInv, TypeOK, PipelineHasSession, Stage, Kept, Settled, NotLost, Without, None
    <2> QED
      BY <2>2, <2>3, <2>4, <2>5, <2>6 DEF IInv
  <1>4. CASE Complete
    <2>1. /\ step = "complete" /\ pipeline' = None
          /\ state' = "idle" /\ session' = None
          /\ step' = "ready"
          /\ faults' = faults /\ process' = process /\ active' = active /\ nextId' = nextId /\ job' = job
          /\ delivered' = delivered /\ logged' = logged /\ stopped' = stopped /\ excused' = excused
      BY <1>4 DEF Complete, At, Respond, control, history, ClearSession
    <2>2. TypeOK'
      BY <2>1 DEF IInv, TypeOK, Stage, None
    <2>3. (PipelineHasSession /\ Stage)'
      BY <2>1 DEF IInv, TypeOK, PipelineHasSession, Stage, None
    <2>4. (Kept /\ Recording)'
      BY <2>1 DEF IInv, TypeOK, PipelineHasSession, Stage, Kept, Recording, Without, None
    <2>5. Settled'
      BY <2>1 DEF IInv, TypeOK, Stage, Settled, Without, None
    <2>6. NotLost'
      BY <2>1 DEF IInv, TypeOK, PipelineHasSession, Stage, Kept, Settled, NotLost, Without, None
    <2> QED
      BY <2>2, <2>3, <2>4, <2>5, <2>6 DEF IInv
  <1> QED
    BY <1>1, <1>2, <1>3, <1>4

\* nor one after a failure,
LEMMA StopFailedInv ==
    ASSUME IInv, StopFailed \/ LogFailure
    PROVE  IInv'
  <1>1. CASE StopFailed
    <2>1. /\ step = "stop_failed"
          /\ \/ /\ active' = active \ {pipeline} /\ pipeline' = None /\ step' = "log_failure"
                /\ state' = "idle" /\ session' = None
             \/ /\ "wedge" \in faults /\ active' = active /\ pipeline' = pipeline
                /\ state' = state /\ session' = session /\ step' = "ready"
          /\ faults' = faults /\ process' = process /\ nextId' = nextId /\ job' = job /\ delivered' = delivered
          /\ logged' = logged /\ stopped' = stopped /\ excused' = excused
      BY <1>1 DEF StopFailed, At, Respond, May, machine, control, history, CancelPipeline, Fail, ClearSession
    <2>2. TypeOK'
      BY <2>1 DEF IInv, TypeOK, Stage, None
    <2>3. (PipelineHasSession /\ Stage)'
      BY <2>1 DEF IInv, TypeOK, PipelineHasSession, Stage, None
    <2>4. (Kept /\ Recording)'
      BY <2>1 DEF IInv, TypeOK, PipelineHasSession, Stage, Kept, Recording, Without, None
    <2>5. Settled'
      BY <2>1 DEF IInv, TypeOK, Stage, Settled, Without, None
    <2>6. NotLost'
      BY <2>1 DEF IInv, TypeOK, PipelineHasSession, Stage, Kept, Settled, NotLost, Without, None
    <2> QED
      BY <2>2, <2>3, <2>4, <2>5, <2>6 DEF IInv
  <1>2. CASE LogFailure
    <2>1. /\ step = "log_failure"
          /\ logged' = [logged EXCEPT ![job] = logged[job] \cup {"error"}] \/ logged' = logged
          /\ step' = "ready"
          /\ faults' = faults /\ process' = process /\ state' = state /\ session' = session /\ pipeline' = pipeline
          /\ active' = active /\ nextId' = nextId /\ job' = job /\ delivered' = delivered /\ stopped' = stopped
          /\ excused' = excused
      BY <1>2 DEF LogFailure, At, Respond, May, machine, control
    <2>2. TypeOK'
      BY <2>1 DEF IInv, TypeOK, Stage, None
    <2>3. (PipelineHasSession /\ Stage)'
      BY <2>1 DEF IInv, TypeOK, PipelineHasSession, Stage, None
    <2>4. (Kept /\ Recording)'
      BY <2>1 DEF IInv, TypeOK, PipelineHasSession, Stage, Kept, Recording, Without, None
    <2>5. Settled'
      <3>1. job \in Sessions /\ job <= nextId /\ Sessions \subseteq Nat /\ nextId \in Nat
        BY <2>1 DEF IInv, TypeOK, Stage, Settled, Sessions, None
      <3>2. state' = "idle"
        BY <2>1 DEF IInv, Stage
      <3>3. \A s \in Sessions : logged'[s] = logged[s] \/ (s = job /\ logged'[s] = logged[s] \cup {"error"})
        BY <2>1 DEF IInv, TypeOK
      <3>4. Without({"cue"}) => delivered[job] = 0 /\ logged[job] = {}
        BY <2>1 DEF IInv, Settled
      <3>5. Without({"cue"})' <=> Without({"cue"})
        BY <2>1 DEF Without
      <3>6. Without({"cue"}) => \A s \in Sessions : logged'[s] = logged[s] \/ (s = job /\ logged'[s] = {"error"})
        BY <3>3, <3>4
      <3> QED
        BY <2>1, <3>1, <3>2, <3>3, <3>4, <3>5, <3>6 DEF IInv, Settled
    <2>6. NotLost'
      BY <2>1 DEF IInv, TypeOK, PipelineHasSession, Stage, Kept, Settled, NotLost, Without, None
    <2> QED
      BY <2>2, <2>3, <2>4, <2>5, <2>6 DEF IInv
  <1> QED
    BY <1>1, <1>2

\* nor one of _cancel and _shutdown,
LEMMA CancelStepsInv ==
    ASSUME IInv, Cancel \/ CancelState \/ CancelCue \/ Shutdown \/ ShutdownFlag
    PROVE  IInv'
  <1>1. CASE Cancel
    <2>1. /\ step = "cancel"
          /\ \/ /\ step' = "cancel_state" /\ pipeline' = None
                /\ active' = active \ {pipeline} \/ (pipeline = None /\ active' = active)
             \/ /\ "wedge" \in faults /\ active' = active /\ pipeline' = pipeline
                /\ step' = "ready"
          /\ faults' = faults /\ process' = process /\ state' = state /\ session' = session /\ nextId' = nextId
          /\ job' = job /\ delivered' = delivered /\ logged' = logged /\ stopped' = stopped /\ excused' = excused
      BY <1>1 DEF Cancel, At, Respond, May, machine, control, history, CancelPipeline
    <2>2. TypeOK'
      BY <2>1 DEF IInv, TypeOK, Stage, None
    <2>3. (PipelineHasSession /\ Stage)'
      BY <2>1 DEF IInv, TypeOK, PipelineHasSession, Stage, None
    <2>4. (Kept /\ Recording)'
      BY <2>1 DEF IInv, TypeOK, PipelineHasSession, Stage, Kept, Recording, Without, None
    <2>5. Settled'
      BY <2>1 DEF IInv, TypeOK, Stage, Settled, Without, None
    <2>6. NotLost'
      BY <2>1 DEF IInv, TypeOK, PipelineHasSession, Stage, Kept, Settled, NotLost, Without, None
    <2> QED
      BY <2>2, <2>3, <2>4, <2>5, <2>6 DEF IInv
  <1>2. CASE CancelState
    <2>1. /\ step = "cancel_state"
          /\ \/ /\ state = "idle" /\ state' = state /\ session' = session
                /\ step' = "ready"
             \/ /\ state' = "idle" /\ session' = None
                /\ step' = "cancel_cue"
          /\ faults' = faults /\ process' = process /\ pipeline' = pipeline /\ active' = active /\ nextId' = nextId
          /\ job' = job /\ delivered' = delivered /\ logged' = logged /\ stopped' = stopped /\ excused' = excused
      BY <1>2 DEF CancelState, At, Respond, machine, control, history, ClearSession
    <2>2. TypeOK'
      BY <2>1 DEF IInv, TypeOK, Stage, None
    <2>3. (PipelineHasSession /\ Stage)'
      BY <2>1 DEF IInv, TypeOK, PipelineHasSession, Stage, None
    <2>4. (Kept /\ Recording)'
      BY <2>1 DEF IInv, TypeOK, PipelineHasSession, Stage, Kept, Recording, Without, None
    <2>5. Settled'
      BY <2>1 DEF IInv, TypeOK, Stage, Settled, Without, None
    <2>6. NotLost'
      BY <2>1 DEF IInv, TypeOK, PipelineHasSession, Stage, Kept, Settled, NotLost, Without, None
    <2> QED
      BY <2>2, <2>3, <2>4, <2>5, <2>6 DEF IInv
  <1>3. CASE CancelCue
    <2>1. /\ step = "cancel_cue"
          /\ \/ step' = "ready"
             \/ "cue" \in faults /\ step' = "ready"
          /\ faults' = faults /\ process' = process /\ state' = state /\ session' = session /\ pipeline' = pipeline
          /\ active' = active /\ nextId' = nextId /\ job' = job /\ delivered' = delivered /\ logged' = logged
          /\ stopped' = stopped /\ excused' = excused
      BY <1>3 DEF CancelCue, At, Respond, May, machine, control, history
    <2>2. TypeOK'
      BY <2>1 DEF IInv, TypeOK, Stage, None
    <2>3. (PipelineHasSession /\ Stage)'
      BY <2>1 DEF IInv, TypeOK, PipelineHasSession, Stage, None
    <2>4. (Kept /\ Recording)'
      BY <2>1 DEF IInv, TypeOK, PipelineHasSession, Stage, Kept, Recording, Without, None
    <2>5. Settled'
      BY <2>1 DEF IInv, TypeOK, Stage, Settled, Without, None
    <2>6. NotLost'
      BY <2>1 DEF IInv, TypeOK, PipelineHasSession, Stage, Kept, Settled, NotLost, Without, None
    <2> QED
      BY <2>2, <2>3, <2>4, <2>5, <2>6 DEF IInv
  <1>4. CASE Shutdown
    <2>1. /\ step = "shutdown"
          /\ \/ /\ active' = active \ {pipeline} /\ pipeline' = None /\ step' = "shutdown_flag"
                /\ state' = "idle" /\ session' = None
             \/ /\ pipeline = None /\ active' = active /\ pipeline' = pipeline /\ step' = "shutdown_flag"
                /\ state' = state /\ session' = session
             \/ /\ "wedge" \in faults /\ active' = active /\ pipeline' = pipeline
                /\ state' = state /\ session' = session /\ step' = "ready"
          /\ faults' = faults /\ process' = process /\ nextId' = nextId /\ job' = job /\ delivered' = delivered
          /\ logged' = logged /\ stopped' = stopped /\ excused' = excused
      BY <1>4 DEF Shutdown, At, Respond, May, machine, control, history, CancelPipeline, ClearSession
    <2>2. TypeOK'
      BY <2>1 DEF IInv, TypeOK, Stage, None
    <2>3. (PipelineHasSession /\ Stage)'
      BY <2>1 DEF IInv, TypeOK, PipelineHasSession, Stage, None
    <2>4. (Kept /\ Recording)'
      BY <2>1 DEF IInv, TypeOK, PipelineHasSession, Stage, Kept, Recording, Without, None
    <2>5. Settled'
      BY <2>1 DEF IInv, TypeOK, Stage, Settled, Without, None
    <2>6. NotLost'
      BY <2>1 DEF IInv, TypeOK, PipelineHasSession, Stage, Kept, Settled, NotLost, Without, None
    <2> QED
      BY <2>2, <2>3, <2>4, <2>5, <2>6 DEF IInv
  <1>5. CASE ShutdownFlag
    <2>1. /\ step = "shutdown_flag"
          /\ step' = "ready"
          /\ faults' = faults /\ process' = process /\ state' = state /\ session' = session /\ pipeline' = pipeline
          /\ active' = active /\ nextId' = nextId /\ job' = job /\ delivered' = delivered /\ logged' = logged
          /\ stopped' = stopped /\ excused' = excused
      BY <1>5 DEF ShutdownFlag, At, Respond, machine, history
    <2>2. TypeOK'
      BY <2>1 DEF IInv, TypeOK, Stage, None
    <2>3. (PipelineHasSession /\ Stage)'
      BY <2>1 DEF IInv, TypeOK, PipelineHasSession, Stage, None
    <2>4. (Kept /\ Recording)'
      BY <2>1 DEF IInv, TypeOK, PipelineHasSession, Stage, Kept, Recording, Without, None
    <2>5. Settled'
      BY <2>1 DEF IInv, TypeOK, Stage, Settled, Without, None
    <2>6. NotLost'
      BY <2>1 DEF IInv, TypeOK, PipelineHasSession, Stage, Kept, Settled, NotLost, Without, None
    <2> QED
      BY <2>2, <2>3, <2>4, <2>5, <2>6 DEF IInv
  <1> QED
    BY <1>1, <1>2, <1>3, <1>4, <1>5

\* nor a command that comes, a signal, a crash or a new process.
LEMMA ProcessInv ==
    ASSUME IInv, Receive \/ Status \/ Signal \/ Exit \/ Crash \/ Restart
    PROVE  IInv'
  <1>1. CASE Receive
    <2>1. /\ step = "ready" /\ process = "running" /\ step' \in Commands
          /\ step' = "start" /\ state = "idle" => nextId < MaxSessions
          /\ faults' = faults /\ process' = process /\ state' = state /\ session' = session /\ pipeline' = pipeline
          /\ active' = active /\ nextId' = nextId /\ job' = job /\ delivered' = delivered
          /\ logged' = logged /\ stopped' = stopped /\ excused' = excused
      BY <1>1 DEF Receive, At, machine, control, history
    <2>2. TypeOK'
      BY <2>1 DEF IInv, TypeOK, Stage, None
    <2>3. (PipelineHasSession /\ Stage)'
      BY <2>1 DEF IInv, TypeOK, PipelineHasSession, Stage, Commands, None
    <2>4. (Kept /\ Recording)'
      BY <2>1 DEF IInv, TypeOK, PipelineHasSession, Stage, Kept, Recording, Without, Commands, None
    <2>5. Settled'
      BY <2>1 DEF IInv, TypeOK, Stage, Settled, Without, Commands, None
    <2>6. NotLost'
      BY <2>1 DEF IInv, TypeOK, PipelineHasSession, Stage, Kept, Settled, NotLost, Without, Commands, None
    <2> QED
      BY <2>2, <2>3, <2>4, <2>5, <2>6 DEF IInv
  <1>2. CASE Status
    <2>1. /\ step = "status"
          /\ step' = "ready"
          /\ faults' = faults /\ process' = process /\ state' = state /\ session' = session /\ pipeline' = pipeline
          /\ active' = active /\ nextId' = nextId /\ job' = job /\ delivered' = delivered /\ logged' = logged
          /\ stopped' = stopped /\ excused' = excused
      BY <1>2 DEF Status, At, Respond, machine, control, history
    <2>2. TypeOK'
      BY <2>1 DEF IInv, TypeOK, Stage, None
    <2>3. (PipelineHasSession /\ Stage)'
      BY <2>1 DEF IInv, TypeOK, PipelineHasSession, Stage, None
    <2>4. (Kept /\ Recording)'
      BY <2>1 DEF IInv, TypeOK, PipelineHasSession, Stage, Kept, Recording, Without, None
    <2>5. Settled'
      BY <2>1 DEF IInv, TypeOK, Stage, Settled, Without, None
    <2>6. NotLost'
      BY <2>1 DEF IInv, TypeOK, PipelineHasSession, Stage, Kept, Settled, NotLost, Without, None
    <2> QED
      BY <2>2, <2>3, <2>4, <2>5, <2>6 DEF IInv
  <1>3. CASE Signal
    <2>1. /\ faults' = faults /\ process' = process /\ state' = state /\ session' = session /\ pipeline' = pipeline
          /\ active' = active /\ nextId' = nextId /\ step' = step /\ job' = job
          /\ delivered' = delivered /\ logged' = logged /\ stopped' = stopped /\ excused' = excused
      BY <1>3 DEF Signal, machine, history
    <2>2. TypeOK'
      BY <2>1 DEF IInv, TypeOK, Stage, None
    <2>3. (PipelineHasSession /\ Stage)'
      BY <2>1 DEF IInv, TypeOK, PipelineHasSession, Stage, None
    <2>4. (Kept /\ Recording)'
      BY <2>1 DEF IInv, TypeOK, PipelineHasSession, Stage, Kept, Recording, Without, None
    <2>5. Settled'
      BY <2>1 DEF IInv, TypeOK, Stage, Settled, Without, None
    <2>6. NotLost'
      BY <2>1 DEF IInv, TypeOK, PipelineHasSession, Stage, Kept, Settled, NotLost, Without, None
    <2> QED
      BY <2>2, <2>3, <2>4, <2>5, <2>6 DEF IInv
  <1>4. CASE Exit
    <2>1. /\ step = "ready" /\ process' = "exited"
          /\ faults' = faults /\ state' = state /\ session' = session /\ pipeline' = pipeline /\ active' = active
          /\ nextId' = nextId /\ step' = step /\ job' = job /\ delivered' = delivered
          /\ logged' = logged /\ stopped' = stopped /\ excused' = excused
      BY <1>4 DEF Exit, At, machine, history
    <2>2. TypeOK'
      BY <2>1 DEF IInv, TypeOK, Stage, None
    <2>3. (PipelineHasSession /\ Stage)'
      BY <2>1 DEF IInv, TypeOK, PipelineHasSession, Stage, None
    <2>4. (Kept /\ Recording)'
      BY <2>1 DEF IInv, TypeOK, PipelineHasSession, Stage, Kept, Recording, Without, None
    <2>5. Settled'
      BY <2>1 DEF IInv, TypeOK, Stage, Settled, Without, None
    <2>6. NotLost'
      BY <2>1 DEF IInv, TypeOK, PipelineHasSession, Stage, Kept, Settled, NotLost, Without, None
    <2> QED
      BY <2>2, <2>3, <2>4, <2>5, <2>6 DEF IInv
  <1>5. CASE Crash
    <2>1. /\ process' = "exited" /\ excused' = excused \cup ({session} \ {None})
          /\ faults' = faults /\ state' = state /\ session' = session /\ pipeline' = pipeline /\ active' = active
          /\ nextId' = nextId /\ step' = step /\ job' = job /\ delivered' = delivered
          /\ logged' = logged /\ stopped' = stopped
      BY <1>5 DEF Crash, May, machine
    <2>2. TypeOK'
      BY <2>1 DEF IInv, TypeOK, Stage, None
    <2>3. (PipelineHasSession /\ Stage)'
      BY <2>1 DEF IInv, TypeOK, PipelineHasSession, Stage, None
    <2>4. (Kept /\ Recording)'
      BY <2>1 DEF IInv, TypeOK, PipelineHasSession, Stage, Kept, Recording, Without, None
    <2>5. Settled'
      BY <2>1 DEF IInv, TypeOK, Stage, Settled, Without, None
    <2>6. NotLost'
      BY <2>1 DEF IInv, TypeOK, PipelineHasSession, Stage, Kept, Settled, NotLost, Without, None
    <2> QED
      BY <2>2, <2>3, <2>4, <2>5, <2>6 DEF IInv
  <1>6. CASE Restart
    <2>1. /\ process = "exited" /\ process' = "running"
          /\ state' = "idle" /\ session' = None
          /\ job' = None /\ pipeline' = None /\ active' = {}
          /\ step' = "ready"
          /\ faults' = faults /\ nextId' = nextId /\ delivered' = delivered /\ logged' = logged /\ stopped' = stopped
          /\ excused' = excused
      BY <1>6 DEF Restart, history, NoReply
    <2>2. TypeOK'
      BY <2>1 DEF IInv, TypeOK, Stage, None
    <2>3. (PipelineHasSession /\ Stage)'
      BY <2>1 DEF IInv, TypeOK, PipelineHasSession, Stage, None
    <2>4. (Kept /\ Recording)'
      BY <2>1 DEF IInv, TypeOK, PipelineHasSession, Stage, Kept, Recording, Without, None
    <2>5. Settled'
      BY <2>1 DEF IInv, TypeOK, Stage, Settled, Without, None
    <2>6. NotLost'
      BY <2>1 DEF IInv, TypeOK, PipelineHasSession, Stage, Kept, Settled, NotLost, Without, None
    <2> QED
      BY <2>2, <2>3, <2>4, <2>5, <2>6 DEF IInv
  <1> QED
    BY <1>1, <1>2, <1>3, <1>4, <1>5, <1>6

\* A new service is idle.
LEMMA InitIInv == Init => IInv
  <1> SUFFICES ASSUME Init PROVE IInv
    OBVIOUS
  <1>1. TypeOK
    BY ServiceAssumption DEF Init, TypeOK, None
  <1>2. Settled
    BY DEF Init, Settled, Sessions, None
  <1>3. PipelineHasSession /\ Stage /\ Kept /\ Recording /\ NotLost
    BY DEF Init, NoReply, PipelineHasSession, Stage, Kept, Recording, NotLost
  <1> QED
    BY <1>1, <1>2, <1>3 DEF IInv

\* The invariant is inductive.
LEMMA NextIInv == IInv /\ [Next]_vars => IInv'
  <1> SUFFICES ASSUME IInv, [Next]_vars
               PROVE  IInv'
    OBVIOUS
  <1>1. CASE HandlerStep
    BY <1>1, StartStepsInv, StopCallsInv, DeliveryInv, StopFailedInv, CancelStepsInv, ProcessInv
    DEF HandlerStep, StartSteps, StopSteps, CancelSteps
  <1>2. CASE Receive \/ Signal \/ Exit \/ Crash \/ Restart
    BY <1>2, ProcessInv
  <1>3. CASE UNCHANGED vars
    <2>1. /\ faults' = faults /\ process' = process /\ state' = state /\ session' = session
          /\ pipeline' = pipeline /\ active' = active /\ nextId' = nextId /\ step' = step /\ job' = job
          /\ delivered' = delivered /\ logged' = logged /\ stopped' = stopped
          /\ excused' = excused
      BY <1>3 DEF vars, machine, control, history
    <2> QED
      BY <2>1 DEF IInv, TypeOK, PipelineHasSession, Stage, Kept, Recording, Settled, NotLost, Without
  <1> QED
    BY <1>1, <1>2, <1>3 DEF Next

-----------------------------------------------------------------------------
(* The theorems. *)

\* The invariant holds in every reachable state, whatever commands, failures,
\* signals and crashes come.
THEOREM ServiceInvariance == Spec => []IInv
  BY InitIInv, NextIInv, PTL DEF Spec

\* Every variable keeps its type.
THEOREM ServiceTypeCorrect == Spec => []TypeOK
  <1>1. IInv => TypeOK
    BY DEF IInv
  <1> QED
    BY <1>1, ServiceInvariance, PTL

\* _shutdown of service_app.py cancels the pipeline and the session as one: the
\* pipeline in hand is always that of the session.
THEOREM PipelineIsOfSession == Spec => []PipelineHasSession
  <1>1. IInv => PipelineHasSession
    BY DEF IInv
  <1> QED
    BY <1>1, ServiceInvariance, PTL

\* Between commands the service is idle and records nothing, or records its session,
\* unless a cue, the configuration or the recorder's end failed.
THEOREM RestsAsItShows == Spec => []RestsIdleOrRecording
  <1>1. IInv => RestsIdleOrRecording
    <2> SUFFICES ASSUME IInv, AtRest, Without({"cue", "wedge", "config"})
                 PROVE  \/ state = "idle" /\ pipeline = None /\ active = {}
                        \/ state = "recording" /\ pipeline = session /\ active = {session}
      BY DEF RestsIdleOrRecording
    <2>1. step = "ready" /\ Without({"cue"}) /\ Without({"cue", "config"})
      BY DEF AtRest, At, Without
    <2>2. active \subseteq {pipeline} /\ active \subseteq Sessions
      BY <2>1 DEF IInv, TypeOK, Recording
    <2>3. CASE state = "idle"
      BY <2>2, <2>3 DEF IInv, PipelineHasSession, Sessions, None
    <2>4. CASE state # "idle"
      <3>1. pipeline = session
        BY <2>1, <2>4 DEF IInv, Kept
      <3>2. state = "recording" /\ session \in active
        BY <2>1, <2>4 DEF IInv, TypeOK, Recording
      <3> QED
        BY <2>2, <3>1, <3>2
    <2> QED
      BY <2>3, <2>4
  <1> QED
    BY <1>1, ServiceInvariance, PTL

\* A recording that goes on between commands is one that cancel reaches.
THEOREM NothingRecordsUnseen == Spec => []ActiveIsReachable
  <1>1. IInv => ActiveIsReachable
    BY DEF IInv, Recording, ActiveIsReachable, AtRest, At
  <1> QED
    BY <1>1, ServiceInvariance, PTL

\* A session is delivered once at most, and recorded as what it became.
THEOREM SettledOnce == Spec => []OneOutcome
  <1>1. IInv => OneOutcome
    <2> SUFFICES ASSUME IInv, NEW s \in Sessions, Without({"cue"})
                 PROVE  Cardinality(logged[s]) <= 1 /\ ("error" \in logged[s] => delivered[s] = 0)
      BY DEF IInv, Settled, OneOutcome
    <2>1. logged[s] \in {{}, {"ok"}, {"error"}} /\ ("error" \in logged[s] => delivered[s] = 0)
      BY DEF IInv, Settled
    <2>2. Cardinality({}) = 0 /\ Cardinality({"ok"}) = 1 /\ Cardinality({"error"}) = 1
      BY FS_EmptySet, FS_Singleton
    <2> QED
      BY <2>1, <2>2
  <1> QED
    BY <1>1, ServiceInvariance, PTL

\* Unless a cue or the configuration failed, a session whose stop was accepted and
\* whose recording was sound is delivered when the command is answered.
THEOREM TranscriptIsKept == Spec => []NoTranscriptLost
  <1>1. IInv => NoTranscriptLost
    BY DEF IInv, NotLost, NoTranscriptLost, AtRest, At
  <1> QED
    BY <1>1, ServiceInvariance, PTL

-----------------------------------------------------------------------------
(* The service implements Responder. *)

\* Where a handler is says what it was asked and what it has come to; what is in hand
\* once the text is out records no more.
Asks ==
    /\ step # "ready" => asked.command \in Commands
    /\ step \in Commands => asked.command = step /\ asked.state = state
    /\ step \in Starting \cup {"start_notice"} => asked.command = "start" /\ asked.state = "idle"
    /\ step \in Stopping \cup Outputting \cup {"stop_failed", "log_failure"} =>
           asked.command = "stop" /\ asked.state = "recording"
    /\ step = "cancel_state" => asked.command = "cancel" /\ asked.state = state
    /\ step = "cancel_cue" => asked.command = "cancel" /\ asked.state # "idle"
    /\ step = "shutdown_flag" => asked.command = "shutdown" /\ state \in {"idle", asked.state}
    /\ step \in Outputting \/ (step = "stop_failed" /\ state = "outputting") => pipeline \notin active

\* A step of a handler that does not answer.
Goes ==
    /\ step # "ready" /\ step' # "ready"
    /\ process' = process /\ asked' = asked /\ reply' = reply

\* A step that does.
Answers ==
    /\ step # "ready" /\ step' = "ready"
    /\ process = "running" /\ process' = process
    /\ [ok |-> reply'.ok, state |-> state', says |-> reply'.state] \in R!Outcomes(asked.command, asked.state)

\* The first is nothing to a client, and the second is the answer.
LEMMA Shown == Asks => (Goes => UNCHANGED R!vars) /\ (Answers => R!Answer)
  <1>1. ASSUME Goes PROVE UNCHANGED R!vars
    BY <1>1 DEF Goes, R!vars
  <1>2. ASSUME Asks, Answers PROVE R!Answer
    <2>1. asked.command # "none"
      BY <1>2 DEF Asks, Answers, Commands
    <2> DEFINE outcome == [ok |-> reply'.ok, state |-> state', says |-> reply'.state]
    <2>2. outcome \in R!Outcomes(asked.command, asked.state)
      BY <1>2 DEF Answers
    <2>3. outcome.ok = reply'.ok /\ outcome.state = state' /\ outcome.says = reply'.state
      OBVIOUS
    <2> HIDE DEF outcome
    <2> QED
      BY <1>2, <2>1, <2>2, <2>3 DEF Answers, R!Answer
  <1> QED
    BY <1>1, <1>2

\* The outcomes of each command.
LEMMA OutcomesAre ==
    /\ \A now : [ok |-> TRUE, state |-> now, says |-> now] \in R!Outcomes("status", now)
    /\ \A now : now # "idle" => [ok |-> FALSE, state |-> now, says |-> now] \in R!Outcomes("start", now)
    /\ \A now : now # "recording" => [ok |-> FALSE, state |-> now, says |-> now] \in R!Outcomes("stop", now)
    /\ [ok |-> TRUE, state |-> "recording", says |-> "recording"] \in R!Outcomes("start", "idle")
    /\ [ok |-> FALSE, state |-> "idle", says |-> "idle"] \in R!Outcomes("start", "idle")
    /\ [ok |-> FALSE, state |-> "recording", says |-> "recording"] \in R!Outcomes("start", "idle")
    /\ [ok |-> TRUE, state |-> "idle", says |-> "idle"] \in R!Outcomes("stop", "recording")
    /\ [ok |-> FALSE, state |-> "idle", says |-> "idle"] \in R!Outcomes("stop", "recording")
    /\ [ok |-> FALSE, state |-> "finalizing", says |-> "finalizing"] \in R!Outcomes("stop", "recording")
    /\ \A now : [ok |-> FALSE, state |-> now, says |-> now] \in R!Outcomes("cancel", now)
    /\ \A now : now # "idle" =>
           /\ [ok |-> TRUE, state |-> "idle", says |-> "idle"] \in R!Outcomes("cancel", now)
           /\ [ok |-> FALSE, state |-> "idle", says |-> "idle"] \in R!Outcomes("cancel", now)
           /\ [ok |-> FALSE, state |-> now, says |-> now] \in R!Outcomes("shutdown", now)
    /\ \A now : [ok |-> TRUE, state |-> now, says |-> "idle"] \in R!Outcomes("shutdown", now)
    /\ \A now : [ok |-> TRUE, state |-> "idle", says |-> "idle"] \in R!Outcomes("shutdown", now)
  BY DEF R!Outcomes

\* A start goes on or has one of its outcomes.
LEMMA StartAnswers == ASSUME IInv, Asks, StartSteps PROVE Asks' /\ (Goes \/ Answers)
  <1>1. CASE StartState
    <2>1. /\ step = "start" /\ process = "running" /\ process' = process /\ asked' = asked
          /\ pipeline' = pipeline /\ active' = active
          /\ \/ state # "idle" /\ state' = state /\ step' = "ready" /\ reply'.ok = FALSE /\ reply'.state = state'
             \/ state = "idle" /\ state' = "recording" /\ step' = "make_pipeline" /\ reply' = reply
      BY <1>1 DEF StartState, At, Respond, machine, control, history
    <2>2. Asks'
      BY <2>1 DEF IInv, Stage, Asks, Commands
    <2>3. asked.command = "start" /\ asked.state = state
      BY <2>1 DEF Asks, Commands
    <2>4. CASE state # "idle"
      <3>1. [ok |-> FALSE, state |-> state, says |-> state] \in R!Outcomes("start", state)
        BY <2>4, OutcomesAre
      <3> QED
        BY <2>1, <2>2, <2>3, <2>4, <3>1 DEF Answers
    <2>5. CASE state = "idle"
      BY <2>1, <2>2, <2>5 DEF Goes
    <2> QED
      BY <2>4, <2>5
  <1>2. CASE MakePipeline
    <2>1. /\ step = "make_pipeline" /\ process = "running" /\ process' = process /\ asked' = asked
          /\ state' = state /\ pipeline' = pipeline /\ active' = active
          /\ \/ step' = "start_pipeline" /\ reply' = reply
             \/ step' = "ready" /\ reply'.ok = FALSE /\ reply'.state = state'
      BY <1>2 DEF MakePipeline, At, Respond, machine, control, history
    <2>2. Asks'
      BY <2>1 DEF IInv, Stage, Asks, Commands
    <2>3. Goes \/ Answers
      BY <2>1, OutcomesAre DEF IInv, Stage, Asks, Goes, Answers, Commands
    <2> QED
      BY <2>2, <2>3
  <1>3. CASE StartPipeline
    <2>1. /\ step = "start_pipeline" /\ process = "running" /\ process' = process /\ asked' = asked
          /\ pipeline' = pipeline
          /\ \/ step' = "start_cue" /\ reply' = reply /\ state' = state
             \/ step' = "ready" /\ reply'.ok = FALSE /\ reply'.state = state' /\ state' = "idle"
      BY <1>3 DEF StartPipeline, At, Respond, machine, control, history, Fail, ClearSession
    <2>2. Asks'
      BY <2>1 DEF IInv, Stage, Asks, Commands
    <2>3. Goes \/ Answers
      BY <2>1, OutcomesAre DEF IInv, Stage, Asks, Goes, Answers, Commands
    <2> QED
      BY <2>2, <2>3
  <1>4. CASE StartCue
    <2>1. /\ step = "start_cue" /\ process = "running" /\ process' = process /\ asked' = asked
          /\ state' = state /\ active' = active
          /\ \/ step' = "start_notice" /\ reply' = reply
             \/ step' = "ready" /\ reply'.ok = FALSE /\ reply'.state = state'
      BY <1>4 DEF StartCue, At, Respond, machine, control, history
    <2>2. Asks'
      BY <2>1 DEF IInv, Stage, Asks, Commands
    <2>3. Goes \/ Answers
      BY <2>1, OutcomesAre DEF IInv, Stage, Asks, Goes, Answers, Commands
    <2> QED
      BY <2>2, <2>3
  <1>5. CASE StartNotice
    <2>0. step = "start_notice" /\ state = "recording"
      BY <1>5 DEF IInv, Stage, StartNotice, At
    <2>1. /\ step = "start_notice" /\ process = "running" /\ process' = process /\ asked' = asked
          /\ state' = state /\ pipeline' = pipeline /\ active' = active
          /\ step' = "ready" /\ reply'.ok \in BOOLEAN /\ reply'.state = state'
      <3>1. step' = "ready" /\ \E ok \in BOOLEAN : reply' = [command |-> "start", ok |-> ok, state |-> state]
        BY <1>5, <2>0 DEF StartNotice, Respond
      <3>2. reply'.ok \in BOOLEAN /\ reply'.state = state
        BY <3>1
      <3> QED
        BY <1>5, <3>1, <3>2 DEF StartNotice, At, machine, control, history
    <2>2. Asks'
      BY <2>1 DEF IInv, Stage, Asks, Commands
    <2>3. Goes \/ Answers
      BY <2>1, OutcomesAre DEF IInv, Stage, Asks, Goes, Answers, Commands
    <2> QED
      BY <2>2, <2>3
  <1> QED
    BY <1>1, <1>2, <1>3, <1>4, <1>5 DEF StartSteps

\* So does a stop,
LEMMA StopAnswers == ASSUME IInv, Asks, StopSteps PROVE Asks' /\ (Goes \/ Answers)
  <1>1. CASE StopState
    <2>1. /\ step = "stop" /\ process = "running" /\ process' = process /\ asked' = asked
          /\ pipeline' = pipeline /\ active' = active
          /\ \/ state # "recording" /\ state' = state /\ step' = "ready" /\ reply'.ok = FALSE /\ reply'.state = state'
             \/ state = "recording" /\ state' = "finalizing" /\ step' = "stop_notice" /\ reply' = reply
      BY <1>1 DEF StopState, At, Respond, control, history
    <2>2. Asks'
      BY <2>1 DEF IInv, Stage, Asks, Commands
    <2>3. asked.command = "stop" /\ asked.state = state
      BY <2>1 DEF Asks, Commands
    <2>4. CASE state # "recording"
      <3>1. [ok |-> FALSE, state |-> state, says |-> state] \in R!Outcomes("stop", state)
        BY <2>4, OutcomesAre
      <3> QED
        BY <2>1, <2>2, <2>3, <2>4, <3>1 DEF Answers
    <2>5. CASE state = "recording"
      BY <2>1, <2>2, <2>5 DEF Goes
    <2> QED
      BY <2>4, <2>5
  <1>2. CASE StopNotice
    <2>1. /\ step = "stop_notice" /\ process = "running" /\ process' = process /\ asked' = asked
          /\ state' = state /\ pipeline' = pipeline /\ active' = active
          /\ \/ step' = "stop_pipeline" /\ reply' = reply
             \/ step' = "ready" /\ reply'.ok = FALSE /\ reply'.state = state'
      BY <1>2 DEF StopNotice, At, Respond, machine, control, history
    <2>2. Asks'
      BY <2>1 DEF IInv, Stage, Asks, Commands
    <2>3. Goes \/ Answers
      BY <2>1, OutcomesAre DEF IInv, Stage, Asks, Goes, Answers, Commands
    <2> QED
      BY <2>2, <2>3
  <1>3. CASE PipelineMissing
    BY <1>3, OutcomesAre
    DEF IInv, Stage, Asks, Goes, Answers, PipelineMissing, At, Respond, Commands, control, history,
        Fail, ClearSession
  <1>4. CASE StopPipeline
    BY <1>4 DEF IInv, Stage, Asks, Goes, StopPipeline, At, Commands, control, history
  <1>5. CASE StopPipelineRaises
    BY <1>5 DEF IInv, Stage, Asks, Goes, StopPipelineRaises, At, Commands, machine, control
  <1>6. CASE Deliver \/ LogSuccess \/ DoneNotice
    BY <1>6 DEF IInv, Stage, Asks, Goes, Deliver, LogSuccess, DoneNotice, At, Commands, machine, control, history
  <1>7. CASE Complete
    BY <1>7, OutcomesAre
    DEF IInv, Stage, Asks, Goes, Answers, Complete, At, Respond, Commands, control, history, ClearSession
  <1>8. CASE StopFailed
    <2>1. /\ step = "stop_failed" /\ process = "running" /\ process' = process /\ asked' = asked
          /\ \/ step' = "log_failure" /\ reply' = reply /\ state' = "idle"
             \/ step' = "ready" /\ reply'.ok = FALSE /\ reply'.state = state' /\ pipeline \in active /\ state' = state
      BY <1>8 DEF StopFailed, At, Respond, machine, control, history, CancelPipeline, Fail, ClearSession
    <2>2. Asks'
      BY <2>1 DEF IInv, Stage, Asks, Commands
    <2>3. Goes \/ Answers
      BY <2>1, OutcomesAre DEF IInv, Stage, Asks, Goes, Answers, Commands
    <2> QED
      BY <2>2, <2>3
  <1>9. CASE LogFailure
    BY <1>9, OutcomesAre
    DEF IInv, Stage, Asks, Goes, Answers, LogFailure, At, Respond, Commands, machine, control, history
  <1> QED
    BY <1>1, <1>2, <1>3, <1>4, <1>5, <1>6, <1>7, <1>8, <1>9 DEF StopSteps

\* and a status, a cancel and a shutdown.
LEMMA OtherAnswers ==
    ASSUME IInv, Asks, Status \/ CancelSteps \/ Shutdown \/ ShutdownFlag
    PROVE  Asks' /\ (Goes \/ Answers)
  <1>1. CASE Status
    BY <1>1, OutcomesAre DEF Asks, Goes, Answers, Status, At, Respond, Commands, machine, control, history
  <1>2. CASE Cancel
    BY <1>2, OutcomesAre
    DEF Asks, Goes, Answers, Cancel, CancelPipeline, At, Respond, Commands, machine, control, history
  <1>3. CASE CancelState
    <2>1. /\ step = "cancel_state" /\ process = "running" /\ process' = process /\ asked' = asked
          /\ pipeline' = pipeline /\ active' = active
          /\ \/ state = "idle" /\ state' = state /\ step' = "ready" /\ reply'.ok = FALSE /\ reply'.state = state'
             \/ state # "idle" /\ state' = "idle" /\ step' = "cancel_cue" /\ reply' = reply
      BY <1>3 DEF CancelState, At, Respond, machine, control, history, ClearSession
    <2>2. Asks'
      BY <2>1 DEF IInv, Stage, Asks, Commands
    <2>3. asked.command = "cancel" /\ asked.state = state
      BY <2>1 DEF Asks, Commands
    <2>4. CASE state = "idle"
      <3>1. [ok |-> FALSE, state |-> state, says |-> state] \in R!Outcomes("cancel", state)
        BY <2>4, OutcomesAre
      <3> QED
        BY <2>1, <2>2, <2>3, <2>4, <3>1 DEF Answers
    <2>5. CASE state # "idle"
      BY <2>1, <2>2, <2>5 DEF Goes
    <2> QED
      BY <2>4, <2>5
  <1>4. CASE CancelCue
    <2>0. step = "cancel_cue" /\ state = "idle"
      BY <1>4 DEF IInv, Stage, CancelCue, At
    <2>1. /\ step = "cancel_cue" /\ process = "running" /\ process' = process /\ asked' = asked
          /\ state' = state /\ pipeline' = pipeline /\ active' = active
          /\ step' = "ready" /\ reply'.ok \in BOOLEAN /\ reply'.state = state'
      <3>1. step' = "ready" /\ \E ok \in BOOLEAN : reply' = [command |-> "cancel", ok |-> ok, state |-> state]
        BY <1>4, <2>0 DEF CancelCue, Respond
      <3>2. reply'.ok \in BOOLEAN /\ reply'.state = state
        BY <3>1
      <3> QED
        BY <1>4, <3>1, <3>2 DEF CancelCue, At, machine, control, history
    <2>2. Asks'
      BY <2>1 DEF IInv, Stage, Asks, Commands
    <2>3. Goes \/ Answers
      BY <2>1, OutcomesAre DEF IInv, Stage, Asks, Goes, Answers, Commands
    <2> QED
      BY <2>2, <2>3
  <1>5. CASE Shutdown
    BY <1>5, OutcomesAre
    DEF IInv, PipelineHasSession, Asks, Goes, Answers, Shutdown, CancelPipeline, At, Respond, Commands,
        machine, control, history, ClearSession
  <1>6. CASE ShutdownFlag
    BY <1>6, OutcomesAre
    DEF Asks, Goes, Answers, ShutdownFlag, At, Respond, Commands, machine, control, history
  <1> QED
    BY <1>1, <1>2, <1>3, <1>4, <1>5, <1>6 DEF CancelSteps

\* Every step is one of Responder, or nothing to a client.
LEMMA NextShown ==
    ASSUME IInv, Asks, [Next]_vars PROVE Asks' /\ [R!Next]_(R!vars)
  <1>1. CASE HandlerStep
    BY <1>1, StartAnswers, StopAnswers, OtherAnswers, Shown DEF HandlerStep, R!Next
  <1>2. CASE Receive
    <2>1. /\ step = "ready" /\ process = "running" /\ process' = process /\ state' = state
          /\ reply' = reply /\ step' \in Commands
          /\ asked'.command = step' /\ asked'.state = state
      BY <1>2 DEF Receive, At, machine, control
    <2>2. Asks'
      BY <2>1 DEF Asks, Commands
    <2>3. R!Take
      BY <2>1 DEF R!Take, R!Words, Commands
    <2> QED
      BY <2>2, <2>3 DEF R!Next
  <1>3. CASE Signal
    BY <1>3 DEF Signal, Asks, R!vars, machine, history
  <1>4. CASE Exit \/ Crash
    <2>1. /\ process = "running" /\ process' = "exited"
          /\ UNCHANGED <<step, asked, state, reply, pipeline, active>>
      BY <1>4 DEF Exit, Crash, At, machine, history
    <2> QED
      BY <2>1 DEF Asks, R!Next, R!End
  <1>5. CASE Restart
    BY <1>5 DEF Restart, NoReply, Asks, R!Next, R!Restart, Commands
  <1>6. CASE UNCHANGED vars
    BY <1>6 DEF vars, machine, control, history, Asks, R!vars
  <1> QED
    BY <1>1, <1>2, <1>3, <1>4, <1>5, <1>6 DEF Next

\* Whatever fails and wherever a handler is cut short: to its clients the service
\* takes one command at a time and answers with one of the outcomes that Clients.tla
\* assumes.
THEOREM ImplementsResponder == Spec => HandlesInOneStep
  <1>1. Init => Asks /\ R!Init
    BY DEF Init, NoReply, Asks, Commands, R!Init
  <1>2. IInv /\ Asks /\ [Next]_vars => Asks' /\ [R!Next]_(R!vars)
    BY NextShown
  <1> QED
    BY <1>1, <1>2, ServiceInvariance, PTL DEF Spec, HandlesInOneStep, R!Spec
=============================================================================
