------------------------------ MODULE Handling ------------------------------
(***************************************************************************)
(* What one command does to a service of speaktap/service_app.py, seen     *)
(* between commands: the calls of the handler, in Service.tla, are one     *)
(* step.                                                                   *)
(***************************************************************************)

\* ServiceStateMachine._state between commands.  Nothing rests in "outputting".
States == {"idle", "recording", "finalizing"}

\* The commands of the protocol.
Words == {"status", "start", "stop", "cancel", "shutdown"}

\* Whether a handler answers ok, how it leaves the state machine, and the state in
\* its answer.  A start whose configuration was refused or whose cue was not played
\* leaves it recording, and a stop whose recorder would not die or whose first cue was
\* not played leaves it finalizing.  A shutdown without a pipeline does not look at
\* the state, and says idle.
Outcomes(what, now) ==
    LET To(ok, next) == [ok |-> ok, state |-> next, says |-> next]
        Gone(next) == [ok |-> TRUE, state |-> next, says |-> "idle"]
    IN
    CASE what = "status" -> {To(TRUE, now)}
      [] what = "start"  -> IF now = "idle"
                            THEN {To(TRUE, "recording"), To(FALSE, "idle"), To(FALSE, "recording")}
                            ELSE {To(FALSE, now)}
      [] what = "stop"   -> IF now = "recording"
                            THEN {To(TRUE, "idle"), To(FALSE, "idle"), To(FALSE, "finalizing")}
                            ELSE {To(FALSE, now)}
      [] what = "cancel" -> IF now = "idle" THEN {To(FALSE, "idle")}
                            ELSE {To(TRUE, "idle"), To(FALSE, "idle"), To(FALSE, now)}
      [] what = "shutdown" -> IF now = "idle" THEN {Gone("idle")}
                              ELSE {Gone("idle"), Gone(now), To(FALSE, now)}
=============================================================================
