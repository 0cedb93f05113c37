----------------------------- MODULE Responder -----------------------------
(***************************************************************************)
(* What a service promises to its clients: it takes one command at a time  *)
(* and answers it with one of its outcomes, unless its process ends.       *)
(* Clients.tla knows no more of a service; Service.tla is shown to         *)
(* implement this specification.                                           *)
(***************************************************************************)
EXTENDS Handling

VARIABLES process,   \* "running" or "exited"
          command,   \* the command being handled, or "none"
          state,     \* the state machine between commands
          ok,        \* whether the last answer was ok
          says       \* the state in it

vars == <<process, command, state, ok, says>>

Init ==
    /\ process = "running"
    /\ command = "none"
    /\ state = "idle"
    /\ ok = TRUE
    /\ says = "idle"

Take ==
    /\ process = "running"
    /\ command = "none"
    /\ command' \in Words
    /\ UNCHANGED <<process, state, ok, says>>

Answer ==
    /\ process = "running"
    /\ command # "none"
    /\ \E outcome \in Outcomes(command, state) :
           /\ ok' = outcome.ok
           /\ state' = outcome.state
           /\ says' = outcome.says
    /\ command' = "none"
    /\ UNCHANGED process

\* Also in the middle of a command.
End ==
    /\ process = "running"
    /\ process' = "exited"
    /\ UNCHANGED <<command, state, ok, says>>

\* The next client starts a service.
Restart ==
    /\ process = "exited"
    /\ process' = "running"
    /\ command' = "none"
    /\ state' = "idle"
    /\ ok' = TRUE
    /\ says' = "idle"

Next == Take \/ Answer \/ End \/ Restart

Spec == Init /\ [][Next]_vars
=============================================================================
