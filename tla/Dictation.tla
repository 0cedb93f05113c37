----------------------------- MODULE Dictation -----------------------------
(***************************************************************************)
(* What one recording pipeline promises its owner, with threads, queue and *)
(* sentinel abstracted away.  A session cuts speech into numbered chunks;  *)
(* each is heard (transcribed, well or badly) exactly once and in order; a *)
(* result is handed over only when every chunk cut in the session has been *)
(* heard and capture did not fail, and it is made of those chunks only.    *)
(* Pipeline.tla is shown to implement this specification.                  *)
(***************************************************************************)
EXTENDS Naturals

CONSTANTS Status,    \* what hearing one chunk may yield
          NoResult   \* nothing has been handed over yet

VARIABLES phase,     \* "idle" or "active"
          spoken,    \* chunks cut so far in this session
          heard,     \* sequence number -> Status, for the chunks transcribed
          broken,    \* audio capture failed in this session
          result     \* the last result handed to the owner

vars == <<phase, spoken, heard, broken, result>>

Nothing == [n \in {} |-> n]

Init ==
    /\ phase = "idle"
    /\ spoken = 0
    /\ heard = Nothing
    /\ broken = FALSE
    /\ result = NoResult

Begin ==
    /\ phase = "idle"
    /\ phase' = "active"
    /\ UNCHANGED <<spoken, heard, broken, result>>

\* The microphone yields one more chunk.
Speak ==
    /\ phase = "active"
    /\ spoken' = spoken + 1
    /\ UNCHANGED <<phase, heard, broken, result>>

\* The oldest chunk not heard yet is transcribed.
Hear ==
    /\ phase = "active"
    /\ \E n \in 0 .. spoken - 1, status \in Status :
         /\ DOMAIN heard = 0 .. n - 1
         /\ heard' = [m \in 0 .. n |-> IF m = n THEN status ELSE heard[m]]
    /\ UNCHANGED <<phase, spoken, broken, result>>

Break ==
    /\ phase = "active"
    /\ broken' = TRUE
    /\ UNCHANGED <<phase, spoken, heard, result>>

Forget ==
    /\ phase' = "idle"
    /\ spoken' = 0
    /\ heard' = Nothing
    /\ broken' = FALSE

Finish ==
    /\ phase = "active"
    /\ ~broken
    /\ DOMAIN heard = 0 .. spoken - 1
    /\ result' = heard
    /\ Forget

\* Cancelled, or stopped after capture failed: nothing is handed over.
Abandon ==
    /\ phase = "active"
    /\ Forget
    /\ UNCHANGED result

Next == Begin \/ Speak \/ Hear \/ Break \/ Finish \/ Abandon

Spec == Init /\ [][Next]_vars
=============================================================================
