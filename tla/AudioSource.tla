---------------------------- MODULE AudioSource ----------------------------
(***************************************************************************)
(* What the recording pipeline assumes of a microphone: it is started      *)
(* once, told to stop, and then stopped; one reader asks for frames, gets  *)
(* none that it asked for after the source was told to stop, and cannot    *)
(* begin to read a source that is stopped.  The source variable of         *)
(* Pipeline.tla and the reads of its capture thread stand for such a       *)
(* source: they leave open at least what this module leaves open.          *)
(* ArecordSource.tla implements it.                                        *)
(***************************************************************************)
EXTENDS Naturals

VARIABLES condition,  \* "new", "running", "stopping" or "stopped"
          reader,     \* "unopened", "between" two frames, "reading", "ended" or "failed"
          yielded     \* frames handed to the reader

vars == <<condition, reader, yielded>>

Init == condition = "new" /\ reader = "unopened" /\ yielded = 0

Start ==
    /\ condition = "new"
    /\ condition' = "running"
    /\ UNCHANGED <<reader, yielded>>

TellToStop ==
    /\ condition = "running"
    /\ condition' = "stopping"
    /\ UNCHANGED <<reader, yielded>>

Stopped ==
    /\ condition = "stopping"
    /\ condition' = "stopped"
    /\ UNCHANGED <<reader, yielded>>

Open ==
    /\ reader = "unopened"
    /\ condition # "new"
    /\ reader' = IF condition = "stopped" THEN "failed" ELSE "between"
    /\ UNCHANGED <<condition, yielded>>

Ask ==
    /\ reader = "between"
    /\ reader' = IF condition = "running" THEN "reading" ELSE "ended"
    /\ UNCHANGED <<condition, yielded>>

\* The reader wants no further frame.
Leave ==
    /\ reader = "between"
    /\ reader' = "ended"
    /\ UNCHANGED <<condition, yielded>>

Yield ==
    /\ reader = "reading"
    /\ reader' = "between"
    /\ yielded' = yielded + 1
    /\ UNCHANGED condition

End ==
    /\ reader = "reading"
    /\ reader' = "ended"
    /\ UNCHANGED <<condition, yielded>>

Fail ==
    /\ reader = "reading"
    /\ condition = "running"
    /\ reader' = "failed"
    /\ UNCHANGED <<condition, yielded>>

Next == Start \/ TellToStop \/ Stopped \/ Open \/ Ask \/ Leave \/ Yield \/ End \/ Fail

Spec == Init /\ [][Next]_vars
=============================================================================
