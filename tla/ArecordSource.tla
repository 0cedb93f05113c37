--------------------------- MODULE ArecordSource ---------------------------
(***************************************************************************)
(* speaktap/capture/linux_arecord.py: ArecordSource.  The recorder is a    *)
(* child process that writes bytes into a pipe, fails, is told to end, or  *)
(* does not end.  One thread reads frames; stop() is called by the owner   *)
(* and, at the maximum duration, by the reading thread between two frames, *)
(* both at once if it happens so.                                          *)
(*                                                                         *)
(* A byte is its number in what the recorder wrote.  A source is started   *)
(* once, as the service does with each one it makes.                       *)
(***************************************************************************)
EXTENDS Integers, Sequences, FiniteSetsExt

CONSTANTS FrameBytes,  \* bytes of one frame
          MaxBytes     \* bound: bytes the recorder writes

ASSUME FrameAssumption == FrameBytes \in Nat \ {0} /\ MaxBytes \in Nat

Stoppers == {"owner", "capture"}

VARIABLES
    child,     \* the recorder: "none", "running", "closed" its output, "exited"
    failed,    \* its exit status is not 0
    written,   \* bytes it wrote
    taken,     \* bytes taken from the pipe
    starter,   \* start(): "new", "prime", "started"
    process,   \* _process is not None
    stopping,  \* _stopping is set
    pending,   \* _pending
    reader,    \* where frames() is
    payload,   \* what _read_exact has so far
    frames,    \* the frames yielded
    stopper    \* where each caller is in stop()

childVars  == <<child, failed, written>>
readerVars == <<reader, payload, frames>>
vars == <<childVars, taken, starter, process, stopping, pending, readerVars, stopper>>

ReaderPc  == {"unopened", "test", "take", "fill", "yielded", "poll", "ended", "failed"}
StopperPc == {"idle", "drop", "check", "wait", "wait_killed", "release", "returned", "raised"}

\* The bytes with numbers first .. last.
Bytes(first, last) == [i \in 1 .. last - first + 1 |-> first + i - 1]

Init ==
    /\ child = "none" /\ failed = FALSE /\ written = 0 /\ taken = 0
    /\ starter = "new" /\ process = FALSE /\ stopping = FALSE /\ pending = << >>
    /\ reader = "unopened" /\ payload = << >> /\ frames = << >>
    /\ stopper = [s \in Stoppers |-> "idle"]

-----------------------------------------------------------------------------
(* The recorder (arecord), as the code uses it.                             *)

Write ==
    /\ child = "running"
    /\ written < MaxBytes
    /\ written' = written + 1
    /\ UNCHANGED <<child, failed, taken, starter, process, stopping, pending, readerVars,
                   stopper>>

\* It dies by itself or of a signal.  Its output is closed first; only later
\* can it be reaped, and not before does poll() tell.
Close ==
    /\ child = "running"
    /\ child' = "closed"
    /\ failed' \in BOOLEAN
    /\ UNCHANGED <<written, taken, starter, process, stopping, pending, readerVars, stopper>>

BecomeReapable ==
    /\ child = "closed"
    /\ child' = "exited"
    /\ UNCHANGED <<failed, written, taken, starter, process, stopping, pending, readerVars,
                   stopper>>

AtEndOfFile == child \in {"closed", "exited"}

-----------------------------------------------------------------------------
(* start.                                                                   *)

Spawn ==
    /\ starter = "new"
    /\ starter' = "prime"
    /\ stopping' = FALSE
    /\ pending' = << >>
    /\ process' = TRUE
    /\ child' = "running"
    /\ UNCHANGED <<failed, written, taken, readerVars, stopper>>

\* Bug: the bytes that tell that the device delivers are thrown away.
BugPrime ==
    /\ starter = "prime"
    /\ starter' = "started"
    /\ taken' = Min({taken + FrameBytes, written})
    /\ UNCHANGED <<childVars, process, stopping, pending, readerVars, stopper>>

\* select: data, end of file, or the time-out with nothing to read.
Prime ==
    /\ starter = "prime"
    /\ starter' = "started"
    /\ taken' = Min({taken + FrameBytes, written})
    /\ pending' = Bytes(taken + 1, taken')
    /\ UNCHANGED <<childVars, process, stopping, readerVars, stopper>>

-----------------------------------------------------------------------------
(* frames, _read_exact.                                                     *)

Open ==
    /\ reader = "unopened"
    /\ starter = "started"
    /\ reader' = IF process THEN "test" ELSE "failed"
    /\ UNCHANGED <<childVars, taken, starter, process, stopping, pending, payload, frames,
                   stopper>>

\* Bug: the event is looked at only at the end of file.
BugTest ==
    /\ reader = "test"
    /\ reader' = "take"
    /\ UNCHANGED <<childVars, taken, starter, process, stopping, pending, payload, frames,
                   stopper>>

\* Told to stop, the generator ends: what poll() says then does not matter.
Test ==
    /\ reader = "test"
    /\ reader' = IF stopping THEN "ended" ELSE "take"
    /\ UNCHANGED <<childVars, taken, starter, process, stopping, pending, payload, frames,
                   stopper>>

\* _read_exact starts with the pending bytes, never more than a frame.
TakePending ==
    /\ reader = "take"
    /\ payload' = pending
    /\ pending' = << >>
    /\ reader' = "fill"
    /\ UNCHANGED <<childVars, taken, starter, process, stopping, frames, stopper>>

\* Bug: the pending bytes are not subtracted from what is still to be read.
BugMissing == FrameBytes

Missing == FrameBytes - Len(payload)

\* The buffered read returns what is missing, and blocks until it is there ...
FillFrame ==
    /\ reader = "fill"
    /\ written - taken >= Missing
    /\ taken' = taken + Missing
    /\ frames' = Append(frames, payload \o Bytes(taken + 1, taken'))
    /\ payload' = << >>
    /\ reader' = "yielded"
    /\ UNCHANGED <<childVars, starter, process, stopping, pending, stopper>>

\* ... or until the end of file, when an incomplete frame is dropped.
ReadShort ==
    /\ reader = "fill"
    /\ written - taken < Missing
    /\ AtEndOfFile
    /\ taken' = written
    /\ payload' = << >>
    /\ reader' = "poll"
    /\ UNCHANGED <<childVars, starter, process, stopping, pending, frames, stopper>>

\* The consumer asks for the next frame.
Resume ==
    /\ reader = "yielded"
    /\ stopper["capture"] = "idle"
    /\ reader' = "test"
    /\ UNCHANGED <<childVars, taken, starter, process, stopping, pending, payload, frames,
                   stopper>>

\* The consumer stopped the source and leaves its loop.
Leave ==
    /\ reader = "yielded"
    /\ stopper["capture"] \in {"returned", "raised"}
    /\ reader' = "ended"
    /\ UNCHANGED <<childVars, taken, starter, process, stopping, pending, payload, frames,
                   stopper>>

Poll ==
    /\ reader = "poll"
    /\ reader' = IF ~stopping /\ child = "exited" /\ failed THEN "failed" ELSE "ended"
    /\ UNCHANGED <<childVars, taken, starter, process, stopping, pending, payload, frames,
                   stopper>>

ReaderStep ==
    Open \/ Test \/ TakePending \/ FillFrame \/ ReadShort \/ Resume \/ Leave \/ Poll

-----------------------------------------------------------------------------
(* stop.                                                                    *)

Go(s, pc) == stopper' = [stopper EXCEPT ![s] = pc]

\* The owner may call again after a stop that returned or raised.
CallStop(s) ==
    /\ starter = "started"
    /\ \/ s = "owner" /\ stopper[s] \in {"idle", "returned", "raised"}
       \/ s = "capture" /\ stopper[s] = "idle" /\ reader = "yielded"
    /\ stopping' = TRUE
    /\ Go(s, "drop")
    /\ UNCHANGED <<childVars, taken, starter, process, pending, readerVars>>

DropPending(s) ==
    /\ stopper[s] = "drop"
    /\ pending' = << >>
    /\ Go(s, IF process THEN "check" ELSE "returned")
    /\ UNCHANGED <<childVars, taken, starter, process, stopping, readerVars>>

\* poll(), and terminate() a process that still runs.
Terminate(s) ==
    /\ stopper[s] = "check"
    /\ Go(s, IF child = "exited" THEN "release" ELSE "wait")
    /\ UNCHANGED <<childVars, taken, starter, process, stopping, pending, readerVars>>

\* Bug: the process is not waited for.
BugWait(s) ==
    /\ stopper[s] = "wait"
    /\ Go(s, "release")
    /\ UNCHANGED <<childVars, taken, starter, process, stopping, pending, readerVars>>

\* wait(1.0) returns, or times out and kill() follows.
Wait(s) ==
    /\ stopper[s] = "wait"
    /\ Go(s, IF child = "exited" THEN "release" ELSE "wait_killed")
    /\ UNCHANGED <<childVars, taken, starter, process, stopping, pending, readerVars>>

\* Bug: without a time-out for the killed process.
BugWaitKilled(s) ==
    /\ stopper[s] = "wait_killed"
    /\ child = "exited"
    /\ Go(s, "release")
    /\ UNCHANGED <<childVars, taken, starter, process, stopping, pending, readerVars>>

\* The second wait(1.0) returns, or its time-out is raised.
WaitKilled(s) ==
    /\ stopper[s] = "wait_killed"
    /\ Go(s, IF child = "exited" THEN "release" ELSE "raised")
    /\ UNCHANGED <<childVars, taken, starter, process, stopping, pending, readerVars>>

Release(s) ==
    /\ stopper[s] = "release"
    /\ process' = FALSE
    /\ Go(s, "returned")
    /\ UNCHANGED <<childVars, taken, starter, stopping, pending, readerVars>>

StopStep(s) == DropPending(s) \/ Terminate(s) \/ Wait(s) \/ WaitKilled(s) \/ Release(s)

-----------------------------------------------------------------------------
Next ==
    \/ Write \/ Close \/ BecomeReapable
    \/ Spawn \/ Prime
    \/ ReaderStep
    \/ \E s \in Stoppers : CallStop(s)
    \/ \E s \in Stoppers : StopStep(s)

Spec == Init /\ [][Next]_vars

\* The two threads run on; of the recorder nothing is assumed, not even that it
\* dies when killed.
FairSpec ==
    /\ Spec
    /\ WF_vars(ReaderStep)
    /\ \A s \in Stoppers : WF_vars(StopStep(s))

-----------------------------------------------------------------------------
(* Properties.                                                              *)

\* Types; a frame handed out is whole, and never more than one frame is held.
TypeOK ==
    /\ child \in {"none", "running", "closed", "exited"}
    /\ failed \in BOOLEAN
    /\ written \in Nat
    /\ taken \in 0 .. written
    /\ starter \in {"new", "prime", "started"}
    /\ process \in BOOLEAN
    /\ stopping \in BOOLEAN
    /\ pending \in Seq(Nat) /\ Len(pending) <= FrameBytes
    /\ reader \in ReaderPc
    /\ payload \in Seq(Nat) /\ Len(payload) <= FrameBytes
    /\ frames \in Seq([1 .. FrameBytes -> Nat])
    /\ stopper \in [Stoppers -> StopperPc]

\* No byte is lost, repeated or moved between the raw read of _prime, the
\* pending bytes and the buffered reads: the frames are what the recorder
\* wrote, cut into pieces.  Only a stop() that drops the pending bytes during
\* the very first read leaves one frame without them.
FramesContiguous ==
    \A i \in 1 .. Len(frames) :
        \/ frames[i] = Bytes((i - 1) * FrameBytes + 1, i * FrameBytes)
        \/ Len(frames) = 1 /\ stopping /\ Len(frames[i]) = FrameBytes

\* When a stop() has returned, whoever called it, no recorder is left that
\* would keep the microphone, and the source has let go of it.
StoppedIsReaped ==
    \A s \in Stoppers : stopper[s] = "returned" => child = "exited" /\ ~process

\* After a stop() that returned, the thread that reads comes to an end and can
\* be joined, although it was blocked in the pipe when stop() was called.
ReaderEnds ==
    (stopper["owner"] = "returned" /\ reader # "unopened") ~> (reader \in {"ended", "failed"})

\* stop() returns or raises, though the recorder survives its kill.
StopAnswers ==
    \A s \in Stoppers :
        (stopper[s] \notin {"idle", "returned", "raised"})
            ~> (stopper[s] \in {"returned", "raised"})

\* tests/test_arecord_source.py: "arecord closing stdout is an error, not a
\* silent empty recording."  A recorder that failed never ends the generator
\* quietly.
FailureIsReported == reader = "ended" /\ ~stopping => ~failed

\* The source is the microphone that the pipeline assumes.
S == INSTANCE AudioSource WITH
        condition <- IF starter # "started" THEN "new"
                     ELSE IF ~process THEN "stopped"
                     ELSE IF stopping THEN "stopping" ELSE "running",
        reader <- IF reader \in {"test", "yielded"} THEN "between"
                  ELSE IF reader \in {"take", "fill", "poll"} THEN "reading" ELSE reader,
        yielded <- Len(frames)

Refinement == S!Spec
=============================================================================
