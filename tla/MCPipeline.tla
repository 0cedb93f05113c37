----------------------------- MODULE MCPipeline -----------------------------
(***************************************************************************)
(* Pipeline on two small instances.  The safety run has a queue of one,    *)
(* recordings of at most three frames (more chunks than the queue, the ASR *)
(* thread and the capture thread hold together) and two sessions, so that  *)
(* what one leaves behind can be seen by the next.  The liveness run has a *)
(* queue of two and one session of four frames.                            *)
(***************************************************************************)
EXTENDS Pipeline
=============================================================================
