-------------------------- MODULE MCArecordSource --------------------------
(***************************************************************************)
(* ArecordSource with frames of two bytes, so that the priming read may    *)
(* take a whole frame, half of one or nothing, and at most three frames.   *)
(***************************************************************************)
EXTENDS ArecordSource
=============================================================================
