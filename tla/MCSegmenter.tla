---------------------------- MODULE MCSegmenter ----------------------------
(***************************************************************************)
(* Segmenter over every speech pattern of FrameBound frames and over       *)
(* configurations with the shapes that config.py accepts.  Frames of 2 ms  *)
(* make thresholds that are no multiple of a frame possible.               *)
(***************************************************************************)
EXTENDS Segmenter

Cfg(minMs, targetMs, maxMs, silenceMs, paddingMs, overlapMs) ==
    [frameMs |-> 2, minMs |-> minMs, targetMs |-> targetMs, maxMs |-> maxMs,
     silenceMs |-> silenceMs, paddingMs |-> paddingMs, overlapMs |-> overlapMs]

\* Proportions of the default: overlap between half the silence and all of it.
Default == Cfg(4, 6, 10, 6, 2, 4)

MCConfigs ==
    {Default,
     Cfg(1, 1, 7, 3, 3, 3),      \* nothing a multiple of a frame
     Cfg(2, 8, 8, 4, 0, 0),      \* no padding, no overlap, target = max
     Cfg(4, 4, 4, 8, 6, 1),      \* padding beyond the maximum chunk
     Cfg(4, 6, 8, 4, 2, 7),      \* overlap fills the chunk again
     Cfg(0, 1, 6, 4, 2, 6)}      \* what rounding can make of the seconds

\* A recording with pauses shorter than silence_milliseconds and little overlap.
MCPauses == {Cfg(2, 6, 6, 6, 2, 1)}
=============================================================================
