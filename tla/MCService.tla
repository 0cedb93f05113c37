----------------------------- MODULE MCService -----------------------------
(***************************************************************************)
(* Service with two sessions: one to fail and one that what the failure    *)
(* left behind can spoil.  Every fault at once, every fault but the        *)
(* unplayable cue, and the faults of a sound installation.                 *)
(***************************************************************************)
EXTENDS Service

MCFaultModels == {AllFaults, AllFaults \ {"cue"}, AllFaults \ {"cue", "wedge", "config"}}
MCCueFails == {{"cue"}}
=============================================================================
