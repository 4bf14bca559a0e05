---------------------------- MODULE MCSendPipeline ----------------------------
(***************************************************************************)
(* Instances of SendPipeline for TLC.  The keys are two numbered Driver     *)
(* steps of one track, or a step and free text.                             *)
(***************************************************************************)
EXTENDS SendPipeline, TLC

CONSTANTS d1, d2, free

StepKeys == {d1, d2, free}
MixKeys  == {d1, free}
StepTrack == <<d1, d2>>
NoTrack   == <<>>
FreeText  == {free}

Symmetry == Permutations(Callers) \cup Permutations(Drainers)
==============================================================================
