------------------------------ MODULE MCWatchdog ------------------------------
(***************************************************************************)
(* Instances of Watchdog for TLC: one or two windows.                       *)
(***************************************************************************)
EXTENDS Watchdog, TLC

OneWindow  == {1}
TwoWindows == {1, 2}

Symmetry == Permutations(Ticks)
==============================================================================
