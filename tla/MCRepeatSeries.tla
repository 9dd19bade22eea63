---------------------------- MODULE MCRepeatSeries ----------------------------
(* RepeatSeries on small instances.                                           *)
EXTENDS RepeatSeries, TLC

Symmetric == Permutations(Sweepers)
=============================================================================
