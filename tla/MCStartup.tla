------------------------------ MODULE MCStartup ------------------------------
(* Startup alone: an instance that is upgraded from before the labels.        *)
EXTENDS Startup

BeforeLabels == {[behind |-> 25, kills |-> 1, waits |-> 0]}
=============================================================================
