------------------------------ MODULE MCPresence ------------------------------
(* Presence on small instances: the tabs are all of one person, the case in   *)
(* which one tab's leaving must not take the others' face away.               *)
EXTENDS Presence, TLC

OnePerson == [t \in Tabs |-> "ada"]
Symmetric == Permutations(Tabs)
=============================================================================
