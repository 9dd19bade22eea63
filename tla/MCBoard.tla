------------------------------- MODULE MCBoard -------------------------------
(* BoardPage alone: two tabs of one board with a card in each of two columns. *)
EXTENDS BoardPage, TLC

Two == <<1, 2>>
TwoChanges == {[changes |-> 2, looks |-> 0, drops |-> 0]}
Symmetric == Permutations(Screens)
MCSpec == (\E b \in Budgets : BoardInit(b)) /\ [][BoardNext]_boardVars
=============================================================================
