------------------------------ MODULE ClaimSpec ------------------------------
(* What claimCard promises to agents, as one atomic step per change: a card   *)
(* is taken by at most one claim, and it can be taken again only once the     *)
(* first claimant is off it.  People who were put on the card by an edit or   *)
(* who came along with a copy are not claimants: a card may be on several     *)
(* people, and the promise made at server/utils/cardAssignees.ts:164-172 is   *)
(* about two claims.                                                          *)

CONSTANTS
  Cards,      \* card ids
  Users       \* user ids

VARIABLES
  live,       \* the cards that exist
  people,     \* who is on each card
  taken       \* on each card, those who got there by claiming it

vars == <<live, people, taken>>

Init ==
  /\ live \in SUBSET Cards
  /\ people \in [Cards -> SUBSET Users]
  /\ taken = [c \in Cards |-> {}]

(* A claim that found the card free of claimants. *)
Take(c, u) ==
  /\ c \in live
  /\ taken[c] = {}
  /\ taken' = [taken EXCEPT ![c] = {u}]
  /\ people' = [people EXCEPT ![c] = people[c] \cup {u}]
  /\ UNCHANGED live

(* Anything else that changes who is on a card: putting people on makes no    *)
(* claimant of them, taking people off frees the card of their claims.        *)
Reassign(c, others) ==
  /\ c \in live
  /\ people' = [people EXCEPT ![c] = others]
  /\ taken' = [taken EXCEPT ![c] = taken[c] \cap others]
  /\ UNCHANGED live

(* A new card is on nobody. *)
Make(c) ==
  /\ c \notin live
  /\ live' = live \cup {c}
  /\ UNCHANGED <<people, taken>>

(* A destroyed card is on nobody and nobody's. *)
Destroy(c) ==
  /\ c \in live
  /\ live' = live \ {c}
  /\ people' = [people EXCEPT ![c] = {}]
  /\ taken' = [taken EXCEPT ![c] = {}]

Next ==
  \E c \in Cards :
    \/ \E u \in Users : Take(c, u)
    \/ \E others \in SUBSET Users : Reassign(c, others)
    \/ Make(c)
    \/ Destroy(c)

Spec == Init /\ [][Next]_vars
=============================================================================
