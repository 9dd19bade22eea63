------------------------------- MODULE MCCards -------------------------------
(* The rows of a board's cards: who is on them, where they are in their       *)
(* columns and what is attached to them; and where the boards are on a        *)
(* person's dashboard.  A behaviour is one of a single part, drawn at the     *)
(* start; the others rest.  Columns, handlers, tabs and the cards people are  *)
(* on are interchangeable.                                                    *)
EXTENDS Assignees, CardPositions, Dashboard, CardFiles, TLC

VARIABLE part

Symmetric == Permutations(Areas) \union Permutations(Calls)
             \union Permutations(Cards) \union Permutations(DashTabs)
Nowhere == [b \in DashBoards |-> Unplaced]
Filed == [b \in DashBoards |-> IF b \in FirstBoards THEN [group |-> 1, sort |-> b - 1] ELSE Unplaced]

(* Three things one after the other, or two at once.                          *)
OneAtATime == Cardinality({p \in DashCalls : dashCall'[p].step # "idle"}) <= 1
Allowance(ticks, failures, drops) == [ticks |-> ticks, failures |-> failures, drops |-> drops]
SomeBudgets == {Allowance(1, 1, 0), Allowance(0, 0, 1)}
DashRests == DashInit(Nowhere, 0)

PlacesRest ==
  /\ row = [c \in 1..FirstCards |-> [area |-> CHOOSE a \in Areas : TRUE, sort |-> 0, archived |-> FALSE]]
  /\ lastId = FirstCards /\ requests = 0
  /\ placing = [p \in PlaceCalls |-> NoPlacing]
PeopleRest == Init /\ made = {}

(* Bound: of the first cards only the second may be archived at the start, so *)
(* that an older and a younger one can share its number; and it is in the     *)
(* column of the first.                                                       *)
FewStarts == {c \in DOMAIN row : row[c].archived} \subseteq {2} /\ row[1].area = row[2].area

MCInit ==
  /\ \/ part = "people" /\ Init /\ PlacesRest /\ DashRests
     \/ part = "places" /\ PeopleRest /\ PlaceInit /\ FewStarts /\ DashRests
     \/ part = "one drop" /\ PeopleRest /\ PlacesRest /\ DashInit(Nowhere, 3)
     \/ part = "drops" /\ PeopleRest /\ PlacesRest /\ \E at \in {Nowhere, Filed} : DashInit(at, 2)
     \/ part = "files" /\ PeopleRest /\ PlacesRest /\ DashRests
  /\ FilesInit /\ (part # "files" => filesLeft = Allowance(0, 0, 1))

MCNext ==
  /\ UNCHANGED part
  /\ \/ part = "people" /\ Next /\ UNCHANGED <<placeVars, dashVars, filesVars>>
     \/ part = "places" /\ PlaceNext /\ UNCHANGED <<vars, dashVars, filesVars>>
     \/ part = "drops" /\ DashNext /\ UNCHANGED <<vars, placeVars, filesVars>>
     \/ part = "one drop" /\ DashNext /\ OneAtATime /\ UNCHANGED <<vars, placeVars, filesVars>>
     \/ part = "files" /\ FilesNext /\ UNCHANGED <<vars, placeVars, dashVars>>

MCSpec == MCInit /\ [][MCNext]_<<part, vars, placeVars, dashVars, filesVars>>
=============================================================================
