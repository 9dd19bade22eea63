------------------------------ MODULE MCBrowser ------------------------------
(* What two tabs show of one board: its columns and cards, the people on its  *)
(* cards, a card open in both, the card's comments, and the board's settings, *)
(* these with a dashboard beside; and one tab's bell and address.             *)
(* A behaviour is one of a single part, drawn at the start; the others rest.  *)
(* The tabs of Presence are of one person, the case in which one tab's        *)
(* leaving must not take the other's face away.                               *)
EXTENDS BoardPage, OpenCard, Comments, Presence, Bell, BoardAddress,
        BoardSettings, TLC

VARIABLE part

Two == <<1, 2>>
BoardBudgets == {[changes |-> 2, looks |-> 0, drops |-> 0], [changes |-> 1, looks |-> 1, drops |-> 1]}
ThreadBudgets == {[writes |-> 2, looks |-> 2, drops |-> 0, haste |-> TRUE],
                  [writes |-> 2, looks |-> 2, drops |-> 1, haste |-> FALSE]}
SettingsBudget(typed, changes, openings, failures, drops) ==
  [typed |-> typed, changes |-> changes, openings |-> openings, failures |-> failures, drops |-> drops]
SettingsBudgets ==
  {SettingsBudget(1, 2, 0, 0, 0), SettingsBudget(0, 2, 1, 0, 0), SettingsBudget(0, 1, 2, 0, 0),
   SettingsBudget(1, 1, 1, 1, 0), SettingsBudget(0, 1, 1, 0, 1), SettingsBudget(1, 1, 0, 0, 1)}
OnePerson == [t \in Tabs |-> "ada"]
Note(second, card) == [at |-> second, card |-> card, read |-> FALSE, there |-> TRUE]
ACard == CHOOSE c \in BellCards : TRUE
NotesAtFirst == <<Note(1, ACard), Note(1, TheBoard)>>
Symmetric == Permutations(Tabs)

Reads == [x \in {"", "late", "late,junk"} |-> IF x = "" THEN "all" ELSE "late"]
Writes == [f \in {"all", "late"} |-> IF f = "all" THEN "" ELSE "late"]

AddressRests == AddressInit /\ address = [card |-> Unnamed, comment |-> Unnamed, text |-> ""]
CommentsRest == CommentInit(<< >>) /\ budget.haste
BellRests == BellInit(<< >>)
BoardRests == BoardInit([changes |-> 0, looks |-> 0, drops |-> 0])

MCInit ==
  /\ OpenInit /\ Init
  /\ \/ part = "board" /\ BellRests /\ CommentsRest /\ \E b \in BoardBudgets : BoardInit(b)
     \/ part = "comments" /\ BellRests /\ BoardRests /\ \E t \in Readers : CommentInit(First(t))
     \/ part \in {"card", "presence", "address", "settings"} /\ BellRests /\ BoardRests /\ CommentsRest
     \/ part = "bell" /\ BoardRests /\ CommentsRest /\ BellInit(NotesAtFirst)
  /\ IF part = "address" THEN AddressInit ELSE AddressRests
  /\ IF part = "settings" THEN \E b \in SettingsBudgets : SettingsInit(b)
     ELSE SettingsInit(SettingsBudget(0, 0, 0, 0, 0))

(* Bound: three requests and events of the comments are on their way at most. *)
FewUnderWay == Cardinality(calls') + Cardinality(notices') <= 3

MCNext ==
  /\ UNCHANGED part
  /\ \/ part = "board" /\ BoardNext /\ UNCHANGED <<openVars, commentVars, vars, bellVars, addressVars, setVars>>
     \/ part = "card" /\ OpenNext /\ UNCHANGED <<boardVars, commentVars, vars, bellVars, addressVars, setVars>>
     \/ part = "comments" /\ CommentNext /\ FewUnderWay /\ UNCHANGED <<boardVars, openVars, vars, bellVars, addressVars, setVars>>
     \/ part = "presence" /\ Next /\ UNCHANGED <<boardVars, openVars, commentVars, bellVars, addressVars, setVars>>
     \/ part = "bell" /\ BellNext /\ UNCHANGED <<boardVars, openVars, commentVars, vars, addressVars, setVars>>
     \/ part = "address" /\ AddressNext /\ UNCHANGED <<boardVars, openVars, commentVars, vars, bellVars, setVars>>
     \* Once two changes of the settings cross, nothing is claimed of them.
     \/ /\ part = "settings" /\ ~setCrossed /\ SettingsNext
        /\ UNCHANGED <<boardVars, openVars, commentVars, vars, bellVars, addressVars>>

MCSpec == MCInit /\ [][MCNext]_<<part, boardVars, openVars, commentVars, vars, bellVars, addressVars,
                                  setVars>>
=============================================================================
