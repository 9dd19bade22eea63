------------------------------- MODULE MCTabs -------------------------------
(* Liveness where one process waits on many steps of others: the tabs of a    *)
(* board that are put aside and looked at again, and the series of repeating  *)
(* cards; what the tabs that draw a board as a map come to agree on; and the  *)
(* search of the header and the dialog of the archive.  A behaviour is one of *)
(* a single part; the others rest.                                            *)
EXTENDS BoardPage, RepeatSeries, MindMap, Search, ArchiveDialog

VARIABLE part

One == <<1>>
BoardBudgets == {[changes |-> 0, looks |-> 2, drops |-> 1], [changes |-> 1, looks |-> 1, drops |-> 1]}

TheArea == [c \in MapCards |-> CHOOSE a \in MapAreas : TRUE]
EitherWay == {-2, 2}

Words == {"", "b", "c"}
WhereFound == [w \in Words |-> CASE w = "b" -> {"boards", "cards"}
                                [] w = "c" -> {"cards", "comments", "attachments"}
                                [] OTHER -> {}]

OneEach == [c \in ShelfCards |-> CHOOSE a \in ShelfColumns : (c = 1) <=> (a = 3)]

BoardRests == BoardInit([changes |-> 0, looks |-> 0, drops |-> 0])
RepeatRests == Init /\ rows[1].every = Off /\ rows[1].due = NoDate

MCInit ==
  /\ MapInit /\ SearchInit
  /\ part \in {"board", "repeat", "map", "search", "archive"}
  /\ IF part = "board" THEN \E b \in Budgets : BoardInit(b) ELSE BoardRests
  /\ IF part = "repeat" THEN Init ELSE RepeatRests
  /\ ShelfInit /\ (part # "archive" => shelf = [r \in Rows |-> "shown"])

MCNext ==
  /\ UNCHANGED part
  /\ \/ /\ part = "board" /\ BoardNext
        /\ UNCHANGED <<vars, mapVars, searchVars, shelfVars>>
     \/ /\ part = "repeat" /\ Next
        /\ UNCHANGED <<boardVars, mapVars, searchVars, shelfVars>>
     \/ /\ part = "map" /\ MapNext
        /\ UNCHANGED <<boardVars, vars, searchVars, shelfVars>>
     \/ /\ part = "search" /\ SearchNext
        /\ UNCHANGED <<boardVars, vars, mapVars, shelfVars>>
     \/ /\ part = "archive" /\ ShelfNext
        /\ UNCHANGED <<boardVars, vars, mapVars, searchVars>>

(* The fairness each part's specification states, of the part that was drawn. *)
MCFairness ==
  /\ \A t \in Screens :
       /\ WF_boardVars(part = "board" /\ HearEvent(t))
       /\ WF_boardVars(part = "board" /\ Reconnect(t))
       /\ WF_boardVars(part = "board" /\ Join(t))
       /\ WF_boardVars(part = "board" /\ GraceEnds(t))
       /\ WF_boardVars(part = "board" /\ ReadBoard(t))
       /\ WF_boardVars(part = "board" /\ ReadAreas(t))
       /\ WF_boardVars(part = "board" /\ ReadCards(t))
       /\ WF_boardVars(part = "board" /\ ReadNewColumn(t))
       /\ WF_boardVars(part = "board" /\ ShowNewColumn(t))
  /\ WF_boardVars(part = "board" /\ \E r \in posts : SavePost(r))
  /\ WF_boardVars(part = "board" /\ \E e \in relaying : RelayEvent(e))
  /\ \A s \in Sweepers : WF_vars(part = "repeat" /\ Sweep(s))
  /\ \A e \in Edits : WF_vars(part = "repeat" /\ Write(e))

MCSpec ==
  /\ MCInit /\ MCFairness
  /\ [][MCNext]_<<part, boardVars, vars, mapVars, searchVars, shelfVars>>

(* TabsFollowTheEye of module BoardPage, where the board was drawn: tabs that *)
(* rest have not connected yet.                                               *)
DrawnTabsFollowTheEye == part = "board" => TabsFollowTheEye
=============================================================================
