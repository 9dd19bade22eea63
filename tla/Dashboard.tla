------------------------------- MODULE Dashboard -------------------------------
(* One person's dashboard: the groups they made (board_groups), where they    *)
(* filed which board (board_placements), and the tabs that show it.  A tab    *)
(* sends where every board it draws now is after each drop; only a change of  *)
(* a board itself, never an arrangement, is told to the other tabs.  Names,   *)
(* folding and the tiles' pictures are left out.                              *)

EXTENDS Integers, FiniteSets, Sequences, SequencesExt

CONSTANTS
  DashBoards,     \* ids of boards: a later one is greater
  FirstBoards,    \* those the person can open at first
  MaxGroups,      \* bound: groups ever made
  DashTabs,
  DashCalls       \* requests that may be under way at a time

ASSUME DashAssumption == DashBoards \subseteq Nat /\ FirstBoards \subseteq DashBoards

VARIABLES
  reach,          \* boards the person owns or is invited to
  shelved,        \* of all boards, the archived ones
  groupRows,      \* `board_groups`: sort by id
  nextGroup,
  placed,         \* `board_placements`, per board
  dash,           \* per tab what it shows
  dashCall,
  toldOf,            \* tabs with a dashboardChanged, or a resync, not acted on yet
  dashActs,
  lastDrop,       \* the sections as last dropped, while no later request undid it
  dashCrossed,    \* two requests that write the arrangement overlapped
  unheard,        \* tabs whose last load crossed a change it was not told of
  madeHere        \* boards made from the dashboard: no tab is told of them

dashVars == <<reach, shelved, groupRows, nextGroup, placed, dash, dashCall, toldOf,
              dashActs, lastDrop, dashCrossed, unheard, madeHere>>

Ungrouped == 0
(* No row: no group, and a sort of null comes before every number.            *)
Unplaced == [group |-> Ungrouped, sort |-> -1]
NoDrop == [x \in {} |-> << >>]
NoDashCall == [kind |-> "none", tab |-> "none", step |-> "idle",
               list |-> << >>, id |-> 0, read |-> << >>]

(* What the dashboard's query returns, newest board first, as sortBoards then *)
(* has it.                                                                    *)
BoardsInOrder(boards, at) ==
  SetToSortSeq(boards, LAMBDA a, b : at[a].sort < at[b].sort \/ (at[a].sort = at[b].sort /\ a > b))
GroupsInOrder(rows) ==
  SetToSortSeq(DOMAIN rows, LAMBDA a, b : rows[a] < rows[b] \/ (rows[a] = rows[b] /\ a < b))

BoardsShown == reach \ shelved
Tiles(d, g) == BoardsInOrder({b \in DOMAIN d.at : d.at[b].group = g}, d.at)
Sections(d) == {Ungrouped} \union Range(d.groups)
Fresh == [at |-> [b \in BoardsShown |-> placed[b]], groups |-> GroupsInOrder(groupRows)]
Page(d, wired) == [at |-> d.at, groups |-> d.groups, wired |-> wired, open |-> TRUE, joined |-> TRUE]
NoPage == [at |-> << >>, groups |-> << >>, wired |-> FALSE, open |-> FALSE, joined |-> FALSE]

(* `acts` bounds what the person and the boards' owners do.                   *)
DashInit(at, acts) ==
  /\ reach = FirstBoards /\ shelved = {}
  /\ groupRows = [g \in {1} |-> 0] /\ nextGroup = 2
  /\ placed = at
  /\ dash = [t \in DashTabs |-> Page(Fresh, TRUE)]
  /\ dashCall = [p \in DashCalls |-> NoDashCall]
  /\ toldOf = {} /\ dashActs = acts
  /\ lastDrop = NoDrop /\ dashCrossed = FALSE /\ unheard = {} /\ madeHere = {}

-----------------------------------------------------------------------------
DashAct == dashActs > 0 /\ dashActs' = dashActs - 1
Writes(call) == call.kind \in {"drop", "file", "order", "add", "delete"}
Loads(call, t) == call.kind \in {"load", "open"} /\ call.tab = t

Begins(p, call) ==
  /\ dashCall[p].step = "idle"
  /\ dashCall' = [dashCall EXCEPT ![p] = call]
  /\ dashCrossed' = (dashCrossed \/ (Writes(call) /\ \E q \in DashCalls : Writes(dashCall[q])))
Sends(p, t, kind, step, id, list) ==
  Begins(p, [NoDashCall EXCEPT !.kind = kind, !.tab = t, !.step = step, !.id = id, !.list = list])
Advances(p, step) == dashCall' = [dashCall EXCEPT ![p].step = step]
Ends(p) == dashCall' = [dashCall EXCEPT ![p] = NoDashCall]
AtStep(p, kind, step) == dashCall[p].kind \in kind /\ dashCall[p].step = step

NoOtherWrites(p) == \A q \in DashCalls \ {p} : ~Writes(dashCall[q])
InTab(t, After(_)) == dash' = IF dash[t].open THEN [dash EXCEPT ![t] = After(@)] ELSE dash
TablesStay == UNCHANGED <<reach, shelved, groupRows, nextGroup, placed, madeHere>>
HearingStays == UNCHANGED <<toldOf, unheard>>

-----------------------------------------------------------------------------
(* Board b is dropped in section g before the i-th tile there: the tab reads  *)
(* the sections back from the DOM, takes them as its own model and sends all. *)
DropBoard(p, t, b, g, i) ==
  LET d == dash[t]
      without == [s \in Sections(d) |-> SelectSeq(Tiles(d, s), LAMBDA c : c # b)]
      drawn == [without EXCEPT ![g] = InsertAt(@, i, b)]
      SectionOf(c) == {s \in Sections(d) : c \in Range(drawn[s])}
      moved == {c \in DOMAIN d.at : SectionOf(c) # {}}
      place == [c \in moved |-> LET s == CHOOSE s \in SectionOf(c) : TRUE
                                IN [group |-> s, sort |-> IndexFirstSubSeq(<<c>>, drawn[s]) - 1]]
  IN /\ d.open /\ DashAct
     /\ d.at[b].group \in Sections(d)
     /\ i \in 1..Len(without[g]) + 1
     /\ dash' = [dash EXCEPT ![t].at = place @@ @]
     /\ Sends(p, t, "drop", "check", 0,
             [j \in 1..Cardinality(moved) |-> LET c == SetToSeq(moved)[j] IN [board |-> c, row |-> place[c]]])
     /\ lastDrop' = IF NoOtherWrites(p) THEN drawn ELSE NoDrop
     /\ TablesStay /\ HearingStays

(* Reordering the groups: dead in a tab since its last reload, which wires    *)
(* the boards' grids only.                                                    *)
DropGroup(p, t, i, j) ==
  LET order == InsertAt(RemoveAt(dash[t].groups, i), j, dash[t].groups[i])
  IN /\ dash[t].open /\ dash[t].wired /\ DashAct
     /\ i # j
     /\ dash' = [dash EXCEPT ![t].groups = order]
     /\ Sends(p, t, "order", "check", 0, order)
     /\ UNCHANGED lastDrop /\ TablesStay /\ HearingStays

-----------------------------------------------------------------------------
(* board-arrangement: everything is looked up before anything is written; an  *)
(* archived board is still the person's.                                      *)
Knows(call) ==
  IF call.kind = "order" THEN Range(call.list) \subseteq DOMAIN groupRows
  ELSE \A i \in DOMAIN call.list : /\ call.list[i].board \in reach
                                   /\ call.list[i].row.group \in {Ungrouped} \union DOMAIN groupRows

(* Made in the dialog, the new board's page is opened whatever became of it.  *)
TabAfter(call) == IF call.kind = "file" THEN [dash EXCEPT ![call.tab] = NoPage] ELSE dash

(* A slip: the groups of an arrangement are not looked up.                    *)
CheckBoardsOnly(p) ==
  /\ AtStep(p, {"drop", "file", "order"}, "check")
  /\ Advances(p, "write")
  /\ UNCHANGED <<dash, dashActs, lastDrop, dashCrossed>> /\ TablesStay /\ HearingStays

CheckArrangement(p) ==
  /\ AtStep(p, {"drop", "file", "order"}, "check")
  /\ IF Knows(dashCall[p])
     THEN Advances(p, "write") /\ UNCHANGED <<dash, lastDrop>>
     ELSE /\ Ends(p)
          /\ dash' = TabAfter(dashCall[p])
          /\ lastDrop' = IF dashCall[p].kind = "drop" THEN NoDrop ELSE lastDrop
  /\ UNCHANGED <<dashActs, dashCrossed>> /\ TablesStay /\ HearingStays

NextOrEnd(p) ==
  IF Len(dashCall[p].list) > 1
  THEN dashCall' = [dashCall EXCEPT ![p].list = Tail(@)] /\ UNCHANGED dash
  ELSE Ends(p) /\ dash' = TabAfter(dashCall[p])

(* A slip: a row already there keeps its group.                               *)
UpsertSort(p) ==
  /\ AtStep(p, {"drop", "file"}, "write")
  /\ LET one == Head(dashCall[p].list)
     IN placed' = IF placed[one.board] = Unplaced THEN [placed EXCEPT ![one.board] = one.row]
                  ELSE [placed EXCEPT ![one.board].sort = one.row.sort]
  /\ NextOrEnd(p)
  /\ UNCHANGED <<reach, shelved, groupRows, nextGroup, dashActs, lastDrop, dashCrossed, madeHere>>
  /\ HearingStays

UpsertPlacement(p) ==
  /\ AtStep(p, {"drop", "file"}, "write")
  /\ LET one == Head(dashCall[p].list) IN placed' = [placed EXCEPT ![one.board] = one.row]
  /\ NextOrEnd(p)
  /\ UNCHANGED <<reach, shelved, groupRows, nextGroup, dashActs, lastDrop, dashCrossed, madeHere>>
  /\ HearingStays

(* Groups are numbered from 0 in the order sent; `id` counts those done.      *)
NumberGroup(p) ==
  /\ AtStep(p, {"order"}, "write")
  /\ LET g == dashCall[p].list[dashCall[p].id + 1]
     IN groupRows' = [h \in DOMAIN groupRows |-> IF h = g THEN dashCall[p].id ELSE groupRows[h]]
  /\ IF dashCall[p].id + 1 < Len(dashCall[p].list)
     THEN dashCall' = [dashCall EXCEPT ![p].id = @ + 1] ELSE Ends(p)
  /\ UNCHANGED <<reach, shelved, nextGroup, placed, dash, dashActs, lastDrop, dashCrossed, madeHere>>
  /\ HearingStays

-----------------------------------------------------------------------------
(* createGroup: the end of the list is read, the row inserted, then the tab   *)
(* adds it and wires everything anew.                                         *)
AskGroup(p, t) ==
  /\ dash[t].open /\ DashAct /\ nextGroup <= MaxGroups
  /\ Sends(p, t, "add", "insert",
          IF groupRows = << >> THEN 0 ELSE 1 + groupRows[Last(GroupsInOrder(groupRows))], << >>)
  /\ UNCHANGED <<dash, lastDrop>> /\ TablesStay /\ HearingStays

InsertGroup(p) ==
  /\ AtStep(p, {"add"}, "insert")
  /\ nextGroup <= MaxGroups
  /\ groupRows' = [g \in DOMAIN groupRows \union {nextGroup} |->
                     IF g = nextGroup THEN dashCall[p].id ELSE groupRows[g]]
  /\ nextGroup' = nextGroup + 1
  /\ InTab(dashCall[p].tab, LAMBDA d : [d EXCEPT !.groups = Append(@, nextGroup), !.wired = TRUE])
  /\ Ends(p)
  /\ UNCHANGED <<reach, shelved, placed, dashActs, lastDrop, dashCrossed, madeHere>> /\ HearingStays

(* A tab that still shows a deleted group is answered NOT_FOUND.              *)
DeleteGroup(p, t, g) ==
  /\ dash[t].open /\ g \in Range(dash[t].groups) /\ DashAct
  /\ Sends(p, t, "delete", IF g \in DOMAIN groupRows THEN "loosen" ELSE "refused", g, << >>)
  /\ groupRows' = [h \in DOMAIN groupRows \ {g} |-> groupRows[h]]
  /\ lastDrop' = NoDrop
  /\ UNCHANGED <<reach, shelved, nextGroup, placed, dash, madeHere>> /\ HearingStays

GroupRefused(p) ==
  /\ AtStep(p, {"delete"}, "refused") /\ Ends(p)
  /\ UNCHANGED <<dash, dashActs, lastDrop, dashCrossed>> /\ TablesStay /\ HearingStays

(* Its boards fall back to ungrouped, with the sort they had.                 *)
Loosened(at, g) == [b \in DOMAIN at |-> IF at[b].group = g THEN [at[b] EXCEPT !.group = Ungrouped]
                                        ELSE at[b]]
LoosenBoards(p) ==
  /\ AtStep(p, {"delete"}, "loosen")
  /\ LET g == dashCall[p].id
     IN /\ placed' = Loosened(placed, g)
        /\ InTab(dashCall[p].tab, LAMBDA d : [d EXCEPT !.at = Loosened(@, g), !.wired = TRUE,
                                              !.groups = SelectSeq(@, LAMBDA h : h # g)])
  /\ Ends(p)
  /\ UNCHANGED <<reach, shelved, groupRows, nextGroup, dashActs, lastDrop, dashCrossed, madeHere>>
  /\ HearingStays

(* toggleCollapse wires everything anew.                                      *)
FoldGroup(t) ==
  /\ dash[t].open /\ ~dash[t].wired /\ dash[t].groups # << >>
  /\ dash' = [dash EXCEPT ![t].wired = TRUE]
  /\ UNCHANGED <<dashCall, dashActs, lastDrop, dashCrossed>> /\ TablesStay /\ HearingStays

-----------------------------------------------------------------------------
(* saveBoard, from the "+" tile of a group the tab draws empty: the board is  *)
(* made, filed at the front of the group, and its page opened.                *)
MakeBoard(p, t, b, g) ==
  /\ dash[t].open /\ DashAct
  /\ b \notin FirstBoards \union madeHere
  /\ \A c \in FirstBoards \union madeHere : c < b
  /\ g \in Sections(dash[t]) /\ Tiles(dash[t], g) = << >>
  /\ reach' = reach \union {b} /\ madeHere' = madeHere \union {b}
  /\ IF g = Ungrouped
     THEN dash' = [dash EXCEPT ![t] = NoPage] /\ UNCHANGED <<dashCall, dashCrossed>>
     ELSE /\ Sends(p, t, "file", "check", 0, <<[board |-> b, row |-> [group |-> g, sort |-> 0]]>>)
          /\ UNCHANGED dash
  /\ UNCHANGED <<shelved, groupRows, nextGroup, placed, lastDrop>> /\ HearingStays

-----------------------------------------------------------------------------
(* Somebody invites the person, ends their membership, archives the board or  *)
(* brings it back; the dashboards are told once that is written.              *)
Changes(p, kind, b, next) == Sends(p, dashCall[p].tab, kind, next, b, << >>) /\ DashAct
BoardStays == UNCHANGED <<groupRows, nextGroup, dash, madeHere>> /\ HearingStays

LetIn(p, b) ==
  /\ b \notin reach /\ b \in FirstBoards /\ b \notin shelved
  /\ Changes(p, "invite", b, "tell")
  /\ reach' = reach \union {b}
  /\ UNCHANGED <<shelved, placed, lastDrop>> /\ BoardStays

EndMembership(p, b) ==
  /\ b \in reach \ madeHere
  /\ Changes(p, "remove", b, "unplace")
  /\ reach' = reach \ {b}
  /\ UNCHANGED <<shelved, placed, lastDrop>> /\ BoardStays

DropUserPlacement(p) ==
  /\ AtStep(p, {"remove"}, "unplace")
  /\ placed' = [placed EXCEPT ![dashCall[p].id] = Unplaced]
  /\ lastDrop' = [s \in DOMAIN lastDrop |->
                    SelectSeq(lastDrop[s], LAMBDA c : c # dashCall[p].id)]
  /\ Advances(p, "tell")
  /\ UNCHANGED <<reach, shelved, dashActs, dashCrossed>> /\ BoardStays

Shelve(p, b) ==
  /\ b \in reach
  /\ Changes(p, "shelve", b, "tell")
  /\ shelved' = IF b \in shelved THEN shelved \ {b} ELSE shelved \union {b}
  /\ UNCHANGED <<reach, placed, lastDrop>> /\ BoardStays

(* notifyDashboards: a tab whose page is still loading has not joined yet.    *)
TellDashboards(p) ==
  /\ dashCall[p].step = "tell"
  /\ toldOf' = toldOf \union {t \in DashTabs : dash[t].open /\ dash[t].joined}
  /\ unheard' = unheard \union {t \in DashTabs : \E q \in DashCalls :
       /\ dashCall[q].kind = "open" /\ dashCall[q].tab = t
       /\ dashCall[q].step \in {"groups", "apply"}}
  /\ Ends(p)
  /\ UNCHANGED <<dash, dashActs, lastDrop, dashCrossed>> /\ TablesStay

-----------------------------------------------------------------------------
(* The dashboard's two queries, the boards with their places first, then the  *)
(* groups, then the answer.                                                   *)
Ask(p, t, kind) ==
  /\ Begins(p, [NoDashCall EXCEPT !.kind = kind, !.tab = t, !.step = "groups", !.read = Fresh])
  /\ unheard' = IF \E q \in DashCalls : Loads(dashCall[q], t)
                THEN unheard \union {t} ELSE unheard \ {t}

Reload(p, t) ==
  /\ t \in toldOf /\ dash[t].open
  /\ Ask(p, t, "load")
  /\ toldOf' = toldOf \ {t}
  /\ UNCHANGED <<dash, dashActs, lastDrop>> /\ TablesStay

OpenDashboard(p, t) ==
  /\ ~dash[t].open
  /\ \A q \in DashCalls : ~Loads(dashCall[q], t) /\ ~(Writes(dashCall[q]) /\ dashCall[q].tab = t)
  /\ Ask(p, t, "open")
  /\ toldOf' = toldOf \ {t}
  /\ UNCHANGED <<dash, dashActs, lastDrop>> /\ TablesStay

ReadGroups(p) ==
  /\ AtStep(p, {"load", "open"}, "groups")
  /\ dashCall' = [dashCall EXCEPT ![p].read.groups = Fresh.groups, ![p].step = "apply"]
  /\ UNCHANGED <<dash, dashActs, lastDrop, dashCrossed>> /\ TablesStay /\ HearingStays

ApplyLoad(p) ==
  LET t == dashCall[p].tab
  IN /\ AtStep(p, {"load", "open"}, "apply")
     /\ IF dashCall[p].kind = "open"
        THEN dash' = [dash EXCEPT ![t] = Page(dashCall[p].read, TRUE)]
        ELSE InTab(t, LAMBDA d : [Page(dashCall[p].read, FALSE) EXCEPT !.joined = d.joined])
     /\ Ends(p)
     /\ UNCHANGED <<dashActs, lastDrop, dashCrossed>> /\ TablesStay /\ HearingStays

(* The socket is gone for longer than the server remembers, and comes back.   *)
LoseSocket(t) ==
  /\ dash[t].open /\ dash[t].joined /\ DashAct
  /\ dash' = [dash EXCEPT ![t].joined = FALSE]
  /\ UNCHANGED <<dashCall, lastDrop, dashCrossed>> /\ TablesStay /\ HearingStays

(* A slip: the room is joined again and nothing is read.                      *)
RejoinOnly(t) ==
  /\ dash[t].open /\ ~dash[t].joined
  /\ dash' = [dash EXCEPT ![t].joined = TRUE]
  /\ UNCHANGED <<dashCall, dashActs, lastDrop, dashCrossed>> /\ TablesStay /\ HearingStays

Resync(t) ==
  /\ dash[t].open /\ ~dash[t].joined
  /\ dash' = [dash EXCEPT ![t].joined = TRUE]
  /\ toldOf' = toldOf \union {t}
  /\ UNCHANGED <<dashCall, dashActs, lastDrop, dashCrossed, unheard>> /\ TablesStay

-----------------------------------------------------------------------------
TabActs(p, t) ==
  \/ \E b \in DOMAIN dash[t].at, g \in Sections(dash[t]), i \in 1..Cardinality(DashBoards) :
       DropBoard(p, t, b, g, i)
  \/ \E i, j \in DOMAIN dash[t].groups : DropGroup(p, t, i, j)
  \/ AskGroup(p, t)
  \/ \E g \in Range(dash[t].groups) : DeleteGroup(p, t, g)
  \/ \E b \in DashBoards, g \in Sections(dash[t]) : MakeBoard(p, t, b, g)
  \/ Reload(p, t) \/ OpenDashboard(p, t)

DashNext ==
  \/ \E p \in DashCalls :
       \/ \E t \in DashTabs : TabActs(p, t)
       \/ CheckArrangement(p) \/ UpsertPlacement(p) \/ NumberGroup(p)
       \/ InsertGroup(p) \/ LoosenBoards(p) \/ GroupRefused(p)
       \/ \E b \in DashBoards : LetIn(p, b) \/ EndMembership(p, b) \/ Shelve(p, b)
       \/ DropUserPlacement(p) \/ TellDashboards(p)
       \/ ReadGroups(p) \/ ApplyLoad(p)
  \/ \E t \in DashTabs : FoldGroup(t) \/ LoseSocket(t) \/ Resync(t)

-----------------------------------------------------------------------------
(* While no two requests that write the arrangement overlapped, no board is   *)
(* filed under a group that is gone: no dashboard would ever draw it again    *)
(* (board-groups DELETE against board-arrangement).                           *)
NoBoardHidden ==
  (~dashCrossed /\ \A p \in DashCalls : ~Writes(dashCall[p])) =>
    \A b \in reach : placed[b].group \in {Ungrouped} \union DOMAIN groupRows

(* What the person last dropped, and the server took, is what a dashboard     *)
(* opened afterwards shows, whatever boards came, went, were archived or came *)
(* back (persistArrangement, board-arrangement, dashboard).                   *)
LastDropHolds ==
  (\A p \in DashCalls : ~Writes(dashCall[p])) =>
    \A s \in DOMAIN lastDrop :
      LET dropped == UNION {Range(lastDrop[r]) : r \in DOMAIN lastDrop}
      IN SelectSeq(Tiles(Fresh, s), LAMBDA b : b \in dropped)
           = SelectSeq(lastDrop[s], LAMBDA b : b \in BoardsShown)

(* Once nothing is under way, a dashboard that is connected shows the boards  *)
(* the person can open, unless a change fell into its own loading             *)
(* (notifyDashboards, onResync).                                              *)
TilesAreCurrent ==
  (toldOf = {} /\ \A p \in DashCalls : dashCall[p].step = "idle") =>
    \A t \in DashTabs \ unheard :
      (dash[t].open /\ dash[t].joined) => DOMAIN dash[t].at \ madeHere = BoardsShown \ madeHere

(* No tile is missing for long: neither where the server keeps the boards nor *)
(* on a dashboard that was told of a change.                                  *)
TilesAreRight == NoBoardHidden /\ TilesAreCurrent
=============================================================================
