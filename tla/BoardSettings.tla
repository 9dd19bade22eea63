----------------------------- MODULE BoardSettings -----------------------------
(* A board's settings and the name of one of its columns, on its owner's      *)
(* tabs: pages of the board and dashboards with a tile of it.  The settings   *)
(* are changed in a form that takes what the tab shows for its start and      *)
(* saves all of it (BoardSettingsForm.vue); a column's name where it stands.  *)
(* A tab tells the others what it saved; an API key's requests and the tools  *)
(* of the MCP server are told by the server.  A name stands for the style and *)
(* the visibility too; a cover is a picture or a colour, of which choosing    *)
(* one takes the other away, or nothing.                                      *)

EXTENDS Naturals, FiniteSets, Sequences

CONSTANTS
  SetPages, SetTiles,   \* tabs with the board's page, and with a dashboard
  Covers

VARIABLES
  boardRow,       \* the board's row, and the column's
  setView,        \* per tab: what it shows of them
  setForm,        \* per tab: the form, and which of its fields were changed
  inColumn,       \* pages with the cursor in the column's name
  setCalls,       \* requests
  setWords,       \* told to the server's socket, not passed on yet
  setHeard,       \* per page: what is on its way to it
  toldTiles,      \* dashboards told that the board has changed
  setOffline,     \* tabs whose socket is gone
  setLeft,        \* what is left of the bounds
  setBehind,      \* tabs not told of a change, or shown one not saved
  setCrossed      \* a change began while another was under way

setVars == <<boardRow, setView, setForm, inColumn, setCalls, setWords, setHeard,
             toldTiles, setOffline, setLeft, setBehind, setCrossed>>

SetTabs == SetPages \union SetTiles
Settings == {"name", "cover"}
Blank == 0
FirstSettings == [name |-> 1, cover |-> "none", column |-> 1]
Over(row, fields, to) == [f \in DOMAIN row |-> IF f \in fields THEN to[f] ELSE row[f]]
Seeded(view, open) == [open |-> open, name |-> view.name, cover |-> view.cover, typed |-> {}]

(* `budget` bounds what people type, the requests for a change, the openings  *)
(* of the form, the requests and answers that are lost, and the sockets.      *)
SettingsInit(budget) ==
  /\ boardRow = FirstSettings
  /\ setView = [t \in SetTabs |-> FirstSettings]
  /\ setForm = [t \in SetTabs |-> Seeded(FirstSettings, FALSE)]
  /\ setCalls = {} /\ setWords = {}
  /\ setHeard = [t \in SetPages |-> << >>]
  /\ toldTiles = {} /\ setOffline = {} /\ inColumn = {}
  /\ setLeft = budget
  /\ setBehind = {} /\ setCrossed = FALSE

Costs(what) == setLeft[what] > 0 /\ setLeft' = [setLeft EXCEPT ![what] = @ - 1]
NewName == 2 + setLeft.typed + setLeft.changes
SettingsUnderway == setCalls # {} \/ setWords # {} \/ toldTiles # {} \/ \E t \in SetPages : setHeard[t] # << >>
SettingsQuiet == ~SettingsUnderway

-----------------------------------------------------------------------------
(* A slip: the form takes what is shown when it is opened, and no more.       *)
ShowAndKeepForm(t, view) ==
  /\ setView' = [setView EXCEPT ![t] = view]
  /\ UNCHANGED setForm

(* What the form is seeded from is watched deeply: any setting that changes   *)
(* seeds all of it anew, what was being typed with it.                        *)
ShowSettings(t, view) ==
  /\ setView' = [setView EXCEPT ![t] = view]
  /\ setForm' = IF \A f \in Settings : view[f] = setView[t][f] THEN setForm
                ELSE [setForm EXCEPT ![t] = Seeded(view, @.open)]

SendsChange(t, kind, sets, to, typed) ==
  /\ Costs("changes")
  /\ setCalls' = setCalls \union
       {[by |-> t, kind |-> kind, step |-> "write", sets |-> sets, to |-> to, typed |-> typed,
         live |-> TRUE, no |-> setLeft.changes]}
  /\ setCrossed' = (setCrossed \/ SettingsUnderway)
Goes(c, step) == setCalls' = (setCalls \ {c}) \union {[c EXCEPT !.step = step]}
TellsServer(t, fields, to) == setWords' = setWords \union {[by |-> t, says |-> fields, to |-> to]}

-----------------------------------------------------------------------------
(* On the board's page the form gets a new object when its window is drawn    *)
(* again, which opening and closing do; on the dashboard it is given the      *)
(* tile's own, and what was typed and not saved is still in it.               *)
Turn(t, open) ==
  setForm' = [setForm EXCEPT ![t] = IF t \in SetPages THEN Seeded(setView[t], open)
                                    ELSE [@ EXCEPT !.open = open]]

OpenSettings(t) ==
  /\ ~setForm[t].open /\ t \notin setOffline /\ Costs("openings")
  /\ Turn(t, TRUE)
  /\ UNCHANGED <<boardRow, setView, inColumn, setCalls, setWords, setHeard, toldTiles,
                 setOffline, setBehind, setCrossed>>

CloseSettings(t) ==
  /\ setForm[t].open
  /\ Turn(t, FALSE)
  /\ UNCHANGED <<boardRow, setView, inColumn, setCalls, setWords, setHeard, toldTiles,
                 setOffline, setLeft, setBehind, setCrossed>>

FormOnly == UNCHANGED <<boardRow, setView, inColumn, setCalls, setWords, setHeard, toldTiles,
                        setOffline, setBehind, setCrossed>>
TypeName(t) ==
  /\ setForm[t].open /\ Costs("typed")
  /\ \E x \in {Blank, NewName} :
       setForm' = [setForm EXCEPT ![t].name = x, ![t].typed = @ \union {"name"}]
  /\ FormOnly

PickCover(t, k) ==
  /\ setForm[t].open /\ setForm[t].cover # k
  /\ setForm' = [setForm EXCEPT ![t].cover = k, ![t].typed = @ \union {"cover"}]
  /\ UNCHANGED setLeft /\ FormOnly

(* Nothing keeps it from being pressed again before the answer.               *)
SaveForm(t) ==
  /\ setForm[t].open /\ t \notin setOffline
  /\ setForm[t].name # Blank
  /\ SendsChange(t, "form", Settings, [FirstSettings EXCEPT !.name = setForm[t].name, !.cover = setForm[t].cover],
          setForm[t].typed)
  /\ UNCHANGED <<boardRow, setView, setForm, inColumn, setWords, setHeard, toldTiles,
                 setOffline, setBehind>>

(* The column's name is bound to what the page shows.                         *)
TypeColumn(t) ==
  /\ t \notin setOffline /\ Costs("typed")
  /\ \E x \in {Blank, NewName} : ShowSettings(t, [setView[t] EXCEPT !.column = x])
  /\ inColumn' = inColumn \union {t}
  /\ setCrossed' = (setCrossed \/ \E c \in setCalls : c.by = t /\ c.kind = "column")
  /\ UNCHANGED <<boardRow, setCalls, setWords, setHeard, toldTiles, setOffline, setBehind>>

(* updateAreaName saves whatever stands there; no name is refused, and stays. *)
LeaveColumn(t) ==
  /\ t \in inColumn
  /\ inColumn' = inColumn \ {t}
  /\ IF setView[t].column = Blank
     THEN setBehind' = setBehind \union {t} /\ UNCHANGED <<setCalls, setLeft, setCrossed>>
     ELSE SendsChange(t, "column", {"column"}, setView[t], {}) /\ UNCHANGED setBehind
  /\ UNCHANGED <<boardRow, setView, setForm, setWords, setHeard, toldTiles, setOffline>>

(* A request with an API key gives all the settings, a tool those it is to    *)
(* change, and either a column's name.                                        *)
Elsewhere(kind, sets) ==
  /\ \E k \in IF "cover" \in sets THEN Covers ELSE {"none"} :
       SendsChange("elsewhere", kind, sets, [name |-> NewName, cover |-> k, column |-> NewName], {})
  /\ UNCHANGED <<boardRow, setView, setForm, inColumn, setWords, setHeard, toldTiles,
                 setOffline, setBehind>>

-----------------------------------------------------------------------------
FromATab(c) == c.kind \in {"form", "column"}

(* board POST and the tools.  Dashboards are told of a save of the form here; *)
(* of what a tool does they never are, and the pages not of a new cover.      *)
WriteChange(c) ==
  /\ c.step = "write" /\ c.kind # "load"
  /\ boardRow' = Over(boardRow, c.sets, c.to)
  /\ Goes(c, IF FromATab(c) THEN "answer" ELSE "tell")
  /\ toldTiles' = IF c.kind = "form" THEN toldTiles \union (SetTiles \ setOffline) ELSE toldTiles
  /\ setBehind' = setBehind \union
       (CASE c.kind = "tool" /\ "cover" \in c.sets -> SetTabs
          [] c.kind = "tool" /\ "name" \in c.sets -> SetTiles
          [] OTHER -> {})
  /\ UNCHANGED <<setView, setForm, inColumn, setWords, setHeard, setOffline, setLeft, setCrossed>>

(* The pages in the board's room get what the row is now.                     *)
ServerTells(c) ==
  LET says == IF c.kind = "tool" /\ "column" \notin c.sets THEN {"name"} ELSE c.sets
  IN /\ c.step = "tell"
     /\ setCalls' = setCalls \ {c}
     /\ setHeard' = [t \in SetPages |-> IF t \in setOffline THEN setHeard[t]
                                        ELSE Append(setHeard[t], [says |-> says, to |-> boardRow])]
     /\ toldTiles' = IF c.kind = "api" THEN toldTiles \union (SetTiles \ setOffline) ELSE toldTiles
     /\ UNCHANGED <<boardRow, setView, setForm, inColumn, setWords, setOffline, setLeft,
                    setBehind, setCrossed>>

(* onBoardSaved, on the page and on the dashboard.                            *)
FormAnswered(c) ==
  LET view == Over(setView[c.by], Settings, c.to)
  IN /\ c.kind = "form" /\ c.step = "answer"
     /\ setView' = [setView EXCEPT ![c.by] = view]
     /\ setForm' = IF c.by \in SetPages \/ view # setView[c.by]
                   THEN [setForm EXCEPT ![c.by] = Seeded(view, FALSE)]
                   ELSE [setForm EXCEPT ![c.by].open = FALSE]
     /\ setCalls' = setCalls \ {c}
     /\ TellsServer(c.by, Settings, c.to)
     /\ UNCHANGED <<boardRow, inColumn, setHeard, toldTiles, setOffline, setLeft, setBehind, setCrossed>>

(* The others are told what stands in the name by now.                        *)
ColumnAnswered(c) ==
  /\ c.kind = "column" /\ c.step = "answer"
  /\ setCalls' = setCalls \ {c}
  /\ TellsServer(c.by, {"column"}, IF c.live THEN setView[c.by] ELSE c.to)
  /\ UNCHANGED <<boardRow, setView, setForm, inColumn, setHeard, toldTiles, setOffline, setLeft,
                 setBehind, setCrossed>>

(* A request that does not get there leaves a name nobody saved; an answer    *)
(* that is lost, a change nobody is told of.                                  *)
CallFails(c) ==
  /\ FromATab(c) /\ Costs("failures")
  /\ setCalls' = setCalls \ {c}
  /\ setBehind' = setBehind \union
       (CASE c.step = "answer" -> SetPages
          [] c.kind = "column" -> {c.by}
          [] OTHER -> {})
  /\ UNCHANGED <<boardRow, setView, setForm, inColumn, setWords, setHeard, toldTiles,
                 setOffline, setCrossed>>

-----------------------------------------------------------------------------
(* boardUpdated and areaUpdated; what a tab without a socket says waits.      *)
PassSettingsOn(w) ==
  /\ w.by \notin setOffline
  /\ setWords' = setWords \ {w}
  /\ setHeard' = [t \in SetPages |->
       IF t = w.by \/ t \in setOffline THEN setHeard[t]
       ELSE Append(setHeard[t], [says |-> w.says, to |-> w.to])]
  /\ UNCHANGED <<boardRow, setView, setForm, inColumn, setCalls, toldTiles, setOffline, setLeft,
                 setBehind, setCrossed>>

(* handleBoardUpdated and handleAreaUpdated.                                  *)
HearChange(t) ==
  /\ setHeard[t] # << >>
  /\ ShowSettings(t, Over(setView[t], Head(setHeard[t]).says, Head(setHeard[t]).to))
  /\ setHeard' = [setHeard EXCEPT ![t] = Tail(@)]
  /\ UNCHANGED <<boardRow, inColumn, setCalls, setWords, toldTiles, setOffline, setLeft,
                 setBehind, setCrossed>>

(* Reading the board again: asked, read on the server, shown.                 *)
AsksAgain(t) ==
  /\ setCalls' = {IF c.by = t THEN [c EXCEPT !.live = FALSE, !.to.column =
                                    IF c.kind = "column" /\ c.live THEN setView[t].column ELSE @] ELSE c
                  : c \in setCalls}
                 \union {[by |-> t, kind |-> "load", step |-> "read", sets |-> {}, to |-> FirstSettings,
                          typed |-> {}, live |-> FALSE, no |-> 0]}
  /\ setBehind' = IF \E c \in setCalls : c.step = "write" THEN setBehind \union {t} ELSE setBehind \ {t}
NotLoading(t) == \A c \in setCalls : c.kind = "load" => c.by # t

TileHears(t) ==
  /\ t \in toldTiles /\ NotLoading(t)
  /\ toldTiles' = toldTiles \ {t}
  /\ AsksAgain(t)
  /\ UNCHANGED <<boardRow, setView, setForm, inColumn, setWords, setHeard, setOffline, setLeft, setCrossed>>

ReadSettings(c) ==
  /\ c.kind = "load" /\ c.step = "read"
  /\ setCalls' = (setCalls \ {c}) \union {[c EXCEPT !.step = "show", !.to = boardRow]}
  /\ UNCHANGED <<boardRow, setView, setForm, inColumn, setWords, setHeard, toldTiles, setOffline,
                 setLeft, setBehind, setCrossed>>

(* A dashboard's boards are new objects each time.                            *)
ShowRead(c) ==
  /\ c.kind = "load" /\ c.step = "show"
  /\ IF c.by \in SetPages THEN ShowSettings(c.by, c.to)
     ELSE /\ setView' = [setView EXCEPT ![c.by] = c.to]
          /\ setForm' = [setForm EXCEPT ![c.by] = Seeded(c.to, @.open)]
  /\ setCalls' = setCalls \ {c}
  /\ UNCHANGED <<boardRow, inColumn, setWords, setHeard, toldTiles, setOffline, setLeft,
                 setBehind, setCrossed>>

LoseTab(t) ==
  /\ t \notin setOffline /\ Costs("drops")
  /\ setOffline' = setOffline \union {t}
  /\ setHeard' = [u \in SetPages |-> IF u = t THEN << >> ELSE setHeard[u]]
  /\ toldTiles' = toldTiles \ {t}
  /\ UNCHANGED <<boardRow, setView, setForm, inColumn, setCalls, setWords, setBehind, setCrossed>>

TabIsBack(t) ==
  /\ t \in setOffline /\ NotLoading(t)
  /\ setOffline' = setOffline \ {t}
  /\ AsksAgain(t)
  /\ UNCHANGED <<boardRow, setView, setForm, inColumn, setWords, setHeard, toldTiles, setLeft, setCrossed>>

-----------------------------------------------------------------------------
SettingsNext ==
  \/ \E t \in SetTabs :
       \/ OpenSettings(t) \/ CloseSettings(t) \/ TypeName(t) \/ SaveForm(t)
       \/ \E k \in Covers : PickCover(t, k)
       \/ LoseTab(t) \/ TabIsBack(t)
  \/ \E t \in SetPages : TypeColumn(t) \/ LeaveColumn(t) \/ HearChange(t)
  \/ \E t \in SetTiles : TileHears(t)
  \/ Elsewhere("api", Settings)
  \/ \E sets \in {{"name"}, {"cover"}, {"column"}} : Elsewhere("tool", sets)
  \/ \E c \in setCalls :
       \/ WriteChange(c) \/ ServerTells(c) \/ FormAnswered(c) \/ ColumnAnswered(c)
       \/ CallFails(c) \/ ReadSettings(c) \/ ShowRead(c)
  \/ \E w \in setWords : PassSettingsOn(w)

-----------------------------------------------------------------------------
(* Changes made one after another: once nothing is under way, a tab that has  *)
(* its socket, and whose cursor is not in it, shows what is saved.            *)
TabsAgree ==
  (SettingsQuiet /\ ~setCrossed) => \A t \in SetTabs \ (setOffline \union setBehind) :
    \A f \in Settings \union IF t \in SetPages \ inColumn THEN {"column"} ELSE {} :
      setView[t][f] = boardRow[f]

(* And a form that is saved undoes nothing that somebody else has changed     *)
(* meanwhile: where it was not typed in, it says what is saved.               *)
NothingUndone ==
  ~setCrossed => \A c \in setCalls :
    (c.kind = "form" /\ c.step = "write" /\ c.by \notin setBehind) =>
      \A f \in Settings \ c.typed : c.to[f] = boardRow[f]

SettingsSettle == TabsAgree /\ NothingUndone
=============================================================================
