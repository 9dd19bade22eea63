------------------------------- MODULE BoardPage -------------------------------
(* One board on several screens.  A change is saved by a request, then told   *)
(* to the server's socket, which passes it on to the pages in the board's     *)
(* room; each page keeps its own columns and lists and carries out what it is *)
(* told (app/pages/board/[id].vue, Connection.client.vue, socket.io.ts).  A   *)
(* page nobody looks at hangs up, and reads the board again when it comes     *)
(* back without having been replayed what it missed (app/utils/socketRest.ts).*)

EXTENDS Naturals, Sequences, FiniteSets, SequencesExt

CONSTANTS
  Screens,
  BoardColumns,   \* column ids; the first of FirstColumns holds FirstCards
  FirstColumns,   \* the columns the board starts with, a sequence
  BoardCards,
  FirstCards,     \* the cards it starts with, a sequence
  Overlap,        \* may a change begin while another is still on its way
  Budgets         \* bounds: the changes people make, the times a tab is put
                  \* aside, the connections the network drops

VARIABLES
  stored,      \* the database: shown columns in order, their cards, card texts
  screen,       \* per tab: columns, lists, the texts and the `area` of its cards
  line,       \* per tab: its socket, and what restWhenHidden remembers
  inRoom,     \* tabs the server has in the board's room
  kept,       \* tabs without a connection whose session the server remembers
  posts,     \* requests not answered yet
  relaying,   \* events whose access check has not been answered
  inbox,      \* per tab: events on their way to it, in order
  catchUp,    \* per tab: what resyncBoard has yet to read; columns the tab made
              \* whose cards it has yet to read, and answers about them
  left,       \* what is left of the budget
  torn,       \* tabs with a change their page could not carry out
  missedOne,  \* tabs that were not told of a change and have not read since
  crossed     \* tabs with a change saved or told while they were catching up, made
              \* while another was on its way, or made on a page that was behind;
              \* and tabs that took over the list of a new column too late

boardVars == <<stored, screen, line, inRoom, kept, posts, relaying, inbox, catchUp,
               left, torn, missedOne, crossed>>
traffic == <<posts, relaying, inbox>>
ghosts == <<torn, missedOne, crossed>>

Without(s, x) == SelectSeq(s, LAMBDA y : y # x)
Holds(s, x) == \E i \in DOMAIN s : s[i] = x
PlaceAt(s, i, x) == InsertAt(s, IF i > Len(s) + 1 THEN Len(s) + 1 ELSE i, x)
Under(s, x, y) ==
  IF Holds(s, x) THEN InsertAt(s, (CHOOSE i \in DOMAIN s : s[i] = x) + 1, y) ELSE Append(s, y)

(* What a page that loads the board shows.                                    *)
Fresh(b) == [columns |-> b.columns, lists |-> b.cards, texts |-> b.texts,
             area |-> [c \in BoardCards |->
                        LET at == {a \in DOMAIN b.cards : Holds(b.cards[a], c)}
                        IN  IF at = {} THEN FirstColumns[1] ELSE CHOOSE a \in at : TRUE]]

NotReading == [asks |-> {}, cards |-> {}, made |-> {}, answers |-> {}]

BoardInit(budget) ==
  /\ stored = [columns |-> FirstColumns,
               cards |-> [a \in Range(FirstColumns) |->
                          IF a = FirstColumns[1] THEN FirstCards ELSE << >>],
              texts |-> [c \in BoardCards |-> 0]]
  /\ screen = [t \in Screens |-> Fresh(stored)]
  /\ line = [t \in Screens |-> [up |-> FALSE, hidden |-> FALSE, resting |-> FALSE,
                             missed |-> FALSE, grace |-> FALSE]]
  /\ inRoom = {} /\ kept = {}
  /\ posts = {} /\ relaying = {}
  /\ inbox = [t \in Screens |-> << >>]
  /\ catchUp = [t \in Screens |-> NotReading]
  /\ left = budget
  /\ torn = {} /\ missedOne = {} /\ crossed = {}

Shown(b) == Range(b.columns)
OnTheWay == posts # {} \/ relaying # {} \/ \E t \in Screens : inbox[t] # << >>
Reading == {t \in Screens : catchUp[t] # NotReading}
Catching == {t \in Screens : catchUp[t].asks # {} \/ catchUp[t].cards # {}}
Behind == torn \cup missedOne \cup crossed

(* A page has asked for a change, or will hear of one that is in the database *)
(* already.                                                                   *)
Awaits(t) ==
  \/ \E r \in posts : r.by = t
  \/ \E e \in relaying : e.by # t
  \/ inbox[t] # << >>

-----------------------------------------------------------------------------
(* What the handlers of the page do.  Each returns the page it leaves, and    *)
(* whether it found what it was to change; a list that is not there throws.   *)

Done(p) == [page |-> p, found |-> TRUE]
NotFound(p) == [page |-> p, found |-> FALSE]

(* handleCardMoved: taken out of one list, then put into the other.           *)
HandleCardMoved(p, e) ==
  IF e.from \notin DOMAIN p.lists \/ ~Holds(p.lists[e.from], e.card) THEN NotFound(p)
  ELSE LET out == [p EXCEPT !.lists[e.from] = Without(@, e.card)]
       IN  IF e.to \notin DOMAIN p.lists THEN NotFound(out)
           ELSE Done([out EXCEPT !.lists[e.to] = PlaceAt(@, e.at, e.card)])

HandleCardOrderd(p, e) ==
  IF e.from \notin DOMAIN p.lists \/ ~Holds(p.lists[e.from], e.card) THEN NotFound(p)
  ELSE Done([p EXCEPT !.lists[e.from] = PlaceAt(Without(@, e.card), e.at, e.card)])

(* handleCardUpdated merges what came, `area` with it, wherever the card is.  *)
HandleCardUpdated(p, e) ==
  IF \A a \in DOMAIN p.lists : ~Holds(p.lists[a], e.card) THEN NotFound(p)
  ELSE Done([p EXCEPT !.texts[e.card] = e.text, !.area[e.card] = e.from])

HandleCardDeleted(p, e) ==
  IF e.from \notin DOMAIN p.lists \/ ~Holds(p.lists[e.from], e.card) THEN NotFound(p)
  ELSE Done([p EXCEPT !.lists[e.from] = Without(@, e.card)])

(* handleCardCreated, also for a copy: `under` is the card it goes beneath.   *)
HandleCardCreated(p, e) ==
  LET lists == IF e.from \in DOMAIN p.lists THEN p.lists
               ELSE [a \in DOMAIN p.lists \cup {e.from} |->
                      IF a = e.from THEN << >> ELSE p.lists[a]]
      kept1 == [p EXCEPT !.lists = lists, !.texts[e.card] = e.text, !.area[e.card] = e.from]
  IN  Done(IF Holds(lists[e.from], e.card) THEN kept1
           ELSE [kept1 EXCEPT !.lists[e.from] = Under(@, e.under, e.card)])

(* handleNewArea gives the column no list.                                    *)
HandleNewArea(p, e) == Done([p EXCEPT !.columns = Append(@, e.from)])

HandleDeleteArea(p, e) ==
  IF Holds(p.columns, e.from) THEN Done([p EXCEPT !.columns = Without(@, e.from)])
  ELSE NotFound(p)

HandleAreasUpdated(p, e) == Done([p EXCEPT !.columns = e.columns])

Handle(p, e) ==
  CASE e.kind = "moved" -> HandleCardMoved(p, e)
    [] e.kind = "orderd" -> HandleCardOrderd(p, e)
    [] e.kind = "updated" -> HandleCardUpdated(p, e)
    [] e.kind = "deleted" -> HandleCardDeleted(p, e)
    [] e.kind = "created" -> HandleCardCreated(p, e)
    [] e.kind = "newArea" -> HandleNewArea(p, e)
    [] e.kind = "deleteArea" -> HandleDeleteArea(p, e)
    [] e.kind = "areas" -> HandleAreasUpdated(p, e)

Apply(t, result) ==
  /\ screen' = [screen EXCEPT ![t] = result.page]
  /\ torn' = IF result.found THEN torn ELSE torn \cup {t}

-----------------------------------------------------------------------------
(* What a person does on a page.  A drag and the move dialog change the page  *)
(* before they ask; everything else waits for the answer.                     *)

Nothing(t) == [by |-> t, no |-> left.changes, kind |-> "", card |-> FirstCards[1], from |-> FirstColumns[1],
               to |-> FirstColumns[1], at |-> 0, text |-> 0, under |-> 0, columns |-> << >>]

Asks(t, r) ==
  /\ left.changes > 0
  /\ left' = [left EXCEPT !.changes = @ - 1]
  /\ Overlap \/ ~OnTheWay
  /\ posts' = posts \cup {r}
  /\ crossed' = IF OnTheWay \/ t \in Behind \cup Catching THEN Screens ELSE crossed \cup Catching
  /\ UNCHANGED <<stored, line, inRoom, kept, relaying, inbox, catchUp, missedOne>>

(* The cards a page has to show, and in which of its lists.                   *)
Sees(t, a, c) == a \in Range(screen[t].columns) /\ a \in DOMAIN screen[t].lists
                 /\ Holds(screen[t].lists[a], c)

Drag(t) ==
  \E a \in BoardColumns, z \in BoardColumns, c \in BoardCards, i \in 1..Len(FirstCards) + 1 :
    /\ Sees(t, a, c)
    /\ z \in Range(screen[t].columns) /\ z \in DOMAIN screen[t].lists
    /\ i <= Len(screen[t].lists[z]) + 1
    /\ LET r == [Nothing(t) EXCEPT !.kind = IF a = z THEN "orderd" ELSE "moved",
                   !.card = c, !.from = a, !.to = z, !.at = i]
           put == Handle(screen[t], r)
       IN  Asks(t, r) /\ Apply(t, [put EXCEPT !.page.area[c] = z])

(* The move dialog takes the column the card came from off the card itself.   *)
MoveInDialog(t) ==
  \E a \in BoardColumns, z \in BoardColumns, c \in BoardCards :
    /\ Sees(t, a, c)
    /\ z \in Range(screen[t].columns) /\ z # screen[t].area[c]
    /\ LET r == [Nothing(t) EXCEPT !.kind = "moved", !.card = c, !.from = screen[t].area[c],
                   !.to = z, !.at = 1]
           listed == IF z \in DOMAIN screen[t].lists THEN screen[t]
                     ELSE [screen[t] EXCEPT !.lists = [y \in DOMAIN @ \cup {z} |->
                                              IF y = z THEN << >> ELSE @[y]]]
           put == Handle(listed, r)
       IN  Asks(t, r) /\ Apply(t, IF put.found THEN [put EXCEPT !.page.area[c] = z] ELSE put)

EditOrDelete(t) ==
  \E a \in BoardColumns, c \in BoardCards, kind \in {"updated", "deleted"} :
    /\ Sees(t, a, c)
    /\ Asks(t, [Nothing(t) EXCEPT !.kind = kind, !.card = c, !.from = screen[t].area[c],
                  !.text = left.changes])
    /\ UNCHANGED <<screen, torn>>

(* A new card goes to the bottom of a column, a copy under its original.      *)
NewOrCopied(t) ==
  \E a \in Range(screen[t].columns), under \in BoardCards \cup {0} :
    /\ under # 0 => Sees(t, a, under)
    /\ Asks(t, [Nothing(t) EXCEPT !.kind = "created", !.from = a, !.under = under,
                  !.text = left.changes])
    /\ UNCHANGED <<screen, torn>>

NewArea(t) ==
  /\ Asks(t, [Nothing(t) EXCEPT !.kind = "newArea"])
  /\ UNCHANGED <<screen, torn>>

DropArea(t) ==
  \E a \in Range(screen[t].columns) :
    /\ Asks(t, [Nothing(t) EXCEPT !.kind = "deleteArea", !.from = a])
    /\ UNCHANGED <<screen, torn>>

DragArea(t) ==
  \E a \in Range(screen[t].columns) : \E i \in 1..Len(screen[t].columns) :
    /\ screen[t].columns[i] # a
    /\ Asks(t, [Nothing(t) EXCEPT !.kind = "areas",
                  !.columns = InsertAt(Without(screen[t].columns, a), i, a)])
    /\ UNCHANGED <<screen, torn>>

-----------------------------------------------------------------------------
(* The request, the answer, and what is told.                                 *)

UnusedCards == BoardCards \ UNION {Range(stored.cards[a]) : a \in DOMAIN stored.cards}
UnusedColumns == BoardColumns \ DOMAIN stored.cards
ColumnOf(c) == {a \in DOMAIN stored.cards : Holds(stored.cards[a], c)}

(* The requests that find what they are about.                                *)
Possible(r) ==
  CASE r.kind \in {"moved", "orderd"} -> r.from \in ColumnOf(r.card) /\ r.to \in Shown(stored)
    [] r.kind \in {"updated", "deleted"} -> ColumnOf(r.card) # {}
    [] r.kind = "created" -> r.from \in Shown(stored) /\ UnusedCards # {}
    [] r.kind = "newArea" -> UnusedColumns # {}
    [] r.kind = "deleteArea" -> r.from \in Shown(stored)
    [] r.kind = "areas" -> TRUE

(* What the answer says beyond what was asked: the new id, and for an edit    *)
(* the column the row is in.                                                  *)
AnswerTo(r) ==
  CASE r.kind = "created" -> [r EXCEPT !.card = CHOOSE c \in UnusedCards : TRUE]
    [] r.kind = "newArea" -> [r EXCEPT !.from = CHOOSE a \in UnusedColumns : TRUE]
    [] r.kind = "updated" -> [r EXCEPT !.from = CHOOSE a \in ColumnOf(r.card) : TRUE]
    [] OTHER -> r

Saved(b, r) ==
  CASE r.kind \in {"moved", "orderd"} ->
         LET out == [b EXCEPT !.cards[r.from] = Without(@, r.card)]
         IN  [out EXCEPT !.cards[r.to] = PlaceAt(@, r.at, r.card)]
    [] r.kind = "updated" -> [b EXCEPT !.texts[r.card] = r.text]
    [] r.kind = "deleted" ->
         [b EXCEPT !.cards = [a \in DOMAIN b.cards |-> Without(b.cards[a], r.card)]]
    [] r.kind = "created" ->
         [b EXCEPT !.cards[r.from] = Under(@, r.under, r.card), !.texts[r.card] = r.text]
    [] r.kind = "newArea" ->
         [b EXCEPT !.columns = Append(@, r.from),
                   !.cards = [a \in DOMAIN @ \cup {r.from} |-> IF a = r.from THEN << >> ELSE @[a]]]
    [] r.kind = "deleteArea" -> [b EXCEPT !.columns = Without(@, r.from)]
    [] r.kind = "areas" ->
         [b EXCEPT !.columns = SelectSeq(r.columns, LAMBDA a : a \in Shown(b))
                                 \o SelectSeq(@, LAMBDA a : ~Holds(r.columns, a))]

(* What the page does with the answer, before it tells the socket.            *)
OnAnswer(t, r) ==
  CASE r.kind = "created" -> HandleCardCreated(screen[t], r)
    [] r.kind = "updated" -> HandleCardUpdated(screen[t], r)
    [] r.kind = "deleted" -> HandleCardDeleted(screen[t], r)
    [] r.kind = "newArea" -> HandleNewArea(screen[t], r)
    [] r.kind = "deleteArea" ->
         Done([screen[t] EXCEPT !.columns = Without(@, r.from),
                 !.lists = [a \in DOMAIN @ \ {r.from} |-> @[a]]])
    [] r.kind = "areas" -> HandleAreasUpdated(screen[t], r)
    [] OTHER -> Done(screen[t])

(* createArea, having told the socket, asks for the cards of the new column.  *)
ThenReads(t, r) ==
  IF r.kind = "newArea" THEN [catchUp EXCEPT ![t].made = @ \cup {r.from}]
  ELSE catchUp

SavePost(r) ==
  /\ r \in posts
  /\ posts' = posts \ {r}
  /\ IF Possible(r)
       THEN /\ stored' = Saved(stored, AnswerTo(r))
            /\ relaying' = relaying \cup {AnswerTo(r)}
            /\ Apply(r.by, OnAnswer(r.by, AnswerTo(r)))
            /\ catchUp' = ThenReads(r.by, AnswerTo(r))
       ELSE /\ torn' = torn \cup {r.by}
            /\ UNCHANGED <<stored, relaying, screen, catchUp>>
  /\ crossed' = crossed \cup Catching
  /\ UNCHANGED <<line, inRoom, kept, inbox, left, missedOne>>

(* The server passes an event on once it knows the sender may see the board;  *)
(* two events may finish in either order.  A sender that is not connected     *)
(* keeps what it has to say.                                                  *)
RelayEvent(e) ==
  /\ e \in relaying
  /\ line[e.by].up
  /\ relaying' = relaying \ {e}
  /\ inbox' = [t \in Screens |-> IF t # e.by /\ t \in inRoom \cup kept
                              THEN Append(inbox[t], e) ELSE inbox[t]]
  /\ missedOne' = missedOne \cup (Screens \ (inRoom \cup kept \cup {e.by} \cup Catching))
  /\ crossed' = crossed \cup Catching
  /\ UNCHANGED <<stored, screen, line, inRoom, kept, posts, catchUp, left, torn>>

HearEvent(t) ==
  /\ inbox[t] # << >> /\ line[t].up
  /\ inbox' = [inbox EXCEPT ![t] = Tail(@)]
  /\ Apply(t, Handle(screen[t], Head(inbox[t])))
  /\ UNCHANGED <<stored, line, inRoom, kept, posts, relaying, catchUp, left, missedOne, crossed>>

-----------------------------------------------------------------------------
(* The connection, and whether anybody is looking.                            *)

(* "connect": the page asks to join, and one that missed something and was    *)
(* not replayed it reads the board again, starting in the same moment.        *)
Reconnect(t) ==
  /\ ~line[t].up /\ ~line[t].resting
  /\ line' = [line EXCEPT ![t].up = TRUE, ![t].missed = FALSE]
  /\ inRoom' = IF t \in kept THEN inRoom \cup {t} ELSE inRoom
  /\ kept' = kept \ {t}
  /\ catchUp' = IF line[t].missed /\ t \notin kept
                THEN [catchUp EXCEPT ![t].asks = @ \cup {"board"}] ELSE catchUp
  /\ UNCHANGED <<stored, screen, posts, relaying, inbox, left, torn, missedOne, crossed>>

(* joinBoard on the server, once it knows that this person may.               *)
Join(t) ==
  /\ line[t].up /\ t \notin inRoom
  /\ inRoom' = inRoom \cup {t}
  /\ UNCHANGED <<stored, screen, line, kept, posts, relaying, inbox, catchUp, left, torn, missedOne, crossed>>

HangUp(l) == [l EXCEPT !.up = FALSE, !.resting = TRUE, !.missed = TRUE, !.grace = FALSE]

(* What the server has on its way to a tab that hung up is lost to it.        *)
LoseInbox(t) ==
  /\ inbox' = [inbox EXCEPT ![t] = << >>]
  /\ missedOne' = IF inbox[t] # << >> THEN missedOne \cup {t} ELSE missedOne

(* rest(), after the minute's grace.                                          *)
GraceEnds(t) ==
  /\ line[t].grace
  /\ IF line[t].hidden /\ ~line[t].resting
       THEN /\ line' = [line EXCEPT ![t] = HangUp(@)]
            /\ inRoom' = inRoom \ {t} /\ kept' = kept \ {t}
            /\ LoseInbox(t)
       ELSE /\ line' = [line EXCEPT ![t].grace = FALSE]
            /\ UNCHANGED <<inRoom, kept, inbox, missedOne>>
  /\ UNCHANGED <<stored, screen, posts, relaying, catchUp, left, torn, crossed>>

Hide(t) ==
  /\ left.looks > 0 /\ ~line[t].hidden
  /\ left' = [left EXCEPT !.looks = @ - 1]
  /\ line' = [line EXCEPT ![t].hidden = TRUE, ![t].grace = ~line[t].resting]
  /\ UNCHANGED <<stored, screen, inRoom, kept, traffic, catchUp, ghosts>>

(* A slip: waking leaves the tab marked as resting.                           *)
WakeResting(t) ==
  /\ line[t].hidden
  /\ line' = [line EXCEPT ![t].hidden = FALSE, ![t].grace = FALSE]
  /\ UNCHANGED <<stored, screen, inRoom, kept, traffic, catchUp, left, ghosts>>

Look(t) ==
  /\ line[t].hidden
  /\ line' = [line EXCEPT ![t].hidden = FALSE, ![t].grace = FALSE, ![t].resting = FALSE]
  /\ UNCHANGED <<stored, screen, inRoom, kept, traffic, catchUp, left, ghosts>>

(* "connect_error" in a tab nobody looks at.                                  *)
ConnectFails(t) ==
  /\ ~line[t].up /\ ~line[t].resting /\ line[t].hidden
  /\ line' = [line EXCEPT ![t] = HangUp(@)]
  /\ kept' = kept \ {t}
  /\ LoseInbox(t)
  /\ UNCHANGED <<stored, screen, inRoom, posts, relaying, catchUp, left, torn, crossed>>

(* The network drops a connection, with what the tab had just said to it; the *)
(* server keeps the session a while.                                          *)
LineDrops(t) ==
  /\ line[t].up /\ left.drops > 0
  /\ \E lost \in SUBSET {e \in relaying : e.by = t} :
       /\ relaying' = relaying \ lost
       /\ missedOne' = IF lost = {} THEN missedOne ELSE missedOne \cup (Screens \ {t})
  /\ left' = [left EXCEPT !.drops = @ - 1]
  /\ inRoom' = inRoom \ {t}
  /\ IF line[t].hidden
       THEN line' = [line EXCEPT ![t] = HangUp(@)]
       ELSE line' = [line EXCEPT ![t].up = FALSE, ![t].missed = TRUE]
  /\ kept' = IF t \in inRoom THEN kept \cup {t} ELSE kept
  /\ UNCHANGED <<stored, screen, posts, inbox, catchUp, torn, crossed>>

(* Two minutes later it does not any more.                                    *)
ForgetSession(t) ==
  /\ t \in kept
  /\ kept' = kept \ {t}
  /\ LoseInbox(t)
  /\ UNCHANGED <<stored, screen, line, inRoom, posts, relaying, catchUp, left, torn, crossed>>

-----------------------------------------------------------------------------
(* resyncBoard: the board itself, then its columns, then the cards of every   *)
(* one of them at once.  Each answer is taken over in the step it is read in: *)
(* what is saved or told before the last one crosses the reading anyway.      *)

ReadBoard(t) ==
  /\ "board" \in catchUp[t].asks
  /\ catchUp' = [catchUp EXCEPT ![t].asks = (@ \ {"board"}) \cup {"areas"}]
  /\ missedOne' = missedOne \ {t}
  /\ torn' = torn \ {t}
  /\ crossed' = IF OnTheWay \/ catchUp[t].made # {} \/ catchUp[t].answers # {}
                THEN crossed \cup {t} ELSE crossed \ {t}
  /\ UNCHANGED <<stored, screen, line, inRoom, kept, traffic, left>>

ReadAreas(t) ==
  /\ "areas" \in catchUp[t].asks
  /\ screen' = [screen EXCEPT ![t].columns = stored.columns]
  /\ catchUp' = [catchUp EXCEPT ![t].asks = @ \ {"areas"}, ![t].cards = @ \cup Shown(stored)]
  /\ UNCHANGED <<stored, line, inRoom, kept, traffic, left, ghosts>>

(* fetchCardsForArea: the answer, and the list it takes the place of, whatever*)
(* the page has heard or moved since it was read.                             *)
ListRead(a) ==
  [of |-> a, cards |-> stored.cards[a],
   texts |-> [c \in Range(stored.cards[a]) |-> stored.texts[c]]]
ShowList(t, q) ==
  screen' = [screen EXCEPT
               ![t].lists = [z \in DOMAIN @ \cup {q.of} |-> IF z = q.of THEN q.cards ELSE @[z]],
               ![t].texts = [c \in BoardCards |-> IF Holds(q.cards, c) THEN q.texts[c] ELSE @[c]],
               ![t].area = [c \in BoardCards |-> IF Holds(q.cards, c) THEN q.of ELSE @[c]]]

(* A slip: an area loaded before is answered from what is already held.       *)
ReadCardsOnce(t) ==
  \E a \in catchUp[t].cards :
    /\ catchUp' = [catchUp EXCEPT ![t].cards = @ \ {a}]
    /\ IF a \in DOMAIN screen[t].lists THEN UNCHANGED screen ELSE ShowList(t, ListRead(a))
    /\ UNCHANGED <<stored, line, inRoom, kept, traffic, left, ghosts>>

ReadCards(t) ==
  \E a \in catchUp[t].cards :
    /\ catchUp' = [catchUp EXCEPT ![t].cards = @ \ {a}]
    /\ ShowList(t, ListRead(a))
    /\ UNCHANGED <<stored, line, inRoom, kept, traffic, left, ghosts>>

(* The cards of a column the page made, which has no list until they come.    *)
ReadNewColumn(t) ==
  \E a \in catchUp[t].made :
    /\ catchUp' = [catchUp EXCEPT ![t].made = @ \ {a}, ![t].answers = @ \cup {ListRead(a)}]
    /\ crossed' = IF Awaits(t) THEN crossed \cup {t} ELSE crossed
    /\ UNCHANGED <<stored, screen, line, inRoom, kept, traffic, left, torn, missedOne>>

ShowNewColumn(t) ==
  \E q \in catchUp[t].answers :
    /\ catchUp' = [catchUp EXCEPT ![t].answers = @ \ {q}]
    /\ ShowList(t, q)
    /\ crossed' = IF q # ListRead(q.of) \/ \E r \in posts : r.by = t
                  THEN crossed \cup {t} ELSE crossed
    /\ UNCHANGED <<stored, line, inRoom, kept, traffic, left, torn, missedOne>>

-----------------------------------------------------------------------------
PageStep(t) ==
  \/ Drag(t) \/ MoveInDialog(t) \/ EditOrDelete(t) \/ NewOrCopied(t)
  \/ NewArea(t) \/ DropArea(t) \/ DragArea(t)
  \/ HearEvent(t) \/ Reconnect(t) \/ Join(t) \/ GraceEnds(t) \/ Hide(t) \/ Look(t)
  \/ ConnectFails(t) \/ LineDrops(t) \/ ForgetSession(t) \/ ReadBoard(t) \/ ReadAreas(t)
  \/ ReadCards(t) \/ ReadNewColumn(t) \/ ShowNewColumn(t)

BoardNext ==
  \/ \E t \in Screens : PageStep(t)
  \/ \E r \in posts : SavePost(r)
  \/ \E e \in relaying : RelayEvent(e)

BoardFairness ==
  /\ \A t \in Screens : WF_boardVars(HearEvent(t)) /\ WF_boardVars(Reconnect(t)) /\ WF_boardVars(Join(t))
                    /\ WF_boardVars(GraceEnds(t)) /\ WF_boardVars(ReadBoard(t))
                    /\ WF_boardVars(ReadAreas(t)) /\ WF_boardVars(ReadCards(t))
                    /\ WF_boardVars(ReadNewColumn(t)) /\ WF_boardVars(ShowNewColumn(t))
  /\ WF_boardVars(\E r \in posts : SavePost(r))
  /\ WF_boardVars(\E e \in relaying : RelayEvent(e))

BoardSpec == (\E budget \in Budgets : BoardInit(budget)) /\ [][BoardNext]_boardVars /\ BoardFairness

-----------------------------------------------------------------------------
BoardTypeOK ==
  /\ stored.columns \in Seq(BoardColumns) /\ stored.texts \in [BoardCards -> Nat]
  /\ \A a \in DOMAIN stored.cards : stored.cards[a] \in Seq(BoardCards)
  /\ inRoom \subseteq Screens /\ kept \subseteq Screens /\ inRoom \cap kept = {}
  /\ \A t \in inRoom : line[t].up
  /\ \A t \in Screens : line[t].resting => ~line[t].up

ListOf(p, a) == IF a \in DOMAIN p.lists THEN p.lists[a] ELSE << >>
Shows(t) ==
  /\ screen[t].columns = stored.columns
  /\ \A a \in Shown(stored) :
       /\ ListOf(screen[t], a) = stored.cards[a]
       /\ \A c \in Range(stored.cards[a]) : screen[t].texts[c] = stored.texts[c]
Settled(t) == ~OnTheWay /\ t \notin Reading

(* When nothing is under way, a page shows the board as it is saved, unless a *)
(* handler came upon a card or column it did not find, a change passed it by  *)
(* while it was away and it has not read since, changes crossed, a page that  *)
(* was behind made one, or the first list of a column it made had been        *)
(* overtaken by what it heard or moved meanwhile.                             *)
InStep == \A t \in Screens : Settled(t) /\ t \notin Behind => Shows(t)

(* A tab that is looked at for good is in the end connected, in its room and  *)
(* done with catching up; one put aside for good ends up without a connection.*)
TabsFollowTheEye ==
  \A t \in Screens :
    /\ <>[](~line[t].hidden) => <>[](line[t].up /\ t \in inRoom /\ t \notin Reading)
    /\ <>[](line[t].hidden) => <>[](~line[t].up /\ line[t].resting)

(* "Joined first, then fetched, so nothing can fall between the two"          *)
(* (socketRest.ts): a page that has read the board again after being away     *)
(* shows it as it is, whatever was saved while it was reading.                *)
JoinedThenFetched ==
  \A t \in Screens : Settled(t) /\ t \notin torn \cup missedOne => Shows(t)

(* "Everyone looking at that board sees it happen" (02.boards.md): changes    *)
(* made one after the other reach every page that was there for all of them.  *)
EveryoneSeesIt ==
  \A t \in Screens : Settled(t) /\ t \notin missedOne \cup crossed => Shows(t)
=============================================================================
