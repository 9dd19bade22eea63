-------------------------------- MODULE MindMap --------------------------------
(* A board drawn as a mind map on several screens.  A node that somebody has  *)
(* dragged keeps its place, one that nobody has is laid out from its parent's *)
(* (app/utils/mindMap.ts).  While a drag is not saved the map draws it on top *)
(* of the board's own data (MindMap.client.vue); one request saves all the    *)
(* drag took along, row by row (server/api/data/mindmap.ts); and whoever      *)
(* dragged tells the others.  The plane has one dimension here, and a node    *)
(* with no place of its own stands one step off its parent.  A card dropped   *)
(* on another area joins it as in BoardPage (left out here).                  *)

EXTENDS Integers, Sequences, FiniteSets, SequencesExt

CONSTANTS
  MapTabs,
  MapAreas, MapCards,
  CardArea,       \* the area of each card
  Root,           \* the node of the board itself
  Unset,          \* the place of a node that nobody has dragged
  MapLimit,       \* MAP_LIMIT: places beyond it are cut to it
  Pulls,          \* bound: how far a drag may go
  MaxDrags, MaxMapFailures, MaxMapDrops   \* bounds

ASSUME MapAssumption ==
  /\ CardArea \in [MapCards -> MapAreas]
  /\ MapLimit \in Nat /\ Pulls \subseteq Int \ {0}

VARIABLES
  mapDb,          \* mapX and mapY of the board's, the areas' and the cards' rows
  mapTab,         \* per tab: the board's data, what is pending, the drag
  mapSaves,       \* requests under way, and answers
  mapWords,       \* moves announced and not yet passed on
  mapHeard,       \* per tab: moves on their way to it, in order
  mapFetch,       \* per tab: what it fetches on coming back
  mapOffline,
  mapLeft,        \* what is left of the bounds
  lastDrag,       \* where the drag saved last should have left its nodes
  mapCrossed      \* two changes of a node, or a change and a fetch, crossed

mapVars == <<mapDb, mapTab, mapSaves, mapWords, mapHeard, mapFetch, mapOffline,
             mapLeft, lastDrag, mapCrossed>>

MapNodes == {Root} \union MapAreas \union MapCards
Nodes(some) == DOMAIN some
NoNodes == [n \in {} |-> 0]
NotDragging == [node |-> Unset, start |-> NoNodes, by |-> 0]
NotFetching == [step |-> "none", read |-> NoNodes]

MapInit ==
  /\ mapDb = [n \in MapNodes |-> Unset]
  /\ mapTab = [t \in MapTabs |-> [data |-> mapDb, pending |-> mapDb, drag |-> NotDragging]]
  /\ mapSaves = {} /\ mapWords = {} /\ mapOffline = {}
  /\ mapHeard = [t \in MapTabs |-> << >>]
  /\ mapFetch = [t \in MapTabs |-> NotFetching]
  /\ mapLeft = [drags |-> MaxDrags, failures |-> MaxMapFailures, drops |-> MaxMapDrops]
  /\ lastDrag = NoNodes /\ mapCrossed = FALSE

MapSpends(what) == mapLeft[what] > 0 /\ mapLeft' = [mapLeft EXCEPT ![what] = @ - 1]

-----------------------------------------------------------------------------
(* Where things are drawn: a node's own place, or one a step off its parent.  *)
OwnOr(places, n, laid) == IF places[n] = Unset THEN laid ELSE places[n]

PlaceMap(places) ==
  LET root == OwnOr(places, Root, 0)
      area == [a \in MapAreas |-> OwnOr(places, a, root + 1)]
  IN [n \in MapNodes |-> CASE n = Root -> root
                           [] n \in MapAreas -> area[n]
                           [] OTHER -> OwnOr(places, n, area[CardArea[n]] + 1)]

(* What is pending lies on top; nothing is laid out from it.                  *)
OnTop(places, new) == [n \in MapNodes |-> OwnOr(new, n, places[n])]
Drawn(t) == OnTop(PlaceMap(mapTab[t].data), mapTab[t].pending)

ClampToMap(x) == IF x > MapLimit THEN MapLimit ELSE IF x < -MapLimit THEN -MapLimit ELSE x
Over(places, moved) == [n \in MapNodes |-> IF n \in Nodes(moved) THEN moved[n] ELSE places[n]]
Dropped(pending, moved) == [n \in MapNodes |-> IF n \in Nodes(moved) THEN Unset ELSE pending[n]]

(* An area takes its cards with it.                                           *)
Branch(n) == {n} \union {c \in MapCards : CardArea[c] = n}
SavesOf(t) == {r \in mapSaves : r.by = t}
Fetching(t) == mapFetch[t].step # "none"

(* Does something on its way already speak of these nodes?                    *)
Underway(nodes) ==
  \/ \E r \in mapSaves \union mapWords : Nodes(r.nodes) \intersect nodes # {}
  \/ \E t \in MapTabs : Fetching(t) \/ \E i \in DOMAIN mapHeard[t] : Nodes(mapHeard[t][i]) \intersect nodes # {}

-----------------------------------------------------------------------------
BeginDrag(t, n) ==
  /\ mapTab[t].drag = NotDragging /\ MapSpends("drags")
  /\ mapTab' = [mapTab EXCEPT ![t].drag =
                  [node |-> n, start |-> [m \in Branch(n) |-> Drawn(t)[m]], by |-> 0]]
  /\ mapCrossed' = (mapCrossed \/ SavesOf(t) # {} \/ Underway(Branch(n))
                      \/ \E s \in MapTabs \ {t} : Nodes(mapTab[s].drag.start) \intersect Branch(n) # {})
  /\ UNCHANGED <<mapDb, mapSaves, mapWords, mapHeard, mapFetch, mapOffline, lastDrag>>

(* Each move of the pointer counts from where the drag began.                 *)
MoveDrag(t, pull) ==
  LET drag == mapTab[t].drag
      to == [m \in Nodes(drag.start) |-> drag.start[m] + pull]
  IN /\ drag # NotDragging /\ drag.by # pull
     /\ mapTab' = [mapTab EXCEPT ![t].drag.by = pull, ![t].pending = Over(@, to)]
     /\ UNCHANGED <<mapDb, mapSaves, mapWords, mapHeard, mapFetch, mapOffline, mapLeft, lastDrag, mapCrossed>>

(* endDrag and save: what is pending of the branch goes out, the node first.  *)
(* Nodes with nothing pending are left out; with none at all nothing is sent. *)
EndDrag(t) ==
  LET drag == mapTab[t].drag
      sent == {m \in Nodes(drag.start) : mapTab[t].pending[m] # Unset}
      to == [m \in sent |-> ClampToMap(mapTab[t].pending[m])]
      order == SelectSeq(<<drag.node>>, LAMBDA m : m \in sent) \o SetToSeq(sent \ {drag.node})
  IN /\ drag # NotDragging
     /\ mapTab' = [mapTab EXCEPT ![t].drag = NotDragging]
     /\ IF drag.by = 0 THEN UNCHANGED <<mapSaves, lastDrag, mapCrossed>>
        ELSE /\ mapSaves' = IF sent = {} THEN mapSaves
                            ELSE mapSaves \union {[by |-> t, nodes |-> to, todo |-> order]}
             /\ lastDrag' = [m \in Nodes(drag.start) |-> ClampToMap(drag.start[m] + drag.by)]
             /\ mapCrossed' = (mapCrossed \/ Underway(sent))
     /\ UNCHANGED <<mapDb, mapWords, mapHeard, mapFetch, mapOffline, mapLeft>>

(* startPinch: two more fingers make it a pinch; the drag is dropped where it *)
(* was, unsaved, and stays on top of the board's data on this screen alone.   *)
PinchInstead(t) ==
  /\ mapTab[t].drag # NotDragging
  /\ mapTab' = [mapTab EXCEPT ![t].drag = NotDragging]
  /\ mapCrossed' = (mapCrossed \/ mapTab[t].drag.by # 0)
  /\ UNCHANGED <<mapDb, mapSaves, mapWords, mapHeard, mapFetch, mapOffline, mapLeft, lastDrag>>

(* mindmap POST: one UPDATE after the other.                                  *)
WriteNode(r) ==
  /\ r \in mapSaves /\ r.todo # << >>
  /\ mapDb' = [mapDb EXCEPT ![Head(r.todo)] = r.nodes[Head(r.todo)]]
  /\ mapSaves' = (mapSaves \ {r}) \union {[r EXCEPT !.todo = Tail(@)]}
  /\ UNCHANGED <<mapTab, mapWords, mapHeard, mapFetch, mapOffline, mapLeft, lastDrag, mapCrossed>>

(* A slip: the place stays pending.                                           *)
KeepPending(r) ==
  /\ r \in mapSaves /\ r.todo = << >>
  /\ mapTab' = [mapTab EXCEPT ![r.by].data = Over(@, r.nodes)]
  /\ mapSaves' = mapSaves \ {r}
  /\ mapWords' = mapWords \union {[by |-> r.by, nodes |-> r.nodes]}
  /\ UNCHANGED <<mapDb, mapHeard, mapFetch, mapOffline, mapLeft, lastDrag, mapCrossed>>

(* applyMoved, and the others are told.                                       *)
ApplyMoved(r) ==
  /\ r \in mapSaves /\ r.todo = << >>
  /\ mapTab' = [mapTab EXCEPT ![r.by].data = Over(@, r.nodes),
                              ![r.by].pending = Dropped(@, r.nodes)]
  /\ mapSaves' = mapSaves \ {r}
  /\ mapWords' = mapWords \union {[by |-> r.by, nodes |-> r.nodes]}
  /\ UNCHANGED <<mapDb, mapHeard, mapFetch, mapOffline, mapLeft, lastDrag, mapCrossed>>

(* Everything pending is let go of.  A request that failed between two rows   *)
(* has moved half a branch, and nobody is told.                               *)
SaveFails(r) ==
  /\ r \in mapSaves /\ r.todo # << >> /\ MapSpends("failures")
  /\ mapTab' = [mapTab EXCEPT ![r.by].pending = [n \in MapNodes |-> Unset]]
  /\ mapSaves' = mapSaves \ {r}
  /\ lastDrag' = NoNodes
  /\ mapCrossed' = (mapCrossed \/ Len(r.todo) < Cardinality(Nodes(r.nodes))
                      \/ mapTab[r.by].drag # NotDragging)
  /\ UNCHANGED <<mapDb, mapWords, mapHeard, mapFetch, mapOffline>>

-----------------------------------------------------------------------------
(* The relay's access check is answered; a tab without a connection holds     *)
(* back what it has to say and misses what is said.                           *)
RelayMove(w) ==
  /\ w \in mapWords /\ w.by \notin mapOffline
  /\ mapWords' = mapWords \ {w}
  /\ mapHeard' = [t \in MapTabs |-> IF t = w.by \/ t \in mapOffline THEN mapHeard[t]
                                    ELSE Append(mapHeard[t], w.nodes)]
  /\ UNCHANGED <<mapDb, mapTab, mapSaves, mapFetch, mapOffline, mapLeft, lastDrag, mapCrossed>>

(* Written into the board's data; what is pending here stays on top of it.    *)
ApplyMapNodes(t) ==
  /\ mapHeard[t] # << >>
  /\ mapTab' = [mapTab EXCEPT ![t].data = Over(@, Head(mapHeard[t]))]
  /\ mapHeard' = [mapHeard EXCEPT ![t] = Tail(@)]
  /\ UNCHANGED <<mapDb, mapSaves, mapWords, mapFetch, mapOffline, mapLeft, lastDrag, mapCrossed>>

LoseMap(t) ==
  /\ t \notin mapOffline /\ ~Fetching(t) /\ MapSpends("drops")
  /\ mapOffline' = mapOffline \union {t}
  /\ mapHeard' = [mapHeard EXCEPT ![t] = << >>]
  /\ UNCHANGED <<mapDb, mapTab, mapSaves, mapWords, mapFetch, lastDrag, mapCrossed>>

(* Back in the room, the tab reads the board, its areas and its cards.        *)
ReturnToMap(t) ==
  /\ t \in mapOffline
  /\ mapOffline' = mapOffline \ {t}
  /\ mapFetch' = [mapFetch EXCEPT ![t].step = "asked"]
  /\ mapCrossed' = (mapCrossed \/ mapSaves # {})
  /\ UNCHANGED <<mapDb, mapTab, mapSaves, mapWords, mapHeard, mapLeft, lastDrag>>

ReadMap(t) ==
  /\ mapFetch[t].step = "asked"
  /\ mapFetch' = [mapFetch EXCEPT ![t] = [step |-> "read", read |-> mapDb]]
  /\ UNCHANGED <<mapDb, mapTab, mapSaves, mapWords, mapHeard, mapOffline, mapLeft, lastDrag, mapCrossed>>

CaughtUp(t) ==
  /\ mapFetch[t].step = "read"
  /\ mapTab' = [mapTab EXCEPT ![t].data = mapFetch[t].read]
  /\ mapFetch' = [mapFetch EXCEPT ![t] = NotFetching]
  /\ UNCHANGED <<mapDb, mapSaves, mapWords, mapHeard, mapOffline, mapLeft, lastDrag, mapCrossed>>

MapNext ==
  \/ \E t \in MapTabs :
       \/ \E n \in MapNodes : BeginDrag(t, n)
       \/ \E pull \in Pulls : MoveDrag(t, pull)
       \/ EndDrag(t) \/ PinchInstead(t) \/ ApplyMapNodes(t)
       \/ LoseMap(t) \/ ReturnToMap(t) \/ ReadMap(t) \/ CaughtUp(t)
  \/ \E r \in mapSaves : WriteNode(r) \/ ApplyMoved(r) \/ SaveFails(r)
  \/ \E w \in mapWords : RelayMove(w)

MapSpec == MapInit /\ [][MapNext]_mapVars

-----------------------------------------------------------------------------
(* Properties *)

MapQuiet ==
  /\ mapSaves = {} /\ mapWords = {} /\ mapOffline = {}
  /\ \A t \in MapTabs : mapHeard[t] = << >> /\ ~Fetching(t) /\ mapTab[t].drag = NotDragging

(* "what everybody sees is arranged the same" (MindMap.client.vue:178): when   *)
(* nothing is on its way every screen draws the map as it is saved, although  *)
(* people drag different branches at once, lose their connections and have    *)
(* drags refused, as long as nobody drags what is still being saved, or gives  *)
(* a drag up for a pinch.                                                     *)
SeenTheSame == \A t \in MapTabs : Drawn(t) = PlaceMap(mapDb)

(* "a branch moves as a branch": all that the last drag took along has been   *)
(* moved by as much as the pointer, but for the edge of the map.              *)
BranchMovedWhole == \A n \in Nodes(lastDrag) : mapDb[n] = lastDrag[n]

MapSettles == (MapQuiet /\ ~mapCrossed) => SeenTheSame /\ BranchMovedWhole

(* The same of every drag that was ended, also one begun while the one before *)
(* was being saved: it does not hold (README).                                *)
DropIsKept == (MapQuiet /\ mapLeft.failures = MaxMapFailures /\ Cardinality(MapTabs) = 1) => BranchMovedWhole
=============================================================================
