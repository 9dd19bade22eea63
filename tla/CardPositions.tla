---------------------------- MODULE CardPositions ----------------------------
(* Where cards go in a column (server/utils/cardPositions.ts and the calls    *)
(* that use it).  A column is the cards of one area ordered by `sort`, then   *)
(* id; every UPDATE is a statement of its own, so the handlers interleave     *)
(* between reading a column and each number they write back.  The calls:      *)
(*   create     card POST, createCard, repeatCard: ask for the number, INSERT *)
(*   put        cardOrder (from = to), cardMove and moveCard                  *)
(*   duplicate  card-duplicate: INSERT with the original's number, place it   *)
(*   archive, restore, destroy: one statement on the table each               *)

EXTENDS Integers, FiniteSets, Sequences, SequencesExt

CONSTANTS
  Areas,      \* columns of the board
  FirstCards, \* how many cards are on the board at the start
  FirstNumbers, \* the numbers they may have
  MaxCards,   \* bound: how many cards are ever made
  MaxRequests,\* bound: how many requests are ever started
  Indexes,    \* positions a drop may ask for; no position is one past the end
  PlaceCalls       \* request handlers running at the same time

ASSUME BoundsAssumption ==
  FirstCards \in Nat /\ MaxCards \in Nat /\ MaxRequests \in Nat /\ FirstCards <= MaxCards
ASSUME NumbersAssumption == FirstNumbers \subseteq 0..MaxCards
ASSUME IndexesAssumption == Indexes \subseteq Nat

VARIABLES
  row,        \* the rows of `cards`, by id: area, sort, archived
  lastId,     \* the AUTO_INCREMENT of the table
  requests,   \* how many requests have been started
  placing        \* what each handler is about to do

placeVars == <<row, lastId, requests, placing>>

Ids == 1..MaxCards
Row == [area : Areas, sort : Nat, archived : BOOLEAN]

Live == DOMAIN row

-----------------------------------------------------------------------------
(* The pure part *)

InColumn(a) == {c \in Live : row[c].area = a}

(* SELECT ... WHERE area = ? ORDER BY sort ASC, id ASC: a card's place is told *)
(* by how many come before it.                                                *)
Before(c, d) == \/ row[c].sort < row[d].sort
                \/ row[c].sort = row[d].sort /\ c < d

ReadColumn(a) ==
  LET cards == InColumn(a)
  IN [i \in 1..Cardinality(cards) |->
        CHOOSE c \in cards : Cardinality({d \in cards : Before(d, c)}) = i - 1]

Position(ids, c) == CHOOSE i \in DOMAIN ids : ids[i] = c

Without(ids, c) == IF Contains(ids, c) THEN RemoveAt(ids, Position(ids, c)) ELSE ids

Shown(cards) == {c \in cards : ~ row[c].archived}

ShownAbove(ids, c) == Shown({d \in ToSet(ids) : Position(ids, d) < Position(ids, c)})

(* Variants of a definition, each with one plausible slip, stand before it;   *)
(* the properties below are there to notice them.                             *)
(* Counts the archived cards, which the board does not show.                  *)
PlaceAmongAll(column, c, index) ==
  LET ids == Without(column, c)
  IN  IF index >= Len(ids) THEN Append(ids, c) ELSE InsertAt(ids, index + 1, c)

(* In front of the card the board shows at `index`, or at the bottom. *)
PlaceCard(column, c, index) ==
  LET ids   == Without(column, c)
      shown == Shown(ToSet(ids))
      next  == CHOOSE d \in shown : Cardinality(ShownAbove(ids, d)) = index
  IN  IF index >= Cardinality(shown)
        THEN Append(ids, c)
        ELSE InsertAt(ids, Position(ids, next), c)

PlaceCardBefore(column, c, after) ==
  LET ids == Without(column, c) IN
  IF Contains(ids, after)
    THEN InsertAt(ids, Position(ids, after), c)
    ELSE Append(ids, c)

PlaceCardAfter(column, c, after) ==
  LET ids == Without(column, c) IN
  IF Contains(ids, after)
    THEN InsertAt(ids, Position(ids, after) + 1, c)
    ELSE Append(ids, c)

(* COALESCE(MAX(sort), -1) + 1, archived cards included. *)
NextCardSort(a) ==
  IF InColumn(a) = {} THEN 0
  ELSE 1 + (CHOOSE s \in {row[c].sort : c \in InColumn(a)} :
              \A c \in InColumn(a) : row[c].sort <= s)

(* What putCard answers: how many cards the board shows above c. *)
ShownIndex(order, c) == Cardinality(ShownAbove(order, c))

-----------------------------------------------------------------------------
(* A handler's state.  `copy` is the card a duplicate made, 0 otherwise,      *)
(* `order` what is still to write, `number` the number its next card gets.    *)
(* `was` is the column as it was read, without the card being placed, and    *)
(* `told` the position that will be reported; both are kept for as long as no *)
(* other handler has written anything since (`alone`).                        *)
NoPlacing == [step |-> "idle", card |-> 0, copy |-> 0, to |-> "-", from |-> "-", index |-> 0,
         order |-> <<>>, number |-> 0, alone |-> TRUE, was |-> <<>>, told |-> 0]

PlacingAt(p, s) == placing[p].step = s

(* The other handlers are no longer alone with what they read. *)
Disturb(q) == IF PlacingAt(q, "idle") THEN NoPlacing
              ELSE [placing[q] EXCEPT !.alone = FALSE, !.was = <<>>, !.told = 0]

(* A step of handler p that writes the table, and one that does not. *)
Write(p, state) == placing' = [q \in PlaceCalls |-> IF q = p THEN state ELSE Disturb(q)]
Read(p, state)  == placing' = [placing EXCEPT ![p] = state]

(* UPDATE cards SET ... WHERE id = ?: nothing when the card is gone. *)
Update(c, changed) == row' = IF c \in Live THEN [row EXCEPT ![c] = changed] ELSE row

Request == requests < MaxRequests /\ requests' = requests + 1
Continue == UNCHANGED requests

(* Any numbers at all: cards deleted for good leave gaps, two cards made at   *)
(* the same time get the same number, drops that cross leave what they leave. *)
PlaceInit ==
  /\ row \in [1..FirstCards -> [area : Areas, sort : FirstNumbers, archived : BOOLEAN]]
  /\ lastId = FirstCards
  /\ requests = 0
  /\ placing = [p \in PlaceCalls |-> NoPlacing]

-----------------------------------------------------------------------------
(* A new card at the bottom of a column *)

AskNextSort(p, a) ==
  /\ Request
  /\ PlacingAt(p, "idle")
  /\ Read(p, [NoPlacing EXCEPT !.step = "insert", !.to = a, !.number = NextCardSort(a)])
  /\ UNCHANGED <<row, lastId>>

(* INSERT INTO cards: the next id, on the board. *)
NewRow(a, s) == [area |-> a, sort |-> s, archived |-> FALSE]
InsertRow(a, s) ==
  row' = [c \in Live \cup {lastId + 1} |-> IF c \in Live THEN row[c] ELSE NewRow(a, s)]

InsertNew(p) ==
  /\ Continue
  /\ PlacingAt(p, "insert")
  /\ lastId < MaxCards
  /\ InsertRow(placing[p].to, placing[p].number)
  /\ lastId' = lastId + 1
  /\ Write(p, NoPlacing)

-----------------------------------------------------------------------------
(* cardOrder, cardMove, moveCard *)

(* The card is where the request says it is; then access, then putCard. *)
StartPut(p, c, to, index) ==
  /\ Request
  /\ PlacingAt(p, "idle")
  /\ c \in Live
  /\ Read(p, [NoPlacing EXCEPT !.step = "read", !.card = c, !.from = row[c].area,
                          !.to = to, !.index = index])
  /\ UNCHANGED <<row, lastId>>

(* readColumn and placeCard. *)
ReadAndPlace(p) ==
  LET h      == placing[p]
      column == ReadColumn(h.to)
      order  == PlaceCard(column, h.card, h.index)
  IN
  /\ Continue
  /\ PlacingAt(p, "read")
  /\ Read(p, [h EXCEPT !.step = "area", !.order = order, !.alone = TRUE,
                       !.was = Without(column, h.card),
                       !.told = ShownIndex(order, h.card)])
  /\ UNCHANGED <<row, lastId>>

(* UPDATE cards SET area = ? WHERE id = ? *)
SetArea(p) ==
  LET h == placing[p] IN
  /\ Continue
  /\ PlacingAt(p, "area")
  /\ Update(h.card, [row[h.card] EXCEPT !.area = h.to])
  /\ Write(p, [h EXCEPT !.step = "write"])
  /\ UNCHANGED lastId

(* writeOrder: UPDATE cards SET sort = ? WHERE id = ?, one card at a time and *)
(* by id alone -- a card that has left the column meanwhile is numbered too.  *)
WriteOrder(p) ==
  LET h == placing[p] IN
  /\ Continue
  /\ PlacingAt(p, "write")
  /\ h.order # <<>>
  /\ Update(Head(h.order), [row[Head(h.order)] EXCEPT !.sort = h.number])
  /\ Write(p, [h EXCEPT !.order = Tail(h.order), !.number = h.number + 1])
  /\ UNCHANGED lastId

(* The column the card came from is numbered again, in the order it has. *)
RenumberSource(p) ==
  LET h      == placing[p]
      column == ReadColumn(h.from)
  IN
  /\ Continue
  /\ PlacingAt(p, "write")
  /\ h.order = <<>>
  /\ h.from # h.to
  /\ Read(p, [NoPlacing EXCEPT !.step = "write", !.from = h.from, !.to = h.from,
                          !.order = column, !.was = column])
  /\ UNCHANGED <<row, lastId>>

(* The rest of the handler tells people and boards, and answers. *)
Answer(p) ==
  /\ Continue
  /\ PlacingAt(p, "write")
  /\ placing[p].order = <<>>
  /\ placing[p].from = placing[p].to
  /\ Read(p, NoPlacing)
  /\ UNCHANGED <<row, lastId>>

-----------------------------------------------------------------------------
(* card-duplicate: the copy is inserted with the number of the original as it *)
(* was read, and then placed under it.                                        *)

StartDuplicate(p, c) ==
  /\ Request
  /\ PlacingAt(p, "idle")
  /\ c \in Live
  /\ Read(p, [NoPlacing EXCEPT !.step = "copy", !.card = c, !.to = row[c].area,
                          !.from = row[c].area, !.number = row[c].sort])
  /\ UNCHANGED <<row, lastId>>

InsertUnderOldId(p) ==
  LET h == placing[p] IN
  /\ Continue
  /\ PlacingAt(p, "copy")
  /\ lastId < MaxCards
  /\ InsertRow(h.to, h.number)
  /\ UNCHANGED lastId
  /\ Write(p, [h EXCEPT !.step = "place", !.copy = lastId + 1, !.number = 0])

InsertCopy(p) ==
  LET h == placing[p] IN
  /\ Continue
  /\ PlacingAt(p, "copy")
  /\ lastId < MaxCards
  /\ InsertRow(h.to, h.number)
  /\ lastId' = lastId + 1
  /\ Write(p, [h EXCEPT !.step = "place", !.copy = lastId + 1, !.number = 0])

(* putCardAfter(area, copy, original): the area of the copy is not touched. *)
PlaceCopy(p) ==
  LET h      == placing[p]
      column == ReadColumn(h.to)
  IN
  /\ Continue
  /\ PlacingAt(p, "place")
  /\ Read(p, [h EXCEPT !.step = "write", !.alone = TRUE,
                       !.order = PlaceCardAfter(column, h.copy, h.card),
                       !.was = Without(column, h.copy)])
  /\ UNCHANGED <<row, lastId>>

-----------------------------------------------------------------------------
(* The archive: a card keeps its number while it is off the board. *)

SetArchived(c, archived) ==
  /\ Request
  /\ c \in Live
  /\ row[c].archived # archived
  /\ row' = [row EXCEPT ![c].archived = archived]
  /\ placing' = [q \in PlaceCalls |-> Disturb(q)]
  /\ UNCHANGED lastId

(* Deleted for good, by hand or by the retention clean-up: leaves a gap. *)
Destroy(c) ==
  /\ Request
  /\ c \in Live
  /\ row' = [d \in Live \ {c} |-> row[d]]
  /\ placing' = [q \in PlaceCalls |-> Disturb(q)]
  /\ UNCHANGED lastId

(* A handler dies between two statements. *)
PlacingDies(p) ==
  /\ Continue
  /\ ~ PlacingAt(p, "idle")
  /\ Read(p, NoPlacing)
  /\ UNCHANGED <<row, lastId>>

PlaceNext ==
  \/ \E p \in PlaceCalls :
       \/ InsertNew(p) \/ ReadAndPlace(p) \/ SetArea(p) \/ WriteOrder(p)
       \/ RenumberSource(p) \/ Answer(p) \/ InsertCopy(p) \/ PlaceCopy(p) \/ PlacingDies(p)
       \/ \E a \in Areas : AskNextSort(p, a)
       \/ \E c \in Live : StartDuplicate(p, c)
       \/ \E c \in Live, to \in Areas, i \in Indexes : StartPut(p, c, to, i)
  \/ \E c \in Live : Destroy(c)
  \/ \E c \in Live, archived \in BOOLEAN : SetArchived(c, archived)

PlaceSpec == PlaceInit /\ [][PlaceNext]_placeVars

-----------------------------------------------------------------------------
(* Ids are given out in order and stay in range; numbers stay small, because  *)
(* every column that is written is numbered from 0 again.                     *)
PlaceTypeOK ==
  /\ lastId \in 0..MaxCards
  /\ Live \subseteq 1..lastId
  /\ \A c \in Live : row[c] \in Row /\ row[c].sort <= 2 * MaxCards
  /\ \A p \in PlaceCalls : placing[p].order \in Seq(Ids) /\ placing[p].number \in 0..(2 * MaxCards)

(* A handler that has written its last number with nobody in between. *)
Placed(p) == PlacingAt(p, "write") /\ placing[p].order = <<>> /\ placing[p].alone

Tidy(a) == LET column == ReadColumn(a) IN
  \A i \in DOMAIN column : row[column[i]].sort = i - 1

(* A card that nobody else interfered with ends at the position the board     *)
(* counted, the answer names that position, every other card of the column,   *)
(* archived ones included, keeps its place relative to the rest, and the      *)
(* column is numbered 0, 1, 2.                                                *)
DropLands ==
  \A p \in PlaceCalls :
    LET h      == placing[p]
        column == ReadColumn(h.to)
        shown  == Cardinality(Shown(ToSet(column)))
    IN
    Placed(p) /\ h.copy = 0 /\ h.card \in Live =>
      /\ Without(column, h.card) = h.was
      /\ Tidy(h.to)
      /\ h.told = ShownIndex(column, h.card)
      /\ ~ row[h.card].archived =>
           h.told = IF h.index >= shown THEN shown - 1 ELSE h.index

(* card-duplicate.ts:120-124: the copy belongs directly under the original,   *)
(* also when a third card has the original's number; nobody else changes      *)
(* places.                                                                    *)
CopyLands ==
  \A p \in PlaceCalls :
    LET h      == placing[p]
        column == ReadColumn(h.to)
    IN
    Placed(p) /\ h.copy \in InColumn(h.to) =>
      /\ Without(column, h.copy) = h.was
      /\ h.card \in InColumn(h.to) =>
           Position(column, h.copy) = Position(column, h.card) + 1

(* cardPositions.ts:129: numbering the column a card has left changes nobody's *)
(* place in it.                                                               *)
RenumberKeepsOrder ==
  \A p \in PlaceCalls :
    Placed(p) /\ placing[p].card = 0 =>
      ReadColumn(placing[p].to) = placing[p].was /\ Tidy(placing[p].to)

(* cardPositions.ts:10-17 and 24-29.  Whatever gaps, equal numbers and numbers *)
(* of archived cards earlier calls left behind, a dropped card is where it was *)
(* dropped, a copy is under its original, and the column it left is as it was. *)
LandsWhereAsked == DropLands /\ CopyLands /\ RenumberKeepsOrder
=============================================================================
