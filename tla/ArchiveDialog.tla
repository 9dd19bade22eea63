----------------------------- MODULE ArchiveDialog -----------------------------
(* The archive of a board in its dialog (components/ArchiveModal.vue), over   *)
(* what api/data/archive.ts lists and brings back.  Requests are answered     *)
(* after a while; rows of the last opening stay until the list is read; what  *)
(* is to be destroyed is held between asking and confirming.                  *)

EXTENDS FiniteSets, Naturals

CONSTANTS
  ShelfColumns,   \* columns of the board
  ShelfCards,     \* its cards
  ShelfColumnOf,       \* the column each is in
  Nil,            \* nothing to confirm
  MaxOpenings, MaxShelfActs, MaxOthersActs   \* bounds

ASSUME ShelfAssumption ==
  /\ ShelfColumnOf \in [ShelfCards -> ShelfColumns] /\ ShelfCards \intersect ShelfColumns = {}
  /\ Nil \notin ShelfCards \union ShelfColumns

Rows == ShelfColumns \union ShelfCards

VARIABLES
  shelf,          \* per row: "shown", "archived" or "gone"
  box,            \* the dialog: is it open, is it reading, what it lists
  lists,          \* GETs under way
  wishes,         \* restores and purges under way
  confirming,     \* what is to be destroyed, and whether that is being asked
  confirmed,      \* what somebody agreed to destroy
  returned,       \* columns brought back since the list was read
  meddled,        \* the list was read while something was under way, or before
                  \* somebody else did something, or could not be read
  shelfLeft       \* what is left of the bounds

shelfVars == <<shelf, box, lists, wishes, confirming, confirmed, returned, meddled, shelfLeft>>

NothingAsked == [row |-> Nil, asking |-> FALSE]

(* archive GET: the columns put away, and the cards put away "in their own    *)
(* right" whose column is there.                                              *)
OnShelf == {r \in Rows : shelf[r] = "archived" /\ (r \in ShelfCards => shelf[ShelfColumnOf[r]] = "shown")}

ShelfInit ==
  /\ shelf \in [Rows -> {"shown", "archived"}]
  /\ box = [open |-> FALSE, reading |-> FALSE, rows |-> {}]
  /\ lists = {} /\ wishes = {} /\ confirming = NothingAsked /\ confirmed = {}
  /\ returned = {} /\ meddled = FALSE
  /\ shelfLeft = [openings |-> MaxOpenings, acts |-> MaxShelfActs, others |-> MaxOthersActs]

ShelfSpends(what) == shelfLeft[what] > 0 /\ shelfLeft' = [shelfLeft EXCEPT ![what] = @ - 1]

-----------------------------------------------------------------------------
OpenArchive ==
  /\ ~box.open /\ ShelfSpends("openings")
  /\ box' = [box EXCEPT !.open = TRUE, !.reading = TRUE]
  /\ lists' = lists \union {[no |-> shelfLeft.openings, read |-> FALSE, rows |-> {}]}
  /\ UNCHANGED <<shelf, wishes, confirming, confirmed, returned, meddled>>

CloseArchive ==
  /\ box.open /\ ~confirming.asking /\ box' = [box EXCEPT !.open = FALSE]
  /\ UNCHANGED <<shelf, lists, wishes, confirming, confirmed, returned, meddled, shelfLeft>>

ReadShelf(l) ==
  /\ ~l.read /\ lists' = (lists \ {l}) \union {[l EXCEPT !.read = TRUE, !.rows = OnShelf]}
  /\ returned' = {} /\ meddled' = (wishes # {} \/ confirming.asking \/ Cardinality(lists) > 1)
  /\ UNCHANGED <<shelf, box, wishes, confirming, confirmed, shelfLeft>>

(* load: what was read is listed.                                             *)
ListShelf(l) ==
  /\ l.read /\ lists' = lists \ {l}
  /\ box' = [box EXCEPT !.reading = FALSE, !.rows = l.rows]
  /\ UNCHANGED <<shelf, wishes, confirming, confirmed, returned, meddled, shelfLeft>>

(* One that fails leaves the rows of the opening before.                      *)
ListFails(l) ==
  /\ ShelfSpends("others") /\ lists' = lists \ {l}
  /\ box' = [box EXCEPT !.reading = FALSE] /\ meddled' = TRUE
  /\ UNCHANGED <<shelf, wishes, confirming, confirmed, returned>>

-----------------------------------------------------------------------------
Wish(what, r) ==
  /\ wishes' = wishes \union {[what |-> what, row |-> r, step |-> "asked"]}
  /\ meddled' = (meddled \/ lists # {})

RestoreRow(r) ==
  /\ box.open /\ ~confirming.asking /\ r \in box.rows /\ ShelfSpends("acts")
  /\ Wish("restore", r)
  /\ UNCHANGED <<shelf, box, lists, confirming, confirmed, returned>>

AskPurge(r) ==
  /\ box.open /\ ~confirming.asking /\ r \in box.rows /\ ShelfSpends("acts")
  /\ confirming' = [row |-> r, asking |-> TRUE] /\ meddled' = (meddled \/ lists # {})
  /\ UNCHANGED <<shelf, box, lists, wishes, confirmed, returned>>

CancelPurge ==
  /\ confirming.asking /\ confirming' = [confirming EXCEPT !.asking = FALSE]
  /\ UNCHANGED <<shelf, box, lists, wishes, confirmed, returned, meddled, shelfLeft>>

(* The dialog that asks closes at once.  It asked about the row that is held, *)
(* unless the answer to an earlier purge has let go of it.                    *)
ConfirmPurge ==
  /\ confirming.asking /\ confirming' = [confirming EXCEPT !.asking = FALSE]
  /\ confirmed' = confirmed \union {confirming.row}
  /\ IF confirming.row = Nil THEN UNCHANGED <<wishes, meddled>> ELSE Wish("purge", confirming.row)
  /\ UNCHANGED <<shelf, box, lists, returned, shelfLeft>>

-----------------------------------------------------------------------------
(* archive POST brings a card's column back with it; a purge takes a column's *)
(* cards with it (Archive has the statements).                                *)
Back(r) == {r} \union {ShelfColumnOf[c] : c \in {r} \intersect ShelfCards}
With(r) == {r} \union {c \in ShelfCards : ShelfColumnOf[c] = r}

Brought(r) == shelf' = [x \in Rows |-> IF x \in Back(r) /\ shelf[x] # "gone" THEN "shown" ELSE shelf[x]]
Purged(r) == shelf' = [x \in Rows |-> IF x \in With(r) THEN "gone" ELSE shelf[x]]

(* The request is served; a row that is gone is not found.                    *)
Serve(w) ==
  /\ w.step = "asked"
  /\ IF shelf[w.row] = "gone" THEN UNCHANGED <<shelf, returned>>
     ELSE IF w.what = "restore"
            THEN Brought(w.row) /\ returned' = returned \union (Back(w.row) \intersect ShelfColumns)
            ELSE Purged(w.row) /\ UNCHANGED returned
  /\ wishes' = (wishes \ {w}) \union {[w EXCEPT !.step = IF shelf[w.row] = "gone" THEN "refused" ELSE "done"]}
  /\ UNCHANGED <<box, lists, confirming, confirmed, meddled, shelfLeft>>

(* A slip: the rows stay.                                                     *)
LetRowStay(w) ==
  /\ w.step # "asked" /\ wishes' = wishes \ {w}
  /\ confirming' = IF w.what = "purge" THEN NothingAsked ELSE confirming
  /\ UNCHANGED <<shelf, box, lists, confirmed, returned, meddled, shelfLeft>>

(* drop, unless it was refused; the answer to a purge lets go of what is held *)
(* and closes the dialog that asks, whatever it asks about by now.            *)
LetRowGo(w) ==
  /\ w.step # "asked" /\ wishes' = wishes \ {w}
  /\ box' = IF w.step = "done" THEN [box EXCEPT !.rows = @ \ {w.row}] ELSE box
  /\ confirming' = IF w.what = "purge" THEN NothingAsked ELSE confirming
  /\ UNCHANGED <<shelf, lists, confirmed, returned, meddled, shelfLeft>>

(* Somebody else puts away, brings back or destroys.                          *)
OthersAct(r) ==
  /\ shelf[r] # "gone" /\ ShelfSpends("others") /\ meddled' = TRUE
  /\ \/ shelf[r] = "shown" /\ shelf' = [shelf EXCEPT ![r] = "archived"] /\ UNCHANGED confirmed
     \/ shelf[r] = "archived" /\ Brought(r) /\ UNCHANGED confirmed
     \/ shelf[r] = "archived" /\ Purged(r) /\ confirmed' = confirmed \union {r}
  /\ UNCHANGED <<box, lists, wishes, confirming, returned>>

ShelfNext ==
  \/ OpenArchive \/ CloseArchive \/ CancelPurge \/ ConfirmPurge
  \/ \E l \in lists : ReadShelf(l) \/ ListShelf(l) \/ ListFails(l)
  \/ \E r \in Rows : RestoreRow(r) \/ AskPurge(r) \/ OthersAct(r)
  \/ \E w \in wishes : Serve(w) \/ LetRowGo(w)

ShelfSpec == ShelfInit /\ [][ShelfNext]_shelfVars

-----------------------------------------------------------------------------
(* Properties *)

(* "Everything this board ... has put away, and the two things you can do     *)
(* with it" (ArchiveModal.vue:2).  The permanent delete "should take a        *)
(* deliberate visit": whatever is answered when, only what somebody agreed to *)
(* is destroyed, with what is in it.  And when nothing is under way and the   *)
(* list was read by itself, it lists what is on the shelf, but for the cards  *)
(* of a column that has been brought back since.                              *)
ShelfIsListed ==
  /\ \A r \in Rows : shelf[r] = "gone" => \E x \in confirmed \ {Nil} : r \in With(x)
  /\ (box.open /\ lists = {} /\ wishes = {} /\ ~meddled) =>
       /\ box.rows \subseteq OnShelf
       /\ \A r \in OnShelf \ box.rows : r \in ShelfCards /\ ShelfColumnOf[r] \in returned

(* Without that exception it does not hold (README): the cards that were put  *)
(* away before their column was are only listed when it is opened again.      *)
ShelfIsWhole == (box.open /\ lists = {} /\ wishes = {} /\ ~meddled) => box.rows = OnShelf
=============================================================================
