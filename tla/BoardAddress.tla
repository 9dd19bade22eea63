------------------------------ MODULE BoardAddress -----------------------------
(* What a board page shows and what its address says (pages/board/[id].vue):  *)
(* the open card, the comment it was opened at and the filter.  They are kept *)
(* in step by watchers in both directions.  A navigation takes time, because  *)
(* the middleware asks for the session on each one, and the latest one wins;  *)
(* a dialog that closes keeps its card until its animation is over.           *)

EXTENDS Naturals

CONSTANTS
  PageCards,      \* cards an address may name
  Missing,        \* those of them that are not on the board
  PageComments,   \* comments an address may name
  Filters,        \* what the board can be narrowed to
  FilterTexts,    \* what an address may say of that, with what is not recognised
  ReadText,       \* filterFromQuery
  WriteText,      \* filterToQuery
  Unnamed,        \* no card, no comment, no navigation
  MaxVisits, MaxPicks, MaxFilterings, MaxFresh   \* bounds

Addresses ==
  {a \in [card : PageCards \union {Unnamed}, comment : PageComments \union {Unnamed}, text : FilterTexts] :
     a.comment # Unnamed => a.card # Unnamed}

ASSUME AddressAssumption ==
  /\ Missing \subseteq PageCards /\ Unnamed \notin PageCards \union PageComments \union Addresses
  /\ ReadText \in [FilterTexts -> Filters] /\ WriteText \in [Filters -> FilterTexts]
  /\ \A f \in Filters : ReadText[WriteText[f]] = f

VARIABLES
  address,        \* route.query
  going,          \* where the latest navigation leads, while it is under way
  display,           \* what the page shows
  overtaken,      \* something was done while a navigation was under way
  addressLeft     \* what is left of the bounds

addressVars == <<address, going, display, overtaken, addressLeft>>

Rest(a) == [a EXCEPT !.card = Unnamed, !.comment = Unnamed]
WithFilter(a, f) == [a EXCEPT !.text = WriteText[f]]

(* A navigation to where one is already is over at once; it ends the one      *)
(* under way all the same.                                                    *)
Towards(from, a) == IF a = from THEN Unnamed ELSE a

(* The page is set up from its address.  A card that is not on the board is   *)
(* cleared once the page is mounted.                                          *)
AddressInit ==
  /\ address \in Addresses /\ overtaken = FALSE
  /\ LET there == address.card # Unnamed /\ address.card \notin Missing
         gone  == address.card \in Missing
     IN /\ display = [card |-> IF there THEN address.card ELSE Unnamed, open |-> there, closing |-> gone,
                   highlight |-> IF gone THEN Unnamed ELSE address.comment,
                   filter |-> ReadText[address.text], fresh |-> Unnamed]
        /\ going = IF gone THEN Rest(address) ELSE Unnamed
  /\ addressLeft = [visits |-> MaxVisits, picks |-> MaxPicks, filterings |-> MaxFilterings, fresh |-> MaxFresh]

AddressSpends(what) == addressLeft[what] > 0 /\ addressLeft' = [addressLeft EXCEPT ![what] = @ - 1]
Overtakes == overtaken' = (overtaken \/ going # Unnamed)

-----------------------------------------------------------------------------
(* The watchers on cardModal and cardModalOpen.                               *)
Opened(p, c) == [p EXCEPT !.card = c, !.open = TRUE, !.closing = FALSE]
Closing(p) == [p EXCEPT !.open = FALSE, !.closing = TRUE]
WithoutCard(p) == [p EXCEPT !.card = Unnamed, !.highlight = Unnamed,
                        !.fresh = IF @ = p.card THEN Unnamed ELSE @]

(* A tile is clicked.  One whose card is still closing does nothing.          *)
PickCard(c) ==
  /\ c \notin Missing /\ c # display.card /\ ~display.open /\ AddressSpends("picks")
  /\ display' = Opened(display, c)
  /\ going' = Towards(address, [address EXCEPT !.card = c])
  /\ Overtakes
  /\ UNCHANGED address

(* handleLocalCardCreated: the next time this card is opened, it is edited.   *)
MakeCard(c) ==
  /\ c \notin Missing /\ ~display.open /\ AddressSpends("fresh")
  /\ display' = [display EXCEPT !.fresh = c]
  /\ UNCHANGED <<address, going, overtaken>>

CloseDialog ==
  /\ display.open
  /\ display' = Closing(display)
  /\ UNCHANGED <<address, going, overtaken, addressLeft>>

(* The animation is over.                                                     *)
LetGo ==
  /\ display.closing
  /\ LET done == [display EXCEPT !.closing = FALSE]
     IN IF display.card = Unnamed
          THEN display' = done /\ UNCHANGED <<going, overtaken>>
          ELSE /\ display' = WithoutCard(done)
               /\ going' = Towards(address, Rest(address))
               /\ Overtakes
  /\ UNCHANGED <<address, addressLeft>>

(* BoardFilter: another choice; the address is replaced if it says otherwise. *)
Narrow(f) ==
  /\ f # display.filter /\ AddressSpends("filterings")
  /\ display' = [display EXCEPT !.filter = f]
  /\ going' = IF WithFilter(address, f) = address THEN going ELSE WithFilter(address, f)
  /\ Overtakes
  /\ UNCHANGED address

(* Back, Forward, or a link to this board: a notification, a search hit.      *)
Visit(a) ==
  /\ AddressSpends("visits")
  /\ going' = Towards(address, a)
  /\ Overtakes
  /\ UNCHANGED <<address, display>>

-----------------------------------------------------------------------------
(* The watchers on the address, in their order: the filter, the comment.      *)
Followed(p, a) ==
  [p EXCEPT !.filter = ReadText[a.text],
            !.highlight = IF a.comment # address.comment THEN a.comment ELSE @]

(* An address that says the new filter in other words is put right.           *)
Reworded(a) ==
  IF ReadText[a.text] = display.filter THEN Unnamed ELSE Towards(a, WithFilter(a, ReadText[a.text]))

(* A slip: a card that leaves the address is dropped at once, whether its     *)
(* dialog is open or not.                                                     *)
ShowAddressAtOnce(a) ==
  LET p == Followed(display, a)
  IN CASE a.card = display.card -> display' = p /\ going' = Reworded(a)
       [] a.card # display.card /\ a.card # Unnamed -> display' = Opened(p, a.card) /\ going' = Unnamed
       [] OTHER -> display' = WithoutCard(p) /\ going' = Unnamed

(* And the card: one that leaves the address is closed the way its dialog's   *)
(* button does; writing the card it already names ends the rewording.         *)
ShowAddress(a) ==
  LET p == Followed(display, a)
  IN CASE a.card = display.card -> display' = p /\ going' = Reworded(a)
       [] a.card # display.card /\ a.card # Unnamed -> display' = Opened(p, a.card) /\ going' = Unnamed
       [] a.card # display.card /\ a.card = Unnamed /\ display.open -> display' = Closing(p) /\ going' = Reworded(a)
       [] OTHER -> display' = WithoutCard(p) /\ going' = Unnamed

Arrive ==
  /\ going # Unnamed
  /\ address' = going
  /\ ShowAddress(going)
  /\ UNCHANGED <<overtaken, addressLeft>>

AddressNext ==
  \/ \E c \in PageCards : PickCard(c) \/ MakeCard(c)
  \/ CloseDialog \/ LetGo \/ Arrive
  \/ \E f \in Filters : Narrow(f)
  \/ \E a \in Addresses : Visit(a)

AddressSpec == AddressInit /\ [][AddressNext]_addressVars

-----------------------------------------------------------------------------
(* Properties *)

AddressTypeOK ==
  /\ address \in Addresses /\ going \in Addresses \union {Unnamed} /\ overtaken \in BOOLEAN
  /\ display \in [card : PageCards \union {Unnamed}, open : BOOLEAN, closing : BOOLEAN,
               highlight : PageComments \union {Unnamed}, filter : Filters,
               fresh : PageCards \union {Unnamed}]

Agrees ==
  /\ address.card = display.card /\ display.open = (display.card # Unnamed)
  /\ ReadText[address.text] = display.filter
  /\ address.comment = display.highlight

AddressQuiet == going = Unnamed /\ ~display.closing

(* "The filter and the address follow each other" ([id].vue:761), and so do    *)
(* the card and the address: once the page rests, a copied address shows what *)
(* it shows, and no dialog is left over the board without its card; whatever  *)
(* order of tiles, closings, Backs and links led there, as long as each       *)
(* navigation was over before the next thing was done.                        *)
AddressAgrees == (AddressQuiet /\ ~overtaken) => Agrees

(* Without that restriction it does not hold (README): what is done while a   *)
(* navigation is under way starts from the address before it.                 *)
AlwaysAgrees == AddressQuiet => Agrees

(* "the modal would open empty" (:1732): an open dialog has a card of the     *)
(* board.  It does not hold (README): only the first address is checked.      *)
NoEmptyBox == display.open => display.card \notin Missing \union {Unnamed}
=============================================================================
