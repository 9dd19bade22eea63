---------------------------------- MODULE Bell ---------------------------------
(* One person's notifications and the bell that lists them, a page at a time  *)
(* from the newest: each further page goes on from the oldest row in hand.    *)
(* Opening a card or a board marks what is about it read and has the bell     *)
(* read its first page again; nothing pushes a new notification to it.        *)

EXTENDS Naturals, FiniteSets, Sequences, SequencesExt

CONSTANTS
  PageSize,
  BellCards,
  TheBoard,         \* a notification about the board itself
  BellCalls,      \* requests that may be under way at a time
  MaxNotified,    \* bound: notifications ever made
  MaxBellActs     \* bound: what the person does

ASSUME BellAssumption == PageSize \in Nat \ {0} /\ TheBoard \notin BellCards

VARIABLES
  noticed,          \* `notifications`, by id: second made, card, read, there
  bell,           \* the bell's shared state
  bellCall,
  bellActs,
  staleDot,       \* something was made, read or deleted since the last page asked for
  bellCrossed     \* two answers of the bell crossed, or the row to go on from was deleted

bellVars == <<noticed, bell, bellCall, bellActs, staleDot, bellCrossed>>

NoBellCall == [kind |-> "none", step |-> "idle", about |-> TheBoard, from |-> 0,
               page |-> << >>, more |-> FALSE, unread |-> 0]

(* What there was when the person signed in.                                  *)
BellInit(made) ==
  /\ noticed = made
  /\ bell = [list |-> << >>, unread |-> 0, hasMore |-> FALSE, loadingMore |-> FALSE]
  /\ bellCall = [p \in BellCalls |-> NoBellCall]
  /\ bellActs = MaxBellActs
  /\ staleDot = (made # << >>) /\ bellCrossed = FALSE

Rows == {n \in DOMAIN noticed : noticed[n].there}
Unread == {n \in Rows : ~noticed[n].read}
Older(m, n) == noticed[m].at < noticed[n].at \/ (noticed[m].at = noticed[n].at /\ m < n)
(* ORDER BY createdAt DESC, id DESC: a row's place is how many are newer.     *)
NewestNotes(set) ==
  [i \in 1..Cardinality(set) |-> CHOOSE n \in set : Cardinality({m \in set : Older(n, m)}) = i - 1]

(* A slip: the second alone decides, rows of the cursor's second are lost.    *)
BeforeSecond(cursor) ==
  IF cursor \in Rows THEN {n \in Rows : noticed[n].at < noticed[cursor].at} ELSE Rows

(* Rows older than the cursor's; a cursor whose row is gone is no condition.  *)
Before(cursor) == IF cursor \in Rows THEN {n \in Rows : Older(n, cursor)} ELSE Rows
ReadsBell(q) == bellCall[q].kind \in {"refresh", "more"}
FirstOf(seq, k) == SubSeq(seq, 1, IF Len(seq) < k THEN Len(seq) ELSE k)

-----------------------------------------------------------------------------
(* Made by other requests; ids and seconds grow together.                     *)
Notice(card) ==
  /\ Len(noticed) < MaxNotified
  /\ \E second \in 1..MaxNotified :
       /\ second - (IF noticed = << >> THEN 1 ELSE Last(noticed).at) \in {0, 1}
       /\ noticed' = Append(noticed, [at |-> second, card |-> card, read |-> FALSE, there |-> TRUE])
  /\ staleDot' = TRUE
  /\ UNCHANGED <<bell, bellCall, bellActs, bellCrossed>>

(* The card, or the board, is destroyed: its notifications go with it.        *)
Forget(card) ==
  /\ bellActs > 0 /\ bellActs' = bellActs - 1
  /\ \E n \in Rows : noticed[n].card = card
  /\ noticed' = [n \in DOMAIN noticed |-> [noticed[n] EXCEPT !.there = @ /\ noticed[n].card # card]]
  /\ staleDot' = TRUE
  /\ bellCrossed' = (bellCrossed \/ (\E q \in BellCalls : ReadsBell(q))
                       \/ (bell.list # << >> /\ noticed[Last(bell.list)].card = card))
  /\ UNCHANGED <<bell, bellCall>>

-----------------------------------------------------------------------------
Asking(p, kind, from) ==
  /\ bellCrossed' = (bellCrossed \/ \E q \in BellCalls \ {p} : ReadsBell(q))
  /\ bellCall' = [bellCall EXCEPT ![p] = [NoBellCall EXCEPT !.kind = kind, !.step = "rows", !.from = from]]

(* Opening the bell, or the page: the first page is read again.               *)
Refresh(p) ==
  /\ bellCall[p].step = "idle"
  /\ bellActs > 0 /\ bellActs' = bellActs - 1
  /\ Asking(p, "refresh", 0)
  /\ staleDot' = FALSE
  /\ UNCHANGED <<noticed, bell>>

(* markCardRead, markBoardRead: the PATCH, and once it is answered a refresh. *)
OpenAbout(p, card) ==
  /\ bellCall[p].step = "idle"
  /\ bellActs > 0 /\ bellActs' = bellActs - 1
  /\ bellCall' = [bellCall EXCEPT ![p] = [NoBellCall EXCEPT !.kind = "open", !.step = "patch", !.about = card]]
  /\ UNCHANGED <<noticed, bell, staleDot, bellCrossed>>

MarkRead(p) ==
  /\ bellCall[p].step = "patch"
  /\ noticed' = [n \in DOMAIN noticed |->
                 [noticed[n] EXCEPT !.read = @ \/ (noticed[n].there /\ noticed[n].card = bellCall[p].about)]]
  /\ bellCall' = [bellCall EXCEPT ![p].step = "patched"]
  /\ staleDot' = TRUE
  /\ UNCHANGED <<bell, bellActs, bellCrossed>>

RefreshAfter(p) ==
  /\ bellCall[p].step = "patched"
  /\ Asking(p, "refresh", 0)
  /\ staleDot' = FALSE
  /\ UNCHANGED <<noticed, bell, bellActs>>

LoadMore(p) ==
  /\ bellCall[p].step = "idle"
  /\ bell.hasMore /\ ~bell.loadingMore /\ bell.list # << >>
  /\ bell' = [bell EXCEPT !.loadingMore = TRUE]
  /\ Asking(p, "more", Last(bell.list))
  /\ UNCHANGED <<noticed, bellActs, staleDot>>

(* One row more than the page is read: whether it came back says if there is  *)
(* anything older.                                                            *)
ReadRows(p) ==
  /\ bellCall[p].step = "rows"
  /\ LET found == NewestNotes(IF bellCall[p].kind = "more" THEN Before(bellCall[p].from) ELSE Rows)
     IN bellCall' = [bellCall EXCEPT ![p] =
          [@ EXCEPT !.page = FirstOf(found, PageSize), !.more = Len(found) > PageSize, !.step = "count"]]
  /\ UNCHANGED <<noticed, bell, bellActs, staleDot, bellCrossed>>

CountUnread(p) ==
  /\ bellCall[p].step = "count"
  /\ bellCall' = [bellCall EXCEPT ![p] = [@ EXCEPT !.unread = Cardinality(Unread), !.step = "answer"]]
  /\ UNCHANGED <<noticed, bell, bellActs, staleDot, bellCrossed>>

BellAnswered(p) ==
  LET got == bellCall[p]
  IN /\ got.step = "answer"
     /\ bell' = IF got.kind = "refresh"
                THEN [bell EXCEPT !.list = got.page, !.hasMore = got.more, !.unread = got.unread]
                ELSE [list |-> bell.list \o NewestNotes(ToSet(got.page) \ ToSet(bell.list)),
                      hasMore |-> got.more, unread |-> got.unread, loadingMore |-> FALSE]
     /\ bellCall' = [bellCall EXCEPT ![p] = NoBellCall]
     /\ UNCHANGED <<noticed, bellActs, staleDot, bellCrossed>>

BellFails(p) ==
  /\ ReadsBell(p)
  /\ bell' = [bell EXCEPT !.loadingMore = @ /\ bellCall[p].kind # "more"]
  /\ bellCall' = [bellCall EXCEPT ![p] = NoBellCall]
  /\ staleDot' = TRUE
  /\ UNCHANGED <<noticed, bellActs, bellCrossed>>

BellNext ==
  \/ \E card \in BellCards \union {TheBoard} : Notice(card) \/ Forget(card)
  \/ \E p \in BellCalls :
       \/ Refresh(p) \/ MarkRead(p) \/ RefreshAfter(p) \/ LoadMore(p)
       \/ \E card \in BellCards \union {TheBoard} : OpenAbout(p, card)
       \/ ReadRows(p) \/ CountUnread(p) \/ BellAnswered(p) \/ BellFails(p)

-----------------------------------------------------------------------------
(* However many arrive or are deleted while somebody reads back page by page, *)
(* the bell lists every notification from its newest row down to its oldest,  *)
(* and offers more whenever there is an older one; unless a page came in      *)
(* between another's question and answer, or the row to go on from was        *)
(* deleted (loadMore, notifications GET).                                     *)
BellHasNoGap ==
  (~bellCrossed /\ bell.list # << >>) =>
    LET newest == Head(bell.list)  oldest == Last(bell.list)
        between == {n \in Rows : ~Older(newest, n) /\ ~Older(n, oldest)}
    IN /\ ToSet(bell.list) \intersect Rows = between
       /\ \A i, j \in DOMAIN bell.list : i < j => Older(bell.list[j], bell.list[i])
       /\ {n \in Rows : Older(n, oldest)} # {} => bell.hasMore

(* When the bell has read its rows since anything changed, its dot says how   *)
(* many are unread, those further down the list too (useNotifications,        *)
(* markCardRead, markBoardRead).                                              *)
DotIsRight ==
  (~staleDot /\ ~bellCrossed /\ \A p \in BellCalls : bellCall[p].step = "idle") =>
    bell.unread = Cardinality(Unread)

(* And then it offers more only if there is an older one: the one row read    *)
(* beyond the page.  (Older rows destroyed after that leave the offer.)       *)
OfferIsReal ==
  (~staleDot /\ ~bellCrossed /\ bell.hasMore /\ \A p \in BellCalls : ~ReadsBell(p)) =>
    bell.list # << >> /\ \E n \in Rows : Older(n, Last(bell.list))

(* Ids and seconds grow together, also of what there is at first.             *)
FirstRows ==
  {made \in Seq([at : Nat, card : BellCards \union {TheBoard}, read : BOOLEAN, there : BOOLEAN]) :
     \A m, n \in DOMAIN made : m < n => made[m].at <= made[n].at}

BellSpec == (\E made \in FirstRows : BellInit(made)) /\ [][BellNext]_bellVars

(* The list, the dot and the offer of more tell what is in the table.         *)
BellIsRight == BellHasNoGap /\ DotIsRight /\ OfferIsReal
=============================================================================
