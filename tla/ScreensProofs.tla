----------------------------- MODULE ScreensProofs -----------------------------
(* Theorems about one screen, its requests and their answers, which come in   *)
(* any order: the search of the header (Search), the archive's dialog         *)
(* (ArchiveDialog), the board's address (BoardAddress); and about several     *)
(* screens: a card open on them (OpenCard), and the faces they show of each   *)
(* other (Presence).                                                          *)
EXTENDS Search, ArchiveDialog, BoardAddress, OpenCard, Presence, FiniteSetTheorems, TLAPS

AllGroups == {Groups[i] : i \in DOMAIN Groups}
Looked(n) == {Groups[i] : i \in 1..(n - 1)}

FieldState ==
  [term : Terms, pause : Terms, latest : Nat, loading : BOOLEAN, results : SUBSET AllGroups, query : Terms]
Question == [no : Nat, term : Terms, next : 1..5, found : SUBSET AllGroups]

SearchTypeOK ==
  /\ field \in FieldState
  /\ asked \subseteq Question
  /\ searchBehind \in BOOLEAN

(* A question is known by its number, and none is newer than the latest.      *)
NumberedOnce ==
  /\ \A r \in asked : r.no <= field.latest
  /\ \A r, s \in asked : r.no = s.no => r = s

(* What the pause will ask for is what is in the field, and long enough.      *)
PauseIsTyped == Waiting(field) => field.pause = field.term /\ field.term \notin ShortTerms

(* The latest question is about the field's term, and has found what there is *)
(* to find in the groups it has looked at, if nothing has changed.            *)
LatestIsRight ==
  \A r \in asked : r.no = field.latest =>
    /\ (~Waiting(field) /\ field.term \notin ShortTerms) => r.term = field.term
    /\ ~searchBehind => r.found = Found(r.term, Looked(r.next))

(* What is in the field is about to be asked, has been asked, or is answered. *)
AskedOrShown ==
  (~searchBehind /\ ~Waiting(field) /\ field.term \notin ShortTerms) =>
    \/ \E r \in asked : r.no = field.latest
    \/ /\ field.results = Found(field.term, AllGroups)
       /\ field.query = field.term /\ ~field.loading

SearchInv == SearchTypeOK /\ NumberedOnce /\ PauseIsTyped /\ LatestIsRight /\ AskedOrShown

-----------------------------------------------------------------------------
(* Looking at the next group adds what is in it.                              *)
LEMMA LookedGrows ==
  /\ Looked(1) = {} /\ Looked(5) = AllGroups
  /\ \A n \in 1..4 : Groups[n] \in AllGroups /\ Looked(n + 1) = Looked(n) \union {Groups[n]}
  /\ Len(Groups) = 4
<1>1. DOMAIN Groups = 1..4 /\ Len(Groups) = 4
  BY DEF Groups
<1>2. Looked(1) = {}
  BY DEF Looked
<1>3. Looked(5) = AllGroups
  BY <1>1 DEF Looked, AllGroups
<1>4. ASSUME NEW n \in 1..4
      PROVE  Groups[n] \in AllGroups /\ Looked(n + 1) = Looked(n) \union {Groups[n]}
  <2>1. 1..((n + 1) - 1) = (1..(n - 1)) \union {n}
    OBVIOUS
  <2>2. QED
    BY <1>1, <2>1 DEF Looked, AllGroups
<1>5. QED
  BY <1>1, <1>2, <1>3, <1>4

LEMMA FoundGrows ==
  ASSUME NEW w, NEW A, NEW B
  PROVE  Found(w, A \union B) = Found(w, A) \union Found(w, B)
BY DEF Found

MovedOn(r, n, f) == [r EXCEPT !.next = n, !.found = f]
LEMMA QuestionMoves ==
  ASSUME NEW r \in Question, NEW n \in 1..5, NEW f, f \subseteq AllGroups, NEW q, q = MovedOn(r, n, f)
  PROVE  q \in Question /\ q.no = r.no /\ q.term = r.term /\ q.next = n /\ q.found = f
BY DEF Question, MovedOn

Asking(f, p, n) == [f EXCEPT !.pause = p, !.latest = n]
LEMMA FieldAsks ==
  ASSUME NEW f \in FieldState, NEW p \in Terms, NEW n \in Nat, NEW g, g = Asking(f, p, n)
  PROVE  /\ g \in FieldState /\ g.latest = n /\ g.term = f.term /\ g.pause = p
BY DEF FieldState, Asking

LEMMA SearchStarts == SearchInit => SearchInv
<1> SUFFICES ASSUME SearchInit PROVE SearchInv
  OBVIOUS
<1> USE SearchAssumption
<1>1. SearchTypeOK
  BY DEF SearchInit, SearchTypeOK, FieldState, NoHits
<1>2. QED
  BY <1>1 DEF SearchInit, SearchInv, NumberedOnce, PauseIsTyped, LatestIsRight, AskedOrShown, Waiting

(* Things change: what was found may be old.                                  *)
LEMMA SearchShelves ==
  ASSUME SearchInv, NEW x, ShelveOrRestore(x)
  PROVE  SearchInv'
BY DEF SearchInv, ShelveOrRestore, SearchTypeOK, NumberedOnce, PauseIsTyped, LatestIsRight,
       AskedOrShown, Waiting

(* What is long enough waits; what is short answers nothing.                  *)
LEMMA SearchTypes ==
  ASSUME SearchInv, NEW w \in Terms, TypeTerm(w)
  PROVE  SearchInv'
<1> USE SearchAssumption DEF SearchInv
<1>1. UNCHANGED <<shelved, asked, searchBehind>>
  BY DEF TypeTerm
<1>2. /\ field' \in FieldState /\ field'.latest = field.latest /\ field'.term = w
      /\ w \in ShortTerms => ~Waiting(field)'
      /\ w \notin ShortTerms => field'.pause = w /\ Waiting(field)'
  <2>1. CASE w \in ShortTerms
    <3> DEFINE cleared == [field EXCEPT !.term = w, !.pause = NoTerm, !.loading = FALSE,
                                        !.results = NoHits, !.query = NoTerm]
    <3>1. field' = cleared
      BY <2>1 DEF TypeTerm, Cleared, SearchTypeOK, FieldState
    <3>2. QED
      BY <2>1, <3>1 DEF SearchTypeOK, FieldState, NoHits, Waiting
  <2>2. CASE w \notin ShortTerms
    <3>1. field' = [field EXCEPT !.term = w, !.pause = w, !.loading = TRUE]
      BY <2>2 DEF TypeTerm, SearchTypeOK, FieldState
    <3>2. QED
      BY <2>2, <3>1 DEF SearchTypeOK, FieldState, Waiting
  <2>3. QED
    BY <2>1, <2>2
<1>3. SearchTypeOK'
  BY <1>1, <1>2 DEF SearchTypeOK
<1>4. NumberedOnce' /\ PauseIsTyped'
  BY <1>1, <1>2 DEF NumberedOnce, PauseIsTyped
<1>5. LatestIsRight'
  BY <1>1, <1>2 DEF LatestIsRight, Found, Reachable
<1>6. AskedOrShown'
  BY <1>1, <1>2 DEF AskedOrShown
<1>7. QED
  BY <1>3, <1>4, <1>5, <1>6

(* A question of its own number, which has looked at nothing yet.             *)
LEMMA SearchAsks ==
  ASSUME SearchInv, AskServer
  PROVE  SearchInv'
<1> USE SearchAssumption DEF SearchInv
<1> PICK new : new = [no |-> field.latest + 1, term |-> field.pause, next |-> 1, found |-> NoHits]
  OBVIOUS
<1>1. /\ field' \in FieldState /\ field'.latest = field.latest + 1 /\ field'.term = field.term
      /\ field'.pause = NoTerm
      /\ asked' = asked \union {new} /\ searchBehind' = FALSE /\ shelved' = shelved
  <2>1. field \in FieldState
    BY DEF SearchTypeOK
  <2>2. field' = Asking(field, NoTerm, field.latest + 1)
    BY DEF AskServer, Asking
  <2>3. field' \in FieldState /\ field'.latest = field.latest + 1 /\ field'.term = field.term
        /\ field'.pause = NoTerm
    <3>1. field.latest + 1 \in Nat /\ NoTerm \in Terms
      BY <2>1 DEF FieldState
    <3>2. QED
      BY <2>1, <2>2, <3>1, FieldAsks
  <2>4. QED
    BY <2>3 DEF AskServer
<1>2. field.pause = field.term /\ field.latest \in Nat
  BY DEF AskServer, PauseIsTyped, SearchTypeOK, FieldState
<1>3. new \in Question
  BY <1>2 DEF SearchTypeOK, FieldState, Question, NoHits
<1>4. SearchTypeOK'
  BY <1>1, <1>3 DEF SearchTypeOK
<1>5. \A r \in asked : r.no \in Nat /\ r.no <= field.latest
  BY DEF SearchTypeOK, Question, NumberedOnce
<1>6. NumberedOnce'
  BY <1>1, <1>2, <1>5 DEF NumberedOnce
<1>7. PauseIsTyped'
  BY <1>1 DEF PauseIsTyped, Waiting
<1>8. LatestIsRight'
  <2>1. Found(new.term, Looked(new.next))' = {}
    BY <1>1, LookedGrows DEF Found
  <2>2. \A r \in asked' : r.no = field'.latest => r = new
    BY <1>1, <1>2, <1>5
  <2>3. new.found = {} /\ new.term = field'.term
    BY <1>1, <1>2 DEF NoHits
  <2>4. QED
    BY <2>1, <2>2, <2>3 DEF LatestIsRight
<1>9. AskedOrShown'
  <2>1. new \in asked' /\ new.no = field'.latest
    BY <1>1
  <2>2. QED
    BY <2>1 DEF AskedOrShown
<1>10. QED
  BY <1>4, <1>6, <1>7, <1>8, <1>9

(* One more group is looked at.                                               *)
LEMMA SearchReads ==
  ASSUME SearchInv, NEW r \in asked, ReadGroup(r)
  PROVE  SearchInv'
<1> USE DEF SearchInv
<1>a. PICK more : more = Found(r.term, {Groups[r.next]})
  OBVIOUS
<1>b. PICK next : next = MovedOn(r, r.next + 1, r.found \union more)
  OBVIOUS
<1>1. r \in Question /\ r.next \in 1..4
  BY LookedGrows DEF ReadGroup, SearchTypeOK, Question
<1>2. /\ asked' = (asked \ {r}) \union {next}
      /\ UNCHANGED <<shelved, field, searchBehind>>
  BY <1>a, <1>b DEF ReadGroup, MovedOn
<1>3. more \subseteq AllGroups
  BY <1>a, <1>1, LookedGrows DEF Found
<1>4. /\ next \in Question /\ next.no = r.no /\ next.term = r.term
      /\ next.next = r.next + 1 /\ next.found = r.found \union more
  <2>1. r.next + 1 \in 1..5
    BY <1>1
  <2>2. r.found \union more \subseteq AllGroups
    BY <1>1, <1>3 DEF Question
  <2>3. r \in Question
    BY <1>1
  <2>4. QED
    BY <1>b, <2>1, <2>2, <2>3, QuestionMoves
<1>5. SearchTypeOK' /\ PauseIsTyped'
  BY <1>2, <1>4 DEF SearchTypeOK, PauseIsTyped, Waiting
<1>6. NumberedOnce'
  <2>1. \A q \in asked' : q.no <= field.latest
    BY <1>2, <1>4 DEF NumberedOnce
  <2>2. \A q \in asked' : q # next => q \in asked /\ q.no # r.no
    BY <1>2 DEF NumberedOnce
  <2>3. \A q, s \in asked' : q.no = s.no => q = s
    BY <1>4, <2>2 DEF NumberedOnce
  <2>4. QED
    BY <1>2, <2>1, <2>3 DEF NumberedOnce
<1>7. LatestIsRight'
  <2> SUFFICES ASSUME NEW q \in asked', q.no = field.latest
               PROVE  /\ (~Waiting(field) /\ field.term \notin ShortTerms) => q.term = field.term
                      /\ ~searchBehind => q.found = Found(q.term, Looked(q.next))
    BY <1>2 DEF LatestIsRight, Waiting, Found, Reachable
  <2>1. CASE q # next
    BY <1>2, <2>1 DEF LatestIsRight
  <2>2. CASE q = next
    <3>1. Looked(q.next) = Looked(r.next) \union {Groups[r.next]}
      BY <1>1, <1>4, <2>2, LookedGrows
    <3>2. Found(r.term, Looked(r.next) \union {Groups[r.next]})
            = Found(r.term, Looked(r.next)) \union more
      BY <1>a, FoundGrows
    <3>3. QED
      BY <1>4, <2>2, <3>1, <3>2 DEF LatestIsRight
  <2>3. QED
    BY <2>1, <2>2
<1>8. AskedOrShown'
  <2>1. (\E q \in asked : q.no = field.latest) => \E q \in asked' : q.no = field.latest
    BY <1>2, <1>4
  <2>2. QED
    BY <1>2, <2>1 DEF AskedOrShown, Waiting, Found, Reachable
<1>9. QED
  BY <1>5, <1>6, <1>7, <1>8

(* A question that is no longer out leaves the others as they were.           *)
LEMMA OneLess ==
  ASSUME SearchInv, NEW r \in asked, asked' = asked \ {r}, shelved' = shelved,
         field' \in FieldState, UNCHANGED <<field.term, field.pause, field.latest>>,
         searchBehind' \in BOOLEAN, searchBehind => searchBehind'
  PROVE  SearchTypeOK' /\ NumberedOnce' /\ PauseIsTyped' /\ LatestIsRight'
BY DEF SearchInv, SearchTypeOK, NumberedOnce, PauseIsTyped, LatestIsRight, Waiting, Found, Reachable

(* The latest answer is shown; an older one leaves the latest out.            *)
LEMMA SearchShows ==
  ASSUME SearchInv, NEW r \in asked, ShowResults(r)
  PROVE  SearchInv'
<1> USE DEF SearchInv
<1>1. r \in Question /\ r.next = 5
  BY LookedGrows DEF ShowResults, SearchTypeOK, Question
<1>2. asked' = asked \ {r} /\ UNCHANGED <<shelved, searchBehind>>
  BY DEF ShowResults
<1>3. CASE r.no # field.latest
  <2>1. field' = field
    BY <1>3 DEF ShowResults
  <2>2. SearchTypeOK' /\ NumberedOnce' /\ PauseIsTyped' /\ LatestIsRight'
    BY <1>2, <2>1, OneLess DEF SearchTypeOK
  <2>3. (\E q \in asked : q.no = field.latest) => \E q \in asked' : q.no = field.latest
    BY <1>2, <1>3
  <2>4. AskedOrShown'
    BY <1>2, <2>1, <2>3 DEF AskedOrShown, Waiting, Found, Reachable
  <2>5. QED
    BY <2>2, <2>4
<1>4. CASE r.no = field.latest
  <2>1. /\ field' \in FieldState /\ UNCHANGED <<field.term, field.pause, field.latest>>
        /\ field'.results = r.found /\ field'.query = r.term /\ ~field'.loading
    BY <1>1, <1>4 DEF ShowResults, SearchTypeOK, FieldState, Question
  <2>2. SearchTypeOK' /\ NumberedOnce' /\ PauseIsTyped' /\ LatestIsRight'
    BY <1>2, <2>1, OneLess DEF SearchTypeOK
  <2>3. ~searchBehind => r.found = Found(r.term, AllGroups)
    BY <1>1, <1>4, LookedGrows DEF LatestIsRight
  <2>4. AskedOrShown'
    BY <1>2, <1>4, <2>1, <2>3 DEF AskedOrShown, LatestIsRight, Waiting, Found, Reachable
  <2>5. QED
    BY <2>2, <2>4
<1>5. QED
  BY <1>3, <1>4

(* A failure of the latest question is one the panel is behind with.          *)
LEMMA SearchBreaks ==
  ASSUME SearchInv, NEW r \in asked, SearchFails(r)
  PROVE  SearchInv'
<1> USE SearchAssumption DEF SearchInv
<1>1. asked' = asked \ {r} /\ shelved' = shelved /\ searchBehind' = (searchBehind \/ r.no = field.latest)
  BY DEF SearchFails
<1>2. field' \in FieldState /\ UNCHANGED <<field.term, field.pause, field.latest>>
  BY DEF SearchFails, Cleared, SearchTypeOK, FieldState, NoHits
<1>3. SearchTypeOK' /\ NumberedOnce' /\ PauseIsTyped' /\ LatestIsRight'
  BY <1>1, <1>2, OneLess DEF SearchTypeOK
<1>4. AskedOrShown'
  <2>1. CASE r.no = field.latest
    BY <1>1, <2>1 DEF AskedOrShown
  <2>2. CASE r.no # field.latest
    <3>1. field' = field /\ searchBehind' = searchBehind
      BY <1>1, <2>2 DEF SearchFails, SearchTypeOK
    <3>2. (\E q \in asked : q.no = field.latest) => \E q \in asked' : q.no = field.latest
      BY <1>1, <2>2
    <3>3. QED
      BY <1>1, <3>1, <3>2 DEF AskedOrShown, Waiting, Found, Reachable
  <2>3. QED
    BY <2>1, <2>2
<1>5. QED
  BY <1>3, <1>4

LEMMA SearchRests == SearchInv /\ UNCHANGED searchVars => SearchInv'
BY DEF SearchInv, searchVars, SearchTypeOK, NumberedOnce, PauseIsTyped, LatestIsRight,
       AskedOrShown, Waiting, Found, Reachable

LEMMA SearchInductive == SearchInv /\ [SearchNext]_searchVars => SearchInv'
BY SearchShelves, SearchTypes, SearchAsks, SearchReads, SearchShows, SearchBreaks, SearchRests
   DEF SearchNext

LEMMA SettledIsRight == SearchInv => SearchSettles
BY DEF SearchInv, AskedOrShown, SearchSettles, SearchQuiet, AllGroups

(* "a slow earlier response can never overwrite the results of a later one"   *)
(* (GlobalSearch.vue:600), whatever is typed and however many questions are   *)
(* out: once all are answered the panel shows what there is to find.          *)
THEOREM SearchComesToRest == SearchSpec => []SearchSettles
<1>1. SearchSpec => []SearchInv
  BY SearchStarts, SearchInductive, PTL DEF SearchSpec
<1>2. QED
  BY <1>1, SettledIsRight, PTL

-----------------------------------------------------------------------------
(* The dialog of the archive.                                                 *)
ShelfWish == [what : {"restore", "purge"}, row : Rows, step : {"asked", "refused", "done"}]
IsListing(l) ==
  l = [no |-> l.no, read |-> l.read, rows |-> l.rows] /\ l.read \in BOOLEAN /\ l.rows \subseteq Rows

ShelfTypeOK ==
  /\ shelf \in [Rows -> {"shown", "archived", "gone"}]
  /\ box \in [open : BOOLEAN, reading : BOOLEAN, rows : SUBSET Rows]
  /\ IsFiniteSet(lists) /\ \A l \in lists : IsListing(l)
  /\ wishes \subseteq ShelfWish
  /\ confirming \in [row : Rows \union {Nil}, asking : BOOLEAN]
  /\ meddled \in BOOLEAN

(* What is asked to be destroyed is a row, and has been agreed to.            *)
AgreedTo ==
  /\ confirming.asking => confirming.row \in Rows
  /\ \A w \in wishes : w.what = "purge" => w.row \in confirmed
  /\ \A r \in Rows : shelf[r] = "gone" => \E x \in confirmed \ {Nil} : r \in With(x)

(* Unless it was meddled with, a list that has been read is what is there.    *)
ReadIsRight ==
  (~meddled /\ \E l \in lists : l.read) =>
    /\ wishes = {} /\ ~confirming.asking
    /\ \A l \in lists : l.read => l.rows = OnShelf

(* A card and its column are not both listed, or one listed and one wished    *)
(* for: the column was on the board when the card was listed.                 *)
Kin(x, y) == x \in ShelfCards /\ ShelfColumnOf[x] = y
Apart(x) == \A r \in box.rows : ~Kin(x, r) /\ ~Kin(r, x)

ListedIsRight ==
  (~meddled /\ box.open /\ lists = {}) =>
    /\ \A r \in box.rows \ OnShelf : \E w \in wishes : w.row = r /\ w.step = "done"
    /\ \A r \in OnShelf \ box.rows : r \in ShelfCards /\ ShelfColumnOf[r] \in returned
    /\ \A r \in box.rows : Apart(r)
    /\ \A w \in wishes : Apart(w.row)
    /\ confirming.asking => Apart(confirming.row)

DoneIsDone == ~meddled => \A w \in wishes : w.step = "done" => shelf[w.row] # "archived"

(* The dialog that asks stands before the one that is open.                   *)
AskingIsOpen == (~meddled /\ confirming.asking) => box.open /\ lists = {}

ShelfInv == ShelfTypeOK /\ AgreedTo /\ ReadIsRight /\ ListedIsRight /\ DoneIsDone /\ AskingIsOpen

-----------------------------------------------------------------------------
(* Cards are no columns, so a row is not both, and Nil is none.               *)
LEMMA RowsAreApart ==
  /\ \A r \in Rows : r # Nil /\ (r \in ShelfCards \/ r \in ShelfColumns)
  /\ \A r \in ShelfCards : r \notin ShelfColumns /\ ShelfColumnOf[r] \in ShelfColumns
  /\ \A r \in ShelfCards : ShelfColumnOf[r] \in Rows /\ ShelfColumnOf[r] \notin ShelfCards
BY ShelfAssumption DEF Rows

(* What is on the shelf is a row, and a card on it has its column on the board. *)
LEMMA OnShelfIsApart ==
  /\ OnShelf \subseteq Rows
  /\ \A x, y \in OnShelf : ~Kin(x, y)
BY RowsAreApart DEF OnShelf, Kin

LEMMA BroughtBack ==
  ASSUME ShelfTypeOK, NEW x \in Rows, Brought(x)
  PROVE  /\ shelf' \in [Rows -> {"shown", "archived", "gone"}]
         /\ \A r \in Rows : shelf'[r] = IF r \in Back(x) /\ shelf[r] # "gone" THEN "shown" ELSE shelf[r]
BY DEF ShelfTypeOK, Brought

LEMMA PurgedAway ==
  ASSUME ShelfTypeOK, NEW x \in Rows, Purged(x)
  PROVE  /\ shelf' \in [Rows -> {"shown", "archived", "gone"}]
         /\ \A r \in Rows : shelf'[r] = IF r \in With(x) THEN "gone" ELSE shelf[r]
BY DEF ShelfTypeOK, Purged

LEMMA BoxSet ==
  ASSUME ShelfTypeOK, NEW o \in BOOLEAN, NEW d \in BOOLEAN, NEW rows, rows \subseteq Rows,
         box' = [box EXCEPT !.open = o, !.reading = d, !.rows = rows]
  PROVE  /\ box' \in [open : BOOLEAN, reading : BOOLEAN, rows : SUBSET Rows]
         /\ box'.open = o /\ box'.rows = rows
BY DEF ShelfTypeOK

LEMMA WishMoves ==
  ASSUME NEW w \in ShelfWish, NEW step \in {"asked", "refused", "done"},
         NEW v, v = [w EXCEPT !.step = step]
  PROVE  v \in ShelfWish /\ v.what = w.what /\ v.row = w.row /\ v.step = step
BY DEF ShelfWish

-----------------------------------------------------------------------------
LEMMA ShelfStarts == ShelfInit => ShelfInv
<1> SUFFICES ASSUME ShelfInit PROVE ShelfInv
  OBVIOUS
<1> USE DEF ShelfInit
<1>1. ShelfTypeOK
  BY FS_EmptySet DEF ShelfTypeOK, NothingAsked
<1>2. AgreedTo
  BY DEF AgreedTo, NothingAsked
<1>3. ReadIsRight /\ ListedIsRight /\ DoneIsDone /\ AskingIsOpen
  BY DEF ReadIsRight, ListedIsRight, DoneIsDone, AskingIsOpen, NothingAsked
<1> QED
  BY <1>1, <1>2, <1>3 DEF ShelfInv

(* Opening asks for the list; closing leaves nothing to show.                 *)
LEMMA ShelfOpens ==
  ASSUME ShelfInv, OpenArchive
  PROVE  ShelfInv'
<1> USE DEF ShelfInv
<1>1. PICK l : /\ lists' = lists \union {l} /\ l = [no |-> shelfLeft.openings, read |-> FALSE, rows |-> {}]
               /\ UNCHANGED <<shelf, wishes, confirming, confirmed, returned, meddled>> /\ ~box.open
  BY DEF OpenArchive
<1>2. IsListing(l) /\ ~l.read
  BY <1>1 DEF IsListing
<1>3. /\ box' \in [open : BOOLEAN, reading : BOOLEAN, rows : SUBSET Rows]
  BY DEF OpenArchive, ShelfTypeOK
<1>4. ShelfTypeOK'
  BY <1>1, <1>2, <1>3, FS_AddElement DEF ShelfTypeOK
<1>5. AgreedTo'
  BY <1>1 DEF AgreedTo
<1>6. ReadIsRight'
  BY <1>1, <1>2 DEF ReadIsRight, OnShelf
<1>7. ListedIsRight' /\ DoneIsDone' /\ AskingIsOpen'
  BY <1>1 DEF ListedIsRight, DoneIsDone, AskingIsOpen
<1> QED
  BY <1>4, <1>5, <1>6, <1>7

LEMMA ShelfCloses ==
  ASSUME ShelfInv, CloseArchive
  PROVE  ShelfInv'
<1> USE DEF ShelfInv
<1>1. /\ UNCHANGED <<shelf, lists, wishes, confirming, confirmed, returned, meddled>>
      /\ ~confirming.asking /\ box' = [box EXCEPT !.open = FALSE]
  BY DEF CloseArchive
<1>2. /\ box' \in [open : BOOLEAN, reading : BOOLEAN, rows : SUBSET Rows] /\ ~box'.open
  BY <1>1 DEF ShelfTypeOK
<1>3. ShelfTypeOK' /\ AgreedTo'
  BY <1>1, <1>2 DEF ShelfTypeOK, AgreedTo
<1>4. ReadIsRight' /\ ListedIsRight' /\ DoneIsDone' /\ AskingIsOpen'
  BY <1>1, <1>2 DEF ReadIsRight, ListedIsRight, DoneIsDone, AskingIsOpen, OnShelf
<1> QED
  BY <1>3, <1>4

(* A list read by itself, with nothing under way, is what is there.           *)
LEMMA ShelfIsRead ==
  ASSUME ShelfInv, NEW l \in lists, ReadShelf(l)
  PROVE  ShelfInv'
<1> USE DEF ShelfInv
<1>1. PICK m : m = [l EXCEPT !.read = TRUE, !.rows = OnShelf]
  OBVIOUS
<1>2. /\ lists' = (lists \ {l}) \union {m}
      /\ meddled' = (wishes # {} \/ confirming.asking \/ Cardinality(lists) > 1)
      /\ UNCHANGED <<shelf, box, wishes, confirming, confirmed>>
  BY <1>1 DEF ReadShelf
<1>3. IsListing(m) /\ m.rows = OnShelf
  <2>1. l = [no |-> l.no, read |-> l.read, rows |-> l.rows]
    BY DEF ShelfTypeOK, IsListing
  <2>2. m = [no |-> l.no, read |-> TRUE, rows |-> OnShelf]
    BY <1>1, <2>1
  <2> QED
    BY <2>2, OnShelfIsApart DEF IsListing
<1>4. IsFiniteSet(lists')
  BY <1>2, FS_RemoveElement, FS_AddElement DEF ShelfTypeOK
<1>5. meddled' \in BOOLEAN
  BY <1>2
<1>6. ShelfTypeOK'
  BY <1>2, <1>3, <1>4, <1>5 DEF ShelfTypeOK
<1>7. AgreedTo'
  BY <1>2 DEF AgreedTo
<1>8. OnShelf' = OnShelf
  BY <1>2 DEF OnShelf
<1>9. ASSUME ~meddled' PROVE lists' = {m} /\ wishes = {} /\ ~confirming.asking
  <2>1. wishes = {} /\ ~confirming.asking /\ ~(Cardinality(lists) > 1)
    BY <1>2, <1>9
  <2>2. IsFiniteSet(lists) /\ IsFiniteSet(lists \ {l}) /\ Cardinality(lists \ {l}) = Cardinality(lists) - 1
    BY FS_RemoveElement DEF ShelfTypeOK
  <2>3. Cardinality(lists) \in Nat /\ Cardinality(lists \ {l}) \in Nat
    BY <2>2, FS_CardinalityType
  <2>4. Cardinality(lists \ {l}) = 0
    BY <2>1, <2>2, <2>3
  <2>5. lists \ {l} = {}
    BY <2>2, <2>4, FS_EmptySet
  <2> QED
    BY <1>2, <2>1, <2>5
<1>10. ReadIsRight'
  BY <1>2, <1>3, <1>8, <1>9 DEF ReadIsRight
<1>11. ListedIsRight'
  BY <1>2 DEF ListedIsRight
<1>12. DoneIsDone' /\ AskingIsOpen'
  BY <1>2, <1>9 DEF DoneIsDone, AskingIsOpen
<1> QED
  BY <1>6, <1>7, <1>10, <1>11, <1>12

(* What was read is listed.                                                   *)
LEMMA ShelfIsShown ==
  ASSUME ShelfInv, NEW l \in lists, ListShelf(l)
  PROVE  ShelfInv'
<1> USE DEF ShelfInv
<1>1. /\ l.read /\ lists' = lists \ {l} /\ box' = [box EXCEPT !.reading = FALSE, !.rows = l.rows]
      /\ UNCHANGED <<shelf, wishes, confirming, confirmed, returned, meddled>>
  BY DEF ListShelf
<1>2. l.rows \subseteq Rows
  BY DEF ShelfTypeOK, IsListing
<1>3. box' \in [open : BOOLEAN, reading : BOOLEAN, rows : SUBSET Rows] /\ box'.rows = l.rows
  BY <1>1, <1>2 DEF ShelfTypeOK
<1>4. ShelfTypeOK'
  BY <1>1, <1>3, FS_RemoveElement DEF ShelfTypeOK
<1>5. AgreedTo' /\ DoneIsDone'
  BY <1>1 DEF AgreedTo, DoneIsDone
<1>6. OnShelf' = OnShelf
  BY <1>1 DEF OnShelf
<1>7. ReadIsRight'
  BY <1>1, <1>6 DEF ReadIsRight
<1>8. ~meddled => wishes = {} /\ ~confirming.asking /\ l.rows = OnShelf
  BY <1>1 DEF ReadIsRight
<1>9. ListedIsRight'
  BY <1>1, <1>3, <1>6, <1>8, OnShelfIsApart DEF ListedIsRight, Apart
<1>10. AskingIsOpen'
  BY <1>1, <1>8 DEF AskingIsOpen
<1> QED
  BY <1>4, <1>5, <1>7, <1>9, <1>10

LEMMA ShelfIsNotRead ==
  ASSUME ShelfInv, NEW l \in lists, ListFails(l)
  PROVE  ShelfInv'
<1> USE DEF ShelfInv
<1>1. /\ lists' = lists \ {l} /\ box' = [box EXCEPT !.reading = FALSE] /\ meddled' = TRUE
      /\ UNCHANGED <<shelf, wishes, confirming, confirmed>>
  BY DEF ListFails
<1>2. ShelfTypeOK'
  <2>1. box' \in [open : BOOLEAN, reading : BOOLEAN, rows : SUBSET Rows]
    BY <1>1 DEF ShelfTypeOK
  <2> QED
    BY <1>1, <2>1, FS_RemoveElement DEF ShelfTypeOK
<1> QED
  BY <1>1, <1>2 DEF AgreedTo, ReadIsRight, ListedIsRight, DoneIsDone, AskingIsOpen

-----------------------------------------------------------------------------
(* A wish for a row that is listed, or was when it was asked about.           *)
LEMMA ShelfIsWished ==
  ASSUME ShelfInv, NEW what \in {"restore", "purge"}, NEW r \in Rows, Wish(what, r),
         UNCHANGED <<shelf, box, lists, returned>>,
         what = "purge" => r \in confirmed', confirmed \subseteq confirmed',
         confirming' \in [row : Rows \union {Nil}, asking : BOOLEAN], ~confirming'.asking,
         ~meddled /\ lists = {} => Apart(r)
  PROVE  ShelfInv'
<1> USE DEF ShelfInv
<1>1. PICK w : /\ w = [what |-> what, row |-> r, step |-> "asked"] /\ wishes' = wishes \union {w}
               /\ meddled' = (meddled \/ lists # {})
  BY DEF Wish
<1>2. w \in ShelfWish /\ w.what = what /\ w.row = r /\ w.step = "asked"
  BY <1>1 DEF ShelfWish
<1>3. ShelfTypeOK'
  BY <1>1, <1>2 DEF ShelfTypeOK
<1>4. AgreedTo'
  BY <1>1, <1>2 DEF AgreedTo
<1>5. OnShelf' = OnShelf
  BY DEF OnShelf
<1>6. ~meddled' => ~meddled /\ lists = {}
  BY <1>1
<1>7. ListedIsRight'
  BY <1>1, <1>2, <1>5, <1>6 DEF ListedIsRight, Apart
<1>8. ReadIsRight' /\ DoneIsDone' /\ AskingIsOpen'
  BY <1>1, <1>2, <1>6 DEF ReadIsRight, DoneIsDone, AskingIsOpen
<1> QED
  BY <1>3, <1>4, <1>7, <1>8

LEMMA ShelfRestores ==
  ASSUME ShelfInv, NEW r \in Rows, RestoreRow(r)
  PROVE  ShelfInv'
<1>1. /\ Wish("restore", r) /\ box.open /\ r \in box.rows /\ ~confirming.asking
      /\ UNCHANGED <<shelf, box, lists, confirming, confirmed, returned>>
  BY DEF RestoreRow
<1>2. ~meddled /\ lists = {} => Apart(r)
  BY <1>1 DEF ShelfInv, ListedIsRight
<1>3. confirming' \in [row : Rows \union {Nil}, asking : BOOLEAN] /\ ~confirming'.asking
  BY <1>1 DEF ShelfInv, ShelfTypeOK
<1> QED
  BY <1>1, <1>2, <1>3, ShelfIsWished

LEMMA ShelfAsks ==
  ASSUME ShelfInv, NEW r \in Rows, AskPurge(r)
  PROVE  ShelfInv'
<1> USE DEF ShelfInv
<1>1. /\ confirming' = [row |-> r, asking |-> TRUE] /\ meddled' = (meddled \/ lists # {})
      /\ box.open /\ r \in box.rows
      /\ UNCHANGED <<shelf, box, lists, wishes, confirmed, returned>>
  BY DEF AskPurge
<1>2. ShelfTypeOK' /\ AgreedTo'
  BY <1>1 DEF ShelfTypeOK, AgreedTo
<1>3. OnShelf' = OnShelf /\ (~meddled' => ~meddled /\ lists = {})
  BY <1>1 DEF OnShelf
<1>4. ListedIsRight'
  BY <1>1, <1>3 DEF ListedIsRight, Apart
<1>5. ReadIsRight' /\ DoneIsDone' /\ AskingIsOpen'
  BY <1>1, <1>3 DEF ReadIsRight, DoneIsDone, AskingIsOpen
<1> QED
  BY <1>2, <1>4, <1>5

LEMMA ShelfCancels ==
  ASSUME ShelfInv, CancelPurge
  PROVE  ShelfInv'
<1> USE DEF ShelfInv
<1>1. /\ confirming' = [confirming EXCEPT !.asking = FALSE]
      /\ UNCHANGED <<shelf, box, lists, wishes, confirmed, returned, meddled>>
  BY DEF CancelPurge
<1>2. confirming' \in [row : Rows \union {Nil}, asking : BOOLEAN] /\ ~confirming'.asking
  BY <1>1 DEF ShelfTypeOK
<1>3. ShelfTypeOK' /\ AgreedTo'
  BY <1>1, <1>2 DEF ShelfTypeOK, AgreedTo
<1>4. OnShelf' = OnShelf
  BY <1>1 DEF OnShelf
<1>5. ListedIsRight'
  BY <1>1, <1>2, <1>4 DEF ListedIsRight, Apart
<1>6. ReadIsRight' /\ DoneIsDone' /\ AskingIsOpen'
  BY <1>1, <1>2, <1>4 DEF ReadIsRight, DoneIsDone, AskingIsOpen
<1> QED
  BY <1>3, <1>5, <1>6

LEMMA ShelfConfirms ==
  ASSUME ShelfInv, ConfirmPurge
  PROVE  ShelfInv'
<1>1. /\ confirming' = [confirming EXCEPT !.asking = FALSE] /\ confirming.asking
      /\ confirmed' = confirmed \union {confirming.row}
      /\ UNCHANGED <<shelf, box, lists, returned>>
  BY DEF ConfirmPurge
<1>2. confirming' \in [row : Rows \union {Nil}, asking : BOOLEAN] /\ ~confirming'.asking
  BY <1>1 DEF ShelfInv, ShelfTypeOK
<1>3. confirming.row \in Rows /\ confirming.row # Nil
  BY <1>1, RowsAreApart DEF ShelfInv, AgreedTo
<1>4. Wish("purge", confirming.row)
  BY <1>3 DEF ConfirmPurge
<1>5. ~meddled /\ lists = {} => Apart(confirming.row)
  BY <1>1 DEF ShelfInv, ListedIsRight, AskingIsOpen
<1> QED
  BY <1>1, <1>2, <1>3, <1>4, <1>5, ShelfIsWished

-----------------------------------------------------------------------------
(* A request is served.  Rows listed that are no kin of the row stay on the   *)
(* shelf; cards that come on it are of a column brought back.                 *)
LEMMA ShelfServes ==
  ASSUME ShelfInv, NEW w \in wishes, Serve(w)
  PROVE  ShelfInv'
<1> USE DEF ShelfInv
<1>1. PICK v : /\ v = [w EXCEPT !.step = IF shelf[w.row] = "gone" THEN "refused" ELSE "done"]
               /\ wishes' = (wishes \ {w}) \union {v}
  BY DEF Serve
<1>2. w.step = "asked" /\ UNCHANGED <<box, lists, confirming, confirmed, meddled>>
  BY DEF Serve
<1>3. w \in ShelfWish /\ w.row \in Rows
  BY DEF ShelfTypeOK, ShelfWish
<1>4. /\ v \in ShelfWish /\ v.what = w.what /\ v.row = w.row
      /\ v.step = IF shelf[w.row] = "gone" THEN "refused" ELSE "done"
  BY <1>1, <1>3, WishMoves
<1>5. CASE shelf[w.row] = "gone"
  <2>1. UNCHANGED <<shelf, returned>>
    BY <1>5 DEF Serve
  <2>2. ShelfTypeOK' /\ AgreedTo'
    BY <1>1, <1>2, <1>4, <2>1 DEF ShelfTypeOK, AgreedTo
  <2>3. OnShelf' = OnShelf
    BY <2>1 DEF OnShelf
  <2>4. ListedIsRight'
    BY <1>1, <1>2, <1>4, <2>1, <2>3 DEF ListedIsRight, Apart
  <2>5. ReadIsRight' /\ DoneIsDone' /\ AskingIsOpen'
    BY <1>1, <1>2, <1>4, <1>5, <2>1, <2>3 DEF ReadIsRight, DoneIsDone, AskingIsOpen
  <2> QED
    BY <2>2, <2>4, <2>5
<1>6. CASE shelf[w.row] # "gone"
  <2>0. v.step = "done"
    BY <1>4, <1>6
  <2>1. \/ w.what = "restore" /\ Brought(w.row) /\ returned' = returned \union (Back(w.row) \intersect ShelfColumns)
        \/ w.what = "purge" /\ Purged(w.row) /\ UNCHANGED returned
    BY <1>3, <1>6 DEF Serve, ShelfWish
  <2>2. /\ shelf' \in [Rows -> {"shown", "archived", "gone"}]
        /\ \A r \in Rows : shelf'[r] = "archived" => shelf[r] = "archived"
        /\ shelf'[w.row] # "archived" /\ returned \subseteq returned'
    BY <1>3, <2>1, BroughtBack, PurgedAway DEF Back, With
  <2>3. \A r \in Rows : shelf'[r] = "gone" =>
          shelf[r] = "gone" \/ (w.what = "purge" /\ r \in With(w.row))
    BY <1>3, <2>1, BroughtBack, PurgedAway
  <2>4. ShelfTypeOK'
    BY <1>1, <1>2, <1>4, <2>2 DEF ShelfTypeOK
  <2>5. AgreedTo'
    <3>1. \A r \in Rows : shelf'[r] = "gone" => \E x \in confirmed \ {Nil} : r \in With(x)
      BY <1>3, <2>3, RowsAreApart DEF AgreedTo
    <3> QED
      BY <1>1, <1>2, <1>4, <3>1 DEF AgreedTo
  <2>6. ReadIsRight'
    BY <1>2 DEF ReadIsRight
  <2>7. DoneIsDone' /\ AskingIsOpen'
    <3>1. \A u \in wishes : u.row \in Rows
      BY DEF ShelfTypeOK, ShelfWish
    <3> QED
      BY <1>1, <1>2, <1>4, <2>2, <3>1 DEF DoneIsDone, AskingIsOpen
  <2>8. ASSUME ~meddled, box.open, lists = {}, NEW r \in box.rows \ OnShelf'
        PROVE  \E u \in wishes' : u.row = r /\ u.step = "done"
    <3>1. CASE r \notin OnShelf
      <4>1. PICK u \in wishes : u.row = r /\ u.step = "done"
        BY <2>8, <3>1 DEF ListedIsRight
      <4> QED
        BY <1>1, <1>2, <4>1
    <3>2. CASE r \in OnShelf /\ r # w.row
      <4>1. r \in Rows /\ shelf[r] = "archived" /\ (r \in ShelfCards => shelf[ShelfColumnOf[r]] = "shown")
        BY <3>2 DEF OnShelf
      <4>2. ~Kin(w.row, r) /\ ~Kin(r, w.row)
        BY <2>8 DEF ListedIsRight, Apart
      <4>3. r \notin Back(w.row) /\ r \notin With(w.row)
        BY <3>2, <4>2 DEF Back, With, Kin
      <4>4. shelf'[r] = "archived"
        BY <1>3, <2>1, <4>1, <4>3, BroughtBack, PurgedAway
      <4>5. ASSUME r \in ShelfCards PROVE shelf'[ShelfColumnOf[r]] = "shown"
        <5>1. ShelfColumnOf[r] \in Rows /\ ShelfColumnOf[r] \notin ShelfCards /\ ShelfColumnOf[r] # w.row
          BY <4>2, <4>5, RowsAreApart DEF Kin
        <5>2. ShelfColumnOf[r] \notin With(w.row)
          BY <5>1 DEF With
        <5> QED
          BY <1>3, <2>1, <4>1, <4>5, <5>1, <5>2, BroughtBack, PurgedAway
      <4> QED
        BY <2>8, <4>1, <4>4, <4>5 DEF OnShelf
    <3>3. CASE r = w.row
      BY <1>1, <1>4, <2>0, <3>3
    <3> QED
      BY <3>1, <3>2, <3>3
  <2>9. ASSUME ~meddled, box.open, lists = {}, NEW r \in OnShelf' \ box.rows
        PROVE  r \in ShelfCards /\ ShelfColumnOf[r] \in returned'
    <3>1. CASE r \in OnShelf
      BY <2>2, <2>9, <3>1 DEF ListedIsRight
    <3>2. CASE r \notin OnShelf
      <4>1. r \in Rows /\ shelf[r] = "archived"
        BY <2>2, <2>9 DEF OnShelf
      <4>2. /\ r \in ShelfCards /\ ShelfColumnOf[r] \in Rows /\ ShelfColumnOf[r] \in ShelfColumns
            /\ shelf[ShelfColumnOf[r]] # "shown" /\ shelf'[ShelfColumnOf[r]] = "shown"
        BY <2>9, <3>2, <4>1, RowsAreApart DEF OnShelf
      <4> QED
        BY <1>3, <2>1, <4>2, BroughtBack, PurgedAway
    <3> QED
      BY <3>1, <3>2
  <2>10. ListedIsRight'
    <3> SUFFICES ASSUME ~meddled, box.open, lists = {}
                 PROVE  /\ \A r \in box.rows \ OnShelf' : \E u \in wishes' : u.row = r /\ u.step = "done"
                        /\ \A r \in OnShelf' \ box.rows : r \in ShelfCards /\ ShelfColumnOf[r] \in returned'
                        /\ \A r \in box.rows : Apart(r)
                        /\ \A u \in wishes' : Apart(u.row)
                        /\ confirming.asking => Apart(confirming.row)
      BY <1>2 DEF ListedIsRight, Apart
    <3>1. /\ \A r \in box.rows : Apart(r)
          /\ \A u \in wishes : Apart(u.row)
          /\ confirming.asking => Apart(confirming.row)
      BY DEF ListedIsRight
    <3>2. \A u \in wishes' : Apart(u.row)
      BY <1>1, <1>4, <3>1
    <3> QED
      BY <2>8, <2>9, <3>1, <3>2
  <2> QED
    BY <2>4, <2>5, <2>6, <2>7, <2>10
<1> QED
  BY <1>5, <1>6

(* Its answer takes the row off the list, if it was not refused.              *)
LEMMA ShelfLetsGo ==
  ASSUME ShelfInv, NEW w \in wishes, LetRowGo(w)
  PROVE  ShelfInv'
<1> USE DEF ShelfInv
<1>1. /\ w.step # "asked" /\ wishes' = wishes \ {w}
      /\ box' = IF w.step = "done" THEN [box EXCEPT !.rows = @ \ {w.row}] ELSE box
      /\ UNCHANGED <<shelf, lists, confirmed, returned, meddled>>
      /\ confirming' = IF w.what = "purge" THEN NothingAsked ELSE confirming
  BY DEF LetRowGo
<1>2. w \in ShelfWish
  BY DEF ShelfTypeOK
<1>3. /\ box' \in [open : BOOLEAN, reading : BOOLEAN, rows : SUBSET Rows]
      /\ box'.open = box.open
      /\ box'.rows = IF w.step = "done" THEN box.rows \ {w.row} ELSE box.rows
  BY <1>1 DEF ShelfTypeOK
<1>4. /\ confirming' \in [row : Rows \union {Nil}, asking : BOOLEAN]
      /\ confirming'.asking => confirming' = confirming
  BY <1>1 DEF ShelfTypeOK, NothingAsked
<1>5. ShelfTypeOK' /\ AgreedTo'
  BY <1>1, <1>3, <1>4 DEF ShelfTypeOK, AgreedTo
<1>6. OnShelf' = OnShelf
  BY <1>1 DEF OnShelf
<1>7. ReadIsRight' /\ DoneIsDone' /\ AskingIsOpen'
  BY <1>1, <1>3, <1>4, <1>6 DEF ReadIsRight, DoneIsDone, AskingIsOpen
<1>8. ListedIsRight'
  <2> SUFFICES ASSUME ~meddled, box.open, lists = {}
               PROVE  /\ \A r \in box'.rows \ OnShelf : \E u \in wishes' : u.row = r /\ u.step = "done"
                      /\ \A r \in OnShelf \ box'.rows : r \in ShelfCards /\ ShelfColumnOf[r] \in returned
                      /\ \A r \in box'.rows : Apart(r)'
                      /\ \A u \in wishes' : Apart(u.row)'
                      /\ confirming'.asking => Apart(confirming.row)'
    BY <1>1, <1>3, <1>6 DEF ListedIsRight
  <2>1. ASSUME NEW r \in box'.rows \ OnShelf PROVE \E u \in wishes' : u.row = r /\ u.step = "done"
    <3>1. PICK u \in wishes : u.row = r /\ u.step = "done"
      BY <1>3 DEF ListedIsRight
    <3>2. u # w
      BY <1>3, <3>1
    <3> QED
      BY <1>1, <3>1, <3>2
  <2>2. ASSUME NEW r \in OnShelf \ box'.rows
        PROVE  r \in ShelfCards /\ ShelfColumnOf[r] \in returned
    <3>1. r \notin box.rows
      <4>1. w.step = "done" => shelf[w.row] # "archived"
        BY DEF DoneIsDone
      <4> QED
        BY <1>3, <4>1 DEF OnShelf
    <3> QED
      BY <3>1 DEF ListedIsRight
  <2>3. ASSUME NEW x, Apart(x) PROVE Apart(x)'
    BY <1>3, <2>3 DEF Apart
  <2>4. \A r \in box'.rows : Apart(r)'
    BY <1>3, <2>3 DEF ListedIsRight
  <2>5. \A u \in wishes' : Apart(u.row)'
    BY <1>1, <2>3 DEF ListedIsRight
  <2>6. confirming'.asking => Apart(confirming.row)'
    BY <1>4, <2>3 DEF ListedIsRight
  <2> QED
    BY <2>1, <2>2, <2>4, <2>5, <2>6
<1> QED
  BY <1>5, <1>7, <1>8

(* What somebody else does is meddling, and only what was agreed to is gone.  *)
LEMMA ShelfIsMeddled ==
  ASSUME ShelfInv, NEW r \in Rows, OthersAct(r)
  PROVE  ShelfInv'
<1> USE DEF ShelfInv
<1>1. meddled' = TRUE /\ UNCHANGED <<box, lists, wishes, confirming>>
  BY DEF OthersAct
<1>2. \/ shelf' = [shelf EXCEPT ![r] = "archived"] /\ UNCHANGED confirmed
      \/ Brought(r) /\ UNCHANGED confirmed
      \/ Purged(r) /\ confirmed' = confirmed \union {r}
  BY DEF OthersAct
<1>3. /\ shelf' \in [Rows -> {"shown", "archived", "gone"}] /\ confirmed \subseteq confirmed'
      /\ \A x \in Rows : shelf'[x] = "gone" => shelf[x] = "gone" \/ (r \in confirmed' /\ x \in With(r))
  BY <1>2, BroughtBack, PurgedAway DEF ShelfTypeOK
<1>4. ShelfTypeOK'
  BY <1>1, <1>3 DEF ShelfTypeOK
<1>5. AgreedTo'
  BY <1>1, <1>3, RowsAreApart DEF AgreedTo
<1> QED
  BY <1>1, <1>4, <1>5 DEF ReadIsRight, ListedIsRight, DoneIsDone, AskingIsOpen

-----------------------------------------------------------------------------
LEMMA ShelfRests == ShelfInv /\ UNCHANGED shelfVars => ShelfInv'
BY DEF ShelfInv, shelfVars, ShelfTypeOK, AgreedTo, ReadIsRight, ListedIsRight, DoneIsDone, AskingIsOpen,
       OnShelf, Apart

LEMMA ShelfInductive == ShelfInv /\ [ShelfNext]_shelfVars => ShelfInv'
BY ShelfOpens, ShelfCloses, ShelfIsRead, ShelfIsShown, ShelfIsNotRead, ShelfRestores, ShelfAsks,
   ShelfCancels, ShelfConfirms, ShelfServes, ShelfLetsGo, ShelfIsMeddled, ShelfRests
   DEF ShelfNext

LEMMA ShelfInvLists == ShelfInv => ShelfIsListed
<1> SUFFICES ASSUME ShelfInv PROVE ShelfIsListed
  OBVIOUS
<1>1. \A r \in Rows : shelf[r] = "gone" => \E x \in confirmed \ {Nil} : r \in With(x)
  BY DEF ShelfInv, AgreedTo
<1>2. (box.open /\ lists = {} /\ wishes = {} /\ ~meddled) =>
        /\ box.rows \subseteq OnShelf
        /\ \A r \in OnShelf \ box.rows : r \in ShelfCards /\ ShelfColumnOf[r] \in returned
  BY DEF ShelfInv, ListedIsRight
<1> QED
  BY <1>1, <1>2 DEF ShelfIsListed

(* ArchiveModal.vue: whatever is answered when, only what somebody agreed to  *)
(* is destroyed; and a list that was read by itself shows, when nothing is    *)
(* under way, what is on the shelf, but for cards of a column brought back.   *)
THEOREM ShelfIsAsListed == ShelfSpec => []ShelfIsListed
<1>1. ShelfSpec => []ShelfInv
  BY ShelfStarts, ShelfInductive, PTL DEF ShelfSpec
<1> QED
  BY <1>1, ShelfInvLists, PTL

-----------------------------------------------------------------------------
(* BoardAddress, for any cards, comments, filters and numbers of visits.      *)

DisplayState ==
  [card : PageCards \union {Unnamed}, open : BOOLEAN, closing : BOOLEAN,
   highlight : PageComments \union {Unnamed}, filter : Filters, fresh : PageCards \union {Unnamed}]

(* A dialog has a card, and is on its way out or not.                         *)
DialogIsWhole ==
  /\ display.open => display.card # Unnamed /\ ~display.closing
  /\ display.card # Unnamed => display.open \/ display.closing

(* The page shows what an address says; a card that left the address may be   *)
(* about to be let go.                                                        *)
ShowsLike(a) ==
  /\ display.filter = ReadText[a.text] /\ display.highlight = a.comment
  /\ display.card = a.card \/ (display.closing /\ a.card = Unnamed)

(* Either the page has followed the address, or, while a navigation is under  *)
(* way, the address has yet to follow the page.                               *)
InvolvedAgree ==
  ~overtaken => IF going = Unnamed THEN ShowsLike(address) ELSE ShowsLike(address) \/ ShowsLike(going)

AddressInv == AddressTypeOK /\ DialogIsWhole /\ InvolvedAgree

-----------------------------------------------------------------------------
(* What the watchers make of what the page shows.                             *)
LEMMA OpenedFields ==
  ASSUME NEW p \in DisplayState, NEW c \in PageCards
  PROVE  /\ Opened(p, c) \in DisplayState /\ Opened(p, c).card = c /\ Opened(p, c).open
         /\ ~Opened(p, c).closing /\ Opened(p, c).highlight = p.highlight /\ Opened(p, c).filter = p.filter
BY DEF Opened, DisplayState

LEMMA ClosingFields ==
  ASSUME NEW p \in DisplayState
  PROVE  /\ Closing(p) \in DisplayState /\ Closing(p).card = p.card /\ ~Closing(p).open
         /\ Closing(p).closing /\ Closing(p).highlight = p.highlight /\ Closing(p).filter = p.filter
BY DEF Closing, DisplayState

LEMMA WithoutCardFields ==
  ASSUME NEW p \in DisplayState
  PROVE  /\ WithoutCard(p) \in DisplayState /\ WithoutCard(p).card = Unnamed
         /\ WithoutCard(p).open = p.open /\ WithoutCard(p).closing = p.closing
         /\ WithoutCard(p).highlight = Unnamed /\ WithoutCard(p).filter = p.filter
BY DEF WithoutCard, DisplayState

LEMMA FollowedFields ==
  ASSUME AddressTypeOK, NEW a \in Addresses
  PROVE  /\ Followed(display, a) \in DisplayState /\ Followed(display, a).card = display.card
         /\ Followed(display, a).open = display.open /\ Followed(display, a).closing = display.closing
         /\ Followed(display, a).filter = ReadText[a.text]
         /\ Followed(display, a).highlight =
              IF a.comment # address.comment THEN a.comment ELSE display.highlight
<1>1. display \in DisplayState /\ ReadText[a.text] \in Filters /\ a.comment \in PageComments \union {Unnamed}
  BY AddressAssumption DEF AddressTypeOK, DisplayState, Addresses
<1> QED
  BY <1>1 DEF Followed, DisplayState

(* The addresses a page goes to are addresses.                                *)
LEMMA AddressFields ==
  ASSUME NEW a \in Addresses
  PROVE  /\ a # Unnamed /\ a.card \in PageCards \union {Unnamed} /\ a.comment \in PageComments \union {Unnamed}
         /\ a.text \in FilterTexts /\ ReadText[a.text] \in Filters
         /\ a.card = Unnamed => a.comment = Unnamed
BY AddressAssumption DEF Addresses

LEMMA RestFields ==
  ASSUME NEW a \in Addresses
  PROVE  /\ Rest(a) \in Addresses /\ Rest(a).card = Unnamed /\ Rest(a).comment = Unnamed
         /\ Rest(a).text = a.text
BY DEF Addresses, Rest

LEMMA WithFilterFields ==
  ASSUME NEW a \in Addresses, NEW f \in Filters
  PROVE  /\ WithFilter(a, f) \in Addresses /\ WithFilter(a, f).card = a.card
         /\ WithFilter(a, f).comment = a.comment /\ ReadText[WithFilter(a, f).text] = f
BY AddressAssumption DEF Addresses, WithFilter

LEMMA WithCardFields ==
  ASSUME NEW a \in Addresses, NEW c \in PageCards, NEW b, b = [a EXCEPT !.card = c]
  PROVE  b \in Addresses /\ b.card = c /\ b.comment = a.comment /\ b.text = a.text
BY AddressAssumption DEF Addresses

LEMMA AddressInitInv == AddressInit => AddressInv
<1> SUFFICES ASSUME AddressInit PROVE AddressInv
  OBVIOUS
<1>1. address \in Addresses /\ ReadText[address.text] \in Filters
  BY AddressFields DEF AddressInit
<1>2. AddressTypeOK
  <2>1. /\ address.card \in PageCards \union {Unnamed} /\ address.comment \in PageComments \union {Unnamed}
        /\ Rest(address) \in Addresses
    BY <1>1, AddressFields, RestFields
  <2>2. going \in Addresses \union {Unnamed} /\ overtaken \in BOOLEAN
    BY <2>1 DEF AddressInit
  <2>3. display \in DisplayState
    BY <1>1, <2>1 DEF AddressInit, DisplayState
  <2> QED
    BY <1>1, <2>2, <2>3 DEF AddressTypeOK, DisplayState
<1>3. DialogIsWhole
  BY <1>1, AddressFields, RestFields DEF AddressInit, DialogIsWhole
<1>4. InvolvedAgree
  BY <1>1, AddressFields, RestFields, AddressAssumption DEF AddressInit, InvolvedAgree, ShowsLike
<1> QED
  BY <1>2, <1>3, <1>4 DEF AddressInv

(* A page that shows d with a navigation to g under way.                      *)
LEMMA AddressPut ==
  ASSUME NEW d \in DisplayState, display' = d, address' \in Addresses,
         going' \in Addresses \union {Unnamed}, overtaken' \in BOOLEAN,
         d.open => d.card # Unnamed /\ ~d.closing,
         d.card # Unnamed => d.open \/ d.closing,
         InvolvedAgree'
  PROVE  AddressInv'
BY DEF AddressInv, AddressTypeOK, DialogIsWhole, DisplayState

LEMMA ArriveKeeps ==
  ASSUME AddressInv, Arrive
  PROVE  AddressInv'
<1> DEFINE a == going  p == Followed(display, a)
<1>1. /\ a \in Addresses /\ address' = a /\ ShowAddress(a) /\ overtaken' = overtaken
      /\ a # Unnamed /\ overtaken \in BOOLEAN /\ display \in DisplayState
  BY DEF Arrive, AddressInv, AddressTypeOK, DisplayState
<1>2. /\ p \in DisplayState /\ p.card = display.card
      /\ p.open = display.open /\ p.closing = display.closing /\ p.filter = ReadText[a.text]
  BY <1>1, FollowedFields DEF AddressInv
<1>3. ~overtaken => p.highlight = a.comment
  BY <1>1, FollowedFields DEF AddressInv, InvolvedAgree, ShowsLike
<1>4. DialogIsWhole
  BY DEF AddressInv
<1>5. /\ Reworded(a) \in Addresses \union {Unnamed}
      /\ Reworded(a) # Unnamed => /\ Reworded(a).card = a.card /\ Reworded(a).comment = a.comment
                                 /\ ReadText[Reworded(a).text] = ReadText[a.text]
  BY <1>1, AddressFields, WithFilterFields DEF Reworded, Towards
<1>6. a.card \in PageCards \union {Unnamed} /\ (a.card = Unnamed => a.comment = Unnamed)
  BY <1>1, AddressFields
<1> HIDE DEF p, a
<1>7. CASE a.card = display.card
  <2>1. display' = p /\ going' = Reworded(a)
    BY <1>1, <1>7 DEF ShowAddress, p
  <2>2. InvolvedAgree'
    BY <1>1, <1>2, <1>3, <1>5, <1>7, <2>1 DEF InvolvedAgree, ShowsLike
  <2> QED
    BY <1>1, <1>2, <1>4, <1>5, <2>1, <2>2, AddressPut DEF DialogIsWhole
<1>8. CASE a.card # display.card /\ a.card # Unnamed
  <2>1. display' = Opened(p, a.card) /\ going' = Unnamed
    BY <1>1, <1>8 DEF ShowAddress, p
  <2>2. /\ Opened(p, a.card) \in DisplayState /\ Opened(p, a.card).card = a.card /\ Opened(p, a.card).open
        /\ ~Opened(p, a.card).closing /\ Opened(p, a.card).highlight = p.highlight
        /\ Opened(p, a.card).filter = p.filter
    BY <1>2, <1>6, <1>8, OpenedFields
  <2>3. InvolvedAgree'
    BY <1>1, <1>2, <1>3, <2>1, <2>2 DEF InvolvedAgree, ShowsLike
  <2> QED
    BY <1>1, <1>8, <2>1, <2>2, <2>3, AddressPut
<1>9. CASE a.card # display.card /\ a.card = Unnamed /\ display.open
  <2>1. display' = Closing(p) /\ going' = Reworded(a)
    BY <1>1, <1>9 DEF ShowAddress, p
  <2>2. /\ Closing(p) \in DisplayState /\ Closing(p).card = p.card /\ ~Closing(p).open
        /\ Closing(p).closing /\ Closing(p).highlight = p.highlight /\ Closing(p).filter = p.filter
    BY <1>2, ClosingFields
  <2>3. InvolvedAgree'
    BY <1>1, <1>2, <1>3, <1>5, <1>9, <2>1, <2>2 DEF InvolvedAgree, ShowsLike
  <2> QED
    BY <1>1, <1>5, <2>1, <2>2, <2>3, AddressPut
<1>10. CASE a.card # display.card /\ a.card = Unnamed /\ ~display.open
  <2>1. display' = WithoutCard(p) /\ going' = Unnamed
    BY <1>1, <1>10 DEF ShowAddress, p
  <2>2. /\ WithoutCard(p) \in DisplayState /\ WithoutCard(p).card = Unnamed
        /\ WithoutCard(p).open = p.open /\ WithoutCard(p).closing = p.closing
        /\ WithoutCard(p).highlight = Unnamed /\ WithoutCard(p).filter = p.filter
    BY <1>2, WithoutCardFields
  <2>3. InvolvedAgree'
    BY <1>1, <1>2, <1>6, <1>10, <2>1, <2>2 DEF InvolvedAgree, ShowsLike
  <2> QED
    BY <1>1, <1>2, <1>10, <2>1, <2>2, <2>3, AddressPut
<1> QED
  BY <1>7, <1>8, <1>9, <1>10

LEMMA PickCardKeeps ==
  ASSUME AddressInv, NEW c \in PageCards, PickCard(c)
  PROVE  AddressInv'
<1> DEFINE b == [address EXCEPT !.card = c]
<1>1. /\ address \in Addresses /\ overtaken \in BOOLEAN /\ display \in DisplayState
      /\ display' = Opened(display, c) /\ going' = Towards(address, b) /\ address' = address
      /\ overtaken' = (overtaken \/ going # Unnamed)
  BY DEF PickCard, Overtakes, AddressInv, AddressTypeOK, DisplayState
<1>2. b \in Addresses /\ b # Unnamed /\ b.card = c /\ b.comment = address.comment /\ b.text = address.text
  BY <1>1, AddressFields, WithCardFields
<1>3. c # Unnamed
  BY AddressAssumption
<1> HIDE DEF b
<1>4. going' \in Addresses \union {Unnamed}
  BY <1>1, <1>2 DEF Towards
<1>5. InvolvedAgree'
  <2>1. /\ display'.card = c /\ display'.highlight = display.highlight /\ display'.filter = display.filter
    BY <1>1, OpenedFields
  <2>2. CASE overtaken \/ going # Unnamed
    BY <1>1, <2>2 DEF InvolvedAgree
  <2>3. CASE ~overtaken /\ going = Unnamed
    <3>1. ShowsLike(address)
      BY <2>3 DEF AddressInv, InvolvedAgree
    <3>2. CASE b = address
      BY <1>1, <1>2, <2>1, <3>1, <3>2 DEF ShowsLike, InvolvedAgree, Towards
    <3>3. CASE b # address
      BY <1>1, <1>2, <2>1, <3>1, <3>3 DEF ShowsLike, InvolvedAgree, Towards
    <3> QED
      BY <3>2, <3>3
  <2> QED
    BY <2>2, <2>3
<1> QED
  BY <1>1, <1>3, <1>4, <1>5, OpenedFields, AddressPut

LEMMA LetGoKeeps ==
  ASSUME AddressInv, LetGo
  PROVE  AddressInv'
<1> DEFINE done == [display EXCEPT !.closing = FALSE]
<1>1. /\ address \in Addresses /\ overtaken \in BOOLEAN /\ display \in DisplayState /\ display.closing
      /\ address' = address /\ going \in Addresses \union {Unnamed} /\ ~display.open
  BY DEF LetGo, AddressInv, AddressTypeOK, DisplayState, DialogIsWhole
<1>2. /\ done \in DisplayState /\ done.card = display.card /\ done.open = display.open /\ ~done.closing
      /\ done.highlight = display.highlight /\ done.filter = display.filter
  BY <1>1 DEF DisplayState
<1>3. CASE display.card = Unnamed
  <2>1. display' = done /\ going' = going /\ overtaken' = overtaken
    BY <1>3 DEF LetGo
  <2> HIDE DEF done
  <2>2. InvolvedAgree'
    BY <1>1, <1>2, <1>3, <2>1 DEF InvolvedAgree, ShowsLike, AddressInv
  <2> QED
    BY <1>1, <1>2, <1>3, <2>1, <2>2, AddressPut
<1>4. CASE display.card # Unnamed
  <2>1. /\ display' = WithoutCard(done) /\ going' = Towards(address, Rest(address))
        /\ overtaken' = (overtaken \/ going # Unnamed)
    BY <1>4 DEF LetGo, Overtakes
  <2> HIDE DEF done
  <2>2. going' \in Addresses \union {Unnamed}
    BY <1>1, <2>1, RestFields DEF Towards
  <2>3. InvolvedAgree'
    <3>1. /\ display'.card = Unnamed /\ display'.highlight = Unnamed /\ display'.filter = display.filter
      BY <1>2, <2>1, WithoutCardFields
    <3>2. CASE overtaken \/ going # Unnamed
      BY <2>1, <3>2 DEF InvolvedAgree
    <3>3. CASE ~overtaken /\ going = Unnamed
      <4>1. ShowsLike(address)
        BY <3>3 DEF AddressInv, InvolvedAgree
      <4>2. CASE Rest(address) = address
        BY <1>1, <2>1, <3>1, <4>1, <4>2, RestFields DEF ShowsLike, InvolvedAgree, Towards
      <4>3. CASE Rest(address) # address
        BY <1>1, <2>1, <3>1, <4>1, <4>3, RestFields, AddressFields DEF ShowsLike, InvolvedAgree, Towards
      <4> QED
        BY <4>2, <4>3
    <3> QED
      BY <3>2, <3>3
  <2> QED
    BY <1>1, <1>2, <2>1, <2>2, <2>3, WithoutCardFields, AddressPut
<1> QED
  BY <1>3, <1>4

LEMMA NarrowKeeps ==
  ASSUME AddressInv, NEW f \in Filters, Narrow(f)
  PROVE  AddressInv'
<1> DEFINE d == [display EXCEPT !.filter = f]
<1>1. /\ address \in Addresses /\ overtaken \in BOOLEAN /\ display \in DisplayState
      /\ going \in Addresses \union {Unnamed} /\ DialogIsWhole
      /\ display' = d /\ address' = address /\ overtaken' = (overtaken \/ going # Unnamed)
      /\ going' = IF WithFilter(address, f) = address THEN going ELSE WithFilter(address, f)
  BY DEF Narrow, Overtakes, AddressInv, AddressTypeOK, DisplayState
<1>2. /\ d \in DisplayState /\ d.card = display.card /\ d.open = display.open /\ d.closing = display.closing
      /\ d.highlight = display.highlight /\ d.filter = f
  BY <1>1 DEF DisplayState
<1>3. /\ WithFilter(address, f) \in Addresses /\ WithFilter(address, f).card = address.card
      /\ WithFilter(address, f) # Unnamed /\ WithFilter(address, f).comment = address.comment
      /\ ReadText[WithFilter(address, f).text] = f
  BY <1>1, AddressFields, WithFilterFields
<1> HIDE DEF d
<1>4. InvolvedAgree'
  BY <1>1, <1>2, <1>3 DEF InvolvedAgree, ShowsLike, AddressInv
<1> QED
  BY <1>1, <1>2, <1>3, <1>4, AddressPut DEF DialogIsWhole

LEMMA AddressStepInv == AddressInv /\ [AddressNext]_addressVars => AddressInv'
<1> SUFFICES ASSUME AddressInv, [AddressNext]_addressVars PROVE AddressInv'
  OBVIOUS
<1>0. /\ address \in Addresses /\ overtaken \in BOOLEAN /\ display \in DisplayState
      /\ going \in Addresses \union {Unnamed} /\ DialogIsWhole
  BY DEF AddressInv, AddressTypeOK, DisplayState
<1>1. ASSUME NEW c \in PageCards, MakeCard(c) PROVE AddressInv'
  <2> DEFINE d == [display EXCEPT !.fresh = c]
  <2>1. display' = d /\ UNCHANGED <<address, going, overtaken>>
    BY <1>1 DEF MakeCard
  <2>2. /\ d \in DisplayState /\ d.card = display.card /\ d.open = display.open /\ d.closing = display.closing
        /\ d.highlight = display.highlight /\ d.filter = display.filter
    BY <1>0 DEF DisplayState
  <2> HIDE DEF d
  <2> QED
    BY <1>0, <2>1, <2>2, AddressPut DEF DialogIsWhole, InvolvedAgree, ShowsLike, AddressInv
<1>2. CASE CloseDialog
  <2>1. display' = Closing(display) /\ UNCHANGED <<address, going, overtaken>> /\ display.open
    BY <1>2 DEF CloseDialog
  <2>2. InvolvedAgree'
    BY <1>0, <2>1, ClosingFields DEF DialogIsWhole, InvolvedAgree, ShowsLike, AddressInv
  <2> QED
    BY <1>0, <2>1, <2>2, ClosingFields, AddressPut
<1>3. ASSUME NEW a \in Addresses, Visit(a) PROVE AddressInv'
  <2>1. /\ UNCHANGED <<address, display>> /\ going' = Towards(address, a)
        /\ overtaken' = (overtaken \/ going # Unnamed)
    BY <1>3 DEF Visit, Overtakes
  <2>2. going' \in Addresses \union {Unnamed}
    BY <1>3, <2>1 DEF Towards
  <2>3. InvolvedAgree'
    BY <2>1 DEF InvolvedAgree, ShowsLike, AddressInv
  <2> QED
    BY <1>0, <2>1, <2>2, <2>3, AddressPut DEF DialogIsWhole
<1>4. CASE UNCHANGED addressVars
  BY <1>4 DEF addressVars, AddressInv, AddressTypeOK, DialogIsWhole, InvolvedAgree, ShowsLike
<1> QED
  BY <1>1, <1>2, <1>3, <1>4, PickCardKeeps, LetGoKeeps, ArriveKeeps, NarrowKeeps DEF AddressNext

(* Once the page rests and nothing was done while a navigation was under way, *)
(* its address says what it shows ([id].vue), for any cards, comments and     *)
(* filters.                                                                   *)
THEOREM AddressSaysWhatIsShown == AddressSpec => []AddressAgrees
<1>1. AddressInv => AddressAgrees
  BY DEF AddressInv, InvolvedAgree, ShowsLike, DialogIsWhole, AddressAgrees, AddressQuiet, Agrees,
         AddressTypeOK
<1> QED
  BY <1>1, AddressInitInv, AddressStepInv, PTL DEF AddressSpec

-----------------------------------------------------------------------------
(* OpenCard                                                                   *)

CardTexts == Texts \cup {NoText}
Ticks == BOOLEAN \cup {Unsaid}
RowState == [text : CardTexts, done : BOOLEAN, due : BOOLEAN, files : SUBSET OpenFiles]
CopyState == [text : CardTexts \cup {Unsaid}, done : Ticks, due : BOOLEAN, files : SUBSET OpenFiles]
SaveState == [by : Editors, text : CardTexts \cup {Unsaid}, done : Ticks, due : BOOLEAN]
ToldState == [by : Editors, text : CardTexts \cup {Unsaid}, done : Ticks, due : Ticks, files : SUBSET OpenFiles]
IsReread(f) ==
  /\ f = [by |-> f.by, no |-> f.no, answer |-> f.answer]
  /\ f.by \in Editors /\ f.answer \in RowState \cup {Unsaid}

OpenTypes ==
  /\ row \in RowState /\ dialog \in [Editors -> CopyState] /\ writing \in [Editors -> BOOLEAN]
  /\ saves \subseteq SaveState /\ telling \subseteq ToldState /\ hears \in [Editors -> Seq(ToldState)]
  /\ said \in [text : CardTexts, done : BOOLEAN, due : BOOLEAN]
  /\ (\A f \in rereads : IsReread(f)) /\ mixed \in BOOLEAN

(* Does a copy, a save or a message say what was said last?                   *)
SaysIt(x) == x.text = said.text /\ x.done = said.done /\ x.due = said.due
TellsIt(m) == SaysIt(m) /\ m.files = OpenFiles
OnItsWayTo(t) == (\E r \in saves : r.by # t) \/ (\E m \in telling : m.by # t) \/ hears[t] # << >>

(* What is under way says what was said last, and what does not say it yet    *)
(* will be told.                                                              *)
WordsFollow ==
  /\ \A r \in saves : SaysIt(r)
  /\ \A m \in telling : TellsIt(m)
  /\ \A t \in Editors : \A i \in 1..Len(hears[t]) : TellsIt(hears[t][i])
  /\ \A t \in Editors : dialog[t].files = OpenFiles
  /\ SaysIt(row) \/ saves # {}
  /\ \A t \in Editors \ behind : SaysIt(dialog[t]) \/ OnItsWayTo(t)

OpenInv == OpenTypes /\ (~mixed /\ ~Removed => WordsFollow)

(* Where an edit may be made without crossing another all say the same.       *)
LEMMA StillSaysIt ==
  ASSUME OpenInv, ~mixed, ~Removed, ~Traffic
  PROVE  /\ SaysIt(row) /\ \A t \in Editors \ behind : SaysIt(dialog[t])
         /\ saves = {} /\ telling = {} /\ \A t \in Editors : hears[t] = << >>
         /\ \A t \in Editors : dialog[t].files = OpenFiles
BY DEF OpenInv, WordsFollow, OnItsWayTo, Traffic

LEMMA OpenBegins == OpenInit => OpenInv
<1> SUFFICES ASSUME OpenInit PROVE OpenInv
  OBVIOUS
<1>1. FirstCopy \in RowState /\ FirstCopy \in CopyState
  BY OpenCardAssumption DEF FirstCopy, RowState, CopyState, CardTexts, Ticks
<1>2. said \in [text : CardTexts, done : BOOLEAN, due : BOOLEAN] /\ hears \in [Editors -> Seq(ToldState)]
  BY OpenCardAssumption DEF OpenInit, CardTexts
<1>3. OpenTypes
  BY <1>1, <1>2 DEF OpenInit, OpenTypes
<1>4. SaysIt(FirstCopy) /\ FirstCopy.files = OpenFiles
  BY DEF OpenInit, SaysIt, FirstCopy
<1>5. \A t \in Editors : dialog[t] = FirstCopy /\ hears[t] = << >>
  BY DEF OpenInit
<1>6. WordsFollow
  BY <1>4, <1>5 DEF OpenInit, WordsFollow
<1> QED
  BY <1>3, <1>6 DEF OpenInv

LEMMA SaveFields ==
  ASSUME NEW t \in Editors, NEW d \in CopyState
  PROVE  /\ SaveOf(t, d) \in SaveState /\ SaveOf(t, d).by = t
         /\ SaveOf(t, d).text = d.text /\ SaveOf(t, d).done = d.done /\ SaveOf(t, d).due = d.due
BY DEF SaveOf, SaveState, CopyState

(* An edit: of one field, by a tab that said what all say.                    *)
LEMMA EditKeeps ==
  ASSUME OpenInv, NEW t \in Editors, NEW d \in CopyState, Edit(t, d), d.files = dialog[t].files,
         said' \in [text : CardTexts, done : BOOLEAN, due : BOOLEAN], writing' \in [Editors -> BOOLEAN],
         SaysIt(dialog[t]) => d.text = said'.text /\ d.done = said'.done /\ d.due = said'.due
  PROVE  OpenInv'
<1>1. /\ dialog' = [dialog EXCEPT ![t] = d] /\ saves' = saves \cup {SaveOf(t, d)}
      /\ mixed' = (mixed \/ Traffic \/ t \in behind)
      /\ UNCHANGED <<row, telling, hears, rereads, behind>>
  BY DEF Edit
<1>2. OpenTypes'
  BY <1>1, SaveFields DEF OpenInv, OpenTypes
<1>3. ASSUME ~mixed', ~Removed' PROVE WordsFollow'
  <2>1. ~mixed /\ ~Traffic /\ t \notin behind /\ ~Removed
    BY <1>1, <1>3 DEF Removed
  <2>2. /\ SaysIt(dialog[t]) /\ saves' = {SaveOf(t, d)} /\ telling' = {}
        /\ \A u \in Editors : hears'[u] = << >> /\ dialog[u].files = OpenFiles
    BY <1>1, <2>1, StillSaysIt
  <2>3. SaysIt(SaveOf(t, d))' /\ SaveOf(t, d).by = t
    BY <2>2, SaveFields DEF SaysIt
  <2>4. \A u \in Editors : dialog'[u].files = OpenFiles
    BY <1>1, <2>2 DEF OpenInv, OpenTypes
  <2>5. \A u \in Editors : SaysIt(dialog[u])' \/ OnItsWayTo(u)'
    <3> SUFFICES ASSUME NEW u \in Editors PROVE SaysIt(dialog[u])' \/ OnItsWayTo(u)'
      OBVIOUS
    <3>1. CASE u = t
      BY <1>1, <2>2, <3>1 DEF OpenInv, OpenTypes, SaysIt
    <3>2. CASE u # t
      BY <2>2, <2>3, <3>2 DEF OnItsWayTo
    <3> QED
      BY <3>1, <3>2
  <2> QED
    BY <2>2, <2>3, <2>4, <2>5 DEF WordsFollow
<1> QED
  BY <1>2, <1>3 DEF OpenInv

LEMMA EditsOfCardKeep ==
  ASSUME OpenInv, NEW t \in Editors, EditText(t) \/ ToggleStatus(t) \/ ClearOrSetDue(t)
  PROVE  OpenInv'
<1> USE DEF CopyState
<1>1. dialog[t] \in CopyState /\ said \in [text : CardTexts, done : BOOLEAN, due : BOOLEAN]
      /\ writing \in [Editors -> BOOLEAN]
  BY DEF OpenInv, OpenTypes
<1>2. CASE EditText(t)
  <2>1. PICK w \in Texts : /\ Edit(t, [dialog[t] EXCEPT !.text = w])
                           /\ said' = [said EXCEPT !.text = w] /\ UNCHANGED writing
    BY <1>2 DEF EditText
  <2>2. [dialog[t] EXCEPT !.text = w] \in CopyState
    BY <1>1 DEF CardTexts
  <2>3. said' \in [text : CardTexts, done : BOOLEAN, due : BOOLEAN]
    BY <1>1, <2>1 DEF CardTexts
  <2> QED
    BY <1>1, <2>1, <2>2, <2>3, EditKeeps DEF SaysIt
<1>3. CASE ToggleStatus(t)
  <2>1. /\ Edit(t, [dialog[t] EXCEPT !.done = (@ # TRUE)])
        /\ said' = [said EXCEPT !.done = (dialog[t].done # TRUE)] /\ UNCHANGED writing
    BY <1>3 DEF ToggleStatus
  <2>2. [dialog[t] EXCEPT !.done = (@ # TRUE)] \in CopyState
    BY <1>1 DEF Ticks
  <2>3. said' \in [text : CardTexts, done : BOOLEAN, due : BOOLEAN]
    BY <1>1, <2>1
  <2> QED
    BY <1>1, <2>1, <2>2, <2>3, EditKeeps DEF SaysIt
<1>4. CASE ClearOrSetDue(t)
  <2>1. /\ Edit(t, [dialog[t] EXCEPT !.due = ~@])
        /\ said' = [said EXCEPT !.due = ~dialog[t].due] /\ UNCHANGED writing
    BY <1>4 DEF ClearOrSetDue
  <2>2. [dialog[t] EXCEPT !.due = ~@] \in CopyState
    BY <1>1
  <2>3. said' \in [text : CardTexts, done : BOOLEAN, due : BOOLEAN]
    BY <1>1, <2>1
  <2> QED
    BY <1>1, <2>1, <2>2, <2>3, EditKeeps DEF SaysIt
<1> QED
  BY <1>2, <1>3, <1>4

(* An attachment that is gone stays gone.                                     *)
LEMMA DeleteOpenFileKeeps ==
  ASSUME OpenInv, NEW t \in Editors, DeleteAttachment(t)
  PROVE  OpenInv'
<1>1. PICK f \in dialog[t].files :
        /\ mixed' = (mixed \/ Traffic \/ behind # {})
        /\ row' = [row EXCEPT !.files = @ \ {f}]
        /\ dialog' = [dialog EXCEPT ![t].files = @ \ {f}]
        /\ telling' = telling \cup {[by |-> t, text |-> Unsaid, done |-> Unsaid, due |-> Unsaid,
                                     files |-> dialog[t].files \ {f}]}
        /\ UNCHANGED <<writing, saves, hears, rereads, said, behind>>
  BY DEF DeleteAttachment
<1>2. dialog[t] \in CopyState /\ dialog[t].files \subseteq OpenFiles
  BY DEF OpenInv, OpenTypes, CopyState
<1>3. [dialog[t] EXCEPT !.files = @ \ {f}] \in CopyState
  BY <1>2 DEF CopyState
<1>4. row' \in RowState /\ row'.files # OpenFiles
  BY <1>1, <1>2 DEF OpenInv, OpenTypes, RowState
<1>5. telling' \subseteq ToldState
  BY <1>1, <1>2 DEF OpenInv, OpenTypes, ToldState, Ticks
<1>6. OpenTypes'
  BY <1>1, <1>3, <1>4, <1>5 DEF OpenInv, OpenTypes
<1> QED
  BY <1>4, <1>6 DEF OpenInv, Removed

(* card PUT: the row says what the request said, and so do those it tells.    *)
LEMMA StoredFields ==
  ASSUME row \in RowState, NEW r \in SaveState
  PROVE  /\ Stored(r) \in RowState /\ Stored(r).files = row.files
         /\ r.text # Unsaid => Stored(r).text = r.text
         /\ Stored(r).done = (r.done = TRUE) /\ Stored(r).due = (r.due = TRUE)
<1> DEFINE x == IF r.text = Unsaid THEN NoText ELSE r.text
           y == r.done = TRUE
           z == r.due = TRUE
<1>1. x \in CardTexts /\ y \in BOOLEAN /\ z \in BOOLEAN
  BY DEF SaveState, CardTexts
<1>2. Stored(r) = [row EXCEPT !.text = x, !.done = y, !.due = z]
  BY Zenon DEF Stored
<1>3. r.text # Unsaid => x = r.text
  OBVIOUS
<1> HIDE DEF x, y, z
<1>4. /\ Stored(r) \in RowState /\ Stored(r).text = x /\ Stored(r).done = y /\ Stored(r).due = z
      /\ Stored(r).files = row.files
  BY <1>1, <1>2 DEF RowState
<1> QED
  BY <1>3, <1>4, Zenon DEF y, z

LEMMA PutSaveKeeps ==
  ASSUME OpenInv, NEW r \in saves, Put(r)
  PROVE  OpenInv'
<1> DEFINE told == [by |-> r.by, text |-> Stored(r).text, done |-> Stored(r).done,
                    due |-> Stored(r).due, files |-> dialog[r.by].files]
<1>1. /\ saves' = saves \ {r} /\ row' = Stored(r) /\ telling' = telling \cup {told}
      /\ UNCHANGED <<dialog, writing, hears, rereads, said, mixed, behind>>
  BY DEF Put
<1>2. r \in SaveState /\ r.by \in Editors /\ row \in RowState
  BY DEF OpenInv, OpenTypes, SaveState
<1>3. /\ Stored(r) \in RowState /\ Stored(r).files = row.files
      /\ r.text # Unsaid => Stored(r).text = r.text
      /\ Stored(r).done = (r.done = TRUE) /\ Stored(r).due = (r.due = TRUE)
  BY <1>2, StoredFields
<1>4. told \in ToldState
  BY <1>2, <1>3 DEF OpenInv, OpenTypes, ToldState, RowState, CopyState, Ticks
<1>5. OpenTypes'
  BY <1>1, <1>3, <1>4 DEF OpenInv, OpenTypes
<1>6. ASSUME ~mixed', ~Removed' PROVE WordsFollow'
  <2>1. WordsFollow /\ SaysIt(r)
    BY <1>1, <1>3, <1>6 DEF OpenInv, Removed, WordsFollow
  <2>2. said.text \in CardTexts /\ said.text # Unsaid /\ said.done \in BOOLEAN /\ said.due \in BOOLEAN
    BY OpenCardAssumption DEF OpenInv, OpenTypes, CardTexts
  <2>3. SaysIt(Stored(r))
    BY <1>3, <2>1, <2>2 DEF SaysIt
  <2>4. TellsIt(told)
    BY <1>2, <2>1, <2>3 DEF TellsIt, SaysIt, WordsFollow
  <2>5. SaysIt(row)' /\ \A m \in telling' : TellsIt(m)'
    BY <1>1, <2>1, <2>3, <2>4 DEF TellsIt, SaysIt, WordsFollow
  <2>6. told \in telling' /\ told.by = r.by
    BY <1>1
  <2>7. \A t \in Editors \ behind' : SaysIt(dialog[t])' \/ OnItsWayTo(t)'
    <3> SUFFICES ASSUME NEW t \in Editors, t \notin behind, ~SaysIt(dialog[t]) PROVE OnItsWayTo(t)'
      BY <1>1 DEF SaysIt
    <3> HIDE DEF told
    <3>1. OnItsWayTo(t)
      BY <2>1 DEF WordsFollow
    <3> QED
      BY <1>1, <2>6, <3>1 DEF OnItsWayTo
  <2> QED
    BY <1>1, <2>1, <2>5, <2>7 DEF WordsFollow, SaysIt, TellsIt
<1> QED
  BY <1>5, <1>6 DEF OpenInv

LEMMA PutByKeyKeeps == OpenInv /\ PutByKey => OpenInv'
<1> SUFFICES ASSUME OpenInv, PutByKey PROVE OpenInv'
  OBVIOUS
<1>1. PICK w \in Texts :
        /\ mixed' = (mixed \/ Traffic)
        /\ row' = [row EXCEPT !.text = w] /\ said' = [said EXCEPT !.text = w] /\ behind' = Editors
        /\ UNCHANGED <<dialog, writing, saves, telling, hears, rereads>>
  BY DEF PutByKey
<1>2. OpenTypes' /\ row'.files = row.files
  BY <1>1 DEF OpenInv, OpenTypes, RowState, CardTexts
<1>3. ASSUME ~mixed', ~Removed' PROVE WordsFollow'
  <2>1. /\ SaysIt(row) /\ saves' = {} /\ telling' = {} /\ \A t \in Editors : hears'[t] = << >>
        /\ \A t \in Editors : dialog'[t].files = OpenFiles
    BY <1>1, <1>2, <1>3, StillSaysIt DEF Removed
  <2>2. SaysIt(row)'
    BY <1>1, <2>1 DEF SaysIt, OpenInv, OpenTypes, RowState
  <2> QED
    BY <1>1, <2>1, <2>2 DEF WordsFollow
<1> QED
  BY <1>2, <1>3 DEF OpenInv

LEMMA PassOnKeeps ==
  ASSUME OpenInv, NEW m \in telling, PassOn(m)
  PROVE  OpenInv'
<1> DEFINE deaf(t) == t = m.by \/ t \in away
<1>1. /\ telling' = telling \ {m} /\ behind' = behind \cup (away \ {m.by})
      /\ hears' = [t \in Editors |-> IF deaf(t) THEN hears[t] ELSE Append(hears[t], m)]
      /\ UNCHANGED <<row, dialog, writing, saves, rereads, said, mixed>>
  BY DEF PassOn
<1>2. m \in ToldState /\ hears \in [Editors -> Seq(ToldState)]
  BY DEF OpenInv, OpenTypes
<1>3. hears' \in [Editors -> Seq(ToldState)]
  BY <1>1, <1>2
<1>4. OpenTypes'
  BY <1>1, <1>3 DEF OpenInv, OpenTypes
<1>5. ASSUME ~mixed', ~Removed' PROVE WordsFollow'
  <2>1. WordsFollow /\ TellsIt(m)
    BY <1>1, <1>5 DEF OpenInv, Removed, WordsFollow
  <2>2. \A t \in Editors : \A i \in 1..Len(hears'[t]) : TellsIt(hears'[t][i])
    <3> SUFFICES ASSUME NEW t \in Editors, NEW i \in 1..Len(hears'[t]) PROVE TellsIt(hears'[t][i])
      OBVIOUS
    <3>1. hears[t] \in Seq(ToldState) /\ hears'[t] \in {hears[t], Append(hears[t], m)}
      BY <1>1, <1>2
    <3>2. (i \in 1..Len(hears[t]) /\ hears'[t][i] = hears[t][i]) \/ hears'[t][i] = m
      BY <3>1
    <3> QED
      BY <2>1, <3>2 DEF WordsFollow
  <2>3. \A t \in Editors \ behind' : SaysIt(dialog[t])' \/ OnItsWayTo(t)'
    <3> SUFFICES ASSUME NEW t \in Editors, t \notin behind', ~SaysIt(dialog[t]) PROVE OnItsWayTo(t)'
      BY <1>1 DEF SaysIt
    <3>1. OnItsWayTo(t) /\ (t = m.by \/ t \notin away)
      BY <1>1, <2>1 DEF WordsFollow
    <3>2. hears[t] \in Seq(ToldState) /\ (t # m.by => hears'[t] = Append(hears[t], m))
          /\ (t = m.by => hears'[t] = hears[t])
      BY <1>1, <1>2, <3>1
    <3>3. t # m.by => hears'[t] # << >>
      BY <1>2, <3>2
    <3> QED
      BY <1>1, <3>1, <3>2, <3>3 DEF OnItsWayTo
  <2> QED
    BY <1>1, <2>1, <2>2, <2>3 DEF WordsFollow, SaysIt, TellsIt
<1> QED
  BY <1>4, <1>5 DEF OpenInv

(* What a dialog takes over it has, and what it saves of it says the same.    *)
LEMMA TakenFields ==
  ASSUME NEW d \in CopyState, NEW m \in ToldState \cup RowState
  PROVE  /\ Taken(d, m) \in CopyState /\ Taken(d, m).files = m.files
         /\ Taken(d, m).text = m.text /\ Taken(d, m).done = m.done
         /\ m.due # Unsaid => Taken(d, m).due = m.due
<1>1. m.files \subseteq OpenFiles /\ m.text \in CardTexts \cup {Unsaid} /\ m.done \in Ticks /\ m.due \in Ticks
  BY DEF ToldState, RowState, Ticks
<1>2. d.due \in BOOLEAN
  BY DEF CopyState
<1>3. (IF m.due = Unsaid THEN d.due ELSE m.due) \in BOOLEAN
  BY <1>1, <1>2 DEF Ticks
<1> QED
  BY <1>1, <1>3 DEF Taken, CopyState

LEMMA TakeOverTypes ==
  ASSUME OpenTypes, NEW t \in Editors, NEW m \in ToldState \cup RowState, TakeOver(t, m, saves)
  PROVE  /\ dialog' = [dialog EXCEPT ![t] = Taken(dialog[t], m)] /\ dialog' \in [Editors -> CopyState]
         /\ saves \subseteq saves' /\ saves' \subseteq saves \cup {SaveOf(t, Taken(dialog[t], m))}
         /\ saves' \subseteq SaveState
<1>1. Taken(dialog[t], m) \in CopyState
  BY TakenFields DEF OpenTypes
<1>2. SaveOf(t, Taken(dialog[t], m)) \in SaveState
  BY <1>1, SaveFields
<1>3. /\ dialog' = [dialog EXCEPT ![t] = Taken(dialog[t], m)]
      /\ saves \subseteq saves' /\ saves' \subseteq saves \cup {SaveOf(t, Taken(dialog[t], m))}
  BY DEF TakeOver
<1> QED
  BY <1>1, <1>2, <1>3 DEF OpenTypes

(* A dialog that hears what was said last says it too.                        *)
LEMMA TakeOverSaysIt ==
  ASSUME OpenTypes, NEW t \in Editors, NEW m \in ToldState \cup RowState, TakeOver(t, m, saves),
         TellsIt(m), WordsFollow, UNCHANGED said
  PROVE  /\ SaysIt(dialog[t])' /\ \A u \in Editors \ {t} : dialog'[u] = dialog[u]
         /\ \A u \in Editors : dialog'[u].files = OpenFiles
         /\ \A r \in saves' : SaysIt(r)'
<1>1. dialog[t] \in CopyState /\ said.due # Unsaid
  BY OpenCardAssumption DEF OpenTypes
<1>2. /\ Taken(dialog[t], m) \in CopyState /\ SaysIt(Taken(dialog[t], m))
      /\ Taken(dialog[t], m).files = OpenFiles
  BY <1>1, TakenFields DEF TellsIt, SaysIt
<1>3. SaysIt(SaveOf(t, Taken(dialog[t], m)))
  BY <1>2, SaveFields DEF SaysIt
<1>4. /\ dialog' = [dialog EXCEPT ![t] = Taken(dialog[t], m)]
      /\ saves' \subseteq saves \cup {SaveOf(t, Taken(dialog[t], m))}
  BY TakeOverTypes
<1>5. dialog'[t] = Taken(dialog[t], m) /\ \A u \in Editors \ {t} : dialog'[u] = dialog[u]
  BY <1>4 DEF OpenTypes
<1>6. SaysIt(dialog[t])'
  BY <1>2, <1>5 DEF SaysIt
<1>7. \A u \in Editors : dialog'[u].files = OpenFiles
  BY <1>2, <1>5 DEF WordsFollow
<1>8. \A r \in saves' : SaysIt(r)'
  BY <1>3, <1>4 DEF WordsFollow, SaysIt
<1> QED
  BY <1>5, <1>6, <1>7, <1>8

LEMMA HearUpdateKeeps ==
  ASSUME OpenInv, NEW t \in Editors, HearUpdate(t)
  PROVE  OpenInv'
<1> DEFINE m == Head(hears[t])
<1>1. /\ hears[t] # << >> /\ hears' = [hears EXCEPT ![t] = Tail(@)] /\ TakeOver(t, m, saves)
      /\ UNCHANGED <<row, writing, telling, rereads, said, mixed, behind>>
  BY DEF HearUpdate
<1>2. hears[t] \in Seq(ToldState) /\ OpenTypes
  BY DEF OpenInv, OpenTypes
<1>3. m \in ToldState /\ m = hears[t][1] /\ 1 \in 1..Len(hears[t]) /\ Tail(hears[t]) \in Seq(ToldState)
      /\ \A i \in 1..Len(Tail(hears[t])) : Tail(hears[t])[i] = hears[t][i + 1] /\ i + 1 \in 1..Len(hears[t])
  BY <1>1, <1>2
<1> HIDE DEF m
<1>4. /\ dialog' \in [Editors -> CopyState] /\ saves \subseteq saves' /\ saves' \subseteq SaveState
  BY <1>1, <1>2, <1>3, TakeOverTypes
<1>5. OpenTypes'
  BY <1>1, <1>3, <1>4 DEF OpenInv, OpenTypes
<1>6. ASSUME ~mixed', ~Removed' PROVE WordsFollow'
  <2>1. WordsFollow
    BY <1>1, <1>6 DEF OpenInv, Removed
  <2>2. TellsIt(m)
    BY <1>3, <2>1 DEF WordsFollow
  <2>3. /\ SaysIt(dialog[t])' /\ \A u \in Editors \ {t} : dialog'[u] = dialog[u]
        /\ \A u \in Editors : dialog'[u].files = OpenFiles
        /\ \A r \in saves' : SaysIt(r)'
    BY <1>1, <1>2, <1>3, <2>1, <2>2, TakeOverSaysIt
  <2>4. hears'[t] = Tail(hears[t]) /\ \A u \in Editors \ {t} : hears'[u] = hears[u]
    BY <1>1 DEF OpenInv, OpenTypes
  <2>5. \A u \in Editors : \A i \in 1..Len(hears'[u]) : TellsIt(hears'[u][i])
    <3>1. \A i \in 1..Len(hears'[t]) : TellsIt(hears'[t][i])
      BY <1>3, <2>1, <2>4 DEF WordsFollow
    <3>2. ASSUME NEW u \in Editors \ {t}, NEW i \in 1..Len(hears'[u]) PROVE TellsIt(hears'[u][i])
      BY <2>1, <2>4 DEF WordsFollow
    <3> QED
      BY <3>1, <3>2
  <2>6. \A u \in Editors \ behind' : SaysIt(dialog[u])' \/ OnItsWayTo(u)'
    <3> SUFFICES ASSUME NEW u \in Editors, u \notin behind, u # t, ~SaysIt(dialog[u]) PROVE OnItsWayTo(u)'
      BY <1>1, <2>3 DEF SaysIt
    <3>1. OnItsWayTo(u)
      BY <2>1 DEF WordsFollow
    <3> QED
      BY <1>1, <1>4, <2>4, <3>1 DEF OnItsWayTo
  <2>7. (SaysIt(row) \/ saves # {})'
    BY <1>1, <1>4, <2>1 DEF WordsFollow, SaysIt
  <2> QED
    BY <1>1, <2>1, <2>3, <2>5, <2>6, <2>7 DEF WordsFollow, SaysIt, TellsIt
<1> QED
  BY <1>5, <1>6 DEF OpenInv

LEMMA LoseLineKeeps ==
  ASSUME OpenInv, NEW t \in Editors, LoseLine(t)
  PROVE  OpenInv'
<1>1. /\ behind' = IF hears[t] # << >> THEN behind \cup {t} ELSE behind
      /\ hears' = [hears EXCEPT ![t] = << >>]
      /\ UNCHANGED <<row, dialog, writing, saves, telling, rereads, said, mixed>>
  BY DEF LoseLine
<1>2. OpenTypes' /\ hears'[t] = << >> /\ \A u \in Editors \ {t} : hears'[u] = hears[u]
  BY <1>1 DEF OpenInv, OpenTypes
<1>3. ASSUME ~mixed', ~Removed' PROVE WordsFollow'
  <2>1. WordsFollow
    BY <1>1, <1>3 DEF OpenInv, Removed
  <2>2. \A u \in Editors \ behind' : SaysIt(dialog[u])' \/ OnItsWayTo(u)'
    <3> SUFFICES ASSUME NEW u \in Editors, u \notin behind', ~SaysIt(dialog[u]) PROVE OnItsWayTo(u)'
      BY <1>1 DEF SaysIt
    <3>1. OnItsWayTo(u) /\ hears'[u] = hears[u]
      BY <1>1, <1>2, <2>1 DEF WordsFollow
    <3> QED
      BY <1>1, <3>1 DEF OnItsWayTo
  <2>3. \A u \in Editors : \A i \in 1..Len(hears'[u]) : TellsIt(hears'[u][i])
    BY <1>2, <2>1 DEF WordsFollow
  <2> QED
    BY <1>1, <2>1, <2>2, <2>3 DEF WordsFollow, SaysIt, TellsIt
<1> QED
  BY <1>2, <1>3 DEF OpenInv

(* A tab that is back asks, and is answered with the row.                     *)
LEMMA RereadKeeps ==
  ASSUME OpenInv, rereads' \subseteq rereads \/ (\A f \in rereads' \ rereads : IsReread(f)),
         UNCHANGED <<row, dialog, writing, saves, telling, hears, said, mixed, behind>>
  PROVE  OpenInv'
<1>1. \A f \in rereads' : IsReread(f)
  BY DEF OpenInv, OpenTypes, IsReread
<1>2. OpenTypes'
  BY <1>1 DEF OpenInv, OpenTypes
<1>3. WordsFollow => WordsFollow'
  BY DEF WordsFollow, SaysIt, TellsIt, OnItsWayTo
<1> QED
  BY <1>2, <1>3 DEF OpenInv, Removed

LEMMA ComeBackKeeps ==
  ASSUME OpenInv, NEW t \in Editors, ComeBack(t)
  PROVE  OpenInv'
<1> DEFINE f == [by |-> t, no |-> cardLeft.away, answer |-> Unsaid]
<1>1. /\ UNCHANGED <<row, dialog, writing, saves, telling, hears, said, mixed, behind>>
      /\ rereads' \subseteq rereads \cup {f}
  BY DEF ComeBack
<1>2. IsReread(f)
  BY DEF IsReread
<1> HIDE DEF f
<1> QED
  BY <1>1, <1>2, RereadKeeps

LEMMA AnswerKeeps ==
  ASSUME OpenInv, NEW f \in rereads, Answer(f) \/ RereadFails(f)
  PROVE  OpenInv'
<1> DEFINE g == [f EXCEPT !.answer = row]
<1>1. /\ UNCHANGED <<row, dialog, writing, saves, telling, hears, said, mixed, behind>>
      /\ rereads' \subseteq rereads \cup {g}
  BY DEF Answer, RereadFails
<1>2. IsReread(f) /\ row \in RowState
  BY DEF OpenInv, OpenTypes
<1>3. g = [by |-> f.by, no |-> f.no, answer |-> row]
  BY <1>2 DEF IsReread
<1>4. IsReread(g)
  BY <1>2, <1>3 DEF IsReread
<1> HIDE DEF g
<1> QED
  BY <1>1, <1>4, RereadKeeps

(* An answer that is not too late says what the row says, and no save under   *)
(* way changes that: it is what was said last.                                *)
LEMMA FreshTellsIt ==
  ASSUME OpenTypes, WordsFollow, ~Removed, NEW f \in rereads, ~TooLate(f)
  PROVE  f.answer = row /\ SaysIt(row) /\ TellsIt(row)
<1>1. f.answer = row /\ \A r \in saves : Stored(r) = row
  BY DEF TooLate
<1>2. ASSUME NEW r \in saves PROVE SaysIt(row)
  <2>1. /\ row \in RowState /\ r \in SaveState /\ SaysIt(r) /\ Stored(r) = row
        /\ said.text # Unsaid /\ said.done \in BOOLEAN /\ said.due \in BOOLEAN
    BY <1>1, OpenCardAssumption DEF OpenTypes, WordsFollow, CardTexts
  <2>2. row.text = r.text /\ row.done = (r.done = TRUE) /\ row.due = (r.due = TRUE)
    BY <2>1, StoredFields DEF SaysIt
  <2> QED
    BY <2>1, <2>2 DEF SaysIt
<1>3. SaysIt(row)
  BY <1>2 DEF WordsFollow
<1> QED
  BY <1>1, <1>3 DEF TellsIt, Removed

LEMMA TakeFreshKeeps ==
  ASSUME OpenInv, NEW f \in rereads, TakeFresh(f)
  PROVE  OpenInv'
<1>1. /\ f.answer # Unsaid /\ rereads' = rereads \ {f} /\ TakeOver(f.by, f.answer, saves)
      /\ behind' = behind \ {f.by} /\ mixed' = (mixed \/ TooLate(f))
      /\ UNCHANGED <<row, writing, telling, hears, said>>
  BY DEF TakeFresh
<1>2. OpenTypes /\ f.by \in Editors /\ f.answer \in RowState
  BY <1>1 DEF OpenInv, OpenTypes, IsReread
<1>3. dialog' \in [Editors -> CopyState] /\ saves \subseteq saves' /\ saves' \subseteq SaveState
  BY <1>1, <1>2, TakeOverTypes
<1>4. \A g \in rereads' : IsReread(g)
  BY <1>1, <1>2 DEF OpenTypes, IsReread
<1>5. OpenTypes'
  BY <1>1, <1>2, <1>3, <1>4 DEF OpenTypes
<1>6. ASSUME ~mixed', ~Removed' PROVE WordsFollow'
  <2>1. WordsFollow /\ ~TooLate(f) /\ ~Removed
    BY <1>1, <1>6 DEF OpenInv, Removed
  <2>2. TellsIt(f.answer) /\ SaysIt(row)
    BY <1>2, <2>1, FreshTellsIt
  <2>3. /\ SaysIt(dialog[f.by])' /\ \A u \in Editors \ {f.by} : dialog'[u] = dialog[u]
        /\ \A u \in Editors : dialog'[u].files = OpenFiles
        /\ \A r \in saves' : SaysIt(r)'
    BY <1>1, <1>2, <2>1, <2>2, TakeOverSaysIt
  <2>4. \A u \in Editors \ behind' : SaysIt(dialog[u])' \/ OnItsWayTo(u)'
    <3> SUFFICES ASSUME NEW u \in Editors, u \notin behind, u # f.by, ~SaysIt(dialog[u]) PROVE OnItsWayTo(u)'
      BY <1>1, <2>3 DEF SaysIt
    <3>1. OnItsWayTo(u)
      BY <2>1 DEF WordsFollow
    <3> QED
      BY <1>1, <1>3, <3>1 DEF OnItsWayTo
  <2> QED
    BY <1>1, <2>1, <2>2, <2>3, <2>4 DEF WordsFollow, SaysIt, TellsIt
<1> QED
  BY <1>5, <1>6 DEF OpenInv

LEMMA OpenEditorKeeps ==
  ASSUME OpenInv, NEW t \in Editors, OpenEditor(t)
  PROVE  OpenInv'
BY DEF OpenEditor, OpenInv, OpenTypes, Removed, WordsFollow, SaysIt, TellsIt, OnItsWayTo

LEMMA OpenRests == OpenInv /\ UNCHANGED openVars => OpenInv'
BY DEF openVars, OpenInv, OpenTypes, Removed, WordsFollow, SaysIt, TellsIt, OnItsWayTo

LEMMA OpenStepInv == OpenInv /\ [OpenNext]_openVars => OpenInv'
BY EditsOfCardKeep, OpenEditorKeeps, DeleteOpenFileKeeps, HearUpdateKeeps, LoseLineKeeps, ComeBackKeeps, AnswerKeeps,
   TakeFreshKeeps, PutSaveKeeps, PassOnKeeps, PutByKeyKeeps, OpenRests DEF OpenNext

(* CardModal.vue saves the whole card at every edit and saves again what it   *)
(* took over from others.  When people edit one after the other, nobody       *)
(* deleted an attachment and no answer of resyncCard was taken over too late, *)
(* that does no harm: once nothing is under way, the row and every dialog     *)
(* that missed nothing say what was said last, for any tabs, texts,           *)
(* attachments and number of edits, lost connections and resyncs.             *)
THEOREM LastWordStands == OpenSpec => []LastSaidStays
<1>1. OpenInv => LastSaidStays
  <2> SUFFICES ASSUME OpenInv, ~Traffic, ~mixed, ~Removed
               PROVE  SaysIt(row) /\ \A t \in Editors \ behind : dialog[t] = row
    BY DEF LastSaidStays, SaysIt
  <2>1. /\ SaysIt(row) /\ \A t \in Editors \ behind : SaysIt(dialog[t])
        /\ \A t \in Editors : dialog[t].files = OpenFiles
    BY StillSaysIt
  <2>2. ASSUME NEW t \in Editors \ behind PROVE dialog[t] = row
    <3>1. dialog[t] \in CopyState /\ row \in RowState /\ row.files = OpenFiles
      BY DEF OpenInv, OpenTypes, Removed
    <3>2. /\ dialog[t] = [text |-> dialog[t].text, done |-> dialog[t].done, due |-> dialog[t].due,
                          files |-> dialog[t].files]
          /\ row = [text |-> row.text, done |-> row.done, due |-> row.due, files |-> row.files]
      BY <3>1 DEF CopyState, RowState
    <3> QED
      BY <2>1, <2>2, <3>1, <3>2 DEF SaysIt
  <2> QED
    BY <2>1, <2>2
<1> QED
  BY <1>1, OpenBegins, OpenStepInv, PTL DEF OpenSpec

-----------------------------------------------------------------------------
(* Presence                                                                   *)

PacketOn(cs) == [kind : {"card", "board"}, of : {cs}, users : [cs -> SUBSET Users]]
Packet == UNION {PacketOn(cs) : cs \in SUBSET Cards}
TabState == [open : Cards \cup {NoCard}, online : BOOLEAN, n : 0..MaxConns]

TabTypes ==
  /\ tab \in [Tabs -> TabState] /\ up \in [Tabs -> Seq(Messages)]
  /\ seen \in [Tabs -> [Cards -> SUBSET Users]] /\ viewers \in [Tabs -> SUBSET Users]
ServerTypes ==
  /\ status \in [Sockets -> {"live", "kept", "gone"}]
  /\ pending \subseteq Sockets \X (Cards \cup {NoCard}) /\ board \subseteq Sockets
  /\ room \in [Cards -> SUBSET Sockets] /\ cardPresence \in [Cards -> SUBSET Sockets]
  /\ cardBoard \subseteq Cards
PresenceTypes == TabTypes /\ ServerTypes /\ down \in [Sockets -> Seq(Packet)]

(* A card that somebody is on has a board the server knows.                   *)
BoardsKnown == \A c \in Cards : cardPresence[c] # {} => c \in cardBoard

(* What a tab has yet to say: that it asks for the board's faces, that it     *)
(* leaves c, that it has c open.                                              *)
WillAsk(u) == \E i \in DOMAIN u : u[i] = <<"joinBoard", NoCard>>
Leaves(u, c) == \E i \in DOMAIN u : u[i] = <<"leaveCard", c>>
WillJoin(u, c) ==
  \E i \in DOMAIN u : u[i] = <<"joinCard", c>> /\ \A j \in DOMAIN u : j > i => u[j] # <<"leaveCard", c>>

(* The last packet of these kinds about c says x, or what is shown does if    *)
(* there is none.                                                             *)
Speaks(p, kinds, c) == p.kind \in kinds /\ c \in p.of
EndsWith(q, kinds, c, shown, x) ==
  \/ \E i \in DOMAIN q :
       /\ Speaks(q[i], kinds, c) /\ q[i].users[c] = x
       /\ \A j \in DOMAIN q : j > i => ~Speaks(q[j], kinds, c)
  \/ shown = x /\ \A i \in DOMAIN q : ~Speaks(q[i], kinds, c)

(* The tiles of a tab, and the card it has open, will show what is served.    *)
OnTiles(t) ==
  /\ Socket(t) \in board
  /\ \A c \in Cards :
       EndsWith(down[Socket(t)], {"card", "board"}, c, seen[t][c], Faces(cardPresence, c))
InRoom(t, c) ==
  /\ Socket(t) \in room[c] /\ Socket(t) \in cardPresence[c]
  /\ EndsWith(down[Socket(t)], {"card"}, c, viewers[t], Faces(cardPresence, c))

TilesFollow(t) == WillAsk(up[t]) \/ <<Socket(t), NoCard>> \in pending \/ OnTiles(t)
CardFollows(t, c) ==
  WillJoin(up[t], c) \/ (~Leaves(up[t], c) /\ (<<Socket(t), c>> \in pending \/ InRoom(t, c)))

Follows(t) ==
  tab[t].online =>
    /\ tab[t].n > 0 /\ status[Socket(t)] = "live" /\ TilesFollow(t)
    /\ tab[t].open # NoCard => CardFollows(t, tab[t].open)

PresenceInv == PresenceTypes /\ BoardsKnown /\ \A t \in Tabs : Follows(t)

-----------------------------------------------------------------------------
(* Of messages in a row.                                                      *)
LEMMA EndsEmpty ==
  ASSUME NEW kinds, NEW c, NEW shown, NEW x, EndsWith(<< >>, kinds, c, shown, x)
  PROVE  shown = x
BY DEF EndsWith

LEMMA EndsSaid ==
  ASSUME NEW S, NEW q \in Seq(S), NEW p \in S, NEW kinds, NEW c, NEW shown, Speaks(p, kinds, c)
  PROVE  EndsWith(Append(q, p), kinds, c, shown, p.users[c])
<1>1. /\ Len(q) + 1 \in DOMAIN Append(q, p) /\ Append(q, p)[Len(q) + 1] = p
      /\ \A j \in DOMAIN Append(q, p) : ~(j > Len(q) + 1)
  OBVIOUS
<1> QED
  BY <1>1 DEF EndsWith

LEMMA EndsUnsaid ==
  ASSUME NEW S, NEW q \in Seq(S), NEW p \in S, NEW kinds, NEW c, NEW shown, NEW x,
         EndsWith(q, kinds, c, shown, x), ~Speaks(p, kinds, c)
  PROVE  EndsWith(Append(q, p), kinds, c, shown, x)
<1>1. /\ \A i \in DOMAIN q : i \in DOMAIN Append(q, p) /\ Append(q, p)[i] = q[i]
      /\ \A j \in DOMAIN Append(q, p) : j \in DOMAIN q \/ Append(q, p)[j] = p
  OBVIOUS
<1>2. CASE \E i \in DOMAIN q : /\ Speaks(q[i], kinds, c) /\ q[i].users[c] = x
                              /\ \A j \in DOMAIN q : j > i => ~Speaks(q[j], kinds, c)
  BY <1>1, <1>2 DEF EndsWith
<1>3. CASE shown = x /\ \A i \in DOMAIN q : ~Speaks(q[i], kinds, c)
  BY <1>1, <1>3 DEF EndsWith
<1> QED
  BY <1>2, <1>3 DEF EndsWith

LEMMA EndsRead ==
  ASSUME NEW S, NEW q \in Seq(S), q # << >>, NEW kinds, NEW c, NEW shown, NEW x, NEW shows,
         EndsWith(q, kinds, c, shown, x),
         shows = IF Speaks(Head(q), kinds, c) THEN Head(q).users[c] ELSE shown
  PROVE  EndsWith(Tail(q), kinds, c, shows, x)
<1>1. /\ \A i \in DOMAIN Tail(q) : i + 1 \in DOMAIN q /\ Tail(q)[i] = q[i + 1]
      /\ \A i \in DOMAIN q : i = 1 \/ (i - 1 \in DOMAIN Tail(q) /\ Tail(q)[i - 1] = q[i])
      /\ 1 \in DOMAIN q /\ Head(q) = q[1] /\ DOMAIN q \subseteq Nat /\ DOMAIN Tail(q) \subseteq Nat
      /\ \A i \in DOMAIN Tail(q) : i > 0
  OBVIOUS
<1>2. CASE \E i \in DOMAIN q : /\ Speaks(q[i], kinds, c) /\ q[i].users[c] = x
                              /\ \A j \in DOMAIN q : j > i => ~Speaks(q[j], kinds, c)
  <2>1. PICK i \in DOMAIN q : /\ Speaks(q[i], kinds, c) /\ q[i].users[c] = x
                              /\ \A j \in DOMAIN q : j > i => ~Speaks(q[j], kinds, c)
    BY <1>2
  <2>2. CASE i = 1
    <3>1. shows = x
      BY <1>1, <2>1, <2>2
    <3>2. \A j \in DOMAIN Tail(q) : ~Speaks(Tail(q)[j], kinds, c)
      BY <1>1, <2>1, <2>2
    <3> QED
      BY <3>1, <3>2 DEF EndsWith
  <2>3. CASE i # 1
    <3>1. i - 1 \in DOMAIN Tail(q) /\ Tail(q)[i - 1] = q[i]
      BY <1>1, <2>1, <2>3
    <3>2. \A j \in DOMAIN Tail(q) : j > i - 1 => ~Speaks(Tail(q)[j], kinds, c)
      BY <1>1, <2>1
    <3> QED
      BY <2>1, <3>1, <3>2 DEF EndsWith
  <2> QED
    BY <2>2, <2>3
<1>3. CASE shown = x /\ \A i \in DOMAIN q : ~Speaks(q[i], kinds, c)
  BY <1>1, <1>3 DEF EndsWith
<1> QED
  BY <1>2, <1>3 DEF EndsWith

(* What a tab still has to say when it says one thing more, comes up, or has  *)
(* been heard.                                                                *)
LEMMA SaysMore ==
  ASSUME NEW u \in Seq(Messages), NEW m \in Messages
  PROVE  /\ Append(u, m) \in Seq(Messages) /\ WillAsk(u) => WillAsk(Append(u, m))
         /\ \A c \in Cards : m = <<"joinCard", c>> => WillJoin(Append(u, m), c)
<1>1. /\ Append(u, m) \in Seq(Messages)
      /\ \A i \in DOMAIN u : i \in DOMAIN Append(u, m) /\ Append(u, m)[i] = u[i]
      /\ Len(u) + 1 \in DOMAIN Append(u, m) /\ Append(u, m)[Len(u) + 1] = m
      /\ \A j \in DOMAIN Append(u, m) : ~(j > Len(u) + 1)
  OBVIOUS
<1> QED
  BY <1>1 DEF WillAsk, WillJoin

LEMMA MessagesOfCards ==
  ASSUME NEW c \in Cards
  PROVE  <<"joinCard", c>> \in Messages /\ <<"leaveCard", c>> \in Messages
<1>1. <<"joinCard", c>> \in {"joinCard", "leaveCard"} \X Cards /\ <<"leaveCard", c>> \in {"joinCard", "leaveCard"} \X Cards
  OBVIOUS
<1> QED
  BY <1>1, Zenon DEF Messages

LEMMA SaysItJoins ==
  ASSUME NEW u \in Seq(Messages), NEW c \in Cards
  PROVE  /\ Append(u, <<"joinCard", c>>) \in Seq(Messages)
         /\ WillAsk(u) => WillAsk(Append(u, <<"joinCard", c>>))
         /\ WillJoin(Append(u, <<"joinCard", c>>), c)
<1>1. <<"joinCard", c>> \in Messages
  BY MessagesOfCards
<1> QED
  BY <1>1, SaysMore

LEMMA TwoMore ==
  ASSUME NEW u \in Seq(Messages), NEW m \in Messages, NEW n \in Messages
  PROVE  u \o <<m>> = Append(u, m) /\ u \o <<m, n>> = Append(Append(u, m), n)
OBVIOUS

LEMMA AsksNow ==
  ASSUME NEW u \in Seq(Messages)
  PROVE  /\ Append(u, <<"joinBoard", NoCard>>) \in Seq(Messages)
         /\ WillAsk(Append(u, <<"joinBoard", NoCard>>))
<1> DEFINE ask == <<"joinBoard", NoCard>>
<1>1. ask \in Messages
  BY DEF Messages
<1>2. Append(u, ask) \in Seq(Messages) /\ Append(u, ask)[Len(u) + 1] = ask
      /\ Len(u) + 1 \in DOMAIN Append(u, ask)
  BY <1>1
<1> QED
  BY <1>2 DEF WillAsk

LEMMA ComesUpSaying ==
  ASSUME TabTypes, NEW t \in Tabs
  PROVE  /\ up[t] \o Announce(t) \in Seq(Messages) /\ WillAsk(up[t] \o Announce(t))
         /\ tab[t].open # NoCard => WillJoin(up[t] \o Announce(t), tab[t].open)
<1> DEFINE u == up[t]
           ask == <<"joinBoard", NoCard>>
           join == <<"joinCard", tab[t].open>>
<1>1. u \in Seq(Messages) /\ ask \in Messages
  BY DEF TabTypes, Messages
<1>2. CASE tab[t].open = NoCard
  <2>1. Announce(t) = <<ask>>
    BY <1>2 DEF Announce
  <2>2. u \o <<ask>> = Append(u, ask)
    BY <1>1, TwoMore
  <2> QED
    BY <1>1, <1>2, <2>1, <2>2, AsksNow
<1>3. CASE tab[t].open # NoCard
  <2>1. tab[t].open \in Cards
    BY <1>3 DEF TabTypes, TabState
  <2>2. join \in Messages
    BY <2>1, MessagesOfCards
  <2>3. Announce(t) = <<ask, join>>
    BY <1>3 DEF Announce
  <2>4. u \o <<ask, join>> = Append(Append(u, ask), join)
    BY <1>1, <2>2, TwoMore
  <2>5. Append(u, ask) \in Seq(Messages) /\ WillAsk(Append(u, ask))
    BY <1>1, AsksNow
  <2>6. LET v == Append(u, ask) IN
        /\ Append(v, join) \in Seq(Messages) /\ WillAsk(Append(v, join))
        /\ WillJoin(Append(v, join), tab[t].open)
    <3> DEFINE v == Append(u, ask)
    <3>1. v \in Seq(Messages) /\ WillAsk(v)
      BY <2>5
    <3> HIDE DEF v
    <3> QED
      BY <2>1, <3>1, SaysItJoins DEF v
  <2> QED
    BY <2>3, <2>4, <2>6, Zenon
<1> QED
  BY <1>2, <1>3

LEMMA IsHeard ==
  ASSUME NEW u \in Seq(Messages), u # << >>
  PROVE  /\ Tail(u) \in Seq(Messages) /\ Head(u) \in Messages
         /\ WillAsk(u) => Head(u) = <<"joinBoard", NoCard>> \/ WillAsk(Tail(u))
         /\ \A c \in Cards :
              /\ WillJoin(u, c) => WillJoin(Tail(u), c)
                                   \/ (Head(u) = <<"joinCard", c>> /\ ~Leaves(Tail(u), c))
              /\ ~Leaves(u, c) => ~Leaves(Tail(u), c) /\ Head(u) # <<"leaveCard", c>>
<1>1. /\ \A i \in DOMAIN Tail(u) : i + 1 \in DOMAIN u /\ Tail(u)[i] = u[i + 1] /\ i > 0
      /\ \A i \in DOMAIN u : i = 1 \/ (i - 1 \in DOMAIN Tail(u) /\ Tail(u)[i - 1] = u[i])
      /\ 1 \in DOMAIN u /\ Head(u) = u[1] /\ DOMAIN u \subseteq Nat /\ DOMAIN Tail(u) \subseteq Nat
  OBVIOUS
<1>2. Tail(u) \in Seq(Messages) /\ Head(u) \in Messages
  OBVIOUS
<1>3. WillAsk(u) => Head(u) = <<"joinBoard", NoCard>> \/ WillAsk(Tail(u))
  BY <1>1 DEF WillAsk
<1>4. ASSUME NEW c \in Cards, ~Leaves(u, c) PROVE ~Leaves(Tail(u), c) /\ Head(u) # <<"leaveCard", c>>
  BY <1>1, <1>4 DEF Leaves
<1>5. ASSUME NEW c \in Cards, WillJoin(u, c)
      PROVE  WillJoin(Tail(u), c) \/ (Head(u) = <<"joinCard", c>> /\ ~Leaves(Tail(u), c))
  <2>1. PICK i \in DOMAIN u : u[i] = <<"joinCard", c>> /\ \A j \in DOMAIN u : j > i => u[j] # <<"leaveCard", c>>
    BY <1>5 DEF WillJoin
  <2>2. CASE i = 1
    BY <1>1, <2>1, <2>2 DEF Leaves
  <2>3. CASE i # 1
    <3>1. i - 1 \in DOMAIN Tail(u) /\ Tail(u)[i - 1] = <<"joinCard", c>>
      BY <1>1, <2>1, <2>3
    <3>2. \A j \in DOMAIN Tail(u) : j > i - 1 => Tail(u)[j] # <<"leaveCard", c>>
      BY <1>1, <2>1
    <3> QED
      BY <3>1, <3>2 DEF WillJoin
  <2> QED
    BY <2>2, <2>3
<1> QED
  BY <1>2, <1>3, <1>4, <1>5

-----------------------------------------------------------------------------
(* Sockets and faces.                                                         *)
LEMMA OwnSocket ==
  ASSUME TabTypes, NEW t \in Tabs
  PROVE  /\ tab[t].n > 0 => Socket(t) \in Sockets
         /\ \A u \in Tabs : u # t => Socket(u) # Socket(t)
         /\ Socket(t)[1] = t
BY PresenceAssumption DEF TabTypes, TabState, Socket, Sockets

LEMMA FacesAreUsers ==
  ASSUME NEW presence \in [Cards -> SUBSET Sockets], NEW c \in Cards
  PROVE  Faces(presence, c) \in SUBSET Users
<1>1. \A k \in presence[c] : k[1] \in Tabs
  BY DEF Sockets
<1> QED
  BY <1>1 DEF Faces, Users

LEMMA PacketThere ==
  ASSUME NEW cs \in SUBSET Cards, NEW kind \in {"card", "board"}, NEW users \in [cs -> SUBSET Users]
  PROVE  [kind |-> kind, of |-> cs, users |-> users] \in Packet
<1>1. [kind |-> kind, of |-> cs, users |-> users] \in PacketOn(cs)
  BY DEF PacketOn
<1> QED
  BY <1>1 DEF Packet

LEMMA PacketFields ==
  ASSUME NEW p \in Packet
  PROVE  /\ p.kind \in {"card", "board"} /\ p.of \in SUBSET Cards
         /\ \A c \in p.of : p.users[c] \in SUBSET Users
<1>1. PICK cs \in SUBSET Cards : p \in PacketOn(cs)
  BY DEF Packet
<1> QED
  BY <1>1 DEF PacketOn

(* What a broadcast sends to one socket.                                      *)
Concerned(k, known, cs) == {c \in cs : k \in room'[c] \/ (c \in known /\ k \in board)}
FacePacket(presence, cs) == [kind |-> "card", of |-> cs, users |-> [c \in cs |-> Faces(presence, c)]]

LEMMA FacePacketThere ==
  ASSUME NEW presence \in [Cards -> SUBSET Sockets], NEW cs \in SUBSET Cards
  PROVE  FacePacket(presence, cs) \in Packet
<1>1. [c \in cs |-> Faces(presence, c)] \in [cs -> SUBSET Users]
  BY FacesAreUsers
<1> QED
  BY <1>1, PacketThere DEF FacePacket

LEMMA Delivered ==
  ASSUME down \in [Sockets -> Seq(Packet)], NEW presence \in [Cards -> SUBSET Sockets], NEW known,
         NEW cs \in SUBSET Cards, Send(Broadcast(presence, known, cs)), NEW k \in Sockets
  PROVE  down'[k] = IF status'[k] = "gone" THEN << >>
                    ELSE IF Concerned(k, known, cs) = {} THEN down[k]
                    ELSE Append(down[k], FacePacket(presence, Concerned(k, known, cs)))
<1> DEFINE of == Concerned(k, known, cs)
           news == Broadcast(presence, known, cs)
<1>1. news[k] = IF of = {} THEN << >> ELSE << FacePacket(presence, of) >>
  BY DEF Broadcast, Concerned, FacePacket
<1>2. down'[k] = IF status'[k] = "gone" THEN << >> ELSE down[k] \o news[k]
  BY DEF Send
<1>3. of \in SUBSET Cards
  BY DEF Concerned
<1> HIDE DEF of, news
<1>4. FacePacket(presence, of) \in Packet /\ down[k] \in Seq(Packet)
  BY <1>3, FacePacketThere
<1>5. down[k] \o << >> = down[k] /\ down[k] \o << FacePacket(presence, of) >> = Append(down[k], FacePacket(presence, of))
  BY <1>4
<1> QED
  BY <1>1, <1>2, <1>5 DEF of

LEMMA DeliveredTypes ==
  ASSUME down \in [Sockets -> Seq(Packet)], NEW presence \in [Cards -> SUBSET Sockets], NEW known,
         NEW cs \in SUBSET Cards, Send(Broadcast(presence, known, cs))
  PROVE  down' \in [Sockets -> Seq(Packet)]
<1>1. ASSUME NEW k \in Sockets PROVE down'[k] \in Seq(Packet)
  <2>1. FacePacket(presence, Concerned(k, known, cs)) \in Packet
    BY FacePacketThere DEF Concerned
  <2>2. Append(down[k], FacePacket(presence, Concerned(k, known, cs))) \in Seq(Packet) /\ << >> \in Seq(Packet)
    BY <2>1
  <2> QED
    BY <2>2, Delivered
<1>2. DOMAIN down' = Sockets /\ down' = [k \in Sockets |-> down'[k]]
  BY DEF Send
<1> QED
  BY <1>1, <1>2

(* Who hears of all that changes at a card ends with what is served of it.    *)
LEMMA ToldOf ==
  ASSUME down \in [Sockets -> Seq(Packet)], NEW presence \in [Cards -> SUBSET Sockets], NEW known,
         NEW cs \in SUBSET Cards, Send(Broadcast(presence, known, cs)),
         NEW k \in Sockets, status'[k] # "gone", NEW c \in Cards, NEW kinds, "card" \in kinds, NEW shown,
         c \in cs => k \in room'[c] \/ (c \in known /\ k \in board),
         c \notin cs => EndsWith(down[k], kinds, c, shown, Faces(presence, c))
  PROVE  EndsWith(down'[k], kinds, c, shown, Faces(presence, c))
<1> DEFINE of == Concerned(k, known, cs)
           p == FacePacket(presence, of)
<1>1. of \in SUBSET Cards /\ (c \in cs <=> c \in of)
  BY DEF Concerned
<1>2. down'[k] = IF of = {} THEN down[k] ELSE Append(down[k], p)
  BY Delivered
<1>3. p \in Packet /\ down[k] \in Seq(Packet)
  BY <1>1, FacePacketThere
<1>4. Speaks(p, kinds, c) <=> c \in of
  BY DEF Speaks, FacePacket
<1>5. c \in of => p.users[c] = Faces(presence, c)
  BY DEF FacePacket
<1> HIDE DEF of, p
<1>6. CASE c \in of
  <2>1. EndsWith(Append(down[k], p), kinds, c, shown, p.users[c])
    BY <1>3, <1>4, <1>6, EndsSaid
  <2> QED
    BY <1>2, <1>5, <1>6, <2>1
<1>7. CASE c \notin of
  <2>1. EndsWith(down[k], kinds, c, shown, Faces(presence, c))
    BY <1>1, <1>7
  <2>2. EndsWith(Append(down[k], p), kinds, c, shown, Faces(presence, c))
    BY <1>3, <1>4, <1>7, <2>1, EndsUnsaid
  <2> QED
    BY <1>2, <2>1, <2>2
<1> QED
  BY <1>6, <1>7

-----------------------------------------------------------------------------
(* What a step leaves to a tab.                                               *)
SameTab(t) == tab'[t] = tab[t] /\ seen'[t] = seen[t] /\ viewers'[t] = viewers[t]
SameRooms(t) ==
  /\ Socket(t) \in board => Socket(t) \in board'
  /\ \A c \in Cards : Socket(t) \in room[c] => Socket(t) \in room'[c]

LEMMA QuietStep ==
  ASSUME NEW t \in Tabs, tab'[t].n = tab[t].n, seen'[t] = seen[t], viewers'[t] = viewers[t], SameRooms(t),
         cardPresence' = cardPresence, down'[Socket(t)] = down[Socket(t)]
  PROVE  (OnTiles(t) => OnTiles(t)') /\ \A c \in Cards : InRoom(t, c) => InRoom(t, c)'
<1>1. Socket(t)' = Socket(t)
  BY DEF Socket
<1> QED
  BY <1>1 DEF OnTiles, InRoom, SameRooms

LEMMA ToldStep ==
  ASSUME PresenceTypes, NEW presence \in [Cards -> SUBSET Sockets], NEW known, NEW cs \in SUBSET Cards,
         Send(Broadcast(presence, known, cs)), cs \subseteq known, board' = board,
         cardPresence' = presence, \A c \in Cards \ cs : presence[c] = cardPresence[c],
         NEW t \in Tabs, tab'[t].n = tab[t].n, seen'[t] = seen[t], viewers'[t] = viewers[t],
         Socket(t) \in Sockets, status'[Socket(t)] # "gone"
  PROVE  /\ OnTiles(t) => OnTiles(t)'
         /\ \A c \in Cards : InRoom(t, c) /\ Socket(t) \in room'[c] /\ Socket(t) \in presence[c] => InRoom(t, c)'
<1> DEFINE k == Socket(t)
<1>1. Socket(t)' = k
  BY DEF Socket
<1>2. \A c \in Cards \ cs : Faces(presence, c) = Faces(cardPresence, c)
  BY DEF Faces
<1>3. down \in [Sockets -> Seq(Packet)]
  BY DEF PresenceTypes
<1>4. ASSUME OnTiles(t) PROVE OnTiles(t)'
  <2>1. ASSUME NEW c \in Cards
        PROVE  EndsWith(down'[k], {"card", "board"}, c, seen[t][c], Faces(presence, c))
    <3>1. k \in board /\ EndsWith(down[k], {"card", "board"}, c, seen[t][c], Faces(cardPresence, c))
      BY <1>4 DEF OnTiles
    <3>2. c \notin cs => EndsWith(down[k], {"card", "board"}, c, seen[t][c], Faces(presence, c))
      BY <1>2, <3>1
    <3> HIDE DEF k
    <3> QED
      BY <1>3, <3>1, <3>2, ToldOf DEF k
  <2> QED
    BY <1>1, <1>4, <2>1 DEF OnTiles
<1>5. ASSUME NEW c \in Cards, InRoom(t, c), k \in room'[c], k \in presence[c] PROVE InRoom(t, c)'
  <2>1. EndsWith(down[k], {"card"}, c, viewers[t], Faces(cardPresence, c))
    BY <1>5 DEF InRoom
  <2>2. c \notin cs => EndsWith(down[k], {"card"}, c, viewers[t], Faces(presence, c))
    BY <1>2, <2>1
  <2>3. EndsWith(down'[k], {"card"}, c, viewers[t], Faces(presence, c))
    BY <1>3, <1>5, <2>2, ToldOf
  <2> QED
    BY <1>1, <1>5, <2>3 DEF InRoom
<1> QED
  BY <1>4, <1>5

(* A tab that did nothing itself goes on following.                           *)
LEMMA GoesOnFollowing ==
  ASSUME PresenceTypes, NEW t \in Tabs, Follows(t), SameTab(t), up'[t] = up[t],
         tab[t].online => status'[Socket(t)] = status[Socket(t)],
         \A c \in Cards \cup {NoCard} : <<Socket(t), c>> \in pending => <<Socket(t), c>> \in pending',
         tab[t].online => (OnTiles(t) => OnTiles(t)'),
         tab[t].online => \A c \in Cards : InRoom(t, c) => InRoom(t, c)'
  PROVE  Follows(t)'
<1> SUFFICES ASSUME tab[t].online PROVE Follows(t)'
  BY DEF Follows, SameTab
<1>1. Socket(t)' = Socket(t) /\ tab[t].open \in Cards \cup {NoCard}
  BY DEF Socket, SameTab, PresenceTypes, TabTypes, TabState
<1>2. TilesFollow(t)'
  BY <1>1 DEF Follows, TilesFollow
<1>3. tab[t].open # NoCard => CardFollows(t, tab[t].open)'
  BY <1>1 DEF Follows, CardFollows, SameTab
<1> QED
  BY <1>1, <1>2, <1>3 DEF Follows, SameTab

LEMMA QuietlyFollowing ==
  ASSUME PresenceTypes, NEW t \in Tabs, Follows(t), SameTab(t), up'[t] = up[t],
         tab[t].online =>
           /\ status'[Socket(t)] = status[Socket(t)] /\ SameRooms(t) /\ down'[Socket(t)] = down[Socket(t)]
           /\ \A c \in Cards \cup {NoCard} : <<Socket(t), c>> \in pending => <<Socket(t), c>> \in pending',
         cardPresence' = cardPresence
  PROVE  Follows(t)'
<1>1. CASE tab[t].online
  <2>1. (OnTiles(t) => OnTiles(t)') /\ \A c \in Cards : InRoom(t, c) => InRoom(t, c)'
    BY <1>1, QuietStep DEF SameTab
  <2> QED
    BY <1>1, <2>1, GoesOnFollowing
<1>2. CASE ~tab[t].online
  BY <1>2 DEF Follows, SameTab
<1> QED
  BY <1>1, <1>2

-----------------------------------------------------------------------------
LEMMA PresenceBegins == Init => PresenceInv
<1> SUFFICES ASSUME Init PROVE PresenceInv
  OBVIOUS
<1>1. TabTypes
  BY PresenceAssumption DEF Init, TabTypes, TabState
<1>2. ServerTypes /\ down \in [Sockets -> Seq(Packet)]
  BY DEF Init, ServerTypes
<1>3. BoardsKnown
  BY DEF Init, BoardsKnown
<1>4. \A t \in Tabs : Follows(t)
  BY DEF Init, Follows
<1> QED
  BY <1>1, <1>2, <1>3, <1>4 DEF PresenceInv, PresenceTypes

LEMMA IsUp ==
  ASSUME NEW r \in TabState, NEW n \in 0..MaxConns
  PROVE  LET w == [r EXCEPT !.online = TRUE, !.n = n] IN w \in TabState /\ w.n = n /\ w.open = r.open
BY DEF TabState

(* The tabs come, go and look; no face changes.                               *)
LEMMA ComesUpKeeps ==
  ASSUME PresenceInv, NEW t \in Tabs, NEW n \in 1..MaxConns, ComesUp(t, n)
  PROVE  PresenceInv'
<1> USE DEF PresenceInv, PresenceTypes
<1>1. /\ tab' = [tab EXCEPT ![t].online = TRUE, ![t].n = n]
      /\ status' = [status EXCEPT ![<<t, n>>] = "live"]
      /\ up' = [up EXCEPT ![t] = @ \o Announce(t)]
      /\ UNCHANGED <<seen, viewers, down, pending, board, room, cardPresence, cardBoard>>
  BY DEF ComesUp
<1>2. /\ up[t] \o Announce(t) \in Seq(Messages) /\ WillAsk(up[t] \o Announce(t))
      /\ tab[t].open # NoCard => WillJoin(up[t] \o Announce(t), tab[t].open)
  BY ComesUpSaying
<1>3. tab'[t] \in TabState /\ tab'[t].n = n /\ tab'[t].open = tab[t].open /\ tab' = [tab EXCEPT ![t] = tab'[t]]
  <2> DEFINE w == [tab[t] EXCEPT !.online = TRUE, !.n = n]
  <2>1. w \in TabState /\ w.n = n /\ w.open = tab[t].open
    <3>1. tab[t] \in TabState /\ n \in 0..MaxConns
      BY PresenceAssumption DEF TabTypes
    <3> QED
      BY <3>1, IsUp
  <2>2. DOMAIN tab' = Tabs /\ tab'[t] = w /\ \A u \in Tabs \ {t} : tab'[u] = tab[u]
    BY <1>1 DEF TabTypes
  <2> HIDE DEF w
  <2>3. tab' = [tab EXCEPT ![t] = w]
    BY <1>1, <2>2 DEF TabTypes
  <2> QED
    BY <2>1, <2>2, <2>3
<1>4. TabTypes'
  BY <1>1, <1>2, <1>3 DEF TabTypes
<1>5. <<t, n>> \in Sockets /\ status' \in [Sockets -> {"live", "kept", "gone"}]
  BY <1>1 DEF ServerTypes, Sockets
<1>6. ServerTypes' /\ down' \in [Sockets -> Seq(Packet)] /\ BoardsKnown'
  BY <1>1, <1>5 DEF ServerTypes, BoardsKnown
<1>7. Follows(t)'
  <2>1. Socket(t)' = <<t, n>>
    BY <1>3 DEF Socket
  <2>2. status'[<<t, n>>] = "live" /\ up'[t] = up[t] \o Announce(t) /\ n > 0
    BY <1>1, <1>5 DEF ServerTypes, TabTypes
  <2> QED
    BY <1>2, <1>3, <2>1, <2>2 DEF Follows, TilesFollow, CardFollows
<1>8. ASSUME NEW u \in Tabs, u # t PROVE Follows(u)'
  <2>1. SameTab(u) /\ up'[u] = up[u] /\ Follows(u)
    BY <1>1, <1>3, <1>8 DEF SameTab, TabTypes
  <2>2. Socket(u) # <<t, n>>
    BY <1>8 DEF Socket
  <2>3. tab[u].online => status'[Socket(u)] = status[Socket(u)]
    BY <1>1, <2>2, OwnSocket DEF Follows, ServerTypes
  <2> QED
    BY <1>1, <2>1, <2>3, QuietlyFollowing DEF SameRooms
<1> QED
  BY <1>4, <1>6, <1>7, <1>8

LEMMA DropKeeps ==
  ASSUME PresenceInv, NEW t \in Tabs, Drop(t)
  PROVE  PresenceInv'
<1> USE DEF PresenceInv, PresenceTypes
<1>1. /\ tab' = [tab EXCEPT ![t].online = FALSE] /\ up' = [up EXCEPT ![t] = << >>]
      /\ UNCHANGED <<seen, viewers, status, down, pending, board, room, cardPresence, cardBoard>>
  BY DEF Drop, server
<1>2. tab'[t] \in TabState /\ ~tab'[t].online /\ tab' = [tab EXCEPT ![t] = tab'[t]]
  BY <1>1 DEF TabTypes, TabState
<1>3. TabTypes' /\ ServerTypes' /\ down' \in [Sockets -> Seq(Packet)] /\ BoardsKnown'
  BY <1>1, <1>2 DEF TabTypes, ServerTypes, BoardsKnown
<1>4. Follows(t)'
  BY <1>2 DEF Follows
<1>5. ASSUME NEW u \in Tabs, u # t PROVE Follows(u)'
  <2>1. SameTab(u) /\ up'[u] = up[u] /\ Follows(u)
    BY <1>1, <1>2, <1>5 DEF SameTab, TabTypes
  <2> QED
    BY <1>1, <2>1, QuietlyFollowing DEF SameRooms
<1> QED
  BY <1>3, <1>4, <1>5

LEMMA RestartKeeps == PresenceInv /\ Restart => PresenceInv'
<1> SUFFICES ASSUME PresenceInv, Restart PROVE PresenceInv'
  OBVIOUS
<1> USE DEF PresenceInv, PresenceTypes
<1>1. \A t \in Tabs : [tab[t] EXCEPT !.online = FALSE] \in TabState
  BY DEF TabTypes, TabState
<1>2. tab' = [t \in Tabs |-> [tab[t] EXCEPT !.online = FALSE]]
  BY DEF Restart
<1>3. up' \in [Tabs -> Seq(Messages)]
  BY DEF Restart, TabTypes
<1>4. TabTypes'
  BY <1>1, <1>2, <1>3 DEF Restart, TabTypes
<1>5. ServerTypes' /\ down' \in [Sockets -> Seq(Packet)] /\ BoardsKnown'
  BY DEF Restart, ServerTypes, BoardsKnown
<1>6. ASSUME NEW t \in Tabs PROVE ~tab'[t].online
  BY <1>2 DEF TabTypes, TabState
<1> QED
  BY <1>4, <1>5, <1>6 DEF Follows

LEMMA OpenKeeps ==
  ASSUME PresenceInv, NEW t \in Tabs, NEW c \in Cards, Open(t, c)
  PROVE  PresenceInv'
<1> USE DEF PresenceInv, PresenceTypes
<1>1. /\ tab' = [tab EXCEPT ![t].open = c] /\ viewers' = [viewers EXCEPT ![t] = {}]
      /\ up' = [up EXCEPT ![t] = Append(@, <<"joinCard", c>>)]
      /\ UNCHANGED <<seen, status, down, pending, board, room, cardPresence, cardBoard>>
  BY DEF Open, server, Emit
<1>2. /\ tab'[t] \in TabState /\ tab'[t].open = c /\ tab'[t].n = tab[t].n /\ tab'[t].online = tab[t].online
      /\ tab' = [tab EXCEPT ![t] = tab'[t]]
  BY <1>1 DEF TabTypes, TabState
<1>3. /\ up'[t] = Append(up[t], <<"joinCard", c>>) /\ up[t] \in Seq(Messages) /\ up'[t] \in Seq(Messages)
      /\ WillJoin(up'[t], c) /\ (WillAsk(up[t]) => WillAsk(up'[t]))
  BY <1>1, SaysItJoins DEF TabTypes
<1>4. TabTypes'
  BY <1>1, <1>2, <1>3 DEF TabTypes
<1>5. ServerTypes' /\ down' \in [Sockets -> Seq(Packet)] /\ BoardsKnown'
  BY <1>1 DEF ServerTypes, BoardsKnown
<1>6. Follows(t)'
  <2>1. Socket(t)' = Socket(t)
    BY <1>2 DEF Socket
  <2>2. OnTiles(t) => OnTiles(t)'
    BY <1>1, <2>1 DEF OnTiles
  <2>3. TilesFollow(t) => TilesFollow(t)'
    BY <1>1, <1>3, <2>1, <2>2 DEF TilesFollow
  <2> QED
    BY <1>1, <1>2, <1>3, <2>1, <2>3 DEF Follows, CardFollows
<1>7. ASSUME NEW u \in Tabs, u # t PROVE Follows(u)'
  <2>1. SameTab(u) /\ up'[u] = up[u] /\ Follows(u)
    BY <1>1, <1>2, <1>7 DEF SameTab, TabTypes
  <2> QED
    BY <1>1, <2>1, QuietlyFollowing DEF SameRooms
<1> QED
  BY <1>4, <1>5, <1>6, <1>7

LEMMA CloseKeeps ==
  ASSUME PresenceInv, NEW t \in Tabs, Close(t)
  PROVE  PresenceInv'
<1> USE DEF PresenceInv, PresenceTypes
<1> DEFINE c == tab[t].open
<1>1. /\ tab' = [tab EXCEPT ![t].open = NoCard] /\ up' = [up EXCEPT ![t] = Append(@, <<"leaveCard", c>>)]
      /\ UNCHANGED <<seen, viewers, status, down, pending, board, room, cardPresence, cardBoard>>
  BY DEF Close, server, Emit
<1>2. /\ tab'[t] \in TabState /\ tab'[t].open = NoCard /\ tab'[t].n = tab[t].n /\ tab'[t].online = tab[t].online
      /\ tab' = [tab EXCEPT ![t] = tab'[t]]
  BY <1>1 DEF TabTypes, TabState
<1>3. c \in Cards
  BY DEF Close, TabTypes, TabState
<1>4. <<"leaveCard", c>> \in Messages /\ up[t] \in Seq(Messages) /\ up'[t] = Append(up[t], <<"leaveCard", c>>)
  BY <1>1, <1>3, MessagesOfCards DEF TabTypes
<1>5. up'[t] \in Seq(Messages) /\ (WillAsk(up[t]) => WillAsk(up'[t]))
  BY <1>4, SaysMore
<1>6. TabTypes'
  BY <1>1, <1>2, <1>5 DEF TabTypes
<1>7. ServerTypes' /\ down' \in [Sockets -> Seq(Packet)] /\ BoardsKnown'
  BY <1>1 DEF ServerTypes, BoardsKnown
<1>8. Follows(t)'
  <2>1. Socket(t)' = Socket(t)
    BY <1>2 DEF Socket
  <2>2. OnTiles(t) => OnTiles(t)'
    BY <1>1, <2>1 DEF OnTiles
  <2>3. TilesFollow(t) => TilesFollow(t)'
    BY <1>1, <1>5, <2>1, <2>2 DEF TilesFollow
  <2> QED
    BY <1>1, <1>2, <2>1, <2>3 DEF Follows
<1>9. ASSUME NEW u \in Tabs, u # t PROVE Follows(u)'
  <2>1. SameTab(u) /\ up'[u] = up[u] /\ Follows(u)
    BY <1>1, <1>2, <1>9 DEF SameTab, TabTypes
  <2> QED
    BY <1>1, <2>1, QuietlyFollowing DEF SameRooms
<1> QED
  BY <1>6, <1>7, <1>8, <1>9

(* A packet is read: what it says is shown, and the rest still ends the same. *)
LEMMA ReadKeeps ==
  ASSUME PresenceInv, NEW t \in Tabs, Read(t)
  PROVE  PresenceInv'
<1> USE DEF PresenceInv, PresenceTypes
<1> DEFINE k == Socket(t)
           p == Head(down[k])
           c == tab[t].open
           shows == [d \in Cards |-> IF d \in p.of THEN p.users[d] ELSE seen[t][d]]
           looks == IF p.kind = "card" /\ c \in p.of THEN p.users[c] ELSE viewers[t]
<1>1. /\ tab[t].online /\ down[k] # << >> /\ down' = [down EXCEPT ![k] = Tail(@)]
      /\ seen' = [seen EXCEPT ![t] = shows]
      /\ viewers' = IF p.kind = "card" /\ c \in p.of THEN [viewers EXCEPT ![t] = p.users[c]] ELSE viewers
      /\ UNCHANGED <<tab, up, status, pending, board, room, cardPresence, cardBoard>>
  BY DEF Read, TabTypes
<1>2. k \in Sockets /\ Follows(t)
  BY <1>1, OwnSocket DEF Follows
<1>3. down[k] \in Seq(Packet) /\ p \in Packet /\ Tail(down[k]) \in Seq(Packet) /\ down'[k] = Tail(down[k])
  BY <1>1, <1>2
<1>4. p.kind \in {"card", "board"} /\ \A d \in p.of : p.users[d] \in SUBSET Users
  BY <1>3, PacketFields
<1>5. shows \in [Cards -> SUBSET Users] /\ looks \in SUBSET Users
  BY <1>4 DEF TabTypes
<1>6. seen'[t] = shows /\ viewers'[t] = looks /\ viewers' = [viewers EXCEPT ![t] = looks]
  BY <1>1 DEF TabTypes
<1>7. TabTypes' /\ ServerTypes' /\ down' \in [Sockets -> Seq(Packet)] /\ BoardsKnown'
  BY <1>1, <1>3, <1>5, <1>6 DEF TabTypes, ServerTypes, BoardsKnown
<1>8. Follows(t)'
  <2>1. k' = k
    BY <1>1 DEF Socket
  <2>2. ASSUME OnTiles(t) PROVE OnTiles(t)'
    <3>1. ASSUME NEW d \in Cards
          PROVE  EndsWith(Tail(down[k]), {"card", "board"}, d, shows[d], Faces(cardPresence, d))
      <4>1. EndsWith(down[k], {"card", "board"}, d, seen[t][d], Faces(cardPresence, d))
        BY <2>2 DEF OnTiles
      <4>2. shows[d] = IF Speaks(p, {"card", "board"}, d) THEN p.users[d] ELSE seen[t][d]
        BY <1>4 DEF Speaks
      <4> QED
        BY <1>1, <1>3, <4>1, <4>2, EndsRead
    <3> HIDE DEF shows
    <3> QED
      BY <1>1, <1>3, <1>6, <2>1, <2>2, <3>1 DEF OnTiles
  <2>3. ASSUME c \in Cards, InRoom(t, c) PROVE InRoom(t, c)'
    <3>1. EndsWith(down[k], {"card"}, c, viewers[t], Faces(cardPresence, c))
      BY <2>3 DEF InRoom
    <3>2. looks = IF Speaks(p, {"card"}, c) THEN p.users[c] ELSE viewers[t]
      BY DEF Speaks
    <3>3. EndsWith(Tail(down[k]), {"card"}, c, looks, Faces(cardPresence, c))
      BY <1>1, <1>3, <3>1, <3>2, EndsRead
    <3> HIDE DEF looks
    <3> QED
      BY <1>1, <1>3, <1>6, <2>1, <2>3, <3>3 DEF InRoom
  <2>4. c \in Cards \cup {NoCard}
    BY DEF TabTypes, TabState
  <2> QED
    BY <1>1, <1>2, <2>1, <2>2, <2>3, <2>4 DEF Follows, TilesFollow, CardFollows
<1>9. ASSUME NEW u \in Tabs, u # t PROVE Follows(u)'
  <2>1. SameTab(u) /\ Follows(u) /\ Socket(u) # k
    BY <1>1, <1>6, <1>9, OwnSocket DEF SameTab, TabTypes
  <2>2. tab[u].online => down'[Socket(u)] = down[Socket(u)]
    BY <1>1, <2>1, OwnSocket DEF Follows
  <2> QED
    BY <1>1, <2>1, <2>2, QuietlyFollowing DEF SameRooms
<1> QED
  BY <1>7, <1>8, <1>9

-----------------------------------------------------------------------------
(* The server's steps leave the tabs alone.                                   *)
LEMMA TabsStay ==
  ASSUME PresenceInv, UNCHANGED <<tab, seen, viewers>>, NEW t \in Tabs
  PROVE  SameTab(t) /\ Follows(t)
BY DEF SameTab, PresenceInv

LEMMA ExpireKeeps ==
  ASSUME PresenceInv, NEW k \in Sockets, Expire(k)
  PROVE  PresenceInv'
<1> USE DEF PresenceInv, PresenceTypes
<1>1. /\ status[k] = "kept" /\ status' = [status EXCEPT ![k] = "gone"] /\ down' = [down EXCEPT ![k] = << >>]
      /\ board' = board \ {k} /\ room' = [c \in Cards |-> room[c] \ {k}]
      /\ UNCHANGED <<tab, up, seen, viewers, pending, cardPresence, cardBoard>>
  BY DEF Expire, client
<1>2. TabTypes' /\ ServerTypes' /\ down' \in [Sockets -> Seq(Packet)] /\ BoardsKnown'
  BY <1>1 DEF TabTypes, ServerTypes, BoardsKnown
<1>3. ASSUME NEW t \in Tabs PROVE Follows(t)'
  <2>1. tab[t].online => Socket(t) \in Sockets /\ Socket(t) # k
    BY <1>1, OwnSocket DEF Follows
  <2>2. tab[t].online =>
          /\ status'[Socket(t)] = status[Socket(t)] /\ SameRooms(t) /\ down'[Socket(t)] = down[Socket(t)]
    BY <1>1, <2>1 DEF SameRooms, ServerTypes
  <2> QED
    BY <1>1, <2>2, TabsStay, QuietlyFollowing
<1> QED
  BY <1>2, <1>3

(* The snapshot says of every card who is on it.                              *)
LEMMA SnapshotKeeps ==
  ASSUME PresenceInv, NEW k \in Sockets, FinishJoinBoard(k)
  PROVE  PresenceInv'
<1> USE DEF PresenceInv, PresenceTypes
<1> DEFINE says == [c \in Cards |-> IF c \in cardBoard THEN Faces(cardPresence, c) ELSE {}]
           p == [kind |-> "board", of |-> Cards, users |-> says]
<1>1. /\ pending' = pending \ {<<k, NoCard>>}
      /\ board' = IF status[k] = "live" THEN board \cup {k} ELSE board
      /\ down' = IF status[k] = "live" THEN [down EXCEPT ![k] = Append(@, p)] ELSE down
      /\ UNCHANGED <<tab, up, seen, viewers, status, room, cardPresence, cardBoard>>
  BY DEF FinishJoinBoard, client
<1>2. \A c \in Cards : says[c] = Faces(cardPresence, c)
  BY DEF BoardsKnown, Faces
<1>3. says \in [Cards -> SUBSET Users]
  BY <1>2, FacesAreUsers DEF ServerTypes
<1>4. p \in Packet /\ p.kind = "board" /\ p.of = Cards /\ p.users = says
  BY <1>3, PacketThere
<1> HIDE DEF says, p
<1>5. TabTypes' /\ ServerTypes' /\ down' \in [Sockets -> Seq(Packet)] /\ BoardsKnown'
  BY <1>1, <1>4 DEF TabTypes, ServerTypes, BoardsKnown
<1>6. \A t \in Tabs, c \in Cards : <<Socket(t), c>> \in pending => <<Socket(t), c>> \in pending'
  BY <1>1, PresenceAssumption
<1>7. ASSUME NEW t \in Tabs PROVE Follows(t)'
  <2>1. CASE tab[t].online /\ Socket(t) = k
    <3>1. status[k] = "live" /\ SameTab(t) /\ Follows(t) /\ Socket(t)' = k
      BY <1>1, <2>1, TabsStay DEF Follows, Socket
    <3>2. down[k] \in Seq(Packet) /\ down'[k] = Append(down[k], p)
      BY <1>1, <3>1
    <3>3. OnTiles(t)'
      <4>1. ASSUME NEW c \in Cards
            PROVE  EndsWith(down'[k], {"card", "board"}, c, seen[t][c], Faces(cardPresence, c))
        <5>1. Speaks(p, {"card", "board"}, c)
          BY <1>4 DEF Speaks
        <5> QED
          BY <1>2, <1>4, <3>2, <5>1, EndsSaid
      <4> QED
        BY <1>1, <3>1, <4>1 DEF OnTiles
    <3>4. ASSUME NEW c \in Cards, InRoom(t, c) PROVE InRoom(t, c)'
      <4>1. ~Speaks(p, {"card"}, c)
        BY <1>4 DEF Speaks
      <4>2. EndsWith(down[k], {"card"}, c, viewers[t], Faces(cardPresence, c))
        BY <2>1, <3>4 DEF InRoom
      <4>3. EndsWith(down'[k], {"card"}, c, viewers[t], Faces(cardPresence, c))
        BY <1>4, <3>2, <4>1, <4>2, EndsUnsaid
      <4> QED
        BY <1>1, <2>1, <3>1, <3>4, <4>3 DEF InRoom
    <3>5. tab[t].open \in Cards \cup {NoCard}
      BY DEF TabTypes, TabState
    <3> QED
      BY <1>1, <1>6, <2>1, <3>1, <3>3, <3>4, <3>5 DEF Follows, TilesFollow, CardFollows
  <2>2. CASE ~(tab[t].online /\ Socket(t) = k)
    <3>1. tab[t].online =>
            /\ status'[Socket(t)] = status[Socket(t)] /\ SameRooms(t) /\ down'[Socket(t)] = down[Socket(t)]
            /\ \A c \in Cards \cup {NoCard} : <<Socket(t), c>> \in pending => <<Socket(t), c>> \in pending'
      BY <1>1, <2>2 DEF SameRooms
    <3> QED
      BY <1>1, <3>1, TabsStay, QuietlyFollowing
  <2> QED
    BY <2>1, <2>2
<1> QED
  BY <1>5, <1>7

(* A tab that was heard on c is on it, and hears who is.                      *)
LEMMA JoinKeeps ==
  ASSUME PresenceInv, NEW k \in Sockets, NEW c \in Cards, FinishJoinCard(k, c)
  PROVE  PresenceInv'
<1> USE DEF PresenceInv, PresenceTypes
<1> DEFINE joined == [cardPresence EXCEPT ![c] = @ \cup {k}]
           known == cardBoard \cup {c}
<1>1. /\ pending' = pending \ {<<k, c>>} /\ cardPresence' = joined /\ cardBoard' = known
      /\ room' = IF status[k] = "live" THEN [room EXCEPT ![c] = @ \cup {k}] ELSE room
      /\ Send(Broadcast(joined, known, {c}))
      /\ UNCHANGED <<tab, up, seen, viewers, status, board>>
  BY DEF FinishJoinCard, client
<1>2. /\ joined \in [Cards -> SUBSET Sockets] /\ k \in joined[c]
      /\ \A d \in Cards \ {c} : joined[d] = cardPresence[d]
      /\ \A d \in Cards : cardPresence[d] \subseteq joined[d]
  BY DEF ServerTypes
<1>3. {c} \in SUBSET Cards /\ {c} \subseteq known
  OBVIOUS
<1> HIDE DEF joined, known
<1>4. TabTypes' /\ down' \in [Sockets -> Seq(Packet)]
  BY <1>1, <1>2, <1>3, DeliveredTypes DEF TabTypes
<1>5. ServerTypes' /\ BoardsKnown'
  BY <1>1, <1>2 DEF ServerTypes, BoardsKnown, known
<1>6. ASSUME NEW t \in Tabs, tab[t].online
      PROVE  /\ OnTiles(t) => OnTiles(t)'
             /\ \A d \in Cards : InRoom(t, d) => InRoom(t, d)'
             /\ Socket(t) = k => InRoom(t, c)'
  <2>1. Socket(t) \in Sockets /\ status'[Socket(t)] # "gone" /\ Socket(t)' = Socket(t)
    BY <1>1, <1>6, OwnSocket DEF Follows, Socket
  <2>2. /\ OnTiles(t) => OnTiles(t)'
        /\ \A d \in Cards : InRoom(t, d) /\ Socket(t) \in room'[d] /\ Socket(t) \in joined[d] => InRoom(t, d)'
    <3>1. /\ PresenceTypes /\ board' = board /\ tab'[t].n = tab[t].n /\ seen'[t] = seen[t]
          /\ viewers'[t] = viewers[t] /\ Send(Broadcast(joined, known, {c})) /\ cardPresence' = joined
      BY <1>1
    <3> HIDE DEF PresenceInv, PresenceTypes
    <3> QED
      BY <1>2, <1>3, <2>1, <3>1, ToldStep
  <2>3. \A d \in Cards : InRoom(t, d) => Socket(t) \in room'[d] /\ Socket(t) \in joined[d]
    <3>1. \A d \in Cards : room[d] \subseteq room'[d]
      BY <1>1 DEF ServerTypes
    <3>2. \A d \in Cards : InRoom(t, d) => Socket(t) \in room[d] /\ Socket(t) \in cardPresence[d]
      BY DEF InRoom
    <3>3. \A d \in Cards : cardPresence[d] \subseteq joined[d]
      BY <1>2
    <3> HIDE DEF PresenceInv, PresenceTypes
    <3> QED
      BY <3>1, <3>2, <3>3, Zenon
  <2>4. ASSUME Socket(t) = k PROVE InRoom(t, c)'
    <3>1. status[k] = "live" /\ k \in room'[c]
      BY <1>1, <1>6, <2>4 DEF Follows, ServerTypes
    <3>2. EndsWith(down'[k], {"card"}, c, viewers[t], Faces(joined, c))
      BY <1>1, <1>2, <1>3, <2>1, <2>4, <3>1, ToldOf
    <3> QED
      BY <1>1, <1>2, <2>1, <2>4, <3>1, <3>2 DEF InRoom
  <2> QED
    BY <2>2, <2>3, <2>4
<1>7. ASSUME NEW t \in Tabs PROVE Follows(t)'
  <2>1. SameTab(t) /\ Follows(t) /\ (Socket(t)' = Socket(t)) /\ tab[t].open \in Cards \cup {NoCard}
    BY <1>1, TabsStay DEF Socket, TabTypes, TabState
  <2>2. <<Socket(t), NoCard>> \in pending => <<Socket(t), NoCard>> \in pending'
    BY <1>1, PresenceAssumption
  <2>3. \A d \in Cards : Socket(t) # k \/ d # c =>
          (<<Socket(t), d>> \in pending => <<Socket(t), d>> \in pending')
    BY <1>1
  <2>4. CASE tab[t].online
    <3>1. TilesFollow(t)'
      BY <1>1, <1>6, <2>1, <2>2, <2>4 DEF Follows, TilesFollow
    <3>2. ASSUME tab[t].open # NoCard PROVE CardFollows(t, tab[t].open)'
      <4>1. CardFollows(t, tab[t].open) /\ tab[t].open \in Cards
        BY <2>1, <2>4, <3>2 DEF Follows
      <4>2. CASE Socket(t) = k /\ tab[t].open = c
        BY <1>1, <1>6, <2>1, <2>4, <4>1, <4>2 DEF CardFollows
      <4>3. CASE ~(Socket(t) = k /\ tab[t].open = c)
        BY <1>1, <1>6, <2>1, <2>3, <2>4, <4>1, <4>3 DEF CardFollows
      <4> QED
        BY <4>2, <4>3
    <3> QED
      BY <1>1, <2>1, <2>4, <3>1, <3>2 DEF Follows
  <2>5. CASE ~tab[t].online
    BY <1>1, <2>5 DEF Follows
  <2> QED
    BY <2>4, <2>5
<1> QED
  BY <1>4, <1>5, <1>7

(* A socket is taken off some cards, and whoever looks at them is told.       *)
LEMMA Emptying ==
  ASSUME PresenceInv, NEW left \in [Cards -> SUBSET Sockets], NEW cs \in SUBSET Cards,
         \A c \in Cards : left[c] \subseteq cardPresence[c], \A c \in cs : cardPresence[c] # {},
         cardPresence' = left, TellThenForget(left, cs)
  PROVE  /\ Send(Broadcast(left, cardBoard, cs)) /\ cs \subseteq cardBoard
         /\ down' \in [Sockets -> Seq(Packet)] /\ cardBoard' \subseteq Cards /\ BoardsKnown'
<1> USE DEF PresenceInv, PresenceTypes
<1>1. Send(Broadcast(left, cardBoard, cs)) /\ cardBoard' = cardBoard \ Emptied(left, cs)
  BY DEF TellThenForget
<1>2. cs \subseteq cardBoard
  BY DEF BoardsKnown
<1>3. down' \in [Sockets -> Seq(Packet)]
  BY <1>1, DeliveredTypes
<1>4. BoardsKnown'
  BY <1>1 DEF BoardsKnown, Emptied
<1> QED
  BY <1>1, <1>2, <1>3, <1>4 DEF ServerTypes

LEMMA DisconnectKeeps ==
  ASSUME PresenceInv, NEW k \in Sockets, Disconnect(k)
  PROVE  PresenceInv'
<1> USE DEF PresenceInv, PresenceTypes
<1> DEFINE here == {c \in Cards : k \in cardPresence[c]}
           left == [c \in Cards |-> cardPresence[c] \ {k}]
<1>1. /\ Lost(k) /\ status' = [status EXCEPT ![k] = "kept"] /\ cardPresence' = left
      /\ TellThenForget(left, here) /\ UNCHANGED <<tab, up, seen, viewers, room, board, pending>>
  BY DEF Disconnect, client
<1>2. /\ left \in [Cards -> SUBSET Sockets] /\ here \in SUBSET Cards
      /\ \A c \in Cards : left[c] \subseteq cardPresence[c]
      /\ \A c \in here : cardPresence[c] # {}
      /\ \A c \in Cards \ here : left[c] = cardPresence[c]
      /\ \A c \in Cards : \A s \in Sockets \ {k} : s \in cardPresence[c] => s \in left[c]
  BY DEF ServerTypes
<1> HIDE DEF here, left
<1>3. /\ Send(Broadcast(left, cardBoard, here)) /\ here \subseteq cardBoard
      /\ down' \in [Sockets -> Seq(Packet)] /\ cardBoard' \subseteq Cards /\ BoardsKnown'
  BY <1>1, <1>2, Emptying
<1>4. TabTypes' /\ ServerTypes'
  BY <1>1, <1>2, <1>3 DEF TabTypes, ServerTypes
<1>5. ASSUME NEW t \in Tabs PROVE Follows(t)'
  <2>1. SameTab(t) /\ Follows(t)
    BY <1>1, TabsStay
  <2>2. ASSUME tab[t].online
        PROVE  /\ status'[Socket(t)] = status[Socket(t)]
               /\ OnTiles(t) => OnTiles(t)'
               /\ \A c \in Cards : InRoom(t, c) => InRoom(t, c)'
    <3>1. Socket(t) \in Sockets /\ status[Socket(t)] = "live"
      BY <2>1, <2>2, OwnSocket DEF Follows
    <3>2. Socket(t) # k
      BY <1>1, <2>2, OwnSocket DEF Lost
    <3>3. status'[Socket(t)] = "live"
      BY <1>1, <3>1, <3>2 DEF ServerTypes
    <3>4. /\ OnTiles(t) => OnTiles(t)'
          /\ \A c \in Cards : InRoom(t, c) /\ Socket(t) \in room'[c] /\ Socket(t) \in left[c] => InRoom(t, c)'
      <4>1. /\ PresenceTypes /\ board' = board /\ tab'[t].n = tab[t].n /\ seen'[t] = seen[t]
            /\ viewers'[t] = viewers[t] /\ cardPresence' = left /\ status'[Socket(t)] # "gone"
        BY <1>1, <3>3
      <4>2. /\ left \in [Cards -> SUBSET Sockets] /\ here \in SUBSET Cards
            /\ \A c \in Cards \ here : left[c] = cardPresence[c]
        BY <1>2
      <4>3. Send(Broadcast(left, cardBoard, here)) /\ here \subseteq cardBoard
        BY <1>3
      <4> HIDE DEF PresenceInv, PresenceTypes
      <4> QED
        BY <3>1, <4>1, <4>2, <4>3, ToldStep, Zenon
    <3>5. \A c \in Cards : InRoom(t, c) => Socket(t) \in room'[c] /\ Socket(t) \in left[c]
      BY <1>1, <1>2, <3>1, <3>2 DEF InRoom
    <3> QED
      BY <3>1, <3>3, <3>4, <3>5
  <2> QED
    BY <1>1, <2>1, <2>2, GoesOnFollowing
<1> QED
  BY <1>3, <1>4, <1>5

-----------------------------------------------------------------------------
(* A tab is heard.                                                            *)
LEMMA MessageSays ==
  ASSUME NEW m \in Messages
  PROVE  /\ m = <<m[1], m[2]>> /\ m[2] \in Cards \cup {NoCard}
         /\ m[1] = "leaveCard" => m[2] \in Cards
BY DEF Messages

LEMMA HeardKeeps ==
  ASSUME PresenceInv, NEW t \in Tabs, Hear(t), Head(up[t])[1] # "leaveCard"
  PROVE  PresenceInv'
<1> USE DEF PresenceInv, PresenceTypes
<1> DEFINE k == Socket(t)
           m == Head(up[t])
           c == Head(up[t])[2]
<1>1. /\ tab[t].online /\ up[t] # << >> /\ up' = [up EXCEPT ![t] = Tail(@)] /\ pending' = pending \cup {<<k, c>>}
      /\ UNCHANGED <<tab, seen, viewers, status, down, board, room, cardPresence, cardBoard>>
  BY DEF Hear
<1>2. up[t] \in Seq(Messages) /\ up'[t] = Tail(up[t])
  BY <1>1 DEF TabTypes
<1>3. /\ Tail(up[t]) \in Seq(Messages) /\ m \in Messages
      /\ WillAsk(up[t]) => m = <<"joinBoard", NoCard>> \/ WillAsk(Tail(up[t]))
      /\ \A d \in Cards :
           /\ WillJoin(up[t], d) => WillJoin(Tail(up[t]), d)
                                    \/ (m = <<"joinCard", d>> /\ ~Leaves(Tail(up[t]), d))
           /\ ~Leaves(up[t], d) => ~Leaves(Tail(up[t]), d)
  BY <1>1, <1>2, IsHeard
<1>4. c \in Cards \cup {NoCard}
  BY <1>3, MessageSays
<1>5. k \in Sockets /\ Follows(t) /\ k' = k
  BY <1>1, OwnSocket DEF Follows, Socket
<1>6. TabTypes' /\ ServerTypes' /\ down' \in [Sockets -> Seq(Packet)] /\ BoardsKnown'
  BY <1>1, <1>3, <1>4, <1>5 DEF TabTypes, ServerTypes, BoardsKnown
<1>7. Follows(t)'
  <2>1. SameTab(t) /\ SameRooms(t) /\ tab[t].open \in Cards \cup {NoCard}
    BY <1>1 DEF SameTab, SameRooms, TabTypes, TabState
  <2>2. (OnTiles(t) => OnTiles(t)') /\ \A d \in Cards : InRoom(t, d) => InRoom(t, d)'
    BY <1>1, <2>1, QuietStep DEF SameTab
  <2>3. /\ pending \subseteq pending'
        /\ m = <<"joinBoard", NoCard>> => <<k, NoCard>> \in pending'
        /\ \A d \in Cards : m = <<"joinCard", d>> => <<k, d>> \in pending'
    BY <1>1
  <2>4. TilesFollow(t) /\ TilesFollow(t)'
    <3>1. TilesFollow(t)
      BY <1>1, <1>5 DEF Follows
    <3> QED
      BY <1>2, <1>3, <1>5, <2>2, <2>3, <3>1 DEF TilesFollow
  <2>5. ASSUME NEW d \in Cards, CardFollows(t, d) PROVE CardFollows(t, d)'
    BY <1>2, <1>3, <1>5, <2>2, <2>3, <2>5 DEF CardFollows
  <2> QED
    BY <1>1, <1>5, <2>1, <2>4, <2>5 DEF Follows
<1>8. ASSUME NEW u \in Tabs, u # t PROVE Follows(u)'
  <2>1. SameTab(u) /\ up'[u] = up[u] /\ Follows(u)
    BY <1>1, <1>8 DEF SameTab, TabTypes
  <2> QED
    BY <1>1, <2>1, QuietlyFollowing DEF SameRooms
<1> QED
  BY <1>6, <1>7, <1>8

LEMMA LeavesKeeps ==
  ASSUME PresenceInv, NEW t \in Tabs, Hear(t), Head(up[t])[1] = "leaveCard"
  PROVE  PresenceInv'
<1> USE DEF PresenceInv, PresenceTypes
<1> DEFINE k == Socket(t)
           m == Head(up[t])
           c == Head(up[t])[2]
           left == [cardPresence EXCEPT ![c] = @ \ {k}]
           cs == {d \in {c} : k \in cardPresence[c]}
<1>1. /\ tab[t].online /\ up[t] # << >> /\ up' = [up EXCEPT ![t] = Tail(@)]
      /\ room' = [room EXCEPT ![c] = @ \ {k}] /\ cardPresence' = left /\ TellThenForget(left, cs)
      /\ UNCHANGED <<tab, seen, viewers, status, pending, board>>
  BY DEF Hear
<1>2. up[t] \in Seq(Messages) /\ up'[t] = Tail(up[t])
  BY <1>1 DEF TabTypes
<1>3. /\ Tail(up[t]) \in Seq(Messages) /\ m \in Messages
      /\ WillAsk(up[t]) => m = <<"joinBoard", NoCard>> \/ WillAsk(Tail(up[t]))
      /\ \A d \in Cards :
           /\ WillJoin(up[t], d) => WillJoin(Tail(up[t]), d)
                                    \/ (m = <<"joinCard", d>> /\ ~Leaves(Tail(up[t]), d))
           /\ ~Leaves(up[t], d) => ~Leaves(Tail(up[t]), d) /\ m # <<"leaveCard", d>>
  BY <1>1, <1>2, IsHeard
<1>4. c \in Cards /\ m = <<"leaveCard", c>>
  BY <1>3, MessageSays
<1>5. k \in Sockets /\ Follows(t) /\ k' = k
  BY <1>1, OwnSocket DEF Follows, Socket
<1>6. /\ left \in [Cards -> SUBSET Sockets] /\ cs \in SUBSET Cards
      /\ \A d \in Cards : left[d] \subseteq cardPresence[d]
      /\ \A d \in cs : cardPresence[d] # {}
      /\ \A d \in Cards \ cs : left[d] = cardPresence[d]
      /\ \A d \in Cards \ {c} : left[d] = cardPresence[d] /\ room'[d] = room[d]
      /\ \A d \in Cards, s \in Sockets \ {k} :
           (s \in cardPresence[d] => s \in left[d]) /\ (s \in room[d] => s \in room'[d])
  BY <1>1, <1>4 DEF ServerTypes
<1>7. room' \in [Cards -> SUBSET Sockets]
  BY <1>1, <1>4 DEF ServerTypes
<1>8. m # <<"joinBoard", NoCard>> /\ \A d \in Cards : m # <<"joinCard", d>>
  BY <1>4
<1> HIDE DEF left, cs, m, c, k
<1>9. /\ Send(Broadcast(left, cardBoard, cs)) /\ cs \subseteq cardBoard
      /\ down' \in [Sockets -> Seq(Packet)] /\ cardBoard' \subseteq Cards /\ BoardsKnown'
  BY <1>1, <1>6, Emptying
<1>10. TabTypes' /\ ServerTypes'
  BY <1>1, <1>3, <1>6, <1>7, <1>9 DEF TabTypes, ServerTypes
<1>11. ASSUME NEW u \in Tabs, tab[u].online
       PROVE  /\ status'[Socket(u)] = status[Socket(u)] /\ (OnTiles(u) => OnTiles(u)')
              /\ \A d \in Cards : InRoom(u, d) /\ (u # t \/ d # c) => InRoom(u, d)'
  <2>1. SameTab(u) /\ Follows(u)
    BY <1>1, TabsStay
  <2>2. Socket(u) \in Sockets /\ status[Socket(u)] = "live" /\ status'[Socket(u)] = status[Socket(u)]
    BY <1>1, <1>11, <2>1, OwnSocket DEF Follows
  <2>3. /\ OnTiles(u) => OnTiles(u)'
        /\ \A d \in Cards : InRoom(u, d) /\ Socket(u) \in room'[d] /\ Socket(u) \in left[d] => InRoom(u, d)'
    <3>1. /\ PresenceTypes /\ board' = board /\ tab'[u].n = tab[u].n /\ seen'[u] = seen[u]
          /\ viewers'[u] = viewers[u] /\ cardPresence' = left /\ status'[Socket(u)] # "gone"
      BY <1>1, <2>2
    <3>2. /\ left \in [Cards -> SUBSET Sockets] /\ cs \in SUBSET Cards
          /\ \A d \in Cards \ cs : left[d] = cardPresence[d]
      BY <1>6
    <3>3. Send(Broadcast(left, cardBoard, cs)) /\ cs \subseteq cardBoard
      BY <1>9
    <3> HIDE DEF PresenceInv, PresenceTypes
    <3> QED
      BY <2>2, <3>1, <3>2, <3>3, ToldStep
  <2>4. u # t => Socket(u) # k
    BY OwnSocket DEF k
  <2>5. ASSUME NEW d \in Cards, InRoom(u, d), u # t \/ d # c
        PROVE  Socket(u) \in room'[d] /\ Socket(u) \in left[d]
    <3>1. Socket(u) \in room[d] /\ Socket(u) \in cardPresence[d]
      BY <2>5 DEF InRoom
    <3> QED
      BY <1>6, <2>2, <2>4, <2>5, <3>1
  <2> QED
    BY <2>2, <2>3, <2>5
<1>12. Follows(t)'
  <2>1. SameTab(t) /\ tab[t].open \in Cards \cup {NoCard}
    BY <1>1 DEF SameTab, TabTypes, TabState
  <2>2. TilesFollow(t)'
    <3>1. TilesFollow(t)
      BY <1>1, <1>5 DEF Follows
    <3> QED
      BY <1>1, <1>2, <1>3, <1>5, <1>8, <1>11, <3>1 DEF TilesFollow, k
  <2>3. ASSUME NEW d \in Cards, CardFollows(t, d) PROVE CardFollows(t, d)'
    <3>1. CASE WillJoin(up[t], d)
      BY <1>2, <1>3, <1>8, <3>1 DEF CardFollows
    <3>2. CASE ~Leaves(up[t], d) /\ (<<Socket(t), d>> \in pending \/ InRoom(t, d))
      <4>1. d # c /\ ~Leaves(up[t], d)' /\ Socket(t)' = Socket(t)
        BY <1>2, <1>3, <1>4, <1>5, <3>2 DEF k
      <4>2. <<Socket(t), d>>' \in pending' \/ InRoom(t, d)'
        BY <1>1, <1>11, <3>2, <4>1
      <4> QED
        BY <4>1, <4>2 DEF CardFollows
    <3> QED
      BY <2>3, <3>1, <3>2 DEF CardFollows
  <2> QED
    BY <1>1, <1>5, <2>1, <2>2, <2>3 DEF Follows, k
<1>13. ASSUME NEW u \in Tabs, u # t PROVE Follows(u)'
  <2>1. SameTab(u) /\ Follows(u) /\ up'[u] = up[u]
    BY <1>1, <1>13, TabsStay DEF TabTypes
  <2> QED
    BY <1>1, <1>11, <1>13, <2>1, GoesOnFollowing
<1> QED
  BY <1>9, <1>10, <1>12, <1>13

-----------------------------------------------------------------------------
LEMMA PresenceRests == PresenceInv /\ UNCHANGED vars => PresenceInv'
<1> SUFFICES ASSUME PresenceInv, UNCHANGED vars PROVE PresenceInv'
  OBVIOUS
<1> USE DEF PresenceInv, PresenceTypes
<1>1. UNCHANGED <<tab, up, seen, viewers, status, down, pending, board, room, cardPresence, cardBoard>>
  BY DEF vars, client, server
<1>2. TabTypes' /\ ServerTypes' /\ down' \in [Sockets -> Seq(Packet)] /\ BoardsKnown'
  BY <1>1 DEF TabTypes, ServerTypes, BoardsKnown
<1>3. ASSUME NEW t \in Tabs PROVE Follows(t)'
  BY <1>1, TabsStay, QuietlyFollowing DEF SameRooms
<1> QED
  BY <1>2, <1>3

LEMMA PresenceStepInv == PresenceInv /\ [Next]_vars => PresenceInv'
<1> SUFFICES ASSUME PresenceInv, [Next]_vars PROVE PresenceInv'
  OBVIOUS
<1>1. ASSUME NEW t \in Tabs, Connect(t) PROVE PresenceInv'
  <2>1. tab[t].n + 1 \in 1..MaxConns /\ ComesUp(t, tab[t].n + 1)
    BY <1>1, PresenceAssumption DEF Connect, PresenceInv, PresenceTypes, TabTypes, TabState
  <2> QED
    BY <2>1, ComesUpKeeps
<1>2. ASSUME NEW t \in Tabs, Recover(t) PROVE PresenceInv'
  <2>1. tab[t].n \in 1..MaxConns /\ ComesUp(t, tab[t].n)
    BY <1>2, PresenceAssumption DEF Recover, PresenceInv, PresenceTypes, TabTypes, TabState
  <2> QED
    BY <2>1, ComesUpKeeps
<1>3. ASSUME NEW t \in Tabs, Drop(t) \/ Close(t) \/ Read(t) PROVE PresenceInv'
  BY <1>3, DropKeeps, CloseKeeps, ReadKeeps
<1>4. ASSUME NEW t \in Tabs, Hear(t) PROVE PresenceInv'
  BY <1>4, HeardKeeps, LeavesKeeps
<1>5. ASSUME NEW t \in Tabs, NEW c \in Cards, Open(t, c) PROVE PresenceInv'
  BY <1>5, OpenKeeps
<1>6. ASSUME NEW k \in Sockets, FinishJoinBoard(k) \/ Disconnect(k) \/ Expire(k) PROVE PresenceInv'
  BY <1>6, SnapshotKeeps, DisconnectKeeps, ExpireKeeps
<1>7. ASSUME NEW k \in Sockets, NEW c \in Cards, FinishJoinCard(k, c) PROVE PresenceInv'
  BY <1>7, JoinKeeps
<1>8. CASE Restart
  BY <1>8, RestartKeeps
<1>9. CASE UNCHANGED vars
  BY <1>9, PresenceRests
<1> QED
  BY <1>1, <1>2, <1>3, <1>4, <1>5, <1>6, <1>7, <1>8, <1>9 DEF Next

LEMMA CaughtUpSees ==
  ASSUME PresenceInv, NEW t \in Tabs, CaughtUp(t)
  PROVE  /\ \A c \in Cards : seen[t][c] = Faces(cardPresence, c)
         /\ tab[t].open # NoCard =>
              viewers[t] = Faces(cardPresence, tab[t].open) /\ Socket(t) \in cardPresence[tab[t].open]
<1>1. tab[t].online /\ up[t] = << >> /\ down[Socket(t)] = << >> /\ \A p \in pending : p[1] # Socket(t)
  BY DEF CaughtUp
<1>2. Follows(t) /\ tab[t].open \in Cards \cup {NoCard}
  BY DEF PresenceInv, PresenceTypes, TabTypes, TabState
<1>3. ~WillAsk(up[t]) /\ \A c \in Cards : ~WillJoin(up[t], c) /\ <<Socket(t), c>> \notin pending
  BY <1>1 DEF WillAsk, WillJoin
<1>4. OnTiles(t)
  BY <1>1, <1>2, <1>3 DEF Follows, TilesFollow
<1>5. ASSUME NEW c \in Cards PROVE seen[t][c] = Faces(cardPresence, c)
  <2>1. EndsWith(<< >>, {"card", "board"}, c, seen[t][c], Faces(cardPresence, c))
    BY <1>1, <1>4 DEF OnTiles
  <2> QED
    BY <2>1, EndsEmpty
<1>6. ASSUME tab[t].open # NoCard
      PROVE  viewers[t] = Faces(cardPresence, tab[t].open) /\ Socket(t) \in cardPresence[tab[t].open]
  <2>1. InRoom(t, tab[t].open)
    BY <1>1, <1>2, <1>3, <1>6 DEF Follows, CardFollows
  <2>2. /\ Socket(t) \in cardPresence[tab[t].open]
        /\ EndsWith(<< >>, {"card"}, tab[t].open, viewers[t], Faces(cardPresence, tab[t].open))
    BY <1>1, <2>1 DEF InRoom
  <2> QED
    BY <2>2, EndsEmpty
<1> QED
  BY <1>5, <1>6

(* Whatever drops, recoveries, restarts and late answers there were, a tab    *)
(* that has nothing left to say or to hear shows the faces the server holds,  *)
(* on the tiles and in its open card, and is itself on that card              *)
(* (socket.io.ts: joinBoard, joinCard, leaveCard, dropPresence).              *)
THEOREM FacesAreThere == Spec => []FacesAreRight
<1>1. PresenceInv => FacesAreRight
  BY CaughtUpSees DEF FacesAreRight, SeenIsServed, PresentWhileOpen
<1> QED
  BY <1>1, PresenceBegins, PresenceStepInv, PTL DEF Spec

=============================================================================
