------------------------------ MODULE StoreProofs ----------------------------
(* The theorems about what a board's destruction leaves, and what comes back  *)
(* (Archive), and about what a board's export holds (Transfer), for any       *)
(* columns, cards, files and numbers of requests.                             *)
EXTENDS Archive, Transfer, FiniteSetTheorems, TLAPS

-----------------------------------------------------------------------------
(* Archive                                                                    *)

RemoveKinds == {"none", "cards", "columns", "board", "sweep"}
RemoveSteps == {"files", "data", "rest", "unlink", "cards"}
OwnSteps == {"idle", "archiveCard", "restoreCard", "restoreColumn", "record", "remove"} \union PutSteps
SweepSteps == {"oldBoards", "oldColumns", "nextColumn", "oldCards"}
ColumnSteps == {"list", "toolData", "columns"}

JobState ==
  [step : OwnSteps \union SweepSteps \union ColumnSteps \union RemoveSteps, kind : RemoveKinds,
   cards : SUBSET ArchiveCards, columns : SUBSET Columns, names : SUBSET Files,
   queue : SUBSET Columns, then : {"idle", "oldColumns", "nextColumn"}]

StoreTypes ==
  /\ boardAt \in {"shown", "archived", "expired", "gone"}
  /\ columnAt \in [Columns -> {"shown", "archived", "expired", "gone"}]
  /\ cardAt \in [ArchiveCards -> {"shown", "archived", "expired", "gone", "unborn"}]
  /\ column \in [ArchiveCards -> Columns]
  /\ things \subseteq ArchiveCards /\ attached \subseteq ArchiveCards \X Files /\ stored \subseteq Files
  /\ requestsLeft \in Nat /\ mixed \in BOOLEAN /\ byTool \in BOOLEAN
  /\ back \subseteq ArchiveCards /\ unasked \subseteq Files /\ late \subseteq ArchiveCards

ArchiveTypes == StoreTypes /\ job \in [Requests -> JobState]

(* What a request is about at each of its steps.                              *)
KindFits(w) ==
  /\ w.step \in OwnSteps <=> w.kind = "none"
  /\ w.step \in SweepSteps <=> w.kind = "sweep"
  /\ w.step \in ColumnSteps => w.kind \in {"columns", "board"}
  /\ w.kind = "board" => w.columns = Columns
  /\ w.step \in {"attach", "copy"} => w.cards # {}

Named(f) == \E r \in attached : r[2] = f

(* A file about to be named is there, and nobody else has it in hand.         *)
AttachesAlone ==
  \A p \in Requests : JobAt(p, "attach") => \A f \in job[p].names :
    /\ f \in stored \union unasked /\ ~Named(f)
    /\ \A q \in Requests \ {p} : f \notin job[q].names

(* Nobody puts anything anywhere while something is destroyed.                *)
NoneMixed == \A p, q \in Requests : job[p].step \in PutSteps => ~Removing(q)

(* What is put somewhere has a place there.                                   *)
PlaceIsThere(w) ==
  /\ w.step = "put" => \A a \in w.columns : columnAt[a] # "gone"
  /\ w.step \in {"attach", "copy"} => \A c \in w.cards : Present(cardAt[c])

(* A removal of columns knows every card in them, until there is none.        *)
KnowsItsCards(w) ==
  /\ (w.kind \in {"columns", "board"} /\ w.step \in RemoveSteps /\ ~byTool) =>
       \A c \in ArchiveCards : In(c, w.columns) => c \in w.cards
  /\ w.step = "columns" => \A c \in ArchiveCards : ~In(c, w.columns)

(* Nothing stands where nothing is.                                           *)
AllInPlace ==
  /\ \A c \in ArchiveCards : Present(cardAt[c]) => columnAt[column[c]] # "gone"
  /\ \A a \in Columns : columnAt[a] # "gone" => boardAt # "gone"

Unmixed ==
  /\ NoneMixed /\ AllInPlace
  /\ \A p \in Requests : PlaceIsThere(job[p]) /\ KnowsItsCards(job[p])

(* What a removal is past is gone from the tables.  Only the tools go another *)
(* way.                                                                       *)
TidiedSoFar(w) ==
  /\ w.step # "toolData"
  /\ w.step = "data" => \A r \in attached : r[1] \in w.cards => r[2] \in w.names
  /\ w.step \in {"rest", "unlink", "cards"} => \A r \in attached : r[1] \notin w.cards
  /\ w.step \in {"unlink", "cards"} => \A c \in things : c \notin w.cards \/ c \in late

RowsHaveCards ==
  /\ \A c \in things : Present(cardAt[c]) \/ c \in late
  /\ \A r \in attached : Present(cardAt[r[1]])

(* A file no row names is in the hands of whoever will name it or remove it.  *)
HandSteps == {"attach", "remove", "rest", "unlink"}
FilesInHand ==
  \A f \in stored : Named(f) \/ \E p \in Requests : job[p].step \in HandSteps /\ f \in job[p].names

Tidy == RowsHaveCards /\ FilesInHand /\ \A p \in Requests : TidiedSoFar(job[p])

BackIsThere == \A c \in back : Present(cardAt[c])

ArchiveInv ==
  /\ ArchiveTypes /\ \A p \in Requests : KindFits(job[p])
  /\ RowHasFile /\ AttachesAlone
  /\ BackIsThere /\ BackIsSeen
  /\ ~mixed => Unmixed
  /\ (~mixed /\ ~byTool) => Tidy

-----------------------------------------------------------------------------
(* One request goes on                                                        *)

(* Request p goes on to w, and no other request moves.                        *)
GoesOn(p, w) ==
  /\ job' \in [Requests -> JobState] /\ job'[p] = w
  /\ \A q \in Requests \ {p} : job'[q] = job[q]

LEMMA RowIsPut ==
  ASSUME ArchiveTypes, NEW p \in Requests, NEW w \in JobState, job' = [job EXCEPT ![p] = w]
  PROVE  GoesOn(p, w)
BY DEF ArchiveTypes, GoesOn

LEMMA IdleRow ==
  /\ NoJob \in JobState /\ NoJob.step = "idle" /\ NoJob.kind = "none" /\ KindFits(NoJob)
  /\ NoJob.cards = {} /\ NoJob.columns = {} /\ NoJob.names = {} /\ NoJob.queue = {} /\ NoJob.then = "idle"
BY DEF NoJob, JobState, RemoveKinds, KindFits, OwnSteps, SweepSteps, ColumnSteps, PutSteps, RemoveSteps

AllSteps == OwnSteps \union SweepSteps \union ColumnSteps \union RemoveSteps
Same(v, w) ==
  /\ w.kind = v.kind /\ w.cards = v.cards /\ w.columns = v.columns /\ w.names = v.names
  /\ w.queue = v.queue /\ w.then = v.then

LEMMA MovesRow ==
  ASSUME ArchiveTypes, NEW p \in Requests, NEW step \in AllSteps, Moves(p, step)
  PROVE  \E w \in JobState : GoesOn(p, w) /\ w.step = step /\ Same(job[p], w)
<1>1. PICK v \in JobState : v = job[p]
  BY DEF ArchiveTypes
<1>2. PICK w : w = [v EXCEPT !.step = step]
  OBVIOUS
<1>3. w \in JobState /\ w.step = step /\ Same(v, w)
  BY <1>2 DEF JobState, AllSteps, Same
<1>4. job' = [job EXCEPT ![p] = w]
  BY <1>1, <1>2 DEF Moves, ArchiveTypes
<1> QED
  BY <1>1, <1>3, <1>4, RowIsPut

LEMMA FinishesRow ==
  ASSUME ArchiveTypes, NEW p \in Requests, Finishes(p)
  PROVE  GoesOn(p, NoJob)
BY IdleRow, RowIsPut DEF Finishes

LEMMA StartsRow ==
  ASSUME ArchiveTypes, NEW p \in Requests, NEW w \in JobState, Starts(p, w)
  PROVE  /\ GoesOn(p, w) /\ requestsLeft' \in Nat /\ job[p].step = "idle"
<1>1. GoesOn(p, w)
  BY RowIsPut DEF Starts
<1>2. requestsLeft' \in Nat
  BY DEF Starts, StoreTypes, ArchiveTypes
<1> QED
  BY <1>1, <1>2 DEF Starts, AtRest, JobAt

-----------------------------------------------------------------------------
(* The parts of the invariant, when request p goes on to w                    *)

LEMMA TypesKept ==
  ASSUME ArchiveInv, NEW p \in Requests, NEW w \in JobState, GoesOn(p, w), KindFits(w), StoreTypes'
  PROVE  ArchiveTypes' /\ \A q \in Requests : KindFits(job'[q])
BY DEF ArchiveInv, ArchiveTypes, GoesOn

LEMMA AloneKept ==
  ASSUME ArchiveInv, NEW p \in Requests, NEW w \in JobState, GoesOn(p, w),
         \A f \in Files : Named(f)' => Named(f) \/ (JobAt(p, "attach") /\ f \in job[p].names),
         \A q \in Requests \ {p} : JobAt(q, "attach") => \A f \in job[q].names : f \in stored' \union unasked',
         \A f \in w.names : f \in job[p].names \/ Named(f) \/ FreshName(f),
         w.step = "attach" => \A f \in w.names : FreshName(f) /\ f \in stored' /\ ~Named(f)'
  PROVE  AttachesAlone'
<1> SUFFICES ASSUME NEW q \in Requests, JobAt(q, "attach")', NEW f \in job'[q].names
             PROVE  /\ f \in stored' \union unasked' /\ ~Named(f)'
                    /\ \A o \in Requests \ {q} : f \notin job'[o].names
  BY DEF AttachesAlone
<1>1. CASE q = p
  BY <1>1 DEF GoesOn, JobAt, FreshName
<1>2. CASE q # p
  <2>1. job'[q] = job[q] /\ job[q] \in JobState /\ JobAt(q, "attach") /\ f \in job[q].names /\ f \in Files
    BY <1>2 DEF GoesOn, JobAt, ArchiveInv, ArchiveTypes, JobState
  <2>2. ~Named(f) /\ \A o \in Requests \ {q} : f \notin job[o].names
    BY <2>1 DEF ArchiveInv, AttachesAlone
  <2>3. ~FreshName(f)
    BY <2>1 DEF FreshName
  <2>4. f \notin w.names
    BY <1>2, <2>2, <2>3
  <2> QED
    BY <1>2, <2>1, <2>2, <2>4 DEF GoesOn
<1> QED
  BY <1>1, <1>2

(* Whoever puts something puts it alone.                                      *)
StaysApart(p, w) ==
  /\ w.step \in PutSteps => \A q \in Requests \ {p} : ~Removing(q)
  /\ w.kind # "none" => \A q \in Requests \ {p} : job[q].step \notin PutSteps

LEMMA UnmixedKept ==
  ASSUME ArchiveInv, NEW p \in Requests, NEW w \in JobState, GoesOn(p, w), KindFits(w), Unmixed,
         StaysApart(p, w), AllInPlace', PlaceIsThere(w)', KnowsItsCards(w)',
         \A q \in Requests \ {p} : PlaceIsThere(job[q])' /\ KnowsItsCards(job[q])'
  PROVE  Unmixed'
<1>2. ASSUME NEW q \in Requests PROVE (PlaceIsThere(job[q]) /\ KnowsItsCards(job[q]))'
  <2>1. CASE q = p
    BY <2>1 DEF GoesOn, PlaceIsThere, KnowsItsCards
  <2>2. CASE q # p
    BY <2>2 DEF GoesOn, PlaceIsThere, KnowsItsCards
  <2> QED
    BY <2>1, <2>2
<1>3. ASSUME NEW q \in Requests, NEW r \in Requests, job'[q].step \in PutSteps PROVE ~Removing(r)'
  <2>1. CASE q = p /\ r = p
    BY <1>3, <2>1 DEF GoesOn, KindFits, OwnSteps, Removing
  <2>2. CASE q = p /\ r # p
    BY <1>3, <2>2 DEF GoesOn, StaysApart, Removing
  <2>3. CASE q # p /\ r = p
    BY <1>3, <2>3 DEF GoesOn, StaysApart, Removing
  <2>4. CASE q # p /\ r # p
    BY <1>3, <2>4 DEF GoesOn, Unmixed, NoneMixed, Removing
  <2> QED
    BY <2>1, <2>2, <2>3, <2>4
<1> QED
  BY <1>2, <1>3 DEF Unmixed, NoneMixed

LEMMA TidyKept ==
  ASSUME ArchiveInv, NEW p \in Requests, NEW w \in JobState, GoesOn(p, w),
         RowsHaveCards', FilesInHand', TidiedSoFar(w)', \A q \in Requests \ {p} : TidiedSoFar(job[q])'
  PROVE  Tidy'
<1>1. ASSUME NEW q \in Requests PROVE TidiedSoFar(job[q])'
  <2>1. CASE q = p
    BY <2>1 DEF GoesOn, TidiedSoFar
  <2>2. CASE q # p
    BY <2>2 DEF GoesOn, TidiedSoFar
  <2> QED
    BY <2>1, <2>2
<1> QED
  BY <1>1 DEF Tidy

(* Places stay while no card and no column goes; ...                          *)
LEMMA PlacesStay ==
  ASSUME ArchiveTypes, NEW p \in Requests, NEW w \in JobState, GoesOn(p, w),
         \A q \in Requests : PlaceIsThere(job[q]),
         \A c \in ArchiveCards : Present(cardAt[c]) => Present(cardAt'[c]),
         \A a \in Columns : columnAt[a] # "gone" => columnAt'[a] # "gone"
  PROVE  \A q \in Requests \ {p} : PlaceIsThere(job[q])'
<1> SUFFICES ASSUME NEW q \in Requests \ {p} PROVE PlaceIsThere(job[q])'
  OBVIOUS
<1>1. job'[q] = job[q] /\ job[q].columns \subseteq Columns /\ job[q].cards \subseteq ArchiveCards
  BY DEF GoesOn, ArchiveTypes, JobState
<1> QED
  BY <1>1 DEF PlaceIsThere

(* ... or nobody else puts anything.                                          *)
LEMMA NothingToPlace ==
  ASSUME NEW p \in Requests, NEW w \in JobState, GoesOn(p, w),
         \A q \in Requests \ {p} : job[q].step \notin PutSteps
  PROVE  \A q \in Requests \ {p} : PlaceIsThere(job[q])'
BY DEF PlaceIsThere, PutSteps, GoesOn

(* Removals know their cards while none comes, have tidied while no row       *)
(* comes, ...                                                                 *)
LEMMA KnowStill ==
  ASSUME NEW p \in Requests, NEW w \in JobState, GoesOn(p, w),
         \A q \in Requests : KnowsItsCards(job[q]), byTool => byTool',
         \A c \in ArchiveCards : Present(cardAt'[c]) => Present(cardAt[c]) /\ column'[c] = column[c]
  PROVE  \A q \in Requests \ {p} : KnowsItsCards(job[q])'
BY DEF KnowsItsCards, In, GoesOn

LEMMA TidiedStill ==
  ASSUME NEW p \in Requests, NEW w \in JobState, GoesOn(p, w),
         \A q \in Requests : TidiedSoFar(job[q]), attached' \subseteq attached, things' \subseteq things,
         UNCHANGED late
  PROVE  \A q \in Requests \ {p} : TidiedSoFar(job[q])'
<1> SUFFICES ASSUME NEW q \in Requests \ {p} PROVE TidiedSoFar(job[q])'
  OBVIOUS
<1>1. job'[q] = job[q]
  BY DEF GoesOn
<1> QED
  BY <1>1 DEF TidiedSoFar

(* ... or nobody else removes anything.                                       *)
LEMMA NothingToKnow ==
  ASSUME NEW p \in Requests, NEW w \in JobState, GoesOn(p, w),
         \A q \in Requests : KindFits(job[q]), \A q \in Requests \ {p} : ~Removing(q)
  PROVE  \A q \in Requests \ {p} : KnowsItsCards(job[q])' /\ TidiedSoFar(job[q])'
<1> SUFFICES ASSUME NEW q \in Requests \ {p} PROVE KnowsItsCards(job[q])' /\ TidiedSoFar(job[q])'
  OBVIOUS
<1>1. job'[q] = job[q] /\ job[q].kind = "none" /\ job[q].step \in OwnSteps
  BY DEF GoesOn, KindFits, Removing
<1> QED
  BY <1>1 DEF KnowsItsCards, TidiedSoFar, OwnSteps, PutSteps

LEMMA FilesStayInHand ==
  ASSUME FilesInHand, NEW p \in Requests, NEW w \in JobState, GoesOn(p, w),
         \A f \in stored' : f \in stored \/ (w.step \in HandSteps /\ f \in w.names),
         \A f \in stored' : Named(f) => Named(f)' \/ (w.step \in HandSteps /\ f \in w.names),
         \A f \in stored' : (job[p].step \in HandSteps /\ f \in job[p].names) =>
                              Named(f)' \/ (w.step \in HandSteps /\ f \in w.names)
  PROVE  FilesInHand'
<1> SUFFICES ASSUME NEW f \in stored', ~Named(f)', ~(w.step \in HandSteps /\ f \in w.names)
             PROVE  \E q \in Requests : job'[q].step \in HandSteps /\ f \in job'[q].names
  BY DEF FilesInHand, GoesOn
<1>1. f \in stored /\ ~Named(f) /\ ~(job[p].step \in HandSteps /\ f \in job[p].names)
  OBVIOUS
<1>2. PICK q \in Requests : job[q].step \in HandSteps /\ f \in job[q].names
  BY <1>1 DEF FilesInHand
<1>3. q # p
  BY <1>1, <1>2
<1> QED
  BY <1>2, <1>3 DEF GoesOn

(* A card that came back is still in its place, or has gone from the list.    *)
LEMMA BackKept ==
  ASSUME ArchiveInv, back' \subseteq back, mixed => mixed',
         \A c \in back' : Present(cardAt'[c]) /\ column'[c] = column[c],
         \A c \in back' : columnAt'[column[c]] = columnAt[column[c]] \/ columnAt'[column[c]] = "shown"
  PROVE  BackIsThere' /\ BackIsSeen'
BY DEF ArchiveInv, BackIsThere, BackIsSeen

-----------------------------------------------------------------------------
(* A step that writes no table and no file.                                   *)
LEMMA RowOnly ==
  ASSUME ArchiveInv, NEW p \in Requests, NEW w \in JobState, GoesOn(p, w), KindFits(w),
         UNCHANGED <<tables, stored, back, unasked, late>>,
         requestsLeft' \in Nat, mixed' \in BOOLEAN, byTool' \in BOOLEAN,
         mixed => mixed', byTool => byTool', w.step # "attach",
         \A f \in w.names : f \in job[p].names \/ Named(f),
         ~mixed' => StaysApart(p, w) /\ PlaceIsThere(w) /\ KnowsItsCards(w)',
         (~mixed' /\ ~byTool') => TidiedSoFar(w),
         job[p].step \notin HandSteps
  PROVE  ArchiveInv'
<1>0. /\ UNCHANGED <<boardAt, columnAt, cardAt, column, things, attached, stored, back, unasked, late>>
      /\ \A q \in Requests : job[q] \in JobState
  BY DEF tables, ArchiveInv, ArchiveTypes
<1>1. ArchiveTypes' /\ \A q \in Requests : KindFits(job'[q])
  BY <1>0, TypesKept DEF StoreTypes, ArchiveInv, ArchiveTypes
<1>2. RowHasFile' /\ \A f : Named(f)' <=> Named(f)
  BY <1>0 DEF RowHasFile, Named, ArchiveInv
<1>3. AttachesAlone'
  <2>1. \A q \in Requests : JobAt(q, "attach") => \A f \in job[q].names : f \in stored' \union unasked'
    BY <1>0 DEF ArchiveInv, AttachesAlone
  <2> QED
    BY <1>2, <2>1, AloneKept
<1>4. BackIsThere' /\ BackIsSeen'
  BY <1>0, BackKept DEF ArchiveInv, BackIsThere
<1>5. ~mixed' => Unmixed'
  <2> SUFFICES ASSUME ~mixed' PROVE Unmixed'
    OBVIOUS
  <2>1. Unmixed
    BY DEF ArchiveInv
  <2>2. AllInPlace' /\ PlaceIsThere(w)'
    BY <1>0, <2>1 DEF Unmixed, AllInPlace, PlaceIsThere
  <2>3. \A q \in Requests \ {p} : PlaceIsThere(job[q])' /\ KnowsItsCards(job[q])'
    BY <1>0, <2>1, PlacesStay, KnowStill DEF Unmixed, ArchiveInv
  <2> QED
    BY <2>1, <2>2, <2>3, UnmixedKept
<1>6. (~mixed' /\ ~byTool') => Tidy'
  <2> SUFFICES ASSUME ~mixed', ~byTool' PROVE Tidy'
    OBVIOUS
  <2>1. Tidy
    BY DEF ArchiveInv
  <2>2. RowsHaveCards' /\ TidiedSoFar(w)'
    BY <1>0, <2>1 DEF Tidy, RowsHaveCards, TidiedSoFar
  <2>3. \A q \in Requests \ {p} : TidiedSoFar(job[q])'
    BY <1>0, <2>1, TidiedStill DEF Tidy
  <2>4. FilesInHand'
    BY <1>0, <1>2, <2>1, FilesStayInHand DEF Tidy
  <2> QED
    BY <2>2, <2>3, <2>4, TidyKept
<1> QED
  BY <1>1, <1>2, <1>3, <1>4, <1>5, <1>6 DEF ArchiveInv
-----------------------------------------------------------------------------
(* Beginnings                                                                 *)

LEMMA RestoreReadsKeeps ==
  ASSUME ArchiveInv, NEW p \in Requests, NEW c \in ArchiveCards, RestoreReads(p, c)
  PROVE  ArchiveInv'
<1>0. ArchiveTypes /\ StoreTypes /\ column[c] \in Columns
  BY DEF ArchiveInv, ArchiveTypes, StoreTypes
<1>1. PICK w : w = [NoJob EXCEPT !.step = "restoreCard", !.cards = {c}, !.columns = {column[c]}]
  OBVIOUS
<1>2. w \in JobState /\ w.step = "restoreCard" /\ w.kind = "none" /\ w.names = {}
  BY <1>0, <1>1, IdleRow DEF JobState, OwnSteps, NoJob, RemoveKinds
<1>3. /\ GoesOn(p, w) /\ requestsLeft' \in Nat /\ job[p].step = "idle"
      /\ UNCHANGED <<tables, stored, mixed, byTool, back, unasked, late>>
  BY <1>0, <1>1, <1>2, StartsRow DEF RestoreReads
<1>4. KindFits(w)
  BY <1>2 DEF KindFits, OwnSteps, SweepSteps, ColumnSteps
<1>5. StaysApart(p, w) /\ PlaceIsThere(w) /\ KnowsItsCards(w)' /\ TidiedSoFar(w) /\ job[p].step \notin HandSteps
  BY <1>2, <1>3 DEF StaysApart, PutSteps, PlaceIsThere, KnowsItsCards, TidiedSoFar, HandSteps
<1>6. mixed' \in BOOLEAN /\ byTool' \in BOOLEAN
  BY <1>0, <1>3 DEF StoreTypes
<1> QED
  BY <1>2, <1>3, <1>4, <1>5, <1>6, RowOnly

LEMMA ArchiveReadsKeeps ==
  ASSUME ArchiveInv, NEW p \in Requests, NEW c \in ArchiveCards, ArchiveReads(p, c)
  PROVE  ArchiveInv'
<1>0. ArchiveTypes /\ StoreTypes
  BY DEF ArchiveInv, ArchiveTypes
<1>1. PICK w : w = [NoJob EXCEPT !.step = "archiveCard", !.cards = {c}]
  OBVIOUS
<1>2. w \in JobState /\ w.step = "archiveCard" /\ w.kind = "none" /\ w.names = {}
  BY <1>1, IdleRow DEF JobState, OwnSteps, NoJob, RemoveKinds
<1>3. /\ GoesOn(p, w) /\ requestsLeft' \in Nat /\ job[p].step = "idle"
      /\ UNCHANGED <<tables, stored, mixed, byTool, back, unasked, late>>
  BY <1>0, <1>1, <1>2, StartsRow DEF ArchiveReads
<1>4. KindFits(w)
  BY <1>2 DEF KindFits, OwnSteps, SweepSteps, ColumnSteps
<1>5. StaysApart(p, w) /\ PlaceIsThere(w) /\ KnowsItsCards(w)' /\ TidiedSoFar(w) /\ job[p].step \notin HandSteps
  BY <1>2, <1>3 DEF StaysApart, PutSteps, PlaceIsThere, KnowsItsCards, TidiedSoFar, HandSteps
<1>6. mixed' \in BOOLEAN /\ byTool' \in BOOLEAN
  BY <1>0, <1>3 DEF StoreTypes
<1> QED
  BY <1>2, <1>3, <1>4, <1>5, <1>6, RowOnly

LEMMA AimKeeps ==
  ASSUME ArchiveInv, NEW p \in Requests, NEW c \in ArchiveCards, NEW a \in Columns, Aim(p, c, a)
  PROVE  ArchiveInv'
<1>0. ArchiveTypes /\ StoreTypes
  BY DEF ArchiveInv, ArchiveTypes
<1>1. PICK w : w = [NoJob EXCEPT !.step = "put", !.cards = {c}, !.columns = {a}]
  OBVIOUS
<1>2. w \in JobState /\ w.step = "put" /\ w.kind = "none" /\ w.names = {} /\ w.columns = {a}
  BY <1>1, IdleRow DEF JobState, OwnSteps, PutSteps, NoJob, RemoveKinds
<1>3. /\ GoesOn(p, w) /\ requestsLeft' \in Nat /\ job[p].step = "idle"
      /\ UNCHANGED <<tables, stored, byTool, back, unasked, late>> /\ columnAt[a] # "gone"
      /\ mixed' = (mixed \/ \E q \in Requests \ {p} : Removing(q))
  BY <1>0, <1>1, <1>2, StartsRow DEF Aim, Mixes
<1>4. KindFits(w)
  BY <1>2 DEF KindFits, OwnSteps, SweepSteps, ColumnSteps, PutSteps
<1>5. ~mixed' => StaysApart(p, w)
  BY <1>2, <1>3 DEF StaysApart
<1>6. PlaceIsThere(w) /\ KnowsItsCards(w)' /\ TidiedSoFar(w) /\ job[p].step \notin HandSteps
  BY <1>2, <1>3 DEF PlaceIsThere, KnowsItsCards, TidiedSoFar, HandSteps
<1>7. mixed' \in BOOLEAN /\ byTool' \in BOOLEAN /\ (mixed => mixed')
  BY <1>0, <1>3 DEF StoreTypes
<1> QED
  BY <1>2, <1>3, <1>4, <1>5, <1>6, <1>7, RowOnly

(* A removal that begins, whatever it is of.                                  *)
LEMMA RemovalStarts ==
  ASSUME ArchiveInv, NEW p \in Requests, NEW w \in JobState, Starts(p, w), MixesIn(p),
         UNCHANGED <<tables, stored, back, unasked, late>>, byTool' \in BOOLEAN, byTool => byTool',
         KindFits(w), w.kind # "none", w.names = {}, w.step \in {"files", "list", "oldBoards", "toolData"},
         w.step = "files" => w.kind = "cards", w.step = "toolData" => byTool'
  PROVE  ArchiveInv'
<1>0. ArchiveTypes /\ StoreTypes /\ \A q \in Requests : KindFits(job[q])
  BY DEF ArchiveInv, ArchiveTypes
<1>1. GoesOn(p, w) /\ requestsLeft' \in Nat /\ job[p].step = "idle"
  BY <1>0, StartsRow
<1>2. mixed' = (mixed \/ \E q \in Requests \ {p} : job[q].step \in PutSteps)
  BY DEF MixesIn
<1>4. ~mixed' => StaysApart(p, w)
  BY <1>2 DEF StaysApart, PutSteps
<1>5. PlaceIsThere(w) /\ KnowsItsCards(w)' /\ (~byTool' => TidiedSoFar(w)) /\ job[p].step \notin HandSteps
  BY <1>1 DEF PlaceIsThere, KnowsItsCards, TidiedSoFar, HandSteps, RemoveSteps
<1>6. mixed' \in BOOLEAN /\ (mixed => mixed')
  BY <1>0, <1>2 DEF StoreTypes
<1> QED
  BY <1>1, <1>4, <1>5, <1>6, RowOnly

LEMMA BeginningsKeep ==
  ASSUME ArchiveInv, NEW p \in Requests,
         \/ \E c \in ArchiveCards : DestroyCard(p, c)
         \/ \E a \in Columns : DestroyColumn(p, a)
         \/ DestroyBoard(p) \/ Retention(p)
         \/ \E a \in Columns : ToolDestroys(p, [kind |-> "columns", columns |-> {a}])
         \/ ToolDestroys(p, [kind |-> "board", columns |-> Columns])
  PROVE  ArchiveInv'
<1> USE DEF KindFits, OwnSteps, SweepSteps, ColumnSteps, PutSteps, JobState, RemoveKinds, NoJob, RemoveSteps
<1>0. byTool \in BOOLEAN
  BY DEF ArchiveInv, ArchiveTypes, StoreTypes
<1>1. ASSUME NEW c \in ArchiveCards, DestroyCard(p, c) PROVE ArchiveInv'
  <2>1. PICK w : w = [NoJob EXCEPT !.step = "files", !.kind = "cards", !.cards = {c}]
    OBVIOUS
  <2>2. w \in JobState /\ w.step = "files" /\ w.kind = "cards" /\ w.names = {} /\ KindFits(w)
    BY <2>1
  <2>3. Starts(p, w) /\ MixesIn(p) /\ UNCHANGED <<tables, stored, back, unasked, late, byTool>>
    BY <1>1, <2>1 DEF DestroyCard, StartRemoving
  <2> HIDE DEF KindFits, JobState
  <2> QED
    BY <1>0, <2>2, <2>3, RemovalStarts
<1>2. ASSUME NEW a \in Columns, DestroyColumn(p, a) PROVE ArchiveInv'
  <2>1. PICK w : w = [NoJob EXCEPT !.step = "list", !.kind = "columns", !.columns = {a}]
    OBVIOUS
  <2>2. w \in JobState /\ w.step = "list" /\ w.kind = "columns" /\ w.names = {} /\ KindFits(w)
    BY <2>1
  <2>3. Starts(p, w) /\ MixesIn(p) /\ UNCHANGED <<tables, stored, back, unasked, late, byTool>>
    BY <1>2, <2>1 DEF DestroyColumn, StartRemoving
  <2> HIDE DEF KindFits, JobState
  <2> QED
    BY <1>0, <2>2, <2>3, RemovalStarts
<1>3. CASE DestroyBoard(p)
  <2>1. PICK w : w = [NoJob EXCEPT !.step = "list", !.kind = "board", !.columns = Columns]
    OBVIOUS
  <2>2. w \in JobState /\ w.step = "list" /\ w.kind = "board" /\ w.names = {} /\ KindFits(w)
    BY <2>1
  <2>3. Starts(p, w) /\ MixesIn(p) /\ UNCHANGED <<tables, stored, back, unasked, late, byTool>>
    BY <1>3, <2>1 DEF DestroyBoard, StartRemoving
  <2> HIDE DEF KindFits, JobState
  <2> QED
    BY <1>0, <2>2, <2>3, RemovalStarts
<1>4. CASE Retention(p)
  <2>1. PICK w : w = [NoJob EXCEPT !.step = "oldBoards", !.kind = "sweep"]
    OBVIOUS
  <2>2. w \in JobState /\ w.step = "oldBoards" /\ w.kind = "sweep" /\ w.names = {} /\ KindFits(w)
    BY <2>1
  <2>3. Starts(p, w) /\ MixesIn(p) /\ UNCHANGED <<tables, stored, back, unasked, late, byTool>>
    BY <1>4, <2>1 DEF Retention, StartRemoving
  <2> HIDE DEF KindFits, JobState
  <2> QED
    BY <1>0, <2>2, <2>3, RemovalStarts
<1>5. ASSUME NEW kind \in {"columns", "board"}, NEW columns \in SUBSET Columns,
             kind = "board" => columns = Columns, ToolDestroys(p, [kind |-> kind, columns |-> columns])
      PROVE  ArchiveInv'
  <2>1. PICK w : w = [NoJob EXCEPT !.step = "toolData", !.kind = kind, !.columns = columns]
    OBVIOUS
  <2>2. w \in JobState /\ w.step = "toolData" /\ w.kind = kind /\ w.names = {} /\ KindFits(w)
    BY <1>5, <2>1
  <2>3. Starts(p, w) /\ MixesIn(p) /\ UNCHANGED <<tables, stored, back, unasked, late>> /\ byTool' = TRUE
    BY <1>5, <2>1 DEF ToolDestroys
  <2> HIDE DEF KindFits, JobState
  <2> QED
    BY <1>0, <2>2, <2>3, RemovalStarts
<1> QED
  BY <1>1, <1>2, <1>3, <1>4, <1>5

-----------------------------------------------------------------------------
(* The steps of a removal that read                                           *)

(* A removal that goes on, with nothing in hand yet.                          *)
LEMMA RemovalReads ==
  ASSUME ArchiveInv, NEW p \in Requests, NEW w \in JobState, GoesOn(p, w), KindFits(w),
         UNCHANGED <<tables, stored, requestsLeft, mixed, byTool, back, unasked, late>>,
         Removing(p), w.step \notin PutSteps, job[p].step \notin HandSteps,
         \A f \in w.names : f \in job[p].names \/ Named(f),
         ~mixed => KnowsItsCards(w), (~mixed /\ ~byTool) => TidiedSoFar(w)
  PROVE  ArchiveInv'
<1>1. mixed \in BOOLEAN /\ byTool \in BOOLEAN /\ requestsLeft \in Nat
  BY DEF ArchiveInv, ArchiveTypes, StoreTypes
<1>2. UNCHANGED <<boardAt, columnAt, cardAt, column, things, attached, byTool>>
  BY DEF tables
<1>3. ~mixed' => StaysApart(p, w)
  BY DEF StaysApart, ArchiveInv, Unmixed, NoneMixed
<1>4. PlaceIsThere(w)
  BY DEF PlaceIsThere, PutSteps
<1>5. ~mixed' => KnowsItsCards(w)'
  BY <1>2 DEF KnowsItsCards, In
<1> QED
  BY <1>1, <1>3, <1>4, <1>5, RowOnly DEF PutSteps

LEMMA ReadingsKeep ==
  ASSUME ArchiveInv, NEW p \in Requests,
         OldBoards(p) \/ OldColumns(p) \/ NextColumn(p) \/ OldCards(p) \/ ListCards(p) \/ ReadNames(p)
  PROVE  ArchiveInv'
<1>1. PICK v \in JobState : v = job[p] /\ KindFits(v)
  BY DEF ArchiveInv, ArchiveTypes
<1>2. UNCHANGED <<tables, stored, requestsLeft, mixed, byTool, back, unasked, late>>
  BY DEF OldBoards, OldColumns, NextColumn, OldCards, ListCards, ReadNames
<1>3. /\ v.kind # "none" /\ Removing(p) /\ job[p].step \notin HandSteps
      /\ v.step \in SweepSteps \union {"list", "files"}
  BY <1>1 DEF OldBoards, OldColumns, NextColumn, OldCards, ListCards, ReadNames, JobAt, KindFits, Removing,
     HandSteps, OwnSteps, PutSteps, SweepSteps
<1>4. ArchiveTypes /\ NoJob \in JobState
  BY IdleRow DEF ArchiveInv
<1>5. ASSUME NEW w \in JobState, job' = [job EXCEPT ![p] = w], KindFits(w), w.names \subseteq v.names,
             w.step \in {"list", "oldColumns", "nextColumn", "oldCards", "idle"} \/ (w.step = "files" /\ w.kind = "cards")
      PROVE  ArchiveInv'
  <2>1. GoesOn(p, w)
    BY <1>4, <1>5, RowIsPut
  <2>2. KnowsItsCards(w) /\ TidiedSoFar(w) /\ w.step \notin PutSteps
    BY <1>5 DEF KnowsItsCards, TidiedSoFar, PutSteps, RemoveSteps
  <2> QED
    BY <1>1, <1>2, <1>3, <1>5, <2>1, <2>2, RemovalReads
<1>6. CASE OldBoards(p)
  <2>1. CASE boardAt = "expired"
    <3>1. PICK w : w = [v EXCEPT !.step = "list", !.kind = "board", !.columns = Columns, !.then = "oldColumns"]
      OBVIOUS
    <3>2. w \in JobState /\ w.step = "list" /\ w.kind = "board" /\ w.columns = Columns /\ w.names = v.names
      BY <1>1, <3>1 DEF JobState, ColumnSteps, RemoveKinds
    <3>3. job' = [job EXCEPT ![p] = w]
      BY <1>1, <1>4, <1>6, <2>1, <3>1 DEF OldBoards, ArchiveTypes
    <3> QED
      BY <1>5, <3>2, <3>3 DEF KindFits, OwnSteps, SweepSteps, ColumnSteps, PutSteps
  <2>2. CASE boardAt # "expired"
    <3>1. PICK w : w = [v EXCEPT !.step = "oldColumns"]
      OBVIOUS
    <3>2. w \in JobState /\ w.step = "oldColumns" /\ w.kind = v.kind /\ w.columns = v.columns /\ w.names = v.names
      BY <1>1, <3>1 DEF JobState, SweepSteps
    <3>3. job' = [job EXCEPT ![p] = w]
      BY <1>1, <1>4, <1>6, <2>2, <3>1 DEF OldBoards, ArchiveTypes
    <3>4. v.kind = "sweep"
      BY <1>1, <1>6 DEF OldBoards, JobAt, KindFits, SweepSteps
    <3> QED
      BY <1>5, <3>2, <3>3, <3>4 DEF KindFits, OwnSteps, SweepSteps, ColumnSteps, PutSteps
  <2> QED
    BY <2>1, <2>2
<1>7. CASE OldColumns(p)
  <2>1. PICK w : w = [v EXCEPT !.step = "nextColumn", !.queue = {a \in Columns : columnAt[a] = "expired"}]
    OBVIOUS
  <2>2. w \in JobState /\ w.step = "nextColumn" /\ w.kind = v.kind /\ w.columns = v.columns /\ w.names = v.names
    BY <1>1, <2>1 DEF JobState, SweepSteps
  <2>3. job' = [job EXCEPT ![p] = w]
    BY <1>1, <1>4, <1>7, <2>1 DEF OldColumns, ArchiveTypes
  <2>4. v.kind = "sweep"
    BY <1>1, <1>7 DEF OldColumns, JobAt, KindFits, SweepSteps
  <2> QED
    BY <1>5, <2>2, <2>3, <2>4 DEF KindFits, OwnSteps, SweepSteps, ColumnSteps, PutSteps
<1>8. CASE NextColumn(p)
  <2>1. v.kind = "sweep"
    BY <1>1, <1>8 DEF NextColumn, JobAt, KindFits, SweepSteps
  <2>2. CASE v.queue = {}
    <3>1. PICK w : w = [v EXCEPT !.step = "oldCards"]
      OBVIOUS
    <3>2. w \in JobState /\ w.step = "oldCards" /\ w.kind = v.kind /\ w.columns = v.columns /\ w.names = v.names
      BY <1>1, <3>1 DEF JobState, SweepSteps
    <3>3. job' = [job EXCEPT ![p] = w]
      BY <1>1, <1>4, <1>8, <2>2, <3>1 DEF NextColumn, Moves, ArchiveTypes
    <3> QED
      BY <1>5, <2>1, <3>2, <3>3 DEF KindFits, OwnSteps, SweepSteps, ColumnSteps, PutSteps
  <2>3. CASE v.queue # {}
    <3>1. PICK a \in v.queue :
            job' = [job EXCEPT ![p].step = "list", ![p].kind = "columns", ![p].columns = {a},
                      ![p].queue = @ \ {a}, ![p].then = "nextColumn"]
      BY <1>1, <1>8, <2>3 DEF NextColumn
    <3>2. PICK w : w = [v EXCEPT !.step = "list", !.kind = "columns", !.columns = {a},
                                 !.queue = @ \ {a}, !.then = "nextColumn"]
      OBVIOUS
    <3>3. w \in JobState /\ w.step = "list" /\ w.kind = "columns" /\ w.names = v.names
      BY <1>1, <3>1, <3>2 DEF JobState, ColumnSteps, RemoveKinds
    <3>4. job' = [job EXCEPT ![p] = w]
      BY <1>1, <1>4, <3>1, <3>2 DEF ArchiveTypes
    <3> QED
      BY <1>5, <3>3, <3>4 DEF KindFits, OwnSteps, SweepSteps, ColumnSteps, PutSteps
  <2> QED
    BY <2>2, <2>3
<1>9. CASE OldCards(p)
  <2> DEFINE old == {c \in ArchiveCards : cardAt[c] = "expired"}
  <2>1. CASE old # {}
    <3>1. PICK w : w = [v EXCEPT !.step = "files", !.kind = "cards", !.cards = old, !.then = "idle"]
      OBVIOUS
    <3>2. w \in JobState /\ w.step = "files" /\ w.kind = "cards" /\ w.names = v.names
      BY <1>1, <3>1 DEF JobState, RemoveSteps, RemoveKinds
    <3>3. job' = [job EXCEPT ![p] = w]
      BY <1>1, <1>4, <1>9, <2>1, <3>1 DEF OldCards, ArchiveTypes
    <3> QED
      BY <1>5, <3>2, <3>3 DEF KindFits, OwnSteps, SweepSteps, ColumnSteps, PutSteps
  <2>2. CASE old = {}
    <3>1. job' = [job EXCEPT ![p] = NoJob]
      BY <1>4, <1>9, <2>2 DEF OldCards, ArchiveTypes
    <3> QED
      BY <1>5, <3>1, IdleRow
  <2> QED
    BY <2>1, <2>2
<1>10. CASE ListCards(p)
  <2>1. PICK w : w = [v EXCEPT !.step = "files", !.cards = {c \in ArchiveCards : In(c, v.columns)}]
    OBVIOUS
  <2>2. /\ w \in JobState /\ w.step = "files" /\ w.kind = v.kind /\ w.columns = v.columns /\ w.names = v.names
        /\ w.cards = {c \in ArchiveCards : In(c, v.columns)}
    BY <1>1, <2>1 DEF JobState, RemoveSteps
  <2>3. job' = [job EXCEPT ![p] = w]
    BY <1>1, <1>4, <1>10, <2>1 DEF ListCards, ArchiveTypes
  <2>4. GoesOn(p, w)
    BY <1>4, <2>2, <2>3, RowIsPut
  <2>5. v.kind \in {"columns", "board"}
    BY <1>1, <1>10 DEF ListCards, JobAt, KindFits, ColumnSteps
  <2>6. KindFits(w) /\ KnowsItsCards(w) /\ TidiedSoFar(w) /\ w.step \notin PutSteps
    BY <1>1, <2>2, <2>5 DEF KindFits, OwnSteps, SweepSteps, ColumnSteps, PutSteps, KnowsItsCards, TidiedSoFar
  <2> QED
    BY <1>1, <1>2, <1>3, <2>2, <2>4, <2>6, RemovalReads
<1>11. CASE ReadNames(p)
  <2> DEFINE names == {r[2] : r \in {x \in attached : x[1] \in v.cards}}
  <2>1. PICK w : w = [v EXCEPT !.step = "data", !.names = names]
    OBVIOUS
  <2>2. names \subseteq Files /\ (\A f \in names : Named(f)) /\ \A r \in attached : r[1] \in v.cards => r[2] \in names
    BY DEF ArchiveInv, ArchiveTypes, StoreTypes, Named
  <2>3. job' = [job EXCEPT ![p] = w]
    BY <1>1, <1>4, <1>11, <2>1 DEF ReadNames, ArchiveTypes
  <2> HIDE DEF names
  <2>4. /\ w \in JobState /\ w.step = "data" /\ w.kind = v.kind /\ w.columns = v.columns /\ w.cards = v.cards
        /\ w.names = names
    BY <1>1, <2>1, <2>2 DEF JobState, RemoveSteps
  <2>5. GoesOn(p, w)
    BY <1>4, <2>3, <2>4, RowIsPut
  <2>6. v.step = "files"
    BY <1>1, <1>11 DEF ReadNames, JobAt
  <2>7. KindFits(w) /\ w.step \notin PutSteps
    BY <1>1, <2>4, <2>6 DEF KindFits, OwnSteps, SweepSteps, ColumnSteps, PutSteps
  <2>8. ~mixed => KnowsItsCards(w)
    BY <1>1, <2>4, <2>6 DEF KnowsItsCards, ArchiveInv, Unmixed, RemoveSteps
  <2>9. TidiedSoFar(w)
    BY <2>2, <2>4 DEF TidiedSoFar
  <2> QED
    BY <1>2, <1>3, <2>2, <2>4, <2>5, <2>7, <2>8, <2>9, RemovalReads
<1> QED
  BY <1>6, <1>7, <1>8, <1>9, <1>10, <1>11

-----------------------------------------------------------------------------
(* Putting away, bringing back, ageing                                        *)

(* Nothing comes or goes; at most a request that archives or restores goes on.*)
Restores(q) ==
  /\ job[q].step \in {"archiveCard", "restoreCard", "restoreColumn"}
  /\ job'[q].step \in {"restoreColumn", "record"} /\ job'[q].kind = "none"
  /\ job'[q].names \subseteq job[q].names
NothingMoves ==
  /\ UNCHANGED <<column, things, attached, stored, mixed, byTool, unasked, late>>
  /\ job' \in [Requests -> JobState] /\ \A q \in Requests : job'[q] = job[q] \/ Restores(q)
  /\ \A c \in ArchiveCards : Present(cardAt'[c]) <=> Present(cardAt[c])
  /\ \A a \in Columns : columnAt'[a] = "gone" <=> columnAt[a] = "gone"
  /\ boardAt' = "gone" <=> boardAt = "gone"

LEMMA JobsKept ==
  ASSUME ArchiveInv, NothingMoves, StoreTypes'
  PROVE  /\ ArchiveTypes' /\ \A q \in Requests : KindFits(job'[q])
         /\ RowHasFile' /\ AttachesAlone'
<1>1. ArchiveTypes'
  BY DEF NothingMoves, ArchiveTypes
<1>2. ASSUME NEW q \in Requests PROVE KindFits(job'[q])
  BY DEF ArchiveInv, NothingMoves, Restores, KindFits, OwnSteps, SweepSteps, ColumnSteps
<1>3. RowHasFile'
  BY DEF ArchiveInv, NothingMoves, RowHasFile
<1>4. AttachesAlone'
  <2> SUFFICES ASSUME NEW q \in Requests, JobAt(q, "attach")', NEW f \in job'[q].names
               PROVE  /\ f \in stored' \union unasked' /\ ~Named(f)'
                      /\ \A o \in Requests \ {q} : f \notin job'[o].names
    BY DEF AttachesAlone
  <2>1. job'[q] = job[q] /\ JobAt(q, "attach")
    BY DEF NothingMoves, Restores, JobAt
  <2>2. f \in stored \union unasked /\ ~Named(f) /\ \A o \in Requests \ {q} : f \notin job[o].names
    BY <2>1 DEF ArchiveInv, AttachesAlone
  <2> QED
    BY <2>2 DEF NothingMoves, Restores, Named
<1> QED
  BY <1>1, <1>2, <1>3, <1>4

LEMMA UnmixedStays ==
  ASSUME ArchiveInv, NothingMoves, Unmixed
  PROVE  Unmixed'
<1>1. NoneMixed'
  BY DEF Unmixed, NoneMixed, NothingMoves, Restores, Removing, PutSteps
<1>2. AllInPlace'
  <2>1. ASSUME NEW c \in ArchiveCards, Present(cardAt'[c]) PROVE columnAt'[column'[c]] # "gone"
    BY <2>1 DEF Unmixed, AllInPlace, NothingMoves, ArchiveInv, ArchiveTypes, StoreTypes
  <2>2. ASSUME NEW a \in Columns, columnAt'[a] # "gone" PROVE boardAt' # "gone"
    BY <2>2 DEF Unmixed, AllInPlace, NothingMoves
  <2> QED
    BY <2>1, <2>2 DEF AllInPlace
<1>3. ASSUME NEW q \in Requests PROVE (PlaceIsThere(job[q]) /\ KnowsItsCards(job[q]))'
  <2>1. CASE job'[q] = job[q]
    <3>1. job[q].columns \subseteq Columns /\ job[q].cards \subseteq ArchiveCards
      BY DEF ArchiveInv, ArchiveTypes, JobState
    <3>2. PlaceIsThere(job[q])'
      BY <2>1, <3>1 DEF Unmixed, NothingMoves, PlaceIsThere
    <3>3. KnowsItsCards(job[q])'
      BY <2>1 DEF Unmixed, NothingMoves, KnowsItsCards, In
    <3> QED
      BY <3>2, <3>3
  <2>2. CASE Restores(q)
    BY <2>2 DEF Restores, PlaceIsThere, KnowsItsCards
  <2> QED
    BY <2>1, <2>2 DEF NothingMoves
<1> QED
  BY <1>1, <1>2, <1>3 DEF Unmixed

LEMMA TidyStays ==
  ASSUME ArchiveInv, NothingMoves, Tidy
  PROVE  Tidy'
<1>1. RowsHaveCards'
  BY DEF Tidy, RowsHaveCards, NothingMoves, ArchiveInv, ArchiveTypes, StoreTypes
<1>2. FilesInHand'
  BY DEF Tidy, FilesInHand, NothingMoves, Restores, HandSteps, Named
<1>3. ASSUME NEW q \in Requests PROVE TidiedSoFar(job[q])'
  <2>1. CASE job'[q] = job[q]
    BY <2>1 DEF Tidy, NothingMoves, TidiedSoFar
  <2>2. CASE Restores(q)
    BY <2>2 DEF Restores, TidiedSoFar
  <2> QED
    BY <2>1, <2>2 DEF NothingMoves
<1> QED
  BY <1>1, <1>2, <1>3 DEF Tidy

LEMMA ShiftKeeps ==
  ASSUME ArchiveInv, NothingMoves, StoreTypes',
         \A c \in back' : c \in back \/ Present(cardAt[c]),
         \A c \in back' :
           \/ columnAt'[column[c]] = "shown" \/ (mixed /\ columnAt[column[c]] = "gone")
           \/ c \in back /\ columnAt'[column[c]] = columnAt[column[c]]
  PROVE  ArchiveInv'
<1>1. back' \subseteq ArchiveCards /\ back \subseteq ArchiveCards
  BY DEF StoreTypes, ArchiveInv, ArchiveTypes
<1>2. BackIsThere'
  BY <1>1 DEF BackIsThere, NothingMoves, ArchiveInv
<1>3. BackIsSeen'
  <2> SUFFICES ASSUME NEW c \in back'
               PROVE  columnAt'[column'[c]] = "shown" \/ (mixed' /\ columnAt'[column'[c]] = "gone")
    BY DEF BackIsSeen
  <2>1. column'[c] = column[c] /\ mixed' = mixed /\ column[c] \in Columns
    BY <1>1 DEF NothingMoves, ArchiveInv, ArchiveTypes, StoreTypes
  <2> QED
    BY <2>1 DEF ArchiveInv, BackIsSeen, NothingMoves
<1>4. ~mixed' => Unmixed'
  BY UnmixedStays DEF ArchiveInv, NothingMoves
<1>5. (~mixed' /\ ~byTool') => Tidy'
  BY TidyStays DEF ArchiveInv, NothingMoves
<1> QED
  BY <1>2, <1>3, <1>4, <1>5, JobsKept DEF ArchiveInv

LEMMA PuttingAwayKeeps ==
  ASSUME ArchiveInv,
         \/ \E a \in Columns : PutColumnAway(a) \/ RestoreColumn(a)
         \/ PutBoardAway \/ RestoreBoard \/ Ages
  PROVE  ArchiveInv'
<1> USE DEF ArchiveTypes, StoreTypes, Present, PutAway
<1>0. StoreTypes /\ job \in [Requests -> JobState] /\ BackIsSeen
  BY DEF ArchiveInv
<1>2. ASSUME NEW a \in Columns, PutColumnAway(a) PROVE ArchiveInv'
  <2>1. StoreTypes' /\ NothingMoves
    BY <1>0, <1>2 DEF PutColumnAway, Once, NothingMoves
  <2>2. \A c \in back' : c \in back /\ columnAt'[column[c]] = columnAt[column[c]]
    BY <1>0, <1>2 DEF PutColumnAway
  <2> QED
    BY <2>1, <2>2, ShiftKeeps
<1>3. ASSUME NEW a \in Columns, RestoreColumn(a) PROVE ArchiveInv'
  <2>1. StoreTypes' /\ NothingMoves
    BY <1>0, <1>3 DEF RestoreColumn, Once, NothingMoves
  <2>2. \A c \in back' : c \in back /\ (columnAt'[column[c]] = columnAt[column[c]] \/ columnAt'[column[c]] = "shown")
    BY <1>0, <1>3 DEF RestoreColumn
  <2> QED
    BY <2>1, <2>2, ShiftKeeps
<1>4. CASE PutBoardAway \/ RestoreBoard
  <2>1. StoreTypes' /\ NothingMoves
    BY <1>0, <1>4 DEF PutBoardAway, RestoreBoard, Once, NothingMoves
  <2>2. \A c \in back' : c \in back /\ columnAt'[column[c]] = columnAt[column[c]]
    BY <1>0, <1>4 DEF PutBoardAway, RestoreBoard
  <2> QED
    BY <2>1, <2>2, ShiftKeeps
<1>5. CASE Ages
  <2>1. StoreTypes' /\ NothingMoves
    BY <1>0, <1>5 DEF Ages, NothingMoves
  <2>2. \A c \in back' : c \in back /\ columnAt'[column[c]] = columnAt[column[c]]
    <3> SUFFICES ASSUME NEW c \in back PROVE columnAt'[column[c]] = columnAt[column[c]]
      BY <1>5 DEF Ages
    <3>1. column[c] \in Columns /\ columnAt[column[c]] \in {"shown", "gone"}
      BY <1>0 DEF BackIsSeen
    <3> QED
      BY <1>5, <3>1 DEF Ages
  <2> QED
    BY <2>1, <2>2, ShiftKeeps
<1> QED
  BY <1>2, <1>3, <1>4, <1>5

LEMMA RestoringKeeps ==
  ASSUME ArchiveInv, NEW p \in Requests, PutCardAway(p) \/ RestoreCardRow(p) \/ RestoreItsColumn(p)
  PROVE  ArchiveInv'
<1>0. /\ ArchiveTypes /\ StoreTypes /\ BackIsSeen /\ KindFits(job[p])
      /\ job[p] \in JobState /\ job[p].columns \subseteq Columns /\ job[p].cards \subseteq ArchiveCards
  BY DEF ArchiveInv, ArchiveTypes, JobState
<1>1. CASE RestoreCardRow(p)
  <2>1. PICK w \in JobState : GoesOn(p, w) /\ w.step = "restoreColumn" /\ Same(job[p], w)
    BY <1>0, <1>1, MovesRow DEF RestoreCardRow, AllSteps, OwnSteps
  <2>2. job[p].step = "restoreCard" /\ w.kind = "none"
    BY <1>0, <1>1, <2>1 DEF RestoreCardRow, JobAt, Same, KindFits, OwnSteps
  <2>3. Restores(p) /\ \A q \in Requests : job'[q] = job[q] \/ Restores(q)
    BY <2>1, <2>2 DEF GoesOn, Restores, Same
  <2>4. StoreTypes' /\ NothingMoves
    BY <1>0, <1>1, <2>1, <2>3 DEF RestoreCardRow, NothingMoves, StoreTypes, ShownAgain, PutAway, Present, GoesOn
  <2> QED
    BY <1>1, <2>4, ShiftKeeps DEF RestoreCardRow
<1>2. CASE RestoreItsColumn(p)
  <2>0. PICK w \in JobState : GoesOn(p, w) /\ w.step = "record" /\ Same(job[p], w)
    BY <1>0, <1>2, MovesRow DEF RestoreItsColumn, AllSteps, OwnSteps
  <2>1. job[p].step = "restoreColumn" /\ w.kind = "none"
    BY <1>0, <1>2, <2>0 DEF RestoreItsColumn, JobAt, Same, KindFits, OwnSteps
  <2>2. \A q \in Requests : job'[q] = job[q] \/ Restores(q)
    BY <2>0, <2>1 DEF GoesOn, Restores, Same
  <2>3. StoreTypes'
    BY <1>0, <1>2 DEF RestoreItsColumn, StoreTypes, ShownAgain, PutAway
  <2>4. NothingMoves
    BY <1>0, <1>2, <2>0, <2>2 DEF RestoreItsColumn, NothingMoves, StoreTypes, ShownAgain, PutAway, GoesOn
  <2>5. ASSUME NEW c \in back', c \notin back
        PROVE  /\ Present(cardAt[c])
               /\ columnAt'[column[c]] = "shown" \/ (mixed /\ columnAt[column[c]] = "gone")
    <3>1. cardAt[c] = "shown" /\ column[c] \in job[p].columns /\ c \in ArchiveCards
      BY <1>0, <1>2, <2>5, <2>3 DEF RestoreItsColumn, StoreTypes
    <3>2. ~mixed => columnAt[column[c]] # "gone"
      BY <3>1 DEF ArchiveInv, Unmixed, AllInPlace, Present
    <3>3. column[c] \in Columns /\ columnAt'[column[c]] = ShownAgain(columnAt[column[c]])
      BY <1>0, <1>2, <3>1 DEF RestoreItsColumn, StoreTypes
    <3>4. mixed \in BOOLEAN /\ columnAt[column[c]] \in {"shown", "archived", "expired", "gone"}
      BY <1>0, <3>3 DEF StoreTypes
    <3> QED
      BY <3>1, <3>2, <3>3, <3>4 DEF ShownAgain, PutAway, Present
  <2>6. ASSUME NEW c \in back
        PROVE  columnAt'[column[c]] = columnAt[column[c]] \/ columnAt'[column[c]] = "shown"
    BY <1>0, <1>2 DEF RestoreItsColumn, StoreTypes, ShownAgain
  <2> QED
    BY <2>3, <2>4, <2>5, <2>6, ShiftKeeps
<1>3. CASE PutCardAway(p)
  <2>1. PICK w \in JobState : GoesOn(p, w) /\ w.step = "record" /\ Same(job[p], w)
    BY <1>0, <1>3, MovesRow DEF PutCardAway, AllSteps, OwnSteps
  <2>2. job[p].step = "archiveCard" /\ w.kind = "none"
    BY <1>0, <1>3, <2>1 DEF PutCardAway, JobAt, Same, KindFits, OwnSteps
  <2>3. Restores(p) /\ \A q \in Requests : job'[q] = job[q] \/ Restores(q)
    BY <2>1, <2>2 DEF GoesOn, Restores, Same
  <2>4. StoreTypes' /\ NothingMoves /\ back' \subseteq back /\ columnAt' = columnAt
    BY <1>0, <1>3, <2>1, <2>3 DEF PutCardAway, NothingMoves, StoreTypes, Present, GoesOn
  <2> QED
    BY <2>4, ShiftKeeps
<1> QED
  BY <1>1, <1>2, <1>3

(* The line of the history comes when it comes.                               *)
LEMMA RecordKeeps ==
  ASSUME ArchiveInv, NEW p \in Requests, RecordActivity(p)
  PROVE  ArchiveInv'
<1>0. ArchiveTypes /\ StoreTypes
  BY DEF ArchiveInv, ArchiveTypes
<1>1. PICK v \in JobState : v = job[p] /\ KindFits(v)
  BY DEF ArchiveInv, ArchiveTypes
<1>2. /\ v.step = "record" /\ v.kind = "none" /\ GoesOn(p, NoJob) /\ v.cards \subseteq ArchiveCards
      /\ things' = things \union v.cards /\ late' = late \union {c \in v.cards : PastRemoving(c)}
      /\ UNCHANGED <<boardAt, columnAt, cardAt, column, attached, stored, requestsLeft, mixed, byTool, back, unasked>>
  BY <1>0, <1>1, FinishesRow DEF RecordActivity, JobAt, JobState, KindFits, OwnSteps
<1>3. StoreTypes'
  BY <1>0, <1>2 DEF StoreTypes
<1>4. ArchiveTypes' /\ \A q \in Requests : KindFits(job'[q])
  BY <1>2, <1>3, IdleRow, TypesKept
<1>5. RowHasFile' /\ \A f : Named(f)' <=> Named(f)
  BY <1>2 DEF RowHasFile, Named, ArchiveInv
<1>6. AttachesAlone'
  <2>1. \A q \in Requests : JobAt(q, "attach") => \A f \in job[q].names : f \in stored' \union unasked'
    BY <1>2 DEF ArchiveInv, AttachesAlone
  <2> QED
    BY <1>2, <1>5, <2>1, IdleRow, AloneKept
<1>7. BackIsThere' /\ BackIsSeen'
  BY <1>2, BackKept DEF ArchiveInv, BackIsThere
<1>8. ~mixed' => Unmixed'
  <2> SUFFICES ASSUME ~mixed' PROVE Unmixed'
    OBVIOUS
  <2>1. Unmixed
    BY <1>2 DEF ArchiveInv
  <2>2. AllInPlace' /\ StaysApart(p, NoJob) /\ PlaceIsThere(NoJob)' /\ KnowsItsCards(NoJob)'
    BY <1>2, <2>1, IdleRow DEF Unmixed, AllInPlace, StaysApart, PutSteps, PlaceIsThere, KnowsItsCards
  <2>3. \A q \in Requests \ {p} : PlaceIsThere(job[q])' /\ KnowsItsCards(job[q])'
    BY <1>0, <1>2, <2>1, IdleRow, PlacesStay, KnowStill DEF Unmixed
  <2> QED
    BY <1>2, <2>1, <2>2, <2>3, IdleRow, UnmixedKept
<1>9. (~mixed' /\ ~byTool') => Tidy'
  <2> SUFFICES ASSUME ~mixed', ~byTool' PROVE Tidy'
    OBVIOUS
  <2>1. Tidy
    BY <1>2 DEF ArchiveInv
  <2>2. ASSUME NEW c \in things' PROVE Present(cardAt[c]) \/ c \in late'
    BY <1>2, <2>1, <2>2 DEF Tidy, RowsHaveCards, PastRemoving
  <2>3. RowsHaveCards'
    BY <1>2, <2>1, <2>2 DEF Tidy, RowsHaveCards
  <2>4. ASSUME NEW q \in Requests \ {p} PROVE TidiedSoFar(job[q])'
    <3>1. job'[q] = job[q] /\ TidiedSoFar(job[q])
      BY <1>2, <2>1 DEF GoesOn, Tidy
    <3>2. ASSUME job[q].step \in {"unlink", "cards"}, NEW c \in things', c \in job[q].cards PROVE c \in late'
      BY <1>2, <3>1, <3>2 DEF TidiedSoFar, PastRemoving
    <3> QED
      BY <1>2, <3>1, <3>2 DEF TidiedSoFar
  <2>5. TidiedSoFar(NoJob)'
    BY IdleRow DEF TidiedSoFar
  <2>6. FilesInHand'
    BY <1>1, <1>2, <1>5, <2>1, IdleRow, FilesStayInHand DEF Tidy, HandSteps
  <2> QED
    BY <1>2, <2>3, <2>4, <2>5, <2>6, IdleRow, TidyKept
<1> QED
  BY <1>4, <1>5, <1>6, <1>7, <1>8, <1>9 DEF ArchiveInv

-----------------------------------------------------------------------------
(* Putting things somewhere                                                   *)

(* A step of a request that puts something, while nobody removes anything, or *)
(* while it is known that things are mixed.                                   *)
LEMMA PutsKeep ==
  ASSUME ArchiveInv, NEW p \in Requests, NEW w \in JobState, GoesOn(p, w), KindFits(w), w.kind = "none",
         StoreTypes', UNCHANGED byTool, mixed => mixed', UNCHANGED <<boardAt, columnAt>>,
         ~mixed' => \A q \in Requests \ {p} : ~Removing(q),
         \A c \in ArchiveCards : Present(cardAt[c]) => Present(cardAt'[c]),
         RowHasFile', AttachesAlone', BackIsThere', BackIsSeen',
         ~mixed' => AllInPlace' /\ PlaceIsThere(w)',
         (~mixed' /\ ~byTool') => RowsHaveCards' /\ FilesInHand'
  PROVE  ArchiveInv'
<1>1. ArchiveTypes' /\ \A q \in Requests : KindFits(job'[q])
  BY TypesKept
<1>2. KnowsItsCards(w)' /\ TidiedSoFar(w)'
  BY DEF KindFits, KnowsItsCards, TidiedSoFar, OwnSteps, PutSteps
<1>3. ArchiveTypes /\ \A q \in Requests : KindFits(job[q])
  BY DEF ArchiveInv
<1>4. ~mixed' => \A q \in Requests \ {p} : KnowsItsCards(job[q])' /\ TidiedSoFar(job[q])'
  BY <1>3, NothingToKnow
<1>5. ~mixed' => Unmixed'
  <2> SUFFICES ASSUME ~mixed' PROVE Unmixed'
    OBVIOUS
  <2>1. Unmixed /\ StaysApart(p, w)
    BY DEF ArchiveInv, StaysApart
  <2>2. \A q \in Requests \ {p} : PlaceIsThere(job[q])'
    BY <1>3, <2>1, PlacesStay DEF Unmixed
  <2> QED
    BY <1>2, <1>4, <2>1, <2>2, UnmixedKept
<1>6. (~mixed' /\ ~byTool') => Tidy'
  BY <1>2, <1>4, TidyKept
<1> QED
  BY <1>1, <1>5, <1>6 DEF ArchiveInv

LEMMA UploadKeeps ==
  ASSUME ArchiveInv, NEW p \in Requests, NEW c \in ArchiveCards, NEW f \in Files, Upload(p, c, f)
  PROVE  ArchiveInv'
<1>0. ArchiveTypes /\ StoreTypes
  BY DEF ArchiveInv, ArchiveTypes
<1>1. PICK w : w = [NoJob EXCEPT !.step = "attach", !.cards = {c}, !.names = {f}]
  OBVIOUS
<1>2. w \in JobState /\ w.step = "attach" /\ w.kind = "none" /\ w.names = {f} /\ w.cards = {c}
  BY <1>1, IdleRow DEF JobState, OwnSteps, PutSteps, NoJob, RemoveKinds
<1>3. /\ GoesOn(p, w) /\ requestsLeft' \in Nat /\ job[p].step = "idle"
      /\ UNCHANGED <<tables, byTool, back, unasked, late>> /\ stored' = stored \union {f}
      /\ mixed' = (mixed \/ \E q \in Requests \ {p} : Removing(q))
      /\ Present(cardAt[c]) /\ FreshName(f)
  BY <1>0, <1>1, <1>2, StartsRow DEF Upload, Mixes
<1>4. UNCHANGED <<boardAt, columnAt, cardAt, column, things, attached>>
  BY <1>3 DEF tables
<1>5. KindFits(w)
  BY <1>2 DEF KindFits, OwnSteps, SweepSteps, ColumnSteps, PutSteps
<1>6. StoreTypes' /\ (mixed => mixed') /\ (~mixed' => \A q \in Requests \ {p} : ~Removing(q))
  BY <1>0, <1>3, <1>4 DEF StoreTypes
<1>7. RowHasFile' /\ \A g : Named(g)' <=> Named(g)
  BY <1>3, <1>4 DEF RowHasFile, Named, ArchiveInv
<1>8. AttachesAlone'
  <2>1. \A q \in Requests : JobAt(q, "attach") => \A g \in job[q].names : g \in stored' \union unasked'
    BY <1>3 DEF ArchiveInv, AttachesAlone
  <2>2. \A g \in w.names : FreshName(g) /\ g \in stored' /\ ~Named(g)'
    BY <1>2, <1>3, <1>7 DEF FreshName, Named
  <2> QED
    BY <1>2, <1>3, <1>7, <2>1, <2>2, AloneKept
<1>9. BackIsThere' /\ BackIsSeen'
  BY <1>3, <1>4, <1>6, BackKept DEF ArchiveInv, BackIsThere
<1>10. ~mixed' => AllInPlace' /\ PlaceIsThere(w)'
  BY <1>2, <1>3, <1>4, <1>6 DEF ArchiveInv, Unmixed, AllInPlace, PlaceIsThere
<1>11. (~mixed' /\ ~byTool') => RowsHaveCards' /\ FilesInHand'
  <2> SUFFICES ASSUME ~mixed', ~byTool' PROVE RowsHaveCards' /\ FilesInHand'
    OBVIOUS
  <2>1. Tidy
    BY <1>3, <1>6 DEF ArchiveInv
  <2>2. FilesInHand'
    BY <1>2, <1>3, <1>7, <2>1, FilesStayInHand DEF Tidy, HandSteps
  <2> QED
    BY <1>3, <1>4, <2>1, <2>2 DEF Tidy, RowsHaveCards
<1> QED
  BY <1>2, <1>3, <1>4, <1>5, <1>6, <1>7, <1>8, <1>9, <1>10, <1>11, PutsKeep

LEMMA DuplicateKeeps ==
  ASSUME ArchiveInv, NEW p \in Requests, NEW c \in ArchiveCards, NEW d \in ArchiveCards, NEW f \in Files,
         Duplicate(p, c, d, f)
  PROVE  ArchiveInv'
<1>0. ArchiveTypes /\ StoreTypes
  BY DEF ArchiveInv, ArchiveTypes
<1>1. PICK w : w = [NoJob EXCEPT !.step = "copy", !.cards = {d}, !.names = {f}]
  OBVIOUS
<1>2. w \in JobState /\ w.step = "copy" /\ w.kind = "none" /\ w.names = {f} /\ w.cards = {d}
  BY <1>1, IdleRow DEF JobState, OwnSteps, PutSteps, NoJob, RemoveKinds
<1>3. /\ GoesOn(p, w) /\ requestsLeft' \in Nat /\ job[p].step = "idle"
      /\ mixed' = (mixed \/ \E q \in Requests \ {p} : Removing(q))
  BY <1>0, <1>1, <1>2, StartsRow DEF Duplicate, Mixes
<1>4. /\ UNCHANGED <<boardAt, columnAt, attached, stored, byTool, back, unasked, late>>
      /\ cardAt' = [cardAt EXCEPT ![d] = "shown"] /\ column' = [column EXCEPT ![d] = column[c]]
      /\ things' = things \union {d} /\ <<c, f>> \in attached /\ cardAt[d] = "unborn"
      /\ columnAt[column[c]] # "gone"
  BY DEF Duplicate
<1>5. KindFits(w)
  BY <1>2 DEF KindFits, OwnSteps, SweepSteps, ColumnSteps, PutSteps
<1>6. StoreTypes' /\ (mixed => mixed') /\ (~mixed' => \A q \in Requests \ {p} : ~Removing(q))
  BY <1>0, <1>3, <1>4 DEF StoreTypes
<1>7. RowHasFile' /\ (\A g : Named(g)' <=> Named(g)) /\ Named(f)
  BY <1>4 DEF RowHasFile, Named, ArchiveInv
<1>8. AttachesAlone'
  <2>1. \A q \in Requests : JobAt(q, "attach") => \A g \in job[q].names : g \in stored' \union unasked'
    BY <1>4 DEF ArchiveInv, AttachesAlone
  <2> QED
    BY <1>2, <1>3, <1>7, <2>1, AloneKept
<1>9. \A x \in ArchiveCards : Present(cardAt[x]) =>
        x # d /\ cardAt'[x] = cardAt[x] /\ column'[x] = column[x]
  BY <1>0, <1>4 DEF StoreTypes, Present
<1>10. BackIsThere' /\ BackIsSeen'
  BY <1>0, <1>4, <1>6, <1>9, BackKept DEF ArchiveInv, BackIsThere, StoreTypes
<1>11. cardAt'[d] = "shown" /\ column'[d] = column[c]
  BY <1>0, <1>4 DEF StoreTypes
<1>12. \A x \in ArchiveCards : Present(cardAt'[x]) => Present(cardAt[x]) \/ x = d
  BY <1>0, <1>4 DEF StoreTypes
<1>13. ~mixed' => AllInPlace' /\ PlaceIsThere(w)'
  BY <1>2, <1>4, <1>6, <1>9, <1>11, <1>12 DEF ArchiveInv, Unmixed, AllInPlace, PlaceIsThere, Present
<1>14. (~mixed' /\ ~byTool') => RowsHaveCards' /\ FilesInHand'
  <2> SUFFICES ASSUME ~mixed', ~byTool' PROVE RowsHaveCards' /\ FilesInHand'
    OBVIOUS
  <2>1. Tidy
    BY <1>4, <1>6 DEF ArchiveInv
  <2>2. FilesInHand'
    BY <1>2, <1>3, <1>4, <1>7, <2>1, FilesStayInHand DEF Tidy, HandSteps
  <2>3. RowsHaveCards'
    BY <1>0, <1>4, <1>9, <1>11, <2>1 DEF Tidy, RowsHaveCards, Present, StoreTypes
  <2> QED
    BY <2>2, <2>3
<1> QED
  BY <1>2, <1>3, <1>4, <1>5, <1>6, <1>7, <1>8, <1>9, <1>10, <1>13, <1>14, PutsKeep

LEMMA AttachKeeps ==
  ASSUME ArchiveInv, NEW p \in Requests, Attach(p)
  PROVE  ArchiveInv'
<1>0. ArchiveTypes /\ StoreTypes
  BY DEF ArchiveInv, ArchiveTypes
<1>1. PICK v \in JobState : v = job[p] /\ KindFits(v)
  BY DEF ArchiveInv, ArchiveTypes
<1>2. /\ v.step = "attach" /\ GoesOn(p, NoJob) /\ v.kind = "none" /\ v.cards # {}
      /\ v.cards \subseteq ArchiveCards /\ v.names \subseteq Files
  BY <1>0, <1>1, FinishesRow DEF Attach, JobAt, KindFits, OwnSteps, PutSteps, JobState
<1>3. /\ attached' = attached \union (v.cards \X v.names) /\ things' = things \union v.cards
      /\ UNCHANGED <<boardAt, columnAt, cardAt, column, stored, requestsLeft, mixed, byTool, back, unasked, late>>
  BY <1>1 DEF Attach
<1>4. StoreTypes'
  BY <1>0, <1>2, <1>3 DEF StoreTypes
<1>5. \A q \in Requests : JobAt(q, "attach") => \A g \in job[q].names : g \in stored' \union unasked'
  BY <1>3 DEF ArchiveInv, AttachesAlone
<1>6. RowHasFile'
  BY <1>1, <1>2, <1>3, <1>5 DEF RowHasFile, ArchiveInv, JobAt
<1>7. (\A g : Named(g) => Named(g)') /\ (\A g : Named(g)' => Named(g) \/ g \in v.names) /\ \A g \in v.names : Named(g)'
  <2>1. PICK x \in v.cards : TRUE
    BY <1>2
  <2>2. \A g \in v.names : <<x, g>> \in attached'
    BY <1>3, <2>1
  <2>3. \A g \in v.names : Named(g)'
    BY <2>2 DEF Named
  <2> QED
    BY <1>3, <2>3 DEF Named
<1>8. AttachesAlone'
  BY <1>1, <1>2, <1>5, <1>7, IdleRow, AloneKept DEF JobAt
<1>9. BackIsThere' /\ BackIsSeen'
  BY <1>3, BackKept DEF ArchiveInv, BackIsThere
<1>10. ~mixed => Unmixed /\ (\A x \in v.cards : Present(cardAt[x])) /\ \A q \in Requests \ {p} : ~Removing(q)
  BY <1>1, <1>2 DEF ArchiveInv, Unmixed, PlaceIsThere, NoneMixed, PutSteps
<1>11. ~mixed' => AllInPlace' /\ PlaceIsThere(NoJob)'
  BY <1>3, <1>10, IdleRow DEF Unmixed, AllInPlace, PlaceIsThere
<1>12. (~mixed' /\ ~byTool') => RowsHaveCards' /\ FilesInHand'
  <2> SUFFICES ASSUME ~mixed', ~byTool' PROVE RowsHaveCards' /\ FilesInHand'
    OBVIOUS
  <2>1. Tidy
    BY <1>3 DEF ArchiveInv
  <2>2. FilesInHand'
    BY <1>1, <1>2, <1>3, <1>7, <2>1, IdleRow, FilesStayInHand DEF Tidy
  <2>3. RowsHaveCards'
    BY <1>3, <1>10, <2>1 DEF Tidy, RowsHaveCards
  <2> QED
    BY <2>2, <2>3
<1> QED
  BY <1>2, <1>3, <1>4, <1>6, <1>8, <1>9, <1>10, <1>11, <1>12, IdleRow, PutsKeep

LEMMA CopyFileKeeps ==
  ASSUME ArchiveInv, NEW p \in Requests, CopyFile(p)
  PROVE  ArchiveInv'
<1>0. ArchiveTypes /\ StoreTypes
  BY DEF ArchiveInv, ArchiveTypes
<1>1. PICK v \in JobState : v = job[p] /\ KindFits(v)
  BY DEF ArchiveInv, ArchiveTypes
<1>2. /\ v.step = "copy" /\ v.kind = "none" /\ v.cards # {} /\ v.cards \subseteq ArchiveCards
      /\ UNCHANGED <<tables, requestsLeft, mixed, byTool, back, unasked, late>>
  BY <1>1 DEF CopyFile, JobAt, KindFits, OwnSteps, PutSteps, JobState
<1>3. UNCHANGED <<boardAt, columnAt, cardAt, column, things, attached>>
  BY <1>2 DEF tables
<1>4. PICK copy \in Files :
        /\ FreshName(copy)
        /\ \/ /\ stored' = stored \union {copy}
              /\ job' = [job EXCEPT ![p].step = "attach", ![p].names = {copy}]
           \/ Finishes(p) /\ UNCHANGED stored
  BY DEF CopyFile
<1>5. PICK w : w = [v EXCEPT !.step = "attach", !.names = {copy}]
  OBVIOUS
<1>6. w \in JobState /\ w.step = "attach" /\ w.kind = "none" /\ w.names = {copy} /\ w.cards = v.cards
  BY <1>1, <1>2, <1>5 DEF JobState, OwnSteps, PutSteps
<1>7. PICK u \in JobState :
        /\ GoesOn(p, u) /\ KindFits(u) /\ u.kind = "none"
        /\ \/ u = NoJob /\ stored' = stored
           \/ u.step = "attach" /\ u.names = {copy} /\ u.cards = v.cards /\ stored' = stored \union {copy}
  <2>1. CASE Finishes(p) /\ UNCHANGED stored
    BY <1>0, <2>1, FinishesRow, IdleRow
  <2>2. CASE stored' = stored \union {copy} /\ job' = [job EXCEPT ![p].step = "attach", ![p].names = {copy}]
    <3>1. job' = [job EXCEPT ![p] = w]
      BY <1>0, <1>1, <1>5, <2>2 DEF ArchiveTypes
    <3>2. GoesOn(p, w)
      BY <1>0, <1>6, <3>1, RowIsPut
    <3>3. KindFits(w)
      BY <1>2, <1>6 DEF KindFits, OwnSteps, SweepSteps, ColumnSteps, PutSteps
    <3> QED
      BY <1>6, <2>2, <3>2, <3>3
  <2> QED
    BY <1>4, <2>1, <2>2
<1>8. StoreTypes'
  BY <1>0, <1>2, <1>3, <1>7 DEF StoreTypes
<1>9. RowHasFile' /\ \A g : Named(g)' <=> Named(g)
  BY <1>2, <1>3, <1>7 DEF RowHasFile, Named, ArchiveInv
<1>10. AttachesAlone'
  <2>1. \A q \in Requests : JobAt(q, "attach") => \A g \in job[q].names : g \in stored' \union unasked'
    BY <1>2, <1>7 DEF ArchiveInv, AttachesAlone
  <2>2. ~Named(copy)
    BY <1>4 DEF FreshName, Named
  <2>3. (\A g \in u.names : FreshName(g)) /\ (u.step = "attach" => \A g \in u.names : g \in stored' /\ ~Named(g)')
    BY <1>4, <1>7, <1>9, <2>2, IdleRow
  <2> QED
    BY <1>7, <1>9, <2>1, <2>3, AloneKept
<1>11. BackIsThere' /\ BackIsSeen'
  BY <1>2, <1>3, BackKept DEF ArchiveInv, BackIsThere
<1>12. ~mixed => Unmixed /\ (\A x \in v.cards : Present(cardAt[x])) /\ \A q \in Requests \ {p} : ~Removing(q)
  BY <1>1, <1>2 DEF ArchiveInv, Unmixed, PlaceIsThere, NoneMixed, PutSteps
<1>13. ~mixed' => AllInPlace' /\ PlaceIsThere(u)'
  BY <1>2, <1>3, <1>7, <1>12, IdleRow DEF Unmixed, AllInPlace, PlaceIsThere
<1>14. (~mixed' /\ ~byTool') => RowsHaveCards' /\ FilesInHand'
  <2> SUFFICES ASSUME ~mixed', ~byTool' PROVE RowsHaveCards' /\ FilesInHand'
    OBVIOUS
  <2>1. Tidy
    BY <1>2 DEF ArchiveInv
  <2>2. FilesInHand'
    BY <1>1, <1>2, <1>7, <1>9, <2>1, FilesStayInHand DEF Tidy, HandSteps
  <2> QED
    BY <1>2, <1>3, <2>1, <2>2 DEF Tidy, RowsHaveCards
<1> QED
  BY <1>2, <1>3, <1>7, <1>8, <1>9, <1>10, <1>11, <1>12, <1>13, <1>14, PutsKeep

LEMMA PutKeeps ==
  ASSUME ArchiveInv, NEW p \in Requests, Put(p)
  PROVE  ArchiveInv'
<1>0. ArchiveTypes /\ StoreTypes
  BY DEF ArchiveInv, ArchiveTypes
<1>1. PICK v \in JobState : v = job[p] /\ KindFits(v)
  BY DEF ArchiveInv, ArchiveTypes
<1>2. /\ v.step = "put" /\ GoesOn(p, NoJob) /\ v.cards \subseteq ArchiveCards /\ v.columns \subseteq Columns
      /\ back' = back \ v.cards
      /\ UNCHANGED <<boardAt, columnAt, attached, stored, requestsLeft, mixed, byTool, unasked, late>>
  BY <1>0, <1>1, FinishesRow DEF Put, JobAt, JobState
<1>3. PICK c \in v.cards, a \in v.columns :
        IF cardAt[c] = "gone" THEN UNCHANGED <<cardAt, column, things>>
        ELSE /\ cardAt' = [cardAt EXCEPT ![c] = IF @ = "unborn" THEN "shown" ELSE @]
             /\ column' = [column EXCEPT ![c] = a]
             /\ things' = things \union {c}
  BY <1>1 DEF Put
<1>4. StoreTypes'
  BY <1>0, <1>2, <1>3 DEF StoreTypes
<1>5. \A x \in ArchiveCards : Present(cardAt[x]) => Present(cardAt'[x])
  BY <1>0, <1>3 DEF StoreTypes, Present
<1>6. \A x \in ArchiveCards \ {c} : cardAt'[x] = cardAt[x] /\ column'[x] = column[x]
  BY <1>0, <1>3 DEF StoreTypes
<1>7. \/ cardAt'[c] = cardAt[c] /\ column'[c] = column[c] /\ things' = things
      \/ Present(cardAt'[c]) /\ column'[c] = a /\ things' = things \union {c}
  BY <1>0, <1>2, <1>3 DEF StoreTypes, Present
<1>8. RowHasFile' /\ \A g : Named(g)' <=> Named(g)
  BY <1>2 DEF RowHasFile, Named, ArchiveInv
<1>9. AttachesAlone'
  <2>1. \A q \in Requests : JobAt(q, "attach") => \A g \in job[q].names : g \in stored' \union unasked'
    BY <1>2 DEF ArchiveInv, AttachesAlone
  <2> QED
    BY <1>2, <1>8, <2>1, IdleRow, AloneKept
<1>10. BackIsThere' /\ BackIsSeen'
  BY <1>0, <1>2, <1>3, <1>5, <1>6, BackKept DEF ArchiveInv, BackIsThere, StoreTypes
<1>11. ~mixed => Unmixed /\ columnAt[a] # "gone" /\ \A q \in Requests \ {p} : ~Removing(q)
  BY <1>1, <1>2 DEF ArchiveInv, Unmixed, PlaceIsThere, NoneMixed, PutSteps
<1>12. ~mixed' => AllInPlace' /\ PlaceIsThere(NoJob)'
  <2> SUFFICES ASSUME ~mixed' PROVE AllInPlace' /\ PlaceIsThere(NoJob)'
    OBVIOUS
  <2>1. ASSUME NEW x \in ArchiveCards, Present(cardAt'[x]) PROVE columnAt'[column'[x]] # "gone"
    BY <1>2, <1>6, <1>7, <1>11, <2>1 DEF Unmixed, AllInPlace
  <2> QED
    BY <1>2, <1>11, <2>1, IdleRow DEF Unmixed, AllInPlace, PlaceIsThere
<1>13. (~mixed' /\ ~byTool') => RowsHaveCards' /\ FilesInHand'
  <2> SUFFICES ASSUME ~mixed', ~byTool' PROVE RowsHaveCards' /\ FilesInHand'
    OBVIOUS
  <2>1. Tidy
    BY <1>2 DEF ArchiveInv
  <2>2. FilesInHand'
    BY <1>1, <1>2, <1>8, <2>1, IdleRow, FilesStayInHand DEF Tidy, HandSteps
  <2>3. RowsHaveCards'
    BY <1>0, <1>2, <1>5, <1>7, <2>1 DEF Tidy, RowsHaveCards, StoreTypes
  <2> QED
    BY <2>2, <2>3
<1> QED
  BY <1>2, <1>4, <1>5, <1>8, <1>9, <1>10, <1>11, <1>12, <1>13, IdleRow, PutsKeep

-----------------------------------------------------------------------------
(* Taking rows and files                                                      *)

LEMMA TakesKeep ==
  ASSUME ArchiveInv, NEW p \in Requests, NEW w \in JobState, GoesOn(p, w), KindFits(w),
         UNCHANGED <<boardAt, columnAt, cardAt, column, mixed, byTool, back, late>>,
         requestsLeft' \in Nat, attached' \subseteq attached, things' \subseteq things,
         stored' \subseteq stored, unasked' \in SUBSET Files,
         w.step \notin PutSteps, w.kind = job[p].kind,
         RowHasFile', AttachesAlone', ~mixed => KnowsItsCards(w),
         (~mixed /\ ~byTool) => FilesInHand' /\ TidiedSoFar(w)'
  PROVE  ArchiveInv'
<1>0. ArchiveTypes /\ StoreTypes
  BY DEF ArchiveInv, ArchiveTypes
<1>1. StoreTypes'
  BY <1>0 DEF StoreTypes
<1>2. ArchiveTypes' /\ \A q \in Requests : KindFits(job'[q])
  BY <1>1, TypesKept
<1>3. BackIsThere' /\ BackIsSeen'
  BY BackKept DEF ArchiveInv, BackIsThere
<1>4. ~mixed' => Unmixed'
  <2> SUFFICES ASSUME ~mixed' PROVE Unmixed'
    OBVIOUS
  <2>1. Unmixed
    BY DEF ArchiveInv
  <2>2. StaysApart(p, w)
    BY <2>1 DEF StaysApart, Unmixed, NoneMixed, Removing
  <2>3. AllInPlace' /\ PlaceIsThere(w)' /\ KnowsItsCards(w)'
    BY <2>1 DEF Unmixed, AllInPlace, PlaceIsThere, PutSteps, KnowsItsCards, In
  <2>4. \A q \in Requests \ {p} : PlaceIsThere(job[q])' /\ KnowsItsCards(job[q])'
    BY <1>0, <2>1, PlacesStay, KnowStill DEF Unmixed
  <2> QED
    BY <2>1, <2>2, <2>3, <2>4, UnmixedKept
<1>5. (~mixed' /\ ~byTool') => Tidy'
  <2> SUFFICES ASSUME ~mixed', ~byTool' PROVE Tidy'
    OBVIOUS
  <2>1. Tidy
    BY DEF ArchiveInv
  <2>2. RowsHaveCards'
    BY <2>1 DEF Tidy, RowsHaveCards
  <2>3. \A q \in Requests \ {p} : TidiedSoFar(job[q])'
    BY <2>1, TidiedStill DEF Tidy
  <2> QED
    BY <2>2, <2>3, TidyKept
<1> QED
  BY <1>2, <1>3, <1>4, <1>5 DEF ArchiveInv

LEMMA DeleteAttachmentKeeps ==
  ASSUME ArchiveInv, NEW p \in Requests, NEW c \in ArchiveCards, NEW f \in Files, DeleteAttachment(p, c, f)
  PROVE  ArchiveInv'
<1>0. ArchiveTypes /\ StoreTypes
  BY DEF ArchiveInv, ArchiveTypes
<1>1. PICK w : w = [NoJob EXCEPT !.step = "remove", !.names = {f}]
  OBVIOUS
<1>2. w \in JobState /\ w.step = "remove" /\ w.kind = "none" /\ w.names = {f}
  BY <1>1, IdleRow DEF JobState, OwnSteps, PutSteps, NoJob, RemoveKinds
<1>3. /\ GoesOn(p, w) /\ requestsLeft' \in Nat /\ job[p].step = "idle"
      /\ attached' = attached \ {<<c, f>>} /\ <<c, f>> \in attached
      /\ UNCHANGED <<boardAt, columnAt, cardAt, column, things, stored, mixed, byTool, back, unasked, late>>
  BY <1>0, <1>1, <1>2, StartsRow DEF DeleteAttachment
<1>4. KindFits(w) /\ w.step \notin PutSteps /\ w.kind = job[p].kind
  BY <1>2, <1>3 DEF KindFits, OwnSteps, SweepSteps, ColumnSteps, PutSteps, ArchiveInv
<1>5. RowHasFile' /\ Named(f) /\ (\A g : Named(g)' => Named(g)) /\ \A g : Named(g) => Named(g)' \/ g = f
  BY <1>3 DEF RowHasFile, Named, ArchiveInv
<1>6. AttachesAlone'
  <2>1. \A q \in Requests : JobAt(q, "attach") => \A g \in job[q].names : g \in stored' \union unasked'
    BY <1>3 DEF ArchiveInv, AttachesAlone
  <2> QED
    BY <1>2, <1>3, <1>5, <2>1, AloneKept
<1>7. KnowsItsCards(w) /\ TidiedSoFar(w)'
  BY <1>2 DEF KnowsItsCards, TidiedSoFar
<1>8. (~mixed /\ ~byTool) => FilesInHand'
  <2>1. (~mixed /\ ~byTool) => FilesInHand
    BY DEF ArchiveInv, Tidy
  <2> QED
    BY <1>2, <1>3, <1>5, <2>1, FilesStayInHand DEF HandSteps
<1> QED
  BY <1>0, <1>2, <1>3, <1>4, <1>5, <1>6, <1>7, <1>8, TakesKeep DEF StoreTypes

LEMMA RemoveFileKeeps ==
  ASSUME ArchiveInv, NEW p \in Requests, RemoveFile(p)
  PROVE  ArchiveInv'
<1>0. ArchiveTypes /\ StoreTypes
  BY DEF ArchiveInv, ArchiveTypes
<1>1. PICK v \in JobState : v = job[p] /\ KindFits(v)
  BY DEF ArchiveInv, ArchiveTypes
<1>2. /\ v.step = "remove" /\ v.kind = "none" /\ GoesOn(p, NoJob) /\ v.names \subseteq Files
      /\ stored' = stored \ v.names /\ unasked' = unasked \union v.names
      /\ UNCHANGED <<tables, requestsLeft, mixed, byTool, back, late>>
  BY <1>0, <1>1, FinishesRow DEF RemoveFile, JobAt, JobState, KindFits, OwnSteps
<1>3. UNCHANGED <<boardAt, columnAt, cardAt, column, things, attached>>
  BY <1>2 DEF tables
<1>4. RowHasFile' /\ \A g : Named(g)' <=> Named(g)
  BY <1>2, <1>3 DEF RowHasFile, Named, ArchiveInv
<1>5. AttachesAlone'
  <2>1. \A q \in Requests : JobAt(q, "attach") => \A g \in job[q].names : g \in stored' \union unasked'
    BY <1>2 DEF ArchiveInv, AttachesAlone
  <2> QED
    BY <1>2, <1>4, <2>1, IdleRow, AloneKept
<1>6. KnowsItsCards(NoJob) /\ TidiedSoFar(NoJob)' /\ NoJob.step \notin PutSteps
  BY IdleRow DEF KnowsItsCards, TidiedSoFar, PutSteps
<1>7. (~mixed /\ ~byTool) => FilesInHand'
  <2>1. (~mixed /\ ~byTool) => FilesInHand
    BY DEF ArchiveInv, Tidy
  <2> QED
    BY <1>1, <1>2, <1>4, <2>1, IdleRow, FilesStayInHand
<1> QED
  BY <1>0, <1>1, <1>2, <1>3, <1>4, <1>5, <1>6, <1>7, IdleRow, TakesKeep DEF StoreTypes

LEMMA TableByTableKeeps ==
  ASSUME ArchiveInv, NEW p \in Requests,
         ToolDeletesRows(p) \/ DeleteAttachments(p) \/ DeleteRest(p) \/ UnlinkOrphaned(p)
  PROVE  ArchiveInv'
<1>0. ArchiveTypes /\ StoreTypes
  BY DEF ArchiveInv, ArchiveTypes
<1>1. PICK v \in JobState : v = job[p] /\ KindFits(v)
  BY DEF ArchiveInv, ArchiveTypes
<1>2. ~mixed => KnowsItsCards(v)
  BY <1>1 DEF ArchiveInv, Unmixed
<1>3. (~mixed /\ ~byTool) => FilesInHand /\ TidiedSoFar(v)
  BY <1>1 DEF ArchiveInv, Tidy
<1>4. /\ v.step \in {"toolData", "data", "rest", "unlink"}
      /\ v.kind \in {"cards", "columns", "board"} /\ (v.step = "toolData" => v.kind \in {"columns", "board"})
  BY <1>1 DEF ToolDeletesRows, DeleteAttachments, DeleteRest, UnlinkOrphaned, JobAt, KindFits, OwnSteps,
     PutSteps, ColumnSteps, SweepSteps, JobState, RemoveKinds
<1>5. ASSUME NEW w \in JobState, Same(v, w), w.step \in {"rest", "unlink", "cards"} PROVE KindFits(w)
  BY <1>1, <1>4, <1>5 DEF Same, KindFits, OwnSteps, PutSteps, SweepSteps, ColumnSteps
<1>6. ASSUME NEW w \in JobState, Same(v, w), w.step \in {"rest", "unlink", "cards"}, v.step # "toolData"
      PROVE  ~mixed => KnowsItsCards(w)
  BY <1>2, <1>4, <1>6 DEF KnowsItsCards, Same, RemoveSteps
<1>7. ASSUME NEW w \in JobState, GoesOn(p, w), Same(v, w), w.step \in {"rest", "unlink", "cards"},
             UNCHANGED <<boardAt, columnAt, cardAt, column, requestsLeft, mixed, byTool, back, unasked, late>>,
             attached' \subseteq attached, things' \subseteq things, stored' \subseteq stored,
             RowHasFile', \A q \in Requests \ {p} : JobAt(q, "attach") => \A g \in job[q].names : g \in stored' \union unasked',
             ~mixed => KnowsItsCards(w), (~mixed /\ ~byTool) => FilesInHand' /\ TidiedSoFar(w)'
      PROVE  ArchiveInv'
  <2>1. \A g : Named(g)' => Named(g)
    BY <1>7 DEF Named
  <2>2. AttachesAlone'
    BY <1>1, <1>7, <2>1, AloneKept DEF Same
  <2> QED
    BY <1>0, <1>1, <1>5, <1>7, <2>2, TakesKeep DEF StoreTypes, Same, PutSteps
<1>8. \A q \in Requests : JobAt(q, "attach") => \A g \in job[q].names : g \in stored \union unasked
  BY DEF ArchiveInv, AttachesAlone
<1>9. CASE ToolDeletesRows(p)
  <2>1. PICK w \in JobState : GoesOn(p, w) /\ w.step = "cards" /\ Same(v, w)
    BY <1>0, <1>1, <1>9, MovesRow DEF ToolDeletesRows, AllSteps, RemoveSteps
  <2>2. v.step = "toolData"
    BY <1>1, <1>9 DEF ToolDeletesRows, JobAt
  <2>3. ~(~mixed /\ ~byTool)
    BY <1>3, <2>2 DEF TidiedSoFar
  <2>4. ~mixed => KnowsItsCards(w)
    BY <2>1, <2>3 DEF KnowsItsCards
  <2>5. RowHasFile'
    BY <1>9 DEF ToolDeletesRows, RowHasFile, ArchiveInv
  <2> QED
    BY <1>7, <1>8, <1>9, <2>1, <2>3, <2>4, <2>5 DEF ToolDeletesRows
<1>10. CASE DeleteAttachments(p)
  <2>1. PICK w \in JobState : GoesOn(p, w) /\ w.step = "rest" /\ Same(v, w)
    BY <1>0, <1>1, <1>10, MovesRow DEF DeleteAttachments, AllSteps, RemoveSteps
  <2>2. v.step = "data" /\ attached' = {r \in attached : r[1] \notin v.cards}
    BY <1>1, <1>10 DEF DeleteAttachments, JobAt
  <2>3. RowHasFile'
    BY <1>10, <2>2 DEF DeleteAttachments, RowHasFile, ArchiveInv
  <2>4. TidiedSoFar(w)'
    BY <2>1, <2>2 DEF TidiedSoFar, Same
  <2>5. (~mixed /\ ~byTool) => FilesInHand'
    <3> SUFFICES ASSUME ~mixed, ~byTool PROVE FilesInHand'
      OBVIOUS
    <3>1. FilesInHand /\ \A r \in attached : r[1] \in v.cards => r[2] \in v.names
      BY <1>3, <2>2 DEF TidiedSoFar
    <3>2. \A g : Named(g) => Named(g)' \/ g \in w.names
      BY <2>1, <2>2, <3>1 DEF Named, Same
    <3>3. stored' = stored
      BY <1>10 DEF DeleteAttachments
    <3> QED
      BY <1>1, <2>1, <2>2, <3>1, <3>2, <3>3, FilesStayInHand DEF HandSteps
  <2> QED
    BY <1>6, <1>7, <1>8, <1>10, <2>1, <2>2, <2>3, <2>4, <2>5 DEF DeleteAttachments
<1>11. CASE DeleteRest(p)
  <2>1. PICK w \in JobState : /\ GoesOn(p, w) /\ w.step = (IF v.names = {} THEN "cards" ELSE "unlink")
                              /\ Same(v, w)
    BY <1>0, <1>1, <1>11, MovesRow DEF DeleteRest, AllSteps, RemoveSteps
  <2>2. v.step = "rest" /\ things' = things \ v.cards /\ attached' = attached /\ stored' = stored
    BY <1>1, <1>11 DEF DeleteRest, JobAt
  <2>3. RowHasFile' /\ \A g : Named(g)' <=> Named(g)
    BY <1>11 DEF DeleteRest, RowHasFile, ArchiveInv, Named
  <2>4. (~mixed /\ ~byTool) => TidiedSoFar(w)'
    BY <1>3, <2>1, <2>2 DEF TidiedSoFar, Same
  <2>5. (~mixed /\ ~byTool) => FilesInHand'
    BY <1>1, <1>3, <2>1, <2>2, <2>3, FilesStayInHand DEF HandSteps, Same
  <2> QED
    BY <1>6, <1>7, <1>8, <1>11, <2>1, <2>2, <2>3, <2>4, <2>5 DEF DeleteRest
<1>12. CASE UnlinkOrphaned(p)
  <2>1. PICK w \in JobState : GoesOn(p, w) /\ w.step = "cards" /\ Same(v, w)
    BY <1>0, <1>1, <1>12, MovesRow DEF UnlinkOrphaned, AllSteps, RemoveSteps
  <2>2. /\ v.step = "unlink" /\ stored' = {f \in stored : f \notin v.names \/ Named(f)}
        /\ UNCHANGED <<boardAt, columnAt, cardAt, column, things, attached, requestsLeft, mixed, byTool, back, unasked, late>>
    BY <1>1, <1>12 DEF UnlinkOrphaned, JobAt, Named, tables
  <2>3. RowHasFile' /\ \A g : Named(g)' <=> Named(g)
    BY <2>2 DEF RowHasFile, ArchiveInv, Named
  <2>4. (~mixed /\ ~byTool) => TidiedSoFar(w)'
    BY <1>3, <2>1, <2>2 DEF TidiedSoFar, Same
  <2>5. (~mixed /\ ~byTool) => FilesInHand'
    BY <1>1, <1>3, <2>1, <2>2, <2>3, FilesStayInHand
  <2>6. \A q \in Requests \ {p} : JobAt(q, "attach") => \A g \in job[q].names : g \in stored' \union unasked'
    BY <1>1, <1>8, <2>2 DEF ArchiveInv, AttachesAlone
  <2> QED
    BY <1>6, <1>7, <2>1, <2>2, <2>3, <2>4, <2>5, <2>6
<1> QED
  BY <1>9, <1>10, <1>11, <1>12

-----------------------------------------------------------------------------
(* Taking cards and columns                                                   *)

LEMMA CardsGo ==
  ASSUME ArchiveInv, NEW p \in Requests, DeleteCards(p)
  PROVE  ArchiveInv'
<1>0. ArchiveTypes /\ StoreTypes
  BY DEF ArchiveInv, ArchiveTypes
<1>1. PICK v \in JobState : v = job[p] /\ KindFits(v)
  BY DEF ArchiveInv, ArchiveTypes
<1>2. /\ v.step = "cards" /\ v.kind \in {"cards", "columns", "board"}
      /\ UNCHANGED <<boardAt, columnAt, column, things, attached, stored, requestsLeft, mixed, byTool, unasked, late>>
      /\ back' = {c \in back : cardAt'[c] # "gone"}
      /\ cardAt' = [c \in ArchiveCards |-> IF Goes(c, p) /\ cardAt[c] # "unborn" THEN "gone" ELSE cardAt[c]]
  BY <1>1 DEF DeleteCards, JobAt, KindFits, OwnSteps, PutSteps, SweepSteps, ColumnSteps, JobState, RemoveKinds
<1>3. PICK w \in JobState : /\ GoesOn(p, w) /\ KindFits(w) /\ w.names \subseteq v.names
                            /\ \/ w.kind = "none" /\ w.step = "idle" /\ v.kind = "cards"
                               \/ w.step = "columns" /\ Same(v, w) /\ v.kind # "cards"
  <2>1. CASE v.kind = "cards"
    BY <1>0, <1>1, <2>1, FinishesRow, IdleRow DEF DeleteCards
  <2>2. CASE v.kind # "cards"
    <3>1. PICK w \in JobState : GoesOn(p, w) /\ w.step = "columns" /\ Same(v, w)
      BY <1>0, <1>1, <2>2, MovesRow DEF DeleteCards, AllSteps, ColumnSteps
    <3>2. KindFits(w)
      BY <1>1, <1>2, <2>2, <3>1 DEF Same, KindFits, OwnSteps, PutSteps, SweepSteps, ColumnSteps
    <3> QED
      BY <2>2, <3>1, <3>2 DEF Same
  <2> QED
    BY <2>1, <2>2
<1>4. StoreTypes'
  BY <1>0, <1>2 DEF StoreTypes
<1>5. ArchiveTypes' /\ \A q \in Requests : KindFits(job'[q])
  BY <1>3, <1>4, TypesKept
<1>6. RowHasFile' /\ \A g : Named(g)' <=> Named(g)
  BY <1>2 DEF RowHasFile, Named, ArchiveInv
<1>7. AttachesAlone'
  <2>1. \A q \in Requests : JobAt(q, "attach") => \A g \in job[q].names : g \in stored' \union unasked'
    BY <1>2 DEF ArchiveInv, AttachesAlone
  <2> QED
    BY <1>1, <1>3, <1>6, <2>1, AloneKept
<1>8. \A c \in ArchiveCards : Present(cardAt'[c]) => Present(cardAt[c]) /\ ~Goes(c, p)
  BY <1>2 DEF Present
<1>9. \A c \in ArchiveCards : Present(cardAt[c]) => Present(cardAt'[c]) \/ Goes(c, p)
  BY <1>2
<1>10. BackIsThere' /\ BackIsSeen'
  <2>1. \A c \in back' : Present(cardAt'[c])
    BY <1>0, <1>2 DEF ArchiveInv, BackIsThere, StoreTypes
  <2> QED
    BY <1>2, <2>1, BackKept
<1>11. ~mixed' => Unmixed'
  <2> SUFFICES ASSUME ~mixed' PROVE Unmixed'
    OBVIOUS
  <2>1. Unmixed
    BY <1>2 DEF ArchiveInv
  <2>2. \A q \in Requests \ {p} : job[q].step \notin PutSteps
    BY <1>1, <1>2, <2>1 DEF Unmixed, NoneMixed, Removing
  <2>3. StaysApart(p, w)
    BY <1>3, <2>2 DEF StaysApart, PutSteps
  <2>4. AllInPlace' /\ PlaceIsThere(w)'
    BY <1>2, <1>3, <1>8, <2>1 DEF Unmixed, AllInPlace, PlaceIsThere
  <2>5. KnowsItsCards(w)'
    <3>1. CASE w.step = "idle"
      BY <1>3, <3>1 DEF KnowsItsCards, RemoveSteps
    <3>2. CASE w.step = "columns" /\ Same(v, w) /\ v.kind # "cards"
      BY <1>1, <1>2, <1>8, <3>2 DEF KnowsItsCards, RemoveSteps, Same, Goes, In
    <3> QED
      BY <1>3, <3>1, <3>2
  <2>6. \A q \in Requests \ {p} : PlaceIsThere(job[q])' /\ KnowsItsCards(job[q])'
    BY <1>2, <1>3, <1>8, <2>1, <2>2, NothingToPlace, KnowStill DEF Unmixed
  <2> QED
    BY <1>3, <2>1, <2>3, <2>4, <2>5, <2>6, UnmixedKept
<1>12. (~mixed' /\ ~byTool') => Tidy'
  <2> SUFFICES ASSUME ~mixed', ~byTool' PROVE Tidy'
    OBVIOUS
  <2>1. Tidy /\ TidiedSoFar(v) /\ KnowsItsCards(v)
    BY <1>1, <1>2 DEF ArchiveInv, Tidy, Unmixed
  <2>2. ASSUME NEW c \in ArchiveCards, Present(cardAt[c]), Goes(c, p) PROVE c \in v.cards
    BY <1>1, <1>2, <2>1, <2>2 DEF Goes, KnowsItsCards, RemoveSteps
  <2>3. (\A c \in things : c \notin v.cards \/ c \in late) /\ \A r \in attached : r[1] \notin v.cards
    BY <1>2, <2>1 DEF TidiedSoFar
  <2>4. RowsHaveCards'
    BY <1>0, <1>2, <1>9, <2>1, <2>2, <2>3 DEF Tidy, RowsHaveCards, StoreTypes
  <2>5. FilesInHand'
    BY <1>1, <1>2, <1>3, <1>6, <2>1, FilesStayInHand DEF Tidy, HandSteps
  <2>6. TidiedSoFar(w)' /\ \A q \in Requests \ {p} : TidiedSoFar(job[q])'
    BY <1>2, <1>3, <2>1, TidiedStill DEF Tidy, TidiedSoFar
  <2> QED
    BY <1>3, <2>4, <2>5, <2>6, TidyKept
<1> QED
  BY <1>5, <1>6, <1>7, <1>10, <1>11, <1>12 DEF ArchiveInv

LEMMA ColumnsGo ==
  ASSUME ArchiveInv, NEW p \in Requests, DeleteColumns(p)
  PROVE  ArchiveInv'
<1>0. ArchiveTypes /\ StoreTypes
  BY DEF ArchiveInv, ArchiveTypes
<1>1. PICK v \in JobState : v = job[p] /\ KindFits(v)
  BY DEF ArchiveInv, ArchiveTypes
<1>2. /\ v.step = "columns" /\ v.kind \in {"columns", "board"} /\ v.columns \subseteq Columns
      /\ UNCHANGED <<cardAt, column, things, attached, stored, requestsLeft, mixed, byTool, unasked, late>>
      /\ back' = {c \in back : columnAt'[column[c]] # "gone"}
      /\ columnAt' = [a \in Columns |-> IF a \in v.columns THEN "gone" ELSE columnAt[a]]
      /\ boardAt' = IF v.kind = "board" THEN "gone" ELSE boardAt
  BY <1>1 DEF DeleteColumns, JobAt, KindFits, ColumnSteps, JobState
<1>3. PICK w : w = IF v.then = "idle" THEN NoJob
                   ELSE [NoJob EXCEPT !.step = v.then, !.kind = "sweep", !.queue = v.queue]
  OBVIOUS
<1>4. /\ w \in JobState /\ w.names = {} /\ w.step \in {"idle", "oldColumns", "nextColumn"}
      /\ IF w.step = "idle" THEN w.kind = "none" ELSE w.kind = "sweep"
  BY <1>1, <1>3, IdleRow DEF NoJob, JobState, SweepSteps, OwnSteps, RemoveKinds
<1>5. GoesOn(p, w)
  <2>1. job' = [job EXCEPT ![p] = w]
    BY <1>0, <1>1, <1>3 DEF DeleteColumns, ArchiveTypes
  <2> QED
    BY <1>0, <1>4, <2>1, RowIsPut
<1>6. KindFits(w)
  BY <1>4 DEF KindFits, OwnSteps, PutSteps, SweepSteps, ColumnSteps
<1>7. StoreTypes'
  BY <1>0, <1>2 DEF StoreTypes
<1>8. ArchiveTypes' /\ \A q \in Requests : KindFits(job'[q])
  BY <1>4, <1>5, <1>6, <1>7, TypesKept
<1>9. RowHasFile' /\ \A g : Named(g)' <=> Named(g)
  BY <1>2 DEF RowHasFile, Named, ArchiveInv
<1>10. AttachesAlone'
  <2>1. \A q \in Requests : JobAt(q, "attach") => \A g \in job[q].names : g \in stored' \union unasked'
    BY <1>2 DEF ArchiveInv, AttachesAlone
  <2> QED
    BY <1>4, <1>5, <1>9, <2>1, AloneKept
<1>11. BackIsThere' /\ BackIsSeen'
  BY <1>0, <1>2, BackKept DEF ArchiveInv, BackIsThere, StoreTypes
<1>12. ~mixed' => Unmixed'
  <2> SUFFICES ASSUME ~mixed' PROVE Unmixed'
    OBVIOUS
  <2>1. Unmixed /\ \A c \in ArchiveCards : ~In(c, v.columns)
    BY <1>1, <1>2 DEF ArchiveInv, Unmixed, KnowsItsCards
  <2>2. \A q \in Requests \ {p} : job[q].step \notin PutSteps
    BY <1>1, <1>2, <2>1 DEF Unmixed, NoneMixed, Removing
  <2>3. StaysApart(p, w)
    BY <1>4, <2>2 DEF StaysApart, PutSteps
  <2>4. \A c \in ArchiveCards : Present(cardAt'[c]) => columnAt'[column'[c]] # "gone"
    BY <1>0, <1>2, <2>1 DEF Unmixed, AllInPlace, In, StoreTypes
  <2>5. \A a \in Columns : columnAt'[a] # "gone" => boardAt' # "gone"
    BY <1>1, <1>2, <2>1 DEF Unmixed, AllInPlace, KindFits
  <2>6. PlaceIsThere(w)' /\ KnowsItsCards(w)'
    BY <1>4 DEF PlaceIsThere, KnowsItsCards
  <2>7. \A q \in Requests \ {p} : PlaceIsThere(job[q])' /\ KnowsItsCards(job[q])'
    BY <1>2, <1>4, <1>5, <2>1, <2>2, NothingToPlace, KnowStill DEF Unmixed
  <2> QED
    BY <1>4, <1>5, <1>6, <2>1, <2>3, <2>4, <2>5, <2>6, <2>7, UnmixedKept DEF AllInPlace
<1>13. (~mixed' /\ ~byTool') => Tidy'
  <2> SUFFICES ASSUME ~mixed', ~byTool' PROVE Tidy'
    OBVIOUS
  <2>1. Tidy
    BY <1>2 DEF ArchiveInv
  <2>2. RowsHaveCards' /\ TidiedSoFar(w)'
    BY <1>2, <1>4, <2>1 DEF Tidy, RowsHaveCards, TidiedSoFar
  <2>3. FilesInHand'
    BY <1>1, <1>2, <1>4, <1>5, <1>9, <2>1, FilesStayInHand DEF Tidy, HandSteps
  <2>4. \A q \in Requests \ {p} : TidiedSoFar(job[q])'
    BY <1>2, <1>4, <1>5, <2>1, TidiedStill DEF Tidy
  <2> QED
    BY <1>4, <1>5, <2>2, <2>3, <2>4, TidyKept
<1> QED
  BY <1>8, <1>9, <1>10, <1>11, <1>12, <1>13 DEF ArchiveInv

-----------------------------------------------------------------------------
(* The specification *)

LEMMA FirstThings ==
  /\ Card1 \in ArchiveCards /\ Card2 \in ArchiveCards /\ Column1 \in Columns /\ Column2 \in Columns
  /\ File1 \in Files /\ MaxRequestsMade \in Nat
BY ArchiveAssumption DEF Card1, Card2, Column1, Column2, File1

LEMMA ArchiveInitInv ==
  ASSUME NEW old \in SUBSET ({"board"} \union Columns \union ArchiveCards), NEW pair \in BOOLEAN,
         ArchiveInit(old, pair)
  PROVE  ArchiveInv
<1> DEFINE Then(x) == IF x \in old THEN "expired" ELSE "shown"
<1>0. \A x : Then(x) \in {"expired", "shown"}
  OBVIOUS
<1>1. /\ boardAt = Then("board") /\ columnAt = [a \in Columns |-> Then(a)]
      /\ cardAt = [c \in ArchiveCards |-> IF c \in {Card1, Card2} THEN Then(c) ELSE "unborn"]
      /\ column = [c \in ArchiveCards |-> IF c = Card2 THEN Column2 ELSE Column1]
      /\ things = {Card1, Card2}
      /\ attached = (IF pair THEN {Card1, Card2} ELSE {Card1}) \X {File1}
      /\ stored = {File1}
      /\ job = [p \in Requests |-> NoJob] /\ requestsLeft = MaxRequestsMade
      /\ mixed = FALSE /\ byTool = FALSE /\ back = {} /\ unasked = {} /\ late = {}
  BY DEF ArchiveInit
<1> HIDE DEF Then
<1>2. attached \subseteq {Card1, Card2} \X {File1} /\ <<Card1, File1>> \in attached
  BY <1>1
<1>3. ArchiveTypes
  BY <1>0, <1>1, <1>2, FirstThings, IdleRow DEF ArchiveTypes, StoreTypes
<1>4. ASSUME NEW p \in Requests
      PROVE  KindFits(job[p]) /\ job[p].step = "idle" /\ PlaceIsThere(job[p]) /\ KnowsItsCards(job[p])
             /\ TidiedSoFar(job[p])
  BY <1>1, IdleRow DEF PlaceIsThere, KnowsItsCards, TidiedSoFar, RemoveSteps
<1>5. RowHasFile /\ AttachesAlone /\ NoneMixed
  BY <1>1, <1>2, <1>4 DEF RowHasFile, AttachesAlone, JobAt, NoneMixed, PutSteps
<1>6. BackIsThere /\ BackIsSeen
  BY <1>1 DEF BackIsThere, BackIsSeen
<1>7. (\A a \in Columns : columnAt[a] # "gone") /\ boardAt # "gone"
  BY <1>0, <1>1
<1>8. AllInPlace
  BY <1>3, <1>7 DEF AllInPlace, ArchiveTypes, StoreTypes
<1>9. Present(cardAt[Card1]) /\ Present(cardAt[Card2])
  BY <1>0, <1>1, FirstThings DEF Present
<1>10. RowsHaveCards
  BY <1>1, <1>2, <1>9 DEF RowsHaveCards
<1>11. FilesInHand
  BY <1>1, <1>2 DEF FilesInHand, Named
<1> QED
  BY <1>3, <1>4, <1>5, <1>6, <1>8, <1>10, <1>11 DEF ArchiveInv, Unmixed, Tidy

LEMMA ArchiveStepInv == ArchiveInv /\ [ArchiveNext]_archiveVars => ArchiveInv'
<1> SUFFICES ASSUME ArchiveInv, [ArchiveNext]_archiveVars PROVE ArchiveInv'
  OBVIOUS
<1>1. CASE UNCHANGED archiveVars
  <2>1. /\ StoreTypes' /\ NothingMoves /\ UNCHANGED <<columnAt, column, cardAt, back>>
    BY <1>1 DEF archiveVars, NothingMoves, ArchiveInv, ArchiveTypes, StoreTypes
  <2> QED
    BY <2>1, ShiftKeeps
<1>2. CASE ArchiveNext
  <2>1. ASSUME NEW p \in Requests, Removal(p) PROVE ArchiveInv'
    BY <2>1, ReadingsKeep, TableByTableKeeps, CardsGo, ColumnsGo DEF Removal
  <2> QED
    BY <1>2, <2>1, PuttingAwayKeeps, ArchiveReadsKeeps, RestoreReadsKeeps, RestoringKeeps, RecordKeeps, AimKeeps, UploadKeeps,
       DeleteAttachmentKeeps, DuplicateKeeps, PutKeeps, AttachKeeps, CopyFileKeeps, RemoveFileKeeps,
       BeginningsKeep, TableByTableKeeps DEF ArchiveNext
<1> QED
  BY <1>1, <1>2

LEMMA ArchiveAlways == ArchiveSpec => []ArchiveInv
<1>1. (\E old \in SUBSET ({"board"} \union Columns \union ArchiveCards), pair \in BOOLEAN : ArchiveInit(old, pair))
        => ArchiveInv
  BY ArchiveInitInv
<1> QED
  BY <1>1, ArchiveStepInv, PTL DEF ArchiveSpec

(* cardCleanup.ts: "Everything that hangs off a card, removed with it."  When *)
(* nothing is under way and nothing was put anywhere while something else was *)
(* destroyed, no row is without its card, no card without its column, no      *)
(* column without its board and no file without a row, but for a line of      *)
(* history that an archiving or a restore wrote after a removal was past it;  *)
(* and at any moment the file a row names is there, unless a single deletion  *)
(* took it: however many removals, sweeps, archivings, restores, copies and   *)
(* uploads overlap.                                                           *)
THEOREM NothingIsLeftBehind == ArchiveSpec => []RowsAndFilesAgree
<1>1. ArchiveInv => RowsAndFilesAgree
  <2> SUFFICES ASSUME ArchiveInv, ~mixed, ~byTool, \A p \in Requests : AtRest(p) PROVE NoDebris
    BY DEF ArchiveInv, RowsAndFilesAgree, NothingLeftBehind, Rest
  <2>1. AllInPlace /\ RowsHaveCards /\ FilesInHand
    BY DEF ArchiveInv, Unmixed, Tidy
  <2>2. \A p \in Requests : job[p].step \notin HandSteps
    BY DEF AtRest, JobAt, HandSteps
  <2> QED
    BY <2>1, <2>2 DEF NoDebris, AllInPlace, RowsHaveCards, FilesInHand, Named
<1> QED
  BY <1>1, ArchiveAlways, PTL

(* archive.ts: "A card cannot come back to a column that is not there."  A    *)
(* card somebody put back stands in a column that is shown until it is put    *)
(* away again, whatever is destroyed or moved at the same time; only a card   *)
(* carried into a column that was being destroyed may stand in none.          *)
THEOREM CardsComeBackToColumns == ArchiveSpec => []BackIsSeen
<1>1. ArchiveInv => BackIsSeen
  BY DEF ArchiveInv
<1> QED
  BY <1>1, ArchiveAlways, PTL

-----------------------------------------------------------------------------
(* The export: what people do to the board never leaves a card without its    *)
(* column or its file, and each table that was read still holds what it must. *)
ExportState ==
  [kind : {"none", "export", "dump"}, step : {"idle", "columns", "cards", "files", "look", "send", "sent"},
   columns : SUBSET Nat, cards : SUBSET (SourceCards \X Nat), files : SUBSET SourceCards, sent : SUBSET SourceCards]

BoardStands ==
  /\ onDisk \subseteq SourceCards /\ sourceColumns \subseteq Nat
  /\ columnOf \in [onDisk -> sourceColumns]
  /\ allAlong \subseteq onDisk

Begun == out.step # "idle" => out.kind # "none"

(* Which tables have been read, in the order of each kind.                    *)
ColumnsRead == out.step \notin {"idle", "columns"}
CardsRead == out.step \in IF out.kind = "dump" THEN {"sent"} ELSE {"files", "look", "send", "sent"}
FilesRead == out.step \in IF out.kind = "dump" THEN {"cards", "sent"} ELSE {"look", "send"}

Watched == allAlong \ strayed
UnderColumns(c) == {p \in out.cards : p[1] = c /\ p[2] \in out.columns}

ColumnsHold == ColumnsRead => \A c \in Watched : columnOf[c] \in out.columns
CardsHold == CardsRead => \A c \in Watched : \E p \in SourceCards \X Nat : UnderColumns(c) = {p}
FilesHold ==
  /\ FilesRead => allAlong \subseteq out.files
  /\ out.kind = "export" /\ out.step = "sent" => allAlong \subseteq out.sent
StepsOfKind ==
  /\ Begun
  /\ out.kind = "dump" => out.step \notin {"look", "send"}

ExportInv == out \in ExportState /\ BoardStands /\ StepsOfKind /\ ColumnsHold /\ CardsHold /\ FilesHold

LEMMA ExportBegins == ASSUME NEW files, TransferInit(files) PROVE ExportInv
<1>1. out \in ExportState /\ out.step = "idle"
  BY DEF TransferInit, NothingOut, ExportState
<1>2. BoardStands
  BY DEF TransferInit, BoardStands
<1> QED
  BY <1>1, <1>2 DEF ExportInv, StepsOfKind, Begun, ColumnsHold, CardsHold, FilesHold, ColumnsRead, CardsRead, FilesRead

(* What people do meanwhile: of the cards watched none comes, and a watched   *)
(* card stays under a column that was read.                                   *)
LEMMA EditsKeep ==
  ASSUME ExportInv, BoardStands', UNCHANGED out, allAlong' \subseteq allAlong, strayed \subseteq strayed',
         ColumnsRead => \A c \in allAlong' \ strayed' : columnOf'[c] \in out.columns
  PROVE  ExportInv'
<1>1. Watched' \subseteq Watched
  BY DEF Watched
<1>2. ColumnsHold'
  BY DEF ColumnsHold, ColumnsRead, Watched
<1>3. CardsHold'
  BY <1>1 DEF ExportInv, CardsHold, CardsRead, UnderColumns
<1>4. FilesHold' /\ StepsOfKind' /\ (out \in ExportState)'
  BY DEF ExportInv, FilesHold, FilesRead, StepsOfKind, Begun
<1> QED
  BY <1>2, <1>3, <1>4 DEF ExportInv

LEMMA MakeColumnKeeps == ExportInv /\ MakeSourceColumn => ExportInv'
<1> SUFFICES ASSUME ExportInv, MakeSourceColumn PROVE ExportInv'
  OBVIOUS
<1>1. PICK id \in 1..MaxSourceColumns : sourceColumns' = sourceColumns \union {id}
  BY DEF MakeSourceColumn
<1>2. MaxSourceColumns \in Nat
  BY TransferAssumption
<1>3. BoardStands'
  BY <1>1, <1>2 DEF ExportInv, BoardStands, MakeSourceColumn
<1>4. ColumnsRead => \A c \in allAlong' \ strayed' : columnOf'[c] \in out.columns
  BY DEF MakeSourceColumn, ExportInv, ColumnsHold, Watched
<1> QED
  BY <1>3, <1>4, EditsKeep DEF MakeSourceColumn, SourceEdit

LEMMA MoveCardKeeps ==
  ASSUME ExportInv, NEW c \in SourceCards, NEW to, MoveSourceCard(c, to)
  PROVE  ExportInv'
<1>1. BoardStands'
  BY DEF ExportInv, BoardStands, MoveSourceCard
<1>2. ASSUME ColumnsRead, NEW d \in allAlong' \ strayed' PROVE columnOf'[d] \in out.columns
  <2>1. d \in allAlong /\ d \notin strayed /\ d \in DOMAIN columnOf
    BY <1>2 DEF MoveSourceCard, ExportInv, BoardStands
  <2>2. columnOf[d] \in out.columns
    BY <1>2, <2>1 DEF ExportInv, ColumnsHold, Watched
  <2>3. d = c => to \in out.columns
    BY <1>2 DEF MoveSourceCard, ColumnsRead
  <2> QED
    BY <2>1, <2>2, <2>3 DEF MoveSourceCard
<1> QED
  BY <1>1, <1>2, EditsKeep DEF MoveSourceCard, SourceEdit

LEMMA DestroyColumnKeeps ==
  ASSUME ExportInv, NEW to, DestroySourceColumn(to)
  PROVE  ExportInv'
<1> DEFINE gone == {c \in SourceCardsNow : columnOf[c] = to}
<1>1. /\ columnOf' = [c \in SourceCardsNow \ gone |-> columnOf[c]]
      /\ sourceColumns' = sourceColumns \ {to} /\ onDisk' = onDisk \ gone
      /\ allAlong' = allAlong \ gone /\ strayed' = strayed /\ out' = out
  BY DEF DestroySourceColumn, SourceEdit
<1>2. SourceCardsNow = onDisk
  BY DEF ExportInv, BoardStands, SourceCardsNow
<1>3. BoardStands'
  BY <1>1, <1>2 DEF ExportInv, BoardStands
<1>4. ASSUME ColumnsRead, NEW d \in allAlong' \ strayed' PROVE columnOf'[d] \in out.columns
  <2>1. d \in Watched /\ d \in SourceCardsNow \ gone
    BY <1>1, <1>2, <1>4 DEF ExportInv, BoardStands, Watched
  <2>2. columnOf'[d] = columnOf[d]
    BY <1>1, <2>1
  <2> QED
    BY <1>4, <2>1, <2>2 DEF ExportInv, ColumnsHold
<1> QED
  BY <1>1, <1>3, <1>4, EditsKeep

LEMMA StartKeeps ==
  ASSUME ExportInv, NEW kind \in {"export", "dump"}, StartExport(kind)
  PROVE  ExportInv'
<1>1. out' \in ExportState /\ out'.step = "columns" /\ out'.kind = kind
  BY DEF StartExport, NothingOut, ExportState
<1>2. BoardStands'
  BY DEF StartExport, ExportInv, BoardStands, SourceCardsNow
<1> QED
  BY <1>1, <1>2 DEF ExportInv, StepsOfKind, Begun, ColumnsHold, CardsHold, FilesHold, ColumnsRead, CardsRead, FilesRead

(* One table is read: nothing on the board changes.                           *)
StaysAsIs == UNCHANGED <<sourceColumns, columnOf, onDisk, allAlong, strayed>>

LEMMA ReadColumnsKeeps == ExportInv /\ ReadSourceColumns => ExportInv'
<1> SUFFICES ASSUME ExportInv, ReadSourceColumns PROVE ExportInv'
  OBVIOUS
<1>1. /\ out.step = "columns" /\ StaysAsIs
      /\ out' = [[out EXCEPT !.columns = sourceColumns]
                   EXCEPT !.step = IF out.kind = "dump" THEN "files" ELSE "cards"]
  BY DEF ReadSourceColumns, Reads, StaysAsIs
<1>2. /\ out' \in ExportState /\ out'.columns = sourceColumns /\ out'.kind = out.kind
      /\ out'.step = IF out.kind = "dump" THEN "files" ELSE "cards"
  BY <1>1 DEF ExportInv, ExportState, BoardStands
<1>3. BoardStands' /\ ColumnsHold'
  BY <1>1, <1>2 DEF ExportInv, BoardStands, ColumnsHold, Watched, StaysAsIs
<1>4. StepsOfKind' /\ CardsHold' /\ FilesHold'
  BY <1>1, <1>2 DEF ExportInv, StepsOfKind, Begun, CardsHold, CardsRead, FilesHold, FilesRead
<1> QED
  BY <1>2, <1>3, <1>4 DEF ExportInv

LEMMA ReadCardsKeeps == ExportInv /\ ReadSourceCards => ExportInv'
<1> SUFFICES ASSUME ExportInv, ReadSourceCards PROVE ExportInv'
  OBVIOUS
<1>1. /\ out.step = "cards" /\ StaysAsIs
      /\ out' = [[out EXCEPT !.cards = {<<c, columnOf[c]>> : c \in SourceCardsNow}]
                   EXCEPT !.step = IF out.kind = "dump" THEN "sent" ELSE "files"]
  BY DEF ReadSourceCards, Reads, StaysAsIs
<1>2. {<<c, columnOf[c]>> : c \in SourceCardsNow} \in SUBSET (SourceCards \X Nat)
  <2>1. \A c \in SourceCardsNow : <<c, columnOf[c]>> \in SourceCards \X Nat
    BY DEF ExportInv, BoardStands, SourceCardsNow
  <2> QED
    BY <2>1, Zenon
<1>3. /\ out' \in ExportState /\ out'.columns = out.columns /\ out'.kind = out.kind
      /\ out'.step = IF out.kind = "dump" THEN "sent" ELSE "files"
      /\ out'.cards = {<<c, columnOf[c]>> : c \in SourceCardsNow} /\ out'.files = out.files
  BY <1>1, <1>2 DEF ExportInv, ExportState
<1>4. BoardStands' /\ ColumnsHold'
  BY <1>1, <1>3 DEF ExportInv, BoardStands, ColumnsHold, ColumnsRead, Watched, StaysAsIs
<1>5. CardsHold'
  <2> SUFFICES ASSUME NEW c \in Watched' PROVE \E p \in SourceCards \X Nat : UnderColumns(c)' = {p}
    BY DEF CardsHold
  <2>1. c \in Watched /\ c \in onDisk /\ columnOf[c] \in out.columns
    BY <1>1 DEF ExportInv, BoardStands, ColumnsHold, ColumnsRead, Watched, StaysAsIs
  <2>2. UnderColumns(c)' = {p \in out'.cards : p[1] = c /\ p[2] \in out'.columns}
    BY DEF UnderColumns
  <2>3. UnderColumns(c)' = {<<c, columnOf[c]>>}
    BY <1>3, <2>1, <2>2 DEF ExportInv, BoardStands, SourceCardsNow
  <2>4. <<c, columnOf[c]>> \in SourceCards \X Nat
    BY <2>1 DEF ExportInv, BoardStands
  <2> QED
    BY <2>3, <2>4
<1>6. StepsOfKind' /\ FilesHold'
  BY <1>1, <1>3 DEF ExportInv, StepsOfKind, Begun, FilesHold, FilesRead, StaysAsIs
<1> QED
  BY <1>3, <1>4, <1>5, <1>6 DEF ExportInv

(* Files are read, looked for and sent while the cards wait or are done.      *)
LEMMA FilesStepKeeps ==
  ASSUME ExportInv, StaysAsIs, out' \in ExportState, out.step \notin {"idle", "columns", "sent"},
         out'.kind = out.kind, out'.columns = out.columns, out'.cards = out.cards,
         StepsOfKind', CardsRead' => CardsRead, FilesHold'
  PROVE  ExportInv'
<1>1. BoardStands' /\ ColumnsHold'
  BY DEF ExportInv, BoardStands, ColumnsHold, ColumnsRead, Watched, StaysAsIs
<1>2. CardsHold'
  BY DEF ExportInv, CardsHold, Watched, UnderColumns, StaysAsIs
<1> QED
  BY <1>1, <1>2 DEF ExportInv

LEMMA ReadFilesKeeps == ExportInv /\ ReadSourceFiles => ExportInv'
<1> SUFFICES ASSUME ExportInv, ReadSourceFiles PROVE ExportInv'
  OBVIOUS
<1>1. /\ out.step = "files" /\ StaysAsIs
      /\ out' = [[out EXCEPT !.files = SourceCardsNow]
                   EXCEPT !.step = IF out.kind = "dump" THEN "cards" ELSE "look"]
  BY DEF ReadSourceFiles, Reads, StaysAsIs
<1>2. SourceCardsNow = onDisk /\ allAlong \subseteq onDisk /\ onDisk \subseteq SourceCards
  BY DEF ExportInv, BoardStands, SourceCardsNow
<1>3. /\ out' \in ExportState /\ out'.columns = out.columns /\ out'.kind = out.kind /\ out'.cards = out.cards
      /\ out'.step = IF out.kind = "dump" THEN "cards" ELSE "look"
      /\ out'.files = onDisk
  BY <1>1, <1>2 DEF ExportInv, ExportState
<1>4. StepsOfKind' /\ (CardsRead' => CardsRead) /\ FilesHold'
  BY <1>1, <1>2, <1>3 DEF ExportInv, StepsOfKind, Begun, CardsRead, FilesHold, FilesRead, StaysAsIs
<1> QED
  BY <1>1, <1>3, <1>4, FilesStepKeeps

LEMMA LookKeeps == ExportInv /\ LookForFiles => ExportInv'
<1> SUFFICES ASSUME ExportInv, LookForFiles PROVE ExportInv'
  OBVIOUS
<1>1. /\ out.step = "look" /\ StaysAsIs
      /\ out' = [[out EXCEPT !.files = @ \intersect onDisk] EXCEPT !.step = "send"]
  BY DEF LookForFiles, Reads, StaysAsIs
<1>2. /\ out' \in ExportState /\ out'.columns = out.columns /\ out'.kind = out.kind /\ out'.cards = out.cards
      /\ out'.step = "send" /\ out'.files = out.files \intersect onDisk
  BY <1>1 DEF ExportInv, ExportState
<1>3. allAlong \subseteq out.files \intersect onDisk /\ out.kind # "dump"
  BY <1>1 DEF ExportInv, BoardStands, StepsOfKind, FilesHold, FilesRead
<1>4. StepsOfKind' /\ (CardsRead' => CardsRead) /\ FilesHold'
  BY <1>1, <1>2, <1>3 DEF ExportInv, StepsOfKind, Begun, CardsRead, FilesHold, FilesRead, StaysAsIs
<1> QED
  BY <1>1, <1>2, <1>4, FilesStepKeeps

LEMMA SendKeeps == ExportInv /\ SendFiles => ExportInv'
<1> SUFFICES ASSUME ExportInv, SendFiles PROVE ExportInv'
  OBVIOUS
<1>1. /\ out.step = "send" /\ StaysAsIs
      /\ out' = [[out EXCEPT !.sent = out.files \intersect onDisk] EXCEPT !.step = "sent"]
  BY DEF SendFiles, Reads, StaysAsIs
<1>2. /\ out' \in ExportState /\ out'.columns = out.columns /\ out'.kind = out.kind /\ out'.cards = out.cards
      /\ out'.step = "sent" /\ out'.sent = out.files \intersect onDisk
  BY <1>1 DEF ExportInv, ExportState
<1>3. allAlong \subseteq out.files \intersect onDisk /\ out.kind # "dump"
  BY <1>1 DEF ExportInv, BoardStands, StepsOfKind, FilesHold, FilesRead
<1>4. StepsOfKind' /\ (CardsRead' => CardsRead) /\ FilesHold'
  BY <1>1, <1>2, <1>3 DEF ExportInv, StepsOfKind, Begun, CardsRead, FilesHold, FilesRead, StaysAsIs
<1> QED
  BY <1>1, <1>2, <1>4, FilesStepKeeps

LEMMA RestKeeps == ExportInv /\ UNCHANGED exportVars => ExportInv'
BY DEF exportVars, ExportInv, BoardStands, StepsOfKind, Begun, ColumnsHold, CardsHold, FilesHold, ColumnsRead,
       CardsRead, FilesRead, Watched, UnderColumns

LEMMA ImportLeavesExport == ImportNext => UNCHANGED exportVars
BY DEF ImportNext, FetchFiles, WriteBoard, WriteRefused, BringFile, ListLinks, FinishImport, Comes

LEMMA ExportStepInv == ExportInv /\ [TransferNext]_transferVars => ExportInv'
<1> SUFFICES ASSUME ExportInv, [TransferNext]_transferVars PROVE ExportInv'
  OBVIOUS
<1>1. CASE UNCHANGED transferVars
  BY <1>1, RestKeeps DEF transferVars
<1>2. CASE ImportNext
  BY <1>2, RestKeeps, ImportLeavesExport
<1>3. CASE ExportNext
  BY <1>3, MakeColumnKeeps, MoveCardKeeps, DestroyColumnKeeps, StartKeeps, ReadColumnsKeeps, ReadCardsKeeps,
     ReadFilesKeeps, LookKeeps, SendKeeps DEF ExportNext
<1> QED
  BY <1>1, <1>2, <1>3 DEF TransferNext

(* boardExport.ts, sqlDump.ts: people go on working while a board is taken    *)
(* out.  The file that is sent holds every card that was on the board all     *)
(* along, once, under a column it holds too, and the card's file; only a card *)
(* put into a column made meanwhile may be missing: for any cards, columns    *)
(* and number of edits.                                                       *)
THEOREM ExportsAreWhole ==
  ASSUME NEW files
  PROVE  TransferSpec(files) => []ExportHoldsEachCard
<1>1. TransferInit(files) => ExportInv
  BY ExportBegins
<1>2. ExportInv => ExportHoldsEachCard
  <2> SUFFICES ASSUME ExportInv, out.step = "sent", NEW c \in allAlong \ strayed
               PROVE  /\ Cardinality(UnderColumns(c)) = 1
                      /\ c \in IF out.kind = "dump" THEN out.files ELSE out.sent
    BY DEF ExportHoldsEachCard, UnderColumns
  <2>1. out.kind \in {"export", "dump"}
    BY DEF ExportInv, ExportState, StepsOfKind, Begun
  <2>2. PICK p \in SourceCards \X Nat : UnderColumns(c) = {p}
    BY <2>1 DEF ExportInv, CardsHold, CardsRead, Watched
  <2>3. Cardinality(UnderColumns(c)) = 1
    BY <2>2, FS_Singleton
  <2>4. c \in IF out.kind = "dump" THEN out.files ELSE out.sent
    BY <2>1 DEF ExportInv, FilesHold, FilesRead
  <2> QED
    BY <2>3, <2>4
<1> QED
  BY <1>1, <1>2, ExportStepInv, PTL DEF TransferSpec

=============================================================================
