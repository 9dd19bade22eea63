-------------------------- MODULE RepeatSeriesProofs --------------------------
(* Proofs about repeating cards: for any servers, pages, edits, rhythms and   *)
(* dates, SeriesUnbroken and NextOnGrid hold in every reachable state.        *)

EXTENDS RepeatSeries, Integers, FiniteSetTheorems, WellFoundedInduction, TLAPS

(* What a rhythm needs of a row: an anchor and a turn to come.                *)
Planned(row) == row.every # Off => row.anchor \in Nat /\ row.next \in Nat

OnGrid(row, date) == \E n \in Nat : date = row.anchor + row.every * n

(* The turn to come, and the due date if there is one, are turns of the row's *)
(* own series.                                                                *)
Regular(row) == row.every # Off =>
  /\ OnGrid(row, row.next)
  /\ row.due # NoDate => OnGrid(row, row.due)

SweepState == [step : {"idle", "card", "hand", "make"}, todo : SUBSET Ids, at : Nat,
               card : Ids \cup {0}, held : Row]
PageState == [card : Nat, every : Rhythms \cup {Off}, due : Dates]
EditState == [card : Ids \cup {0}, every : Rhythms \cup {Off, Absent}, due : Dates \cup {Absent},
              chosen : BOOLEAN, read : Row]

(* Ids are given out in order and never again.                                *)
RepeatTypes ==
  /\ now \in Nat /\ now <= MaxTime
  /\ \E n \in Nat : DOMAIN history = 1..n
  /\ DOMAIN rows \subseteq Ids
  /\ rows \in [DOMAIN rows -> Row]
  /\ history \in [Ids -> History]
  /\ sweep \in [Sweepers -> SweepState]
  /\ page \in [Pages -> PageState]
  /\ edit \in [Edits -> EditState]

(* A sweep at work has a card in hand, or cards to look at.                   *)
SweepIsSound(s) ==
  /\ At(s, "card") => sweep[s].todo # {}
  /\ sweep[s].step \in {"hand", "make"} =>
       sweep[s].card # 0 /\ sweep[s].held.every # Off /\ Planned(sweep[s].held)
  /\ sweep[s].at <= now

(* A card a sweep made and nobody has touched.                                *)
LeftAlone(c) == history[c].from # 0 /\ ~ history[c].touched

(* ... is not due again before a later sweep ...                              *)
DueLater == \A c \in DOMAIN rows :
  (LeftAlone(c) /\ Carries(c)) => rows[c].next > history[c].at

(* ... and no sweep that was under way when it was made looks at it.          *)
SweptLater == \A s \in Sweepers : \A c \in Ids :
  LeftAlone(c) /\ (c \in sweep[s].todo \/ (sweep[s].step \in {"hand", "make"} /\ sweep[s].card = c))
    => sweep[s].at > history[c].at

(* A card was made from one there was.                                        *)
FromIsReal == \A d \in Ids : history[d].from \in Ids \cup {0}

Series ==
  /\ \A c \in DOMAIN rows : Planned(rows[c]) /\ (~ history[c].torn => Regular(rows[c]))
  /\ \A e \in Edits :
       Planned(edit[e].read)
         /\ (edit[e].card \in Ids /\ ~ history[edit[e].card].torn => Regular(edit[e].read))

(* Of the rhythms a card was given, each is still on it, was taken by one     *)
(* sweep, or was stopped.                                                     *)
TakenOnce == \A c \in Ids :
  history[c].handed + (IF Carries(c) THEN 1 ELSE 0) <= history[c].asked + history[c].stale

RepeatInv ==
  /\ RepeatTypes
  /\ \A s \in Sweepers : SweepIsSound(s)
  /\ FromIsReal
  /\ Series
  /\ TakenOnce
  /\ NothingFallsBetween
  /\ DueLater
  /\ SweptLater
  /\ NoPileUp

-----------------------------------------------------------------------------
(* Least elements.  Sets of numbers are compared by their initial segments,   *)
(* which are finite sets ordered by inclusion.                                *)
Upto(m) == 1..m

LEMMA UptoIsFinite == \A m \in Nat : Upto(m) \in FiniteSubsetsOf(Nat)
<1> SUFFICES ASSUME NEW m \in Nat PROVE IsFiniteSet(1..m) /\ 1..m \in SUBSET Nat
  BY DEF FiniteSubsetsOf, Upto
<1>1. IsFiniteSet(1..m)
  BY FS_Interval
<1> QED
  BY <1>1

LEMMA LeastNatural ==
  ASSUME NEW A \in SUBSET Nat, A # {}
  PROVE  \E m \in A : \A n \in A : m <= n
<1> DEFINE Segments == {Upto(n) : n \in A}
           shorter  == StrictSubsetOrdering(Nat)
<1>1. Segments \subseteq FiniteSubsetsOf(Nat) /\ Segments # {}
  BY UptoIsFinite
<1>2. \E x \in Segments : \A y \in Segments : <<y, x>> \notin shorter
  <2>1. IsWellFoundedOn(shorter, FiniteSubsetsOf(Nat))
    BY FS_StrictSubsetOrderingWellFounded
  <2> HIDE DEF Segments, shorter
  <2> QED
    BY <1>1, <2>1, WFMin
<1>3. PICK x \in Segments : \A y \in Segments : <<y, x>> \notin shorter
  BY <1>2
<1>4. PICK m \in A : x = Upto(m)
  OBVIOUS
<1>5. ASSUME NEW n \in A, n < m PROVE FALSE
  <2>1. Upto(n) \subseteq Upto(m) /\ Upto(m) \subseteq Nat /\ Upto(n) \subseteq Nat
    BY <1>5 DEF Upto
  <2>2. m \in Upto(m) /\ m \notin Upto(n)
    BY <1>5 DEF Upto
  <2>3. <<Upto(n), Upto(m)>> \in shorter
    BY <2>1, <2>2 DEF StrictSubsetOrdering
  <2> QED
    BY <2>3, <1>3, <1>4
<1> QED
  BY <1>5

LEMMA MinOfNaturals ==
  ASSUME NEW A \in SUBSET Nat, A # {}
  PROVE  Min(A) \in A /\ \A n \in A : Min(A) <= n
BY LeastNatural DEF Min

LEMMA MaxOfTwo ==
  ASSUME NEW a \in Nat, NEW b \in Nat
  PROVE  Max({a, b}) \in Nat /\ Max({a, b}) >= a /\ Max({a, b}) >= b
<1>1. \E x \in {a, b} : \A y \in {a, b} : x >= y
  OBVIOUS
<1> QED
  BY <1>1 DEF Max

(* What nextOccurrence returns is a turn of the series.                       *)
LEMMA NextIsATurn ==
  ASSUME NEW anchor \in Nat, NEW every \in Nat, NEW after \in Nat
  PROVE  \E n \in 1..Turns : NextOccurrence(anchor, every, after) = anchor + every * n
<1> DEFINE later == {n \in 1..Turns : anchor + n * every > after}
<1>1. later \in SUBSET Nat /\ (later # {} => Min(later) \in later)
  <2>1. later \in SUBSET Nat
    BY TimeAssumption
  <2> HIDE DEF later
  <2> QED
    BY <2>1, MinOfNaturals
<1>2. NextOccurrence(anchor, every, after) = anchor + every * (IF later = {} THEN Turns ELSE Min(later))
  BY DEF NextOccurrence
<1>3. Turns \in 1..Turns
  BY TimeAssumption
<1> HIDE DEF later
<1>4. later \subseteq 1..Turns
  BY DEF later
<1> QED
  BY <1>1, <1>2, <1>3, <1>4

LEMMA Times ==
  ASSUME NEW a \in Nat, NEW e \in Nat \ {0}, NEW n \in Nat
  PROVE  e * n \in Nat /\ e * n >= n /\ a + e * n \in Nat /\ a + e * n >= n
OBVIOUS

(* ... and later than asked, or than any moment the model has.                *)
LEMMA NextIsLater ==
  ASSUME NEW anchor \in Nat, NEW every \in Nat \ {0}, NEW after \in Nat, NEW at \in Nat,
         at <= after, at <= MaxTime
  PROVE  NextOccurrence(anchor, every, after) > at
<1> DEFINE later == {n \in 1..Turns : anchor + n * every > after}
<1>1. later \in SUBSET Nat /\ (later # {} => Min(later) \in later)
  <2>1. later \in SUBSET Nat
    BY TimeAssumption
  <2> HIDE DEF later
  <2> QED
    BY <2>1, MinOfNaturals
<1>2. NextOccurrence(anchor, every, after) = anchor + every * (IF later = {} THEN Turns ELSE Min(later))
  BY DEF NextOccurrence
<1>3. anchor + every * Turns > at
  BY Times, TimeAssumption
<1>4. \A n \in later : n \in Nat /\ anchor + every * n > at
  OBVIOUS
<1> HIDE DEF later
<1> QED
  BY <1>1, <1>2, <1>3, <1>4

LEMMA WholeRhythms ==
  ASSUME NEW a \in Nat, NEW e \in Nat \ {0}, NEW n \in Nat
  PROVE  a + e * n >= a /\ (a + e * n - a) % e = 0
<1>1. e * n \in Nat /\ a + e * n - a = e * n
  OBVIOUS
<1>2. (e * n) % e = 0
  OBVIOUS
<1> QED
  BY <1>1, <1>2

(* The row planned for the next card belongs to the same series.              *)
LEMMA PlanIsRegular ==
  ASSUME NEW row \in Row, NEW at \in Nat, at <= MaxTime, row.every # Off, Planned(row)
  PROVE  LET plan == PlanNextCard(row, at)
             next == [every |-> row.every, anchor |-> row.anchor, due |-> plan.due,
                      next |-> plan.next, archived |-> FALSE]
         IN next \in Row /\ Planned(next) /\ Regular(next) /\ next.next > at
<1> DEFINE plan == PlanNextCard(row, at)
           next == [every |-> row.every, anchor |-> row.anchor, due |-> plan.due,
                    next |-> plan.next, archived |-> FALSE]
<1>1. row.every \in Nat \ {0} /\ row.every \in Rhythms /\ row.anchor \in Nat
  BY RhythmAssumption DEF Row, Planned, Off
<1>2. PICK after \in Nat : /\ after >= at
                           /\ plan.next = NextOccurrence(row.anchor, row.every, after)
                           /\ plan.due \in {NoDate, plan.next}
  <2>1. CASE row.due = NoDate
    BY <2>1 DEF PlanNextCard
  <2>2. CASE row.due # NoDate
    <3>1. row.due \in Nat
      BY <2>2 DEF Row, Dates
    <3>2. Max({row.due, at}) \in Nat /\ Max({row.due, at}) >= at
      BY <3>1, MaxOfTwo
    <3> QED
      BY <3>2, <2>2 DEF PlanNextCard
  <2> QED
    BY <2>1, <2>2
<1>3. PICK n \in 1..Turns : plan.next = row.anchor + row.every * n
  <2> DEFINE a == row.anchor
             e == row.every
             turn == NextOccurrence(a, e, after)
  <2>1. a \in Nat /\ e \in Nat /\ plan.next = turn
    BY <1>1, <1>2
  <2>2. \E n \in 1..Turns : turn = a + e * n
    <3> HIDE DEF a, e
    <3> QED
      BY <2>1, NextIsATurn
  <2> HIDE DEF plan, turn
  <2> QED
    BY <2>1, <2>2
<1>4. plan.next > at
  BY <1>1, <1>2, NextIsLater
<1>5. n \in Nat /\ plan.next \in Nat
  BY <1>1, <1>3, TimeAssumption, Times
<1> HIDE DEF plan
<1>6. next \in Row /\ Planned(next) /\ next.next > at
  BY <1>1, <1>2, <1>4, <1>5 DEF Row, Dates, Planned
<1>7. Regular(next)
  BY <1>2, <1>3, <1>5 DEF Regular, OnGrid
<1> QED
  BY <1>6, <1>7 DEF plan

(* An edit, from whatever row it read, leaves a rhythm with its anchor and    *)
(* its turn; and of the row's own series, if the row it read was.             *)
LEMMA EditIsRegular ==
  ASSUME NEW read \in Row, Planned(read), NEW due \in Dates,
         NEW asked \in Rhythms \cup {Off, Absent}, now \in Nat,
         NEW changed \in BOOLEAN, ~ changed => due = read.due
  PROVE  LET repeat == RepeatAfterEdit(read, asked, due, changed)
         IN /\ repeat \in [every : Rhythms \cup {Off}, anchor : Dates, next : Dates]
            /\ \A row \in Row : (row.every = repeat.every /\ row.anchor = repeat.anchor /\ row.next = repeat.next) =>
                 /\ Planned(row)
                 /\ (Regular(read) /\ row.due = due) => Regular(row)
<1> DEFINE repeat  == RepeatAfterEdit(read, asked, due, changed)
           every   == IF asked = Absent THEN read.every ELSE asked
           fresh   == every # read.every \/ read.anchor = NoDate
           anchor  == CASE due # NoDate /\ (fresh \/ changed) -> due
                        [] due = NoDate /\ fresh -> now
                        [] OTHER -> read.anchor
           next    == IF due # NoDate THEN due ELSE NextOccurrence(anchor, every, now)
<1>1. every \in Rhythms \cup {Off} /\ (every # Off => every \in Nat \ {0})
  BY RhythmAssumption, AbsentAssumption DEF Row, Off
<1>2. CASE every = Off
  <2>1. repeat = [every |-> Off, anchor |-> NoDate, next |-> NoDate]
    BY <1>2 DEF RepeatAfterEdit
  <2> QED
    BY <2>1 DEF Planned, Regular, Dates
<1>3. CASE every # Off
  <2>1. repeat = [every |-> every, anchor |-> anchor, next |-> next]
    BY <1>3 DEF RepeatAfterEdit
  <2>2. anchor \in Nat
    BY DEF Row, Dates
  <2>3. next \in Nat
    <3>1. CASE due # NoDate
      BY <3>1 DEF Dates
    <3>2. CASE due = NoDate
      <4> HIDE DEF anchor, every
      <4>1. PICK n \in 1..Turns : next = anchor + every * n
        BY <3>2, <1>1, <1>3, <2>2, NextIsATurn
      <4> QED
        BY <4>1, <1>1, <1>3, <2>2, Times, TimeAssumption
    <3> QED
      BY <3>1, <3>2
  <2>4. Regular(read) => \E n \in Nat : next = anchor + every * n
    <3>1. CASE due = NoDate
      <4> HIDE DEF anchor, every
      <4>1. PICK n \in 1..Turns : next = anchor + every * n
        BY <3>1, <1>1, <1>3, <2>2, NextIsATurn
      <4> QED
        BY <4>1, TimeAssumption
    <3>2. CASE due # NoDate /\ (fresh \/ changed)
      <4>1. anchor = due /\ next = due /\ due \in Nat
        BY <3>2 DEF Dates
      <4>2. due = due + every * 0 /\ 0 \in Nat
        BY <4>1, <1>1, <1>3
      <4> QED
        BY <4>1, <4>2
    <3>3. CASE due # NoDate /\ ~ (fresh \/ changed)
      <4>1. anchor = read.anchor /\ next = read.due /\ every = read.every /\ read.due # NoDate
        BY <3>3
      <4> QED
        BY <4>1, <1>3 DEF Regular, OnGrid
    <3> QED
      BY <3>1, <3>2, <3>3
  <2>5. due # NoDate => next = due
    OBVIOUS
  <2> HIDE DEF every, anchor, next, repeat
  <2>6. repeat \in [every : Rhythms \cup {Off}, anchor : Dates, next : Dates]
    BY <2>1, <2>2, <2>3, <1>1 DEF Dates
  <2>7. ASSUME NEW row \in Row, row.every = repeat.every, row.anchor = repeat.anchor, row.next = repeat.next
        PROVE  Planned(row) /\ (Regular(read) /\ row.due = due => Regular(row))
    <3>1. row.every = every /\ row.anchor = anchor /\ row.next = next
      BY <2>1, <2>7
    <3>2. Planned(row)
      BY <3>1, <2>2, <2>3 DEF Planned
    <3>3. ASSUME Regular(read), row.due = due PROVE Regular(row)
      BY <3>1, <3>3, <2>4, <2>5 DEF Regular, OnGrid
    <3> QED
      BY <3>2, <3>3
  <2> QED
    BY <2>6, <2>7 DEF repeat
<1> QED
  BY <1>2, <1>3

-----------------------------------------------------------------------------
(* The sweeps that have taken a card's rhythm and not yet made the next card. *)
Hands(c) == {s \in Sweepers : At(s, "make") /\ sweep[s].card = c}

LEMMA IdsInOrder ==
  ASSUME RepeatTypes
  PROVE  \E n \in Nat : /\ Ids = 1..n /\ Cardinality(Ids) = n /\ IsFiniteSet(Ids)
                        /\ Ids \cup {n + 1} = 1..(n + 1)
<1>1. PICK n \in Nat : DOMAIN history = 1..n
  BY DEF RepeatTypes
<1>2. IsFiniteSet(1..n) /\ Cardinality(1..n) = n
  BY FS_Interval
<1> QED
  BY <1>1, <1>2 DEF Ids

LEMMA HandsAreFinite ==
  /\ \A c : IsFiniteSet(Hands(c)) /\ Cardinality(Hands(c)) \in Nat
  /\ RepeatTypes => \A c : IsFiniteSet(MadeFrom(c)) /\ Cardinality(MadeFrom(c)) \in Nat
<1>1. \A c : Hands(c) \subseteq Sweepers /\ MadeFrom(c) \subseteq Ids
  BY DEF Hands, MadeFrom
<1>2. RepeatTypes => IsFiniteSet(Ids)
  BY IdsInOrder
<1> QED
  BY <1>1, <1>2, FS_Subset, FS_CardinalityType, SweepersAssumption

LEMMA RestingType == Resting \in SweepState /\ NoRow \in Row /\ Planned(NoRow) /\ Regular(NoRow)
BY DEF Resting, SweepState, NoRow, Row, Dates, Planned, Regular, Off

LEMMA NewIsRegular ==
  ASSUME NEW every \in Offered, NEW due \in Picks, now \in Nat
  PROVE  New(every, due) \in Row /\ Planned(New(every, due)) /\ Regular(New(every, due))
         /\ (New(every, due).every = every)
<1> DEFINE repeat == RepeatAfterEdit(NoRow, every, due, TRUE)
           row    == New(every, due)
<1>1. every \in Rhythms \cup {Off} /\ due \in Dates
  BY DateAssumption DEF Offered, Picks, Dates
<1>2. repeat.every = every
  BY <1>1, AbsentAssumption, RhythmAssumption DEF RepeatAfterEdit, Off
<1>3. row = [every |-> repeat.every, anchor |-> repeat.anchor, due |-> due, next |-> repeat.next,
             archived |-> FALSE]
  BY DEF New
<1> HIDE DEF repeat, row
<1>4. /\ repeat \in [every : Rhythms \cup {Off}, anchor : Dates, next : Dates]
      /\ \A r \in Row : (r.every = repeat.every /\ r.anchor = repeat.anchor /\ r.next = repeat.next) =>
           /\ Planned(r)
           /\ (Regular(NoRow) /\ r.due = due) => Regular(r)
  BY <1>1, RestingType, EditIsRegular DEF repeat
<1>5. row \in Row
  BY <1>1, <1>3, <1>4 DEF Row
<1> QED
  BY <1>2, <1>3, <1>4, <1>5, RestingType DEF row

LEMMA Counting ==
  NothingFallsBetween <=>
    \A c \in Ids : history[c].handed = Cardinality(MadeFrom(c)) + history[c].lost + Cardinality(Hands(c))
BY DEF NothingFallsBetween, Hands

LEMMA CountingThen ==
  NothingFallsBetween' <=>
    \A c \in Ids' : history'[c].handed = Cardinality(MadeFrom(c)') + history'[c].lost + Cardinality(Hands(c)')
BY DEF NothingFallsBetween, Hands, MadeFrom

LEMMA RepeatInitInv == Init => RepeatInv
<1> SUFFICES ASSUME Init PROVE RepeatInv
  OBVIOUS
<1>1. PICK every \in Offered, due \in Picks :
        /\ rows = [c \in {1} |-> New(every, due)]
        /\ history = [c \in {1} |-> Born(0, 0, every)]
  BY DEF Init
<1>2. now = 1 /\ Ids = {1} /\ {1} = 1..1
  BY <1>1 DEF Init, Ids
<1>3. New(every, due) \in Row /\ Planned(New(every, due)) /\ Regular(New(every, due))
      /\ New(every, due).every = every
  BY <1>2, NewIsRegular
<1>4. Born(0, 0, every) \in History
  BY DEF Born, History
<1>5. RepeatTypes
  <2>1. history \in [Ids -> History] /\ rows \in [DOMAIN rows -> Row] /\ DOMAIN rows = Ids
    BY <1>1, <1>2, <1>3, <1>4
  <2>2. now \in Nat /\ now <= MaxTime /\ DOMAIN history = 1..1
    BY <1>2, TimeAssumption DEF Ids
  <2>3. sweep \in [Sweepers -> SweepState]
    BY RestingType DEF Init
  <2>4. page \in [Pages -> PageState]
    BY DEF Init, Blank, PageState, Dates
  <2>5. edit \in [Edits -> EditState]
    BY RestingType DEF Init, NoEdit, EditState
  <2> QED
    BY <2>1, <2>2, <2>3, <2>4, <2>5 DEF RepeatTypes
<1>6. \A s \in Sweepers : sweep[s].step = "idle" /\ sweep[s].todo = {} /\ sweep[s].at = 0
  BY DEF Init, Resting
<1>7. \A s \in Sweepers : SweepIsSound(s)
  BY <1>2, <1>6 DEF SweepIsSound, At
<1>8. \A c \in Ids : history[c].from = 0 /\ history[c].handed = 0 /\ history[c].lost = 0
                     /\ history[c].stale = 0 /\ history[c].asked = (IF every = Off THEN 0 ELSE 1)
  BY <1>1, <1>2 DEF Born
<1>9. FromIsReal /\ DueLater /\ SweptLater /\ NoPileUp
  BY <1>6, <1>8, <1>5 DEF FromIsReal, DueLater, SweptLater, NoPileUp, LeftAlone, RepeatTypes
<1>10. Series
  <2>1. \A e \in Edits : edit[e].read = NoRow
    BY DEF Init, NoEdit
  <2> QED
    BY <1>1, <1>3, <2>1, RestingType DEF Series
<1>11. TakenOnce
  BY <1>1, <1>2, <1>3, <1>8 DEF TakenOnce, Carries
<1>12. NothingFallsBetween
  <2>1. \A c \in Ids : MadeFrom(c) = {} /\ Hands(c) = {}
    BY <1>2, <1>6, <1>8 DEF MadeFrom, Hands, At
  <2>2. Cardinality({}) = 0
    BY FS_EmptySet
  <2> QED
    BY <1>8, <2>1, <2>2, Counting
<1> QED
  BY <1>5, <1>7, <1>9, <1>10, <1>11, <1>12 DEF RepeatInv

-----------------------------------------------------------------------------
(* A sweep turns to another card, or stops.                                   *)
GoesOn(s, new) ==
  /\ new \in SweepState
  /\ new.step \in {"idle", "card"}
  /\ new.step = "card" => new.todo # {}
  /\ new.todo \subseteq sweep[s].todo
  /\ new.todo # {} => new.at = sweep[s].at
  /\ new.at <= now

LEMMA ContinueGoesOn ==
  ASSUME RepeatInv, NEW s \in Sweepers, NEW todo, todo \subseteq sweep[s].todo, Continue(s, todo)
  PROVE  \E new : GoesOn(s, new) /\ sweep' = [sweep EXCEPT ![s] = new]
<1>1. sweep[s] \in SweepState /\ sweep[s].at <= now /\ now \in Nat
  BY DEF RepeatInv, RepeatTypes, SweepIsSound
<1>2. CASE todo = {}
  <2>1. GoesOn(s, Resting)
    BY <1>1, RestingType DEF GoesOn, Resting
  <2> QED
    BY <2>1, <1>2 DEF Continue
<1>3. CASE todo # {}
  <2>1. Turning(todo, sweep[s].at) \in SweepState
    BY <1>1, RestingType DEF Turning, SweepState
  <2>2. GoesOn(s, Turning(todo, sweep[s].at))
    BY <1>1, <1>3, <2>1 DEF GoesOn, Turning
  <2> QED
    BY <2>2, <1>3 DEF Continue
<1> QED
  BY <1>2, <1>3

LEMMA RestingGoesOn == ASSUME RepeatInv, NEW s \in Sweepers PROVE GoesOn(s, Resting)
<1>1. sweep[s] \in SweepState /\ now \in Nat
  BY DEF RepeatInv, RepeatTypes
<1> QED
  BY <1>1, RestingType DEF GoesOn, Resting

(* A sweep takes a step in which it touches no row.                           *)
LEMMA SweepsOn ==
  ASSUME RepeatInv, NEW s \in Sweepers, NEW new \in SweepState,
         sweep' = [sweep EXCEPT ![s] = new],
         ~ At(s, "make"), new.step # "make",
         new.step = "card" => new.todo # {},
         new.step = "hand" => new.card # 0 /\ new.held.every # Off /\ Planned(new.held),
         new.at <= now,
         \A c \in Ids : LeftAlone(c) /\ (c \in new.todo \/ (new.step = "hand" /\ new.card = c))
           => new.at > history[c].at,
         UNCHANGED <<now, rows, history, page, edit>>
  PROVE  RepeatInv'
<1>1. RepeatTypes'
  BY DEF RepeatInv, RepeatTypes, SweepState, EditState, Ids
<1>2. sweep \in [Sweepers -> SweepState] /\ sweep'[s] = new /\ \A t \in Sweepers \ {s} : sweep'[t] = sweep[t]
  BY DEF RepeatInv, RepeatTypes
<1>3. new.step \in {"idle", "card", "hand"}
  BY DEF SweepState
<1>4. ASSUME NEW t \in Sweepers PROVE SweepIsSound(t)'
  BY <1>2, <1>3 DEF RepeatInv, SweepIsSound, At, Planned
<1>5. FromIsReal' /\ Series' /\ TakenOnce' /\ DueLater' /\ NoPileUp'
  BY DEF RepeatInv, FromIsReal, Series, TakenOnce, DueLater, NoPileUp, Ids, LeftAlone, Carries, Planned,
         Regular, OnGrid
<1>6. NothingFallsBetween'
  <2>1. \A c : Hands(c)' = Hands(c) /\ MadeFrom(c)' = MadeFrom(c)
    BY <1>2 DEF Hands, At, MadeFrom, Ids
  <2> QED
    BY <2>1, Counting, CountingThen DEF RepeatInv, Ids
<1>7. SweptLater'
  BY <1>2, <1>3 DEF RepeatInv, SweptLater, LeftAlone, Ids
<1> QED
  BY <1>1, <1>4, <1>5, <1>6, <1>7 DEF RepeatInv

(* ... because there is nothing more to do for the card it looked at.         *)
LEMMA SweepsPast ==
  ASSUME RepeatInv, NEW s \in Sweepers, NEW new, GoesOn(s, new), ~ At(s, "make"),
         sweep' = [sweep EXCEPT ![s] = new], UNCHANGED <<now, rows, history, page, edit>>
  PROVE  RepeatInv'
<1>1. \A c \in Ids : LeftAlone(c) /\ c \in new.todo => new.at > history[c].at
  BY DEF RepeatInv, SweptLater, GoesOn
<1> QED
  BY <1>1, SweepsOn DEF GoesOn

LEMMA ListDueStep == ASSUME RepeatInv, NEW s \in Sweepers, ListDue(s) PROVE RepeatInv'
<1> DEFINE todo == {c \in DOMAIN rows : Owed(c)}
           new  == Turning(todo, now)
<1>1. /\ At(s, "idle") /\ todo # {} /\ sweep' = [sweep EXCEPT ![s] = new]
      /\ UNCHANGED <<now, rows, history, page, edit>>
  BY DEF ListDue
<1>2. todo \subseteq Ids /\ now \in Nat
  BY DEF RepeatInv, RepeatTypes
<1>3. \A c \in todo : LeftAlone(c) => now > history[c].at
  <2> SUFFICES ASSUME NEW c \in DOMAIN rows, Owed(c), LeftAlone(c) PROVE now > history[c].at
    OBVIOUS
  <2>1. Carries(c) /\ rows[c].next <= now /\ rows[c].next > history[c].at
    BY DEF RepeatInv, DueLater, Owed
  <2>2. rows[c].next \in Nat /\ history[c].at \in Nat
    BY <2>1 DEF RepeatInv, RepeatTypes, Series, Planned, Carries, History
  <2> QED
    BY <2>1, <2>2, <1>2
<1> HIDE DEF todo
<1>4. /\ new \in SweepState /\ new.step = "card" /\ new.todo = todo /\ new.at = now
  BY <1>2, RestingType DEF Turning, SweepState
<1> HIDE DEF new
<1>5. \A c \in Ids : LeftAlone(c) /\ (c \in new.todo \/ (new.step = "hand" /\ new.card = c))
        => new.at > history[c].at
  BY <1>3, <1>4
<1>6. ~ At(s, "make") /\ new.step # "make" /\ new.step # "hand" /\ new.todo # {} /\ new.at <= now
  BY <1>1, <1>2, <1>4 DEF At
<1> QED
  BY <1>1, <1>4, <1>5, <1>6, SweepsOn

LEMMA ReadCardStep == ASSUME RepeatInv, NEW s \in Sweepers, ReadCard(s) PROVE RepeatInv'
<1> DEFINE c    == Min(sweep[s].todo)
           rest == sweep[s].todo \ {c}
<1>1. At(s, "card") /\ UNCHANGED <<now, rows, history, page, edit>>
  BY DEF ReadCard
<1>2. sweep[s] \in SweepState /\ sweep[s].todo # {} /\ sweep[s].at <= now
  BY <1>1 DEF RepeatInv, RepeatTypes, SweepIsSound
<1>3. c \in sweep[s].todo /\ c \in Ids /\ c # 0
  <2>1. PICK n \in Nat : Ids = 1..n
    BY IdsInOrder DEF RepeatInv
  <2>2. sweep[s].todo \in SUBSET Nat /\ sweep[s].todo \subseteq Ids
    BY <1>2, <2>1 DEF SweepState
  <2>3. c \in sweep[s].todo
    BY <1>2, <2>2, MinOfNaturals
  <2> QED
    BY <2>1, <2>2, <2>3
<1>4. CASE ~ Carries(c)
  <2>1. Continue(s, rest)
    BY <1>4 DEF ReadCard
  <2>2. \E new : GoesOn(s, new) /\ sweep' = [sweep EXCEPT ![s] = new]
    BY <2>1, ContinueGoesOn
  <2> QED
    BY <1>1, <2>2, SweepsPast DEF At
<1>5. CASE Carries(c)
  <2> DEFINE new == [sweep[s] EXCEPT !.step = "hand", !.todo = rest, !.card = c, !.held = rows[c]]
  <2>1. sweep' = [sweep EXCEPT ![s] = new]
    BY <1>5 DEF ReadCard
  <2>2. rows[c] \in Row /\ rows[c].every # Off /\ Planned(rows[c])
    BY <1>5 DEF RepeatInv, RepeatTypes, Carries, Series
  <2> HIDE DEF c
  <2>3. new \in SweepState
    BY <1>2, <1>3, <2>2 DEF SweepState
  <2>4. new.step = "hand" /\ new.todo = rest /\ new.card = c /\ new.held = rows[c] /\ new.at = sweep[s].at
    BY <1>2 DEF SweepState
  <2>5. \A d \in Ids : LeftAlone(d) /\ (d \in new.todo \/ (new.step = "hand" /\ new.card = d))
          => new.at > history[d].at
    BY <1>3, <2>4 DEF RepeatInv, SweptLater
  <2> HIDE DEF new
  <2> QED
    BY <1>1, <1>2, <1>3, <2>1, <2>2, <2>3, <2>4, <2>5, SweepsOn DEF At
<1> QED
  BY <1>4, <1>5

(* A sweep that had taken a rhythm stops, and the rhythm is lost with it.     *)
LEMMA StopsInHand ==
  ASSUME RepeatInv, NEW s \in Sweepers, NEW new, GoesOn(s, new), At(s, "make"),
         sweep' = [sweep EXCEPT ![s] = new], Lose(s), UNCHANGED <<now, rows, page, edit>>
  PROVE  RepeatInv'
<1>1. sweep[s].card \in Ids /\ sweep \in [Sweepers -> SweepState]
  BY DEF RepeatInv, RepeatTypes, SweepIsSound, At, SweepState
<1>c. PICK c \in Ids : c = sweep[s].card
  BY <1>1
<1>2. history' = [history EXCEPT ![c].lost = @ + 1]
  BY <1>c DEF Lose
<1>3. /\ Ids' = Ids /\ history' \in [Ids -> History]
      /\ \A d \in Ids : /\ history'[d].from = history[d].from /\ history'[d].at = history[d].at
                        /\ history'[d].asked = history[d].asked /\ history'[d].stale = history[d].stale
                        /\ history'[d].handed = history[d].handed /\ history'[d].torn = history[d].torn
                        /\ history'[d].touched = history[d].touched
                        /\ history'[d].lost = history[d].lost + (IF d = c THEN 1 ELSE 0)
  <2>1. history \in [Ids -> History]
    BY DEF RepeatInv, RepeatTypes
  <2> QED
    BY <1>1, <1>2, <2>1 DEF Ids, History
<1>4. sweep' \in [Sweepers -> SweepState] /\ sweep'[s] = new /\ \A t \in Sweepers \ {s} : sweep'[t] = sweep[t]
  BY <1>1 DEF GoesOn
<1>5. RepeatTypes'
  <2>1. SweepState' = SweepState /\ EditState' = EditState
    BY <1>3 DEF SweepState, EditState
  <2>2. DOMAIN history' = DOMAIN history
    BY <1>3 DEF Ids
  <2> QED
    BY <1>3, <1>4, <2>1, <2>2 DEF RepeatInv, RepeatTypes
<1>6. ASSUME NEW t \in Sweepers PROVE SweepIsSound(t)'
  BY <1>4 DEF RepeatInv, SweepIsSound, At, Planned, GoesOn
<1>7. FromIsReal' /\ Series' /\ TakenOnce' /\ DueLater' /\ NoPileUp'
  <2>1. FromIsReal' /\ DueLater'
    BY <1>3 DEF RepeatInv, FromIsReal, DueLater, LeftAlone, Carries, RepeatTypes
  <2>2. Series'
    BY <1>3 DEF RepeatInv, Series, Planned, Regular, OnGrid, RepeatTypes
  <2>3. TakenOnce'
    BY <1>3 DEF RepeatInv, TakenOnce, Carries
  <2>4. NoPileUp'
    BY <1>3 DEF RepeatInv, NoPileUp, FromIsReal
  <2> QED
    BY <2>1, <2>2, <2>3, <2>4
<1>8. SweptLater'
  BY <1>3, <1>4 DEF RepeatInv, SweptLater, LeftAlone, GoesOn
<1>9. NothingFallsBetween'
  <2>1. \A d \in Ids : MadeFrom(d)' = MadeFrom(d)
    BY <1>3 DEF MadeFrom
  <2>2. \A d \in Ids \ {c} : Hands(d)' = Hands(d)
    BY <1>c, <1>4 DEF Hands, At, GoesOn
  <2>3. Hands(c)' = Hands(c) \ {s} /\ s \in Hands(c)
    BY <1>c, <1>4 DEF Hands, At, GoesOn
  <2>4. Cardinality(Hands(c)') = Cardinality(Hands(c)) - 1
    BY <2>3, HandsAreFinite, FS_RemoveElement
  <2>5. \A d \in Ids : Cardinality(MadeFrom(d)) \in Nat /\ Cardinality(Hands(d)) \in Nat
                       /\ history[d] \in History
    BY HandsAreFinite DEF RepeatInv, RepeatTypes
  <2>6. \A d \in Ids : history[d].handed = Cardinality(MadeFrom(d)) + history[d].lost + Cardinality(Hands(d))
    BY Counting DEF RepeatInv
  <2>7. ASSUME NEW d \in Ids
        PROVE  history'[d].handed = Cardinality(MadeFrom(d)') + history'[d].lost + Cardinality(Hands(d)')
    <3>1. history[d].lost \in Nat /\ history[d].handed \in Nat
      BY <2>5 DEF History
    <3> QED
      BY <1>3, <2>1, <2>2, <2>4, <2>5, <2>6, <3>1
  <2> QED
    BY <1>3, <2>7, CountingThen
<1> QED
  BY <1>5, <1>6, <1>7, <1>8, <1>9 DEF RepeatInv

LEMMA FailStep == ASSUME RepeatInv, NEW s \in Sweepers, Fail(s) PROVE RepeatInv'
<1>1. UNCHANGED <<now, rows, page, edit>> /\ Lose(s)
  BY DEF Fail
<1>2. \E new : GoesOn(s, new) /\ sweep' = [sweep EXCEPT ![s] = new]
  BY ContinueGoesOn DEF Fail
<1>3. ~ At(s, "make") => history' = history
  BY DEF Fail, Lose
<1> QED
  BY <1>1, <1>2, <1>3, StopsInHand, SweepsPast

LEMMA CrashStep == ASSUME RepeatInv, NEW s \in Sweepers, Crash(s) PROVE RepeatInv'
<1>1. UNCHANGED <<now, rows, page, edit>> /\ Lose(s) /\ sweep' = [sweep EXCEPT ![s] = Resting]
  BY DEF Crash
<1>2. GoesOn(s, Resting)
  BY RestingGoesOn
<1>3. ~ At(s, "make") => history' = history
  BY DEF Crash, Lose
<1> QED
  BY <1>1, <1>2, <1>3, StopsInHand, SweepsPast

LEMMA HandOnStep == ASSUME RepeatInv, NEW s \in Sweepers, HandOn(s) PROVE RepeatInv'
<1>1. sweep[s].card \in Ids /\ sweep \in [Sweepers -> SweepState] /\ At(s, "hand")
  BY DEF HandOn, RepeatInv, RepeatTypes, SweepIsSound, At, SweepState
<1>2. PICK c \in Ids : c = sweep[s].card
  BY <1>1
<1>3. CASE ~ Carries(c)
  <2>1. Continue(s, sweep[s].todo) /\ UNCHANGED <<now, rows, history, page, edit>>
    BY <1>2, <1>3 DEF HandOn
  <2>2. \E new : GoesOn(s, new) /\ sweep' = [sweep EXCEPT ![s] = new]
    BY <2>1, ContinueGoesOn
  <2> QED
    BY <1>1, <2>1, <2>2, SweepsPast DEF At
<1>4. CASE Carries(c)
  <2>1. /\ rows' = [rows EXCEPT ![c] = [@ EXCEPT !.every = Off, !.anchor = NoDate, !.next = NoDate]]
        /\ history' = [history EXCEPT ![c].handed = @ + 1]
        /\ sweep' = [sweep EXCEPT ![s].step = "make"]
        /\ UNCHANGED <<now, page, edit>>
    BY <1>2, <1>4 DEF HandOn, Take
  <2>2. /\ DOMAIN rows' = DOMAIN rows /\ c \in DOMAIN rows
        /\ rows' \in [DOMAIN rows -> Row] /\ rows'[c].every = Off
        /\ \A d \in DOMAIN rows \ {c} : rows'[d] = rows[d]
    <3>1. rows \in [DOMAIN rows -> Row]
      BY DEF RepeatInv, RepeatTypes
    <3> QED
      BY <1>4, <2>1, <3>1 DEF Carries, Row, Dates
  <2>3. /\ Ids' = Ids /\ history' \in [Ids -> History]
        /\ \A d \in Ids : /\ history'[d].from = history[d].from /\ history'[d].at = history[d].at
                          /\ history'[d].asked = history[d].asked /\ history'[d].stale = history[d].stale
                          /\ history'[d].lost = history[d].lost /\ history'[d].torn = history[d].torn
                          /\ history'[d].touched = history[d].touched
                          /\ history'[d].handed = history[d].handed + (IF d = c THEN 1 ELSE 0)
    <3>1. history \in [Ids -> History]
      BY DEF RepeatInv, RepeatTypes
    <3> QED
      BY <2>1, <3>1 DEF Ids, History
  <2>4. /\ sweep' \in [Sweepers -> SweepState] /\ \A t \in Sweepers \ {s} : sweep'[t] = sweep[t]
        /\ sweep'[s].step = "make" /\ sweep'[s].card = c /\ sweep'[s].todo = sweep[s].todo
        /\ sweep'[s].at = sweep[s].at /\ sweep'[s].held = sweep[s].held
    BY <1>1, <1>2, <2>1 DEF SweepState
  <2>5. RepeatTypes'
    <3>1. SweepState' = SweepState /\ EditState' = EditState
      BY <2>3 DEF SweepState, EditState
    <3>2. DOMAIN history' = DOMAIN history
      BY <2>3 DEF Ids
    <3> QED
      BY <2>1, <2>2, <2>3, <2>4, <3>1, <3>2 DEF RepeatInv, RepeatTypes
  <2>6. ASSUME NEW t \in Sweepers PROVE SweepIsSound(t)'
    BY <1>1, <2>1, <2>4 DEF RepeatInv, SweepIsSound, At, Planned
  <2>7. FromIsReal' /\ NoPileUp'
    BY <2>3 DEF RepeatInv, FromIsReal, NoPileUp
  <2>8. DueLater'
    BY <2>2, <2>3 DEF RepeatInv, DueLater, LeftAlone, Carries, RepeatTypes
  <2>9. Series'
    BY <2>1, <2>2, <2>3 DEF RepeatInv, Series, Planned, Regular, OnGrid, RepeatTypes
  <2>10. TakenOnce'
    <3>1. ASSUME NEW d \in Ids
          PROVE  history'[d].handed + (IF Carries(d)' THEN 1 ELSE 0) <= history'[d].asked + history'[d].stale
      <4>1. history[d].handed + (IF Carries(d) THEN 1 ELSE 0) <= history[d].asked + history[d].stale
        BY DEF RepeatInv, TakenOnce
      <4>2. history[d].handed \in Nat /\ history[d].asked \in Nat /\ history[d].stale \in Nat
        BY DEF RepeatInv, RepeatTypes, History
      <4>3. CASE d = c
        <5>1. ~ Carries(d)'
          BY <4>3, <2>2 DEF Carries
        <5> QED
          BY <4>1, <4>2, <4>3, <1>4, <2>3, <5>1
      <4>4. CASE d # c
        <5>1. Carries(d)' <=> Carries(d)
          BY <4>4, <2>2 DEF Carries
        <5> QED
          BY <4>1, <4>2, <4>4, <2>3, <5>1
      <4> QED
        BY <4>3, <4>4
    <3> QED
      BY <2>3, <3>1 DEF TakenOnce
  <2>11. SweptLater'
    BY <1>1, <1>2, <2>3, <2>4 DEF RepeatInv, SweptLater, LeftAlone, At
  <2>12. NothingFallsBetween'
    <3>1. \A d \in Ids : MadeFrom(d)' = MadeFrom(d)
      BY <2>3 DEF MadeFrom
    <3>2. \A d \in Ids \ {c} : Hands(d)' = Hands(d)
      BY <1>1, <1>2, <2>4 DEF Hands, At
    <3>3. Hands(c)' = Hands(c) \cup {s} /\ s \notin Hands(c)
      BY <1>1, <1>2, <2>4 DEF Hands, At
    <3>4. Cardinality(Hands(c)') = Cardinality(Hands(c)) + 1
      BY <3>3, HandsAreFinite, FS_AddElement
    <3>5. \A d \in Ids : Cardinality(MadeFrom(d)) \in Nat /\ Cardinality(Hands(d)) \in Nat
                         /\ history[d] \in History
      BY HandsAreFinite DEF RepeatInv, RepeatTypes
    <3>6. \A d \in Ids : history[d].handed = Cardinality(MadeFrom(d)) + history[d].lost + Cardinality(Hands(d))
      BY Counting DEF RepeatInv
    <3>7. ASSUME NEW d \in Ids
          PROVE  history'[d].handed = Cardinality(MadeFrom(d)') + history'[d].lost + Cardinality(Hands(d)')
      <4>1. history[d].lost \in Nat /\ history[d].handed \in Nat
        BY <3>5 DEF History
      <4> QED
        BY <2>3, <3>1, <3>2, <3>4, <3>5, <3>6, <4>1
    <3> QED
      BY <2>3, <3>7, CountingThen
  <2> QED
    BY <2>5, <2>6, <2>7, <2>8, <2>9, <2>10, <2>11, <2>12 DEF RepeatInv
<1> QED
  BY <1>3, <1>4

-----------------------------------------------------------------------------
(* A card is inserted under a fresh id.                                       *)
LEMMA Inserted ==
  ASSUME RepeatInv, NEW row \in Row, Planned(row), Regular(row), NEW story \in History, Insert(row, story),
         story.from \in Ids \cup {0}, story.handed = 0, story.lost = 0,
         story.asked = (IF row.every = Off THEN 0 ELSE 1), story.stale = 0,
         story.from # 0 => row.next > story.at,
         UNCHANGED <<now, page, edit>>
  PROVE  \E id \in Nat :
           /\ id # 0 /\ id \notin Ids /\ Ids' = Ids \cup {id} /\ id \in DOMAIN rows'
           /\ history'[id] = story /\ rows'[id] = row
           /\ \A d \in Ids : history'[d] = history[d]
           /\ \A d \in DOMAIN rows : d \in DOMAIN rows' /\ rows'[d] = rows[d]
           /\ sweep' \in [Sweepers -> SweepState] => RepeatTypes'
           /\ FromIsReal' /\ Series' /\ TakenOnce' /\ DueLater'
<1>1. PICK n \in Nat : /\ Ids = 1..n /\ Cardinality(Ids) = n /\ Ids \cup {n + 1} = 1..(n + 1)
  BY IdsInOrder DEF RepeatInv
<1> DEFINE id == Cardinality(Ids) + 1
<1>2. id = n + 1 /\ id \in Nat /\ id # 0 /\ id \notin Ids
  BY <1>1
<1>3. /\ rows \in [DOMAIN rows -> Row] /\ history \in [Ids -> History] /\ DOMAIN rows \subseteq Ids
  BY DEF RepeatInv, RepeatTypes
<1>4. /\ rows' = [c \in DOMAIN rows \cup {id} |-> IF c = id THEN row ELSE rows[c]]
      /\ history' = [c \in Ids \cup {id} |-> IF c = id THEN story ELSE history[c]]
  BY DEF Insert
<1> HIDE DEF id
<1>5. /\ Ids' = Ids \cup {id} /\ history'[id] = story /\ history' \in [Ids' -> History]
      /\ \A d \in Ids : history'[d] = history[d]
  BY <1>2, <1>3, <1>4 DEF Ids
<1>6. /\ DOMAIN rows' = DOMAIN rows \cup {id} /\ rows'[id] = row /\ rows' \in [DOMAIN rows' -> Row]
      /\ \A d \in DOMAIN rows : d \in DOMAIN rows' /\ rows'[d] = rows[d]
  BY <1>2, <1>3, <1>4
<1>7. sweep' \in [Sweepers -> SweepState] => RepeatTypes'
  <2>1. ASSUME sweep' \in [Sweepers -> SweepState] PROVE sweep' \in [Sweepers -> SweepState']
    <3>1. SweepState \subseteq SweepState'
      BY <1>5 DEF SweepState
    <3> QED
      BY <2>1, <3>1
  <2>e. edit' \in [Edits -> EditState']
    <3>1. EditState \subseteq EditState'
      BY <1>5 DEF EditState
    <3> QED
      BY <3>1 DEF RepeatInv, RepeatTypes
  <2>2. DOMAIN history' = 1..(n + 1) /\ n + 1 \in Nat
    BY <1>1, <1>2, <1>5 DEF Ids
  <2>3. DOMAIN rows' \subseteq Ids'
    BY <1>3, <1>5, <1>6
  <2> QED
    BY <1>5, <1>6, <2>1, <2>e, <2>2, <2>3 DEF RepeatInv, RepeatTypes
<1>8. FromIsReal'
  BY <1>5 DEF RepeatInv, FromIsReal
<1>9. Series'
  <2>1. \A e \in Edits : edit'[e] = edit[e]
    OBVIOUS
  <2>2. ASSUME NEW c \in DOMAIN rows' PROVE Planned(rows'[c]) /\ (~ history'[c].torn => Regular(rows'[c]))
    <3>1. CASE c = id
      BY <3>1, <1>6
    <3>2. CASE c # id
      BY <3>2, <1>3, <1>5, <1>6 DEF RepeatInv, Series
    <3> QED
      BY <3>1, <3>2
  <2>3. ASSUME NEW e \in Edits
        PROVE  Planned(edit[e].read)
                 /\ (edit[e].card \in Ids' /\ ~ history'[edit[e].card].torn => Regular(edit[e].read))
    <3>1. edit[e].card \in Ids \cup {0}
      BY DEF RepeatInv, RepeatTypes, EditState
    <3>2. edit[e].card \in Ids' => edit[e].card \in Ids /\ history'[edit[e].card] = history[edit[e].card]
      BY <3>1, <1>2, <1>5
    <3> QED
      BY <3>2 DEF RepeatInv, Series
  <2> QED
    BY <2>1, <2>2, <2>3 DEF Series
<1>10. TakenOnce'
  <2>1. ASSUME NEW d \in Ids'
        PROVE  history'[d].handed + (IF Carries(d)' THEN 1 ELSE 0) <= history'[d].asked + history'[d].stale
    <3>1. CASE d = id
      <4>1. Carries(d)' <=> row.every # Off
        BY <3>1, <1>6 DEF Carries
      <4> QED
        BY <3>1, <4>1, <1>5
    <3>2. CASE d # id
      <4>1. Carries(d)' <=> Carries(d)
        BY <3>2, <1>6 DEF Carries
      <4> QED
        BY <3>2, <4>1, <1>5 DEF RepeatInv, TakenOnce
    <3> QED
      BY <3>1, <3>2
  <2> QED
    BY <2>1 DEF TakenOnce
<1>11. DueLater'
  BY <1>3, <1>5, <1>6 DEF RepeatInv, DueLater, LeftAlone, Carries
<1> QED
  BY <1>2, <1>5, <1>6, <1>7, <1>8, <1>9, <1>10, <1>11

LEMMA NoPileUpThen ==
  ASSUME RepeatInv, NEW id, id \notin Ids, Ids' = Ids \cup {id}, \A d \in Ids : history'[d] = history[d],
         LET c == history'[id].from
         IN (c # 0 => c \in Ids) /\ (c # 0 /\ LeftAlone(c) => history'[id].at > history[c].at)
  PROVE  NoPileUp'
<1> SUFFICES ASSUME NEW d \in Ids', history'[d].from # 0, history'[history'[d].from].from # 0,
                    ~ history'[history'[d].from].touched
             PROVE  history'[d].at > history'[history'[d].from].at
  BY DEF NoPileUp
<1>1. CASE d = id
  BY <1>1 DEF LeftAlone
<1>2. CASE d # id
  BY <1>2 DEF RepeatInv, NoPileUp, FromIsReal
<1> QED
  BY <1>1, <1>2

LEMMA MakeNextStep == ASSUME RepeatInv, NEW s \in Sweepers, MakeNext(s) PROVE RepeatInv'
<1> DEFINE held == sweep[s].held
           plan == PlanNextCard(held, sweep[s].at)
           row  == [every |-> held.every, anchor |-> held.anchor, due |-> plan.due,
                    next |-> plan.next, archived |-> FALSE]
           story == Born(sweep[s].card, sweep[s].at, held.every)
<1>1. /\ At(s, "make") /\ Insert(row, story) /\ UNCHANGED <<now, page, edit>>
      /\ Continue(s, sweep[s].todo)
  BY DEF MakeNext
<1>2. /\ sweep \in [Sweepers -> SweepState] /\ sweep[s] \in SweepState
      /\ sweep[s].card \in Ids /\ sweep[s].card # 0
      /\ sweep[s].at \in Nat /\ sweep[s].at <= MaxTime
      /\ held \in Row /\ held.every # Off /\ Planned(held)
  BY <1>1, TimeAssumption DEF RepeatInv, RepeatTypes, SweepIsSound, SweepState, At
<1>3. PICK new : GoesOn(s, new) /\ sweep' = [sweep EXCEPT ![s] = new]
  BY <1>1, ContinueGoesOn
<1>4. row \in Row /\ Planned(row) /\ Regular(row) /\ row.next > sweep[s].at
  BY <1>2, PlanIsRegular
<1>5. PICK c \in Ids : c = sweep[s].card
  BY <1>2
<1>6. PICK at \in Nat : at = sweep[s].at
  BY <1>2
<1>7. /\ story \in History /\ story.from = c /\ story.at = at /\ story.handed = 0 /\ story.lost = 0
      /\ story.asked = 1 /\ story.stale = 0 /\ row.every # Off /\ c # 0
  <2>1. c \in Nat
    BY IdsInOrder DEF RepeatInv
  <2> HIDE DEF plan
  <2> QED
    BY <1>2, <1>5, <1>6, <2>1 DEF Born, History
<1> HIDE DEF row, story
<1>8. PICK id \in Nat :
        /\ id # 0 /\ id \notin Ids /\ Ids' = Ids \cup {id}
        /\ history'[id] = story
        /\ \A d \in Ids : history'[d] = history[d]
        /\ sweep' \in [Sweepers -> SweepState] => RepeatTypes'
        /\ FromIsReal' /\ Series' /\ TakenOnce' /\ DueLater'
  BY <1>1, <1>4, <1>6, <1>7, Inserted
<1>9. /\ sweep' \in [Sweepers -> SweepState] /\ sweep'[s] = new
      /\ \A t \in Sweepers \ {s} : sweep'[t] = sweep[t]
  BY <1>2, <1>3 DEF GoesOn
<1>10. ASSUME NEW t \in Sweepers PROVE SweepIsSound(t)'
  BY <1>1, <1>3, <1>9 DEF RepeatInv, SweepIsSound, At, Planned, GoesOn
<1>11. SweptLater'
  <2> SUFFICES ASSUME NEW t \in Sweepers, NEW d \in Ids', LeftAlone(d)',
                      d \in sweep'[t].todo \/ (sweep'[t].step \in {"hand", "make"} /\ sweep'[t].card = d)
               PROVE  sweep'[t].at > history'[d].at
    BY DEF SweptLater
  <2>1. sweep[t] \in SweepState
    BY <1>2
  <2>2. CASE t = s
    <3>1. d \in new.todo /\ new.todo \subseteq sweep[s].todo /\ new.at = sweep[s].at
      BY <2>2, <1>3, <1>9 DEF GoesOn
    <3>2. d \in Ids
      BY <3>1, <1>2 DEF SweepState
    <3> QED
      BY <2>2, <3>1, <3>2, <1>8, <1>9 DEF RepeatInv, SweptLater, LeftAlone
  <2>3. CASE t # s
    <3>1. d \in Ids
      BY <2>1, <2>3, <1>8, <1>9 DEF SweepState
    <3> QED
      BY <2>3, <3>1, <1>8, <1>9 DEF RepeatInv, SweptLater, LeftAlone
  <2> QED
    BY <2>2, <2>3
<1>12. NoPileUp'
  <2>1. LeftAlone(c) => at > history[c].at
    BY <1>1, <1>5, <1>6 DEF RepeatInv, SweptLater, At
  <2> QED
    BY <2>1, <1>7, <1>8, NoPileUpThen
<1>13. NothingFallsBetween'
  <2>1. MadeFrom(c)' = MadeFrom(c) \cup {id} /\ id \notin MadeFrom(c)
    BY <1>7, <1>8 DEF MadeFrom
  <2>2. \A d \in Ids \ {c} : MadeFrom(d)' = MadeFrom(d)
    BY <1>7, <1>8 DEF MadeFrom
  <2>3. MadeFrom(id)' = {}
    BY <1>5, <1>7, <1>8 DEF MadeFrom, RepeatInv, FromIsReal
  <2>4. Hands(c)' = Hands(c) \ {s} /\ s \in Hands(c)
    BY <1>1, <1>3, <1>5, <1>9 DEF Hands, At, GoesOn
  <2>5. \A d \in Ids \ {c} : Hands(d)' = Hands(d)
    BY <1>1, <1>3, <1>5, <1>9 DEF Hands, At, GoesOn
  <2>6. Hands(id)' = {}
    <3>1. \A t \in Sweepers : sweep[t].card \in Ids \cup {0}
      BY <1>2 DEF SweepState
    <3> QED
      BY <1>3, <1>8, <1>9, <3>1 DEF Hands, At, GoesOn
  <2>7. /\ Cardinality(Hands(c)') = Cardinality(Hands(c)) - 1
        /\ Cardinality(MadeFrom(c)') = Cardinality(MadeFrom(c)) + 1
    <3>1. IsFiniteSet(Hands(c)) /\ IsFiniteSet(MadeFrom(c))
      BY HandsAreFinite DEF RepeatInv
    <3>2. Cardinality(Hands(c)') = Cardinality(Hands(c)) - 1
      BY <2>4, <3>1, FS_RemoveElement
    <3>3. Cardinality(MadeFrom(c)') = Cardinality(MadeFrom(c)) + 1
      BY <2>1, <3>1, FS_AddElement
    <3> QED
      BY <3>2, <3>3
  <2>8. Cardinality({}) = 0
    BY FS_EmptySet
  <2>9. \A d \in Ids : Cardinality(MadeFrom(d)) \in Nat /\ Cardinality(Hands(d)) \in Nat
                       /\ history[d] \in History
    BY HandsAreFinite DEF RepeatInv, RepeatTypes
  <2>10. \A d \in Ids : history[d].handed = Cardinality(MadeFrom(d)) + history[d].lost + Cardinality(Hands(d))
    BY Counting DEF RepeatInv
  <2>11. ASSUME NEW d \in Ids'
         PROVE  history'[d].handed = Cardinality(MadeFrom(d)') + history'[d].lost + Cardinality(Hands(d)')
    <3>1. CASE d = id
      BY <3>1, <2>3, <2>6, <2>8, <1>7, <1>8
    <3>2. CASE d # id
      <4>1. d \in Ids /\ history'[d] = history[d]
        BY <3>2, <1>8
      <4>2. history[d].lost \in Nat /\ history[d].handed \in Nat
        BY <4>1, <2>9 DEF History
      <4> QED
        BY <4>1, <4>2, <2>2, <2>5, <2>7, <2>9, <2>10
    <3> QED
      BY <3>1, <3>2
  <2> QED
    BY <2>11, CountingThen
<1> QED
  BY <1>8, <1>9, <1>10, <1>11, <1>12, <1>13 DEF RepeatInv

LEMMA CreateStep ==
  ASSUME RepeatInv, NEW every \in Offered, NEW due \in Picks, Create(every, due)
  PROVE  RepeatInv'
<1> DEFINE row   == New(every, due)
           story == Born(0, 0, every)
<1>1. Insert(row, story) /\ UNCHANGED <<now, sweep, page, edit>>
  BY DEF Create
<1>2. row \in Row /\ Planned(row) /\ Regular(row) /\ row.every = every
  BY NewIsRegular DEF RepeatInv, RepeatTypes
<1>3. /\ story \in History /\ story.from = 0 /\ story.handed = 0 /\ story.lost = 0 /\ story.stale = 0
      /\ story.asked = (IF every = Off THEN 0 ELSE 1)
  BY DEF Born, History
<1> HIDE DEF row, story
<1>4. PICK id \in Nat :
        /\ id # 0 /\ id \notin Ids /\ Ids' = Ids \cup {id}
        /\ history'[id] = story
        /\ \A d \in Ids : history'[d] = history[d]
        /\ sweep' \in [Sweepers -> SweepState] => RepeatTypes'
        /\ FromIsReal' /\ Series' /\ TakenOnce' /\ DueLater'
  BY <1>1, <1>2, <1>3, Inserted
<1>5. sweep' \in [Sweepers -> SweepState] /\ \A t \in Sweepers : sweep[t] \in SweepState
  BY <1>1 DEF RepeatInv, RepeatTypes
<1>6. ASSUME NEW t \in Sweepers PROVE SweepIsSound(t)'
  BY <1>1 DEF RepeatInv, SweepIsSound, At, Planned
<1>7. SweptLater'
  <2> SUFFICES ASSUME NEW t \in Sweepers, NEW d \in Ids', LeftAlone(d)',
                      d \in sweep[t].todo \/ (sweep[t].step \in {"hand", "make"} /\ sweep[t].card = d)
               PROVE  sweep[t].at > history'[d].at
    BY <1>1 DEF SweptLater
  <2>1. d \in Ids
    BY <1>4, <1>5 DEF SweepState
  <2> QED
    BY <2>1, <1>4 DEF RepeatInv, SweptLater, LeftAlone
<1>8. NoPileUp'
  BY <1>3, <1>4, NoPileUpThen
<1>9. NothingFallsBetween'
  <2>1. \A d \in Ids : MadeFrom(d)' = MadeFrom(d) /\ Hands(d)' = Hands(d)
    <3>1. 0 \notin Ids
      BY IdsInOrder DEF RepeatInv
    <3> QED
      BY <3>1, <1>1, <1>3, <1>4 DEF MadeFrom, Hands, At
  <2>2. MadeFrom(id)' = {}
    BY <1>3, <1>4 DEF MadeFrom, RepeatInv, FromIsReal
  <2>3. Hands(id)' = {}
    BY <1>1, <1>4, <1>5 DEF Hands, At, SweepState
  <2>4. Cardinality({}) = 0
    BY FS_EmptySet
  <2>5. ASSUME NEW d \in Ids'
        PROVE  history'[d].handed = Cardinality(MadeFrom(d)') + history'[d].lost + Cardinality(Hands(d)')
    <3>1. CASE d = id
      BY <3>1, <2>2, <2>3, <2>4, <1>3, <1>4
    <3>2. CASE d # id
      BY <3>2, <2>1, <1>4, Counting DEF RepeatInv
    <3> QED
      BY <3>1, <3>2
  <2> QED
    BY <2>5, CountingThen
<1> QED
  BY <1>4, <1>5, <1>6, <1>7, <1>8, <1>9 DEF RepeatInv

-----------------------------------------------------------------------------
(* The steps of people and agents that touch no sweep and make no card.       *)
LEMMA PeopleStep ==
  ASSUME RepeatInv, RepeatTypes', Series', UNCHANGED sweep, now <= now',
         Ids' = Ids, DOMAIN rows' \subseteq DOMAIN rows,
         \A d \in Ids : /\ history'[d].from = history[d].from /\ history'[d].at = history[d].at
                        /\ history'[d].handed = history[d].handed /\ history'[d].lost = history[d].lost
                        /\ history[d].touched => history'[d].touched,
         \A d \in DOMAIN rows' : LeftAlone(d)' => rows'[d].every = rows[d].every /\ rows'[d].next = rows[d].next,
         \A d \in Ids :
           IF Carries(d)' /\ ~ Carries(d)
             THEN history'[d].asked + history'[d].stale = history[d].asked + history[d].stale + 1
             ELSE history'[d].asked = history[d].asked /\ history'[d].stale = history[d].stale
  PROVE  RepeatInv'
<1>1. \A d \in Ids : LeftAlone(d)' => LeftAlone(d)
  BY DEF LeftAlone
<1>2. ASSUME NEW s \in Sweepers PROVE SweepIsSound(s)'
  <2>1. sweep[s].at \in Nat /\ now \in Nat /\ now' \in Nat
    BY DEF RepeatInv, RepeatTypes, SweepState
  <2> QED
    BY <2>1 DEF RepeatInv, SweepIsSound, At, Planned
<1>3. FromIsReal'
  BY DEF RepeatInv, FromIsReal
<1>4. NoPileUp'
  BY DEF RepeatInv, NoPileUp, FromIsReal
<1>5. DueLater'
  BY <1>1 DEF RepeatInv, RepeatTypes, DueLater, Carries
<1>6. SweptLater'
  BY <1>1 DEF RepeatInv, SweptLater
<1>7. TakenOnce'
  <2>1. ASSUME NEW d \in Ids
        PROVE  history'[d].handed + (IF Carries(d)' THEN 1 ELSE 0) <= history'[d].asked + history'[d].stale
    <3>1. history[d].handed + (IF Carries(d) THEN 1 ELSE 0) <= history[d].asked + history[d].stale
      BY DEF RepeatInv, TakenOnce
    <3>2. history[d].handed \in Nat /\ history[d].asked \in Nat /\ history[d].stale \in Nat
      BY DEF RepeatInv, RepeatTypes, History
    <3> QED
      BY <3>1, <3>2
  <2> QED
    BY <2>1 DEF TakenOnce
<1>8. NothingFallsBetween'
  <2>1. \A d \in Ids : MadeFrom(d)' = MadeFrom(d) /\ Hands(d)' = Hands(d)
    BY DEF MadeFrom, Hands, At
  <2> QED
    BY <2>1, Counting, CountingThen DEF RepeatInv
<1> QED
  BY <1>2, <1>3, <1>4, <1>5, <1>6, <1>7, <1>8 DEF RepeatInv

LEMMA LoadStep == ASSUME RepeatInv, NEW v \in Pages, NEW c \in Ids, Load(v, c) PROVE RepeatInv'
<1>1. /\ page' = [page EXCEPT ![v] = [card |-> c, every |-> rows[c].every, due |-> rows[c].due]]
      /\ c \in DOMAIN rows /\ UNCHANGED <<now, rows, history, sweep, edit>>
  BY DEF Load
<1>2. [card |-> c, every |-> rows[c].every, due |-> rows[c].due] \in PageState
  BY <1>1, IdsInOrder DEF RepeatInv, RepeatTypes, PageState, Row
<1>3. RepeatTypes'
  BY <1>1, <1>2 DEF RepeatInv, RepeatTypes, SweepState, EditState, Ids
<1>4. Series'
  BY <1>1 DEF RepeatInv, Series, Ids
<1>5. now \in Nat
  BY DEF RepeatInv, RepeatTypes
<1> QED
  BY <1>1, <1>3, <1>4, <1>5, PeopleStep DEF Ids, Carries

LEMMA ReceiveStep ==
  ASSUME RepeatInv, NEW e \in Edits, NEW c, NEW every \in Offered \cup {Absent}, NEW due \in Dates \cup {Absent},
         NEW chosen \in BOOLEAN, Receive(e, c, every, due, chosen),
         page' \in [Pages -> PageState], UNCHANGED <<now, rows, history, sweep>>
  PROVE  RepeatInv'
<1> DEFINE new == [card |-> c, every |-> every, due |-> due, chosen |-> chosen, read |-> rows[c]]
<1>1. c \in DOMAIN rows /\ edit' = [edit EXCEPT ![e] = new] /\ c \in Ids
  BY DEF Receive, RepeatInv, RepeatTypes
<1>2. new \in EditState
  BY <1>1 DEF RepeatInv, RepeatTypes, EditState, Offered
<1>3. new.card = c /\ new.read = rows[c]
  OBVIOUS
<1> HIDE DEF new
<1>4. edit \in [Edits -> EditState]
  BY DEF RepeatInv, RepeatTypes
<1>5. RepeatTypes'
  BY <1>1, <1>2, <1>4 DEF RepeatInv, RepeatTypes, SweepState, EditState, Ids
<1>6. Series'
  <2>1. \A d \in DOMAIN rows : Planned(rows[d]) /\ (~ history[d].torn => Regular(rows[d]))
    BY DEF RepeatInv, Series
  <2>2. ASSUME NEW f \in Edits
        PROVE  Planned(edit'[f].read)
                 /\ (edit'[f].card \in Ids /\ ~ history[edit'[f].card].torn => Regular(edit'[f].read))
    <3>1. CASE f = e
      BY <3>1, <1>1, <1>3, <1>4, <2>1
    <3>2. CASE f # e
      BY <3>2, <1>1, <1>4 DEF RepeatInv, Series
    <3> QED
      BY <3>1, <3>2
  <2> QED
    BY <2>1, <2>2 DEF Series, Ids
<1>7. now \in Nat
  BY DEF RepeatInv, RepeatTypes
<1> QED
  BY <1>5, <1>6, <1>7, PeopleStep DEF Ids, Carries

LEMMA SaveStep ==
  ASSUME RepeatInv, NEW v \in Pages, NEW e \in Edits, NEW every \in Offered, NEW due \in Picks \cup {page[v].due},
         Save(v, e, every, due)
  PROVE  RepeatInv'
<1>1. page \in [Pages -> PageState]
  BY DEF RepeatInv, RepeatTypes
<1>2. due \in Dates
  BY <1>1, DateAssumption DEF Picks, Dates, PageState
<1>3. page' \in [Pages -> PageState]
  BY <1>1, <1>2 DEF Save, PageState, Offered
<1> QED
  BY <1>2, <1>3, ReceiveStep DEF Save

LEMMA ToolEditStep ==
  ASSUME RepeatInv, NEW e \in Edits, NEW c \in Ids, NEW every \in Offered \cup {Absent},
         NEW due \in Picks \cup {Absent}, ToolEdit(e, c, every, due)
  PROVE  RepeatInv'
<1>1. due \in Dates \cup {Absent}
  BY DateAssumption DEF Picks, Dates
<1>2. page' \in [Pages -> PageState]
  BY DEF ToolEdit, RepeatInv, RepeatTypes
<1> QED
  BY <1>1, <1>2, ReceiveStep DEF ToolEdit

LEMMA NoEditType == RepeatInv => NoEdit \in EditState /\ NoEdit.card = 0 /\ NoEdit.read = NoRow /\ 0 \notin Ids
<1>1. RepeatInv => 0 \notin Ids
  BY IdsInOrder DEF RepeatInv
<1> QED
  BY <1>1, RestingType DEF NoEdit, EditState

(* An UPDATE takes the row to what the edit made of the row it had read.      *)
LEMMA UpdateStep ==
  ASSUME RepeatInv, NEW e \in Edits, NEW c \in DOMAIN rows, NEW req \in EditState,
         edit[e] = req, req.card = c, Update(c, req), edit' = [edit EXCEPT ![e] = NoEdit],
         UNCHANGED <<now, sweep>>
  PROVE  RepeatInv'
<1> DEFINE due     == IF req.due = Absent THEN req.read.due ELSE req.due
           changed == due # req.read.due
           repeat  == RepeatAfterEdit(req.read, req.every, due, changed)
           row     == [rows[c] EXCEPT !.every = repeat.every, !.anchor = repeat.anchor,
                                      !.next = repeat.next,
                                      !.due = IF req.due = Absent THEN @ ELSE req.due]
           given   == rows[c].every = Off /\ repeat.every # Off
<1>b. /\ edit \in [Edits -> EditState] /\ req.read \in Row
      /\ req.every \in Rhythms \cup {Off, Absent} /\ req.due \in Dates \cup {Absent}
      /\ rows \in [DOMAIN rows -> Row] /\ history \in [Ids -> History]
      /\ page \in [Pages -> PageState]
      /\ now \in Nat /\ DOMAIN rows \subseteq Ids /\ Planned(req.read)
      /\ (~ history[c].torn => Regular(req.read))
  BY DEF RepeatInv, RepeatTypes, EditState, Series
<1>c. due \in Dates
  BY <1>b DEF Row
<1>e. edit' \in [Edits -> EditState] /\ edit'[e] = NoEdit /\ \A f \in Edits \ {e} : edit'[f] = edit[f]
  BY <1>b, NoEditType
<1>1. /\ rows' = [rows EXCEPT ![c] = row]
      /\ history' = [history EXCEPT
           ![c].asked = @ + (IF given /\ req.chosen THEN 1 ELSE 0),
           ![c].stale = @ + (IF given /\ ~ req.chosen THEN 1 ELSE 0),
           ![c].touched = TRUE,
           ![c].torn = @ \/ row.due # due]
      /\ page' = [v \in Pages |->
           IF page[v].card = c THEN [page[v] EXCEPT !.every = row.every, !.due = row.due] ELSE page[v]]
  BY DEF Update
<1>2. /\ repeat \in [every : Rhythms \cup {Off}, anchor : Dates, next : Dates]
      /\ \A r \in Row : (r.every = repeat.every /\ r.anchor = repeat.anchor /\ r.next = repeat.next) =>
           /\ Planned(r)
           /\ (Regular(req.read) /\ r.due = due) => Regular(r)
  <2>1. changed \in BOOLEAN /\ (~ changed => due = req.read.due)
    OBVIOUS
  <2>2. PICK read \in Row, asked \in Rhythms \cup {Off, Absent}, date \in Dates, ch \in BOOLEAN :
          read = req.read /\ asked = req.every /\ date = due /\ ch = changed
    BY <1>b, <1>c, <2>1
  <2>3. repeat = RepeatAfterEdit(read, asked, date, ch)
    BY <2>2
  <2> HIDE DEF due, changed, repeat
  <2>4. Planned(read) /\ (~ ch => date = read.due) /\ now \in Nat
    BY <1>b, <2>1, <2>2
  <2>5. LET after == RepeatAfterEdit(read, asked, date, ch)
        IN /\ after \in [every : Rhythms \cup {Off}, anchor : Dates, next : Dates]
           /\ \A r \in Row : (r.every = after.every /\ r.anchor = after.anchor /\ r.next = after.next) =>
                /\ Planned(r)
                /\ (Regular(read) /\ r.due = date) => Regular(r)
    BY <2>4, EditIsRegular
  <2> QED
    BY <2>2, <2>3, <2>5
<1>3. rows[c] \in Row /\ c \in Ids /\ history[c] \in History
  BY <1>b
<1> HIDE DEF repeat
<1>4. /\ row \in Row /\ row.every = repeat.every /\ row.anchor = repeat.anchor /\ row.next = repeat.next
      /\ row.due \in Dates
  BY <1>b, <1>2, <1>3 DEF Row
<1>5. Planned(row) /\ (Regular(req.read) /\ row.due = due => Regular(row))
  <2> HIDE DEF row, due
  <2> QED
    BY <1>2, <1>4
<1> HIDE DEF row
<1>6. /\ DOMAIN rows' = DOMAIN rows /\ rows' \in [DOMAIN rows -> Row] /\ rows'[c] = row
      /\ \A d \in DOMAIN rows \ {c} : rows'[d] = rows[d]
  BY <1>b, <1>1, <1>4
<1>7. given \in BOOLEAN /\ req.chosen \in BOOLEAN
  BY <1>b DEF EditState
<1>h. PICK m, n \in {0, 1}, t \in BOOLEAN :
        /\ m = (IF given /\ req.chosen THEN 1 ELSE 0) /\ n = (IF given /\ ~ req.chosen THEN 1 ELSE 0)
        /\ t = (row.due # due)
  OBVIOUS
<1>8. /\ Ids' = Ids /\ history' \in [Ids -> History] /\ \A d \in Ids \ {c} : history'[d] = history[d]
      /\ history'[c].from = history[c].from /\ history'[c].at = history[c].at
      /\ history'[c].handed = history[c].handed /\ history'[c].lost = history[c].lost
      /\ history'[c].touched = TRUE
      /\ history'[c].torn = (history[c].torn \/ t)
      /\ history'[c].asked = history[c].asked + m
      /\ history'[c].stale = history[c].stale + n
  <2>1. history' = [history EXCEPT ![c].asked = @ + m, ![c].stale = @ + n, ![c].touched = TRUE,
                                   ![c].torn = @ \/ t]
    BY <1>1, <1>h
  <2>2. history \in [DOMAIN history -> History] /\ c \in DOMAIN history
    BY <1>b, <1>3 DEF Ids
  <2> QED
    BY <2>1, <2>2 DEF Ids, History
<1>9. page' \in [Pages -> PageState]
  BY <1>b, <1>1, <1>2, <1>4 DEF PageState
<1>10. RepeatTypes'
  <2>1. SweepState' = SweepState /\ EditState' = EditState /\ DOMAIN history' = DOMAIN history
    BY <1>8 DEF SweepState, EditState, Ids
  <2> QED
    BY <1>e, <1>6, <1>8, <1>9, <2>1 DEF RepeatInv, RepeatTypes
<1>11. Series'
  <2>1. ASSUME NEW d \in DOMAIN rows'
        PROVE  Planned(rows'[d]) /\ (~ history'[d].torn => Regular(rows'[d]))
    <3>1. CASE d = c
      BY <3>1, <1>b, <1>h, <1>3, <1>5, <1>6, <1>8
    <3>2. CASE d # c
      BY <3>2, <1>b, <1>6, <1>8 DEF RepeatInv, Series
    <3> QED
      BY <3>1, <3>2
  <2>2. ASSUME NEW f \in Edits
        PROVE  Planned(edit'[f].read)
                 /\ (edit'[f].card \in Ids /\ ~ history'[edit'[f].card].torn => Regular(edit'[f].read))
    <3>1. CASE f = e
      BY <3>1, <1>e, NoEditType, RestingType
    <3>2. CASE f # e
      BY <3>2, <1>e, <1>8 DEF RepeatInv, Series
    <3> QED
      BY <3>1, <3>2
  <2> QED
    BY <2>1, <2>2, <1>8 DEF Series
<1>12. ASSUME NEW d \in DOMAIN rows', LeftAlone(d)' PROVE rows'[d] = rows[d]
  BY <1>6, <1>8, <1>12 DEF LeftAlone
<1>13. ASSUME NEW d \in Ids
       PROVE  IF Carries(d)' /\ ~ Carries(d)
                THEN history'[d].asked + history'[d].stale = history[d].asked + history[d].stale + 1
                ELSE history'[d].asked = history[d].asked /\ history'[d].stale = history[d].stale
  <2>1. CASE d = c
    <3>1. history[c].asked \in Nat /\ history[c].stale \in Nat
      BY <1>3 DEF History
    <3>2. (Carries(c)' /\ ~ Carries(c)) <=> given
      BY <1>4, <1>6 DEF Carries
    <3> HIDE DEF given
    <3> QED
      BY <2>1, <3>1, <3>2, <1>h, <1>7, <1>8
  <2>2. CASE d # c
    BY <2>2, <1>6, <1>8 DEF Carries
  <2> QED
    BY <2>1, <2>2
<1> HIDE DEF due, given
<1> QED
  BY <1>b, <1>6, <1>8, <1>10, <1>11, <1>12, <1>13, PeopleStep

LEMMA WriteStep == ASSUME RepeatInv, NEW e \in Edits, Write(e) PROVE RepeatInv'
<1>1. PICK req \in EditState : req = edit[e]
  BY DEF RepeatInv, RepeatTypes
<1>2. edit' = [edit EXCEPT ![e] = NoEdit] /\ UNCHANGED <<now, sweep>>
  BY DEF Write
<1>3. CASE req.card \in DOMAIN rows
  <2>1. Update(req.card, req)
    BY <1>1, <1>3 DEF Write
  <2> QED
    BY <1>1, <1>2, <1>3, <2>1, UpdateStep
<1>4. CASE req.card \notin DOMAIN rows
  <2>1. UNCHANGED <<rows, history, page>>
    BY <1>1, <1>4 DEF Write
  <2>2. edit' \in [Edits -> EditState] /\ edit'[e] = NoEdit /\ \A f \in Edits \ {e} : edit'[f] = edit[f]
    BY <1>2, NoEditType DEF RepeatInv, RepeatTypes
  <2>3. RepeatTypes'
    BY <2>1, <1>2, <2>2 DEF RepeatInv, RepeatTypes, SweepState, EditState, Ids
  <2>4. Series'
    BY <2>1, <2>2, NoEditType, RestingType DEF RepeatInv, Series, Ids
  <2>5. now \in Nat
    BY DEF RepeatInv, RepeatTypes
  <2> QED
    BY <2>1, <2>3, <2>4, <2>5, <1>2, PeopleStep DEF Ids, Carries
<1> QED
  BY <1>3, <1>4

LEMMA SetArchivedStep ==
  ASSUME RepeatInv, NEW c \in Ids, NEW away \in BOOLEAN, SetArchived(c, away)
  PROVE  RepeatInv'
<1>1. /\ rows' = [rows EXCEPT ![c].archived = away] /\ c \in DOMAIN rows
      /\ UNCHANGED <<now, history, sweep, page, edit>>
  BY DEF SetArchived
<1>2. rows \in [DOMAIN rows -> Row]
  BY DEF RepeatInv, RepeatTypes
<1>3. /\ DOMAIN rows' = DOMAIN rows /\ rows' \in [DOMAIN rows -> Row]
      /\ \A d \in DOMAIN rows : /\ rows'[d].every = rows[d].every /\ rows'[d].next = rows[d].next
                                /\ rows'[d].anchor = rows[d].anchor /\ rows'[d].due = rows[d].due
  BY <1>1, <1>2 DEF Row
<1>4. RepeatTypes'
  BY <1>1, <1>3 DEF RepeatInv, RepeatTypes, SweepState, EditState, Ids
<1>5. Series'
  BY <1>1, <1>3 DEF RepeatInv, Series, Planned, Regular, OnGrid, Ids
<1>6. now \in Nat
  BY DEF RepeatInv, RepeatTypes
<1> QED
  BY <1>1, <1>3, <1>4, <1>5, <1>6, PeopleStep DEF Ids, Carries

LEMMA DestroyStep == ASSUME RepeatInv, NEW c \in Ids, Destroy(c) PROVE RepeatInv'
<1>1. /\ rows' = [d \in DOMAIN rows \ {c} |-> rows[d]] /\ UNCHANGED <<now, history, sweep, page, edit>>
  BY DEF Destroy
<1>2. rows \in [DOMAIN rows -> Row]
  BY DEF RepeatInv, RepeatTypes
<1>3. /\ DOMAIN rows' = DOMAIN rows \ {c} /\ rows' \in [DOMAIN rows' -> Row]
      /\ \A d \in DOMAIN rows' : rows'[d] = rows[d]
  BY <1>1, <1>2
<1>4. RepeatTypes'
  BY <1>1, <1>3 DEF RepeatInv, RepeatTypes, SweepState, EditState, Ids
<1>5. Series'
  BY <1>1, <1>3 DEF RepeatInv, Series, Ids
<1>6. now \in Nat
  BY DEF RepeatInv, RepeatTypes
<1> QED
  BY <1>1, <1>3, <1>4, <1>5, <1>6, PeopleStep DEF Ids, Carries

LEMMA TickStep == ASSUME RepeatInv, Tick PROVE RepeatInv'
<1>1. now' = now + 1 /\ now < MaxTime /\ now \in Nat /\ UNCHANGED <<rows, history, sweep, page, edit>>
  BY DEF Tick, RepeatInv, RepeatTypes
<1>2. RepeatTypes'
  BY <1>1, TimeAssumption DEF RepeatInv, RepeatTypes, SweepState, EditState, Ids
<1>3. Series'
  BY <1>1 DEF RepeatInv, Series, Ids
<1> QED
  BY <1>1, <1>2, <1>3, PeopleStep DEF Ids, Carries

LEMMA RepeatInvStep == RepeatInv /\ [Next]_vars => RepeatInv'
<1> SUFFICES ASSUME RepeatInv, [Next]_vars PROVE RepeatInv'
  OBVIOUS
<1>1. ASSUME NEW s \in Sweepers, Sweep(s) PROVE RepeatInv'
  BY <1>1, ListDueStep, ReadCardStep, HandOnStep, MakeNextStep DEF Sweep
<1>2. ASSUME NEW s \in Sweepers, Fail(s) \/ Crash(s) PROVE RepeatInv'
  BY <1>2, FailStep, CrashStep
<1>3. ASSUME NEW every \in Offered, NEW due \in Picks, Create(every, due) PROVE RepeatInv'
  BY <1>3, CreateStep
<1>4. ASSUME NEW v \in Pages, NEW c \in Ids, Load(v, c) PROVE RepeatInv'
  BY <1>4, LoadStep
<1>5. ASSUME NEW v \in Pages, NEW e \in Edits, NEW every \in Offered, NEW due \in Picks \cup {page[v].due},
             Save(v, e, every, due)
      PROVE  RepeatInv'
  BY <1>5, SaveStep
<1>6. ASSUME NEW e \in Edits, NEW c \in Ids, NEW every \in Offered \cup {Absent}, NEW due \in Picks \cup {Absent},
             ToolEdit(e, c, every, due)
      PROVE  RepeatInv'
  BY <1>6, ToolEditStep
<1>7. ASSUME NEW e \in Edits, Write(e) PROVE RepeatInv'
  BY <1>7, WriteStep
<1>8. ASSUME NEW c \in Ids, NEW away \in BOOLEAN, SetArchived(c, away) PROVE RepeatInv'
  BY <1>8, SetArchivedStep
<1>9. ASSUME NEW c \in Ids, Destroy(c) PROVE RepeatInv'
  BY <1>9, DestroyStep
<1>10. CASE Tick
  BY <1>10, TickStep
<1>11. CASE UNCHANGED vars
  <2>1. RepeatTypes' /\ Series'
    BY <1>11 DEF vars, RepeatInv, RepeatTypes, Series, SweepState, EditState, Ids
  <2>2. now \in Nat
    BY DEF RepeatInv, RepeatTypes
  <2> QED
    BY <1>11, <2>1, <2>2, PeopleStep DEF vars, Ids, Carries
<1> QED
  BY <1>1, <1>2, <1>3, <1>4, <1>5, <1>6, <1>7, <1>8, <1>9, <1>10, <1>11 DEF Next

THEOREM RepeatInvariant == Spec => []RepeatInv
<1>1. Init => RepeatInv
  BY RepeatInitInv
<1>2. RepeatInv /\ [Next]_vars => RepeatInv'
  BY RepeatInvStep
<1> QED
  BY <1>1, <1>2, PTL DEF Spec

LEMMA TakenMeansGiven == RepeatInv => MadeOncePerRhythm
<1> SUFFICES ASSUME RepeatInv, NEW c \in Ids
             PROVE  Cardinality(MadeFrom(c)) <= history[c].asked + history[c].stale
  BY DEF MadeOncePerRhythm
<1>1. /\ history[c].handed + (IF Carries(c) THEN 1 ELSE 0) <= history[c].asked + history[c].stale
      /\ history[c] \in History
  BY DEF RepeatInv, TakenOnce, RepeatTypes
<1>2. history[c].handed = Cardinality(MadeFrom(c)) + history[c].lost + Cardinality(Hands(c))
  BY Counting DEF RepeatInv
<1>3. Cardinality(MadeFrom(c)) \in Nat /\ Cardinality(Hands(c)) \in Nat
  BY HandsAreFinite DEF RepeatInv
<1> QED
  BY <1>1, <1>2, <1>3 DEF History

(* However many sweeps of however many servers overlap, fail and crash, and   *)
(* whatever people and agents do meanwhile, a card has at most one next card  *)
(* for each rhythm it was given, no rhythm is lost but with the sweep that    *)
(* held it, and turns gone by do not pile up (repeatCard.ts, repeat.ts).      *)
THEOREM SeriesNeverBreaks == Spec => []SeriesUnbroken
<1>1. RepeatInv => SeriesUnbroken
  BY TakenMeansGiven DEF SeriesUnbroken, RepeatInv
<1> QED
  BY <1>1, RepeatInvariant, PTL

(* The next turn of a series is a whole number of rhythms from its anchor,    *)
(* unless one edit changed the card's due date while another that did not     *)
(* name it was under way (repeatAfterEdit and planNextCard in repeat.ts).     *)
THEOREM TurnsStayOnTheGrid == Spec => []NextOnGrid
<1>1. RepeatInv => NextOnGrid
  <2> SUFFICES ASSUME RepeatInv, NEW c \in DOMAIN rows, Carries(c), ~ history[c].torn
               PROVE  /\ rows[c].anchor # NoDate /\ rows[c].next # NoDate
                      /\ rows[c].next >= rows[c].anchor
                      /\ (rows[c].next - rows[c].anchor) % rows[c].every = 0
    BY DEF NextOnGrid
  <2>1. /\ rows[c] \in Row /\ rows[c].every # Off
        /\ rows[c].anchor \in Nat /\ rows[c].next \in Nat /\ OnGrid(rows[c], rows[c].next)
    BY DEF RepeatInv, RepeatTypes, Series, Planned, Regular, Carries
  <2>2. PICK a \in Nat, every \in Nat \ {0}, n \in Nat, next \in Nat :
          /\ a = rows[c].anchor /\ every = rows[c].every /\ next = rows[c].next /\ next = a + every * n
    BY <2>1, RhythmAssumption DEF Row, OnGrid, Off
  <2>3. next >= a /\ (next - a) % every = 0
    <3>1. a + every * n >= a /\ (a + every * n - a) % every = 0
      BY WholeRhythms
    <3>2. next = a + every * n
      BY <2>2
    <3> QED
      BY <3>1, <3>2
  <2> QED
    BY <2>1, <2>2, <2>3, DateAssumption
<1> QED
  BY <1>1, RepeatInvariant, PTL

=============================================================================
