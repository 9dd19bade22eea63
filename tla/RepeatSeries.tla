----------------------------- MODULE RepeatSeries -----------------------------
(* Cards that repeat: the sweep that makes the next card of a series, and the *)
(* edits that meet it.  A step is one SQL statement.                          *)
(*   sweeps   repeatDueCards, one at a time in each server, on a schedule and *)
(*            at startup; several servers may share the database              *)
(*   pages    a browser's copy of a card (CardModal, or the board it is       *)
(*            opened from), whose save sends the rhythm and due date it holds *)
(*   edits    card PUT for such a save, or updateCard (MCP) for an agent      *)
(* Dates are ticks; a rhythm is its length in ticks, which is what day, week  *)
(* and twoWeeks are (months are not of one length: see the README).           *)

EXTENDS Naturals, FiniteSets, FiniteSetsExt

CONSTANTS
  Sweepers, Pages, Edits,
  Rhythms,      \* lengths of the rhythms on offer
  DueDates,     \* due dates people pick
  NoDate,       \* a NULL date
  Absent,       \* a field the caller did not send
  Turns,        \* where nextOccurrence stops counting
  MaxTime, MaxDeaths,   \* bounds of the model,
  MaxActs,              \* ... one on how often people and agents act,
  MaxCards              \* ... and the ids that are then enough

Off == 0        \* repeatEvery IS NULL

ASSUME RhythmAssumption == Rhythms \subseteq Nat \ {Off}
ASSUME SweepersAssumption == IsFiniteSet(Sweepers)
(* Nobody waits for as many turns as nextOccurrence counts. *)
ASSUME TimeAssumption == MaxTime \in Nat \ {0} /\ Turns \in Nat /\ MaxTime < Turns
ASSUME DateAssumption == DueDates \subseteq Nat /\ NoDate \notin Nat
ASSUME AbsentAssumption == Absent \notin Nat \cup {NoDate}

VARIABLES
  now,
  rows,      \* the table `cards`: id -> row
  history,   \* id -> what happened to the card (no column holds it)
  sweep, page, edit,
  acts, deaths   \* counted for MaxActs and MaxDeaths

vars == <<now, rows, history, sweep, page, edit, acts, deaths>>

Dates == Nat \cup {NoDate}
Row == [every : Rhythms \cup {Off}, anchor : Dates, due : Dates, next : Dates,
        archived : BOOLEAN]
Ids == DOMAIN history             \* ids given out, of rows and of deleted rows

\* from, at: the card a sweep made it from and that sweep's `now` (0 and 0 for
\* any other card); asked, stale: times it was given a rhythm it did not have,
\* because somebody chose one or because a caller repeated an old value;
\* handed: times a sweep took its rhythm; lost: of those, without a next card;
\* touched: its rhythm or due date was written by an edit; torn: by one that
\* left the due date alone and met another that changed it.
History == [from : Nat, at : Nat, asked : Nat, stale : Nat, handed : Nat,
            lost : Nat, touched : BOOLEAN, torn : BOOLEAN]
Born(from, at, every) ==
  [from |-> from, at |-> at, asked |-> IF every = Off THEN 0 ELSE 1,
   stale |-> 0, handed |-> 0, lost |-> 0, touched |-> FALSE, torn |-> FALSE]

NoRow == [every |-> Off, anchor |-> NoDate, due |-> NoDate, next |-> NoDate,
          archived |-> FALSE]
Resting == [step |-> "idle", todo |-> {}, at |-> 0, card |-> 0, held |-> NoRow]
Turning(todo, at) == [step |-> "card", todo |-> todo, at |-> at, card |-> 0, held |-> NoRow]
Blank == [card |-> 0, every |-> Off, due |-> NoDate]
NoEdit == [card |-> 0, every |-> Absent, due |-> Absent, chosen |-> FALSE,
           read |-> NoRow]

-----------------------------------------------------------------------------
(* repeat.ts *)

(* The first of the series after `after`, counted from the anchor, the anchor *)
(* itself not being one of them; the last one counted if none is later.       *)
NextOccurrence(anchor, every, after) ==
  LET later == {n \in 1..Turns : anchor + n * every > after}
  IN anchor + every * (IF later = {} THEN Turns ELSE Min(later))

(* Variants of a definition, each with one plausible slip, stand before it;   *)
(* the properties below are there to notice them.                             *)
(* A field that was not sent is stored as if it had been.                     *)
StoresWhatWasNotSent(row, requested, due, dueChanged) ==
  [every |-> requested, anchor |-> IF due = NoDate THEN now ELSE due, next |-> due]

(* Without a due date the series restarts from today.                         *)
RestartsFromToday(row, requested, due, dueChanged) ==
  LET every == IF requested = Absent THEN row.every ELSE requested
  IN IF every = Off
       THEN [every |-> Off, anchor |-> NoDate, next |-> NoDate]
       ELSE [every |-> every,
             anchor |-> CASE row.anchor # NoDate /\ ~ dueChanged -> row.anchor
                          [] due # NoDate -> due
                          [] row.anchor # NoDate -> row.anchor
                          [] OTHER -> now,
             next |-> IF due # NoDate THEN due ELSE NextOccurrence(now, every, now)]

RepeatAfterEdit(row, requested, due, dueChanged) ==
  LET every  == IF requested = Absent THEN row.every ELSE requested
      fresh  == every # row.every \/ row.anchor = NoDate
      anchor == CASE due # NoDate /\ (fresh \/ dueChanged) -> due
                  [] due = NoDate /\ fresh -> now
                  [] OTHER -> row.anchor
  IN IF every = Off
       THEN [every |-> Off, anchor |-> NoDate, next |-> NoDate]
       ELSE [every |-> every, anchor |-> anchor,
             next |-> IF due # NoDate THEN due ELSE NextOccurrence(anchor, every, now)]

PlanNextCard(row, at) ==
  IF row.due = NoDate
    THEN [due |-> NoDate, next |-> NextOccurrence(row.anchor, row.every, at)]
    ELSE LET due == NextOccurrence(row.anchor, row.every, Max({row.due, at}))
         IN [due |-> due, next |-> due]

New(every, due) ==
  LET repeat == RepeatAfterEdit(NoRow, every, due, TRUE)
  IN [every |-> repeat.every, anchor |-> repeat.anchor, due |-> due,
      next |-> repeat.next, archived |-> FALSE]

Offered == Rhythms \cup {Off}
Picks == DueDates \cup {NoDate}

(* One card, just made. *)
Init ==
  /\ now = 1
  /\ \E every \in Offered, due \in Picks :
       /\ rows = [c \in {1} |-> New(every, due)]
       /\ history = [c \in {1} |-> Born(0, 0, every)]
  /\ sweep = [s \in Sweepers |-> Resting]
  /\ page = [v \in Pages |-> Blank]
  /\ edit = [e \in Edits |-> NoEdit]
  /\ acts = 0
  /\ deaths = 0

Carries(c) == c \in DOMAIN rows /\ rows[c].every # Off

(* What the sweep's SELECT asks for. *)
Owed(c) == Carries(c) /\ rows[c].next # NoDate /\ rows[c].next <= now /\ ~ rows[c].archived

Insert(row, story) ==
  LET id == Cardinality(Ids) + 1
  IN /\ rows' = [c \in DOMAIN rows \cup {id} |-> IF c = id THEN row ELSE rows[c]]
     /\ history' = [c \in Ids \cup {id} |-> IF c = id THEN story ELSE history[c]]

-----------------------------------------------------------------------------
(* repeatDueCards and repeatCard *)

At(s, step) == sweep[s].step = step

Continue(s, todo) ==
  sweep' = [sweep EXCEPT ![s] =
    IF todo = {} THEN Resting ELSE Turning(todo, sweep[s].at)]

(* repeatNext < now.                                                          *)
ListOverdue(s) ==
  /\ At(s, "idle")
  /\ \E c \in DOMAIN rows : Owed(c) /\ rows[c].next < now
  /\ sweep' = [sweep EXCEPT ![s] =
                 Turning({c \in DOMAIN rows : Owed(c) /\ rows[c].next < now}, now)]
  /\ UNCHANGED <<now, rows, history, page, edit, acts, deaths>>

ListDue(s) ==
  /\ At(s, "idle")
  /\ \E c \in DOMAIN rows : Owed(c)
  /\ sweep' = [sweep EXCEPT ![s] =
                 Turning({c \in DOMAIN rows : Owed(c)}, now)]
  /\ UNCHANGED <<now, rows, history, page, edit, acts, deaths>>

(* SELECT * FROM cards: gone or no longer repeating is nothing to do. *)
ReadCard(s) ==
  LET c    == Min(sweep[s].todo)
      rest == sweep[s].todo \ {c}
  IN
  /\ At(s, "card")
  /\ IF Carries(c)
       THEN sweep' = [sweep EXCEPT ![s] = [@ EXCEPT !.step = "hand", !.todo = rest,
                                                    !.card = c, !.held = rows[c]]]
       ELSE Continue(s, rest)
  /\ UNCHANGED <<now, rows, history, page, edit, acts, deaths>>

Take(c) ==
  /\ rows' = [rows EXCEPT ![c] = [@ EXCEPT !.every = Off, !.anchor = NoDate, !.next = NoDate]]
  /\ history' = [history EXCEPT ![c].handed = @ + 1]

(* Nobody looks at affectedRows.                                              *)
HandOnUnasked(s) ==
  LET c == sweep[s].card IN
  /\ At(s, "hand")
  /\ IF c \in DOMAIN rows THEN Take(c) ELSE UNCHANGED <<rows, history>>
  /\ sweep' = [sweep EXCEPT ![s].step = "make"]
  /\ UNCHANGED <<now, page, edit, acts, deaths>>

(* UPDATE ... SET repeatEvery = NULL ... WHERE repeatEvery IS NOT NULL: the    *)
(* sweep whose statement changed a row goes on.                               *)
HandOn(s) ==
  LET c == sweep[s].card IN
  /\ At(s, "hand")
  /\ IF Carries(c)
       THEN /\ Take(c)
            /\ sweep' = [sweep EXCEPT ![s].step = "make"]
       ELSE /\ Continue(s, sweep[s].todo)
            /\ UNCHANGED <<rows, history>>
  /\ UNCHANGED <<now, page, edit, acts, deaths>>

(* INSERT INTO cards, planned from the row read before; the event goes out as *)
(* "addCard" for the new card only, so pages showing the old one keep theirs. *)
MakeNext(s) ==
  LET held == sweep[s].held
      plan == PlanNextCard(held, sweep[s].at)
  IN
  /\ At(s, "make")
  /\ Insert([every |-> held.every, anchor |-> held.anchor, due |-> plan.due,
             next |-> plan.next, archived |-> FALSE],
            Born(sweep[s].card, sweep[s].at, held.every))
  /\ Continue(s, sweep[s].todo)
  /\ UNCHANGED <<now, page, edit, acts, deaths>>

Lose(s) ==
  history' = IF At(s, "make") THEN [history EXCEPT ![sweep[s].card].lost = @ + 1]
                              ELSE history

(* A statement of repeatCard failed: caught, and the sweep goes on. *)
Fail(s) ==
  /\ sweep[s].step \in {"hand", "make"}
  /\ deaths < MaxDeaths
  /\ deaths' = deaths + 1
  /\ Lose(s)
  /\ Continue(s, sweep[s].todo)
  /\ UNCHANGED <<now, rows, page, edit, acts>>

(* The server stops with the sweep under way; nothing of it is remembered. *)
Crash(s) ==
  /\ ~ At(s, "idle")
  /\ deaths < MaxDeaths
  /\ deaths' = deaths + 1
  /\ Lose(s)
  /\ sweep' = [sweep EXCEPT ![s] = Resting]
  /\ UNCHANGED <<now, rows, page, edit, acts>>

-----------------------------------------------------------------------------
(* The people and agents *)

Act == acts < MaxActs /\ acts' = acts + 1

(* createCard (MCP), with or without a rhythm. *)
Create(every, due) ==
  /\ Insert(New(every, due), Born(0, 0, every))
  /\ Act
  /\ UNCHANGED <<now, sweep, page, edit, deaths>>

(* A browser reads the card. *)
Load(v, c) ==
  /\ c \in DOMAIN rows
  /\ page' = [page EXCEPT ![v] = [card |-> c, every |-> rows[c].every, due |-> rows[c].due]]
  /\ page' # page
  /\ UNCHANGED <<now, rows, history, sweep, edit, acts, deaths>>

(* An edit comes in and reads the row it changes (a deleted card is a 404). *)
Receive(e, c, every, due, chosen) ==
  /\ edit[e] = NoEdit
  /\ c \in DOMAIN rows
  /\ Act
  /\ edit' = [edit EXCEPT ![e] = [card |-> c, every |-> every, due |-> due,
                                  chosen |-> chosen, read |-> rows[c]]]

(* saveCard in CardModal: whatever was changed there, the whole card is sent. *)
Save(v, e, every, due) ==
  /\ Receive(e, page[v].card, every, due, every # page[v].every)
  /\ page' = [page EXCEPT ![v].every = every, ![v].due = due]
  /\ UNCHANGED <<now, rows, history, sweep, deaths>>

(* updateCard (MCP): only what the agent names. *)
ToolEdit(e, c, every, due) ==
  /\ <<every, due>> # <<Absent, Absent>>
  /\ Receive(e, c, every, due, every # Absent)
  /\ UNCHANGED <<now, rows, history, sweep, page, deaths>>

(* UPDATE cards SET ... WHERE id = ?, and "updateCard" to every open page. *)
Update(c, req) ==
  LET due    == IF req.due = Absent THEN req.read.due ELSE req.due
      repeat == RepeatAfterEdit(req.read, req.every, due, due # req.read.due)
      row    == [rows[c] EXCEPT !.every = repeat.every, !.anchor = repeat.anchor,
                                !.next = repeat.next,
                                !.due = IF req.due = Absent THEN @ ELSE req.due]
      given  == rows[c].every = Off /\ repeat.every # Off
  IN
  /\ rows' = [rows EXCEPT ![c] = row]
  /\ history' = [history EXCEPT
       ![c].asked = @ + (IF given /\ req.chosen THEN 1 ELSE 0),
       ![c].stale = @ + (IF given /\ ~ req.chosen THEN 1 ELSE 0),
       ![c].touched = TRUE,
       ![c].torn = @ \/ row.due # due]
  /\ page' = [v \in Pages |->
       IF page[v].card = c THEN [page[v] EXCEPT !.every = row.every, !.due = row.due]
                           ELSE page[v]]

(* Nothing, if the card is gone by now. *)
Write(e) ==
  /\ edit[e] # NoEdit
  /\ IF edit[e].card \in DOMAIN rows THEN Update(edit[e].card, edit[e])
                                     ELSE UNCHANGED <<rows, history, page>>
  /\ edit' = [edit EXCEPT ![e] = NoEdit]
  /\ UNCHANGED <<now, sweep, acts, deaths>>

SetArchived(c, away) ==
  /\ c \in DOMAIN rows
  /\ rows[c].archived # away
  /\ rows' = [rows EXCEPT ![c].archived = away]
  /\ Act
  /\ UNCHANGED <<now, history, sweep, page, edit, deaths>>

Destroy(c) ==
  /\ c \in DOMAIN rows
  /\ rows' = [d \in DOMAIN rows \ {c} |-> rows[d]]
  /\ Act
  /\ UNCHANGED <<now, history, sweep, page, edit, deaths>>

Tick ==
  /\ now < MaxTime
  /\ now' = now + 1
  /\ UNCHANGED <<rows, history, sweep, page, edit, acts, deaths>>

Sweep(s) == ListDue(s) \/ ReadCard(s) \/ HandOn(s) \/ MakeNext(s)

Next ==
  \/ \E s \in Sweepers : Sweep(s) \/ Fail(s) \/ Crash(s)
  \/ \E every \in Offered, due \in Picks : Create(every, due)
  \/ \E v \in Pages, c \in Ids : Load(v, c)
  \/ \E v \in Pages, e \in Edits :
       \E every \in Offered, due \in Picks \cup {page[v].due} : Save(v, e, every, due)
  \/ \E e \in Edits, c \in Ids :
       \E every \in Offered \cup {Absent}, due \in Picks \cup {Absent} :
         ToolEdit(e, c, every, due)
  \/ \E e \in Edits : Write(e)
  \/ \E c \in Ids : (\E away \in BOOLEAN : SetArchived(c, away)) \/ Destroy(c)
  \/ Tick

(* The sweep is scheduled every five minutes and at startup, and a handler    *)
(* that was started is run.                                                   *)
Spec ==
  /\ Init
  /\ [][Next]_vars
  /\ \A s \in Sweepers : WF_vars(Sweep(s))
  /\ \A e \in Edits : WF_vars(Write(e))

-----------------------------------------------------------------------------
(* Properties *)

(* Every row, page, sweep and edit is one the code can hold.                  *)
TypeOK ==
  /\ now \in 1..MaxTime
  /\ DOMAIN rows \subseteq Ids
  /\ Ids = 1..Cardinality(Ids)
  /\ Cardinality(Ids) <= MaxCards
  /\ \A c \in DOMAIN rows : rows[c] \in Row
  /\ \A c \in Ids : history[c] \in History
  /\ \A s \in Sweepers : sweep[s].held \in Row /\ sweep[s].todo \subseteq Ids
  /\ \A v \in Pages : page[v].card \in Ids \cup {0}
  /\ \A e \in Edits : edit[e].card \in Ids \cup {0} /\ edit[e].read \in Row

MadeFrom(c) == {d \in Ids : history[d].from = c}

(* A card has at most one next card for each time it was given a rhythm       *)
(* (repeatCard.ts 17-21).  A caller that repeats an old rhythm gives it one   *)
(* again.                                                                     *)
MadeOncePerRhythm ==
  \A c \in Ids : Cardinality(MadeFrom(c)) <= history[c].asked + history[c].stale

(* A rhythm a sweep took off a card is on the next card, in the hands of the   *)
(* one sweep that will make it, or lost with that sweep - never dropped by    *)
(* the others and never in two hands.                                         *)
NothingFallsBetween ==
  \A c \in Ids :
    history[c].handed =
      Cardinality(MadeFrom(c)) + history[c].lost
        + Cardinality({s \in Sweepers : At(s, "make") /\ sweep[s].card = c})

(* Turns that went by are skipped (repeat.ts 63-69): a card made by a sweep   *)
(* and left alone is not followed by another before a later sweep, whatever   *)
(* the sweeps overlap with.                                                   *)
NoPileUp ==
  \A d \in Ids :
    LET c == history[d].from IN
    (c # 0 /\ history[c].from # 0 /\ ~ history[c].touched)
      => history[d].at > history[c].at

(* However many sweeps overlap, crash and meet edits: no card is made twice,  *)
(* no series is lost but with the process that held it, and turns gone by do  *)
(* not pile up.                                                               *)
SeriesUnbroken == MadeOncePerRhythm /\ NothingFallsBetween /\ NoPileUp

(* The next turn of a series always lies on its grid - a whole number of      *)
(* rhythms from the anchor - through every edit, hand-on and lost race: the   *)
(* rhythm, the anchor and the next turn are never a mixture of two edits.     *)
(* Excepted is a card of which one edit changed the due date while another,   *)
(* which did not name it, was under way: that one's rhythm is counted from a  *)
(* date the card no longer has, and the next save takes the new date for a    *)
(* turn of it.                                                                *)
NextOnGrid ==
  \A c \in DOMAIN rows : (Carries(c) /\ ~ history[c].torn) =>
    /\ rows[c].anchor # NoDate /\ rows[c].next # NoDate
    /\ rows[c].next >= rows[c].anchor
    /\ (rows[c].next - rows[c].anchor) % rows[c].every = 0

(* A series whose turn has come does not wait for ever: it is handed on, or   *)
(* somebody stops, moves, archives or deletes it.                             *)
OwedIsServed == \A c \in 1..MaxCards : Owed(c) ~> ~ Owed(c)

(* What the docs promise (docs/content/docs/04.cards.md:153): the card a      *)
(* series moved on from stops repeating, unless somebody asks again.          *)
SeriesMovesOn ==
  \A c \in Ids : Cardinality(MadeFrom(c)) <= history[c].asked

=============================================================================
