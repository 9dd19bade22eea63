------------------------------ MODULE Reminders -------------------------------
(* The reminders of a card (server/utils/dueReminders.ts).  Every five        *)
(* minutes a sweep lists the reminders whose time has come, writes one        *)
(* notification per person for each, and marks it.  Meanwhile people move the *)
(* due date, which arms all its reminders again, choose other reminders, and  *)
(* archive or restore the card (card PUT, archive).                           *)
(* A tick is a moment; a due date stays worth announcing for Day ticks.       *)

EXTENDS Integers, FiniteSets, Sequences, Functions

CONSTANTS
  Befores,      \* choices of minutesBefore, in ticks
  Dues,         \* the due dates a page may send
  NoDue,        \* a card without a due date
  People,       \* how many people a reminder of the card is for
  Day,
  ReminderSweepers,     \* servers whose tasks share the database
  MaxNow,       \* bound: ticks
  MaxRows,      \* bound: reminder rows ever written
  MaxEdits,     \* bound: edits, and archivings
  MaxStops      \* bound: sweeps that die

ASSUME RemindersAssumption ==
  /\ NoDue \notin Dues /\ Dues \subseteq Nat /\ Befores \subseteq Nat
  /\ People \in Nat /\ MaxRows \in Nat /\ MaxStops \in Nat

VARIABLES
  clock,
  due, shown,   \* cards.dueDate; neither the card, its column nor its board is archived
  reminders,    \* `card_reminders`, by id; a row that is gone stays with here = FALSE
  reminding,        \* what each sweep still has to do
  saving,       \* the edit under way
  editsLeft, stopsLeft,
  told,         \* <<row, due>> -> how many times each person was told, in their order
  armed,        \* <<row, due>> -> how often the row was armed for that date
  met           \* a sweep and an edit, or two sweeps, have overlapped

reminderVars ==
  <<clock, due, shown, reminders, reminding, saving, editsLeft, stopsLeft, told, armed, met>>

ReminderRow(before) == [before |-> before, notified |-> FALSE, here |-> TRUE]
NothingSaved == [step |-> "idle", before |-> {}, changed |-> FALSE]
Asleep == [todo |-> << >>, person |-> 1]

ReminderInit ==
  /\ clock = 0
  /\ due = NoDue
  /\ shown = TRUE
  /\ reminders = << >>
  /\ reminding = [s \in ReminderSweepers |-> Asleep]
  /\ saving = NothingSaved
  /\ editsLeft = MaxEdits
  /\ stopsLeft = MaxStops
  /\ told = [r \in 1..MaxRows |-> [d \in Dues |-> [i \in 1..People |-> 0]]]
  /\ armed = [r \in 1..MaxRows |-> [d \in Dues |-> 0]]
  /\ met = FALSE

Here == {r \in DOMAIN reminders : reminders[r].here}
Sweeping(s) == reminding[s].todo # << >>

-----------------------------------------------------------------------------
(* The sweep                                                                  *)

(* The WHERE of the SELECT.                                                   *)
TimeHasCome(r) ==
  /\ reminders[r].here /\ ~ reminders[r].notified /\ shown
  /\ due # NoDue /\ clock >= due - reminders[r].before
  /\ due >= clock - Day

(* The SELECT names no order.                                                 *)
SomeOrder(rows) == {f \in [1..Cardinality(rows) -> rows] : IsInjective(f)}

Lists(s, rows) ==
  /\ ~ Sweeping(s)
  /\ rows # {}
  /\ \E order \in SomeOrder(rows) :
       reminding' = [reminding EXCEPT ![s].todo =
         [i \in DOMAIN order |-> [row |-> order[i], due |-> due]]]
  /\ met' = (met \/ saving # NothingSaved \/ \E other \in ReminderSweepers : Sweeping(other))
  /\ UNCHANGED <<clock, due, shown, reminders, saving, editsLeft, stopsLeft, told, armed>>

(* A slip: those whose moment is now, so what one sweep misses stays missed.  *)
ListMoment(s) == Lists(s, {r \in Here : TimeHasCome(r) /\ clock = due - reminders[r].before})

(* Each row is listed with the date it is for.                                *)
ListDueReminders(s) == Lists(s, {r \in Here : TimeHasCome(r)})

(* One INSERT INTO notifications per person.                                  *)
Tell(s) ==
  /\ Sweeping(s) /\ reminding[s].person <= People
  /\ LET job == Head(reminding[s].todo)
     IN told' = [told EXCEPT ![job.row][job.due][reminding[s].person] = @ + 1]
  /\ reminding' = [reminding EXCEPT ![s].person = @ + 1]
  /\ UNCHANGED <<clock, due, shown, reminders, saving, editsLeft, stopsLeft, armed, met>>

(* UPDATE card_reminders SET notified = 1 WHERE id = ?; then the next one.    *)
MarkReminder(s) ==
  /\ Sweeping(s) /\ reminding[s].person > People
  /\ reminders' = [reminders EXCEPT ![Head(reminding[s].todo).row].notified = TRUE]
  /\ reminding' = [reminding EXCEPT ![s] = [todo |-> Tail(@.todo), person |-> 1]]
  /\ UNCHANGED <<clock, due, shown, saving, editsLeft, stopsLeft, told, armed, met>>

(* A statement fails, or the server stops.                                    *)
SweepStops(s) ==
  /\ Sweeping(s)
  /\ stopsLeft > 0
  /\ stopsLeft' = stopsLeft - 1
  /\ reminding' = [reminding EXCEPT ![s] = Asleep]
  /\ UNCHANGED <<clock, due, shown, reminders, saving, editsLeft, told, armed, met>>

-----------------------------------------------------------------------------
(* card PUT: the row, then the reminders one by one, then the re-arming.      *)

Arm(rows, date) ==
  armed' = IF date = NoDue THEN armed
           ELSE [r \in 1..MaxRows |-> IF r \in rows THEN [armed[r] EXCEPT ![date] = @ + 1] ELSE armed[r]]

SaveDue(date, befores) ==
  /\ saving = NothingSaved /\ editsLeft > 0
  /\ editsLeft' = editsLeft - 1
  /\ due' = date
  /\ saving' = [step |-> "sync", before |-> befores, changed |-> date # due]
  /\ met' = (met \/ \E s \in ReminderSweepers : Sweeping(s))
  /\ Arm(IF date # due THEN Here ELSE {}, date)
  /\ UNCHANGED <<clock, shown, reminders, reminding, stopsLeft, told>>

(* One DELETE per reminder nobody wants, then one INSERT per new one.         *)
DropUnwanted ==
  /\ saving.step = "sync"
  /\ \E r \in Here :
       /\ reminders[r].before \notin saving.before
       /\ reminders' = [reminders EXCEPT ![r].here = FALSE]
  /\ UNCHANGED <<clock, due, shown, reminding, saving, editsLeft, stopsLeft, told, armed, met>>

AddMissing ==
  /\ saving.step = "sync"
  /\ \A r \in Here : reminders[r].before \in saving.before
  /\ Len(reminders) < MaxRows
  /\ \E before \in saving.before \ {reminders[r].before : r \in Here} :
       reminders' = Append(reminders, ReminderRow(before))
  /\ Arm({Len(reminders')}, due)
  /\ UNCHANGED <<clock, due, shown, reminding, saving, editsLeft, stopsLeft, told, met>>

Synced ==
  /\ saving.step = "sync"
  /\ saving.before = {reminders[r].before : r \in Here}

(* A slip: the new date is saved and that is all.                             *)
LeaveUnarmed ==
  /\ Synced
  /\ saving' = NothingSaved
  /\ UNCHANGED <<clock, due, shown, reminders, reminding, editsLeft, stopsLeft, told, armed, met>>

(* UPDATE card_reminders SET notified = 0 WHERE card = ?, after a new date.   *)
Rearm ==
  /\ Synced
  /\ saving' = NothingSaved
  /\ reminders' = IF saving.changed
                    THEN [r \in DOMAIN reminders |-> [reminders[r] EXCEPT !.notified = FALSE]]
                    ELSE reminders
  /\ UNCHANGED <<clock, due, shown, reminding, editsLeft, stopsLeft, told, armed, met>>

PutAside ==
  /\ editsLeft > 0
  /\ editsLeft' = editsLeft - 1
  /\ shown' = ~ shown
  /\ UNCHANGED <<clock, due, reminders, reminding, saving, stopsLeft, told, armed, met>>

Passes ==
  /\ clock < MaxNow
  /\ clock' = clock + 1
  /\ UNCHANGED <<due, shown, reminders, reminding, saving, editsLeft, stopsLeft, told, armed, met>>

SweepStep(s) == ListDueReminders(s) \/ Tell(s) \/ MarkReminder(s)

ReminderNext ==
  \/ \E s \in ReminderSweepers : SweepStep(s) \/ SweepStops(s)
  \/ \E date \in Dues \union {NoDue}, befores \in SUBSET Befores : SaveDue(date, befores)
  \/ DropUnwanted \/ AddMissing \/ Rearm
  \/ PutAside
  \/ Passes

(* The task runs every five minutes, and a sweep that was started goes on.    *)
ReminderFairness == \A s \in ReminderSweepers : WF_reminderVars(SweepStep(s))
ReminderSpec == ReminderInit /\ [][ReminderNext]_reminderVars /\ ReminderFairness

-----------------------------------------------------------------------------
(* Properties *)

(* Rows and what sweeps hold are rows there are or were.                      *)
ReminderTypeOK ==
  /\ due \in Dues \union {NoDue}
  /\ \A r \in DOMAIN reminders : reminders[r].before \in Befores
  /\ \A s \in ReminderSweepers : \A i \in DOMAIN reminding[s].todo : reminding[s].todo[i].row \in DOMAIN reminders

(* 07.card.md: "a changed due date makes them all fire again".  As long as no *)
(* sweep and edit, and no two sweeps, ran into one another: a reminder that   *)
(* is marked has told everybody of the date the card now has, also when an    *)
(* earlier sweep stopped half way.                                            *)
MarkedWasTold ==
  (~ met /\ saving = NothingSaved /\ due # NoDue) =>
     \A r \in Here : reminders[r].notified => \A i \in 1..People : told[r][due][i] > 0

(* Nobody is told twice of one date, but for a sweep that stopped half way or *)
(* a date that was set, left and set again.                                   *)
ToldOncePerDate ==
  ~ met => \A r \in DOMAIN reminders : \A d \in Dues : \A i \in 1..People :
             told[r][d][i] <= armed[r][d] + (MaxStops - stopsLeft)

(* Each date is told, and told once.                                          *)
ToldJustOnce == MarkedWasTold /\ ToldOncePerDate

(* A reminder whose time has come is told to everybody in the end, unless the *)
(* date passes out of the day it is good for, is moved, or the card goes out  *)
(* of sight.  To be marked is not to be told: a reminder marked before it had *)
(* told everybody is excused only once a sweep and an edit, or two sweeps,    *)
(* have run into one another; then it stays silent (FiresAgain).              *)
EveryReminderFires ==
  \A r \in 1..MaxRows : \A d \in Dues :
    LET everybodyTold == \A i \in 1..People : told[r][d][i] > 0
        Owed == r \in DOMAIN reminders /\ due = d /\ TimeHasCome(r) /\ ~ everybodyTold
        Lapsed == due # d \/ ~ shown \/ r \notin Here \/ d < clock - Day
        MarkedUnsaid == met /\ r \in Here /\ reminders[r].notified
    IN Owed ~> (everybodyTold \/ Lapsed \/ MarkedUnsaid)

(* 07.card.md:256: "a changed due date makes them all fire again".  Between   *)
(* requests a reminder that has not fired for the date the card has is armed. *)
FiresAgain ==
  (saving = NothingSaved /\ due # NoDue) =>
     \A r \in Here : reminders[r].notified => \E i \in 1..People : told[r][due][i] > 0

=============================================================================
