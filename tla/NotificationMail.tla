--------------------------- MODULE NotificationMail ---------------------------
(* The hourly task that mails people what they have not read                  *)
(* (server/tasks/notification.ts).  One run reads every notification still to *)
(* be mailed, then goes through the people in the order of their oldest one:  *)
(* look up the address, send one mail, mark what was in it.  The task starts  *)
(* a run without waiting for the one before, so runs may overlap.  Meanwhile  *)
(* notifications are written, read (notifications PATCH), and people turn     *)
(* their mails off and on.                                                    *)

EXTENDS Naturals, FiniteSets, Sequences, Functions

CONSTANTS
  Users,
  Refused,      \* people whose address the mail server never accepts
  Runs,
  MaxNotes,     \* bound: notifications ever written
  MaxFailures,  \* bound: other failures, of the mail server or of a run
  MaxTurns      \* bound: mails turned off or on

ASSUME MailAssumption == Refused \subseteq Users /\ IsFiniteSet(Runs)

VARIABLES
  notes,     \* the table `notifications`, in the order of createdAt and id
  wants,     \* emailNotifications of each user
  sent,      \* how many mails each notification was in
  run,
  failures, turns

mailVars == <<notes, wants, sent, run, failures, turns>>

NoRun == [step |-> "idle", people |-> << >>, batch |-> [u \in Users |-> {}]]

MailInit ==
  /\ notes = << >>
  /\ wants \in [Users -> BOOLEAN]
  /\ sent = << >>
  /\ run = [r \in Runs |-> NoRun]
  /\ failures = 0
  /\ turns = 0

RunAt(r, step) == run[r].step = step

(* WHERE isRead = FALSE AND notified = FALSE *)
ToMail == {n \in DOMAIN notes : ~ notes[n].read /\ ~ notes[n].notified}

(* Their people, each once, in the order their notifications come.            *)
PeopleOf(ns) ==
  LET who == {notes[n].user : n \in ns}
      Oldest(u) == CHOOSE n \in ns : notes[n].user = u
                     /\ \A m \in ns : notes[m].user = u => n <= m
  IN {s \in [1..Cardinality(who) -> who] :
        IsInjective(s) /\ \A i, j \in DOMAIN s : i < j => Oldest(s[i]) < Oldest(s[j])}

(* The person whose turn it is in run r, and what is in their mail.           *)
Person(r) == Head(run[r].people)
Batch(r) == run[r].batch[Person(r)]

CarryOn(r) ==
  run' = [run EXCEPT ![r] =
    IF Len(@.people) = 1 THEN NoRun
    ELSE [@ EXCEPT !.step = "person", !.people = Tail(run[r].people)]]

List(r) ==
  /\ RunAt(r, "idle")
  /\ ToMail # {}
  /\ \E people \in PeopleOf(ToMail) :
       run' = [run EXCEPT ![r] =
         [step |-> "person", people |-> people,
          batch |-> [u \in Users |-> {n \in ToMail : notes[n].user = u}]]]
  /\ UNCHANGED <<notes, wants, sent, failures, turns>>

(* The run is over at the first person without mails.                         *)
AddressOrStop(r) ==
  /\ RunAt(r, "person")
  /\ run' = [run EXCEPT ![r] = IF wants[Person(r)] THEN [@ EXCEPT !.step = "mail"] ELSE NoRun]
  /\ UNCHANGED <<notes, wants, sent, failures, turns>>

(* SELECT email ... AND emailNotifications = 1: nobody to write to is logged. *)
Address(r) ==
  /\ RunAt(r, "person")
  /\ IF wants[Person(r)] THEN run' = [run EXCEPT ![r].step = "mail"] ELSE CarryOn(r)
  /\ UNCHANGED <<notes, wants, sent, failures, turns>>

Deliver(r) == sent' = [n \in DOMAIN sent |-> IF n \in Batch(r) THEN sent[n] + 1 ELSE sent[n]]

MarkAll(r) ==
  notes' = [n \in DOMAIN notes |->
              IF n \in Batch(r) THEN [notes[n] EXCEPT !.notified = TRUE] ELSE notes[n]]

(* The address is kept whether or not a mail was accepted.                    *)
SendAndForget(r) ==
  /\ RunAt(r, "mail")
  /\ run' = [run EXCEPT ![r].step = "mark"]
  /\ \/ Person(r) \notin Refused /\ Deliver(r) /\ UNCHANGED failures
     \/ failures < MaxFailures /\ failures' = failures + 1 /\ UNCHANGED sent
  /\ UNCHANGED <<notes, wants, turns>>

(* sendEmail: what it throws ends the whole run, not this person's part.      *)
Send(r) ==
  /\ RunAt(r, "mail")
  /\ \/ /\ Person(r) \notin Refused
        /\ Deliver(r)
        /\ run' = [run EXCEPT ![r].step = "mark"]
        /\ UNCHANGED failures
     \/ /\ Person(r) \in Refused \/ failures < MaxFailures
        /\ failures' = IF Person(r) \in Refused THEN failures ELSE failures + 1
        /\ run' = [run EXCEPT ![r] = NoRun]
        /\ UNCHANGED sent
  /\ UNCHANGED <<notes, wants, turns>>

(* UPDATE notifications SET notified = TRUE WHERE id IN (...) *)
Mark(r) ==
  /\ RunAt(r, "mark")
  /\ MarkAll(r)
  /\ CarryOn(r)
  /\ UNCHANGED <<wants, sent, failures, turns>>

(* A statement failed, or the server stopped: the run is over. *)
Stop(r) ==
  /\ ~ RunAt(r, "idle")
  /\ failures < MaxFailures
  /\ failures' = failures + 1
  /\ run' = [run EXCEPT ![r] = NoRun]
  /\ UNCHANGED <<notes, wants, sent, turns>>

Notify(u) ==
  /\ Len(notes) < MaxNotes
  /\ notes' = Append(notes, [user |-> u, read |-> FALSE, notified |-> FALSE])
  /\ sent' = Append(sent, 0)
  /\ UNCHANGED <<wants, run, failures, turns>>

(* Opening a card or a board, or a click in the list.                         *)
ReadNote(n) ==
  /\ ~ notes[n].read
  /\ notes' = [notes EXCEPT ![n].read = TRUE]
  /\ UNCHANGED <<wants, sent, run, failures, turns>>

TurnMails(u) ==
  /\ turns < MaxTurns
  /\ turns' = turns + 1
  /\ wants' = [wants EXCEPT ![u] = ~ @]
  /\ UNCHANGED <<notes, sent, run, failures>>

Work(r) == List(r) \/ Address(r) \/ Send(r) \/ Mark(r)

MailNext ==
  \/ \E r \in Runs : Work(r) \/ Stop(r)
  \/ \E u \in Users : Notify(u) \/ TurnMails(u)
  \/ \E n \in DOMAIN notes : ReadNote(n)

(* The task runs every hour, and a run that was started goes on.              *)
MailSpec == MailInit /\ [][MailNext]_mailVars /\ \A r \in Runs : WF_mailVars(Work(r))

-----------------------------------------------------------------------------
(* Properties *)

(* Runs hold notifications there are, each under its own person.              *)
MailTypeOK ==
  /\ DOMAIN sent = DOMAIN notes
  /\ \A n \in DOMAIN notes : notes[n] \in [user : Users, read : BOOLEAN, notified : BOOLEAN]
  /\ \A r \in Runs :
       /\ run[r].step \in {"idle", "person", "mail", "mark"}
       /\ IsInjective(run[r].people)
       /\ ~ RunAt(r, "idle") => run[r].people # << >> /\ Batch(r) # {}
       /\ \A u \in Users : \A n \in run[r].batch[u] : notes[n].user = u

(* Nothing is dropped: what counts as mailed has been in a mail, whichever    *)
(* step of whichever run failed.                                              *)
MarkedWasMailed == \A n \in DOMAIN notes : notes[n].notified => sent[n] > 0

(* Nobody is written to again and again (notification.ts:350): a notification *)
(* is in one mail, and in another only when a run overlapped with the first   *)
(* or died between sending and marking.                                       *)
NoEndlessMails == \A n \in DOMAIN notes : sent[n] <= Cardinality(Runs) + failures

(* What is marked went out, and does not go out again and again.              *)
MailedOnce == MarkedWasMailed /\ NoEndlessMails

(* notification.ts:313: "Send an email for each user with unread              *)
(* notifications".  A notification its user wants mailed, at an address that  *)
(* takes mail, is mailed in the end, unless it is read first.                 *)
EveryoneIsMailed ==
  \A n \in 1..MaxNotes :
    LET Waiting == n \in ToMail /\ notes[n].user \notin Refused /\ wants[notes[n].user]
    IN Waiting ~> ~ Waiting

=============================================================================
