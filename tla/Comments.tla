------------------------------- MODULE Comments --------------------------------
(* The comments of one card on several screens.  Three copies of them live in *)
(* a tab: the list on screen (CommentSection.vue), the dialog's own           *)
(* (CardModal.vue) and the one the board keeps with the number on the tile    *)
(* (board/[id].vue).  Comments travel to tabs with the card open; to all the  *)
(* others goes only their number, worked out by whoever changed or heard      *)
(* something (server/api/data/comment.ts, socket.io.ts).                      *)

EXTENDS Naturals, Sequences, FiniteSets, SequencesExt

CONSTANTS
  Readers,        \* tabs on the board, each of another person
  CommentBudgets  \* bounds: comments posted, edited or deleted; times a dialog is
                  \* opened or closed; times a tab loses its connection; and
                  \* whether any of it may happen while something is on its way

VARIABLES
  thread,         \* the database: [id, by, text], newest first
  nextComment,    \* the id the next comment gets
  view,           \* per tab: is the card open, and the three copies
  calls,          \* answers of the server on their way to a tab
  notices,        \* events whose access check has not been answered
  mail,           \* per tab: events on their way to it, in order
  offline,        \* tabs that lost their connection
  budget,         \* what is left of the bounds
  someDeleted,    \* has a comment been deleted
  hasty           \* has anyone acted while earlier things were on their way

commentVars ==
  <<thread, nextComment, view, calls, notices, mail, offline, budget, someDeleted, hasty>>

First(t) == <<[id |-> 1, by |-> t, text |-> 0]>>

CommentInit(list) ==
  /\ thread = list
  /\ nextComment = 2
  /\ view = [t \in Readers |-> [open |-> FALSE, section |-> << >>, copy |-> << >>,
                                number |-> Len(list), cached |-> list]]
  /\ calls = {} /\ notices = {} /\ offline = {}
  /\ mail = [t \in Readers |-> << >>]
  /\ budget \in CommentBudgets
  /\ someDeleted = FALSE /\ hasty = FALSE

OnItsWay == calls # {} \/ notices # {} \/ \E t \in Readers : mail[t] # << >>
Spend(what) == budget[what] > 0 /\ budget' = [budget EXCEPT ![what] = @ - 1]
Hastily == (OnItsWay => budget.haste) /\ hasty' = (hasty \/ OnItsWay)

-----------------------------------------------------------------------------
(* What the lists do with a comment; each returns the view and the numbers it *)
(* makes the tab announce.                                                    *)

Has(list, id) == \E i \in DOMAIN list : list[i].id = id
WithoutComment(list, id) == SelectSeq(list, LAMBDA c : c.id # id)
Put2(list, c) == [i \in DOMAIN list |-> IF list[i].id = c.id THEN c ELSE list[i]]

WithComment(list, c) == IF Has(list, c.id) THEN list ELSE <<c>> \o list

Tile(v) == [v EXCEPT !.number = Len(v.copy), !.cached = v.copy]
Says(v, ns) == [view |-> v, announced |-> ns]

(* handleCommentCreated of the section, then of the dialog: a list that has   *)
(* the comment ends it.  (The section's own announcement names no board, and  *)
(* the server drops it.)                                                      *)
Created(v, c) ==
  LET shown == [v EXCEPT !.section = WithComment(@, c)]
      both == [shown EXCEPT !.copy = WithComment(@, c)]
  IN  IF shown = v \/ both = shown THEN Says(shown, {})
      ELSE Says(Tile(both), {Len(both.copy)})

(* The answer to one's own edit, and to one's own deletion.                   *)
Edited(v, c) ==
  IF ~Has(v.section, c.id) THEN Says(v, {})
  ELSE Says(Tile([v EXCEPT !.section = Put2(@, c), !.copy = Put2(@, c)]), {})

Deleted(v, id) ==
  LET out == [v EXCEPT !.section = WithoutComment(@, id), !.copy = WithoutComment(@, id)]
  IN  Says(Tile(out), {Len(out.copy)})

(* Somebody else's deletion and edit: the section alone takes them over, and  *)
(* what it emits to the dialog about a deletion the dialog does not hear.     *)
DeletedElsewhere(v, id) ==
  LET out == [v EXCEPT !.section = WithoutComment(@, id)] IN Says(out, {Len(out.section)})

EditedElsewhere(v, c) == Says([v EXCEPT !.section = Put2(@, c)], {})

(* A slip: lists of the same length are taken to be the same.                 *)
RefreshedByLength(v, fresh) ==
  IF Len(fresh) = Len(v.section) THEN Says(v, {})
  ELSE Says(Tile([v EXCEPT !.section = fresh, !.copy = fresh]), {})

(* refreshComments: nothing is handed up when the section had it all.         *)
Refreshed(v, fresh) ==
  IF fresh = v.section THEN Says(v, {})
  ELSE Says(Tile([v EXCEPT !.section = fresh, !.copy = fresh]), {})

(* A tab shows what it made of something, and tells the board its numbers.    *)
Show(t, what, told) ==
  /\ view' = [view EXCEPT ![t] = what.view]
  /\ notices' = told \cup {[kind |-> "count", by |-> t, n |-> n] : n \in what.announced}

-----------------------------------------------------------------------------
(* Opening the card: the section starts from what the board has, joins the    *)
(* card's room, and asks for the comments.                                    *)
Ask(t) == [to |-> t, kind |-> "ask", live |-> TRUE]

OpenCard(t) ==
  /\ ~view[t].open /\ t \notin offline
  /\ Spend("looks") /\ Hastily
  /\ view' = [view EXCEPT ![t].open = TRUE, ![t].section = view[t].cached,
                          ![t].copy = view[t].cached]
  /\ calls' = calls \cup {Ask(t)}
  /\ UNCHANGED <<thread, nextComment, notices, mail, offline, someDeleted>>

(* An answer that comes after the dialog is gone still tells the others.      *)
CloseCard(t) ==
  /\ view[t].open
  /\ Spend("looks") /\ Hastily
  /\ view' = [view EXCEPT ![t].open = FALSE, ![t].section = << >>, ![t].copy = << >>]
  /\ calls' = {IF a.to = t THEN [a EXCEPT !.live = FALSE] ELSE a : a \in calls}
  /\ UNCHANGED <<thread, nextComment, notices, mail, offline, someDeleted>>

(* POST, PUT and DELETE of comment.ts.  A person changes only comments of     *)
(* their own; one that is no longer there is refused, and nothing follows.    *)
Post(t) ==
  /\ view[t].open /\ Spend("writes") /\ Hastily
  /\ LET c == [id |-> nextComment, by |-> t, text |-> 0]
     IN  /\ thread' = <<c>> \o thread
         /\ calls' = calls \cup {[to |-> t, kind |-> "posted", live |-> TRUE, comment |-> c]}
  /\ nextComment' = nextComment + 1
  /\ UNCHANGED <<view, notices, mail, offline, someDeleted>>

OwnComments(t) ==
  IF view[t].open THEN {c \in Range(view[t].section) : c.by = t} ELSE {}

EditComment(t) ==
  \E c \in OwnComments(t) :
    /\ Spend("writes") /\ Hastily
    /\ LET e == [c EXCEPT !.text = 1 - c.text]
       IN  IF Has(thread, c.id)
             THEN /\ thread' = Put2(thread, e)
                  /\ calls' = calls \cup {[to |-> t, kind |-> "edited", live |-> TRUE, comment |-> e]}
             ELSE UNCHANGED <<thread, calls>>
    /\ UNCHANGED <<nextComment, view, notices, mail, offline, someDeleted>>

Delete(t) ==
  \E c \in OwnComments(t) :
    /\ Spend("writes") /\ Hastily
    /\ someDeleted' = TRUE
    /\ IF Has(thread, c.id)
         THEN /\ thread' = WithoutComment(thread, c.id)
              /\ calls' = calls \cup {[to |-> t, kind |-> "deleted", live |-> TRUE, comment |-> c]}
         ELSE UNCHANGED <<thread, calls>>
    /\ UNCHANGED <<nextComment, view, notices, mail, offline>>

(* GET: the server reads the thread, and its answer sets out.                 *)
ReadCall(a) ==
  /\ a \in calls /\ a.kind = "ask"
  /\ calls' = (calls \ {a}) \cup {[to |-> a.to, kind |-> "list", live |-> a.live, list |-> thread]}
  /\ UNCHANGED <<thread, nextComment, view, notices, mail, offline, budget, someDeleted, hasty>>

(* An answer arrives.  The dialog tells the others, then shows it if it is    *)
(* still the one that asked.                                                  *)
Telling(a) ==
  IF a.kind = "list" THEN {}
  ELSE {[kind |-> a.kind, by |-> a.to, comment |-> a.comment]}

Answered(v, a) ==
  CASE a.kind = "posted" -> Created(v, a.comment)
    [] a.kind = "edited" -> Edited(v, a.comment)
    [] a.kind = "deleted" -> Deleted(v, a.comment.id)
    [] a.kind = "list" -> Refreshed(v, a.list)

AnswerCall(a) ==
  /\ a \in calls /\ a.kind # "ask"
  /\ calls' = calls \ {a}
  /\ Show(a.to, IF a.live THEN Answered(view[a.to], a) ELSE Says(view[a.to], {}),
          notices \cup Telling(a))
  /\ UNCHANGED <<thread, nextComment, mail, offline, budget, someDeleted, hasty>>

-----------------------------------------------------------------------------
(* The socket: a comment goes to the card's room, a number to the board's.    *)
(* What a tab without a connection emits waits for its return.                *)
RelayNotice(m) ==
  /\ m \in notices /\ m.by \notin offline
  /\ notices' = notices \ {m}
  /\ mail' = [t \in Readers |->
               IF t # m.by /\ t \notin offline /\ (m.kind = "count" \/ view[t].open)
               THEN Append(mail[t], m) ELSE mail[t]]
  /\ UNCHANGED <<thread, nextComment, view, calls, offline, budget, someDeleted, hasty>>

Heard(v, m) ==
  CASE m.kind = "count" -> Says([v EXCEPT !.number = m.n], {})
    [] m.kind # "count" /\ ~v.open -> Says(v, {})
    [] m.kind = "posted" /\ v.open -> Created(v, m.comment)
    [] m.kind = "edited" /\ v.open -> EditedElsewhere(v, m.comment)
    [] m.kind = "deleted" /\ v.open -> DeletedElsewhere(v, m.comment.id)

HearNotice(t) ==
  /\ mail[t] # << >> /\ t \notin offline
  /\ mail' = [mail EXCEPT ![t] = Tail(@)]
  /\ Show(t, Heard(view[t], Head(mail[t])), notices)
  /\ UNCHANGED <<thread, nextComment, calls, offline, budget, someDeleted, hasty>>

GoOffline(t) ==
  /\ t \notin offline /\ Spend("drops")
  /\ offline' = offline \cup {t}
  /\ mail' = [mail EXCEPT ![t] = << >>]
  /\ UNCHANGED <<thread, nextComment, view, calls, notices, someDeleted, hasty>>

(* On its return the page reads the board, with its comments and numbers, and *)
(* an open section asks for its own again.                                    *)
ComeOnline(t) ==
  /\ t \in offline
  /\ offline' = offline \ {t}
  /\ view' = [view EXCEPT ![t].number = Len(thread), ![t].cached = thread]
  /\ calls' = IF view[t].open THEN calls \cup {Ask(t)} ELSE calls
  /\ hasty' = (hasty \/ OnItsWay)
  /\ UNCHANGED <<thread, nextComment, notices, mail, budget, someDeleted>>

CommentNext ==
  \/ \E t \in Readers : OpenCard(t) \/ CloseCard(t) \/ Post(t) \/ EditComment(t) \/ Delete(t)
                        \/ HearNotice(t) \/ GoOffline(t) \/ ComeOnline(t)
  \/ \E a \in calls : ReadCall(a) \/ AnswerCall(a)
  \/ \E m \in notices : RelayNotice(m)

CommentSpec == (\E t \in Readers : CommentInit(First(t))) /\ [][CommentNext]_commentVars

-----------------------------------------------------------------------------
CommentTypeOK ==
  /\ \A i \in DOMAIN thread : thread[i].id < nextComment /\ thread[i].by \in Readers
  /\ \A t \in Readers : ~view[t].open => view[t].section = << >> /\ view[t].copy = << >>

Ids(list) == {list[i].id : i \in DOMAIN list}
Quiet == ~OnItsWay /\ offline = {}

(* A comment that reaches a tab twice, by the answer to its own request, by   *)
(* the socket or with the list, is in none of the tab's lists twice, whatever *)
(* overtakes what.                                                            *)
ShownOnce ==
  \A t \in Readers : \A list \in {view[t].section, view[t].copy, view[t].cached} :
    Cardinality(Ids(list)) = Len(list)

(* When people act one after the other, every open section ends up with what  *)
(* the database holds, edits and deletions by others while the tab had no     *)
(* connection included.                                                       *)
ThreadSettles ==
  (Quiet /\ ~hasty) =>
    \A t \in Readers : view[t].open => Range(view[t].section) = Range(thread)

(* And every tile shows their number, on tabs that have the card open and on  *)
(* tabs that do not, as long as nobody deletes a comment.                     *)
BadgeIsRight ==
  (Quiet /\ ~hasty /\ ~someDeleted) =>
    \A t \in Readers : view[t].number = Len(thread)

(* Every list shows each comment of the database, shows it once, and the tile *)
(* says how many they are.                                                    *)
CommentsInStep == ShownOnce /\ ThreadSettles /\ BadgeIsRight

(* "a comment count and an attachment count" (docs, 04.cards.md): the number  *)
(* on the tile is that of the card's comments, also after one was deleted.    *)
BadgeCounts == (Quiet /\ ~hasty) => \A t \in Readers : view[t].number = Len(thread)

(* "Re-fetching when the card opens closes that gap" (CommentSection.vue): an *)
(* open section shows every comment, also one made while it was opening.      *)
OpenShowsAll ==
  Quiet => \A t \in Readers : view[t].open => Range(thread) \subseteq Range(view[t].section)
=============================================================================
