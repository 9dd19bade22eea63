------------------------------- MODULE OpenCard --------------------------------
(* One card open in the dialog of several tabs (app/components/CardModal.vue).*)
(* Every edit saves the whole card (card PUT), and the answer is passed on to *)
(* the other tabs, which take it over.  A dialog saves whenever its           *)
(* description changes, whoever changed it, so a change taken over is saved   *)
(* again.  `Unsaid` stands for a field a message does not have.               *)

EXTENDS Naturals, FiniteSets, Sequences

CONSTANTS
  Editors,        \* tabs with the card open
  FirstText, Texts, NoText,  \* descriptions; NoText is the empty one
  Unsaid,
  OpenFiles,      \* attachments the card has
  ByKey,          \* may a caller with an API key save the card too
  EditsCross,     \* may a person edit while anything is on its way
  MaxEditsOfCard, \* bound: edits
  MaxAway         \* bound: times a tab loses its connection

ASSUME OpenCardAssumption ==
  /\ FirstText \in Texts \cup {NoText}
  /\ Unsaid \notin Texts \cup {NoText} /\ Unsaid \notin BOOLEAN

VARIABLES
  row,        \* the card in the database: text, done, due, files
  dialog,     \* per tab: the same fields as the dialog has them
  writing,    \* per tab: is the description open in the editor
  saves,      \* PUT requests under way
  telling,    \* answers being passed on by the socket
  hears,      \* per tab: messages on their way to it
  away,       \* tabs that lost their connection
  rereads,    \* the card being read again by tabs that are back
  cardLeft,   \* what is left of the bounds
  said,       \* what people last said of the text, the tick and the date
  mixed,      \* an edit was made before earlier ones had settled, or by a tab
              \* that was behind; an attachment was taken off while a tab was
              \* behind; or an answer was taken over too late
  behind      \* tabs that were not told of a change and have not read since

openVars ==
  <<row, dialog, writing, saves, telling, hears, away, rereads, cardLeft, said, mixed, behind>>

FirstCopy == [text |-> FirstText, done |-> TRUE, due |-> FALSE, files |-> OpenFiles]

OpenInit ==
  /\ row = FirstCopy
  /\ dialog = [t \in Editors |-> FirstCopy]
  /\ writing = [t \in Editors |-> FALSE]
  /\ saves = {} /\ telling = {}
  /\ hears = [t \in Editors |-> << >>]
  /\ away = {} /\ rereads = {} /\ behind = {}
  /\ cardLeft = [edits |-> MaxEditsOfCard, away |-> MaxAway]
  /\ said = [text |-> FirstText, done |-> TRUE, due |-> FALSE]
  /\ mixed = FALSE

Traffic == saves # {} \/ telling # {} \/ \E t \in Editors : hears[t] # << >>
Underway == Traffic \/ rereads # {}

-----------------------------------------------------------------------------
(* saveCard: the fields as the dialog has them; one that is undefined is not  *)
(* in the request.                                                            *)
SaveOf(t, d) == [by |-> t, text |-> d.text, done |-> d.done, due |-> d.due]

(* An edit changes the dialog and saves it.                                   *)
Edit(t, d) ==
  /\ cardLeft.edits > 0
  /\ EditsCross \/ ~Traffic
  /\ cardLeft' = [cardLeft EXCEPT !.edits = @ - 1]
  /\ mixed' = (mixed \/ Traffic \/ t \in behind)
  /\ dialog' = [dialog EXCEPT ![t] = d]
  /\ saves' = saves \cup {SaveOf(t, d)}
  /\ UNCHANGED <<row, telling, hears, away, rereads, behind>>

(* A box of the checklist, or the editor losing its focus.                    *)
EditText(t) ==
  \E w \in Texts \ {dialog[t].text} :
    /\ Edit(t, [dialog[t] EXCEPT !.text = w])
    /\ said' = [said EXCEPT !.text = w]
    /\ UNCHANGED writing

ToggleStatus(t) ==
  /\ Edit(t, [dialog[t] EXCEPT !.done = (@ # TRUE)])
  /\ said' = [said EXCEPT !.done = (dialog[t].done # TRUE)]
  /\ UNCHANGED writing

ClearOrSetDue(t) ==
  /\ Edit(t, [dialog[t] EXCEPT !.due = ~@])
  /\ said' = [said EXCEPT !.due = ~dialog[t].due]
  /\ UNCHANGED writing

(* "Edit description", and its save button.                                   *)
OpenEditor(t) ==
  /\ cardLeft.away > 0
  /\ writing' = [writing EXCEPT ![t] = ~@]
  /\ UNCHANGED <<row, dialog, saves, telling, hears, away, rereads, cardLeft, said, mixed, behind>>

(* deleteAttachment: the row goes, and the others are sent the number of      *)
(* attachments and the ones that are left, and nothing else of the card.      *)
DeleteAttachment(t) ==
  \E f \in dialog[t].files :
    /\ cardLeft.edits > 0 /\ t \notin away
    /\ EditsCross \/ ~Traffic
    /\ cardLeft' = [cardLeft EXCEPT !.edits = @ - 1]
    /\ mixed' = (mixed \/ Traffic \/ behind # {})
    /\ row' = [row EXCEPT !.files = @ \ {f}]
    /\ dialog' = [dialog EXCEPT ![t].files = @ \ {f}]
    /\ telling' = telling \cup {[by |-> t, text |-> Unsaid, done |-> Unsaid, due |-> Unsaid,
                                 files |-> dialog[t].files \ {f}]}
    /\ UNCHANGED <<writing, saves, hears, away, rereads, said, behind>>

-----------------------------------------------------------------------------
(* card PUT: a description that is not there is stored as an empty one, a     *)
(* tick that is not there as none, a date that is not there as none.          *)
Stored(r) ==
  [row EXCEPT !.text = IF r.text = Unsaid THEN NoText ELSE r.text,
              !.done = r.done = TRUE,
              !.due = r.due = TRUE]

(* The answer, told on: the row as it is, and the files the dialog has.       *)
Put(r) ==
  /\ r \in saves
  /\ saves' = saves \ {r}
  /\ row' = Stored(r)
  /\ telling' = telling \cup {[by |-> r.by, text |-> Stored(r).text, done |-> Stored(r).done,
                               due |-> Stored(r).due, files |-> dialog[r.by].files]}
  /\ UNCHANGED <<dialog, writing, hears, away, rereads, cardLeft, said, mixed, behind>>

(* The same handler called with an API key: what it tells goes to the room    *)
(* named after a column its query does not have, where nobody is.             *)
PutByKey ==
  \E w \in Texts \ {row.text} :
    /\ ByKey /\ cardLeft.edits > 0
    /\ EditsCross \/ ~Traffic
    /\ cardLeft' = [cardLeft EXCEPT !.edits = @ - 1]
    /\ mixed' = (mixed \/ Traffic)
    /\ row' = [row EXCEPT !.text = w]
    /\ said' = [said EXCEPT !.text = w]
    /\ behind' = Editors
    /\ UNCHANGED <<dialog, writing, saves, telling, hears, away, rereads>>

PassOn(m) ==
  /\ m \in telling /\ m.by \notin away
  /\ telling' = telling \ {m}
  /\ hears' = [t \in Editors |-> IF t = m.by \/ t \in away THEN hears[t] ELSE Append(hears[t], m)]
  /\ behind' = behind \cup (away \ {m.by})
  /\ UNCHANGED <<row, dialog, writing, saves, away, rereads, cardLeft, said, mixed>>

(* A slip: a date that was taken away is not.                                 *)
TakenIfSet(d, m) ==
  [text |-> m.text, done |-> m.done,
   due |-> IF m.due = TRUE THEN TRUE ELSE d.due,
   files |-> m.files]

(* handleCardUpdated: the text and the tick as they come, the others when     *)
(* they are there.                                                            *)
Taken(d, m) ==
  [text |-> m.text, done |-> m.done,
   due |-> IF m.due = Unsaid THEN d.due ELSE m.due,
   files |-> m.files]

(* A slip: every message is saved, whether or not it changed the text.        *)
TakeOverAlways(t, m, pending) ==
  /\ dialog' = [dialog EXCEPT ![t] = Taken(dialog[t], m)]
  /\ saves' = pending \cup {SaveOf(t, Taken(dialog[t], m))}

(* The watcher on the description saves the dialog when it has changed.       *)
TakeOver(t, m, pending) ==
  LET d == Taken(dialog[t], m)
  IN  /\ dialog' = [dialog EXCEPT ![t] = d]
      /\ saves' = IF d.text # dialog[t].text THEN pending \cup {SaveOf(t, d)} ELSE pending

HearUpdate(t) ==
  /\ hears[t] # << >> /\ t \notin away
  /\ hears' = [hears EXCEPT ![t] = Tail(@)]
  /\ TakeOver(t, Head(hears[t]), saves)
  /\ UNCHANGED <<row, writing, telling, away, rereads, cardLeft, said, mixed, behind>>

LoseLine(t) ==
  /\ cardLeft.away > 0 /\ t \notin away
  /\ cardLeft' = [cardLeft EXCEPT !.away = @ - 1]
  /\ away' = away \cup {t}
  /\ behind' = IF hears[t] # << >> THEN behind \cup {t} ELSE behind
  /\ hears' = [hears EXCEPT ![t] = << >>]
  /\ UNCHANGED <<row, dialog, writing, saves, telling, rereads, said, mixed>>

(* resyncCard: the card is asked for again, unless its description is being   *)
(* written at that moment.                                                    *)
ComeBack(t) ==
  /\ t \in away
  /\ away' = away \ {t}
  /\ rereads' = IF writing[t] THEN rereads
                ELSE rereads \cup {[by |-> t, no |-> cardLeft.away, answer |-> Unsaid]}
  /\ UNCHANGED <<row, dialog, writing, saves, telling, hears, cardLeft, said, mixed, behind>>

(* card GET: the row as it is now, and the attachments, which are asked for   *)
(* right after it and read here with it.                                      *)
Answer(f) ==
  /\ f \in rereads /\ f.answer = Unsaid
  /\ rereads' = (rereads \ {f}) \cup {[f EXCEPT !.answer = row]}
  /\ UNCHANGED <<row, dialog, writing, saves, telling, hears, away, cardLeft, said, mixed, behind>>

(* The answer is taken over when it comes, whatever was heard or edited since *)
(* and even if the description is being written by then.  It comes too late   *)
(* when the row has changed, or is about to.                                  *)
TooLate(f) == f.answer # row \/ \E r \in saves : Stored(r) # row
TakeFresh(f) ==
  /\ f \in rereads /\ f.answer # Unsaid
  /\ rereads' = rereads \ {f}
  /\ TakeOver(f.by, f.answer, saves)
  /\ behind' = behind \ {f.by}
  /\ mixed' = (mixed \/ TooLate(f))
  /\ UNCHANGED <<row, writing, telling, hears, away, cardLeft, said>>

(* "Could not refresh the card": the dialog stays as it was.                  *)
RereadFails(f) ==
  /\ f \in rereads
  /\ rereads' = rereads \ {f}
  /\ UNCHANGED <<row, dialog, writing, saves, telling, hears, away, cardLeft, said, mixed, behind>>

OpenNext ==
  \/ \E t \in Editors : EditText(t) \/ ToggleStatus(t) \/ ClearOrSetDue(t) \/ OpenEditor(t)
                        \/ DeleteAttachment(t) \/ HearUpdate(t) \/ LoseLine(t) \/ ComeBack(t)
  \/ \E r \in saves : Put(r)
  \/ \E m \in telling : PassOn(m)
  \/ \E f \in rereads : Answer(f) \/ TakeFresh(f) \/ RereadFails(f)
  \/ PutByKey

OpenFairness ==
  /\ \A t \in Editors : WF_openVars(HearUpdate(t)) /\ WF_openVars(ComeBack(t))
  /\ WF_openVars(\E r \in saves : Put(r))
  /\ WF_openVars(\E m \in telling : PassOn(m))
  /\ WF_openVars(\E f \in rereads : Answer(f) \/ TakeFresh(f))

OpenSpec == OpenInit /\ [][OpenNext]_openVars /\ OpenFairness

-----------------------------------------------------------------------------
OpenTypeOK ==
  /\ row.text \in Texts \cup {NoText} /\ row.done \in BOOLEAN /\ row.due \in BOOLEAN
  /\ \A t \in Editors : dialog[t].files \subseteq OpenFiles /\ dialog[t].due \in BOOLEAN

Blanked == \E t \in Editors : dialog[t].text = Unsaid \/ dialog[t].done = Unsaid
Removed == row.files # OpenFiles

(* When edits are made one after the other and no attachment has been         *)
(* deleted, the saves that dialogs make of what they took over do no harm:    *)
(* once nothing is under way, the card and every dialog that missed nothing   *)
(* say what was said last.  Tabs may be away while others edit, come back and *)
(* read the card meanwhile.  Excused is what `mixed` names: an edit made      *)
(* before the one before it has gone round, or by a tab that missed one; and  *)
(* an answer of resyncCard overtaken by a save, which it undoes.              *)
LastSaidStays ==
  (~Traffic /\ ~mixed /\ ~Removed) =>
    /\ row.text = said.text /\ row.done = said.done /\ row.due = said.due
    /\ \A t \in Editors \ behind : dialog[t] = row

(* Deleting an attachment changes the number of attachments                   *)
(* (CardModal.vue: "Keep the board tile's attachment count (and other         *)
(* viewers) in sync") and nothing else: the description stays.                *)
TextSurvivesRemoval == (~Traffic /\ ~mixed) => row.text = said.text

(* What dialogs save of what they took over dies down, when edits are made    *)
(* one after the other.                                                       *)
EchoesEnd == <>[](~Underway) \/ <>mixed

(* And also when a second edit follows before the first has gone round ("Set  *)
(* up socket event listener for card updates (from other users)",             *)
(* CardModal.vue: a dialog that only listens has nothing to say).             *)
ListenersFallSilent == <>[](~Underway)

(* "Emit socket event for card update (only for API calls, not frontend)"     *)
(* (card.ts): a save with an API key reaches the dialogs.                     *)
KeySaveIsHeard ==
  (~Traffic /\ ~mixed /\ ~Removed /\ cardLeft.away = MaxAway) =>
    \A t \in Editors : dialog[t].text = row.text
=============================================================================
