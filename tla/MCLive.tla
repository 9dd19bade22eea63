------------------------------- MODULE MCLive -------------------------------
(* What the server must come to in the end: mail, reminders, a start after an *)
(* upgrade that was cut short; dialogs that save what they hear; and pictures *)
(* that migrations store anew.  A behaviour is one of a single part, drawn at *)
(* the start; the others rest.  There is no symmetry, unsound here.           *)
EXTENDS NotificationMail, Reminders, Startup, OpenCard, Pictures

VARIABLE part

Up(ran, kills, waits) == [behind |-> ran, kills |-> kills, waits |-> waits]
LateUpgrades == {Up(30, 1, 0), Up(33, 1, 1)}

(* Somebody writes while one process upgrades, once or twice; or two upgrade, *)
(* and one may be killed.                                                     *)
PictureUse(starts, kills, acts) == [starts |-> starts, kills |-> kills, acts |-> acts]
Uses == {PictureUse(1, 0, 1), PictureUse(1, 0, 2), PictureUse(2, 1, 0)}

StartRests == StartInit /\ admin.rows = 0 /\ spare = CHOOSE u \in Upgrades : TRUE
Named(profile, cover, text, file, comment, notice) ==
  [profile |-> profile, cover |-> cover, text |-> text, file |-> file,
   comment |-> comment, notice |-> notice, reply |-> NoName, heard |-> NoName]
NotYet == {"reply", "heard"}
Spoken == [r \in PictureRows |-> IF r \in NotYet THEN "" ELSE "look"]
FromThen(rows, start, before) == PictureInit(rows \ NotYet, start, Spoken, before)

(* A cover, a profile, a text and an attachment that share a file, or do not; *)
(* and a notice that the first 0023 left behind.                              *)
PicturesInit ==
  \/ /\ \/ FromThen({"profile", "text"}, Named(2, NoName, 2, NoName, NoName, NoName), 22)
        \/ FromThen({"cover", "file", "comment", "notice"}, Named(NoName, 1, NoName, 1, 1, 1), 22)
     /\ picturesLeft.acts = 1
  \/ /\ FromThen({"file", "comment", "notice"}, Named(NoName, NoName, NoName, 2, 2, 1), 24)
     /\ picturesLeft.acts = 2
  \/ /\ \/ FromThen({"text", "notice"}, Named(NoName, NoName, 1, NoName, NoName, 1), 22)
        \/ FromThen({"profile", "cover"}, Named(2, 2, NoName, NoName, NoName, NoName), 22)
     /\ picturesLeft.acts = 0
PicturesRest ==
  /\ PictureInit({}, [r \in PictureRows |-> NoName], Spoken, 22)
  /\ picturesLeft = PictureUse(1, 0, 1)
MailRests == MailInit /\ wants = [u \in Users |-> TRUE]

MCInit ==
  /\ ReminderInit /\ OpenInit
  /\ \/ part = "mail" /\ MailInit /\ StartRests /\ PicturesRest
     \/ part = "startup" /\ MailRests /\ StartInit /\ PicturesRest
     \/ part \in {"reminders", "card"} /\ MailRests /\ StartRests /\ PicturesRest
     \/ part = "pictures" /\ MailRests /\ StartRests /\ PicturesInit

MCNext ==
  /\ UNCHANGED part
  /\ \/ part = "mail" /\ MailNext /\ UNCHANGED <<reminderVars, startVars, openVars, pictureVars>>
     \/ part = "reminders" /\ ReminderNext /\ UNCHANGED <<mailVars, startVars, openVars, pictureVars>>
     \/ part = "startup" /\ StartNext /\ UNCHANGED <<mailVars, reminderVars, openVars, pictureVars>>
     \/ part = "card" /\ OpenNext /\ UNCHANGED <<mailVars, reminderVars, startVars, pictureVars>>
     \/ part = "pictures" /\ PictureNext /\ UNCHANGED <<mailVars, reminderVars, startVars, openVars>>

(* The fairness each part's specification states, of the part that was drawn. *)
MCFairness ==
  /\ \A r \in Runs : WF_mailVars(part = "mail" /\ Work(r))
  /\ \A s \in ReminderSweepers : WF_reminderVars(part = "reminders" /\ SweepStep(s))
  /\ \A p \in Servers : WF_startVars(part = "startup" /\ ServerStep(p))
  /\ \A t \in Editors : WF_openVars(part = "card" /\ HearUpdate(t))
                        /\ WF_openVars(part = "card" /\ ComeBack(t))
  /\ WF_openVars(part = "card" /\ \E r \in saves : Put(r))
  /\ WF_openVars(part = "card" /\ \E m \in telling : PassOn(m))
  /\ WF_openVars(part = "card" /\ \E f \in rereads : Answer(f) \/ TakeFresh(f))

MCSpec ==
  MCInit /\ [][MCNext]_<<part, mailVars, reminderVars, startVars, openVars, pictureVars>> /\ MCFairness
=============================================================================
