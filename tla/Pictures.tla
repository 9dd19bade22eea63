-------------------------------- MODULE Pictures --------------------------------
(* The pictures people put into texts, covers and profiles                    *)
(* (app/components/CardEditor.vue, InputImage.vue, api/upload/image.post.ts), *)
(* and the three migrations that store those there are anew                   *)
(* (app/lib/databaseSetup.ts, 0022 to 0024): the server answers while they    *)
(* run, they may be killed half way, and two processes may be at it where the *)
(* wait for the lock was given up.  A row names one picture at most.          *)

EXTENDS Naturals, Sequences, FiniteSets

CONSTANTS
  Upgraders,        \* processes
  Authors,          \* people with an editor
  MaxStored,        \* bound: files ever stored
  PictureBudgets    \* bounds: starts of processes, kills, and what people do

Table == [profile |-> "user", cover |-> "boards", text |-> "cards", file |-> "attachments",
          comment |-> "comments", reply |-> "comments",
          notice |-> "notifications", heard |-> "notifications"]
PictureRows == DOMAIN Table
Comments == {"comment", "reply"}

(* What the comment, and the notice that copies it, say beside the picture.   *)
Words == {"", "look"}

VARIABLES
  stored,           \* every file there ever was, by name: the picture it is of
                    \* (known by its first name) and how it is encoded
  disk,             \* names of the files there are
  there,            \* rows there are
  names,            \* the file each of them names
  says,             \* the words of comments and notices
  upgraded,         \* migrations recorded
  upgrader,         \* per process: the migration, and how far it is
  editor,           \* per person: the row, the name in the text, was it loaded before
                    \* or while a migration ran
  meant,            \* per row: the picture somebody last put there
  atRisk,           \* rows saved in a way no migration could have known of
  broken,           \* notices whose file went before the upgrade
  reworded,         \* a comment was edited or deleted
  picturesLeft      \* what is left of the bounds

pictureVars == <<stored, disk, there, names, says, upgraded, upgrader, editor, meant, atRisk,
                 broken, reworded, picturesLeft>>

NoName == 0
NotUpgrading == [step |-> "down", m |-> 22, i |-> 1, rows |-> {}, pending |-> {}, renamed |-> {},
                 olds |-> {}, row |-> "file", name |-> NoName]
NoEditor == [step |-> "closed", row |-> "file", name |-> NoName, old |-> FALSE]

(* An instance from before 0022, or one where the 0023 that was shipped first *)
(* has run: it removed a file that a notice still names.                      *)
PictureInit(rows, start, spoken, before) ==
  /\ stored = IF before = 22 THEN <<[of |-> 1, as |-> "sent"], [of |-> 2, as |-> "sent"]>>
              ELSE <<[of |-> 1, as |-> "sent"], [of |-> 1, as |-> "webp"]>>
  /\ disk = IF before = 22 THEN {1, 2} ELSE {2}
  /\ there = rows /\ names = start /\ says = spoken
  /\ upgraded = 22..(before - 1)
  /\ upgrader = [u \in Upgraders |-> NotUpgrading]
  /\ editor = [a \in Authors |-> NoEditor]
  /\ meant = [r \in PictureRows |-> IF before = 22 THEN start[r] ELSE 1]
  /\ broken = {r \in rows : start[r] # NoName /\ start[r] \notin disk}
  /\ atRisk = {} /\ reworded = FALSE
  /\ picturesLeft \in PictureBudgets

PictureSpends(what) ==
  picturesLeft[what] > 0 /\ picturesLeft' = [picturesLeft EXCEPT ![what] = @ - 1]

(* A new name is drawn at random: it is nobody's yet.                         *)
NewName == Len(stored) + 1
StoreAs(of, as) ==
  /\ NewName <= MaxStored
  /\ stored' = Append(stored, [of |-> of, as |-> as])
  /\ disk' = disk \union {NewName}

ReplyRows == {"reply", "heard"}
Typed == {"text", "comment", "reply"}      \* what CardEditor writes
Unasked == Typed \union {"notice", "heard"} \* whom 0022 does not ask

(* toWebp, widthFor: what people upload is stored as WebP, a profile small.   *)
Encoded(r) == IF r = "profile" THEN "small" ELSE "webp"

(* A file that is asked for is sent, or is not there.                         *)
Shows(n) == n \in disk

-----------------------------------------------------------------------------
(* People.  A picture that is picked is uploaded, and named in the editor.    *)

Converting == \E u \in Upgraders : upgrader[u].step # "down"
Edits(a) == editor[a].step = "open"
PeopleOnly == UNCHANGED <<upgraded, upgrader, broken>>

LoadText(a, r) ==
  /\ editor[a] = NoEditor /\ PictureSpends("acts")
  /\ r \in there /\ r \in {"profile", "cover", "text", "comment"}
  /\ editor' = [editor EXCEPT ![a] = [step |-> "open", row |-> r, name |-> names[r],
                                     old |-> Converting \/ r \in atRisk]]
  /\ UNCHANGED <<stored, disk, there, names, says, meant, atRisk, reworded>> /\ PeopleOnly

WriteReply(a) ==
  /\ editor[a] = NoEditor /\ "reply" \notin there /\ PictureSpends("acts")
  /\ editor' = [editor EXCEPT ![a] = [NoEditor EXCEPT !.step = "open", !.row = "reply"]]
  /\ UNCHANGED <<stored, disk, there, names, says, meant, atRisk, reworded>> /\ PeopleOnly

UploadPicture(a) ==
  /\ Edits(a)
  /\ StoreAs(NewName, Encoded(editor[a].row))
  /\ editor' = [editor EXCEPT ![a].name = NewName, ![a].old = FALSE]
  /\ UNCHANGED <<there, names, says, meant, atRisk, reworded, picturesLeft>> /\ PeopleOnly

(* An address that is typed is taken as it is: any file there is, whoever     *)
(* else names it.                                                             *)
NamePicture(a, n) ==
  /\ Edits(a) /\ editor[a].row \in Typed /\ n \in disk \ {editor[a].name}
  /\ editor' = [editor EXCEPT ![a].name = n, ![a].old = Converting]
  /\ UNCHANGED <<stored, disk, there, names, says, meant, atRisk, reworded, picturesLeft>> /\ PeopleOnly

(* An upload that fails: the row takes the bytes themselves, and no file.     *)
EmbedPicture(a) ==
  /\ Edits(a) /\ editor[a].row \in {"profile", "cover"}
  /\ editor' = [editor EXCEPT ![a].name = NoName, ![a].old = FALSE]
  /\ UNCHANGED <<stored, disk, there, names, says, meant, atRisk, reworded, picturesLeft>> /\ PeopleOnly

PictureOf(n) == IF n = NoName THEN NoName ELSE stored[n].of
AtRiskIf(e, rows) == IF e.old /\ e.name # NoName THEN atRisk \union rows ELSE atRisk \ rows

(* A migration that has read the row and is about to write it back.           *)
Crossed(r) ==
  \E u \in Upgraders : \/ upgrader[u].step = "point" /\ upgrader[u].row = r
                       \/ upgrader[u].m = 22 /\ \E p \in upgrader[u].rows : p[1] = r

(* The whole text is saved, with the picture it had when it was loaded; one   *)
(* for a comment that is gone is refused.                                     *)
SaveText(a) ==
  LET e == editor[a] IN
  /\ Edits(a) /\ e.row # "reply"
  /\ editor' = [editor EXCEPT ![a] = NoEditor]
  /\ IF e.row \in there
     THEN /\ names' = [names EXCEPT ![e.row] = e.name]
          /\ meant' = [meant EXCEPT ![e.row] = PictureOf(e.name)]
          /\ atRisk' = IF Crossed(e.row) THEN atRisk \union {e.row} ELSE AtRiskIf(e, {e.row})
          /\ reworded' = (reworded \/ e.row = "comment")
     ELSE UNCHANGED <<names, meant, atRisk, reworded>>
  /\ UNCHANGED <<stored, disk, there, says, picturesLeft>> /\ PeopleOnly

(* comment POST: the comment, then the notice with a copy of its text.        *)
PostReply(a) ==
  /\ Edits(a) /\ editor[a].row = "reply" /\ "reply" \notin there
  /\ there' = there \union {"reply"}
  /\ names' = [names EXCEPT !["reply"] = editor[a].name]
  /\ meant' = [r \in PictureRows |-> IF r \in ReplyRows THEN PictureOf(editor[a].name) ELSE meant[r]]
  /\ atRisk' = AtRiskIf(editor[a], {"reply"})
  /\ \E w \in Words : says' = [says EXCEPT !["reply"] = w, !["heard"] = w]
  /\ editor' = [editor EXCEPT ![a].step = "telling"]
  /\ UNCHANGED <<stored, disk, reworded, picturesLeft>> /\ PeopleOnly

TellOfReply(a) ==
  /\ editor[a].step = "telling"
  /\ there' = there \union {"heard"}
  /\ names' = [names EXCEPT !["heard"] = editor[a].name]
  /\ atRisk' = AtRiskIf(editor[a], {"heard"})
  /\ editor' = [editor EXCEPT ![a] = NoEditor]
  /\ UNCHANGED <<stored, disk, says, meant, reworded, picturesLeft>> /\ PeopleOnly

(* comment DELETE: the notice stays.                                          *)
DeleteComment(r) ==
  /\ r \in Comments \intersect there /\ PictureSpends("acts")
  /\ there' = there \ {r} /\ reworded' = TRUE
  /\ UNCHANGED <<stored, disk, names, says, editor, meant, atRisk>> /\ PeopleOnly

(* attachment DELETE: the row, then its file, and no table is asked about it. *)
DetachFile(a) ==
  /\ editor[a] = NoEditor /\ "file" \in there /\ names["file"] # NoName /\ PictureSpends("acts")
  /\ there' = there \ {"file"}
  /\ editor' = [editor EXCEPT ![a] = [NoEditor EXCEPT !.step = "detached", !.name = names["file"]]]
  /\ UNCHANGED <<stored, disk, names, says, meant, atRisk, reworded>> /\ PeopleOnly

RemoveFile(a) ==
  LET n == editor[a].name IN
  /\ editor[a].step = "detached"
  /\ \/ disk' = disk \ {n} /\ atRisk' = atRisk \union {r \in there : names[r] = n}
     \/ UNCHANGED <<disk, atRisk>>
  /\ editor' = [b \in Authors |-> IF b = a THEN NoEditor
                                   ELSE [editor[b] EXCEPT !.old = @ \/ editor[b].name = n]]
  /\ UNCHANGED <<stored, there, names, says, meant, reworded, picturesLeft>> /\ PeopleOnly

-----------------------------------------------------------------------------
(* The migrations, a statement or a file at a time.                           *)

(* What is read at first, and who is asked before a file is removed.          *)
Reads(m) == IF m = 22 THEN <<"user">> ELSE IF m = 24 THEN <<"notifications">>
            ELSE <<"boards", "cards", "comments", "notifications">>

(* A slip: attachments, which are never rewritten, are not asked about.       *)
AsksWhatWasRead(m) == <<"boards", "user", "cards", "comments", "notifications">>
Asks(m) == IF m = 22 THEN <<"user", "boards", "attachments">>
           ELSE <<"boards", "user", "cards", "comments", "attachments", "notifications">>

First(n, set) == n \in set /\ \A m \in set : n <= m

At(u, step) == upgrader[u].step = step
To(u, state) == upgrader' = [upgrader EXCEPT ![u] = state]
UpgradeOnly == UNCHANGED <<there, says, editor, meant, reworded>>
RowsStay == UNCHANGED <<names, atRisk, broken>>

StartUpgrade(u) ==
  /\ At(u, "down") /\ upgraded # 22..24 /\ PictureSpends("starts")
  /\ To(u, [NotUpgrading EXCEPT !.step = "list",
              !.m = CHOOSE m \in 22..24 : upgraded = 22..(m - 1)])
  /\ editor' = [a \in Authors |-> [editor[a] EXCEPT !.old = editor[a].name # NoName]]
  /\ UNCHANGED <<stored, disk, there, names, says, upgraded, meant, atRisk, broken, reworded>>

ListRows(u) ==
  LET at == upgrader[u]
      found == {<<r, names[r]>> : r \in {r \in there : Table[r] = Reads(at.m)[at.i] /\ names[r] # NoName}}
      all == at.rows \union found
  IN /\ At(u, "list")
     /\ To(u, IF at.i < Len(Reads(at.m)) THEN [at EXCEPT !.rows = all, !.i = @ + 1]
              ELSE [at EXCEPT !.rows = all, !.step = "work", !.i = 1,
                              !.pending = IF at.m = 23 THEN {p[2] : p \in all} ELSE {}])
     /\ UNCHANGED <<stored, disk, upgraded, picturesLeft>> /\ UpgradeOnly /\ RowsStay

(* 0022.  Unreadable, no picture, or small already: it is passed over.        *)
PassOver(u, p) ==
  /\ At(u, "work") /\ upgrader[u].m = 22 /\ p \in upgrader[u].rows
  /\ To(u, [upgrader[u] EXCEPT !.rows = @ \ {p}])
  /\ UNCHANGED <<stored, disk, upgraded, picturesLeft>> /\ UpgradeOnly /\ RowsStay

ShrinkProfile(u, p) ==
  /\ At(u, "work") /\ upgrader[u].m = 22 /\ p \in upgrader[u].rows
  /\ p[2] \in disk /\ stored[p[2]].as # "small"
  /\ StoreAs(stored[p[2]].of, "small")
  /\ To(u, [upgrader[u] EXCEPT !.rows = @ \ {p}, !.row = p[1], !.name = NewName, !.olds = {p[2]},
                               !.step = "point"])
  /\ UNCHANGED <<upgraded, picturesLeft>> /\ UpgradeOnly /\ RowsStay

(* 0023.  Each file that is named is stored anew, or left as it is, ...       *)
LeaveFile(u, n) ==
  /\ At(u, "work") /\ First(n, upgrader[u].pending)
  /\ To(u, [upgrader[u] EXCEPT !.pending = @ \ {n}])
  /\ UNCHANGED <<stored, disk, upgraded, picturesLeft>> /\ UpgradeOnly /\ RowsStay

ConvertFile(u, n) ==
  /\ At(u, "work") /\ First(n, upgrader[u].pending)
  /\ n \in disk /\ stored[n].as = "sent"
  /\ StoreAs(stored[n].of, "webp")
  /\ To(u, [upgrader[u] EXCEPT !.pending = @ \ {n}, !.renamed = @ \union {<<n, NewName>>},
                               !.olds = @ \union {n}])
  /\ UNCHANGED <<upgraded, picturesLeft>> /\ UpgradeOnly /\ RowsStay

(* ... then each row, table after table, is read again, ...                   *)
PlaceOf(r) == CHOOSE i \in DOMAIN Reads(23) : Reads(23)[i] = Table[r]

ReadAnew(u, p) ==
  LET at == upgrader[u]
      new == {q \in at.renamed : q[1] = names[p[1]]}
      rest == [at EXCEPT !.rows = @ \ {p}]
  IN /\ At(u, "work") /\ at.m = 23 /\ at.pending = {} /\ at.renamed # {}
     /\ p \in at.rows /\ \A q \in at.rows : PlaceOf(p[1]) <= PlaceOf(q[1])
     /\ To(u, IF p[1] \in there /\ new # {}
              THEN [rest EXCEPT !.step = "point", !.row = p[1], !.name = (CHOOSE q \in new : TRUE)[2]]
              ELSE rest)
     /\ UNCHANGED <<stored, disk, upgraded, picturesLeft>> /\ UpgradeOnly /\ RowsStay

(* ... and written.  0024 writes a notice, 0022 a profile in the same way.    *)
PointRow(u) ==
  LET at == upgrader[u] IN
  /\ At(u, "point")
  /\ IF at.row \in there
     THEN /\ names' = [names EXCEPT ![at.row] = at.name]
          /\ broken' = broken \ {at.row}
          /\ atRisk' = IF at.m = 24 /\ (reworded \/ Comments \intersect atRisk # {})
                       THEN atRisk \union {at.row} ELSE atRisk
     ELSE RowsStay
  /\ To(u, [at EXCEPT !.step = IF at.m = 22 THEN "ask" ELSE "work"])
  /\ UNCHANGED <<stored, disk, upgraded, picturesLeft>> /\ UpgradeOnly

(* An old file is asked about table by table, and goes if no row names it.    *)
Rewritten(at) == at.pending = {} /\ (at.rows = {} \/ at.renamed = {})

AskAbout(u) ==
  /\ At(u, "work") /\ upgrader[u].m = 23 /\ Rewritten(upgrader[u]) /\ upgrader[u].olds # {}
  /\ To(u, [upgrader[u] EXCEPT !.step = "ask"])
  /\ UNCHANGED <<stored, disk, upgraded, picturesLeft>> /\ UpgradeOnly /\ RowsStay

AskTable(u, n) ==
  LET at == upgrader[u]
      used == \E r \in there : Table[r] = Asks(at.m)[at.i] /\ names[r] = n
  IN /\ At(u, "ask") /\ First(n, at.olds)
     /\ To(u, IF used THEN [at EXCEPT !.step = "work", !.olds = @ \ {n}, !.i = 1]
              ELSE IF at.i < Len(Asks(at.m)) THEN [at EXCEPT !.name = n, !.i = @ + 1]
              ELSE [at EXCEPT !.name = n, !.step = "unlink", !.i = 1])
     /\ UNCHANGED <<stored, disk, upgraded, picturesLeft>> /\ UpgradeOnly /\ RowsStay

Unlink(u) ==
  LET at == upgrader[u]
      shown == {r \in Unasked \intersect there : at.m = 22 /\ names[r] = at.name}
  IN
  /\ At(u, "unlink")
  /\ \/ disk' = disk \ {at.name} /\ atRisk' = atRisk \union shown
     \/ UNCHANGED <<disk, atRisk>>
  /\ To(u, [at EXCEPT !.step = "work", !.olds = @ \ {at.name}])
  /\ UNCHANGED <<stored, names, broken, upgraded, picturesLeft>> /\ UpgradeOnly

(* 0024: a notice whose file is gone takes the picture of the comment whose   *)
(* words it ends with, if the comments that fit all name the same one.        *)
Fitting(r) ==
  {names[c] : c \in {c \in Comments \intersect there : names[c] # NoName /\ says[c] \in {"", says[r]}}}

RepairNotice(u, p) ==
  LET at == upgrader[u]
      rest == [at EXCEPT !.rows = @ \ {p}]
  IN /\ At(u, "work") /\ at.m = 24 /\ p \in at.rows
     /\ To(u, IF ~Shows(p[2]) /\ Cardinality(Fitting(p[1])) = 1
              THEN [rest EXCEPT !.step = "point", !.row = p[1],
                                !.name = CHOOSE n \in Fitting(p[1]) : TRUE]
              ELSE rest)
     /\ UNCHANGED <<stored, disk, upgraded, picturesLeft>> /\ UpgradeOnly /\ RowsStay

(* Recorded when it is through, and on to the next; the id is the key of the  *)
(* table, and a second one is refused.                                        *)
RecordUpgrade(u) ==
  LET at == upgrader[u] IN
  /\ At(u, "work") /\ Rewritten(at) /\ at.olds = {} /\ (at.m = 23 \/ at.rows = {})
  /\ upgraded' = upgraded \union {at.m}
  /\ To(u, IF at.m \in upgraded \/ at.m = 24 THEN NotUpgrading
           ELSE [NotUpgrading EXCEPT !.step = "list", !.m = at.m + 1])
  /\ UNCHANGED <<stored, disk, picturesLeft>> /\ UpgradeOnly /\ RowsStay

KillUpgrade(u) ==
  /\ ~At(u, "down") /\ PictureSpends("kills")
  /\ To(u, NotUpgrading)
  /\ UNCHANGED <<stored, disk, upgraded>> /\ UpgradeOnly /\ RowsStay

UpgradeStep(u) ==
  \/ ListRows(u) \/ PointRow(u) \/ AskAbout(u) \/ Unlink(u) \/ RecordUpgrade(u)
  \/ \E p \in upgrader[u].rows :
       PassOver(u, p) \/ ShrinkProfile(u, p) \/ ReadAnew(u, p) \/ RepairNotice(u, p)
  \/ \E n \in upgrader[u].pending : LeaveFile(u, n) \/ ConvertFile(u, n)
  \/ \E n \in upgrader[u].olds : AskTable(u, n)

PictureNext ==
  \/ \E a \in Authors :
       \/ \E r \in PictureRows : LoadText(a, r)
       \/ WriteReply(a) \/ UploadPicture(a) \/ EmbedPicture(a) \/ SaveText(a)
       \/ PostReply(a) \/ TellOfReply(a) \/ DetachFile(a) \/ RemoveFile(a)
       \/ \E n \in disk : NamePicture(a, n)
  \/ \E r \in Comments : DeleteComment(r)
  \/ \E u \in Upgraders : StartUpgrade(u) \/ UpgradeStep(u) \/ KillUpgrade(u)

-----------------------------------------------------------------------------
(* "A picture that still shows is better than a broken one"                   *)
(* (databaseSetup.ts:825): whatever is converted, killed and begun again, and *)
(* whatever is written and posted meanwhile, every row names a file that is   *)
(* there, of the picture somebody put there; but not a row saved from a text  *)
(* that was loaded earlier or named an address meanwhile, or saved between a  *)
(* migration's reading and writing it; not a card, a comment or a notice that *)
(* names a profile's old file, which 0022 removes without asking them         *)
(* (databaseSetup.ts 806 says "only once nothing else names it"); no row that *)
(* names the file of an attachment somebody deleted, as nobody is asked; and  *)
(* no notice repaired after a comment was edited or deleted, or is excepted.  *)
PicturesStay ==
  \A r \in there \ (atRisk \union broken) :
    names[r] # NoName => Shows(names[r]) /\ stored[names[r]].of = meant[r]

(* When 0024 is through, a notice that showed nothing shows its comment's     *)
(* picture again, if no comment was changed and none but its own fits.        *)
NoticesAreRepaired ==
  (24 \in upgraded /\ ~reworded /\ "reply" \notin there) => broken = {}

PicturesAreKept == PicturesStay /\ NoticesAreRepaired

(* "A broken picture is better than a wrong one" (databaseSetup.ts): it does  *)
(* not hold (README), as the words of a comment are not its name.             *)
NoWrongPicture ==
  \A r \in there : names[r] # NoName => stored[names[r]].of = meant[r] \/ r \in {"profile", "cover"}
=============================================================================
