-------------------------------- MODULE Archive -------------------------------
(* How the things of one board are put away, brought back and destroyed.      *)
(* Archiving sets archivedAt and nothing else.  Destroying is a sequence of   *)
(* statements without a transaction (server/utils/cardCleanup.ts and          *)
(* boardCleanup.ts), begun by a person or by the nightly sweep for whatever   *)
(* has been archived longer than the retention period (archiveRetention.ts).  *)
(* Uploaded files lie on the disk; rows of `attachments` name them.           *)

EXTENDS Naturals, FiniteSets

CONSTANTS
  Columns,
  ArchiveCards,     \* card ids; new cards take one that was never used
  Files,            \* names a stored file may get
  Requests,         \* requests and sweeps that may be under way at a time
  MaxRequestsMade   \* bound: requests and sweeps

ASSUME ArchiveAssumption ==
  /\ \E c, d \in ArchiveCards : c # d
  /\ \E a, b \in Columns : a # b
  /\ Files # {} /\ MaxRequestsMade \in Nat

VARIABLES
  boardAt, columnAt,  \* "shown", "archived", "expired" (archived long ago) or "gone"
  cardAt,             \* the same, or "unborn"
  column,             \* cards.area
  things,             \* cards that own rows: comments, reminders, activity, people, ...
  attached,           \* `attachments`: pairs of a card and a file
  stored,             \* the files on the disk
  job,
  requestsLeft,
  mixed,              \* something was changed while something else was destroyed
  byTool,             \* the tools deleteArea or deleteBoard have destroyed something
  back,               \* cards that came back since their column was put away
  unasked,            \* files removed without asking who else names them
  late                \* cards whose history got a line when its lines were past removing

archiveVars == <<boardAt, columnAt, cardAt, column, things, attached, stored, job,
                 requestsLeft, mixed, byTool, back, unasked, late>>
tables == <<boardAt, columnAt, cardAt, column, things, attached>>

NoJob == [step |-> "idle", kind |-> "none", cards |-> {}, columns |-> {}, names |-> {},
          queue |-> {}, then |-> "idle"]
PutAway(at) == at \in {"archived", "expired"}
Present(at) == at \in {"shown", "archived", "expired"}

(* Two cards, in two columns, and a stored file that the first one names.     *)
Card1 == CHOOSE c \in ArchiveCards : TRUE
Card2 == CHOOSE c \in ArchiveCards \ {Card1} : TRUE
Column1 == CHOOSE a \in Columns : TRUE
Column2 == CHOOSE a \in Columns \ {Column1} : TRUE
File1 == CHOOSE f \in Files : TRUE

(* Any of it may have been put away long ago, and the file may be named twice *)
(* as it could be before duplication copied files (cardCleanup.ts:77-80).     *)
ArchiveInit(old, pair) ==
  LET Then(x) == IF x \in old THEN "expired" ELSE "shown" IN
  /\ boardAt = Then("board")
  /\ columnAt = [a \in Columns |-> Then(a)]
  /\ cardAt = [c \in ArchiveCards |-> IF c \in {Card1, Card2} THEN Then(c) ELSE "unborn"]
  /\ column = [c \in ArchiveCards |-> IF c = Card2 THEN Column2 ELSE Column1]
  /\ things = {Card1, Card2}
  /\ attached = (IF pair THEN {Card1, Card2} ELSE {Card1}) \X {File1}
  /\ stored = {File1}
  /\ job = [p \in Requests |-> NoJob]
  /\ requestsLeft = MaxRequestsMade
  /\ mixed = FALSE
  /\ byTool = FALSE
  /\ back = {}
  /\ unasked = {}
  /\ late = {}

(* Names are random (upload.post.ts, card-duplicate.ts): a new one is nobody's *)
(* yet, not even in the hands of a removal.                                   *)
FreshName(f) ==
  /\ f \notin stored /\ \A r \in attached : r[2] # f
  /\ \A q \in Requests : f \notin job[q].names

JobAt(p, step) == job[p].step = step
AtRest(p) == JobAt(p, "idle")
Moves(p, step) == job' = [job EXCEPT ![p].step = step]
Finishes(p) == job' = [job EXCEPT ![p] = NoJob]
Removing(p) == job[p].kind # "none"

Starts(p, what) ==
  /\ AtRest(p)
  /\ requestsLeft > 0
  /\ requestsLeft' = requestsLeft - 1
  /\ job' = [job EXCEPT ![p] = what]

(* What is put somewhere while something is destroyed may be left behind.     *)
PutSteps == {"put", "attach", "copy"}
Mixes(p) == mixed' = (mixed \/ \E q \in Requests \ {p} : Removing(q))
MixesIn(p) == mixed' = (mixed \/ \E q \in Requests \ {p} : job[q].step \in PutSteps)

-----------------------------------------------------------------------------
(* Putting away: one statement, which leaves what is already archived alone.  *)

Once ==
  /\ requestsLeft > 0
  /\ requestsLeft' = requestsLeft - 1

(* The card is read, with its column and its board, then it is put away, ...  *)
ArchiveReads(p, c) ==
  /\ cardAt[c] = "shown" /\ columnAt[column[c]] # "gone" /\ boardAt # "gone"
  /\ Starts(p, [NoJob EXCEPT !.step = "archiveCard", !.cards = {c}])
  /\ UNCHANGED <<tables, stored, mixed, byTool, back, unasked, late>>

PutCardAway(p) ==
  /\ JobAt(p, "archiveCard")
  /\ LET away == {c \in job[p].cards : cardAt[c] = "shown"}
     IN /\ cardAt' = [c \in ArchiveCards |-> IF c \in away THEN "archived" ELSE cardAt[c]]
        /\ back' = back \ away
  /\ Moves(p, "record")
  /\ UNCHANGED <<boardAt, columnAt, column, things, attached, stored, requestsLeft, mixed, byTool, unasked, late>>

(* ... and the card's history gets its line (cardActivity.ts), which asks for *)
(* no card: it may be gone by then, and a removal past its lines.             *)
PastRemoving(c) ==
  \/ ~ Present(cardAt[c])
  \/ \E q \in Requests : job[q].step \in {"unlink", "cards"} /\ c \in job[q].cards

RecordActivity(p) ==
  /\ JobAt(p, "record")
  /\ things' = things \union job[p].cards
  /\ late' = late \union {c \in job[p].cards : PastRemoving(c)}
  /\ Finishes(p)
  /\ UNCHANGED <<boardAt, columnAt, cardAt, column, attached, stored, requestsLeft, mixed, byTool, back, unasked>>

PutColumnAway(a) ==
  /\ Once
  /\ columnAt[a] = "shown"
  /\ columnAt' = [columnAt EXCEPT ![a] = "archived"]
  /\ back' = {c \in back : column[c] # a}
  /\ UNCHANGED <<boardAt, cardAt, column, things, attached, stored, job, mixed, byTool, unasked, late>>

PutBoardAway ==
  /\ Once
  /\ boardAt = "shown"
  /\ boardAt' = "archived"
  /\ UNCHANGED <<columnAt, cardAt, column, things, attached, stored, job, mixed, byTool, back, unasked, late>>

-----------------------------------------------------------------------------
(* Bringing back                                                              *)

RestoreBoard ==
  /\ Once
  /\ PutAway(boardAt)
  /\ boardAt' = "shown"
  /\ UNCHANGED <<columnAt, cardAt, column, things, attached, stored, job, mixed, byTool, back, unasked, late>>

RestoreColumn(a) ==
  /\ Once
  /\ PutAway(columnAt[a])
  /\ columnAt' = [columnAt EXCEPT ![a] = "shown"]
  /\ UNCHANGED <<boardAt, cardAt, column, things, attached, stored, job, mixed, byTool, back, unasked, late>>

(* The card and its column are read, then the card is put back, ...           *)
RestoreReads(p, c) ==
  /\ Present(cardAt[c]) /\ columnAt[column[c]] # "gone" /\ boardAt # "gone"
  /\ Starts(p, [NoJob EXCEPT !.step = "restoreCard", !.cards = {c}, !.columns = {column[c]}])
  /\ UNCHANGED <<tables, stored, mixed, byTool, back, unasked, late>>

ShownAgain(at) == IF PutAway(at) THEN "shown" ELSE at

RestoreCardRow(p) ==
  /\ JobAt(p, "restoreCard")
  /\ cardAt' = [c \in ArchiveCards |-> IF c \in job[p].cards THEN ShownAgain(cardAt[c]) ELSE cardAt[c]]
  /\ Moves(p, "restoreColumn")
  /\ UNCHANGED <<boardAt, columnAt, column, things, attached, stored, requestsLeft, mixed, byTool, back, unasked, late>>

(* A slip: that is all.                                                      *)
RestoreCardOnly(p) ==
  /\ JobAt(p, "restoreColumn")
  /\ back' = back \union {c \in job[p].cards : cardAt[c] = "shown" /\ column[c] \in job[p].columns}
  /\ Moves(p, "record")
  /\ UNCHANGED <<tables, stored, requestsLeft, mixed, byTool, unasked, late>>

(* ... and the column it was in, so that it does not come back to nowhere;    *)
(* the line of the history is the last statement of this one too.             *)
RestoreItsColumn(p) ==
  /\ JobAt(p, "restoreColumn")
  /\ columnAt' = [a \in Columns |-> IF a \in job[p].columns THEN ShownAgain(columnAt[a]) ELSE columnAt[a]]
  /\ back' = back \union {c \in job[p].cards : cardAt[c] = "shown" /\ column[c] \in job[p].columns}
  /\ Moves(p, "record")
  /\ UNCHANGED <<boardAt, cardAt, column, things, attached, stored, requestsLeft, mixed, byTool, unasked, late>>

-----------------------------------------------------------------------------
(* Changes of what there is                                                   *)

(* card POST and cardMove look the column up, and write a few awaits later.   *)
Aim(p, c, a) ==
  /\ columnAt[a] # "gone" /\ boardAt # "gone"
  /\ cardAt[c] # "gone" /\ (Present(cardAt[c]) => column[c] # a)
  /\ Starts(p, [NoJob EXCEPT !.step = "put", !.cards = {c}, !.columns = {a}])
  /\ Mixes(p)
  /\ UNCHANGED <<tables, stored, byTool, back, unasked, late>>

Put(p) ==
  /\ JobAt(p, "put")
  /\ \E c \in job[p].cards, a \in job[p].columns :
       IF cardAt[c] = "gone" THEN UNCHANGED <<cardAt, column, things>>
       ELSE /\ cardAt' = [cardAt EXCEPT ![c] = IF @ = "unborn" THEN "shown" ELSE @]
            /\ column' = [column EXCEPT ![c] = a]
            /\ things' = things \union {c}
  /\ back' = back \ job[p].cards
  /\ Finishes(p)
  /\ UNCHANGED <<boardAt, columnAt, attached, stored, requestsLeft, mixed, byTool, unasked, late>>

(* The file goes to the disk with one request, its row with the next one.     *)
Upload(p, c, f) ==
  /\ Present(cardAt[c]) /\ columnAt[column[c]] # "gone"
  /\ FreshName(f)
  /\ Starts(p, [NoJob EXCEPT !.step = "attach", !.cards = {c}, !.names = {f}])
  /\ Mixes(p)
  /\ stored' = stored \union {f}
  /\ UNCHANGED <<tables, byTool, back, unasked, late>>

Attach(p) ==
  /\ JobAt(p, "attach")
  /\ attached' = attached \union (job[p].cards \X job[p].names)
  /\ things' = things \union job[p].cards
  /\ Finishes(p)
  /\ UNCHANGED <<boardAt, columnAt, cardAt, column, stored, requestsLeft, mixed, byTool, back, unasked, late>>

(* A duplicate gets a file of its own (card-duplicate.ts), or no row at all   *)
(* when the file cannot be copied.  The copy itself is one await: the file it *)
(* is made from may be gone by then.                                          *)
Duplicate(p, c, d, f) ==
  /\ Present(cardAt[c]) /\ columnAt[column[c]] # "gone" /\ cardAt[d] = "unborn"
  /\ <<c, f>> \in attached
  /\ Starts(p, [NoJob EXCEPT !.step = "copy", !.cards = {d}, !.names = {f}])
  /\ Mixes(p)
  /\ cardAt' = [cardAt EXCEPT ![d] = "shown"]
  /\ column' = [column EXCEPT ![d] = column[c]]
  /\ things' = things \union {d}
  /\ UNCHANGED <<boardAt, columnAt, attached, stored, byTool, back, unasked, late>>

CopyFile(p) ==
  /\ JobAt(p, "copy")
  /\ \E f \in job[p].names, copy \in Files :
       /\ FreshName(copy)
       /\ IF f \in stored
            THEN stored' = stored \union {copy}
                 /\ job' = [job EXCEPT ![p].step = "attach", ![p].names = {copy}]
            ELSE Finishes(p) /\ UNCHANGED stored
  /\ UNCHANGED <<tables, requestsLeft, mixed, byTool, back, unasked, late>>

(* attachment DELETE: the row, then the file, whoever else names it.          *)
DeleteAttachment(p, c, f) ==
  /\ Present(cardAt[c]) /\ columnAt[column[c]] # "gone"
  /\ <<c, f>> \in attached
  /\ Starts(p, [NoJob EXCEPT !.step = "remove", !.names = {f}])
  /\ attached' = attached \ {<<c, f>>}
  /\ UNCHANGED <<boardAt, columnAt, cardAt, column, things, stored, mixed, byTool, back, unasked, late>>

RemoveFile(p) ==
  /\ JobAt(p, "remove")
  /\ stored' = stored \ job[p].names
  /\ unasked' = unasked \union job[p].names
  /\ Finishes(p)
  /\ UNCHANGED <<tables, requestsLeft, mixed, byTool, back, late>>

-----------------------------------------------------------------------------
(* Destroying                                                                 *)

In(c, columns) == Present(cardAt[c]) /\ column[c] \in columns

StartRemoving(p, what) == Starts(p, what) /\ MixesIn(p) /\ UNCHANGED <<tables, stored, byTool, back, unasked, late>>

DestroyCard(p, c) ==
  /\ Present(cardAt[c]) /\ columnAt[column[c]] # "gone"
  /\ StartRemoving(p, [NoJob EXCEPT !.step = "files", !.kind = "cards", !.cards = {c}])

DestroyColumn(p, a) ==
  /\ columnAt[a] # "gone" /\ boardAt # "gone"
  /\ StartRemoving(p, [NoJob EXCEPT !.step = "list", !.kind = "columns", !.columns = {a}])

DestroyBoard(p) ==
  /\ boardAt # "gone"
  /\ StartRemoving(p, [NoJob EXCEPT !.step = "list", !.kind = "board", !.columns = Columns])

(* The tools deleteArea and deleteBoard do not call removeCardData: they       *)
(* delete comments, attachments and notifications by a subquery of their own. *)
ToolDestroys(p, what) ==
  /\ boardAt # "gone" /\ \A a \in what.columns : what.kind = "columns" => columnAt[a] # "gone"
  /\ Starts(p, [NoJob EXCEPT !.step = "toolData", !.kind = what.kind, !.columns = what.columns])
  /\ MixesIn(p)
  /\ byTool' = TRUE
  /\ UNCHANGED <<tables, stored, back, unasked, late>>

ToolDeletesRows(p) ==
  /\ JobAt(p, "toolData")
  /\ attached' = {r \in attached : ~ In(r[1], job[p].columns)}
  /\ Moves(p, "cards")
  /\ UNCHANGED <<boardAt, columnAt, cardAt, column, things, stored, requestsLeft, mixed, byTool, back, unasked, late>>

(* The sweep: boards, then columns, then cards, each list read when its turn  *)
(* comes.                                                                     *)
Retention(p) ==
  StartRemoving(p, [NoJob EXCEPT !.step = "oldBoards", !.kind = "sweep"])

OldBoards(p) ==
  /\ JobAt(p, "oldBoards")
  /\ job' = [job EXCEPT ![p] =
       IF boardAt = "expired"
         THEN [@ EXCEPT !.step = "list", !.kind = "board", !.columns = Columns, !.then = "oldColumns"]
         ELSE [@ EXCEPT !.step = "oldColumns"]]
  /\ UNCHANGED <<tables, stored, requestsLeft, mixed, byTool, back, unasked, late>>

OldColumns(p) ==
  /\ JobAt(p, "oldColumns")
  /\ job' = [job EXCEPT ![p].step = "nextColumn",
                 ![p].queue = {a \in Columns : columnAt[a] = "expired"}]
  /\ UNCHANGED <<tables, stored, requestsLeft, mixed, byTool, back, unasked, late>>

NextColumn(p) ==
  /\ JobAt(p, "nextColumn")
  /\ IF job[p].queue = {} THEN Moves(p, "oldCards")
     ELSE \E a \in job[p].queue :
            job' = [job EXCEPT ![p].step = "list", ![p].kind = "columns", ![p].columns = {a},
                      ![p].queue = @ \ {a}, ![p].then = "nextColumn"]
  /\ UNCHANGED <<tables, stored, requestsLeft, mixed, byTool, back, unasked, late>>

OldCards(p) ==
  /\ JobAt(p, "oldCards")
  /\ LET old == {c \in ArchiveCards : cardAt[c] = "expired"}
     IN job' = [job EXCEPT ![p] =
          IF old # {}
            THEN [@ EXCEPT !.step = "files", !.kind = "cards", !.cards = old, !.then = "idle"]
            ELSE NoJob]
  /\ UNCHANGED <<tables, stored, requestsLeft, mixed, byTool, back, unasked, late>>

(* The ids, before anything is deleted: archived cards are among them.        *)
ListCards(p) ==
  /\ JobAt(p, "list")
  /\ job' = [job EXCEPT ![p].step = "files",
                 ![p].cards = {c \in ArchiveCards : In(c, job[p].columns)}]
  /\ UNCHANGED <<tables, stored, requestsLeft, mixed, byTool, back, unasked, late>>

(* removeCardData: the files' names while rows still name them, ...           *)
ReadNames(p) ==
  /\ JobAt(p, "files")
  /\ job' = [job EXCEPT ![p].step = "data",
                 ![p].names = {r[2] : r \in {x \in attached : x[1] \in job[p].cards}}]
  /\ UNCHANGED <<tables, stored, requestsLeft, mixed, byTool, back, unasked, late>>

(* ... then the rows, table by table, ...                                     *)
DeleteAttachments(p) ==
  /\ JobAt(p, "data")
  /\ attached' = {r \in attached : r[1] \notin job[p].cards}
  /\ Moves(p, "rest")
  /\ UNCHANGED <<boardAt, columnAt, cardAt, column, things, stored, requestsLeft, mixed, byTool, back, unasked, late>>

DeleteRest(p) ==
  /\ JobAt(p, "rest")
  /\ things' = things \ job[p].cards
  /\ Moves(p, IF job[p].names = {} THEN "cards" ELSE "unlink")
  /\ UNCHANGED <<boardAt, columnAt, cardAt, column, attached, stored, requestsLeft, mixed, byTool, back, unasked, late>>

(* A slip: unlinked without asking.                                           *)
UnlinkAll(p) ==
  /\ JobAt(p, "unlink")
  /\ stored' = stored \ job[p].names
  /\ Moves(p, "cards")
  /\ UNCHANGED <<tables, requestsLeft, mixed, byTool, back, unasked, late>>

(* ... then each file that no other row names.  Nobody can name it between    *)
(* the question and the unlink: new rows bring files of their own.            *)
UnlinkOrphaned(p) ==
  /\ JobAt(p, "unlink")
  /\ stored' = {f \in stored : f \notin job[p].names \/ \E r \in attached : r[2] = f}
  /\ Moves(p, "cards")
  /\ UNCHANGED <<tables, requestsLeft, mixed, byTool, back, unasked, late>>

Goes(c, p) == IF job[p].kind = "cards" THEN c \in job[p].cards ELSE In(c, job[p].columns)

(* By id, or whatever is in the column by now.                                *)
DeleteCards(p) ==
  /\ JobAt(p, "cards")
  /\ cardAt' = [c \in ArchiveCards |-> IF Goes(c, p) /\ cardAt[c] # "unborn" THEN "gone" ELSE cardAt[c]]
  /\ back' = {c \in back : cardAt'[c] # "gone"}
  /\ IF job[p].kind = "cards" THEN Finishes(p) ELSE Moves(p, "columns")
  /\ UNCHANGED <<boardAt, columnAt, column, things, attached, stored, requestsLeft, mixed, byTool, unasked, late>>

DeleteColumns(p) ==
  /\ JobAt(p, "columns")
  /\ columnAt' = [a \in Columns |-> IF a \in job[p].columns THEN "gone" ELSE columnAt[a]]
  /\ boardAt' = IF job[p].kind = "board" THEN "gone" ELSE boardAt
  /\ back' = {c \in back : columnAt'[column[c]] # "gone"}
  /\ job' = [job EXCEPT ![p] =
       IF job[p].then = "idle" THEN NoJob
       ELSE [NoJob EXCEPT !.step = job[p].then, !.kind = "sweep", !.queue = job[p].queue]]
  /\ UNCHANGED <<cardAt, column, things, attached, stored, requestsLeft, mixed, byTool, unasked, late>>

(* Days go by: what was archived has been so for longer than the period.      *)
Ages ==
  /\ \E c \in ArchiveCards : cardAt[c] = "archived" \/ columnAt[column[c]] = "archived" \/ boardAt = "archived"
  /\ cardAt' = [c \in ArchiveCards |-> IF PutAway(cardAt[c]) THEN "expired" ELSE cardAt[c]]
  /\ columnAt' = [a \in Columns |-> IF PutAway(columnAt[a]) THEN "expired" ELSE columnAt[a]]
  /\ boardAt' = IF PutAway(boardAt) THEN "expired" ELSE boardAt
  /\ UNCHANGED <<column, things, attached, stored, job, requestsLeft, mixed, byTool, back, unasked, late>>

Removal(p) ==
  \/ OldBoards(p) \/ OldColumns(p) \/ NextColumn(p) \/ OldCards(p)
  \/ ListCards(p) \/ ReadNames(p) \/ DeleteAttachments(p) \/ DeleteRest(p)
  \/ UnlinkOrphaned(p) \/ DeleteCards(p) \/ DeleteColumns(p)

ArchiveNext ==
  \/ \E a \in Columns : PutColumnAway(a) \/ RestoreColumn(a)
  \/ PutBoardAway \/ RestoreBoard \/ Ages
  \/ \E p \in Requests :
       \/ \E c \in ArchiveCards :
            \/ ArchiveReads(p, c) \/ RestoreReads(p, c) \/ DestroyCard(p, c)
            \/ \E a \in Columns : Aim(p, c, a)
            \/ \E f \in Files : Upload(p, c, f) \/ DeleteAttachment(p, c, f)
            \/ \E d \in ArchiveCards, f \in Files : Duplicate(p, c, d, f)
       \/ PutCardAway(p) \/ RestoreCardRow(p) \/ RestoreItsColumn(p) \/ RecordActivity(p)
       \/ Put(p) \/ Attach(p) \/ CopyFile(p) \/ RemoveFile(p)
       \/ \E a \in Columns : DestroyColumn(p, a)
       \/ DestroyBoard(p) \/ Retention(p)
       \/ \E a \in Columns : ToolDestroys(p, [kind |-> "columns", columns |-> {a}])
       \/ ToolDestroys(p, [kind |-> "board", columns |-> Columns])
       \/ ToolDeletesRows(p)
       \/ Removal(p)

ArchiveSpec ==
  /\ \E old \in SUBSET ({"board"} \union Columns \union ArchiveCards), pair \in BOOLEAN :
       ArchiveInit(old, pair)
  /\ [][ArchiveNext]_archiveVars

-----------------------------------------------------------------------------
(* Properties *)

Rest == ~ mixed /\ \A p \in Requests : AtRest(p)

NoDebris ==
  /\ \A c \in things : Present(cardAt[c]) \/ c \in late
  /\ \A r \in attached : Present(cardAt[r[1]])
  /\ \A c \in ArchiveCards : Present(cardAt[c]) => columnAt[column[c]] # "gone"
  /\ \A a \in Columns : columnAt[a] # "gone" => boardAt # "gone"
  /\ \A f \in stored : \E r \in attached : r[2] = f

(* cardCleanup.ts: "Everything that hangs off a card, removed with it."  When *)
(* nothing is under way, and nothing was changed while something else was     *)
(* being destroyed: no row without its card, no card without its column, no   *)
(* column without its board, and no file that no row names, however removals  *)
(* of cards, columns and boards, sweeps and files with two names overlap with *)
(* each other and with what is put away and brought back meanwhile.  Except   *)
(* the line that an archiving or a restore adds to a card's history last      *)
(* (card.ts:687, archive.ts:163): when a removal is past those lines by then, *)
(* it stays without a card.                                                   *)
(* (The two tools that destroy in their own way are left to ToolsTidyUp.)     *)
NothingLeftBehind == Rest /\ ~ byTool => NoDebris

(* cardCleanup.ts:77-80: a tidy-up never becomes a broken download.  Whatever *)
(* is destroyed, copied and uploaded at the same time, the file a row names   *)
(* is there, unless the deletion of a single attachment took it.              *)
RowHasFile == \A r \in attached : r[2] \in stored \union unasked

(* Removals leave nothing behind, and take nothing that is still named.       *)
RowsAndFilesAgree == NothingLeftBehind /\ RowHasFile

(* archive.ts: "A card cannot come back to a column that is not there."  A    *)
(* card that was put back is in a column that is shown, until somebody puts   *)
(* the column away after that; or in none, when it was also carried into a    *)
(* column that was being destroyed.                                           *)
BackIsSeen ==
  \A c \in back : columnAt[column[c]] = "shown" \/ (mixed /\ columnAt[column[c]] = "gone")

(* cardCleanup.ts:79: "Unlinking a file another attachment still refers to    *)
(* would turn a tidy-up into a broken download."                              *)
NoBrokenDownload == \A r \in attached : r[2] \in stored

(* deleteBoard.ts: "Permanently delete a board and everything in it".  The    *)
(* same as NothingLeftBehind, whoever destroys.                               *)
ToolsTidyUp == Rest => NoDebris

=============================================================================
