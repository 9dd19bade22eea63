# A TLA+ verification of LokalBoards

LokalBoards is a self-hosted kanban board: a Nuxt application whose Nitro server
keeps everything in MySQL, tells open browsers about changes over Socket.IO, runs
a few scheduled tasks, and lets AI agents work on the boards through an MCP
server. This directory holds TLA+ modules of the parts of it where several
actors meet, the TLC runs that check them, and TLAPS proofs of the safety
properties of several of them.

    tlc -workers 2 -config MCCards.cfg MCCards.tla
    tlapm AssigneesProofs.tla

`PROJECT.json` says which lines of `src/` each definition models, which runs
there are, which deliberate slip in a definition makes each property fail, what
was found, and which hazards of the code each property is for.

## The system

| component | state | what is hard | what makes it correct |
|---|---|---|---|
| who a card is on (`cardAssignees.ts`, the tools `claimCard`, `releaseCard`) | `card_assignees` | statements of different requests interleave; one row lock | two agents never pick up the same work |
| cards in a column (`cardPositions.ts`, `cardOrder`, `cardMove`) | `cards.area`, `.sort` | read, then one UPDATE per card; gaps, ties, archived cards | a card is where it was dropped, nobody else changes places |
| columns (`area.ts`, `areas.ts`, `board.ts`) | `areas.sort` | counting instead of asking; one UPDATE per column | the dragged order holds |
| repeating cards (`repeat.ts`, `repeatCard.ts`) | four `repeat*` columns, the due date | several servers, stops, stale pages, missed turns | each turn made once, none dropped, no pile |
| labels (`labelCleanup.ts`, `labels.ts`) | `labels`, `card_labels` | check, then delete | a label goes with the last card that wears it |
| due reminders (`dueReminders.ts`) | `card_reminders.notified` | re-armed while being told | each date is told, and told once |
| archive, deletion, retention (`archive.ts`, `cardCleanup.ts`, `boardCleanup.ts`) | `archivedAt`, rows, files | cascades without a transaction; files two rows name | nothing left behind, no row without its file, nothing restored to nowhere |
| migrations, startup (`databaseSetup.ts`, `startup.ts`) | schema, `migrations`, a named lock | two processes, a time-out, a kill half way | each migration once, a server gets through |
| pictures (`CardEditor.vue`, `upload/image.post.ts`, migrations 0022 to 0024) | files; the rows that name them | stored anew file by file while people write; kills, two processes | every row names a file that is there, of its own picture |
| accounts, membership (`sign-up.ts`, `admin/*.ts`, `invite.ts`) | `user`, `board_access`, mailed links | count, then demote; look, then use up | an admin stays; links and lists of people are real |
| import and export (`boardExport.ts`, `boardImport.ts`, `trelloFiles.ts`) | a board, read or written table by table | changes between two reads; foreign places; files | each card once; whole up to the limits, files there or linked |
| cards with a key (`createCard.ts`) | `cards.idempotencyKey` | a repeated call races the first | one card per key and column |
| webhooks (`webhooks.ts`) | subscriptions; dispatches beside requests | people leave between event and dispatch | nobody is told who may not read the board |
| notification mail (`tasks/notification.ts`) | `notifications.notified` | a stop between sending and marking; runs overlap | mailed in the end, not without end |
| live presence (`socket.io.ts`, `Connection.client.vue`) | maps in memory, rooms | handlers that wait against handlers that do not | a tab shows the faces the server holds |
| the board's page (`board/[id].vue`, `socketRest.ts`) | lists in a tab | events late, missed, out of order; resting tabs | once quiet, a tab shows the board |
| the open card (`CardModal.vue`) | one dialog per tab | what is heard is saved again | what was said last stays; echoes end |
| attaching files (`CardModal.vue`, `upload.post.ts`) | picked, waiting and saved files | other saves take along what waits | each file is kept |
| comments (`comment.ts`, `CommentSection.vue`) | three copies per tab | answers, events and lists in any order | the copies agree |
| the bell (`useNotifications.ts`) | pages from a cursor | equal times, overlapping reads | newest first, without gaps |
| address and filter (`board/[id].vue`, `boardFilter.ts`) | address, open card | navigations take time | a copied address shows what was shown |
| settings (`BoardSettingsForm.vue`, `board.ts`) | a form that saves all of itself | a stale start | tabs agree on the settings |
| mind map (`MindMap.client.vue`, `mindmap.ts`) | places of nodes | refusals, drops, two people dragging | one picture on all screens |
| dashboard (`BoardDashboard.vue`, `board-groups.ts`) | groups, placements | whole arrangements sent by two tabs | no board hidden, last drop holds, tiles current |
| search (`GlobalSearch.vue`, `search.ts`) | one panel | answers overtake | the panel shows what there is to find |
| people's dialog (`InviteModal.vue`) | a copy of a list | prop, own answers, re-reads | it lists the board's people |
| the archive's dialog (`ArchiveModal.vue`) | rows, a pending confirmation | others restore and destroy | only what was confirmed is destroyed |
| MCP protocol, OAuth, SSO, SAML, rate limits, guarded fetches, editor, translations, documentation site | - | - | not modelled, see below |

Components meet in the database (every request takes the pool, in autocommit;
`claimCardFor` alone opens a transaction), in the process's memory (presence,
the socket server), and through events: a handler emits to the rooms `board-*`,
`card-*`, `dashboard-*`, and a browser merges what it hears. One card PUT
writes people, text, rhythm, labels, reminders and files; each of those is in the
module of the table it writes, because the statements share no rows and no
condition: the interleavings that matter are those within one table.

## Conventions

An action is one SQL statement or one uninterrupted stretch of JavaScript; where a
handler waits, another actor may step. A handler's local variables are a record
(`call[p]`, `sweep[s]`, `labelCall[p]`, `run[r]`) whose `step` is where it waits.
Variables that no column or field holds (`claimed`, `history`, `told`, `sent`,
`armed`) record the past for the properties and never guard an action.

Some properties hold only while requests about one and the same thing do not cross.
Such a module has a flag (`met`, `crossed`, `mixed`, `adminsCrossed`, `overtaken`)
that a crossing sets for good, and the property says so. What crossing does is then
either a finding (below) or a state the module starts from (`CardPositions` starts
from every column with gaps, ties and archived cards).

A definition that stands directly before another with the remark "a slip" is that
definition as a plausible bug would have it. Nothing uses the slips; put in place
of the definition they make the property that `PROJECT.json` names fail.

The MC modules are sums. `MCServer`, say, extends eleven modules whose state is
disjoint; a variable `part` is drawn at the start and only that part's actions are
taken, the others rest in one state. One run thereby checks eleven instances at
the cost of their sum. `CHECK_DEADLOCK FALSE` stands in those runs because the
bounds on requests, ticks and failures end every behaviour; that a behaviour does
not end too early is what the liveness runs are for.

## Modules

| module | models | extends |
|---|---|---|
| `ClaimSpec` | what `claimCard` promises: atomic steps Take, Reassign, Make, Destroy | |
| `Assignees` | the calls that write `card_assignees`, one statement per action; `Promise == INSTANCE ClaimSpec WITH ...` is the refinement mapping | |
| `CardPositions` | `placeCard`, `placeCardAfter`, `nextCardSort` as operators on a column, and the handlers around them | |
| `ColumnOrder` | columns made, dragged, archived, restored | |
| `RepeatSeries` | `nextOccurrence`, `repeatAfterEdit`, `planNextCard` as operators on rows; sweeps, pages, edits | |
| `Labels` | labels made, worn, put down, swept, copied | |
| `Reminders` | the sweep and the edits that re-arm | |
| `Archive` | putting away, restoring, destroying, retention, files | |
| `Startup` | all 36 migrations, the lock, the first administrator | |
| `Pictures` | uploads into texts, covers and profiles; the migrations that re-encode them | |
| `Members` | invitations, sign-up, roles, deletions | |
| `Transfer` | export and import | |
| `CardKeys` | `createCard` with an idempotency key | |
| `Webhooks` | subscriptions and dispatches | |
| `NotificationMail` | the hourly mail run | |
| `Presence` | the presence half of the socket plugin, connections, tabs | |
| `BoardPage` | the board on several screens, resting and resync | |
| `OpenCard` | the dialog of one card in several tabs | |
| `CardFiles` | files picked and saved in that dialog | |
| `Comments` | comments on several screens | |
| `Bell` | the notification list | |
| `BoardAddress` | address, open card, filter | |
| `BoardSettings` | settings' form, column names | |
| `MindMap` | the board as a map | |
| `Dashboard` | one person's groups and tiles in two tabs | |
| `Search`, `InviteDialog`, `ArchiveDialog` | the header's search; the dialogs of people and of the archive | |
| `AssigneesProofs` | theorems about `Assignees` and `CardFiles` | both, TLAPS |
| `MembersProofs` | theorems about `Members` and `InviteDialog` | both, TLAPS |
| `AutomationProofs` | theorems about `CardKeys` and `Webhooks` | both, TLAPS |
| `BoardPartsProofs` | theorems about `Labels`, `ColumnOrder` and `CardPositions` | these, TLAPS |
| `ScreensProofs` | theorems about `Search`, `ArchiveDialog`, `BoardAddress`, `OpenCard` and `Presence` | these, TLAPS |
| `NoticesProofs` | theorems about `NotificationMail`, `Reminders` and `Bell` | all three, TLAPS |
| `StoreProofs` | theorems about `Archive` and `Transfer` | both, TLAPS |
| the other `*Proofs` | theorems about the module of that name | it, TLAPS |
| `MC*` | the instances TLC checks | the modules of their parts |

### Cards and columns

`Assignees`. `people[c]` are the rows of `card_assignees`; `claimed[c]`, a history
variable, the ones a claim inserted. `claimCardFor` is four steps: `ClaimLock` (SELECT
... FOR UPDATE waits while `RowLocked`), `ClaimAsk` (the transaction's first plain read,
so InnoDB's snapshot is taken after the lock), `ClaimInsert` or `ClaimRefused`.
`setCardAssignees` is `EditMembers`, `EditBefore`, then one `EditRemove` or `EditAdd` per
person. Copying shows the new card before its people are on it. `DestroyData` and
`DestroyCard` are two statements, and the second waits for a claim's lock. `Die` ends a
handler anywhere. Left out: activity, webhooks, the order of the people, several
boards (calls of different boards share no rows).

`CardPositions`. `row` is the table; `ReadColumn` the SELECT, by the rank of a card in the
order of number and id (`Before`).
`ReadAndPlace`, `SetArea`, `WriteOrder` (once per card), `RenumberSource` and `Answer` are
`putCard` and `renumberColumn` as `cardOrder`, `cardMove` and `moveCard` call them.
`PlaceInit` takes every column there can be. `LandsWhereAsked` is about calls that nobody
crosses; a crossed call may leave any of the columns `PlaceInit` starts from.

`ColumnOrder`. A new column is numbered by COUNT(*), a dragged list row by row.
Archived columns keep numbers that collide with the others', so a new column may
not be last: `NewColumnAlwaysLast` is stated and does not hold.

`RepeatSeries`. A tick is a moment; a rhythm is a number of ticks. `ListDue`,
`ReadCard`, `HandOn`, `MakeNext` are `repeatDueCards` and `repeatCard`: the UPDATE in
`HandOn` is the lock, and `MakeNext` plans from the row `ReadCard` saw. `Fail` is the catch
around one card, `Crash` the end of the process. A page (`Load`, `Save`) sends everything
it holds; an agent (`ToolEdit`) sends what it names; `Write` is the UPDATE both end in,
computed from the row `Receive` read (`Update` does it). `torn` marks the cards where an
edit that left the due date alone met one that changed it: its rhythm is then counted
from a date the card no longer has, and a later save takes the new date for a turn. The
same without `torn` does not hold, which two edits and a save show. Left out: months and years, whose lengths
differ, the home column, and what else is copied.

`Labels`. `FindByName`, `CountLabels`, `InsertLabel` are labels POST; `SaveLabels`,
`ReadWorn`, `Strip`, `PutOn`, `AskWhatIsWorn`, `SweepLabels` the label part of card PUT;
`DestroyLabelled`, `DropCard` that of removing a card. `LastTakesName` excuses only two
requests for one and the same card. `WornLabelsExist` ("exactly as long") does not
hold: a label swept between POST's answer and the save is worn without a row.

`Reminders`. `ListDueReminders` is the SELECT, in any order (`SomeOrder`); then one `Tell`
per person, `MarkReminder`, the next row. `SaveDue`, `DropUnwanted`, `AddMissing`, `Rearm`
are card PUT. `told` and `armed` count; `met` says that a sweep and an edit, or two
sweeps, overlapped. `FiresAgain` (the same without `met`) does not hold: a sweep marks
what an edit has just armed again. `EveryReminderFires` takes the telling for its end, not
the mark: it lets a reminder stay unsaid only if the date was left, moved or put out of
sight, or if it was marked after such a crossing (two edits and a sweep, in `live`;
without that excuse TLC finds the crossing).

`CardKeys`. The look-up, the INSERT against the unique index, people, announcement.
`RetryIsSafe` is about calls that stops may cut short. `RetryFinishes` does not hold: a
stop after the INSERT leaves a card without people that later calls answer with.
`EveryMoveWorks` does not hold either: the index is over column and key, so a card
whose key another card of the target column has is refused there (500).

`CardFiles`. Picking, one upload after another, and the save after each. `AttachedOnce`
does not hold: a tick while a file is being saved saves it again. Besides, the query
for what was added (`card.ts:592`) passes a joined string to `IN (?)`, so of several new
attachments the answer lists the first.

### Around the cards

`Archive`. Putting away and bringing back (a card in three steps: it is read, written, and
its history gets a line, `RecordActivity`), and `Destroy`ing as
the sequences of `cardCleanup.ts` and `boardCleanup.ts`, begun by people or by the
retention's sweep; `Duplicate` makes a second row that names the same file. The two
tools that destroy in their own way are in the model, but `RowsAndFilesAgree` excuses
them (`ToolsTidyUp` does not hold, they leave rows and files). `RowHasFile` excuses the
deletion of a single attachment, which unlinks without asking (`NoBrokenDownload`). File
names are random, so a new one is nobody's yet (`FreshName`). `recordCardActivity` asks for
no card: an archiving or a restore whose card a removal has dealt with meanwhile leaves
one line in `card_activity` for good. `late` holds exactly those cards, and `NoDebris`
excuses no other card.

`Startup`. A migration is a list of statements with the condition each asks of the
catalogue; `Upgrades` says how far the database is, how often a process is killed and
how often a wait for the lock times out. `UpgradedOnce` relates what was recorded to
what was done. The early migrations and 0026 ask nothing: `start_wedged`.

`Pictures`. Files are known by name, a row names one picture at most. Migrations 0022, 0023
and 0024 go statement by statement and file by file: list, encode or leave, read a row
again, write it, ask table after table, unlink (which may fail). They run beside
people who load, upload, type the address of any file there is, save, and delete an
attachment with its file (the server listens meanwhile), may be killed and begun again,
and two processes may be at it. `atRisk` are the rows `PicturesStay` excepts, and its
comment names them: those saved between a migration's reading and writing them, or from a
text that was loaded before or named an address meanwhile (such a save names a removed
file); a card, a comment or a notice that shares a profile's old file, which 0022 removes
without asking them; rows that share the file of a deleted attachment; and notices 0024
repairs from a comment that was edited or is itself excepted. Each exception is needed: TLC
finds `PicturesStay` violated when any of them is dropped. `NoWrongPicture` does not hold.

`Members`. A person is an address, whose account may be deleted and made again. The
steps are the awaits of `sign-up.ts`, `invite.ts`, the admin handlers and, of signing in
through a directory, `findOrCreateUser` and `applyAdminRole` (`sso.ts`), which write
accounts and roles. Requests overlap as they like; `adminsCrossed` says that two of those
that take the role were past their checks at once (a deletion has none), or that the
directory, which counts nobody, took it from the last administrator or beside such a
request, and `invitesCrossed` that an invitation crossed another or a deletion. Without
them neither claim holds: two demotions, or a demotion and a deletion, leave no
administrator (`NeverWithoutAdmin`, not checked, is what `update-user.ts` 66-67 says), so
does one sign-in, and there is no unique key over board and user.

`Transfer`. `ReadColumns`, `ReadSourceCards` ... are the SELECTs of the export, between
which people move and destroy; import is `boardImport.ts` on lists and cards with
equal, missing and gapped places, of Trello and of Wekan, and on files by address, in the
file, or too big. Both limits (500 lists, 5000 cards) are 2 here and are met: Trello's
reader takes the first of the lists and of the open cards (`ListsInOrder`, `CardsOfList`),
the writer again the first columns, and cards until the budget is used up
(`WithinBudget`). What is beyond them is dropped without being named, which
`ImportIsWhole` states. Wekan files without an address and Trello files whose INSERT fails are dropped without
a word, although `boardImport.ts` says what stays behind is named; and
`trelloJsonToBoard` counts open cards of closed lists towards its limit.

`Webhooks`. A dispatch reads subscriptions, then the board, then asks for access, then
delivers. `could` and `sure` record who could read the board at some moment since the
change, and at every one. Left out: payloads, signatures, time-outs.

`NotificationMail`. `List`, then for the head of `people`: `Address`, `Send`, `Mark`. `Stop`
is a failing statement or the end of the process; `Send` may fail for a refused
address or by chance. `CarryOn` goes on with the rest. Runs are independent.

### Browsers

`Presence`. A connection is two queues in order; `pending` the joins that wait for the
database. `status` tells a socket that is live, kept for recovery or gone. `Disconnect`
comes some time after the tab has dropped; `Recover` gives the tab its old socket,
`Connect` a new one. Access checks succeed.

`BoardPage`. `posts` are requests, `relaying` the events whose check is under way (they may
overtake one another), `inbox` what a tab has been sent. `Look`, `GraceEnds`, `Reconnect`,
`Join` are `socketRest.ts`; `ReadBoard`, `ReadAreas`, `ReadCards` the resync; `ReadNewColumn`
and `ShowNewColumn` the first cards of a column a page made, which come some time after the
column. `InStep` holds for pages whose handlers found what they were told of, joined
before they fetched, and were not overtaken while they waited for such cards;
`EveryoneSeesIt` does not hold: finding `everyone_sees_it`.

`OpenCard`, `Comments`. Messages are merged as the dialog does; `Unsaid` is a field a
message does not have. A tab that is back asks for the card (`ComeBack`), the server reads
it (`Answer`), and the dialog takes the answer over whenever it comes (`TakeFresh`) or not
at all (`RereadFails`); others edit meanwhile. `LastSaidStays` excuses crossing edits, an
answer that a save has overtaken (`TooLate`), and deleted attachments (finding
`text_blanked`). Of `Comments`, `OpenShowsAll` and `BadgeCounts` do not hold: numbers are
worked out by whoever heard, and may be old.

`Bell`, `Search`, `BoardAddress`, `InviteDialog`, `ArchiveDialog` have the same shape: a
state on screen, requests under way, answers in any order, and a statement about
rest. `Bell` pages by time and id. `Search` runs four queries one after the other.
`BoardAddress` has one navigation at a time, the latest winning, and the 450 ms of a
closing dialog. `InviteDialog` follows its prop and pushes answers. `ArchiveDialog`
confirms what it holds.

`BoardSettings`. Pages of the board and tiles on dashboards, a form per tab, the name of
a column edited in place, requests with an API key and the tools. Style and
visibility stand with the name.

`MindMap`. One dimension; a node without a place stands one step off its parent. `BeginDrag`,
`MoveDrag`, `EndDrag`, one request per drag, one UPDATE per row, `ApplyMoved` on the others.

`Dashboard`. Each drop sends the whole arrangement of one tab; `CheckArrangement`
validates, `Upsert*` writes; `Resync` on a signal. No drop tells another tab.

## Runs

| run | expects | parts | bounds |
|---|---|---|---|
| `cards` | pass | `Assignees`, `CardPositions`, `Dashboard`, `CardFiles` | 2 cards, 2 users, 2 handlers; 3 cards and one to come in 2 columns, numbers 0 and 2, 2 requests (`FewStarts`: only card 2 may be archived at first, and it is in the column of card 1); 2 boards and one to come, 2 groups, 2 tabs, one drop after the other three times or two at once; 3 files, one refused, 2 tabs |
| `server` | pass | `Labels`, `ColumnOrder`, `Archive`, `Startup`, `RepeatSeries`, `Reminders`, `Members`, `Transfer`, `InviteDialog`, `CardKeys`, `Webhooks` | two or three handlers each; 3 words, 2 cards; 3 columns; 3 cards, 2 columns, 2 files; upgrades from 0, 6, 29 and 34 migrations; 2 sweepers, one page, 3 ticks, one edit or one crash (`OneUpset`); 2 dates, 2 reminders, 2 people, 1 tick, 1 stop; 3 accounts, 2 links; 2 cards to export, up to 3 lists and 3 cards to import with limits of 2; 3 calls with one key, one stop; 2 people's hooks |
| `browser` | pass | `BoardPage`, `OpenCard`, `Comments`, `Presence`, `Bell`, `BoardAddress`, `BoardSettings` | 2 tabs each; 2 cards and one to come, 3 columns; 2 texts, saved three times; presence with 2 sockets per tab, 2 acts and 1 fault; 3 notifications in pages of one; at most three messages of a comment thread under way (`FewUnderWay`) |
| `live` | pass | `NotificationMail`, `Reminders`, `Startup`, `OpenCard`, `Pictures` | 2 runs, 2 people, 2 notifications, 1 failure; 2 edits and one sweeper that may stop; upgrades behind 0029; 2 dialogs that save twice; 4 files (a profile and a text that share one; a cover, an attachment, a comment and a notice that do), with one process and one or two acts of a person, or two processes and a kill |
| `tabs` | pass | `BoardPage`, `RepeatSeries`, `MindMap`, `Search`, `ArchiveDialog` | 2 tabs, 1 card; 1 sweeper, a stop; 2 drags; 3 terms typed; 2 cards and 2 columns on the shelf |
| `claim_over_person` | violation | `Assignees` | an edit puts a person under a claim |
| `repeat_fork` | violation | `RepeatSeries` | a stale page starts the series again |
| `presence_ghost` | violation | `Presence` | a face without a tab |
| `mail_refused` | violation | `NotificationMail` | one refused address starves the rest |
| `text_blanked` | violation | `OpenCard` | a removed attachment blanks the text elsewhere |
| `everyone_sees_it` | violation | `BoardPage` | a moved card outlives its deletion on screen |
| `start_wedged` | violation | `Startup` | a kill inside 0026 stops every later start |

Each passing run takes two to four minutes with two workers. What each property
says stands above its definition; what slip breaks it is in `PROJECT.json`.

Why the bounds are enough. A race here is between two handlers, so two of each suffice
for every pairwise order, and each runs to its end. The third of something is there
where a property needs it: a third word so that one label is typed, worn and swept at
once; three cards for a shown one, an archived one and a tie on either side of the
card being placed; a third call so that a repeated call meets both a first that was
cut and one under way. A rhythm of 2 with 3 ticks gives a turn on time and a turn late;
`Turns`, the 100000 of `nextOccurrence`, is 10, which no behaviour of that length
reaches. Ids come from bounds the other bounds cannot exceed (`TypeOK` checks it).
Starting states are drawn from all a bounded history could have left, so that a
short behaviour begins where long ones end: columns with gaps and ties, boards put
away in any combination, databases behind by different amounts.

Symmetry over interchangeable handlers, tabs, columns and cards is declared in
`cards`, `server` and `browser`, which check no liveness.

### Fairness

* `RepeatSeries`, `Reminders`, `NotificationMail`: WF on each sweep's or run's steps; the
  tasks are scheduled (`nuxt.config.ts` 225-245), `repeat-cards` also at startup, and a
  sweep that was started goes on. `RepeatSeries` also on `Write`: a request that came in
  is answered.
* `Startup`: WF on each process's steps: a server that stopped is started again, and
  the lock is granted or times out.
* `OpenCard`, `BoardPage`: WF on requests (the resync's reads among them) being answered, on the server passing on what it
  was told, on tabs handling what they hear and reconnecting (socket.io retries for
  ever), and on the grace period ending. Nothing is assumed of people.

Nothing is assumed of failures, kills and time-outs, which are bounded in number. The
violated `mail_refused` and `start_wedged` have the same fairness, so their
counterexamples are systems that keep running and keep failing.

## What the violated runs mean

Each of these runs states what a document or a comment of the repository says, and shows
the shortest behaviour of the code against it; `PROJECT.json` has the quotations.

* `claim_over_person`: an edit of a card's people does not touch the row a claim locks, so
  its INSERT may fall between the claim's question and the claim's INSERT. Two claims are
  kept apart (`OneClaimant`).
* `repeat_fork`: a page that had a card open while its series was handed on gives the card
  its rhythm back with the next save of anything.
* `presence_ghost`: joining a card waits for the database and does not ask afterwards
  whether the socket has left or gone; the face stays.
* `mail_refused`: people are mailed in one `try`, oldest notification first; a refused
  address ends every run at the same place.
* `text_blanked`: removing an attachment sends an event without the text; whoever has the
  card open takes over that there is none, and saves it.
* `everyone_sees_it`: a page that heard of a move leaves the card's own field `area` as it
  was, and does not find the card when it hears of the deletion.
* `start_wedged`: migration 0026 adds a key without asking whether it is there.

### Disagreements without a run

Several modules state a stronger property next to the one that is checked, with a
comment on why it does not hold. They are what we would discuss first with the authors:

* `Archive`: a card archived or restored while it is destroyed leaves its last line of
  history (`late`, above), against "Everything that hangs off a card, removed with it";
  `ToolsTidyUp` (the tools deleteCard and deleteColumn leave dependants and
  files), `NoBrokenDownload` (a deleted attachment unlinks a file a duplicate names).
* `Labels.WornLabelsExist`; `Reminders.FiresAgain`; `CardKeys.RetryFinishes` and
  `EveryMoveWorks`; `CardFiles.AttachedOnce`; `ColumnOrder.NewColumnAlwaysLast`: see their
  sections above.
* `OpenCard`: `ListenersFallSilent` and `KeySaveIsHeard`; and an answer of `resyncCard` that
  was read before an edit and comes after it undoes that edit in the dialog, whose watcher
  saves the old text (`TooLate`), against "the next save settles it either way".
* `Comments`: `BadgeCounts` and `OpenShowsAll`; `BoardPage`: `JoinedThenFetched` (the page
  fetches and then joins; what happens in between is not heard of), and a card that somebody
  puts into a new column goes from the screen of whoever made the column, if the column's
  first cards were read before it and come after it (`ShowNewColumn`).
* `BoardAddress`: `AlwaysAgrees` and `NoEmptyBox`. A filter changed while another navigation
  is pending is undone or leaves the address behind; opening a card and changing the
  filter before that navigation is over loses `card`; a card closed and another opened
  within 450 ms keeps the edit mode; a card somebody else deletes while it is open leaves
  an empty box (`[id].vue` 1732 says it does not).
* `MindMap.DropIsKept`: two people dragging one node diverge until the next resync; the
  UPDATEs of a branch are not one transaction.
* `Members.NeverWithoutAdmin`: `update-user.ts` 66-67 says that an instance cannot end up with
  no admins. Two demotions that both counted before either wrote, a demotion beside a
  deletion, or the directory's role for the last one at a sign-in leave none.
* `Search.ShortFindsNothing`; a late older answer during the pause switches the spinner off.
* `InviteDialog.ListIsAlwaysRight`: an invitation that is answered after another board's
  dialog was opened is pushed into that board's list; the list is not read again on a
  resync; a failed fetch opens a dialog with nobody in it.
* `ArchiveDialog.ShelfIsWhole`: confirming the destruction of a column that somebody
  restored in between destroys the column on the board; after restoring a column the cards
  put away before it are not listed until the dialog is opened again.
* `Pictures.NoWrongPicture`: 0024 finds a notice's comment by how its text ends; where that
  comment was edited or deleted, another with fitting words gives the notice its picture,
  although `databaseSetup.ts` 1000 prefers a broken one. 0022 does not ask cards, comments
  and notices before it removes a profile's old file, against its own comment (806), and the
  deletion of an attachment asks nobody about its file: a picture whose address was typed
  (`CardEditor.vue` 300) breaks with either (`PicturesStay` excepts them). 0022 overwrites
  a profile picture that was changed meanwhile. In `CardEditor.vue` the embedding of a
  picture that could not be uploaded never runs, as `uploadImage` answers with an error
  instead of throwing it.
* `Webhooks`: `card.moved` is declared and never dispatched; `card.deleted` only by the MCP
  tool (`en.json` 450 says otherwise).
* `Comments`: the ticking of a task (`comment.ts` 281-289) looks for HTML lists while
  comments are Markdown.
* `BoardSettings`: the form is filled again whenever a shown setting changes, and what was
  typed is lost; the tool updateBoard announces no cover and tells no dashboard; a refused
  empty column name stays on screen.
* `Dashboard`: reload wires dragging of boards but not of groups; a stale tab's whole
  arrangement undoes another's drop; a new board is not announced.
* `Members`: a mailed link for a second board cannot be used once the account exists; two
  mails that cross leave two live links; destroying a board leaves `board_email_invites`.
* `Bell`: a refresh that is answered while older pages load leaves a gap; a cursor whose row
  was deleted makes the server return the newest page; the bell goes on offering more when
  the older rows are destroyed after it read (`OfferIsReal` asks that nothing changed).

## Proofs

TLC shows a property for the instance of a run, the theorem for every value of the
constants. No theorem has a hypothesis beyond the specification and the named
assumptions of the component.

| theorem | states | assumes of the constants |
|---|---|---|
| `AssigneesProofs.ClaimInvariant` | `[]ClaimInv` | the owner is a user; `NoCard`, `NoUser` are none |
| `AssigneesProofs.AtMostOneClaimant` | `[]OneClaimant` | |
| `AssigneesProofs.StatementsImplementPromise` | `Promise!Spec` | |
| `AssigneesProofs.PickedFilesArrive` | `[]FilesAreKept` | accepted files are files, `Pending` is neither a picking nor a list of ids |
| `MembersProofs.InstanceKeepsAnAdmin` | `[]AlwaysAnAdmin` | there is a first administrator who owns the board |
| `MembersProofs.InvitationsAreReal` | `[]InvitedAreReal` | |
| `MembersProofs.DialogListsWhoIsThere` | `[]ListIsRight` | the page's board is one of the owner's |
| `AutomationProofs.RepeatedCallsAreSafe` | `[]RetryIsSafe` | `NoAnswer` is neither column nor call |
| `AutomationProofs.HooksTellTheRight` | `[]ToldWhoMayKnow` | the owner is a person, `Nobody` is none |
| `NoticesProofs.MailIsCounted` | `[]MailedOnce` | refused addresses are users', runs are finitely many |
| `BoardPartsProofs.NoLabelIsLeftBehind` | `[]LastTakesName` | the first card is a card, the limit a number |
| `BoardPartsProofs.DraggedOrderIsKept` | `[]DraggedOrderHolds` | none |
| `BoardPartsProofs.CardsLandWhereAsked` | `[]LandsWhereAsked` | numbers and positions are numbers, and so are the limits |
| `ScreensProofs.SearchComesToRest` | `[]SearchSettles` | the empty term is too short to ask for, hits are in the groups there are |
| `ScreensProofs.ShelfIsAsListed` | `[]ShelfIsListed` | a card has a column and is none, `Nil` is neither |
| `ScreensProofs.AddressSaysWhatIsShown` | `[]AddressAgrees` | `Unnamed` is neither card nor comment nor address |
| `ScreensProofs.LastWordStands` | `[]LastSaidStays` | the first text is a text or none, `Unsaid` is neither text nor truth value |
| `ScreensProofs.FacesAreThere` | `[]FacesAreRight` | `NoCard` is no card, the limit of sockets a number |
| `StoreProofs.NothingIsLeftBehind` | `[]RowsAndFilesAgree` | there are two cards, two columns, a file |
| `StoreProofs.CardsComeBackToColumns` | `[]BackIsSeen` | |
| `StoreProofs.ExportsAreWhole` | `[]ExportHoldsEachCard` | the limits are numbers, there is a column |
| `NoticesProofs.BellTellsWhatThereIs` | `[]BellIsRight` | a page has a row at least |
| `NoticesProofs.EachDateIsToldOnce` | `[]ToldJustOnce` | dates and numbers of minutes are numbers, `NoDue` is none |
| `RepeatSeriesProofs.SeriesNeverBreaks` | `[]SeriesUnbroken` | rhythms and dates are numbers, servers finitely many, no wait of as many turns as `nextOccurrence` counts |
| `RepeatSeriesProofs.TurnsStayOnTheGrid` | `[]NextOnGrid` | |

The bounds on requests, stops and time (`MaxEdits`, `MaxStops`, ...) are numbers in the
assumptions and nothing else, so the theorems hold for all of them. The parts that share
a run rest while another part is taken, so that what is proved of a part's
specification is what the run checks of it.

Each proof has the same plan. None of the properties is inductive as it stands;
an invariant with the property and what it lacks is named at the head of the module,
TLC was run on it (with the runs' constants or larger ones), one lemma shows that the
initial states have it, one lemma per action that the action keeps it, and the theorem
follows.

* `ClaimInv`. A claim at "claim.insert" makes a claimant, and `OneClaimant` does not say
  that there was none. Added: `LockIsExclusive` (one transaction is between lock and commit
  of a card there is), `InsertsWhenUnclaimed` (a claim about to insert has found nobody,
  and only another transaction could make a claimant), `ClaimantsAreOn`,
  `NoRowsBeforeTheCard` (a fresh id has no rows; AUTO_INCREMENT matters here, or the late
  INSERT of an edit to a destroyed card would come back to life). The refinement shows the
  rows of live cards only: rows left for a card that is gone are nobody's. Most statements
  are stutters of `ClaimSpec`; `WritesMap` and `InsertMap` are the others.
* `FilesInv`. `NothingForgotten`: a picked file is still to be uploaded, attached, or both carried
  by a save (unless saves were lost) and waiting in its tab (unless saves crossed); `OneSave`:
  saves that do not cross carry all that waits; `AheadIsNew`, `AllArePicked`: what is to be
  uploaded is nowhere else; `OnceEach`, `ListsFollow`: when nothing crossed or was lost, a save
  carries one file at most, and a list lags by what its save brings or a message on its way.
* `MembersInv`. `AnotherIsAdmin`: a demotion past its count has somebody else who stays, as
  long as `adminsCrossed` is not set; `TakesAlone`, `InvitesAlone`: who is past its check
  beside whom; `InsertsNew`: an invitation about to insert found no row;
  `UsedMadeOne`: a used link made one account.
* `DialogInv`. `Follows`: the dialog's list lags by what calls have written and their answers will
  edit, and by nothing else; `OnePerPerson`: while nothing crossed, no two calls are about one
  person; `ReadsAreSound`, `OldIsHeardOf`: what was read and is not old is what there is, and on
  the page word is on its way of whatever made a read one old, so that it is read again.
* `KeysInv`. `MakerIsSound`: between INSERT and announcement a card is its maker's;
  `CallIsSound`: what a call has seen of the key; `OneCardEach`: the unique index.
* `HooksInv`. `KeepsUp`: what a dispatch notes of who could read; `AsksRightly`: whom it has
  yet to ask about; `ForgetsNobody`: who is owed a delivery is asked about, or told.
* `MailInv`. Mails are counted by the runs that hold a notification: those that will mail
  it and those that will mark it (`Mailers`, `Markers`), as cardinalities of sets of runs.
* `LabelInv`. `CallOwns`: what a request for a card holds of the card's labels; `CardsApart`:
  no two requests for one card; `WornByCards`, `NoneLost`: a label somebody took off is
  worn elsewhere or in the hands of the request that will ask about it.
* `RemindInv`. `OneAtWork`, `TodoIsDue`, `TodoOnce`, `HeadTold`, `MarkedTold`, `Counted`,
  `OneLeft`: where a sweep is in its list and whom of the head it has told, related to
  what `told` and `armed` count.
* `BellInv`. `OneReads`: while nothing crossed, one call reads; `GoesOn`: it goes on from the last
  row in hand; `ReadsWhole`: what the bell *will* list once that call is answered has no gap
  either, whatever was made since it read; `DotFollows`: while nothing changed, the count it
  brings is the count there is, and the older row it offers is there (`Offers`). A row's place in a page is its rank, so that a set of rows has one such list
  (`NewestFirst`), and ids and seconds grow together, so that older is less.
* `RepeatInv`. `TakenOnce` and `NothingFallsBetween` count: a card's rhythms given are those
  still on it, taken, or stopped; those taken are made into a next card, lost, or in one
  sweep's hands, again by cardinalities. `DueLater` and `SweptLater` carry `NoPileUp`: a card
  a sweep made is due after that sweep's moment, so no sweep that was under way looks at
  it. `Series` says of rows, and of the rows edits have read, that turn and due date lie on
  the grid.

* `OrderInv`. `ListIsWhole`: a drag numbers columns along a list that has each once, and, while nobody
  crosses it, exactly those shown, the first of them numbered already (`NumberedTo`);
  `AloneIsAlone`: a drag nobody crossed has the table to itself; `DraggedIsLast`: the list
  of the last drag is numbered to its end.
* `PlacingInv`. `PlanHolds`: as long as nobody interferes, there is an order, the column with
  the card in it where it belongs (`Planned`), of which the call has written the numbers up
  to its own and has the rest in hand (`Written`). Once all is written the SELECT answers
  that order (`ReadAgain`). That a column can be read at all, and that the board shows a
  card at every position it counts, is one lemma about finite sets in an order (`Ranks`):
  how many are before a member tells the members apart and takes every value.
* `SearchInv`. `NumberedOnce`: a question is known by its number; `LatestIsRight`: the latest
  is about the field's term and has found what there is in the groups it has looked at;
  `AskedOrShown`: it is under way, or its answer is what is shown.
* `ShelfInv`. `ReadIsRight` and `ListedIsRight`: what a list read by itself holds is what is
  on the shelf, with no card next to its column; `AgreedTo`, `DoneIsDone`, `AskingIsOpen`:
  whose wish a request under way carries, and what the dialog has asked about.
* `AddressInv`. `DialogIsWhole`: an open dialog has a card and is not on its way out;
  `InvolvedAgree`: the page shows what the address says or, while a navigation is under
  way, what the address is about to say.
* `ArchiveInv`. A removal is a sequence of statements, so the invariant says what each of its
  steps may rely on: `KnowsItsCards` (the ids read first are all there are in the columns,
  as nobody puts any there), `TidiedSoFar` (which of its cards' rows are gone by now) and
  `FilesInHand` (a file no row names is in the hands of the request that will name it or
  remove it); `PlaceIsThere` and `NoneMixed` for what is put somewhere; `AttachesAlone`: a
  file about to be named is named by nobody else, nor about to be removed. Two things
  about the model came out of it. That names are new must mean new to the removals under
  way too, which random names are (`FreshName`). And `BackIsSeen` had to name an exception: a
  card that is carried into a column being destroyed, and put back from the archive
  before the column's row goes, is left in no column.
* `ExportInv`. What each table that was read still says of the cards that were there all
  along: `ColumnsHold` (their columns were read, unless they strayed), `CardsHold` (they are
  in, once, under those columns), `FilesHold`.
* `OpenInv`. `WordsFollow`: unless edits crossed, every save and message under way says what
  was said last, the row says it or is about to, and a tab that does not yet will be told.
* `PresenceInv`. `TilesFollow` and `CardFollows` say where a tab's interest is at any moment:
  among what it has yet to say (and not take back), among the joins that wait for the
  database, or in the rooms; and in the last case what is shown will be what is served, as
  the last packet about a card that is on its way says it, or what is shown does if there
  is none (`EndsWith`). Order of delivery is all this rests on. `BoardsKnown`: a card that
  somebody is on has a board the server knows, without which the tiles would not be told.

That a set of numbers has a least element (`Min` in `nextOccurrence` and in the order of a
sweep) is `LeastNatural`: the library's induction theorems take operators, which the
provers cannot instantiate, but its theorem that finite sets are well founded under
inclusion takes none; numbers are compared by their initial segments.

### What is only model-checked

* Liveness: `EveryoneIsMailed`, `EveryReminderFires`, `ServesAtLast`, `EchoesEnd`,
  `OwedIsServed`, `DrawnTabsFollowTheEye`. It rests on fairness and ENABLED, which are
  out of the prover's reach.
* Of the browser's properties `InStep`, `CommentsInStep`, `SettingsSettle`, `MapSettles`: their
  invariants relate several queues of messages, and are not written yet.
* `Startup`, `Dashboard`, `Pictures`, and the import half of `Transfer` (`ImportIsWhole`).

## Not modelled

* Rhythms of months and years, whose turns are not of one length (`occurrence`).
* The MCP protocol layer (it keeps no state; the tools are actions of the modules above),
  rendering, the editor, translations, the documentation site.
* Signing in, OAuth, SSO, SAML, rate limits and guarded fetches: mechanisms of security,
  which are not the aim here. Accounts, and the roles a sign-in writes, are modelled in
  `Members`.
* Details of modelled handlers that no property tells apart: the server's cut of a search
  term at 100 characters (`search.ts` 46); some requests of `ArchiveDialog` and `MindMap`
  whose answer is lost after the server has done them; and in `BoardAddress` a few states of
  overtaken navigations, where the page's watcher would not fire and the model closes the
  dialog.
* In the modelled components, what `PROJECT.json` says next to "partly".

## Plan

1. `UpgradedOnce` of `Startup`; `SettingsSettle` and `MapSettles`, by the same account of
   what is on its way as in `OpenInv` and `PresenceInv`.
2. `Calendar`: `occurrence` for months and years as functions, against a reference over a
   range of dates.
