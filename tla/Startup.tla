-------------------------------- MODULE Startup --------------------------------
(* How a server starts (server/plugins/0.database-migrate.ts and              *)
(* 1.bootstrap-admin.ts, app/lib/databaseSetup.ts): under a lock it applies   *)
(* the migrations that are not recorded yet, statement by statement and       *)
(* without a transaction, records each when it is through, and then makes the *)
(* first administrator.  A crash leaves the statements made so far; the next  *)
(* start runs that migration again from its top.                              *)

EXTENDS Naturals, Sequences, FiniteSets, SequencesExt

CONSTANTS
  Servers,        \* processes of one instance, on one database
  Upgrades        \* the migrations an instance has behind it when it is started,
                  \* and bounds: processes that are killed, and waits for the lock
                  \* that are given up

-----------------------------------------------------------------------------
(* The statements a migration is made of.  A question of the catalogue skips  *)
(* the next `n` statements when the answer is the other one.                  *)

CreateTable(x) == <<[op |-> "create", x |-> x, n |-> 0]>>      \* CREATE TABLE IF NOT EXISTS
Add(x) == <<[op |-> "add", x |-> x, n |-> 0]>>            \* fails when it is there
Discard(x) == <<[op |-> "remove", x |-> x, n |-> 0]>>      \* fails when it is not
IfMissing(x, n) == <<[op |-> "missing?", x |-> x, n |-> n]>>
IfPresent(x, n) == <<[op |-> "present?", x |-> x, n |-> n]>>
Change(x) == <<[op |-> "change", x |-> x, n |-> 0]>>      \* rows, or a column's type

(* A slip: made without asking.                                               *)
EnsureUnasked(x) == Add(x)

(* Made unless the catalogue has it.                                          *)
Ensure(x) == IfMissing(x, 1) \o Add(x)
Each(xs, Make(_)) == FlattenSeq([i \in DOMAIN xs |-> Make(xs[i])])

BaselineSchema ==
  << Each(<<"account", "apikey", "boards", "areas", "cards", "attachments", "comments",
            "invitations", "notifications", "session", "user", "verification">>, CreateTable) >>

(* 0002 to 0006.                                                              *)
ColumnsUnguarded ==
  << Change("hash keys"),
     Add("cards.dueDate") \o CreateTable("card_reminders") \o Change("notification types"),
     Add("user.onboarded") \o Change("mark onboarded"),
     Add("notifications.notified") \o Change("mark notified"),
     Add("comments.authorName") >>

(* 0007: the original is kept once, each row is converted from it and marked. *)
ContentToMarkdown ==
  << CreateTable("content backup") \o Ensure("backup.convertedAt") \o Change("back up")
       \o IfMissing("row converted", 2) \o Change("convert") \o Change("mark converted") >>

(* 0008 to 0011.                                                              *)
AgentsAndBoards ==
  << Each(<<"user.type", "user.emailNotifications">>, Ensure),
     Each(<<"cards.idempotencyKey", "cards_area_idempotency">>, Ensure),
     CreateTable("webhooks"),
     CreateTable("board_groups") \o CreateTable("board_placements") >>

(* 0012 and 0013.                                                             *)
IndexesAdded ==
  << Each(<<"session_token", "session_user", "apikey_key", "apikey_reference", "account_user",
            "verification_identifier", "user_email", "boards_user", "areas_board",
            "cards_assignee", "comments_card", "attachments_card", "invitations_board",
            "invitations_user", "notifications_user", "notifications_board",
            "notifications_card">>, Ensure),
     Each(<<"notifications.actorId", "notifications_actor">>, Ensure) >>

(* 0014 to 0019.                                                              *)
HistoryAndInvites ==
  << CreateTable("card_activity"),
     Ensure("boards.color"),
     CreateTable("board_email_invites"),
     Change("orphaned invitations") \o Change("orphaned notifications"),
     IfMissing("account_provider_subject", 2) \o Change("keep the oldest link")
       \o Add("account_provider_subject"),
     CreateTable("saml_assertions_seen") >>

(* 0020 to 0024, each of which finds for itself what is left to do.           *)
Repairs ==
  << Change("orphaned card data"), Change("placeholders to WebP"), Change("profile pictures"),
     Change("other pictures"), Change("pictures in notifications") >>

(* 0025 to 0028; the index on label names is made without asking.             *)
LabelsArchiveOAuth ==
  << CreateTable("labels") \o CreateTable("card_labels"),
     Change("collapse label names") \o Add("labels_board_name"),
     Each(<<"cards.archivedAt", "areas.archivedAt", "boards.archivedAt">>, Ensure),
     Each(<<"oauth_clients", "oauth_codes", "oauth_tokens", "oauth_consents">>, CreateTable) >>

RepeatingCards ==
  << Each(<<"cards.repeatEvery", "cards.repeatAnchor", "cards.repeatArea">>, Ensure) >>

(* 0030: everyone on a card is carried over, then the column goes.            *)
AssigneesToRows ==
  << CreateTable("card_assignees") \o IfPresent("cards.assignee", 4)
       \o Change("carry over")
       \o IfPresent("cards_assignee", 1) \o Discard("cards_assignee")
       \o Discard("cards.assignee") >>

(* 0031 and 0032.                                                             *)
RepeatAndMap ==
  << Each(<<"cards.repeatNext", "cards_repeat_next">>, Ensure) \o Change("next turns"),
     Change("board styles")
       \o Each(<<"boards.mapX", "boards.mapY", "areas.mapX", "areas.mapY",
                 "cards.mapX", "cards.mapY">>, Ensure) >>

(* 0033 and 0034.                                                             *)
HashesOfTokens == << Change("hash tokens"), Change("hash resets") >>

(* 0035 and 0036.                                                             *)
AddressesUnique ==
  << Change("one account per address") \o Ensure("user_email unique"),
     Change("local accounts") >>

Migrations ==
  BaselineSchema \o ColumnsUnguarded \o ContentToMarkdown \o AgentsAndBoards \o IndexesAdded
    \o HistoryAndInvites \o Repairs \o LabelsArchiveOAuth \o RepeatingCards
    \o AssigneesToRows \o RepeatAndMap \o HashesOfTokens \o AddressesUnique

-----------------------------------------------------------------------------
VARIABLES
  schema,         \* tables, columns and indexes there are
  data,           \* what has become of the rows the migrations rewrite
  recorded,       \* migrations in the table `migrations`
  migrationLock,  \* the server that holds the named lock, in a set
  server,         \* per process: where it is, and the list it read
  admin,          \* accounts with the configured address; is there an administrator
  spare           \* what is left of the bounds

startVars == <<schema, data, recorded, migrationLock, server, admin, spare>>

(* ADD COLUMN of 0003 makes two columns at once; a converted row has a mark.  *)
Made(st) ==
  CASE st.x = "cards.dueDate" -> {"cards.dueDate", "cards.assignee"}
    [] st.x = "mark converted" -> {"row converted"}
    [] st.x # "cards.dueDate" /\ st.op \in {"create", "add"} -> {st.x}
    [] OTHER -> {}

Adds(m) ==
  UNION {Made(m[i]) : i \in DOMAIN m}
Removes(m) == {m[i].x : i \in {j \in DOMAIN m : m[j].op = "remove"}}

(* An instance with the first k migrations behind it.                         *)
Unapplied(k) ==
  LET done == SubSeq(Migrations, 1, k)
  IN  UNION {Adds(done[i]) : i \in 1..k} \ UNION {Removes(done[i]) : i \in 1..k}

(* One row of each kind, as that instance has it: content as HTML before 0007 *)
(* and as Markdown after; a key, a session and a reset link, hashed or not;   *)
(* somebody on a card, in the column (from 0003) or in a row (from 0030).     *)
RowsOf(k) ==
  [turned |-> IF k < 7 THEN 0 ELSE 1, backup |-> {0 : i \in 7..k},
   hashed |-> [keys |-> IF k < 2 THEN 0 ELSE 1, tokens |-> IF k < 33 THEN 0 ELSE 1,
               resets |-> IF k < 34 THEN 0 ELSE 1],
   people |-> IF k < 30 THEN {} ELSE {"on it"}]

ServerDown == [at |-> "down", m |-> 0, s |-> 1, list |-> {}]

StartInit ==
  /\ spare \in Upgrades
  /\ recorded = 1..spare.behind
  /\ schema = Unapplied(spare.behind)
  /\ data = RowsOf(spare.behind)
  /\ migrationLock = {}
  /\ server = [p \in Servers |-> ServerDown]
  /\ admin \in [rows : {0, 1}, there : {FALSE}]

-----------------------------------------------------------------------------
(* A row is converted from the backup, which holds what was there first.      *)
Convert(d) ==
  IF d.backup = {} THEN d ELSE [d EXCEPT !.turned = (CHOOSE b \in d.backup : TRUE) + 1]

(* Only what has the length of a token that was never hashed is hashed.       *)
Hash(d, what) == [d EXCEPT !.hashed[what] = 1]

Changed(d, x) ==
  CASE x = "hash keys" -> Hash(d, "keys")
    [] x = "hash tokens" -> Hash(d, "tokens")
    [] x = "hash resets" -> Hash(d, "resets")
    [] x = "back up" -> IF d.backup = {} THEN [d EXCEPT !.backup = {d.turned}] ELSE d
    [] x = "convert" -> Convert(d)
    [] x = "carry over" -> [d EXCEPT !.people = {"on it"}]
    [] OTHER -> d

StatementRefused(st) ==
  \/ st.op = "add" /\ st.x \in schema
  \/ st.op = "remove" /\ st.x \notin schema
  \/ st.x = "carry over" /\ "cards.assignee" \notin schema

Is(p, where) == server[p].at = where
Move(p, where) == server' = [server EXCEPT ![p].at = where]
LetGo(p) == migrationLock' = migrationLock \ {p}

(* A failure is thrown out of the run, which lets go of the lock; the health  *)
(* check says "error" until the server is started again.                      *)
MigrationFails(p) == Move(p, "failed") /\ LetGo(p)

Start(p) ==
  /\ server[p].at \in {"down", "failed"}
  /\ server' = [server EXCEPT ![p] = [ServerDown EXCEPT !.at = "locking"]]
  /\ UNCHANGED <<schema, data, recorded, migrationLock, admin, spare>>

TakeLock(p) ==
  /\ Is(p, "locking") /\ migrationLock = {}
  /\ migrationLock' = {p}
  /\ Move(p, "listing")
  /\ UNCHANGED <<schema, data, recorded, admin, spare>>

(* The wait ends after ten minutes, or the lock is refused: on without it.    *)
GoWithout(p) ==
  /\ Is(p, "locking") /\ spare.waits > 0
  /\ spare' = [spare EXCEPT !.waits = @ - 1]
  /\ Move(p, "listing")
  /\ UNCHANGED <<schema, data, recorded, migrationLock, admin>>

(* The next migration of the process, by the list it read.                    *)
NextOf(list, m) ==
  LET todo == {i \in DOMAIN Migrations : i > m /\ i \notin list}
  IN  IF todo = {} THEN 0 ELSE CHOOSE i \in todo : \A j \in todo : i <= j

Proceed(p, list, m) ==
  server' = [server EXCEPT ![p] = [at |-> IF NextOf(list, m) = 0 THEN "migrated" ELSE "running",
                                   m |-> NextOf(list, m), s |-> 1, list |-> list]]

ReadList(p) ==
  /\ Is(p, "listing")
  /\ Proceed(p, recorded, 0)
  /\ UNCHANGED <<schema, data, recorded, migrationLock, admin, spare>>

Skips(st) ==
  CASE st.op = "missing?" -> IF st.x \in schema THEN st.n ELSE 0
    [] st.op = "present?" -> IF st.x \in schema THEN 0 ELSE st.n
    [] OTHER -> 0

Execute(p) ==
  LET m == Migrations[server[p].m]
      st == m[server[p].s]
  IN  /\ Is(p, "running") /\ server[p].s <= Len(m)
      /\ IF StatementRefused(st)
           THEN MigrationFails(p) /\ UNCHANGED <<schema, data>>
           ELSE /\ server' = [server EXCEPT ![p].s = @ + 1 + Skips(st)]
                /\ schema' = IF st.op = "remove" THEN schema \ {st.x} ELSE schema \cup Made(st)
                /\ data' = IF st.op = "change" THEN Changed(data, st.x) ELSE data
                /\ UNCHANGED migrationLock
      /\ UNCHANGED <<recorded, admin, spare>>

(* A slip: a migration is recorded when it begins.                            *)
RecordEarly(p) ==
  /\ Is(p, "running") /\ server[p].m \notin recorded
  /\ recorded' = recorded \cup {server[p].m}
  /\ Proceed(p, server[p].list, server[p].m)
  /\ UNCHANGED <<schema, data, migrationLock, admin, spare>>

(* Recorded when it is through; the id is the table's key.                    *)
Record(p) ==
  /\ Is(p, "running") /\ server[p].s > Len(Migrations[server[p].m])
  /\ IF server[p].m \in recorded
       THEN MigrationFails(p) /\ UNCHANGED recorded
       ELSE /\ recorded' = recorded \cup {server[p].m}
            /\ Proceed(p, server[p].list, server[p].m)
            /\ UNCHANGED migrationLock
  /\ UNCHANGED <<schema, data, admin, spare>>

Release(p) ==
  /\ Is(p, "migrated")
  /\ LetGo(p)
  /\ Move(p, "bootstrap")
  /\ UNCHANGED <<schema, data, recorded, admin, spare>>

(* The first administrator: none yet?  the address known?  promote or insert. *)
LookForAdmin(p) ==
  /\ Is(p, "bootstrap")
  /\ Move(p, IF admin.there THEN "ready" ELSE "adminless")
  /\ UNCHANGED <<schema, data, recorded, migrationLock, admin, spare>>

LookForAddress(p) ==
  /\ Is(p, "adminless")
  /\ IF admin.rows > 0
       THEN admin' = [admin EXCEPT !.there = TRUE] /\ Move(p, "ready")
       ELSE UNCHANGED admin /\ Move(p, "inserting")
  /\ UNCHANGED <<schema, data, recorded, migrationLock, spare>>

(* A second account with the address is refused and logged; it serves anyway. *)
InsertAdmin(p) ==
  /\ Is(p, "inserting")
  /\ admin' = IF "user_email unique" \in schema /\ admin.rows > 0 THEN admin
              ELSE [rows |-> admin.rows + 1, there |-> TRUE]
  /\ Move(p, "ready")
  /\ UNCHANGED <<schema, data, recorded, migrationLock, spare>>

(* The process is killed; its session ends, and with it its lock.             *)
Kill(p) ==
  /\ server[p].at \notin {"down", "ready", "failed"} /\ spare.kills > 0
  /\ spare' = [spare EXCEPT !.kills = @ - 1]
  /\ server' = [server EXCEPT ![p] = ServerDown]
  /\ LetGo(p)
  /\ UNCHANGED <<schema, data, recorded, admin>>

ServerStep(p) ==
  \/ Start(p) \/ TakeLock(p) \/ ReadList(p) \/ Execute(p) \/ Record(p) \/ Release(p)
  \/ LookForAdmin(p) \/ LookForAddress(p) \/ InsertAdmin(p)

StartNext == \E p \in Servers : ServerStep(p) \/ GoWithout(p) \/ Kill(p)

(* A server that is down or failed is started again, and carries on.          *)
StartFairness == \A p \in Servers : WF_startVars(ServerStep(p))

StartSpec == StartInit /\ [][StartNext]_startVars /\ StartFairness

-----------------------------------------------------------------------------
StartTypeOK ==
  /\ recorded \subseteq DOMAIN Migrations
  /\ \A p \in Servers : server[p].m \in 0..Len(Migrations)

(* A server that calls itself ready has every migration recorded, everything  *)
(* they make, the people who were on cards, and the administrator, who is     *)
(* made once, whoever else is starting, and whatever was killed half way.     *)
ReadyMeansMigrated ==
  (\E p \in Servers : Is(p, "ready")) =>
    /\ recorded = DOMAIN Migrations
    /\ \A m \in DOMAIN Migrations : Adds(Migrations[m]) \ {"cards.assignee", "cards_assignee"} \subseteq schema
    /\ data.people # {}
    /\ admin.there /\ admin.rows <= 1

(* However often a migration is run again, and by however many at once, a     *)
(* row's content is converted once and a secret is hashed once.               *)
RewrittenOnce == data.turned <= 1 /\ \A w \in DOMAIN data.hashed : data.hashed[w] <= 1

(* An upgrade is done completely, and done once.                              *)
UpgradedOnce == ReadyMeansMigrated /\ RewrittenOnce

(* "letting the retry die on 'Duplicate column name' ... would wedge startup  *)
(* permanently" (databaseSetup.ts): a server that was killed during an        *)
(* upgrade can be started again, and a server that starts is ready in the end. *)
ServesAtLast == \A p \in Servers : Is(p, "locking") ~> Is(p, "ready")
=============================================================================
