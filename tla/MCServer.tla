------------------------------- MODULE MCServer -------------------------------
(* The parts of the server that write different tables, each on a small       *)
(* instance: a behaviour is one of a single part, drawn at the start, and the *)
(* others rest.  The handlers, sweeps and processes of a part are             *)
(* interchangeable.                                                           *)
EXTENDS Labels, Archive, ColumnOrder, Startup, RepeatSeries, Reminders,
        Members, Transfer, InviteDialog, CardKeys, Webhooks, TLC

VARIABLE part

Up(ran, kills, waits) == [behind |-> ran, kills |-> kills, waits |-> waits]
ServerUpgrades == {Up(0, 0, 0), Up(6, 1, 0), Up(29, 1, 1), Up(34, 1, 1)}
Symmetric == Permutations(Servers)

(* Files to bring in: of either tool, up to and beyond the limits.            *)
ForeignLists(n) == [1..n -> [place : {1, 2}, closed : BOOLEAN]]
ForeignCards(lists, places, closed, files) ==
  [list : lists, place : places, closed : closed, file : files]
ForeignFiles ==
  LET all == [1..3 -> ForeignCards({1, 2}, {1, 2}, BOOLEAN, {"none"})]
      open == [1..3 -> ForeignCards({1, 2}, {1, 2}, {FALSE}, {"none"})]
      filed == [1..2 -> ForeignCards({1, 2}, {1}, {FALSE}, {"address", "bytes", "huge"})]
      few == [1..2 -> ForeignCards(1..3, {1}, {FALSE}, {"none"})]
  IN [tool : {"trello"}, lists : ForeignLists(2), cards : all \union filed]
     \union [tool : {"wekan"}, lists : ForeignLists(2), cards : open]
     \union [tool : {"trello", "wekan"}, lists : ForeignLists(3), cards : few]
AFile == CHOOSE f \in ForeignFiles : TRUE

StartRests == StartInit /\ spare = Up(0, 0, 0) /\ admin.rows = 0
ArchiveRests == ArchiveInit({}, FALSE)
RepeatRests == Init /\ rows[1].every = Off /\ rows[1].due = NoDate
(* The exported board has its cards in one column when nobody exports it.     *)
CardsInOneColumn == \A c \in SourceCards : columnOf[c] = 1
HooksRest == HooksInit /\ seenBy = "private" /\ guests = {}
TransferRests == TransferInit({AFile}) /\ CardsInOneColumn

MCInit ==
  /\ LabelInit /\ OrderInit /\ ReminderInit /\ MembersInit /\ KeysInit
  /\ \/ part \in {"labels", "columns", "reminders", "members", "dialog", "keys", "webhooks"}
        /\ ArchiveRests /\ StartRests /\ RepeatRests /\ TransferRests
     \/ /\ part = "archive" /\ StartRests /\ RepeatRests /\ TransferRests
        /\ \E old \in SUBSET ({"board"} \union Columns \union ArchiveCards), pair \in BOOLEAN :
             ArchiveInit(old, pair)
     \/ part = "startup" /\ ArchiveRests /\ StartInit /\ RepeatRests /\ TransferRests
     \/ part = "repeat" /\ ArchiveRests /\ StartRests /\ Init /\ TransferRests
     \/ part = "export" /\ ArchiveRests /\ StartRests /\ RepeatRests /\ TransferInit({AFile})
     \/ /\ part = "import" /\ ArchiveRests /\ StartRests /\ RepeatRests
        /\ TransferInit(ForeignFiles) /\ CardsInOneColumn
  /\ IF part = "dialog" THEN \E own \in BOOLEAN : InviteInit(own) ELSE InviteInit(FALSE)
  /\ IF part = "webhooks" THEN HooksInit ELSE HooksRest

(* Two sweepers meet an edit or a crash; both at once are in MCTabs.          *)
OneUpset == acts' + deaths' <= 1

MCNext ==
  /\ UNCHANGED part
  /\ \/ /\ part = "labels" /\ LabelNext
        /\ UNCHANGED <<orderVars, archiveVars, startVars, vars, reminderVars, memberVars,
                       transferVars, inviteVars, keyVars, hookVars>>
     \/ /\ part = "columns" /\ OrderNext
        /\ UNCHANGED <<labelVars, archiveVars, startVars, vars, reminderVars, memberVars,
                       transferVars, inviteVars, keyVars, hookVars>>
     \/ /\ part = "archive" /\ ArchiveNext
        /\ UNCHANGED <<labelVars, orderVars, startVars, vars, reminderVars, memberVars,
                       transferVars, inviteVars, keyVars, hookVars>>
     \/ /\ part = "startup" /\ StartNext
        /\ UNCHANGED <<labelVars, orderVars, archiveVars, vars, reminderVars, memberVars,
                       transferVars, inviteVars, keyVars, hookVars>>
     \/ /\ part = "repeat" /\ Next /\ OneUpset
        /\ UNCHANGED <<labelVars, orderVars, archiveVars, startVars, reminderVars, memberVars,
                       transferVars, inviteVars, keyVars, hookVars>>
     \/ /\ part = "reminders" /\ ReminderNext
        /\ UNCHANGED <<labelVars, orderVars, archiveVars, startVars, vars, memberVars,
                       transferVars, inviteVars, keyVars, hookVars>>
     \/ /\ part = "members" /\ MembersNext
        /\ UNCHANGED <<labelVars, orderVars, archiveVars, startVars, vars, reminderVars,
                       transferVars, inviteVars, keyVars, hookVars>>
     \/ /\ part = "export" /\ ExportNext
        /\ UNCHANGED <<labelVars, orderVars, archiveVars, startVars, vars, reminderVars,
                       memberVars, inviteVars, keyVars, hookVars>>
     \/ /\ part = "import" /\ ImportNext
        /\ UNCHANGED <<labelVars, orderVars, archiveVars, startVars, vars, reminderVars,
                       memberVars, inviteVars, keyVars, hookVars>>
     \/ /\ part = "dialog" /\ InviteNext
        /\ UNCHANGED <<labelVars, orderVars, archiveVars, startVars, vars, reminderVars,
                       memberVars, transferVars, keyVars, hookVars>>
     \/ /\ part = "keys" /\ KeysNext
        /\ UNCHANGED <<labelVars, orderVars, archiveVars, startVars, vars, reminderVars,
                       memberVars, transferVars, inviteVars, hookVars>>
     \/ /\ part = "webhooks" /\ HooksNext
        /\ UNCHANGED <<labelVars, orderVars, archiveVars, startVars, vars, reminderVars,
                       memberVars, transferVars, inviteVars, keyVars>>

MCSpec ==
  MCInit /\ [][MCNext]_<<part, labelVars, orderVars, archiveVars, startVars, vars, reminderVars,
                          memberVars, transferVars, inviteVars, keyVars, hookVars>>
=============================================================================
