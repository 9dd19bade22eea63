-------------------------------- MODULE Transfer --------------------------------
(* A board taken out as a file while people go on working on it, by its own   *)
(* export or in the dump of the whole database; and a board brought in from   *)
(* another tool's export.  A card has one file at most here; texts, labels,   *)
(* comments and people are left out.                                          *)

EXTENDS Naturals, FiniteSets, Sequences, SequencesExt

CONSTANTS
  SourceCards,     \* of the board that is exported: each with a file
  MaxSourceColumns,\* bound: columns ever made there
  MaxSourceEdits,  \* bound: what people do there meanwhile
  MaxListsBrought, \* MAX_LISTS of trelloImport.ts, MAX_AREAS of boardImport.ts
  MaxCardsBrought, \* MAX_CARDS of both
  MaxFilesBrought  \* MAX_FILES

ASSUME TransferAssumption ==
  MaxSourceColumns \in Nat \ {0} /\ MaxListsBrought \in Nat /\ MaxCardsBrought \in Nat

VARIABLES
  sourceColumns,   \* of the exported board; ids in the order they were made
  columnOf,        \* of its cards that are there
  onDisk,          \* cards whose file is still stored
  out,             \* the export under way: what was read, what was sent
  allAlong,        \* cards on the board ever since the export began
  strayed,         \* of them, those that were put into a column made since
  sourceEdits,
  foreign,         \* the other tool's file
  incoming         \* the import: its step and what it has written

exportVars == <<sourceColumns, columnOf, onDisk, out, allAlong, strayed, sourceEdits>>
importVars == <<foreign, incoming>>
transferVars == <<exportVars, importVars>>

NothingOut == [kind |-> "none", step |-> "idle", columns |-> {}, cards |-> {}, files |-> {}, sent |-> {}]

(* A card of the file is known by its index there; `left` are the files still *)
(* to be brought over, `link` those that stay behind with an address.         *)
NothingIn == [step |-> "idle", fetched |-> {}, columns |-> << >>, cards |-> {}, left |-> << >>,
              link |-> {}, attached |-> {}, listed |-> {}]

TransferInit(files) ==
  /\ sourceColumns = 1..2
  /\ columnOf \in [SourceCards -> 1..2]
  /\ onDisk = SourceCards
  /\ out = NothingOut
  /\ allAlong = {} /\ strayed = {} /\ sourceEdits = MaxSourceEdits
  /\ foreign \in files
  /\ incoming = NothingIn

-----------------------------------------------------------------------------
(* What people do to the board meanwhile.                                     *)
SourceCardsNow == DOMAIN columnOf
SourceEdit == sourceEdits > 0 /\ sourceEdits' = sourceEdits - 1 /\ UNCHANGED <<out, importVars>>

MakeSourceColumn ==
  /\ SourceEdit
  /\ \E id \in 1..MaxSourceColumns :
       /\ \A other \in sourceColumns : other < id
       /\ sourceColumns' = sourceColumns \union {id}
  /\ UNCHANGED <<columnOf, onDisk, allAlong, strayed>>

MoveSourceCard(c, column) ==
  /\ SourceEdit
  /\ c \in SourceCardsNow /\ column \in sourceColumns \ {columnOf[c]}
  /\ columnOf' = [columnOf EXCEPT ![c] = column]
  /\ strayed' = IF out.step \notin {"idle", "columns"} /\ column \notin out.columns
                THEN strayed \union {c} ELSE strayed
  /\ UNCHANGED <<sourceColumns, onDisk, allAlong>>

(* The column goes with its cards and their files.                            *)
DestroySourceColumn(column) ==
  LET gone == {c \in SourceCardsNow : columnOf[c] = column}
  IN /\ SourceEdit
     /\ column \in sourceColumns
     /\ sourceColumns' = sourceColumns \ {column}
     /\ columnOf' = [c \in SourceCardsNow \ gone |-> columnOf[c]]
     /\ onDisk' = onDisk \ gone
     /\ allAlong' = allAlong \ gone
     /\ UNCHANGED strayed

-----------------------------------------------------------------------------
(* buildBoardExport reads table after table, columns first; the dump reads    *)
(* the tables in the order of their names: areas, attachments, cards.         *)
StartExport(kind) ==
  /\ out.step = "idle"
  /\ out' = [NothingOut EXCEPT !.kind = kind, !.step = "columns"]
  /\ allAlong' = SourceCardsNow
  /\ UNCHANGED <<sourceColumns, columnOf, onDisk, strayed, sourceEdits, importVars>>

Reads(step, next, After(_)) ==
  /\ out.step = step
  /\ out' = [After(out) EXCEPT !.step = next]
  /\ UNCHANGED <<sourceColumns, columnOf, onDisk, allAlong, strayed, sourceEdits, importVars>>

ReadSourceColumns ==
  Reads("columns", IF out.kind = "dump" THEN "files" ELSE "cards",
        LAMBDA o : [o EXCEPT !.columns = sourceColumns])

(* A slip: the cards are read column by column.                               *)
ReadCardsByColumn ==
  /\ out.step = "cards"
  /\ LET todo == {col \in out.columns : \A p \in out.cards : p[2] < col}
         next == CHOOSE col \in todo : \A other \in todo : col <= other
         cards == {<<c, next>> : c \in {c \in SourceCardsNow : columnOf[c] = next}}
     IN out' = IF todo = {} THEN [out EXCEPT !.step = IF out.kind = "dump" THEN "sent" ELSE "files"]
               ELSE [out EXCEPT !.cards = @ \union cards \union {<<0, next>>}]
  /\ UNCHANGED <<sourceColumns, columnOf, onDisk, allAlong, strayed, sourceEdits, importVars>>

ReadSourceCards ==
  Reads("cards", IF out.kind = "dump" THEN "sent" ELSE "files",
        LAMBDA o : [o EXCEPT !.cards = {<<c, columnOf[c]>> : c \in SourceCardsNow}])

ReadSourceFiles ==
  Reads("files", IF out.kind = "dump" THEN "cards" ELSE "look",
        LAMBDA o : [o EXCEPT !.files = SourceCardsNow])

(* Only files that are there are named; one that goes before the zip comes to *)
(* it is a warning in the log.                                                *)
LookForFiles == Reads("look", "send", LAMBDA o : [o EXCEPT !.files = @ \intersect onDisk])
SendFiles == Reads("send", "sent", LAMBDA o : [o EXCEPT !.sent = o.files \intersect onDisk])

-----------------------------------------------------------------------------
(* The file: the tool it is from, lists with a place and cards with a list and *)
(* a place, each perhaps closed; a card's file is an address, its bytes, or   *)
(* bytes that are too many.  Places may be the same: the file's own order     *)
(* decides then.                                                              *)
ByPlace(items, which) ==
  SetToSortSeq(which, LAMBDA i, j : items[i].place < items[j].place \/ (items[i].place = items[j].place /\ i < j))
OpenOf(items) == {i \in DOMAIN items : ~items[i].closed}
FirstOf(most, items) == SubSeq(items, 1, IF Len(items) < most THEN Len(items) ELSE most)

(* trelloJsonToBoard takes the first of the open cards before their lists are *)
(* asked for, and the first of the open lists; wekanJsonToBoard takes all.    *)
CardsOfList(list) ==
  LET open == ByPlace(foreign.cards, OpenOf(foreign.cards))
      kept == IF foreign.tool = "trello" THEN FirstOf(MaxCardsBrought, open) ELSE open
  IN SelectSeq(kept, LAMBDA i : foreign.cards[i].list = list)
ListsInOrder ==
  LET open == ByPlace(foreign.lists, OpenOf(foreign.lists))
  IN IF foreign.tool = "trello" THEN FirstOf(MaxListsBrought, open) ELSE open

(* writeImportedBoard goes on to the next column when the budget is used up.  *)
WithinBudget(columns) ==
  [n \in DOMAIN columns |->
    LET before == Len(FlattenSeq(SubSeq(columns, 1, n - 1)))
    IN FirstOf(IF before < MaxCardsBrought THEN MaxCardsBrought - before ELSE 0, columns[n])]

FileOf(i) == foreign.cards[i].file
HasAddress(i) == FileOf(i) = "address" /\ i \notin incoming.fetched

Comes(step, next, After(_)) ==
  /\ incoming.step = step
  /\ incoming' = [After(incoming) EXCEPT !.step = next]
  /\ UNCHANGED <<foreign, exportVars>>

(* bringTrelloFiles: what can be fetched is, and its address forgotten.       *)
FetchFiles(got) == Comes("idle", "write", LAMBDA in : [in EXCEPT !.fetched = got])

(* writeImportedBoard: one transaction, all of it or nothing.                 *)
WriteBoard ==
  LET lists == FirstOf(MaxListsBrought, ListsInOrder)
      columns == WithinBudget([n \in DOMAIN lists |-> CardsOfList(lists[n])])
      cards == FlattenSeq(columns)
  IN Comes("write", "files", LAMBDA in :
       [in EXCEPT !.columns = columns, !.cards = Range(cards),
                  !.left = SelectSeq(cards, LAMBDA i : FileOf(i) # "none")])

WriteRefused == Comes("write", "failed", LAMBDA in : in)

(* A slip: a file that cannot be taken is skipped.                            *)
StaysUnlisted(i) == incoming.link
StaysBehind(i) == IF HasAddress(i) THEN incoming.link \union {i} ELSE incoming.link

(* The file at the head of those left, one of the first MaxFilesBrought.      *)
BringFile ==
  /\ incoming.left # << >>
  /\ LET i == Head(incoming.left)
         before == Cardinality({j \in incoming.cards : FileOf(j) # "none"}) - Len(incoming.left)
         fits == before < MaxFilesBrought /\ FileOf(i) # "huge" /\ ~HasAddress(i)
     IN \/ /\ fits
           /\ Comes("files", "files", LAMBDA in : [in EXCEPT !.left = Tail(@), !.attached = @ \union {i}])
        \/ Comes("files", "files", LAMBDA in : [in EXCEPT !.left = Tail(@), !.link = StaysBehind(i)])

ListLinks(i) ==
  /\ incoming.left = << >> /\ i \in incoming.link
  /\ Comes("files", "files", LAMBDA in : [in EXCEPT !.link = @ \ {i}, !.listed = @ \union {i}])

FinishImport ==
  /\ incoming.left = << >> /\ incoming.link = {}
  /\ Comes("files", "done", LAMBDA in : in)

-----------------------------------------------------------------------------
ExportNext ==
  \/ MakeSourceColumn
  \/ \E c \in SourceCards, column \in 1..MaxSourceColumns : MoveSourceCard(c, column)
  \/ \E column \in 1..MaxSourceColumns : DestroySourceColumn(column)
  \/ \E kind \in {"export", "dump"} : StartExport(kind)
  \/ ReadSourceColumns \/ ReadSourceCards \/ ReadSourceFiles \/ LookForFiles \/ SendFiles

ImportNext ==
  \/ \E got \in SUBSET {i \in DOMAIN foreign.cards : FileOf(i) = "address"} : FetchFiles(got)
  \/ WriteBoard \/ WriteRefused \/ BringFile \/ FinishImport
  \/ \E i \in DOMAIN foreign.cards : ListLinks(i)

TransferNext == ExportNext \/ ImportNext
TransferSpec(files) == TransferInit(files) /\ [][TransferNext]_transferVars

-----------------------------------------------------------------------------
(* A file taken while people move cards, make columns and destroy them holds  *)
(* every card that was on the board all along, once, under a column it holds  *)
(* too, and its file; but not one put into a column that was made meanwhile   *)
(* (buildBoardExport, sqlDump).                                               *)
ExportHoldsEachCard ==
  out.step = "sent" =>
    \A c \in allAlong \ strayed :
      /\ Cardinality({p \in out.cards : p[1] = c /\ p[2] \in out.columns}) = 1
      /\ c \in IF out.kind = "dump" THEN out.files ELSE out.sent

(* An import that ends has brought over the open lists in the order the other *)
(* tool showed them, each with its open cards from the top; one that fails    *)
(* leaves nothing.  Beyond the limits lists and cards are dropped without a   *)
(* word: no more columns come than MaxListsBrought, those after it stay out   *)
(* with their cards, and of the cards no more come than MaxCardsBrought; if   *)
(* the file holds no more of them, each column that comes is whole            *)
(* (writeImportedBoard, trelloJsonToBoard, wekanJsonToBoard).                 *)
ImportKeepsOrder ==
  LET lists == FirstOf(MaxListsBrought, ByPlace(foreign.lists, OpenOf(foreign.lists)))
      shown == [n \in DOMAIN lists |-> ByPlace(foreign.cards,
                  {i \in OpenOf(foreign.cards) : foreign.cards[i].list = lists[n]})]
  IN /\ incoming.step \in {"files", "done"} =>
          /\ DOMAIN incoming.columns = DOMAIN shown
          /\ \A n \in DOMAIN shown : IsPrefix(incoming.columns[n], shown[n])
          /\ Len(FlattenSeq(incoming.columns)) <= MaxCardsBrought
          /\ Cardinality(OpenOf(foreign.cards)) <= MaxCardsBrought => incoming.columns = shown
     /\ incoming.step = "failed" => incoming.columns = << >>

(* No file that still has an address is lost: its card carries it, or a link  *)
(* to it (writeImportedBoard).                                                *)
AddressesAreListed ==
  incoming.step = "done" =>
    \A i \in incoming.cards : HasAddress(i) => i \in incoming.attached \union incoming.listed

(* What is within the limits is brought over in its order, with its files.    *)
ImportIsWhole == ImportKeepsOrder /\ AddressesAreListed
=============================================================================
