------------------------------- MODULE CardFiles -------------------------------
(* Attaching files to a card that is open in several tabs                     *)
(* (app/components/CardModal.vue).  Picked files are uploaded one after the   *)
(* other; each goes to `newAttachments` and the whole card is saved, with     *)
(* everything that waits there.  Any other save takes along what waits too.   *)
(* Taking an attachment off a card is in OpenCard.                            *)

EXTENDS Naturals, Sequences, SequencesExt

CONSTANTS
  FileTabs,       \* tabs with the card open
  PickedFiles,    \* files people have
  Accepted,       \* those of them whose type is accepted
  FileBatches,    \* pickings that may be under way at a time
  Pending,        \* no answer yet, no batch, nothing read
  FileBudgets     \* bounds: how many other saves, lost saves and lost connections

ASSUME FilesAssumption ==
  Accepted \subseteq PickedFiles /\ Pending \notin FileBatches /\ Pending \notin Seq(Nat)

VARIABLES
  attached,       \* rows of `attachments`; an id is a position
  listed,         \* per tab: the ids the dialog lists
  toSave,         \* per tab: newAttachments
  batch,          \* pickings under way
  puts,           \* saves under way
  news,           \* what tabs are being told
  reading,        \* per tab: what it is about to read
  offline,        \* tabs that lost their connection
  picked,         \* files that were picked, with the tab
  marks,          \* "crossed": something began before the last change had gone
                  \* round, or in a tab without a connection; "lost": a save was
  filesLeft       \* what is left of the bounds

filesVars == <<attached, listed, toSave, batch, puts, news, reading, offline, picked, marks, filesLeft>>

NoBatch == [tab |-> Pending, rest |-> << >>, step |-> "idle"]

FilesInit ==
  /\ attached = << >> /\ listed = [t \in FileTabs |-> << >>] /\ toSave = [t \in FileTabs |-> << >>]
  /\ batch = [b \in FileBatches |-> NoBatch] /\ puts = {} /\ news = {}
  /\ reading = [t \in FileTabs |-> Pending] /\ offline = {} /\ picked = {} /\ marks = {}
  /\ filesLeft \in FileBudgets

FilesSpend(what) == filesLeft[what] > 0 /\ filesLeft' = [filesLeft EXCEPT ![what] = @ - 1]
GoingRound == puts # {} \/ news # {} \/ \E t \in FileTabs : reading[t] # Pending
SaveBegins(late) == marks' = IF GoingRound \/ late THEN marks \union {"crossed"} ELSE marks

(* saveCard: the request takes along what waits.  Two requests of a tab may   *)
(* be under way with the same files.                                          *)
Send(t, b, files) ==
  puts' = puts \union {[by |-> t, for |-> b, files |-> files, answer |-> Pending, twin |-> twin] :
                         twin \in {IF \E p \in puts : p.by = t /\ p.for = b /\ p.files = files THEN 2 ELSE 1}}

-----------------------------------------------------------------------------
(* handleDrop and handleFileSelect.                                           *)
PickFiles(t, b, files) ==
  /\ batch[b] = NoBatch /\ \A f \in ToSet(files) : \A u \in FileTabs : <<u, f>> \notin picked
  /\ batch' = [batch EXCEPT ![b] = [tab |-> t, rest |-> files, step |-> "next"]]
  /\ picked' = picked \union ({t} \X ToSet(files))
  /\ UNCHANGED <<attached, listed, toSave, puts, news, reading, offline, marks, filesLeft>>

(* processFiles: a type that is not accepted is passed over.                  *)
NextFile(b) ==
  /\ batch[b].step = "next"
  /\ batch' = [batch EXCEPT ![b] =
       IF @.rest = << >> THEN NoBatch
       ELSE IF Head(@.rest) \in Accepted THEN [@ EXCEPT !.step = "upload"]
       ELSE [@ EXCEPT !.rest = Tail(batch[b].rest)]]
  /\ UNCHANGED <<attached, listed, toSave, puts, news, reading, offline, picked, marks, filesLeft>>

(* The upload is answered.  One that failed is attached all the same: its     *)
(* bytes then go into the row.                                                *)
Uploaded(b) ==
  /\ batch[b].step = "upload"
  /\ LET t == batch[b].tab
         waiting == Append(toSave[t], Head(batch[b].rest))
     IN toSave' = [toSave EXCEPT ![t] = waiting] /\ Send(t, b, waiting)
  /\ batch' = [batch EXCEPT ![b].step = "save", ![b].rest = Tail(@)]
  /\ SaveBegins(batch[b].tab \in offline)
  /\ UNCHANGED <<attached, listed, news, reading, offline, picked, filesLeft>>

(* Any other save of the card: a tick, a label, a date.                       *)
SaveAnother(t) ==
  /\ FilesSpend("ticks")
  /\ Send(t, Pending, toSave[t])
  /\ SaveBegins(t \in offline)
  /\ UNCHANGED <<attached, listed, toSave, batch, news, reading, offline, picked>>

(* card PUT: a row for each file.  The answer is asked for with `id IN (?)`   *)
(* and one string of all the ids, which stands for the first of them.         *)
StoreFiles(p) ==
  /\ p.answer = Pending
  /\ attached' = attached \o p.files
  /\ puts' = (puts \ {p}) \union
       {[p EXCEPT !.answer = IF p.files = << >> THEN << >> ELSE <<Len(attached) + 1>>]}
  /\ UNCHANGED <<listed, toSave, batch, news, reading, offline, picked, marks, filesLeft>>

(* The batch goes on when its save is over, however it ended.                 *)
GoesOn(p) ==
  batch' = IF p.for = Pending THEN batch ELSE [batch EXCEPT ![p.for].step = "next"]

Tell(t, ids) == news' = news \union {[to |-> u, ids |-> ids] : u \in FileTabs \ ({t} \union offline)}

(* A slip: the dialog that saved does not take its own answer.                *)
AnswerForOthers(p) ==
  /\ p.answer # Pending /\ puts' = puts \ {p}
  /\ Tell(p.by, listed[p.by] \o p.answer)
  /\ toSave' = [toSave EXCEPT ![p.by] = << >>]
  /\ GoesOn(p)
  /\ UNCHANGED <<attached, listed, reading, offline, picked, marks, filesLeft>>

(* The answer's files are put under the list, nothing waits any more, and the *)
(* others are sent the whole list.                                            *)
Answered(p) ==
  /\ p.answer # Pending /\ puts' = puts \ {p}
  /\ LET ids == listed[p.by] \o p.answer
     IN listed' = [listed EXCEPT ![p.by] = ids] /\ Tell(p.by, ids)
  /\ toSave' = [toSave EXCEPT ![p.by] = << >>]
  /\ GoesOn(p)
  /\ UNCHANGED <<attached, reading, offline, picked, marks, filesLeft>>

(* The request or its answer is lost: what waits goes on waiting.             *)
FileSaveFails(p) ==
  /\ FilesSpend("failures") /\ puts' = puts \ {p}
  /\ GoesOn(p) /\ marks' = marks \union {"lost"}
  /\ UNCHANGED <<attached, listed, toSave, news, reading, offline, picked>>

(* handleCardUpdated.  Each event waits for its own access check: any order.  *)
HearFiles(m) ==
  /\ news' = news \ {m}
  /\ listed' = [listed EXCEPT ![m.to] = m.ids]
  /\ UNCHANGED <<attached, toSave, batch, puts, reading, offline, picked, marks, filesLeft>>

GoOffline(t) ==
  /\ t \notin offline /\ FilesSpend("drops")
  /\ offline' = offline \union {t} /\ news' = {m \in news : m.to # t}
  /\ UNCHANGED <<attached, listed, toSave, batch, puts, reading, picked, marks>>

(* resyncCard: the card is read, ...                                          *)
BackOnline(t) ==
  /\ t \in offline /\ offline' = offline \ {t}
  /\ reading' = [reading EXCEPT ![t] = [i \in 1..Len(attached) |-> i]]
  /\ SaveBegins(FALSE)
  /\ UNCHANGED <<attached, listed, toSave, batch, puts, news, picked, filesLeft>>

(* ... and what was read replaces the list.                                   *)
ReadAgain(t) ==
  /\ reading[t] # Pending
  /\ listed' = [listed EXCEPT ![t] = reading[t]] /\ reading' = [reading EXCEPT ![t] = Pending]
  /\ UNCHANGED <<attached, toSave, batch, puts, news, offline, picked, marks, filesLeft>>

FilesNext ==
  \/ \E b \in FileBatches :
       \/ \E t \in FileTabs, f \in PickedFiles, g \in PickedFiles :
            PickFiles(t, b, IF f = g THEN <<f>> ELSE <<f, g>>)
       \/ NextFile(b) \/ Uploaded(b)
  \/ \E t \in FileTabs : SaveAnother(t) \/ GoOffline(t) \/ BackOnline(t) \/ ReadAgain(t)
  \/ \E p \in puts : StoreFiles(p) \/ Answered(p) \/ FileSaveFails(p)
  \/ \E m \in news : HearFiles(m)

FilesSpec == FilesInit /\ [][FilesNext]_filesVars

-----------------------------------------------------------------------------
(* Properties *)

FilesRest == ~GoingRound /\ \A b \in FileBatches : batch[b] = NoBatch
Wanted == {w \in picked : w[2] \in Accepted}
Copies(f) == Cardinality({i \in 1..Len(attached) : attached[i] = f})

(* "Upload and attach the given files" (CardModal.vue:1077).  When everything *)
(* is over, every file that was picked is attached, however pickings and other*)
(* saves overlapped; or, where a save was lost and nothing overlapped it, it  *)
(* waits for the next save.  When nothing overlapped and nothing was lost, it *)
(* is attached once, and every dialog that is connected lists what there is.  *)
FilesAreKept ==
  FilesRest =>
    /\ \A w \in Wanted : \/ Copies(w[2]) > 0
                         \/ "lost" \in marks /\ ("crossed" \in marks \/ w[2] \in ToSet(toSave[w[1]]))
    /\ \A f \in PickedFiles \ Accepted : Copies(f) = 0
    /\ marks = {} =>
         /\ \A w \in Wanted : Copies(w[2]) = 1
         /\ \A t \in FileTabs \ offline : listed[t] = [i \in 1..Len(attached) |-> i]

(* "Clear new attachments after saving" (:1279): a file is attached once.  It *)
(* does not hold (README): a tick while a file is being saved saves it again. *)
AttachedOnce == \A f \in PickedFiles : Copies(f) <= 1
=============================================================================
