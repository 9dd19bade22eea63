-------------------------------- MODULE Labels --------------------------------
(* The labels of one board.  A label is a word typed on a card; its row in    *)
(* `labels` is there so that the same word on two cards is one thing, and     *)
(* goes with the last card that wears it (server/utils/labelCleanup.ts).      *)
(* A page first asks for the label of a word (labels POST), then saves the    *)
(* card with the ids it is to wear (card PUT).  One action is one statement.  *)

EXTENDS Naturals, FiniteSets, Sequences

CONSTANTS
  Words,
  LabelCards,    \* card ids; a copy takes one that was never used
  FirstCard,
  LabelCalls,    \* requests that may be under way at a time
  PerBoardMax,   \* PER_BOARD_MAX
  MaxLabels,     \* bound: label ids ever given out
  MaxLabelCalls  \* bound: requests

ASSUME LabelsAssumption == FirstCard \in LabelCards /\ PerBoardMax \in Nat

VARIABLES
  word,          \* the name each label id was given, also after its row is gone
  labels,        \* the ids that have a row in `labels`
  wears,         \* `card_labels`: pairs of a card and a label
  labelled,      \* the rows of `cards`, and those that never were
  labelCall,
  labelCallsLeft,
  everWorn,      \* labels some card has worn
  crossed        \* two requests for one card have overlapped

labelVars ==
  <<word, labels, wears, labelled, labelCall, labelCallsLeft, everWorn, crossed>>

NoLabelCall ==
  [step |-> "idle", card |-> FirstCard, text |-> "", put |-> {}, had |-> {}, destroys |-> FALSE]

LabelInit ==
  /\ word = << >>
  /\ labels = {}
  /\ wears = {}
  /\ labelled = [here |-> {FirstCard}, free |-> LabelCards \ {FirstCard}]
  /\ labelCall = [p \in LabelCalls |-> NoLabelCall]
  /\ labelCallsLeft = MaxLabelCalls
  /\ everWorn = {}
  /\ crossed = FALSE

Asks(p, step) == labelCall[p].step = step
GoOn(p, step) == labelCall' = [labelCall EXCEPT ![p].step = step]
Answered(p) == labelCall' = [labelCall EXCEPT ![p] = NoLabelCall]

Receives(p, request) ==
  /\ Asks(p, "idle")
  /\ labelCallsLeft > 0
  /\ labelCallsLeft' = labelCallsLeft - 1
  /\ labelCall' = [labelCall EXCEPT ![p] = request]

(* A request for card c that finds another one for it under way.              *)
NoteCrossing(p, c) ==
  crossed' = (crossed \/ \E q \in LabelCalls \ {p} :
                labelCall[q].step \notin {"idle", "count", "insert"} /\ labelCall[q].card = c)

Wearing(c) == {l \in DOMAIN word : <<c, l>> \in wears}
Worn(l) == \E c \in LabelCards : <<c, l>> \in wears
Named(w) == {l \in labels : word[l] = w}

-----------------------------------------------------------------------------
(* labels POST: findByName, then the count, then the row.                     *)

FindByName(p, w) ==
  /\ IF Named(w) # {}
       THEN Asks(p, "idle") /\ labelCallsLeft > 0 /\ labelCallsLeft' = labelCallsLeft - 1
            /\ UNCHANGED labelCall
       ELSE Receives(p, [NoLabelCall EXCEPT !.step = "count", !.text = w])
  /\ UNCHANGED <<word, labels, wears, labelled, everWorn, crossed>>

CountLabels(p) ==
  /\ Asks(p, "count")
  /\ IF Cardinality(labels) >= PerBoardMax THEN Answered(p) ELSE GoOn(p, "insert")
  /\ UNCHANGED <<word, labels, wears, labelled, labelCallsLeft, everWorn, crossed>>

(* The unique key (board, name) refuses the second of two; that request looks *)
(* again and answers with the first one's label.                              *)
InsertLabel(p) ==
  /\ Asks(p, "insert")
  /\ IF Named(labelCall[p].text) # {}
       THEN UNCHANGED <<word, labels>>
       ELSE /\ Len(word) < MaxLabels
            /\ word' = Append(word, labelCall[p].text)
            /\ labels' = labels \union {Len(word) + 1}
  /\ Answered(p)
  /\ UNCHANGED <<wears, labelled, labelCallsLeft, everWorn, crossed>>

-----------------------------------------------------------------------------
(* card PUT with labelIds                                                     *)

(* The ids of this board among those the page sent; a page may be as old as   *)
(* you like, so it may send any id that was ever given out.                   *)
SaveLabels(p, c, sent) ==
  /\ c \in labelled.here
  /\ Receives(p, [NoLabelCall EXCEPT !.step = "before", !.card = c, !.put = sent \intersect labels])
  /\ NoteCrossing(p, c)
  /\ UNCHANGED <<word, labels, wears, labelled, everWorn>>

(* The join leaves out rows of labels that are gone.                          *)
ReadWorn(p) ==
  /\ Asks(p, "before")
  /\ labelCall' = [labelCall EXCEPT ![p].step = "strip",
                     ![p].had = Wearing(labelCall[p].card) \intersect labels]
  /\ UNCHANGED <<word, labels, wears, labelled, labelCallsLeft, everWorn, crossed>>

(* A slip: asked before the card has put them down.                           *)
StripAsked(p) ==
  /\ Asks(p, "strip")
  /\ wears' = {r \in wears : r[1] # labelCall[p].card}
  /\ labelCall' = [labelCall EXCEPT
       ![p].step = IF labelCall[p].put = {} THEN "ask" ELSE "wear",
       ![p].had = {l \in @ : ~ Worn(l)}]
  /\ UNCHANGED <<word, labels, labelled, labelCallsLeft, everWorn, crossed>>

Strip(p) ==
  /\ Asks(p, "strip")
  /\ wears' = {r \in wears : r[1] # labelCall[p].card}
  /\ GoOn(p, IF labelCall[p].put = {} THEN "ask" ELSE "wear")
  /\ UNCHANGED <<word, labels, labelled, labelCallsLeft, everWorn, crossed>>

(* Still to be put on: those the card does not wear.  The pair is the primary *)
(* key, so a row somebody else put there ends the request with an error.      *)
PutOn(p) ==
  /\ Asks(p, "wear")
  /\ LET c == labelCall[p].card
         put == labelCall[p].put
     IN \E next \in put :
          /\ \A m \in put : next <= m
          /\ IF <<c, next>> \in wears
               THEN Answered(p) /\ UNCHANGED <<wears, everWorn>>
               ELSE /\ wears' = wears \union {<<c, next>>}
                    /\ everWorn' = everWorn \union {next}
                    /\ labelCall' = [labelCall EXCEPT
                         ![p].put = put \ {next},
                         ![p].had = @ \ {next},
                         ![p].step = IF put = {next} THEN "ask" ELSE "wear"]
  /\ UNCHANGED <<word, labels, labelled, labelCallsLeft, crossed>>

-----------------------------------------------------------------------------
(* pruneUnusedLabels: of the labels put down, those no card wears.            *)

AfterPruning(p) == IF labelCall[p].destroys THEN "drop" ELSE "done"

AskWhatIsWorn(p) ==
  /\ Asks(p, "ask")
  /\ LET gone == {l \in labelCall[p].had : ~ Worn(l)}
     IN labelCall' = [labelCall EXCEPT ![p].had = gone,
          ![p].step = IF gone # {} THEN "sweep"
                      ELSE AfterPruning(p)]
  /\ UNCHANGED <<word, labels, wears, labelled, labelCallsLeft, everWorn, crossed>>

SweepLabels(p) ==
  /\ Asks(p, "sweep")
  /\ labels' = labels \ labelCall[p].had
  /\ GoOn(p, AfterPruning(p))
  /\ UNCHANGED <<word, wears, labelled, labelCallsLeft, everWorn, crossed>>

(* The answer: the request is no longer under way.                            *)
Done(p) ==
  /\ Asks(p, "done")
  /\ Answered(p)
  /\ UNCHANGED <<word, labels, wears, labelled, labelCallsLeft, everWorn, crossed>>

-----------------------------------------------------------------------------
(* removeCardData and the card's row; what it wore is read without the join.  *)

DestroyLabelled(p, c) ==
  /\ c \in labelled.here
  /\ Receives(p, [NoLabelCall EXCEPT !.step = "strip", !.card = c, !.destroys = TRUE,
                                     !.had = Wearing(c)])
  /\ NoteCrossing(p, c)
  /\ UNCHANGED <<word, labels, wears, labelled, everWorn>>

DropCard(p) ==
  /\ Asks(p, "drop")
  /\ labelled' = [labelled EXCEPT !.here = @ \ {labelCall[p].card}]
  /\ Answered(p)
  /\ UNCHANGED <<word, labels, wears, labelCallsLeft, everWorn, crossed>>

(* INSERT ... SELECT of a duplicate, and of the next card of a series: the    *)
(* copy is a card nobody else knows yet.                                      *)
CopyLabels(c, d) ==
  /\ c \in labelled.here /\ d \in labelled.free
  /\ labelCallsLeft > 0
  /\ labelCallsLeft' = labelCallsLeft - 1
  /\ labelled' = [here |-> labelled.here \union {d}, free |-> labelled.free \ {d}]
  /\ wears' = wears \union {<<d, l>> : l \in Wearing(c)}
  /\ UNCHANGED <<word, labels, labelCall, everWorn, crossed>>

LabelNext ==
  \/ \E p \in LabelCalls :
       \/ \E w \in Words : FindByName(p, w)
       \/ CountLabels(p) \/ InsertLabel(p)
       \/ \E c \in LabelCards :
            \/ \E sent \in SUBSET DOMAIN word : SaveLabels(p, c, sent)
            \/ DestroyLabelled(p, c)
       \/ ReadWorn(p) \/ Strip(p) \/ PutOn(p)
       \/ AskWhatIsWorn(p) \/ SweepLabels(p) \/ Done(p) \/ DropCard(p)
  \/ \E c, d \in LabelCards : CopyLabels(c, d)

LabelSpec == LabelInit /\ [][LabelNext]_labelVars

-----------------------------------------------------------------------------
(* Properties *)

(* labelCleanup.ts: "the last card to drop a name takes the name with it".    *)
(* Whichever cards put a label down at the same time, copied it or went away: *)
(* a label that was worn is worn by a card there is, or a request that is     *)
(* under way still has it in hand.  Only requests for one and the same card   *)
(* that cross may leave one behind.                                           *)
LastTakesName ==
  crossed \/ \A l \in labels \intersect everWorn :
    \/ \E c \in labelled.here : <<c, l>> \in wears
    \/ \E p \in LabelCalls : l \in labelCall[p].had \union labelCall[p].put

(* One word, one label (the key of migration 0026), and requests in order.    *)
LabelTypeOK ==
  /\ labels \subseteq DOMAIN word
  /\ everWorn \subseteq DOMAIN word
  /\ \A l, m \in labels : word[l] = word[m] => l = m
  /\ wears \subseteq (LabelCards \X DOMAIN word)
  /\ \A p \in LabelCalls : labelCall[p].put \union labelCall[p].had \subseteq DOMAIN word

(* labelCleanup.ts:1: "A label lives exactly as long as some card wears it."  *)
(* What a card wears is a label of the board.                                 *)
WornLabelsExist == \A r \in wears : r[1] \in labelled.here => r[2] \in labels

=============================================================================
