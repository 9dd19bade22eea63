---------------------------- MODULE BoardPartsProofs -------------------------
(* The theorems about what a board is made of: labels take the last name they *)
(* were given (Labels), columns stand as they were last dragged (ColumnOrder), *)
(* cards stand where they were dropped (CardPositions).                       *)
EXTENDS Labels, ColumnOrder, CardPositions, FiniteSetTheorems, FunctionTheorems, SequenceTheorems, TLAPS

-----------------------------------------------------------------------------
(* Labels, for every set of words, cards and requests.                        *)

LabelRow ==
  [step : {"idle", "count", "insert", "before", "strip", "wear", "ask", "sweep", "done", "drop"},
   card : LabelCards, text : Words \union {""}, put : SUBSET Nat, had : SUBSET Nat, destroys : BOOLEAN]

LabelTypes ==
  /\ word \in Seq(Words \union {""})
  /\ labels \subseteq DOMAIN word /\ everWorn \subseteq DOMAIN word
  /\ wears \subseteq LabelCards \X DOMAIN word
  /\ labelled.here \subseteq LabelCards /\ labelled.here \intersect labelled.free = {}
  /\ labelled \in [here : SUBSET LabelCards, free : SUBSET LabelCards]
  /\ labelCall \in [LabelCalls -> LabelRow]
  /\ crossed \in BOOLEAN

(* A request for a card that is under way. *)
Busy(w) == w.step \notin {"idle", "count", "insert"}

(* What a request has in hand at each of its steps: once it has pruned, none  *)
(* of that is a label any more.                                               *)
CallIsSound(w) ==
  /\ w.put \subseteq DOMAIN word /\ w.had \subseteq DOMAIN word
  /\ ~Busy(w) => w.put = {} /\ w.had = {}
  /\ w.step = "before" => w.had = {}
  /\ w.step \in {"ask", "sweep", "done", "drop"} => w.put = {}
  /\ w.step \in {"done", "drop"} => w.had \intersect labels = {}
  /\ w.destroys => w.put = {}
  /\ w.step = "drop" => w.destroys

(* A request nobody crosses has its card to itself: the labels the card wears *)
(* are the ones the request has read, and what it has still to put on, or all *)
(* of them when it destroys the card, the card does not wear.                 *)
CallOwns(w) ==
  /\ Busy(w) => w.card \in labelled.here
  /\ w.step = "strip" => \A l \in labels : <<w.card, l>> \in wears => l \in w.had
  /\ w.step = "wear" => \A l \in w.put : <<w.card, l>> \notin wears
  /\ w.destroys /\ w.step \in {"ask", "sweep", "drop"} => \A l \in DOMAIN word : <<w.card, l>> \notin wears

CardsApart == \A p, q \in LabelCalls :
  p # q /\ Busy(labelCall[p]) /\ Busy(labelCall[q]) => labelCall[p].card # labelCall[q].card
WornByCards == \A r \in wears : r[1] \in labelled.here
InHand(l) == \E p \in LabelCalls : l \in labelCall[p].had \union labelCall[p].put
Kept(l) == \/ \E c \in labelled.here : <<c, l>> \in wears
           \/ InHand(l)
NoneLost == \A l \in labels \intersect everWorn : Kept(l)

LabelInv ==
  /\ LabelTypes
  /\ \A p \in LabelCalls : CallIsSound(labelCall[p])
  /\ ~crossed => /\ \A p \in LabelCalls : CallOwns(labelCall[p])
                 /\ CardsApart /\ WornByCards /\ NoneLost

-----------------------------------------------------------------------------
LEMMA RestingRow == NoLabelCall \in LabelRow /\ ~Busy(NoLabelCall) /\ NoLabelCall.put = {} /\ NoLabelCall.had = {}
                    /\ NoLabelCall.step = "idle" /\ NoLabelCall.destroys = FALSE
  BY LabelsAssumption DEF NoLabelCall, LabelRow, Busy

LEMMA RestIsSound == CallIsSound(NoLabelCall) /\ CallOwns(NoLabelCall)
  BY RestingRow DEF CallIsSound, CallOwns

LEMMA LabelInitInv == LabelInit => LabelInv
<1> SUFFICES ASSUME LabelInit PROVE LabelInv
  OBVIOUS
<1>1. LabelTypes
  BY RestingRow, LabelsAssumption, EmptySeq DEF LabelInit, LabelTypes
<1>2. \A p \in LabelCalls : CallIsSound(labelCall[p]) /\ CallOwns(labelCall[p])
  BY RestIsSound DEF LabelInit
<1>3. CardsApart
  BY RestingRow DEF LabelInit, CardsApart
<1>4. WornByCards /\ NoneLost
  BY DEF LabelInit, WornByCards, NoneLost
<1> QED
  BY <1>1, <1>2, <1>3, <1>4 DEF LabelInv

(* The label ids given out, and the next one.                                 *)
LEMMA WordTypes ==
  ASSUME LabelTypes
  PROVE  /\ DOMAIN word = 1..Len(word) /\ Len(word) \in Nat /\ Len(word) + 1 \notin DOMAIN word
         /\ DOMAIN word \subseteq Nat
<1>1. DOMAIN word = 1..Len(word) /\ Len(word) \in Nat
  BY LenProperties DEF LabelTypes
<1>2. \A n \in Nat : n + 1 \notin 1..n /\ 1..n \subseteq Nat
  OBVIOUS
<1> QED
  BY <1>1, <1>2

-----------------------------------------------------------------------------
(* A step of one request keeps the invariant if it leaves the others sound,   *)
(* and what they own to them.                                                 *)
LEMMA CallGoesOn ==
  ASSUME LabelInv, NEW p \in LabelCalls, NEW w \in LabelRow, labelCall' = [labelCall EXCEPT ![p] = w],
         LabelTypes', CallIsSound(w)',
         \A v \in LabelRow : CallIsSound(v) => CallIsSound(v)',
         ~crossed' =>
           /\ ~crossed /\ CallOwns(w)' /\ WornByCards' /\ NoneLost'
           /\ \A q \in LabelCalls \ {p} : Busy(w) /\ Busy(labelCall[q]) => w.card # labelCall[q].card
           /\ \A v \in LabelRow : (Busy(v) /\ Busy(labelCall[p]) => v.card # labelCall[p].card)
                                    /\ CallOwns(v) => CallOwns(v)'
  PROVE  LabelInv'
<1>1. labelCall'[p] = w /\ \A q \in LabelCalls \ {p} : labelCall'[q] = labelCall[q] /\ labelCall[q] \in LabelRow
  BY DEF LabelInv, LabelTypes
<1>2. ASSUME NEW q \in LabelCalls PROVE CallIsSound(labelCall[q])'
  <2>1. PICK v : v = labelCall'[q]
    OBVIOUS
  <2>2. CallIsSound(v)'
    <3>1. CASE q = p
      BY <1>1, <2>1, <3>1
    <3>2. CASE q # p
      <4>1. v = labelCall[q] /\ v \in LabelRow
        BY <1>1, <2>1, <3>2
      <4>2. CallIsSound(v)
        BY <4>1 DEF LabelInv
      <4> QED
        BY <4>1, <4>2
    <3> QED
      BY <3>1, <3>2
  <2> QED
    BY <2>1, <2>2 DEF CallIsSound, Busy
<1>3. ASSUME ~crossed', NEW q \in LabelCalls PROVE CallOwns(labelCall[q])'
  <2>1. PICK v : v = labelCall'[q]
    OBVIOUS
  <2>2. CallOwns(v)'
    <3>1. CASE q = p
      BY <1>1, <1>3, <2>1, <3>1
    <3>2. CASE q # p
      <4>1. v = labelCall[q] /\ v \in LabelRow
        BY <1>1, <2>1, <3>2
      <4>2. CallOwns(v) /\ (Busy(v) /\ Busy(labelCall[p]) => v.card # labelCall[p].card)
        BY <1>3, <3>2, <4>1 DEF LabelInv, CardsApart
      <4> QED
        BY <1>3, <4>1, <4>2
    <3> QED
      BY <3>1, <3>2
  <2> QED
    BY <2>1, <2>2 DEF CallOwns, Busy
<1>4. ASSUME ~crossed' PROVE CardsApart'
  <2> SUFFICES ASSUME NEW q \in LabelCalls, NEW s \in LabelCalls, q # s,
                      Busy(labelCall[q])', Busy(labelCall[s])'
               PROVE  labelCall'[q].card # labelCall'[s].card
    BY DEF CardsApart
  <2>1. PICK v, x : v = labelCall'[q] /\ x = labelCall'[s]
    OBVIOUS
  <2>2. Busy(v) /\ Busy(x)
    BY <2>1 DEF Busy
  <2>3. CASE q # p /\ s # p
    BY <1>1, <1>4, <2>1, <2>2, <2>3 DEF LabelInv, CardsApart
  <2>4. CASE q = p \/ s = p
    BY <1>1, <1>4, <2>1, <2>2, <2>4
  <2> QED
    BY <2>3, <2>4
<1> QED
  BY <1>2, <1>3, <1>4 DEF LabelInv

(* A step that writes no table.                                               *)
LEMMA QuietCall ==
  ASSUME LabelInv, NEW p \in LabelCalls, NEW w \in LabelRow, labelCall' = [labelCall EXCEPT ![p] = w],
         UNCHANGED <<word, labels, wears, labelled, everWorn>>, crossed' \in BOOLEAN, CallIsSound(w),
         ~crossed' =>
           /\ ~crossed /\ CallOwns(w)
           /\ \A q \in LabelCalls \ {p} : Busy(w) /\ Busy(labelCall[q]) => w.card # labelCall[q].card
           /\ \A l \in labelCall[p].had \union labelCall[p].put :
                \/ l \in w.had \union w.put
                \/ \E c \in labelled.here : <<c, l>> \in wears
                \/ l \notin labels
  PROVE  LabelInv'
<1>1. LabelTypes'
  BY DEF LabelInv, LabelTypes
<1>2. CallIsSound(w)' /\ \A v \in LabelRow : CallIsSound(v) => CallIsSound(v)'
  BY DEF CallIsSound
<1>3. (CallOwns(w) => CallOwns(w)') /\ \A v \in LabelRow : CallOwns(v) => CallOwns(v)'
  BY DEF CallOwns
<1>4. ASSUME ~crossed' PROVE WornByCards' /\ NoneLost'
  <2>1. WornByCards'
    BY <1>4 DEF LabelInv, WornByCards
  <2>2. ASSUME NEW l \in labels, l \in everWorn PROVE Kept(l)'
    <3>1. Kept(l)
      BY <1>4, <2>2 DEF LabelInv, NoneLost
    <3>2. CASE \E c \in labelled.here : <<c, l>> \in wears
      BY <3>2 DEF Kept
    <3>3. CASE InHand(l)
      <4>1. PICK q \in LabelCalls : l \in labelCall[q].had \union labelCall[q].put
        BY <3>3 DEF InHand
      <4>2. CASE q = p
        <5>1. labelCall'[p] = w
          BY DEF LabelInv, LabelTypes
        <5>2. l \in w.had \union w.put \/ \E c \in labelled.here : <<c, l>> \in wears
          BY <1>4, <2>2, <4>1, <4>2
        <5> QED
          BY <5>1, <5>2 DEF Kept, InHand
      <4>3. CASE q # p
        <5>1. labelCall'[q] = labelCall[q]
          BY <4>3 DEF LabelInv, LabelTypes
        <5> QED
          BY <4>1, <5>1 DEF Kept, InHand
      <4> QED
        BY <4>2, <4>3
    <3> QED
      BY <3>1, <3>2, <3>3 DEF Kept
  <2> QED
    BY <2>1, <2>2 DEF NoneLost
<1> QED
  BY <1>1, <1>2, <1>3, <1>4, CallGoesOn

-----------------------------------------------------------------------------
(* labels POST                                                                *)
LEMMA AskingKeeps ==
  ASSUME LabelInv, NEW p \in LabelCalls,
         (\E v \in Words : FindByName(p, v)) \/ CountLabels(p)
  PROVE  LabelInv'
<1>1. /\ ~Busy(labelCall[p]) /\ labelCall[p] \in LabelRow
      /\ UNCHANGED <<word, labels, wears, labelled, everWorn, crossed>> /\ crossed \in BOOLEAN
  BY DEF FindByName, CountLabels, Receives, Asks, Busy, LabelInv, LabelTypes
<1>2. CallIsSound(labelCall[p]) /\ labelCall[p].put = {} /\ labelCall[p].had = {}
  BY <1>1 DEF LabelInv, CallIsSound
<1>3. \E w \in LabelRow : /\ labelCall' = [labelCall EXCEPT ![p] = w] /\ ~Busy(w)
                          /\ w.put = {} /\ w.had = {} /\ w.destroys \in {FALSE, labelCall[p].destroys}
  <2>1. CASE UNCHANGED labelCall
    <3>1. labelCall' = [labelCall EXCEPT ![p] = labelCall[p]]
      BY <2>1 DEF LabelInv, LabelTypes
    <3> QED
      BY <1>1, <1>2, <3>1
  <2>2. ASSUME NEW v \in Words, labelCall' = [labelCall EXCEPT ![p] = [NoLabelCall EXCEPT !.step = "count", !.text = v]]
        PROVE  \E w \in LabelRow : /\ labelCall' = [labelCall EXCEPT ![p] = w] /\ ~Busy(w)
                          /\ w.put = {} /\ w.had = {} /\ w.destroys \in {FALSE, labelCall[p].destroys}
    <3>1. PICK w : w = [NoLabelCall EXCEPT !.step = "count", !.text = v]
      OBVIOUS
    <3>2. w \in LabelRow /\ w.step = "count" /\ w.put = {} /\ w.had = {} /\ w.destroys = FALSE
      BY <3>1, RestingRow DEF LabelRow
    <3> QED
      BY <2>2, <3>1, <3>2 DEF Busy
  <2>3. CASE labelCall' = [labelCall EXCEPT ![p].step = "insert"]
    <3>1. PICK w : w = [labelCall[p] EXCEPT !.step = "insert"]
      OBVIOUS
    <3>2. /\ w \in LabelRow /\ w.step = "insert" /\ w.put = {} /\ w.had = {}
          /\ w.destroys = labelCall[p].destroys
      BY <1>1, <1>2, <3>1 DEF LabelRow
    <3>3. labelCall' = [labelCall EXCEPT ![p] = w]
      BY <2>3, <3>1
    <3> QED
      BY <3>2, <3>3 DEF Busy
  <2>4. CASE labelCall' = [labelCall EXCEPT ![p] = NoLabelCall]
    BY <2>4, RestingRow
  <2> QED
    BY <2>1, <2>2, <2>3, <2>4 DEF FindByName, CountLabels, Receives, Answered, GoOn
<1>4. PICK w \in LabelRow : /\ labelCall' = [labelCall EXCEPT ![p] = w] /\ ~Busy(w)
                            /\ w.put = {} /\ w.had = {}
  BY <1>3
<1>5. CallIsSound(w) /\ CallOwns(w)
  BY <1>4 DEF CallIsSound, CallOwns, Busy
<1> QED
  BY <1>1, <1>2, <1>4, <1>5, QuietCall

(* The new id is on no card and in no hand.                                   *)
LEMMA InsertKeeps ==
  ASSUME LabelInv, NEW p \in LabelCalls, InsertLabel(p)
  PROVE  LabelInv'
<1>1. /\ ~Busy(labelCall[p]) /\ labelCall[p] \in LabelRow /\ crossed \in BOOLEAN
      /\ labelCall' = [labelCall EXCEPT ![p] = NoLabelCall]
      /\ UNCHANGED <<wears, labelled, everWorn, crossed>>
  BY DEF InsertLabel, Answered, Asks, Busy, LabelInv, LabelTypes
<1>2. labelCall[p].put = {} /\ labelCall[p].had = {}
  BY <1>1 DEF LabelInv, CallIsSound
<1>3. NoLabelCall \in LabelRow /\ ~Busy(NoLabelCall) /\ CallIsSound(NoLabelCall) /\ CallOwns(NoLabelCall)
  BY RestingRow, RestIsSound
<1>4. CASE UNCHANGED <<word, labels>>
  BY <1>1, <1>2, <1>3, <1>4, QuietCall
<1>5. CASE word' = Append(word, labelCall[p].text) /\ labels' = labels \union {Len(word) + 1}
  <2>1. /\ DOMAIN word = 1..Len(word) /\ Len(word) \in Nat /\ Len(word) + 1 \notin DOMAIN word
        /\ word \in Seq(Words \union {""}) /\ labelCall[p].text \in Words \union {""}
    BY <1>1, WordTypes DEF LabelInv, LabelTypes, LabelRow
  <2>2. word' \in Seq(Words \union {""}) /\ DOMAIN word' = DOMAIN word \union {Len(word) + 1}
    <3>1. word' \in Seq(Words \union {""}) /\ Len(word') = Len(word) + 1
      BY <1>5, <2>1, AppendProperties
    <3>2. DOMAIN word' = 1..(Len(word) + 1)
      BY <3>1, LenProperties
    <3>3. \A n \in Nat : 1..(n + 1) = 1..n \union {n + 1}
      OBVIOUS
    <3>4. DOMAIN word' = DOMAIN word \union {Len(word) + 1}
      BY <2>1, <3>2, <3>3
    <3> QED
      BY <3>1, <3>4
  <2>3. LabelTypes'
    <3>1. labelCall' \in [LabelCalls -> LabelRow]
      BY <1>1, <1>3 DEF LabelInv, LabelTypes
    <3> QED
      BY <1>1, <1>5, <2>2, <3>1 DEF LabelInv, LabelTypes
  <2>4. \A v \in LabelRow : CallIsSound(v) => CallIsSound(v)'
    BY <1>5, <2>1, <2>2 DEF CallIsSound
  <2>5. wears \subseteq LabelCards \X DOMAIN word /\ everWorn \subseteq DOMAIN word
    BY DEF LabelInv, LabelTypes
  <2>6. \A v \in LabelRow : CallOwns(v) => CallOwns(v)'
    <3>1. \A c : <<c, Len(word) + 1>> \notin wears
      BY <2>1, <2>5
    <3> QED
      BY <1>1, <1>5, <2>2, <3>1 DEF CallOwns
  <2>7. ASSUME ~crossed PROVE WornByCards' /\ NoneLost'
    <3>1. WornByCards'
      BY <1>1, <2>7 DEF LabelInv, WornByCards
    <3>2. ASSUME NEW l \in labels', l \in everWorn' PROVE Kept(l)'
      <4>1. l \in labels /\ l \in everWorn
        BY <1>1, <1>5, <2>1, <2>5, <3>2
      <4>2. Kept(l)
        BY <2>7, <4>1 DEF LabelInv, NoneLost
      <4>3. \A q \in LabelCalls : l \in labelCall[q].had \union labelCall[q].put => labelCall'[q] = labelCall[q]
        BY <1>1, <1>2 DEF LabelInv, LabelTypes
      <4> QED
        BY <1>1, <4>2, <4>3 DEF Kept, InHand
    <3> QED
      BY <3>1, <3>2 DEF NoneLost
  <2> QED
    BY <1>1, <1>3, <2>3, <2>4, <2>6, <2>7, CallGoesOn
<1> QED
  BY <1>4, <1>5 DEF InsertLabel

-----------------------------------------------------------------------------
(* card PUT and the destruction of a card                                     *)

(* A request for a card nobody else has a request for, or one that crosses.   *)
LEMMA ReceivingKeeps ==
  ASSUME LabelInv, NEW p \in LabelCalls, NEW c \in LabelCards,
         (\E ids \in SUBSET DOMAIN word : SaveLabels(p, c, ids)) \/ DestroyLabelled(p, c)
  PROVE  LabelInv'
<1>1. /\ labelCall[p].step = "idle" /\ c \in labelled.here
      /\ UNCHANGED <<word, labels, wears, labelled, everWorn>>
      /\ NoteCrossing(p, c)
  BY DEF SaveLabels, DestroyLabelled, Receives, Asks
<1>2. crossed' \in BOOLEAN /\ ~Busy(labelCall[p])
  BY <1>1 DEF NoteCrossing, LabelInv, LabelTypes, Busy
<1>3. labelCall[p].put = {} /\ labelCall[p].had = {}
  BY <1>2 DEF LabelInv, CallIsSound
<1>4. /\ labels \subseteq DOMAIN word /\ DOMAIN word \subseteq Nat
      /\ wears \subseteq LabelCards \X DOMAIN word
  BY WordTypes DEF LabelInv, LabelTypes
<1>5. \E w \in LabelRow : /\ labelCall' = [labelCall EXCEPT ![p] = w] /\ w.card = c
                          /\ CallIsSound(w) /\ CallOwns(w)
  <2>1. ASSUME NEW ids \in SUBSET DOMAIN word,
               labelCall' = [labelCall EXCEPT ![p] =
                 [NoLabelCall EXCEPT !.step = "before", !.card = c, !.put = ids \intersect labels]]
        PROVE  \E w \in LabelRow : /\ labelCall' = [labelCall EXCEPT ![p] = w] /\ w.card = c
                                   /\ CallIsSound(w) /\ CallOwns(w)
    <3>1. PICK w : w = [NoLabelCall EXCEPT !.step = "before", !.card = c, !.put = ids \intersect labels]
      OBVIOUS
    <3>2. /\ w \in LabelRow /\ w.card = c /\ w.step = "before" /\ w.put = ids \intersect labels
          /\ w.had = {} /\ w.destroys = FALSE
      BY <1>4, <3>1, RestingRow DEF LabelRow
    <3>3. CallIsSound(w) /\ CallOwns(w)
      BY <1>1, <1>4, <3>2 DEF CallIsSound, CallOwns, Busy
    <3> QED
      BY <2>1, <3>1, <3>2, <3>3
  <2>2. ASSUME labelCall' = [labelCall EXCEPT ![p] =
                 [NoLabelCall EXCEPT !.step = "strip", !.card = c, !.destroys = TRUE, !.had = Wearing(c)]]
        PROVE  \E w \in LabelRow : /\ labelCall' = [labelCall EXCEPT ![p] = w] /\ w.card = c
                                   /\ CallIsSound(w) /\ CallOwns(w)
    <3>1. PICK h : h = Wearing(c)
      OBVIOUS
    <3>2. h \subseteq DOMAIN word /\ \A l \in labels : <<c, l>> \in wears => l \in h
      BY <1>4, <3>1 DEF Wearing
    <3>3. PICK w : w = [NoLabelCall EXCEPT !.step = "strip", !.card = c, !.destroys = TRUE, !.had = h]
      OBVIOUS
    <3>4. /\ w \in LabelRow /\ w.card = c /\ w.step = "strip" /\ w.put = {}
          /\ w.had = h /\ w.destroys = TRUE
      BY <1>4, <3>2, <3>3, RestingRow DEF LabelRow
    <3>5. CallIsSound(w) /\ CallOwns(w)
      BY <1>1, <1>4, <3>2, <3>4 DEF CallIsSound, CallOwns, Busy
    <3> QED
      BY <2>2, <3>1, <3>3, <3>4, <3>5
  <2> QED
    BY <2>1, <2>2 DEF SaveLabels, DestroyLabelled, Receives
<1>6. PICK w \in LabelRow : /\ labelCall' = [labelCall EXCEPT ![p] = w] /\ w.card = c
                            /\ CallIsSound(w) /\ CallOwns(w)
  BY <1>5
<1>7. ~crossed' => ~crossed /\ \A q \in LabelCalls \ {p} : Busy(labelCall[q]) => c # labelCall[q].card
  BY <1>1 DEF NoteCrossing, Busy
<1> QED
  BY <1>1, <1>2, <1>3, <1>6, <1>7, QuietCall

LEMMA ReadWornKeeps ==
  ASSUME LabelInv, NEW p \in LabelCalls, ReadWorn(p)
  PROVE  LabelInv'
<1>1. PICK o : o = labelCall[p]
  OBVIOUS
<1>2. PICK h : h = Wearing(o.card) \intersect labels
  OBVIOUS
<1>3. PICK w : w = [o EXCEPT !.step = "strip", !.had = h]
  OBVIOUS
<1>4. /\ o \in LabelRow /\ o.step = "before" /\ CallIsSound(o) /\ (~crossed => CallOwns(o))
      /\ UNCHANGED <<word, labels, wears, labelled, everWorn, crossed>> /\ crossed \in BOOLEAN
  BY <1>1 DEF ReadWorn, Asks, LabelInv, LabelTypes
<1>5. /\ labels \subseteq DOMAIN word /\ DOMAIN word \subseteq Nat
      /\ wears \subseteq LabelCards \X DOMAIN word
  BY WordTypes DEF LabelInv, LabelTypes
<1>6. h \subseteq DOMAIN word /\ \A l \in labels : <<o.card, l>> \in wears => l \in h
  BY <1>2, <1>5 DEF Wearing
<1>7. /\ w \in LabelRow /\ w.step = "strip" /\ w.had = h /\ w.put = o.put /\ w.card = o.card
      /\ w.destroys = o.destroys
  BY <1>3, <1>4, <1>5, <1>6 DEF LabelRow
<1>8. labelCall' = [labelCall EXCEPT ![p] = w]
  BY <1>1, <1>2, <1>3 DEF ReadWorn
<1>9. Busy(o) /\ Busy(w) /\ o.had = {}
  BY <1>4, <1>7 DEF Busy, CallIsSound
<1>10. CallIsSound(w)
  BY <1>4, <1>6, <1>7, <1>9 DEF CallIsSound
<1>11. ~crossed => CallOwns(w)
  BY <1>4, <1>6, <1>7, <1>9 DEF CallOwns
<1>12. ~crossed => \A q \in LabelCalls \ {p} : Busy(labelCall[q]) => w.card # labelCall[q].card
  BY <1>1, <1>7, <1>9 DEF LabelInv, CardsApart
<1> QED
  BY <1>1, <1>4, <1>7, <1>8, <1>9, <1>10, <1>11, <1>12, QuietCall

(* The card puts everything down; what it wore is in hand.                    *)
LEMMA StripKeeps ==
  ASSUME LabelInv, NEW p \in LabelCalls, Strip(p)
  PROVE  LabelInv'
<1>1. PICK o : o = labelCall[p]
  OBVIOUS
<1>2. PICK w : w = [o EXCEPT !.step = IF o.put = {} THEN "ask" ELSE "wear"]
  OBVIOUS
<1>3. /\ o \in LabelRow /\ o.step = "strip" /\ CallIsSound(o) /\ (~crossed => CallOwns(o)) /\ Busy(o)
      /\ UNCHANGED <<word, labels, labelled, everWorn, crossed>> /\ crossed \in BOOLEAN
      /\ wears' = {r \in wears : r[1] # o.card}
  BY <1>1 DEF Strip, Asks, LabelInv, LabelTypes, Busy
<1>4. /\ w \in LabelRow /\ w.step = (IF o.put = {} THEN "ask" ELSE "wear") /\ w.had = o.had /\ w.put = o.put
      /\ w.card = o.card /\ w.destroys = o.destroys
  BY <1>2, <1>3 DEF LabelRow
<1>5. labelCall' = [labelCall EXCEPT ![p] = w]
  BY <1>1, <1>2 DEF Strip, GoOn
<1>6. \A c, l : <<c, l>> \in wears' <=> <<c, l>> \in wears /\ c # o.card
  BY <1>3
<1>7. LabelTypes'
  <2>1. labelCall' \in [LabelCalls -> LabelRow]
    BY <1>4, <1>5 DEF LabelInv, LabelTypes
  <2> QED
    BY <1>3, <2>1 DEF LabelInv, LabelTypes
<1>8. CallIsSound(w)' /\ \A v \in LabelRow : CallIsSound(v) => CallIsSound(v)'
  BY <1>3, <1>4 DEF CallIsSound, Busy
<1>9. ASSUME ~crossed PROVE CallOwns(w)'
  BY <1>3, <1>4, <1>6, <1>9 DEF CallOwns, Busy, CallIsSound
<1>10. \A v \in LabelRow : (Busy(v) => v.card # o.card) /\ CallOwns(v) => CallOwns(v)'
  BY <1>3, <1>6 DEF CallOwns, Busy
<1>11. ASSUME ~crossed PROVE WornByCards' /\ NoneLost'
  <2>1. WornByCards'
    BY <1>3, <1>11 DEF LabelInv, WornByCards
  <2>2. ASSUME NEW l \in labels, l \in everWorn PROVE Kept(l)'
    <3>1. Kept(l)
      BY <1>11, <2>2 DEF LabelInv, NoneLost
    <3>2. InHand(l) => InHand(l)'
      BY <1>1, <1>4, <1>5 DEF InHand, LabelInv, LabelTypes
    <3>3. <<o.card, l>> \in wears => InHand(l)'
      <4>1. <<o.card, l>> \in wears => l \in o.had
        BY <1>3, <1>11 DEF CallOwns
      <4> QED
        BY <1>1, <3>2, <4>1 DEF InHand
    <3> QED
      BY <1>3, <1>6, <3>1, <3>2, <3>3 DEF Kept
  <2> QED
    BY <1>3, <2>1, <2>2 DEF NoneLost
<1>12. ~crossed => \A q \in LabelCalls \ {p} : Busy(labelCall[q]) => w.card # labelCall[q].card
  BY <1>1, <1>3, <1>4 DEF LabelInv, CardsApart
<1> QED
  BY <1>1, <1>3, <1>4, <1>5, <1>7, <1>8, <1>9, <1>10, <1>11, <1>12, CallGoesOn

(* One label is put on: a row that is there already is of a request that      *)
(* crossed.                                                                   *)
LEMMA PutOnKeeps ==
  ASSUME LabelInv, NEW p \in LabelCalls, PutOn(p)
  PROVE  LabelInv'
<1>1. PICK o : o = labelCall[p]
  OBVIOUS
<1>2. /\ o \in LabelRow /\ o.step = "wear" /\ CallIsSound(o) /\ (~crossed => CallOwns(o)) /\ Busy(o)
      /\ UNCHANGED <<word, labels, labelled, crossed>> /\ crossed \in BOOLEAN
  BY <1>1 DEF PutOn, Asks, LabelInv, LabelTypes, Busy
<1>3. PICK next \in o.put :
        IF <<o.card, next>> \in wears
        THEN Answered(p) /\ UNCHANGED <<wears, everWorn>>
        ELSE /\ wears' = wears \union {<<o.card, next>>}
             /\ everWorn' = everWorn \union {next}
             /\ labelCall' = [labelCall EXCEPT
                  ![p].put = @ \ {next}, ![p].had = @ \ {next},
                  ![p].step = IF o.put = {next} THEN "ask" ELSE "wear"]
  BY <1>1 DEF PutOn
<1>4. CASE <<o.card, next>> \in wears
  <2>1. crossed
    BY <1>2, <1>3, <1>4 DEF CallOwns
  <2>2. /\ labelCall' = [labelCall EXCEPT ![p] = NoLabelCall]
        /\ UNCHANGED <<word, labels, wears, labelled, everWorn>>
    BY <1>2, <1>3, <1>4 DEF Answered
  <2> QED
    BY <1>2, <2>1, <2>2, RestingRow, RestIsSound, QuietCall
<1>5. CASE <<o.card, next>> \notin wears
  <2>1. PICK w : w = [o EXCEPT !.put = o.put \ {next}, !.had = o.had \ {next},
                               !.step = IF o.put = {next} THEN "ask" ELSE "wear"]
    OBVIOUS
  <2>2. /\ w \in LabelRow /\ w.step = (IF o.put = {next} THEN "ask" ELSE "wear")
        /\ w.had = o.had \ {next} /\ w.put = o.put \ {next}
        /\ w.card = o.card /\ w.destroys = o.destroys
    BY <1>2, <2>1 DEF LabelRow
  <2>3. labelCall' = [labelCall EXCEPT ![p] = w]
    BY <1>1, <1>2, <1>3, <1>5, <2>1 DEF LabelRow, LabelInv, LabelTypes
  <2>4. next \in DOMAIN word /\ o.card \in LabelCards
    BY <1>2 DEF CallIsSound, LabelRow
  <2>5. wears' = wears \union {<<o.card, next>>} /\ everWorn' = everWorn \union {next}
    BY <1>3, <1>5
  <2>6. LabelTypes'
    <3>1. labelCall' \in [LabelCalls -> LabelRow]
      BY <2>2, <2>3 DEF LabelInv, LabelTypes
    <3>2. wears' \subseteq LabelCards \X DOMAIN word /\ everWorn' \subseteq DOMAIN word
      <4>1. wears \subseteq LabelCards \X DOMAIN word /\ everWorn \subseteq DOMAIN word
        BY DEF LabelInv, LabelTypes
      <4>2. <<o.card, next>> \in LabelCards \X DOMAIN word
        BY <2>4
      <4> QED
        BY <2>4, <2>5, <4>1, <4>2
    <3> QED
      BY <1>2, <3>1, <3>2 DEF LabelInv, LabelTypes
  <2>7. CallIsSound(w)' /\ \A v \in LabelRow : CallIsSound(v) => CallIsSound(v)'
    BY <1>2, <2>2 DEF CallIsSound, Busy
  <2>8. o.destroys = FALSE
    BY <1>2, <1>3 DEF CallIsSound, LabelRow
  <2>9. ASSUME ~crossed PROVE CallOwns(w)'
    BY <1>2, <2>2, <2>5, <2>8, <2>9 DEF CallOwns, Busy
  <2>10. \A v \in LabelRow : (Busy(v) => v.card # o.card) /\ CallOwns(v) => CallOwns(v)'
    BY <1>2, <2>5 DEF CallOwns, Busy
  <2>11. ASSUME ~crossed PROVE WornByCards' /\ NoneLost'
    <3>1. o.card \in labelled.here
      BY <1>2, <2>11 DEF CallOwns
    <3>2. WornByCards'
      BY <1>2, <2>5, <2>11, <3>1 DEF LabelInv, WornByCards
    <3>3. Kept(next)'
      BY <1>2, <2>5, <3>1 DEF Kept
    <3>4. ASSUME NEW l \in labels, l \in everWorn, l # next PROVE Kept(l)'
      <4>1. Kept(l)
        BY <2>11, <3>4 DEF LabelInv, NoneLost
      <4>2. InHand(l) => InHand(l)'
        BY <1>1, <2>2, <2>3, <3>4 DEF InHand, LabelInv, LabelTypes
      <4> QED
        BY <1>2, <2>5, <4>1, <4>2 DEF Kept
    <3> QED
      BY <1>2, <2>5, <3>2, <3>3, <3>4 DEF NoneLost
  <2>12. ~crossed => \A q \in LabelCalls \ {p} : Busy(labelCall[q]) => w.card # labelCall[q].card
    BY <1>1, <1>2, <2>2 DEF LabelInv, CardsApart
  <2> QED
    BY <1>1, <1>2, <2>2, <2>3, <2>6, <2>7, <2>9, <2>10, <2>11, <2>12, CallGoesOn
<1> QED
  BY <1>4, <1>5

-----------------------------------------------------------------------------
(* pruneUnusedLabels: what is not in hand any more, a card there is wears.    *)
LEMMA AskKeeps ==
  ASSUME LabelInv, NEW p \in LabelCalls, AskWhatIsWorn(p)
  PROVE  LabelInv'
<1>1. PICK o : o = labelCall[p]
  OBVIOUS
<1>2. PICK gone : gone = {l \in o.had : ~Worn(l)}
  OBVIOUS
<1>3. PICK after : after = IF gone # {} THEN "sweep" ELSE AfterPruning(p)
  OBVIOUS
<1>4. PICK w : w = [o EXCEPT !.had = gone, !.step = after]
  OBVIOUS
<1>5. /\ o \in LabelRow /\ o.step = "ask" /\ CallIsSound(o) /\ (~crossed => CallOwns(o)) /\ Busy(o)
      /\ UNCHANGED <<word, labels, wears, labelled, everWorn, crossed>> /\ crossed \in BOOLEAN
  BY <1>1 DEF AskWhatIsWorn, Asks, LabelInv, LabelTypes, Busy
<1>6. /\ after \in {"sweep", "drop", "done"} /\ (after # "sweep" => gone = {})
      /\ (after = "drop" => o.destroys)
  BY <1>1, <1>3 DEF AfterPruning
<1>7. /\ w \in LabelRow /\ w.step = after /\ w.had = gone /\ w.put = o.put
      /\ w.card = o.card /\ w.destroys = o.destroys
  BY <1>2, <1>4, <1>5, <1>6 DEF LabelRow
<1>8. labelCall' = [labelCall EXCEPT ![p] = w]
  BY <1>1, <1>2, <1>3, <1>4 DEF AskWhatIsWorn
<1>9. CallIsSound(w) /\ Busy(w)
  BY <1>2, <1>5, <1>6, <1>7 DEF CallIsSound, Busy
<1>10. ~crossed => CallOwns(w)
  BY <1>5, <1>6, <1>7, <1>9 DEF CallOwns
<1>11. ~crossed => \A q \in LabelCalls \ {p} : Busy(labelCall[q]) => w.card # labelCall[q].card
  BY <1>1, <1>5, <1>7 DEF LabelInv, CardsApart
<1>12. ASSUME ~crossed, NEW l \in o.had \union o.put
       PROVE  l \in w.had \union w.put \/ \E c \in labelled.here : <<c, l>> \in wears
  <2>1. CASE l \in w.put
    BY <2>1
  <2>2. CASE l \notin w.put
    <3>1. l \in o.had
      BY <1>7, <1>12, <2>2
    <3>2. l \notin gone => \E c \in LabelCards : <<c, l>> \in wears
      BY <1>2, <3>1 DEF Worn
    <3>3. \A c : <<c, l>> \in wears => c \in labelled.here
      BY <1>12 DEF LabelInv, WornByCards
    <3> QED
      BY <1>7, <3>2, <3>3
  <2> QED
    BY <2>1, <2>2
<1> QED
  BY <1>1, <1>5, <1>7, <1>8, <1>9, <1>10, <1>11, <1>12, QuietCall

LEMMA SweepKeeps ==
  ASSUME LabelInv, NEW p \in LabelCalls, SweepLabels(p)
  PROVE  LabelInv'
<1>1. PICK o : o = labelCall[p]
  OBVIOUS
<1>2. PICK w : w = [o EXCEPT !.step = AfterPruning(p)]
  OBVIOUS
<1>3. /\ o \in LabelRow /\ o.step = "sweep" /\ CallIsSound(o) /\ (~crossed => CallOwns(o)) /\ Busy(o)
      /\ UNCHANGED <<word, wears, labelled, everWorn, crossed>> /\ crossed \in BOOLEAN
      /\ labels' = labels \ o.had
  BY <1>1 DEF SweepLabels, Asks, LabelInv, LabelTypes, Busy
<1>4. AfterPruning(p) = IF o.destroys THEN "drop" ELSE "done"
  BY <1>1 DEF AfterPruning
<1>5. /\ w \in LabelRow /\ w.step \in {"drop", "done"} /\ (w.step = "drop" => w.destroys)
      /\ w.had = o.had /\ w.put = o.put /\ w.card = o.card /\ w.destroys = o.destroys
  BY <1>2, <1>3, <1>4 DEF LabelRow
<1>6. labelCall' = [labelCall EXCEPT ![p] = w]
  BY <1>1, <1>2 DEF SweepLabels, GoOn
<1>7. LabelTypes'
  <2>1. labelCall' \in [LabelCalls -> LabelRow]
    BY <1>5, <1>6 DEF LabelInv, LabelTypes
  <2> QED
    BY <1>3, <2>1 DEF LabelInv, LabelTypes
<1>8. CallIsSound(w)' /\ \A v \in LabelRow : CallIsSound(v) => CallIsSound(v)'
  BY <1>3, <1>5 DEF CallIsSound, Busy
<1>9. (~crossed => CallOwns(w)') /\ \A v \in LabelRow : CallOwns(v) => CallOwns(v)'
  BY <1>3, <1>5 DEF CallOwns, Busy
<1>10. ASSUME ~crossed PROVE WornByCards' /\ NoneLost'
  <2>1. WornByCards'
    BY <1>3, <1>10 DEF LabelInv, WornByCards
  <2>2. ASSUME NEW l \in labels', l \in everWorn PROVE Kept(l)'
    <3>1. Kept(l)
      BY <1>3, <1>10, <2>2 DEF LabelInv, NoneLost
    <3>2. InHand(l) => InHand(l)'
      BY <1>1, <1>5, <1>6 DEF InHand, LabelInv, LabelTypes
    <3> QED
      BY <1>3, <3>1, <3>2 DEF Kept
  <2> QED
    BY <1>3, <2>1, <2>2 DEF NoneLost
<1>11. ~crossed => \A q \in LabelCalls \ {p} : Busy(labelCall[q]) => w.card # labelCall[q].card
  BY <1>1, <1>3, <1>5 DEF LabelInv, CardsApart
<1> QED
  BY <1>1, <1>3, <1>5, <1>6, <1>7, <1>8, <1>9, <1>10, <1>11, CallGoesOn

LEMMA DoneKeeps ==
  ASSUME LabelInv, NEW p \in LabelCalls, Done(p)
  PROVE  LabelInv'
<1>1. /\ labelCall[p].step = "done" /\ CallIsSound(labelCall[p]) /\ crossed \in BOOLEAN
      /\ labelCall' = [labelCall EXCEPT ![p] = NoLabelCall]
      /\ UNCHANGED <<word, labels, wears, labelled, everWorn, crossed>>
  BY DEF Done, Asks, Answered, LabelInv, LabelTypes
<1>2. \A l \in labelCall[p].had \union labelCall[p].put : l \notin labels
  BY <1>1 DEF CallIsSound
<1> QED
  BY <1>1, <1>2, RestingRow, RestIsSound, QuietCall

(* The card goes, wearing nothing.                                            *)
LEMMA DropKeeps ==
  ASSUME LabelInv, NEW p \in LabelCalls, DropCard(p)
  PROVE  LabelInv'
<1>1. PICK o : o = labelCall[p]
  OBVIOUS
<1>2. /\ o \in LabelRow /\ o.step = "drop" /\ CallIsSound(o) /\ (~crossed => CallOwns(o)) /\ Busy(o)
      /\ UNCHANGED <<word, labels, wears, everWorn, crossed>> /\ crossed \in BOOLEAN
      /\ labelCall' = [labelCall EXCEPT ![p] = NoLabelCall]
      /\ labelled' = [labelled EXCEPT !.here = labelled.here \ {o.card}]
  BY <1>1 DEF DropCard, Answered, Asks, LabelInv, LabelTypes, Busy
<1>3. NoLabelCall \in LabelRow /\ ~Busy(NoLabelCall)
  BY RestingRow
<1>4. labelled'.here = labelled.here \ {o.card} /\ labelled'.free = labelled.free
  BY <1>2 DEF LabelInv, LabelTypes
<1>5. LabelTypes'
  <2>1. labelCall' \in [LabelCalls -> LabelRow]
    BY <1>2, <1>3 DEF LabelInv, LabelTypes
  <2> QED
    BY <1>2, <1>4, <2>1 DEF LabelInv, LabelTypes
<1>6. CallIsSound(NoLabelCall)' /\ \A v \in LabelRow : CallIsSound(v) => CallIsSound(v)'
  <2>1. \A v \in LabelRow : CallIsSound(v) => CallIsSound(v)'
    BY <1>2 DEF CallIsSound
  <2> QED
    BY <1>3, <2>1, RestIsSound
<1>7. CallOwns(NoLabelCall)'
  BY RestingRow DEF CallOwns, Busy
<1>8. \A v \in LabelRow : (Busy(v) => v.card # o.card) /\ CallOwns(v) => CallOwns(v)'
  BY <1>2, <1>4 DEF CallOwns, Busy
<1>9. ASSUME ~crossed PROVE WornByCards' /\ NoneLost'
  <2>1. \A l \in DOMAIN word : <<o.card, l>> \notin wears
    BY <1>2, <1>9 DEF CallOwns, CallIsSound
  <2>2. wears \subseteq LabelCards \X DOMAIN word /\ labels \subseteq DOMAIN word
    BY DEF LabelInv, LabelTypes
  <2>3. WornByCards'
    <3>1. \A r \in wears : r[1] # o.card
      BY <2>1, <2>2
    <3> QED
      BY <1>2, <1>4, <1>9, <3>1 DEF LabelInv, WornByCards
  <2>4. ASSUME NEW l \in labels, l \in everWorn PROVE Kept(l)'
    <3>1. Kept(l)
      BY <1>9, <2>4 DEF LabelInv, NoneLost
    <3>2. l \notin o.had \union o.put
      BY <1>2 DEF CallIsSound
    <3>3. InHand(l) => InHand(l)'
      BY <1>1, <1>2, <3>2 DEF InHand, LabelInv, LabelTypes
    <3>4. <<o.card, l>> \notin wears
      BY <2>1, <2>2
    <3> QED
      BY <1>2, <1>4, <3>1, <3>3, <3>4 DEF Kept
  <2> QED
    BY <1>2, <2>3, <2>4 DEF NoneLost
<1> QED
  BY <1>1, <1>2, <1>3, <1>5, <1>6, <1>7, <1>8, <1>9, CallGoesOn

-----------------------------------------------------------------------------
(* A copy wears what its original wears; no request knows it.                 *)
LEMMA CopyKeeps ==
  ASSUME LabelInv, NEW c \in LabelCards, NEW d \in LabelCards, CopyLabels(c, d)
  PROVE  LabelInv'
<1>1. /\ c \in labelled.here /\ d \in labelled.free /\ d \notin labelled.here
      /\ labelled' = [here |-> labelled.here \union {d}, free |-> labelled.free \ {d}]
      /\ wears' = wears \union {<<d, l>> : l \in Wearing(c)}
      /\ UNCHANGED <<word, labels, labelCall, everWorn, crossed>>
  BY DEF CopyLabels, LabelInv, LabelTypes
<1>2. Wearing(c) \subseteq DOMAIN word
  BY DEF Wearing
<1>3. labelled'.here = labelled.here \union {d} /\ labelled'.free = labelled.free \ {d}
  BY <1>1
<1>4. LabelTypes'
  <2>1. wears' \subseteq LabelCards \X DOMAIN word
    <3>1. wears \subseteq LabelCards \X DOMAIN word
      BY DEF LabelInv, LabelTypes
    <3>2. \A l \in Wearing(c) : <<d, l>> \in LabelCards \X DOMAIN word
      BY <1>2
    <3> QED
      BY <1>1, <3>1, <3>2
  <2>2. /\ labelled'.here \subseteq LabelCards /\ labelled'.here \intersect labelled'.free = {}
        /\ labelled' \in [here : SUBSET LabelCards, free : SUBSET LabelCards]
    <3>1. labelled.here \subseteq LabelCards /\ labelled.free \subseteq LabelCards
      BY DEF LabelInv, LabelTypes
    <3> QED
      BY <1>1, <1>3, <3>1 DEF LabelInv, LabelTypes
  <2> QED
    BY <1>1, <2>1, <2>2 DEF LabelInv, LabelTypes
<1>5. ASSUME NEW q \in LabelCalls PROVE CallIsSound(labelCall[q])'
  BY <1>1 DEF LabelInv, CallIsSound, Busy
<1>6. ASSUME ~crossed, NEW q \in LabelCalls PROVE CallOwns(labelCall[q])'
  <2>1. PICK v : v = labelCall[q]
    OBVIOUS
  <2>2. CallOwns(v)
    BY <1>6, <2>1 DEF LabelInv
  <2>3. Busy(v) => v.card # d
    BY <1>1, <2>2 DEF CallOwns
  <2>4. \A x, l : x # d => (<<x, l>> \in wears' <=> <<x, l>> \in wears)
    BY <1>1
  <2> QED
    BY <1>1, <1>3, <2>1, <2>2, <2>3, <2>4 DEF CallOwns, Busy
<1>7. ASSUME ~crossed PROVE CardsApart' /\ WornByCards' /\ NoneLost'
  <2>1. CardsApart /\ WornByCards /\ NoneLost
    BY <1>7 DEF LabelInv
  <2>2. CardsApart'
    BY <1>1, <2>1 DEF CardsApart, Busy
  <2>3. WornByCards'
    BY <1>1, <1>3, <2>1 DEF WornByCards
  <2>4. NoneLost'
    BY <1>1, <1>3, <2>1 DEF NoneLost, Kept, InHand
  <2> QED
    BY <2>2, <2>3, <2>4
<1> QED
  BY <1>1, <1>4, <1>5, <1>6, <1>7 DEF LabelInv

LEMMA LabelStep == LabelInv /\ [LabelNext]_labelVars => LabelInv'
<1> SUFFICES ASSUME LabelInv, [LabelNext]_labelVars PROVE LabelInv'
  OBVIOUS
<1>1. ASSUME NEW p \in LabelCalls,
             \/ \E w \in Words : FindByName(p, w)
             \/ CountLabels(p) \/ InsertLabel(p)
             \/ \E c \in LabelCards : \/ \E ids \in SUBSET DOMAIN word : SaveLabels(p, c, ids)
                                      \/ DestroyLabelled(p, c)
             \/ ReadWorn(p) \/ Strip(p) \/ PutOn(p)
             \/ AskWhatIsWorn(p) \/ SweepLabels(p) \/ Done(p) \/ DropCard(p)
      PROVE  LabelInv'
  BY <1>1, AskingKeeps, InsertKeeps, ReceivingKeeps, ReadWornKeeps, StripKeeps, PutOnKeeps,
     AskKeeps, SweepKeeps, DoneKeeps, DropKeeps
<1>2. ASSUME NEW c \in LabelCards, NEW d \in LabelCards, CopyLabels(c, d) PROVE LabelInv'
  BY <1>2, CopyKeeps
<1>3. CASE UNCHANGED labelVars
  <2>1. UNCHANGED <<word, labels, wears, labelled, labelCall, everWorn, crossed>>
    BY <1>3 DEF labelVars
  <2>2. LabelTypes'
    BY <2>1 DEF LabelInv, LabelTypes
  <2>3. \A p \in LabelCalls : CallIsSound(labelCall[p])'
    BY <2>1 DEF LabelInv, CallIsSound, Busy
  <2>4. ~crossed => \A p \in LabelCalls : CallOwns(labelCall[p])'
    BY <2>1 DEF LabelInv, CallOwns, Busy
  <2>5. ~crossed => CardsApart' /\ WornByCards' /\ NoneLost'
    BY <2>1 DEF LabelInv, CardsApart, WornByCards, NoneLost, Kept, InHand, Busy
  <2> QED
    BY <2>1, <2>2, <2>3, <2>4, <2>5 DEF LabelInv
<1> QED
  BY <1>1, <1>2, <1>3 DEF LabelNext

-----------------------------------------------------------------------------
(* A label that was worn is worn by a card there is, or a request under way   *)
(* has it in hand, unless requests for one card crossed (labelCleanup.ts),    *)
(* for any words, cards and requests.                                         *)
THEOREM NoLabelIsLeftBehind == LabelSpec => []LastTakesName
<1>1. LabelInv => LastTakesName
  BY DEF LabelInv, LastTakesName, NoneLost, Kept, InHand
<1> QED
  BY <1>1, LabelInitInv, LabelStep, PTL DEF LabelSpec

-----------------------------------------------------------------------------
(* ColumnOrder, for any number of columns and of requests.                    *)

ColumnState == [sort : Nat, where : {"shown", "archived", "gone"}, alone : BOOLEAN]
OrderState ==
  [step : {"idle", "insert", "number"}, number : Nat, list : Seq(Nat), at : Nat, alone : BOOLEAN]

OrderTypeOK ==
  /\ columns \in Seq(ColumnState)
  /\ orderCall \in [OrderCalls -> OrderState]
  /\ dragged \in Seq(Nat)

EachOnce(list) == \A i, j \in DOMAIN list : list[i] = list[j] => i = j

(* The columns before a place of the list are numbered by it.                 *)
NumberedTo(list, n) == \A i \in DOMAIN list : i < n => columns[list[i]].sort = i - 1

(* A request that numbers columns has each of them once; while nobody crosses *)
(* it, they are the columns that are shown, and those it is past are numbered.*)
ListIsWhole(call) ==
  call.step = "number" =>
    /\ call.at \in DOMAIN call.list /\ EachOnce(call.list) /\ ToSet(call.list) \subseteq DOMAIN columns
    /\ call.alone => ToSet(call.list) = ShownColumns /\ NumberedTo(call.list, call.at)

AloneIsAlone ==
  \A p \in OrderCalls : (orderCall[p].step # "idle" /\ orderCall[p].alone) => Alone(p)

(* The last drag is over, and nobody has begun anything since.                *)
DraggedIsLast ==
  dragged # << >> =>
    /\ \A p \in OrderCalls : orderCall[p].step = "idle"
    /\ ToSet(dragged) = ShownColumns /\ NumberedTo(dragged, Len(dragged) + 1)

OrderInv ==
  /\ OrderTypeOK
  /\ \A p \in OrderCalls : ListIsWhole(orderCall[p])
  /\ AloneIsAlone
  /\ DraggedIsLast

-----------------------------------------------------------------------------
(* A listing of a finite set has each of its members once.                    *)
LEMMA ListingIsWhole ==
  ASSUME NEW n \in Nat, NEW set, set \subseteq 1..n, NEW list \in SetToSeqs(set)
  PROVE  list \in Seq(Nat) /\ EachOnce(list) /\ ToSet(list) = set
<1> DEFINE m == Cardinality(set)
<1>0. IsFiniteSet(1..n)
  BY FS_Interval
<1>1. IsFiniteSet(set)
  BY <1>0, FS_Subset
<1>2. m \in Nat
  BY <1>1, FS_CardinalityType
<1>3. list \in [1..m -> set] /\ \A i, j \in 1..m : i # j => list[i] # list[j]
  BY DEF SetToSeqs
<1> HIDE DEF m
<1>4. list \in Injection(1..m, set)
  BY <1>3, Fun_IsInj
<1>5. Cardinality(1..m) = Cardinality(set)
  <2>1. Cardinality(1..m) = m
    BY <1>2, FS_Interval
  <2> QED
    BY <2>1 DEF m
<1>6. list \in Surjection(1..m, set)
  BY <1>1, <1>4, <1>5, FS_Injection
<1>7. \A a \in set : \E i \in 1..m : list[i] = a
  BY <1>6 DEF Surjection
<1>8. set \subseteq Nat
  OBVIOUS
<1>9. list \in Seq(Nat) /\ DOMAIN list = 1..m
  <2>1. list \in [1..m -> Nat] /\ DOMAIN list = 1..m
    BY <1>3, <1>8
  <2> QED
    BY <1>2, <2>1
<1>10. EachOnce(list)
  BY <1>3, <1>9 DEF EachOnce
<1>11. ToSet(list) = set
  BY <1>3, <1>7, <1>9 DEF ToSet
<1> QED
  BY <1>9, <1>10, <1>11

(* The place a column had, from the one it has after the one at "from" was    *)
(* carried to "to".                                                           *)
PlaceBefore(i, from, to) ==
  IF i = to THEN from
  ELSE IF i < to THEN (IF i < from THEN i ELSE i + 1)
       ELSE (IF i - 1 < from THEN i - 1 ELSE i)

PlacesMove(n, from, to) ==
  /\ \A i \in 1..n : PlaceBefore(i, from, to) \in 1..n
  /\ \A i, j \in 1..n : PlaceBefore(i, from, to) = PlaceBefore(j, from, to) => i = j
  /\ \A j \in 1..n : \E i \in 1..n : PlaceBefore(i, from, to) = j

LEMMA PlacesAreMoved ==
  ASSUME NEW n \in Nat, NEW from \in 1..n, NEW to \in 1..n
  PROVE  PlacesMove(n, from, to)
<1> from \in Int /\ to \in Int /\ from >= 1 /\ to >= 1 /\ from <= n /\ to <= n
  OBVIOUS
<1>1. ASSUME NEW i \in 1..n PROVE PlaceBefore(i, from, to) \in 1..n
  BY DEF PlaceBefore
<1>2. ASSUME NEW i \in 1..n, NEW j \in 1..n, PlaceBefore(i, from, to) = PlaceBefore(j, from, to)
      PROVE  i = j
  BY <1>2 DEF PlaceBefore
<1>3. ASSUME NEW j \in 1..n PROVE \E i \in 1..n : PlaceBefore(i, from, to) = j
  <2>1. CASE j = from
    BY <2>1 DEF PlaceBefore
  <2>2. CASE j < from
    <3>1. CASE j < to
      <4>1. PlaceBefore(j, from, to) = j
        BY <2>2, <3>1 DEF PlaceBefore
      <4> QED
        BY <4>1
    <3>2. CASE ~(j < to)
      <4>1. j + 1 \in 1..n /\ PlaceBefore(j + 1, from, to) = j
        BY <2>2, <3>2 DEF PlaceBefore
      <4> QED
        BY <4>1
    <3> QED
      BY <3>1, <3>2
  <2>3. CASE j > from
    <3>1. CASE j - 1 < to
      <4>1. j - 1 \in 1..n /\ PlaceBefore(j - 1, from, to) = j
        BY <2>3, <3>1 DEF PlaceBefore
      <4> QED
        BY <4>1
    <3>2. CASE ~(j - 1 < to)
      <4>1. PlaceBefore(j, from, to) = j
        BY <2>3, <3>2 DEF PlaceBefore
      <4> QED
        BY <4>1
    <3> QED
      BY <3>1, <3>2
  <2> QED
    BY <2>1, <2>2, <2>3
<1> QED
  BY <1>1, <1>2, <1>3 DEF PlacesMove

(* A part of a list, and two lists joined.                                    *)
LEMMA PartOfList ==
  ASSUME NEW list \in Seq(Nat), NEW m \in Nat, NEW n \in Nat, 1 <= m, m <= n + 1, n <= Len(list)
  PROVE  /\ SubSeq(list, m, n) \in Seq(Nat) /\ Len(SubSeq(list, m, n)) = n - m + 1
         /\ \A i \in 1..(n - m + 1) : SubSeq(list, m, n)[i] = list[m + i - 1]
<1>1. Len(list) \in Nat /\ \A i \in m..n : list[i] \in Nat
  BY ElementOfSeq
<1>2. m \in Int /\ n \in Int
  OBVIOUS
<1>3. /\ SubSeq(list, m, n) \in Seq(Nat)
      /\ Len(SubSeq(list, m, n)) = IF m <= n THEN n - m + 1 ELSE 0
      /\ \A i \in 1 .. n - m + 1 : SubSeq(list, m, n)[i] = list[m + i - 1]
  BY <1>1, <1>2, SubSeqProperties
<1> QED
  BY <1>3

Joined(list, s, t) ==
  /\ list \in Seq(Nat) /\ Len(list) = Len(s) + Len(t)
  /\ \A i \in 1..Len(s) : list[i] = s[i]
  /\ \A i \in 1..Len(t) : list[Len(s) + i] = t[i]

LEMMA JoinedLists ==
  ASSUME NEW s \in Seq(Nat), NEW t \in Seq(Nat)
  PROVE  Joined(s \o t, s, t)
<1>0. Len(s) \in Nat /\ Len(t) \in Nat
  OBVIOUS
<1>1. /\ s \o t \in Seq(Nat) /\ Len(s \o t) = Len(s) + Len(t)
      /\ \A i \in 1 .. Len(s) + Len(t) : (s \o t)[i] = IF i <= Len(s) THEN s[i] ELSE t[i - Len(s)]
  BY ConcatProperties
<1>2. ASSUME NEW i \in 1..Len(s) PROVE (s \o t)[i] = s[i]
  <2>1. i \in 1 .. Len(s) + Len(t) /\ i <= Len(s)
    BY <1>0
  <2> QED
    BY <1>1, <2>1
<1>3. ASSUME NEW i \in 1..Len(t) PROVE (s \o t)[Len(s) + i] = t[i]
  <2>1. Len(s) + i \in 1 .. Len(s) + Len(t) /\ ~(Len(s) + i <= Len(s)) /\ (Len(s) + i) - Len(s) = i
    BY <1>0
  <2> QED
    BY <1>1, <2>1
<1> QED
  BY <1>1, <1>2, <1>3 DEF Joined

(* A list without the column at a place.                                      *)
ListLess(rest, shown, from, n) ==
  /\ rest \in Seq(Nat) /\ Len(rest) = n - 1
  /\ \A i \in 1..(n - 1) : rest[i] = shown[IF i < from THEN i ELSE i + 1]

LEMMA ListWithout ==
  ASSUME NEW n \in Nat, NEW from \in 1..n, NEW shown \in Seq(Nat), Len(shown) = n
  PROVE  ListLess(RemoveAt(shown, from), shown, from, n)
<1>1. /\ from \in Nat /\ from - 1 \in Nat /\ n - from \in Nat /\ from + 1 \in Nat
      /\ 1 <= from /\ from <= n
  OBVIOUS
<1>2. /\ n - (from + 1) + 1 = n - from /\ (from - 1) - 1 + 1 = from - 1
      /\ (from - 1) + (n - from) = n - 1
  BY <1>1
<1>3. PICK before : before = SubSeq(shown, 1, from - 1)
  OBVIOUS
<1>4. PICK after : after = SubSeq(shown, from + 1, n)
  OBVIOUS
<1>5. /\ before \in Seq(Nat) /\ Len(before) = from - 1
      /\ \A i \in 1..(from - 1) : before[i] = shown[1 + i - 1]
  BY <1>1, <1>2, <1>3, PartOfList
<1>6. /\ after \in Seq(Nat) /\ Len(after) = n - from
      /\ \A i \in 1..(n - from) : after[i] = shown[(from + 1) + i - 1]
  BY <1>1, <1>2, <1>4, PartOfList
<1>7. PICK rest : rest = before \o after /\ rest = RemoveAt(shown, from)
  BY <1>3, <1>4 DEF RemoveAt
<1>8. /\ rest \in Seq(Nat) /\ Len(rest) = n - 1
      /\ \A i \in 1..(from - 1) : rest[i] = before[i]
      /\ \A i \in 1..(n - from) : rest[(from - 1) + i] = after[i]
  <2>1. Joined(rest, before, after)
    BY <1>5, <1>6, <1>7, JoinedLists
  <2> QED
    BY <1>2, <1>5, <1>6, <2>1 DEF Joined
<1>9. ASSUME NEW i \in 1..(n - 1) PROVE rest[i] = shown[IF i < from THEN i ELSE i + 1]
  <2>1. CASE i < from
    <3>1. i \in 1..(from - 1) /\ 1 + i - 1 = i
      BY <1>1, <2>1
    <3> QED
      BY <1>5, <1>8, <2>1, <3>1
  <2>2. CASE ~(i < from)
    <3>1. PICK k \in 1..(n - from) : k = i - (from - 1)
      BY <1>1, <2>2
    <3>2. (from - 1) + k = i /\ (from + 1) + k - 1 = i + 1
      BY <1>1, <3>1
    <3>3. rest[(from - 1) + k] = shown[(from + 1) + k - 1]
      BY <1>6, <1>8
    <3> QED
      BY <2>2, <3>2, <3>3
  <2> QED
    BY <2>1, <2>2
<1> QED
  BY <1>7, <1>8, <1>9 DEF ListLess

(* A list with a column put in at a place.                                    *)
With(list, rest, to, a, n) ==
  /\ list \in Seq(Nat) /\ Len(list) = n
  /\ \A i \in 1..n : list[i] = IF i < to THEN rest[i] ELSE IF i = to THEN a ELSE rest[i - 1]

LEMMA ListWith ==
  ASSUME NEW n \in Nat, NEW to \in 1..n, NEW rest \in Seq(Nat), Len(rest) = n - 1, NEW a \in Nat
  PROVE  With(InsertAt(rest, to, a), rest, to, a, n)
<1>1. /\ to \in Nat /\ to - 1 \in Nat /\ n - to \in Nat /\ n - 1 \in Nat /\ 1 \in Nat
      /\ 1 <= to /\ to <= n
  OBVIOUS
<1>2. /\ (n - 1) - to + 1 = n - to /\ (to - 1) - 1 + 1 = to - 1
      /\ (to - 1) + 1 = to /\ to + (n - to) = n /\ 1 \in 1..1 /\ to \in 1..to
      /\ 1 <= (to - 1) + 1 /\ to <= (n - 1) + 1 /\ to - 1 <= n - 1
  BY <1>1
<1>3. PICK first : first = SubSeq(rest, 1, to - 1)
  OBVIOUS
<1>4. PICK last : last = SubSeq(rest, to, n - 1)
  OBVIOUS
<1>5. PICK moved : moved = <<a>>
  OBVIOUS
<1>6. PICK upto : upto = first \o moved
  OBVIOUS
<1>7. PICK list : list = upto \o last /\ list = InsertAt(rest, to, a)
  BY <1>3, <1>4, <1>5, <1>6 DEF InsertAt
<1>8. /\ first \in Seq(Nat) /\ Len(first) = to - 1
      /\ \A i \in 1..(to - 1) : first[i] = rest[1 + i - 1]
  BY <1>1, <1>2, <1>3, PartOfList
<1>9. /\ last \in Seq(Nat) /\ Len(last) = n - to
      /\ \A i \in 1..(n - to) : last[i] = rest[to + i - 1]
  BY <1>1, <1>2, <1>4, PartOfList
<1>10. moved \in Seq(Nat) /\ Len(moved) = 1 /\ moved[1] = a
  BY <1>5
<1>11. /\ upto \in Seq(Nat) /\ Len(upto) = to
       /\ \A i \in 1..(to - 1) : upto[i] = first[i]
       /\ \A i \in 1..1 : upto[(to - 1) + i] = moved[i]
  <2>1. Joined(upto, first, moved)
    BY <1>6, <1>8, <1>10, JoinedLists
  <2> QED
    BY <1>2, <1>8, <1>10, <2>1 DEF Joined
<1>12. /\ list \in Seq(Nat) /\ Len(list) = n
       /\ \A i \in 1..to : list[i] = upto[i]
       /\ \A i \in 1..(n - to) : list[to + i] = last[i]
  <2>1. Joined(list, upto, last)
    BY <1>7, <1>9, <1>11, JoinedLists
  <2> QED
    BY <1>2, <1>9, <1>11, <2>1 DEF Joined
<1>13. list[to] = a
  <2>1. upto[(to - 1) + 1] = moved[1]
    BY <1>2, <1>11
  <2> QED
    BY <1>2, <1>10, <1>12, <2>1
<1>14. ASSUME NEW i \in 1..n, i < to PROVE list[i] = rest[i]
  <2>1. i \in 1..(to - 1) /\ i \in 1..to /\ 1 + i - 1 = i
    BY <1>1, <1>14
  <2> QED
    BY <1>8, <1>11, <1>12, <2>1
<1>15. ASSUME NEW i \in 1..n, i > to PROVE list[i] = rest[i - 1]
  <2>1. PICK k \in 1..(n - to) : k = i - to
    BY <1>1, <1>15
  <2>2. to + k = i /\ to + k - 1 = i - 1
    BY <1>1, <2>1
  <2>3. list[to + k] = rest[to + k - 1]
    BY <1>9, <1>12
  <2> QED
    BY <2>2, <2>3
<1>16. \A i \in 1..n : i < to \/ i = to \/ i > to
  BY <1>1
<1> QED
  BY <1>1, <1>7, <1>12, <1>13, <1>14, <1>15, <1>16 DEF With

(* A list with one column carried elsewhere has the same columns, once each.  *)
SameColumns(list, shown) ==
  /\ list \in Seq(Nat) /\ EachOnce(list)
  /\ ToSet(list) = ToSet(shown) /\ Len(list) = Len(shown)

LEMMA CarriedIsWhole ==
  ASSUME NEW n \in Nat, NEW from \in 1..n, NEW to \in 1..n,
         NEW shown \in Seq(Nat), Len(shown) = n, EachOnce(shown)
  PROVE  SameColumns(InsertAt(RemoveAt(shown, from), to, shown[from]), shown)
<1>1. shown[from] \in Nat /\ DOMAIN shown = 1..n
  BY ElementOfSeq, LenProperties
<1>2. PICK rest : rest = RemoveAt(shown, from)
  OBVIOUS
<1>3. PICK list : list = InsertAt(rest, to, shown[from])
  OBVIOUS
<1>4. /\ rest \in Seq(Nat) /\ Len(rest) = n - 1
      /\ \A i \in 1..(n - 1) : rest[i] = shown[IF i < from THEN i ELSE i + 1]
  <2>1. ListLess(rest, shown, from, n)
    BY <1>2, ListWithout
  <2> QED
    BY <2>1 DEF ListLess
<1>5. /\ list \in Seq(Nat) /\ Len(list) = n
      /\ \A i \in 1..n : list[i] = IF i < to THEN rest[i] ELSE IF i = to THEN shown[from] ELSE rest[i - 1]
  <2>1. With(list, rest, to, shown[from], n)
    BY <1>1, <1>3, <1>4, ListWith
  <2> QED
    BY <2>1 DEF With
<1>6. DOMAIN list = 1..n
  BY <1>5, LenProperties
<1>7. ASSUME NEW i \in 1..n PROVE list[i] = shown[PlaceBefore(i, from, to)]
  <2>1. CASE i = to
    BY <1>5, <2>1 DEF PlaceBefore
  <2>2. CASE i < to
    <3>1. i \in 1..(n - 1)
      BY <2>2
    <3>2. list[i] = rest[i]
      BY <1>5, <2>2
    <3>3. rest[i] = shown[IF i < from THEN i ELSE i + 1]
      BY <1>4, <3>1
    <3> QED
      BY <2>2, <3>2, <3>3 DEF PlaceBefore
  <2>3. CASE i > to
    <3>1. i - 1 \in 1..(n - 1) /\ (i - 1) + 1 = i
      BY <2>3
    <3>2. rest[i - 1] = shown[IF i - 1 < from THEN i - 1 ELSE i]
      BY <1>4, <3>1
    <3> QED
      BY <1>5, <2>3, <3>2 DEF PlaceBefore
  <2> QED
    BY <2>1, <2>2, <2>3
<1>8. /\ \A i \in 1..n : PlaceBefore(i, from, to) \in 1..n
      /\ \A i, j \in 1..n : PlaceBefore(i, from, to) = PlaceBefore(j, from, to) => i = j
      /\ \A j \in 1..n : \E i \in 1..n : PlaceBefore(i, from, to) = j
  <2>1. PlacesMove(n, from, to)
    BY PlacesAreMoved
  <2> QED
    BY <2>1 DEF PlacesMove
<1>9. EachOnce(list)
  <2> SUFFICES ASSUME NEW i \in 1..n, NEW j \in 1..n, list[i] = list[j] PROVE i = j
    BY <1>6 DEF EachOnce
  <2>1. shown[PlaceBefore(i, from, to)] = shown[PlaceBefore(j, from, to)]
    BY <1>7
  <2>2. PlaceBefore(i, from, to) = PlaceBefore(j, from, to)
    <3>1. PlaceBefore(i, from, to) \in DOMAIN shown /\ PlaceBefore(j, from, to) \in DOMAIN shown
      BY <1>1, <1>8
    <3> QED
      BY <2>1, <3>1 DEF EachOnce
  <2> QED
    BY <1>8, <2>2
<1>10. ToSet(list) = ToSet(shown)
  <2>1. ASSUME NEW i \in 1..n PROVE \E j \in 1..n : list[i] = shown[j]
    BY <1>7, <1>8
  <2>2. ASSUME NEW j \in 1..n PROVE \E i \in 1..n : shown[j] = list[i]
    <3>1. PICK i \in 1..n : PlaceBefore(i, from, to) = j
      BY <1>8
    <3> QED
      BY <1>7, <3>1
  <2>3. ToSet(list) = {list[i] : i \in 1..n} /\ ToSet(shown) = {shown[i] : i \in 1..n}
    BY <1>1, <1>6 DEF ToSet
  <2>4. ToSet(list) \subseteq ToSet(shown)
    BY <2>1, <2>3
  <2>5. ToSet(shown) \subseteq ToSet(list)
    BY <2>2, <2>3
  <2> QED
    BY <2>4, <2>5
<1> QED
  BY <1>2, <1>3, <1>5, <1>9, <1>10 DEF SameColumns

-----------------------------------------------------------------------------
(* A request that another one crosses.                                        *)
Crossed(call) == [call EXCEPT !.alone = FALSE]

LEMMA CrossedCall ==
  ASSUME NEW call \in OrderState
  PROVE  /\ Crossed(call) \in OrderState
         /\ Crossed(call).step = call.step /\ Crossed(call).list = call.list
         /\ Crossed(call).at = call.at /\ Crossed(call).alone = FALSE
  BY DEF Crossed, OrderState

(* Its list is as whole as it was, whatever has become of the columns.        *)
LEMMA CrossedIsWhole ==
  ASSUME OrderInv, DOMAIN columns \subseteq DOMAIN columns', NEW q \in OrderCalls,
         orderCall'[q] = Crossed(orderCall[q])
  PROVE  ListIsWhole(orderCall[q])'
<1>1. orderCall[q] \in OrderState /\ ListIsWhole(orderCall[q])
  BY DEF OrderInv, OrderTypeOK
<1> QED
  BY <1>1, CrossedCall DEF ListIsWhole

(* When all are crossed but one, and that one is alone only if the others     *)
(* rest, the invariant is kept.                                               *)
LEMMA CrossingKeeps ==
  ASSUME OrderInv, NEW p \in OrderCalls, NEW call \in OrderState, Crosses(p, call),
         UNCHANGED columns, dragged' = << >>,
         call.alone => Alone(p), ListIsWhole(call)
  PROVE  OrderInv'
<1>1. /\ orderCall \in [OrderCalls -> OrderState]
      /\ orderCall' = [q \in OrderCalls |-> IF q = p THEN call ELSE Crossed(orderCall[q])]
  BY DEF OrderInv, OrderTypeOK, Crosses, Crossed
<1>2. orderCall'[p] = call /\ \A q \in OrderCalls \ {p} : orderCall'[q] = Crossed(orderCall[q])
  BY <1>1
<1>3. OrderTypeOK'
  <2>1. orderCall' \in [OrderCalls -> OrderState]
    BY <1>1, CrossedCall
  <2> QED
    BY <2>1 DEF OrderInv, OrderTypeOK
<1>4. ASSUME NEW q \in OrderCalls PROVE ListIsWhole(orderCall[q])'
  <2>1. CASE q = p
    BY <1>2, <2>1 DEF ListIsWhole, ShownColumns, NumberedTo
  <2>2. CASE q # p
    BY <1>2, <2>2, CrossedIsWhole
  <2> QED
    BY <2>1, <2>2
<1>5. \A q \in OrderCalls \ {p} :
        orderCall'[q].step = orderCall[q].step /\ orderCall'[q].alone = FALSE
  BY <1>1, <1>2, CrossedCall
<1>6. AloneIsAlone'
  BY <1>2, <1>5 DEF AloneIsAlone, Alone
<1>7. DraggedIsLast'
  BY DEF DraggedIsLast
<1> QED
  BY <1>3, <1>4, <1>6, <1>7 DEF OrderInv

LEMMA CountKeeps ==
  ASSUME OrderInv, NEW p \in OrderCalls, CountColumns(p)
  PROVE  OrderInv'
<1>1. Cardinality(ColumnRows) \in Nat
  <2>1. PICK n \in Nat : DOMAIN columns = 1..n
    BY LenProperties DEF OrderInv, OrderTypeOK
  <2>2. IsFiniteSet(1..n)
    BY <2>1, FS_Interval
  <2>3. ColumnRows \subseteq 1..n
    BY <2>1 DEF ColumnRows
  <2>4. IsFiniteSet(ColumnRows)
    BY <2>2, <2>3, FS_Subset
  <2> QED
    BY <2>4, FS_CardinalityType
<1>2. PICK number \in Nat : number = Cardinality(ColumnRows) + 1
  BY <1>1
<1>3. PICK alone \in BOOLEAN : alone = Alone(p)
  BY DEF Alone
<1>4. PICK call : call = [NoOrderCall EXCEPT !.step = "insert", !.number = number, !.alone = alone]
  OBVIOUS
<1>5. call \in OrderState /\ call.step = "insert" /\ call.alone = Alone(p)
  <2>0. call = [step |-> "insert", number |-> number, list |-> << >>, at |-> 1, alone |-> alone]
    BY <1>4 DEF NoOrderCall
  <2>1. call \in OrderState /\ call.step = "insert" /\ call.alone = alone
    BY <2>0 DEF OrderState
  <2> QED
    BY <1>3, <2>1
<1>6. Crosses(p, call) /\ dragged' = << >> /\ UNCHANGED columns
  BY <1>2, <1>3, <1>4 DEF CountColumns
<1>7. ListIsWhole(call)
  BY <1>5 DEF ListIsWhole
<1> QED
  BY <1>5, <1>6, <1>7, CrossingKeeps

LEMMA StartKeeps ==
  ASSUME OrderInv, NEW p \in OrderCalls, StartReorder(p)
  PROVE  OrderInv'
<1>1. PICK shown \in SetToSeqs(ShownColumns) : \E from, to \in DOMAIN shown :
        LET list == InsertAt(RemoveAt(shown, from), to, shown[from])
        IN  Crosses(p, [NoOrderCall EXCEPT !.step = "number", !.list = list, !.alone = Alone(p)])
  BY DEF StartReorder, Listings
<1>2. PICK from \in DOMAIN shown, to \in DOMAIN shown :
        LET list == InsertAt(RemoveAt(shown, from), to, shown[from])
        IN  Crosses(p, [NoOrderCall EXCEPT !.step = "number", !.list = list, !.alone = Alone(p)])
  BY <1>1
<1>3. PICK n \in Nat : DOMAIN columns = 1..n
  BY LenProperties DEF OrderInv, OrderTypeOK
<1>4. ShownColumns \subseteq 1..n
  BY <1>3 DEF ShownColumns
<1>5. shown \in Seq(Nat) /\ EachOnce(shown) /\ ToSet(shown) = ShownColumns
  BY <1>3, <1>4, ListingIsWhole
<1>6. PICK m \in Nat : m = Len(shown) /\ DOMAIN shown = 1..m
  BY <1>5, LenProperties
<1>7. PICK list : list = InsertAt(RemoveAt(shown, from), to, shown[from])
  OBVIOUS
<1>8. list \in Seq(Nat) /\ EachOnce(list) /\ ToSet(list) = ShownColumns /\ Len(list) = m
  <2>1. from \in 1..m /\ to \in 1..m /\ Len(shown) = m
    BY <1>6
  <2>2. SameColumns(list, shown)
    BY <1>5, <1>6, <1>7, <2>1, CarriedIsWhole
  <2> QED
    BY <1>5, <1>6, <2>2 DEF SameColumns
<1>9. PICK call : call = [NoOrderCall EXCEPT !.step = "number", !.list = list, !.alone = Alone(p)]
  OBVIOUS
<1>10. Alone(p) \in BOOLEAN
  BY DEF Alone
<1>11. /\ call \in OrderState /\ call.step = "number" /\ call.list = list /\ call.at = 1
       /\ call.alone = Alone(p)
  BY <1>8, <1>9, <1>10 DEF NoOrderCall, OrderState
<1>12. Crosses(p, call) /\ dragged' = << >> /\ UNCHANGED columns
  BY <1>2, <1>7, <1>9 DEF StartReorder
<1>13. ListIsWhole(call)
  <2>1. DOMAIN list = 1..m /\ 1 \in 1..m
    BY <1>6, <1>8, LenProperties
  <2>2. NumberedTo(list, 1)
    BY <2>1 DEF NumberedTo
  <2>3. ToSet(list) \subseteq DOMAIN columns
    BY <1>8 DEF ShownColumns
  <2> QED
    BY <1>8, <1>11, <2>1, <2>2, <2>3 DEF ListIsWhole
<1> QED
  BY <1>11, <1>12, <1>13, CrossingKeeps

-----------------------------------------------------------------------------
(* While one request is at work no other is alone, and no drag is the last.   *)
LEMMA OneAtWork ==
  ASSUME OrderInv, NEW p \in OrderCalls, orderCall[p].step # "idle"
  PROVE  /\ dragged = << >>
         /\ \A q \in OrderCalls \ {p} : orderCall[q].step # "idle" => ~orderCall[q].alone
  BY DEF OrderInv, DraggedIsLast, AloneIsAlone, Alone

(* The others' lists are as whole as they were.                               *)
LEMMA OthersAreWhole ==
  ASSUME OrderInv, DOMAIN columns \subseteq DOMAIN columns', NEW p \in OrderCalls,
         orderCall[p].step # "idle", NEW q \in OrderCalls \ {p}, orderCall'[q] = orderCall[q]
  PROVE  ListIsWhole(orderCall[q])'
<1>1. ListIsWhole(orderCall[q]) /\ (orderCall[q].step # "idle" => ~orderCall[q].alone)
  BY OneAtWork DEF OrderInv
<1> QED
  BY <1>1 DEF ListIsWhole

LEMMA InsertColumnKeeps ==
  ASSUME OrderInv, NEW p \in OrderCalls, InsertColumn(p)
  PROVE  OrderInv'
<1>1. PICK new : new = [sort |-> orderCall[p].number, where |-> "shown", alone |-> orderCall[p].alone]
  OBVIOUS
<1>2. /\ orderCall[p].step = "insert" /\ columns' = Append(columns, new)
      /\ orderCall' = [orderCall EXCEPT ![p] = NoOrderCall] /\ UNCHANGED dragged
  BY <1>1 DEF InsertColumn
<1>3. new \in ColumnState
  BY <1>1 DEF OrderInv, OrderTypeOK, OrderState, ColumnState
<1>4. columns' \in Seq(ColumnState) /\ DOMAIN columns \subseteq DOMAIN columns'
  <2>1. columns \in Seq(ColumnState)
    BY DEF OrderInv, OrderTypeOK
  <2> QED
    BY <1>2, <1>3, <2>1
<1>5. /\ orderCall' \in [OrderCalls -> OrderState] /\ orderCall'[p].step = "idle"
      /\ \A q \in OrderCalls \ {p} : orderCall'[q] = orderCall[q]
  <2>1. NoOrderCall \in OrderState /\ NoOrderCall.step = "idle"
    BY DEF NoOrderCall, OrderState
  <2> QED
    BY <1>2, <2>1 DEF OrderInv, OrderTypeOK
<1>6. dragged' = << >>
  BY <1>2, OneAtWork
<1>7. ASSUME NEW q \in OrderCalls PROVE ListIsWhole(orderCall[q])'
  <2>1. CASE q = p
    BY <1>5, <2>1 DEF ListIsWhole
  <2>2. CASE q # p
    BY <1>2, <1>4, <1>5, <2>2, OthersAreWhole
  <2> QED
    BY <2>1, <2>2
<1>8. AloneIsAlone'
  BY <1>2, <1>5, OneAtWork DEF AloneIsAlone
<1> QED
  BY <1>4, <1>5, <1>6, <1>7, <1>8 DEF OrderInv, OrderTypeOK, DraggedIsLast

-----------------------------------------------------------------------------
LEMMA FunctionIsASeq ==
  ASSUME NEW n \in Nat, NEW S, NEW f \in [1..n -> S]
  PROVE  f \in Seq(S) /\ DOMAIN f = 1..n
<1>1. DOMAIN f = 1..n
  OBVIOUS
<1>2. f \in Seq(S)
  OBVIOUS
<1> QED
  BY <1>1, <1>2

(* One column more is numbered: those before it keep their numbers, because   *)
(* each is in the list once.                                                  *)
LEMMA OneMoreNumbered ==
  ASSUME OrderTypeOK, NEW list \in Seq(Nat), NEW at \in DOMAIN list, EachOnce(list),
         ToSet(list) \subseteq DOMAIN columns, columns' = [columns EXCEPT ![list[at]].sort = at - 1]
  PROVE  /\ columns' \in Seq(ColumnState) /\ DOMAIN columns' = DOMAIN columns
         /\ ShownColumns' = ShownColumns
         /\ NumberedTo(list, at) => NumberedTo(list, at + 1)'
<1>1. PICK n \in Nat : DOMAIN columns = 1..n /\ columns \in [1..n -> ColumnState] /\ n = Len(columns)
  BY LenProperties DEF OrderTypeOK
<1>2. \A i \in DOMAIN list : list[i] \in 1..n
  BY <1>1 DEF ToSet
<1>3. list[at] \in 1..n /\ at \in Nat /\ at - 1 \in Nat
  BY <1>2
<1>4. \A a \in 1..n : columns[a] \in ColumnState
  BY <1>1
<1>5. PICK column : column = [columns[list[at]] EXCEPT !.sort = at - 1]
  OBVIOUS
<1>6. column \in ColumnState /\ column.sort = at - 1 /\ column.where = columns[list[at]].where
  BY <1>3, <1>4, <1>5 DEF ColumnState
<1>7. columns' = [columns EXCEPT ![list[at]] = column]
  BY <1>5
<1>8. /\ columns' \in [1..n -> ColumnState] /\ columns'[list[at]] = column
      /\ \A a \in 1..n : a # list[at] => columns'[a] = columns[a]
  BY <1>1, <1>3, <1>6, <1>7
<1>9. columns' \in Seq(ColumnState) /\ DOMAIN columns' = 1..n
  <2>1. n \in Nat /\ columns' \in [1..n -> ColumnState]
    BY <1>1, <1>8
  <2>2. columns' \in Seq(ColumnState) /\ DOMAIN columns' = 1..n
    BY <2>1, FunctionIsASeq
  <2> QED
    BY <2>1, <2>2
<1>10. \A a \in 1..n : columns'[a].where = columns[a].where
  BY <1>6, <1>8
<1>11. ShownColumns' = ShownColumns
  BY <1>1, <1>9, <1>10 DEF ShownColumns
<1>12. ASSUME NumberedTo(list, at), NEW i \in DOMAIN list, i < at + 1
       PROVE  columns'[list[i]].sort = i - 1
  <2>1. CASE i = at
    BY <1>6, <1>8, <2>1
  <2>2. CASE i # at
    <3>1. i < at
      BY <1>3, <1>12, <2>2
    <3>2. list[i] # list[at]
      BY <2>2 DEF EachOnce
    <3>3. columns'[list[i]] = columns[list[i]]
      BY <1>2, <1>8, <3>2
    <3> QED
      BY <1>12, <3>1, <3>3 DEF NumberedTo
  <2> QED
    BY <2>1, <2>2
<1> QED
  BY <1>1, <1>9, <1>11, <1>12 DEF NumberedTo

(* A call that goes on to the next place of its list.                         *)
LEMMA NextPlace ==
  ASSUME NEW call \in OrderState, call.step = "number", NEW next, next = [call EXCEPT !.at = @ + 1]
  PROVE  /\ next \in OrderState /\ next.step = "number" /\ next.list = call.list
         /\ next.at = call.at + 1 /\ next.alone = call.alone
<1>1. call.at \in Nat /\ call.at + 1 \in Nat
  BY DEF OrderState
<1>2. next \in OrderState
  BY <1>1 DEF OrderState
<1>3. next.step = "number" /\ next.list = call.list /\ next.at = call.at + 1 /\ next.alone = call.alone
  BY DEF OrderState
<1> QED
  BY <1>2, <1>3

LEMMA NumberKeeps ==
  ASSUME OrderInv, NEW p \in OrderCalls, NumberNext(p)
  PROVE  OrderInv'
<1>1. PICK call \in OrderState : call = orderCall[p] /\ call.step = "number"
  BY DEF NumberNext, OrderInv, OrderTypeOK
<1>2. /\ call.list \in Seq(Nat) /\ call.at \in DOMAIN call.list /\ EachOnce(call.list)
      /\ ToSet(call.list) \subseteq DOMAIN columns
      /\ call.alone => ToSet(call.list) = ShownColumns /\ NumberedTo(call.list, call.at)
  BY <1>1 DEF OrderInv, ListIsWhole, OrderState
<1>3. dragged = << >>
  BY <1>1, OneAtWork
<1>4. NoOrderCall \in OrderState /\ NoOrderCall.step = "idle"
  BY DEF NoOrderCall, OrderState
<1>5. CASE columns[call.list[call.at]].where = "gone"
  <2>1. UNCHANGED <<columns, dragged>> /\ orderCall' = [orderCall EXCEPT ![p] = NoOrderCall]
    BY <1>1, <1>5 DEF NumberNext
  <2>2. /\ orderCall' \in [OrderCalls -> OrderState] /\ orderCall'[p].step = "idle"
        /\ \A q \in OrderCalls \ {p} : orderCall'[q] = orderCall[q]
    BY <1>4, <2>1 DEF OrderInv, OrderTypeOK
  <2>3. ASSUME NEW q \in OrderCalls PROVE ListIsWhole(orderCall[q])'
    <3>1. CASE q = p
      BY <2>2, <3>1 DEF ListIsWhole
    <3>2. CASE q # p
      BY <1>1, <2>1, <2>2, <3>2, OthersAreWhole
    <3> QED
      BY <3>1, <3>2
  <2>4. AloneIsAlone'
    BY <1>1, <2>2, OneAtWork DEF AloneIsAlone
  <2> QED
    BY <1>3, <2>1, <2>2, <2>3, <2>4 DEF OrderInv, OrderTypeOK, DraggedIsLast
<1>6. CASE columns[call.list[call.at]].where # "gone"
  <2>1. columns' = [columns EXCEPT ![call.list[call.at]].sort = call.at - 1]
    BY <1>1, <1>6 DEF NumberNext
  <2>2. /\ columns' \in Seq(ColumnState) /\ DOMAIN columns' = DOMAIN columns
        /\ ShownColumns' = ShownColumns
        /\ NumberedTo(call.list, call.at) => NumberedTo(call.list, call.at + 1)'
    BY <1>2, <2>1, OneMoreNumbered DEF OrderInv
  <2>3. PICK n \in Nat : n = Len(call.list) /\ DOMAIN call.list = 1..n
    BY <1>2, LenProperties
  <2>4. CASE call.at = Len(call.list)
    <3>1. /\ orderCall' = [orderCall EXCEPT ![p] = NoOrderCall]
          /\ dragged' = IF call.alone THEN call.list ELSE << >>
      BY <1>1, <1>6, <2>4 DEF NumberNext
    <3>2. /\ orderCall' \in [OrderCalls -> OrderState] /\ orderCall'[p].step = "idle"
          /\ \A q \in OrderCalls \ {p} : orderCall'[q] = orderCall[q]
      BY <1>4, <3>1 DEF OrderInv, OrderTypeOK
    <3>3. ASSUME NEW q \in OrderCalls PROVE ListIsWhole(orderCall[q])'
      <4>1. CASE q = p
        BY <3>2, <4>1 DEF ListIsWhole
      <4>2. CASE q # p
        BY <1>1, <2>2, <3>2, <4>2, OthersAreWhole
      <4> QED
        BY <4>1, <4>2
    <3>4. AloneIsAlone'
      BY <1>1, <3>2, OneAtWork DEF AloneIsAlone
    <3>5. dragged' \in Seq(Nat)
      BY <1>2, <3>1
    <3>6. ASSUME dragged' # << >> PROVE /\ \A q \in OrderCalls : orderCall'[q].step = "idle"
                                        /\ ToSet(dragged') = ShownColumns'
                                        /\ NumberedTo(dragged, Len(dragged) + 1)'
      <4>1. call.alone /\ dragged' = call.list
        BY <3>1, <3>6
      <4>2. \A q \in OrderCalls \ {p} : orderCall[q].step = "idle"
        BY <1>1, <4>1 DEF OrderInv, AloneIsAlone, Alone
      <4>3. NumberedTo(call.list, call.at + 1)'
        BY <1>2, <2>2, <4>1
      <4> QED
        BY <1>2, <2>2, <2>4, <3>2, <4>1, <4>2, <4>3 DEF NumberedTo
    <3> QED
      BY <2>2, <3>2, <3>3, <3>4, <3>5, <3>6 DEF OrderInv, OrderTypeOK, DraggedIsLast
  <2>5. CASE call.at # Len(call.list)
    <3>1. orderCall' = [orderCall EXCEPT ![p].at = @ + 1] /\ UNCHANGED dragged
      BY <1>1, <1>6, <2>5 DEF NumberNext
    <3>2. PICK next : next = [call EXCEPT !.at = @ + 1]
      OBVIOUS
    <3>3. /\ next \in OrderState /\ next.step = "number" /\ next.list = call.list
          /\ next.at = call.at + 1 /\ next.alone = call.alone
      BY <1>1, <3>2, NextPlace
    <3>4. orderCall' = [orderCall EXCEPT ![p] = next]
      BY <1>1, <3>1, <3>2
    <3>5. /\ orderCall' \in [OrderCalls -> OrderState] /\ orderCall'[p] = next
          /\ \A q \in OrderCalls \ {p} : orderCall'[q] = orderCall[q]
      BY <3>3, <3>4 DEF OrderInv, OrderTypeOK
    <3>6. call.at + 1 \in DOMAIN call.list
      BY <1>2, <2>3, <2>5
    <3>7. ASSUME NEW q \in OrderCalls PROVE ListIsWhole(orderCall[q])'
      <4>1. CASE q = p
        BY <1>2, <2>2, <3>3, <3>5, <3>6, <4>1 DEF ListIsWhole
      <4>2. CASE q # p
        BY <1>1, <2>2, <3>5, <4>2, OthersAreWhole
      <4> QED
        BY <4>1, <4>2
    <3>8. AloneIsAlone'
      <4>1. ASSUME next.alone, NEW q \in OrderCalls \ {p} PROVE orderCall'[q].step = "idle"
        BY <1>1, <3>3, <3>5, <4>1 DEF OrderInv, AloneIsAlone, Alone
      <4>2. ASSUME NEW q \in OrderCalls \ {p}, orderCall'[q].step # "idle" PROVE ~orderCall'[q].alone
        BY <1>1, <3>5, <4>2, OneAtWork
      <4> QED
        BY <3>5, <4>1, <4>2 DEF AloneIsAlone, Alone
    <3> QED
      BY <1>3, <2>2, <3>1, <3>5, <3>7, <3>8 DEF OrderInv, OrderTypeOK, DraggedIsLast
  <2> QED
    BY <2>4, <2>5
<1> QED
  BY <1>5, <1>6

-----------------------------------------------------------------------------
(* A column is shown, hidden or removed: every request is crossed.            *)
LEMMA ColumnGoesKeeps ==
  ASSUME OrderInv, NEW a \in DOMAIN columns, ShowOrHide(a) \/ RemoveColumnRow(a)
  PROVE  OrderInv'
<1>1. /\ orderCall' = [q \in OrderCalls |-> Crossed(orderCall[q])] /\ dragged' = << >>
      /\ orderCall \in [OrderCalls -> OrderState] /\ columns \in Seq(ColumnState)
  BY DEF ShowOrHide, RemoveColumnRow, Crossed, OrderInv, OrderTypeOK
<1>2. PICK where \in {"shown", "archived", "gone"} : columns' = [columns EXCEPT ![a].where = where]
  BY DEF ShowOrHide, RemoveColumnRow
<1>3. PICK column : column = [columns[a] EXCEPT !.where = where]
  OBVIOUS
<1>4. columns' = [columns EXCEPT ![a] = column]
  BY <1>2, <1>3
<1>5. column \in ColumnState
  <2>1. columns[a] \in ColumnState
    BY <1>1
  <2> QED
    BY <1>3, <2>1 DEF ColumnState
<1>6. columns' \in Seq(ColumnState) /\ DOMAIN columns' = DOMAIN columns
  BY <1>1, <1>4, <1>5
<1>7. OrderTypeOK'
  <2>1. orderCall' \in [OrderCalls -> OrderState]
    BY <1>1, CrossedCall
  <2> QED
    BY <1>1, <1>6, <2>1 DEF OrderTypeOK
<1>8. \A q \in OrderCalls : orderCall'[q] = Crossed(orderCall[q]) /\ orderCall'[q].alone = FALSE
  BY <1>1, CrossedCall
<1>9. (\A q \in OrderCalls : ListIsWhole(orderCall[q]))'
  BY <1>6, <1>8, CrossedIsWhole
<1> QED
  BY <1>1, <1>7, <1>8, <1>9 DEF OrderInv, AloneIsAlone, DraggedIsLast

-----------------------------------------------------------------------------
(* The invariant holds at first and after every step.                         *)
LEMMA OrderInitInv == OrderInit => OrderInv
<1> SUFFICES ASSUME OrderInit PROVE OrderInv
  OBVIOUS
<1>1. NoOrderCall \in OrderState /\ NoOrderCall.step = "idle"
  BY DEF NoOrderCall, OrderState
<1>2. OrderTypeOK
  BY <1>1 DEF OrderInit, OrderTypeOK
<1>3. \A p \in OrderCalls : orderCall[p].step = "idle"
  BY <1>1 DEF OrderInit
<1> QED
  BY <1>2, <1>3 DEF OrderInit, OrderInv, ListIsWhole, AloneIsAlone, DraggedIsLast

LEMMA OrderStepInv == OrderInv /\ [OrderNext]_orderVars => OrderInv'
<1> SUFFICES ASSUME OrderInv, [OrderNext]_orderVars PROVE OrderInv'
  OBVIOUS
<1>1. CASE UNCHANGED orderVars
  BY <1>1 DEF orderVars, OrderInv, OrderTypeOK, ListIsWhole, ShownColumns, NumberedTo, AloneIsAlone,
              Alone, DraggedIsLast
<1>2. ASSUME NEW p \in OrderCalls,
             CountColumns(p) \/ InsertColumn(p) \/ StartReorder(p) \/ NumberNext(p)
      PROVE  OrderInv'
  BY <1>2, CountKeeps, InsertColumnKeeps, StartKeeps, NumberKeeps
<1>3. ASSUME NEW a \in DOMAIN columns, ShowOrHide(a) \/ RemoveColumnRow(a) PROVE OrderInv'
  BY <1>3, ColumnGoesKeeps
<1> QED
  BY <1>1, <1>2, <1>3 DEF OrderNext

LEMMA OrderInvGivesOrder == OrderInv => DraggedOrderHolds
<1> SUFFICES ASSUME OrderInv, dragged # << >> PROVE ToSet(dragged) = ShownColumns /\ CertainlyInOrder(dragged)
  BY DEF DraggedOrderHolds
<1>1. ToSet(dragged) = ShownColumns /\ NumberedTo(dragged, Len(dragged) + 1)
  BY DEF OrderInv, DraggedIsLast
<1>2. PICK n \in Nat : n = Len(dragged) /\ DOMAIN dragged = 1..n
  BY LenProperties DEF OrderInv, OrderTypeOK
<1>3. \A i \in 1..n : columns[dragged[i]].sort = i - 1
  BY <1>1, <1>2 DEF NumberedTo
<1>4. CertainlyInOrder(dragged)
  BY <1>2, <1>3 DEF CertainlyInOrder
<1> QED
  BY <1>1, <1>4

(* board PATCH, moveAreas.ts:22: after a drag that nobody crossed the columns *)
(* stand in the order it asked for, however many columns and requests there   *)
(* are, whatever numbers they had before, and whichever of them are archived. *)
THEOREM DraggedOrderIsKept == OrderSpec => []DraggedOrderHolds
<1>1. OrderInv /\ [OrderNext]_orderVars => OrderInv'
  BY OrderStepInv
<1>2. OrderSpec => []OrderInv
  BY <1>1, OrderInitInv, PTL DEF OrderSpec
<1> QED
  BY <1>2, OrderInvGivesOrder, PTL

-----------------------------------------------------------------------------
(* Where cards go in a column, for every number of columns, cards, gaps,      *)
(* equal numbers and calls at the same time.                                  *)

(* Lists that have each card once.                                            *)
LEMMA PlaceInList ==
  ASSUME NEW list \in Seq(Nat), EachOnce(list), NEW i \in 1..Len(list)
  PROVE  list[i] \in ToSet(list) /\ Position(list, list[i]) = i
<1>1. DOMAIN list = 1..Len(list)
  OBVIOUS
<1> QED
  BY <1>1 DEF Position, EachOnce, ToSet

LEMMA OnlyOnce ==
  ASSUME NEW list \in Seq(Nat), EachOnce(list), NEW i \in 1..Len(list), NEW j \in 1..Len(list),
         list[i] = list[j]
  PROVE  i = j
BY DEF EachOnce

LEMMA ListHas ==
  ASSUME NEW list \in Seq(Nat), NEW c \in ToSet(list)
  PROVE  \E i \in 1..Len(list) : list[i] = c
BY DEF ToSet

LEMMA ListIsSet ==
  ASSUME NEW list \in Seq(Nat)
  PROVE  ToSet(list) = {list[i] : i \in 1..Len(list)} /\ ToSet(list) \subseteq Nat
BY DEF ToSet

LEMMA SameList ==
  ASSUME NEW s \in Seq(Nat), NEW t \in Seq(Nat), Len(s) = Len(t), \A i \in 1..Len(s) : s[i] = t[i]
  PROVE  s = t
OBVIOUS

(* A card is taken out of a list.                                             *)
LEMMA TakenOut ==
  ASSUME NEW list \in Seq(Nat), EachOnce(list), NEW c
  PROVE  LET rest == Without(list, c) IN
         rest \in Seq(Nat) /\ EachOnce(rest) /\ ToSet(rest) = ToSet(list) \ {c}
<1>1. CASE ~Contains(list, c)
  BY <1>1, ListIsSet DEF Contains, Without
<1>2. CASE Contains(list, c)
  <2> DEFINE n == Len(list)
             from == Position(list, c)
             rest == Without(list, c)
  <2>1. from \in 1..n /\ list[from] = c /\ n \in Nat
    <3>1. PICK i \in 1..n : list[i] = c
      BY <1>2 DEF Contains
    <3> QED
      BY <3>1, PlaceInList
  <2>2. rest = RemoveAt(list, from)
    BY <1>2 DEF Without
  <2>3. ListLess(rest, list, from, n)
    <3> HIDE DEF from, rest
    <3> QED
      BY <2>1, <2>2, ListWithout
  <2>4. /\ rest \in Seq(Nat) /\ Len(rest) = n - 1
        /\ \A i \in 1..(n - 1) : rest[i] = list[IF i < from THEN i ELSE i + 1]
    BY <2>3 DEF ListLess
  <2> HIDE DEF from, rest
  <2>5. EachOnce(rest)
    <3> SUFFICES ASSUME NEW i \in 1..(n - 1), NEW j \in 1..(n - 1), rest[i] = rest[j] PROVE i = j
      <4>1. DOMAIN rest = 1..(n - 1)
        BY <2>1, <2>4
      <4> QED
        BY <4>1 DEF EachOnce
    <3>1. PICK k \in 1..n : k = IF i < from THEN i ELSE i + 1
      BY <2>1
    <3>2. PICK l \in 1..n : l = IF j < from THEN j ELSE j + 1
      BY <2>1
    <3>3. list[k] = list[l]
      BY <2>4, <3>1, <3>2
    <3>4. k = l
      BY <3>3 DEF EachOnce
    <3> QED
      BY <2>1, <3>1, <3>2, <3>4
  <2>6. \A i \in 1..(n - 1) : (IF i < from THEN i ELSE i + 1) \in (1..n) \ {from}
    BY <2>1
  <2>7. \A j \in (1..n) \ {from} : \E i \in 1..(n - 1) : (IF i < from THEN i ELSE i + 1) = j
    <3> TAKE j \in (1..n) \ {from}
    <3>1. CASE j < from
      BY <2>1, <3>1
    <3>2. CASE ~(j < from)
      <4>1. j - 1 \in 1..(n - 1) /\ ~(j - 1 < from) /\ j - 1 + 1 = j
        BY <2>1, <3>2
      <4> QED
        BY <4>1
    <3> QED
      BY <3>1, <3>2
  <2>8. ToSet(rest) = {list[j] : j \in (1..n) \ {from}}
    <3>1. ToSet(rest) = {rest[i] : i \in 1..(n - 1)}
      BY <2>4, ListIsSet
    <3>2. ASSUME NEW i \in 1..(n - 1) PROVE rest[i] \in {list[j] : j \in (1..n) \ {from}}
      <4>1. PICK j \in (1..n) \ {from} : j = IF i < from THEN i ELSE i + 1
        BY <2>6
      <4> QED
        BY <2>4, <4>1
    <3>3. ASSUME NEW j \in (1..n) \ {from} PROVE list[j] \in {rest[i] : i \in 1..(n - 1)}
      <4>1. PICK i \in 1..(n - 1) : (IF i < from THEN i ELSE i + 1) = j
        BY <2>7
      <4> QED
        BY <2>4, <4>1
    <3> QED
      BY <3>1, <3>2, <3>3
  <2>9. ToSet(rest) = ToSet(list) \ {c}
    BY <2>1, <2>8, ListIsSet DEF EachOnce
  <2> QED
    BY <2>4, <2>5, <2>9 DEF rest
<1> QED
  BY <1>1, <1>2

(* A card is put into a list it is not in, at place k.                        *)
PutIn(list, rest, k, c) ==
  /\ list \in Seq(Nat) /\ EachOnce(list) /\ Len(list) = Len(rest) + 1
  /\ ToSet(list) = ToSet(rest) \cup {c}
  /\ Position(list, c) = k /\ Without(list, c) = rest
  /\ \A i \in 1..Len(list) : list[i] = IF i < k THEN rest[i] ELSE IF i = k THEN c ELSE rest[i - 1]
  /\ {d \in ToSet(list) : Position(list, d) < k} = {d \in ToSet(rest) : Position(rest, d) < k}

LEMMA IsPutIn ==
  ASSUME NEW rest \in Seq(Nat), EachOnce(rest), NEW c \in Nat, c \notin ToSet(rest),
         NEW k \in 1..(Len(rest) + 1), NEW list, With(list, rest, k, c, Len(rest) + 1)
  PROVE  PutIn(list, rest, k, c)
<1> DEFINE n == Len(rest) + 1
<1>1. /\ list \in Seq(Nat) /\ Len(list) = n /\ n \in Nat /\ Len(rest) \in Nat
      /\ \A i \in 1..n : list[i] = IF i < k THEN rest[i] ELSE IF i = k THEN c ELSE rest[i - 1]
  BY DEF With
<1>2. /\ \A i \in 1..n : i < k => i \in 1..Len(rest) /\ list[i] = rest[i]
      /\ \A i \in 1..n : i > k => i - 1 \in 1..Len(rest) /\ list[i] = rest[i - 1]
      /\ list[k] = c /\ k \in 1..n
  BY <1>1
<1>3. \A i \in 1..Len(rest) : rest[i] # c
  BY ListIsSet
<1>4. EachOnce(list)
  <2> SUFFICES ASSUME NEW i \in 1..n, NEW j \in 1..n, list[i] = list[j] PROVE i = j
    BY <1>1 DEF EachOnce
  <2>0. \A l \in 1..n : l # k => list[l] # c
    <3> SUFFICES ASSUME NEW l \in 1..n, l # k PROVE list[l] # c
      OBVIOUS
    <3>1. CASE l < k
      BY <1>2, <1>3, <3>1
    <3>2. CASE l > k
      <4>1. l - 1 \in 1..Len(rest) /\ list[l] = rest[l - 1]
        BY <1>2, <3>2
      <4> QED
        BY <1>3, <4>1
    <3> QED
      BY <3>1, <3>2
  <2>1. CASE i = k
    BY <1>2, <2>0, <2>1
  <2>2. CASE j = k
    BY <1>2, <2>0, <2>2
  <2>3. CASE i < k /\ j < k
    BY <1>2, <2>3 DEF EachOnce
  <2>4. CASE i > k /\ j > k
    <3>1. PICK l \in 1..Len(rest) : l = i - 1 /\ list[i] = rest[l]
      BY <1>2, <2>4
    <3>2. PICK m \in 1..Len(rest) : m = j - 1 /\ list[j] = rest[m]
      BY <1>2, <2>4
    <3>3. rest[l] = rest[m]
      BY <1>1, <3>1, <3>2
    <3>4. l = m
      BY <3>3, OnlyOnce
    <3> QED
      BY <3>1, <3>2, <3>4
  <2>5. CASE i < k /\ j > k
    <3>1. PICK l \in 1..Len(rest) : l = i /\ list[i] = rest[l]
      BY <1>2, <2>5
    <3>2. PICK m \in 1..Len(rest) : m = j - 1 /\ list[j] = rest[m]
      BY <1>2, <2>5
    <3>3. rest[l] = rest[m]
      BY <1>1, <3>1, <3>2
    <3>4. l = m
      BY <3>3, OnlyOnce
    <3> QED
      BY <2>5, <3>1, <3>2, <3>4
  <2>6. CASE i > k /\ j < k
    <3>1. PICK l \in 1..Len(rest) : l = i - 1 /\ list[i] = rest[l]
      BY <1>2, <2>6
    <3>2. PICK m \in 1..Len(rest) : m = j /\ list[j] = rest[m]
      BY <1>2, <2>6
    <3>3. rest[l] = rest[m]
      BY <1>1, <3>1, <3>2
    <3>4. l = m
      BY <3>3, OnlyOnce
    <3> QED
      BY <2>6, <3>1, <3>2, <3>4
  <2>7. i < k \/ i = k \/ i > k
    OBVIOUS
  <2>8. j < k \/ j = k \/ j > k
    OBVIOUS
  <2> QED
    BY <2>1, <2>2, <2>3, <2>4, <2>5, <2>6, <2>7, <2>8
<1>5. /\ \A i \in 1..n : list[i] \in ToSet(rest) \cup {c}
      /\ \A i \in 1..Len(rest) : i < k => (i \in 1..n /\ list[i] = rest[i])
      /\ \A i \in 1..Len(rest) : i >= k => (i + 1 \in 1..n /\ list[i + 1] = rest[i])
  <2>1. \A i \in 1..n : i < k \/ i = k \/ i > k
    BY <1>1
  <2>2. \A i \in 1..n : list[i] \in ToSet(rest) \cup {c}
    BY <1>2, <2>1, ListIsSet
  <2>3. ASSUME NEW i \in 1..Len(rest), i >= k PROVE i + 1 \in 1..n /\ list[i + 1] = rest[i]
    <3>1. i + 1 \in 1..n /\ i + 1 > k /\ i + 1 - 1 = i
      BY <1>1, <2>3
    <3> QED
      BY <1>2, <3>1
  <2> QED
    BY <1>1, <2>2, <2>3
<1>6. ToSet(list) = ToSet(rest) \cup {c}
  <2>1. ToSet(list) = {list[i] : i \in 1..n}
    BY <1>1, ListIsSet
  <2>2. ToSet(rest) = {rest[i] : i \in 1..Len(rest)}
    BY ListIsSet
  <2>3. ASSUME NEW i \in 1..Len(rest) PROVE rest[i] \in ToSet(list)
    <3>1. \E j \in 1..n : list[j] = rest[i]
      BY <1>5
    <3> QED
      BY <2>1, <3>1
  <2>4. c \in ToSet(list)
    BY <1>2, <2>1
  <2>5. ToSet(rest) \subseteq ToSet(list)
    BY <2>2, <2>3
  <2>6. ToSet(list) \subseteq ToSet(rest) \cup {c}
    BY <1>5, <2>1
  <2> QED
    BY <2>4, <2>5, <2>6
<1>7. Position(list, c) = k
  BY <1>1, <1>2, <1>4, PlaceInList
<1>8. Without(list, c) = rest
  <2>1. Without(list, c) = RemoveAt(list, k)
    BY <1>1, <1>2, <1>7 DEF Without, Contains
  <2>2. ListLess(RemoveAt(list, k), list, k, n)
    BY <1>1, ListWithout
  <2>3. RemoveAt(list, k) \in Seq(Nat) /\ Len(RemoveAt(list, k)) = Len(rest)
    BY <1>1, <2>2 DEF ListLess
  <2>4. ASSUME NEW i \in 1..Len(rest) PROVE RemoveAt(list, k)[i] = rest[i]
    <3>1. i \in 1..(n - 1) /\ RemoveAt(list, k)[i] = list[IF i < k THEN i ELSE i + 1]
      BY <1>1, <2>2 DEF ListLess
    <3> QED
      BY <1>5, <3>1
  <2> QED
    BY <2>1, <2>3, <2>4, SameList
<1>9. {d \in ToSet(list) : Position(list, d) < k} = {d \in ToSet(rest) : Position(rest, d) < k}
  <2>1. ASSUME NEW d \in ToSet(list), Position(list, d) < k
        PROVE  d \in ToSet(rest) /\ Position(rest, d) < k
    <3>1. PICK i \in 1..n : list[i] = d
      BY <1>1, ListHas
    <3>2. i < k /\ rest[i] = d /\ i \in 1..Len(rest)
      BY <1>1, <1>2, <1>4, <2>1, <3>1, PlaceInList
    <3> QED
      BY <3>2, PlaceInList
  <2>2. ASSUME NEW d \in ToSet(rest), Position(rest, d) < k
        PROVE  d \in ToSet(list) /\ Position(list, d) < k
    <3>1. PICK i \in 1..Len(rest) : rest[i] = d
      BY ListHas
    <3>2. i < k /\ list[i] = d /\ i \in 1..n
      BY <1>5, <2>2, <3>1, PlaceInList
    <3> QED
      BY <1>1, <1>4, <3>2, PlaceInList
  <2> QED
    BY <2>1, <2>2
<1> QED
  BY <1>1, <1>4, <1>6, <1>7, <1>8, <1>9 DEF PutIn

LEMMA PutInside ==
  ASSUME NEW rest \in Seq(Nat), EachOnce(rest), NEW c \in Nat, c \notin ToSet(rest), NEW k \in 1..(Len(rest) + 1)
  PROVE  PutIn(InsertAt(rest, k, c), rest, k, c)
<1>1. Len(rest) + 1 \in Nat /\ Len(rest) = (Len(rest) + 1) - 1
  OBVIOUS
<1>2. With(InsertAt(rest, k, c), rest, k, c, Len(rest) + 1)
  BY <1>1, ListWith
<1> QED
  BY <1>2, IsPutIn

LEMMA PutLast ==
  ASSUME NEW rest \in Seq(Nat), EachOnce(rest), NEW c \in Nat, c \notin ToSet(rest)
  PROVE  PutIn(Append(rest, c), rest, Len(rest) + 1, c)
<1>1. Len(rest) + 1 \in 1..(Len(rest) + 1)
  OBVIOUS
<1>2. With(Append(rest, c), rest, Len(rest) + 1, c, Len(rest) + 1)
  BY DEF With
<1> QED
  BY <1>1, <1>2, IsPutIn

(* How many of a list's first k entries there are.                            *)
LEMMA FirstOnes ==
  ASSUME NEW list \in Seq(Nat), EachOnce(list), NEW k \in 0..Len(list)
  PROVE  IsFiniteSet({list[j] : j \in 1..k}) /\ Cardinality({list[j] : j \in 1..k}) = k
<1> DEFINE S == {list[j] : j \in 1..k}
           f == [j \in 1..k |-> list[j]]
<1>1. k \in Nat /\ 1..k \subseteq 1..Len(list)
  OBVIOUS
<1>2. IsFiniteSet(1..k) /\ Cardinality(1..k) = k
  BY <1>1, FS_Interval
<1>3. f \in Bijection(1..k, S)
  <2>1. ASSUME NEW i \in 1..k, NEW j \in 1..k, f[i] = f[j] PROVE i = j
    BY <1>1, <2>1, OnlyOnce
  <2>2. f \in [1..k -> S] /\ \A s \in S : \E j \in 1..k : f[j] = s
    OBVIOUS
  <2> QED
    BY <2>1, <2>2, Fun_IsBij
<1>4. ExistsBijection(1..k, S)
  BY <1>3 DEF ExistsBijection
<1> QED
  BY <1>2, <1>4, FS_Bijection

(* A set in an order R: what is below a member, how many that are.            *)
Beneath(S, R, c) == {d \in S : <<d, c>> \in R}
InLine(S, R) ==
  /\ \A c \in S : <<c, c>> \notin R
  /\ \A c, d, e \in S : <<c, d>> \in R /\ <<d, e>> \in R => <<c, e>> \in R
  /\ \A c, d \in S : c = d \/ <<c, d>> \in R \/ <<d, c>> \in R
Ranked(S, R) ==
  /\ \A c, d \in S : Cardinality(Beneath(S, R, c)) = Cardinality(Beneath(S, R, d)) => c = d
  /\ \A i \in 0..(Cardinality(S) - 1) : \E c \in S : Cardinality(Beneath(S, R, c)) = i
  /\ \A c \in S : IsFiniteSet(Beneath(S, R, c)) /\ Cardinality(Beneath(S, R, c)) \in 0..(Cardinality(S) - 1)

LEMMA Ranks ==
  ASSUME NEW S, IsFiniteSet(S), NEW R, InLine(S, R)
  PROVE  Ranked(S, R)
<1> DEFINE n == Cardinality(S)
           rank == [c \in S |-> Cardinality(Beneath(S, R, c))]
<1>1. n \in Nat
  BY FS_CardinalityType
<1>2. ASSUME NEW c \in S
      PROVE  IsFiniteSet(Beneath(S, R, c)) /\ Cardinality(Beneath(S, R, c)) \in 0..(n - 1)
  <2>1. IsFiniteSet(S \ {c}) /\ Cardinality(S \ {c}) = n - 1
    BY FS_RemoveElement
  <2>2. Beneath(S, R, c) \in SUBSET (S \ {c})
    BY DEF Beneath, InLine
  <2>3. IsFiniteSet(Beneath(S, R, c)) /\ Cardinality(Beneath(S, R, c)) <= n - 1
    BY <2>1, <2>2, FS_Subset
  <2>4. Cardinality(Beneath(S, R, c)) \in Nat
    BY <2>3, FS_CardinalityType
  <2> QED
    BY <1>1, <2>3, <2>4
<1>3. ASSUME NEW c \in S, NEW d \in S, <<c, d>> \in R
      PROVE  Cardinality(Beneath(S, R, c)) # Cardinality(Beneath(S, R, d))
  <2>1. Beneath(S, R, c) \in SUBSET Beneath(S, R, d)
    BY <1>3 DEF Beneath, InLine
  <2>2. c \in Beneath(S, R, d) /\ c \notin Beneath(S, R, c)
    BY <1>3 DEF Beneath, InLine
  <2> QED
    BY <1>2, <2>1, <2>2, FS_Subset
<1>4. ASSUME NEW c \in S, NEW d \in S, Cardinality(Beneath(S, R, c)) = Cardinality(Beneath(S, R, d))
      PROVE  c = d
  BY <1>3, <1>4 DEF InLine
<1>5. IsFiniteSet(0..(n - 1)) /\ Cardinality(0..(n - 1)) = n
  BY <1>1, FS_Interval
<1>6. rank \in Injection(S, 0..(n - 1))
  <2>1. rank \in [S -> 0..(n - 1)]
    BY <1>2
  <2>2. \A c, d \in S : rank[c] = rank[d] => c = d
    BY <1>4
  <2> QED
    BY <2>1, <2>2, Fun_IsInj
<1>7. rank \in Surjection(S, 0..(n - 1))
  BY <1>5, <1>6, FS_Injection
<1>8. \A i \in 0..(n - 1) : \E c \in S : rank[c] = i
  BY <1>7 DEF Surjection
<1> QED
  BY <1>2, <1>4, <1>8 DEF Ranked

-----------------------------------------------------------------------------
(* A column as the SELECT answers it.                                         *)
RowsFit ==
  /\ lastId \in Nat /\ Live \subseteq 1..lastId
  /\ row \in [Live -> Row]

Earlier == {pair \in Nat \X Nat : Before(pair[1], pair[2])}

LEMMA ColumnsAreFinite ==
  ASSUME RowsFit, NEW a
  PROVE  /\ IsFiniteSet(InColumn(a)) /\ InColumn(a) \subseteq Live /\ InColumn(a) \subseteq Nat
         /\ InLine(InColumn(a), Earlier)
         /\ \A c \in InColumn(a) : {d \in InColumn(a) : Before(d, c)} = Beneath(InColumn(a), Earlier, c)
<1>1. IsFiniteSet(1..lastId) /\ 1..lastId \subseteq Nat
  BY FS_Interval DEF RowsFit
<1>2. InColumn(a) \subseteq Live /\ InColumn(a) \in SUBSET (1..lastId)
  BY DEF InColumn, RowsFit
<1>3. \A c \in InColumn(a) : c \in Nat /\ row[c].sort \in Nat
  BY <1>1, <1>2 DEF RowsFit, Row
<1>4. \A c, d \in InColumn(a) : <<c, d>> \in Earlier <=> Before(c, d)
  BY <1>3 DEF Earlier
<1>5. InLine(InColumn(a), Earlier)
  <2>1. \A c \in InColumn(a) : ~Before(c, c)
    BY <1>3 DEF Before
  <2>2. \A c, d, e \in InColumn(a) : Before(c, d) /\ Before(d, e) => Before(c, e)
    BY <1>3 DEF Before
  <2>3. \A c, d \in InColumn(a) : c = d \/ Before(c, d) \/ Before(d, c)
    BY <1>3 DEF Before
  <2> QED
    BY <1>4, <2>1, <2>2, <2>3 DEF InLine
<1>6. \A c \in InColumn(a) : {d \in InColumn(a) : Before(d, c)} = Beneath(InColumn(a), Earlier, c)
  BY <1>4 DEF Beneath
<1> QED
  BY <1>1, <1>2, <1>5, <1>6, FS_Subset

LEMMA ReadIs ==
  ASSUME RowsFit, NEW a
  PROVE  LET read == ReadColumn(a) IN
         read \in Seq(Nat) /\ EachOnce(read) /\ ToSet(read) = InColumn(a)
<1> DEFINE S == InColumn(a)
           n == Cardinality(S)
           rank(c) == Cardinality({d \in S : Before(d, c)})
           read == ReadColumn(a)
<1>1. /\ IsFiniteSet(S) /\ S \subseteq Nat /\ InLine(S, Earlier)
      /\ \A c \in S : rank(c) = Cardinality(Beneath(S, Earlier, c))
  BY ColumnsAreFinite
<1>2. n \in Nat
  BY <1>1, FS_CardinalityType
<1>3. Ranked(S, Earlier)
  BY <1>1, Ranks
<1>4. read = [i \in 1..n |-> CHOOSE c \in S : rank(c) = i - 1]
  BY DEF ReadColumn
<1>5. \A c \in S : rank(c) \in 0..(n - 1)
  BY <1>1, <1>3 DEF Ranked
<1>6. \A c, d \in S : rank(c) = rank(d) => c = d
  BY <1>1, <1>3 DEF Ranked
<1>7. \A i \in 0..(n - 1) : \E c \in S : rank(c) = i
  BY <1>1, <1>3 DEF Ranked
<1> HIDE DEF S, n, rank, read
<1>8. ASSUME NEW i \in 1..n PROVE read[i] \in S /\ rank(read[i]) = i - 1
  <2>1. i - 1 \in 0..(n - 1)
    BY <1>2
  <2>2. \E c \in S : rank(c) = i - 1
    BY <1>7, <2>1
  <2> QED
    BY <1>4, <2>2
<1>9. read \in Seq(Nat) /\ Len(read) = n /\ DOMAIN read = 1..n
  <2>1. read \in [1..n -> Nat]
    BY <1>1, <1>4, <1>8
  <2> QED
    BY <1>2, <2>1
<1>10. EachOnce(read)
  <2> SUFFICES ASSUME NEW i \in 1..n, NEW j \in 1..n, read[i] = read[j] PROVE i = j
    BY <1>9 DEF EachOnce
  <2>1. i - 1 = j - 1
    BY <1>8
  <2> QED
    BY <1>2, <2>1
<1>11. ASSUME NEW c \in S PROVE c \in ToSet(read)
  <2>1. PICK i \in 1..n : i - 1 = rank(c)
    BY <1>2, <1>5
  <2>2. read[i] = c
    BY <1>6, <1>8, <2>1
  <2> QED
    BY <1>9, <2>2 DEF ToSet
<1>12. ToSet(read) \subseteq S
  BY <1>8, <1>9 DEF ToSet
<1> QED
  BY <1>9, <1>10, <1>11, <1>12 DEF read, S

(* A column whose cards are numbered from 0 in the order of a list is read in *)
(* that order.                                                                *)
LEMMA ReadAgain ==
  ASSUME RowsFit, NEW a, NEW list \in Seq(Nat), EachOnce(list), ToSet(list) = InColumn(a),
         \A i \in 1..Len(list) : row[list[i]].sort = i - 1
  PROVE  ReadColumn(a) = list
<1> DEFINE S == InColumn(a)
           n == Cardinality(S)
           rank(c) == Cardinality({d \in S : Before(d, c)})
           read == ReadColumn(a)
<1>1. /\ IsFiniteSet(S) /\ S \subseteq Nat /\ InLine(S, Earlier)
      /\ \A c \in S : rank(c) = Cardinality(Beneath(S, Earlier, c))
  BY ColumnsAreFinite
<1>3. Ranked(S, Earlier)
  BY <1>1, Ranks
<1>4. read = [i \in 1..n |-> CHOOSE c \in S : rank(c) = i - 1]
  BY DEF ReadColumn
<1>6. \A c, d \in S : rank(c) = rank(d) => c = d
  BY <1>1, <1>3 DEF Ranked
<1>2. S = {list[j] : j \in 1..Len(list)} /\ Len(list) \in 0..Len(list)
  BY ListIsSet
<1>5. n = Len(list) /\ n \in Nat
  <2>1. PICK first : first = {list[j] : j \in 1..Len(list)}
    OBVIOUS
  <2>2. Cardinality(first) = Len(list)
    BY <1>2, <2>1, FirstOnes
  <2>3. S = first /\ Len(list) \in Nat
    BY <1>2, <2>1
  <2> QED
    BY <2>2, <2>3
<1>7. ASSUME NEW i \in 1..n PROVE list[i] \in S /\ rank(list[i]) = i - 1
  <2>1. ASSUME NEW j \in 1..n PROVE Before(list[j], list[i]) <=> j < i
    <3>1. row[list[j]].sort = j - 1 /\ row[list[i]].sort = i - 1
      BY <1>5
    <3>2. list[i] \in Nat
      BY <1>5
    <3> QED
      BY <3>1, <3>2, <1>5 DEF Before
  <2>2. {d \in S : Before(d, list[i])} = {list[j] : j \in 1..(i - 1)}
    <3>1. ASSUME NEW d \in S, Before(d, list[i]) PROVE d \in {list[j] : j \in 1..(i - 1)}
      <4>1. PICK j \in 1..n : d = list[j]
        BY <1>2, <1>5
      <4>2. j \in 1..(i - 1)
        BY <1>5, <2>1, <3>1, <4>1
      <4> QED
        BY <4>1, <4>2
    <3>2. ASSUME NEW j \in 1..(i - 1) PROVE list[j] \in S /\ Before(list[j], list[i])
      <4>1. j \in 1..n /\ j < i
        BY <1>5
      <4> QED
        BY <1>2, <1>5, <2>1, <4>1
    <3> QED
      BY <3>1, <3>2
  <2>3. i - 1 \in 0..Len(list)
    BY <1>5
  <2> QED
    BY <1>2, <1>5, <2>2, <2>3, FirstOnes
<1> HIDE DEF S, n, rank, read
<1>8. ASSUME NEW i \in 1..n PROVE read[i] = list[i]
  <2>1. list[i] \in S /\ rank(list[i]) = i - 1
    BY <1>7
  <2>2. read[i] \in S /\ rank(read[i]) = i - 1
    BY <1>4, <2>1
  <2> QED
    BY <1>6, <2>1, <2>2
<1>9. read = [i \in 1..n |-> list[i]]
  BY <1>4, <1>8
<1>10. list = [i \in 1..n |-> list[i]]
  BY <1>5
<1> QED
  BY <1>9, <1>10 DEF read

(* The number of the next card of a column is a number.                       *)
LEMMA NextIsNumber ==
  ASSUME RowsFit, NEW a
  PROVE  NextCardSort(a) \in Nat
<1> DEFINE S == InColumn(a)
           n == Cardinality(S)
<1>1. CASE S = {}
  BY <1>1 DEF NextCardSort
<1>2. CASE S # {}
  <2>1. /\ IsFiniteSet(S) /\ S \subseteq Nat /\ InLine(S, Earlier) /\ S \subseteq Live
    BY ColumnsAreFinite
  <2>2. Ranked(S, Earlier)
    BY <2>1, Ranks
  <2>3. n \in Nat /\ n # 0
    BY <1>2, <2>1, FS_CardinalityType, FS_EmptySet
  <2>4. n - 1 \in 0..(n - 1)
    BY <2>3
  <2>5. PICK c \in S : Cardinality(Beneath(S, Earlier, c)) = n - 1
    BY <2>2, <2>4 DEF Ranked
  <2>6. Beneath(S, Earlier, c) = S \ {c}
    <3>1. IsFiniteSet(S \ {c}) /\ Cardinality(S \ {c}) = n - 1
      BY <2>1, FS_RemoveElement
    <3>2. Beneath(S, Earlier, c) \in SUBSET (S \ {c})
      BY <2>1 DEF Beneath, InLine
    <3> QED
      BY <2>5, <3>1, <3>2, FS_Subset
  <2>7. \A d \in S : row[d].sort \in Nat
    BY <2>1 DEF RowsFit, Row
  <2>8. \A d \in S : row[d].sort <= row[c].sort
    <3> TAKE d \in S
    <3>1. CASE d = c
      BY <2>7, <3>1
    <3>2. CASE d # c
      <4>1. <<d, c>> \in Earlier
        BY <2>6, <3>2 DEF Beneath
      <4>2. Before(d, c)
        BY <4>1 DEF Earlier
      <4> QED
        BY <2>7, <4>2 DEF Before
    <3> QED
      BY <3>1, <3>2
  <2>9. \E s \in {row[d].sort : d \in S} : \A d \in S : row[d].sort <= s
    BY <2>8
  <2>10. PICK top : top = CHOOSE s \in {row[d].sort : d \in S} : \A d \in S : row[d].sort <= s
    OBVIOUS
  <2>11. top \in {row[d].sort : d \in S}
    BY <2>9, <2>10
  <2>12. NextCardSort(a) = 1 + top
    BY <1>2, <2>10 DEF NextCardSort
  <2>13. top \in Nat
    BY <2>7, <2>11
  <2> QED
    BY <2>12, <2>13
<1> QED
  BY <1>1, <1>2

(* The cards of a list the board shows, from the top.                         *)
Higher(list) == {pair \in Nat \X Nat : Position(list, pair[1]) < Position(list, pair[2])}

LEMMA ListPlaces ==
  ASSUME NEW list \in Seq(Nat), EachOnce(list), NEW c \in ToSet(list)
  PROVE  Position(list, c) \in 1..Len(list) /\ list[Position(list, c)] = c
<1>1. PICK i \in 1..Len(list) : list[i] = c
  BY ListHas
<1> QED
  BY <1>1, PlaceInList

LEMMA ShownIsFinite ==
  ASSUME NEW list \in Seq(Nat), EachOnce(list)
  PROVE  /\ IsFiniteSet(Shown(ToSet(list))) /\ Cardinality(Shown(ToSet(list))) \in Nat
         /\ InLine(Shown(ToSet(list)), Higher(list))
         /\ \A d \in Shown(ToSet(list)) :
              ShownAbove(list, d) = Beneath(Shown(ToSet(list)), Higher(list), d)
<1> DEFINE S == Shown(ToSet(list))
<1>1. PICK all : all = {list[j] : j \in 1..Len(list)}
  OBVIOUS
<1>2. Len(list) \in 0..Len(list)
  OBVIOUS
<1>3. IsFiniteSet(all)
  BY <1>1, <1>2, FirstOnes
<1>4. ToSet(list) = all
  BY <1>1, ListIsSet
<1>5. S \in SUBSET ToSet(list) /\ S \subseteq Nat
  BY ListIsSet DEF Shown
<1>6. IsFiniteSet(S) /\ Cardinality(S) \in Nat
  BY <1>3, <1>4, <1>5, FS_Subset, FS_CardinalityType
<1>7. \A d \in S : Position(list, d) \in Nat /\ list[Position(list, d)] = d
  BY <1>5, ListPlaces
<1>8. \A c, d \in S : <<c, d>> \in Higher(list) <=> Position(list, c) < Position(list, d)
  BY <1>5 DEF Higher
<1>9. InLine(S, Higher(list))
  <2>1. \A c \in S : ~(Position(list, c) < Position(list, c))
    BY <1>7
  <2>2. \A c, d, e \in S : Position(list, c) < Position(list, d) /\ Position(list, d) < Position(list, e)
                             => Position(list, c) < Position(list, e)
    BY <1>7
  <2>3. \A c, d \in S : c = d \/ Position(list, c) < Position(list, d) \/ Position(list, d) < Position(list, c)
    BY <1>7
  <2> QED
    BY <1>8, <2>1, <2>2, <2>3 DEF InLine
<1>10. \A d \in S : ShownAbove(list, d) = Beneath(S, Higher(list), d)
  BY <1>8 DEF ShownAbove, Beneath, Shown
<1> QED
  BY <1>6, <1>9, <1>10

LEMMA ShownAt ==
  ASSUME NEW list \in Seq(Nat), EachOnce(list), NEW i \in Nat, i < Cardinality(Shown(ToSet(list)))
  PROVE  \E d \in Shown(ToSet(list)) : Cardinality(ShownAbove(list, d)) = i
<1> DEFINE S == Shown(ToSet(list))
<1>1. /\ IsFiniteSet(S) /\ Cardinality(S) \in Nat /\ InLine(S, Higher(list))
      /\ \A d \in S : ShownAbove(list, d) = Beneath(S, Higher(list), d)
  BY ShownIsFinite
<1>2. Ranked(S, Higher(list))
  BY <1>1, Ranks
<1>3. i \in 0..(Cardinality(S) - 1)
  BY <1>1
<1> QED
  BY <1>1, <1>2, <1>3 DEF Ranked

(* A card is placed in a column: it is in once, the others keep their places. *)
CardIsIn(O, column, c) ==
  /\ O \in Seq(Nat) /\ EachOnce(O) /\ ToSet(O) = ToSet(column) \cup {c}
  /\ Without(O, c) = Without(column, c)

(* And it stands where the board counts to.                                   *)
StandsAt(O, c, index) ==
  /\ ShownIndex(O, c) \in Nat
  /\ ~row[c].archived =>
       ShownIndex(O, c) = IF index >= Cardinality(Shown(ToSet(O))) THEN Cardinality(Shown(ToSet(O))) - 1
                          ELSE index

LEMMA CardPlaced ==
  ASSUME NEW column \in Seq(Nat), EachOnce(column), NEW c \in Nat, NEW index \in Nat
  PROVE  /\ CardIsIn(PlaceCard(column, c, index), column, c)
         /\ StandsAt(PlaceCard(column, c, index), c, index)
<1> DEFINE rest == Without(column, c)
           shown == Shown(ToSet(rest))
           next == CHOOSE d \in shown : Cardinality(ShownAbove(rest, d)) = index
           O == PlaceCard(column, c, index)
<1>1. rest \in Seq(Nat) /\ EachOnce(rest) /\ ToSet(rest) = ToSet(column) \ {c}
  BY TakenOut
<1>2. O = IF index >= Cardinality(shown) THEN Append(rest, c) ELSE InsertAt(rest, Position(rest, next), c)
  BY DEF PlaceCard
<1>3. IsFiniteSet(shown) /\ Cardinality(shown) \in Nat
  BY <1>1, ShownIsFinite
<1> HIDE DEF rest, next, O
<1>4. c \notin ToSet(rest) /\ ToSet(rest) \cup {c} = ToSet(column) \cup {c} /\ Len(rest) \in Nat
  BY <1>1
<1>5. ASSUME NEW k, PutIn(O, rest, k, c)
      PROVE  CardIsIn(O, column, c) /\ ShownIndex(O, c) = Cardinality(Shown({d \in ToSet(rest) : Position(rest, d) < k}))
  <2>1. /\ O \in Seq(Nat) /\ EachOnce(O) /\ ToSet(O) = ToSet(rest) \cup {c} /\ Without(O, c) = rest
        /\ Position(O, c) = k
        /\ {d \in ToSet(O) : Position(O, d) < k} = {d \in ToSet(rest) : Position(rest, d) < k}
    BY <1>5 DEF PutIn
  <2>2. CardIsIn(O, column, c)
    BY <1>4, <2>1 DEF CardIsIn, rest
  <2>3. ShownIndex(O, c) = Cardinality(Shown({d \in ToSet(O) : Position(O, d) < k}))
    BY <2>1 DEF ShownIndex, ShownAbove
  <2> QED
    BY <2>1, <2>2, <2>3
<1>6. ASSUME ToSet(O) = ToSet(rest) \cup {c}, ~row[c].archived
      PROVE  Cardinality(Shown(ToSet(O))) = Cardinality(shown) + 1
  <2>1. Shown(ToSet(O)) = shown \cup {c} /\ c \notin shown
    BY <1>4, <1>6 DEF Shown
  <2> QED
    BY <1>3, <2>1, FS_AddElement
<1>7. CASE index >= Cardinality(shown)
  <2>1. PutIn(O, rest, Len(rest) + 1, c)
    BY <1>1, <1>2, <1>4, <1>7, PutLast
  <2>2. {d \in ToSet(rest) : Position(rest, d) < Len(rest) + 1} = ToSet(rest)
    BY <1>1, <1>4, ListPlaces
  <2>3. CardIsIn(O, column, c) /\ ShownIndex(O, c) = Cardinality(shown)
    <3>1. /\ CardIsIn(O, column, c)
          /\ ShownIndex(O, c) = Cardinality(Shown({d \in ToSet(rest) : Position(rest, d) < Len(rest) + 1}))
      BY <1>5, <2>1
    <3> QED
      BY <2>2, <3>1
  <2>4. ToSet(O) = ToSet(rest) \cup {c}
    BY <2>1 DEF PutIn
  <2>5. ShownIndex(O, c) \in Nat
    BY <1>3, <2>3
  <2>6. ~row[c].archived => Cardinality(Shown(ToSet(O))) = Cardinality(shown) + 1
    BY <1>6, <2>4
  <2>7. ASSUME ~row[c].archived
        PROVE  ShownIndex(O, c) = IF index >= Cardinality(Shown(ToSet(O))) THEN Cardinality(Shown(ToSet(O))) - 1
                                  ELSE index
    <3> HIDE DEF shown
    <3> QED
      BY <1>3, <1>7, <2>3, <2>6, <2>7
  <2> QED
    BY <2>3, <2>5, <2>7 DEF StandsAt, O
<1>8. CASE ~(index >= Cardinality(shown))
  <2>1. index < Cardinality(shown)
    BY <1>3, <1>8
  <2>2. \E d \in shown : Cardinality(ShownAbove(rest, d)) = index
    BY <1>1, <2>1, ShownAt
  <2>3. next \in shown /\ Cardinality(ShownAbove(rest, next)) = index
    BY <2>2 DEF next
  <2>4. next \in ToSet(rest)
    BY <2>3 DEF Shown
  <2>5. Position(rest, next) \in 1..(Len(rest) + 1)
    BY <1>1, <1>4, <2>4, ListPlaces
  <2>6. PutIn(O, rest, Position(rest, next), c)
    BY <1>1, <1>2, <1>4, <1>8, <2>5, PutInside
  <2>7. CardIsIn(O, column, c) /\ ShownIndex(O, c) = index
    BY <1>5, <2>3, <2>6 DEF ShownAbove
  <2>8. ToSet(O) = ToSet(rest) \cup {c}
    BY <2>6 DEF PutIn
  <2>9. ~row[c].archived => Cardinality(Shown(ToSet(O))) = Cardinality(shown) + 1
    BY <1>6, <2>8
  <2>10. ASSUME ~row[c].archived
        PROVE  ShownIndex(O, c) = IF index >= Cardinality(Shown(ToSet(O))) THEN Cardinality(Shown(ToSet(O))) - 1
                                  ELSE index
    <3> HIDE DEF shown
    <3> QED
      BY <1>3, <2>1, <2>7, <2>9, <2>10
  <2> QED
    BY <2>7, <2>10 DEF StandsAt, O
<1> QED
  BY <1>7, <1>8

(* A copy directly under its original, when the original is there.            *)
StandsUnder(O, c, after) ==
  \A i \in 1..Len(O) : O[i] = after => i + 1 \in 1..Len(O) /\ O[i + 1] = c

LEMMA CopyPlaced ==
  ASSUME NEW column \in Seq(Nat), EachOnce(column), NEW c \in Nat, NEW after \in Nat, c # after
  PROVE  /\ CardIsIn(PlaceCardAfter(column, c, after), column, c)
         /\ StandsUnder(PlaceCardAfter(column, c, after), c, after)
<1> DEFINE rest == Without(column, c)
           O == PlaceCardAfter(column, c, after)
<1>1. rest \in Seq(Nat) /\ EachOnce(rest) /\ ToSet(rest) = ToSet(column) \ {c}
  BY TakenOut
<1>2. O = IF Contains(rest, after) THEN InsertAt(rest, Position(rest, after) + 1, c) ELSE Append(rest, c)
  BY DEF PlaceCardAfter
<1> HIDE DEF rest, O
<1>3. Contains(rest, after) <=> after \in ToSet(rest)
  BY <1>1, ListIsSet DEF Contains
<1>4. c \notin ToSet(rest) /\ ToSet(rest) \cup {c} = ToSet(column) \cup {c} /\ Len(rest) \in Nat
  BY <1>1
<1>5. ASSUME NEW k, PutIn(O, rest, k, c)
      PROVE  CardIsIn(O, column, c)
  BY <1>4, <1>5 DEF PutIn, CardIsIn, rest
<1>6. CASE after \in ToSet(rest)
  <2> DEFINE k == Position(rest, after) + 1
  <2>1. Position(rest, after) \in 1..Len(rest) /\ rest[Position(rest, after)] = after
    BY <1>1, <1>6, ListPlaces
  <2>2. k \in 1..(Len(rest) + 1) /\ k - 1 \in 1..Len(rest) /\ rest[k - 1] = after
    BY <1>4, <2>1
  <2>3. O = InsertAt(rest, k, c)
    BY <1>2, <1>3, <1>6
  <2> HIDE DEF k
  <2>4. PutIn(O, rest, k, c)
    BY <1>1, <1>4, <2>2, <2>3, PutInside
  <2>5. /\ O \in Seq(Nat) /\ EachOnce(O) /\ Len(O) = Len(rest) + 1
        /\ \A i \in 1..Len(O) : O[i] = IF i < k THEN rest[i] ELSE IF i = k THEN c ELSE rest[i - 1]
    BY <2>4 DEF PutIn
  <2>6. k \in 1..Len(O) /\ k - 1 \in 1..Len(O) /\ O[k] = c /\ O[k - 1] = after
    BY <1>4, <2>2, <2>5
  <2>7. StandsUnder(O, c, after)
    <3> SUFFICES ASSUME NEW i \in 1..Len(O), O[i] = after PROVE i + 1 \in 1..Len(O) /\ O[i + 1] = c
      BY DEF StandsUnder
    <3>1. O[i] = O[k - 1]
      BY <2>6
    <3>2. i = k - 1
      BY <2>5, <2>6, <3>1, OnlyOnce
    <3>3. i + 1 = k
      BY <2>2, <3>2
    <3> QED
      BY <2>6, <3>3
  <2> QED
    BY <1>5, <2>4, <2>7 DEF O
<1>7. CASE after \notin ToSet(rest)
  <2>1. PutIn(O, rest, Len(rest) + 1, c)
    BY <1>1, <1>2, <1>3, <1>4, <1>7, PutLast
  <2>2. O \in Seq(Nat) /\ after \notin ToSet(O)
    BY <1>7, <2>1 DEF PutIn
  <2>3. StandsUnder(O, c, after)
    BY <2>2, ListIsSet DEF StandsUnder
  <2> QED
    BY <1>5, <2>1, <2>3 DEF O
<1> QED
  BY <1>6, <1>7

-----------------------------------------------------------------------------
(* What a handler has in hand, and what it has planned: the order it is going *)
(* to write, of which it has written the numbers up to its own.               *)

Handler ==
  [step : {"idle", "insert", "read", "area", "write", "copy", "place"},
   card : Nat, copy : Nat, to : Areas \cup {"-"}, from : Areas \cup {"-"}, index : Nat,
   order : Seq(Nat), number : Nat, alone : BOOLEAN, was : Seq(Nat), told : Nat]

HandlerFits(h, n) ==
  /\ h.card \in 0..n /\ h.copy \in 0..n
  /\ h.step # "idle" => h.to \in Areas
  /\ h.step \in {"read", "area"} => h.card # 0 /\ h.copy = 0 /\ h.number = 0 /\ h.from \in Areas
  /\ h.step = "copy" => h.card # 0 /\ h.copy = 0 /\ h.from = h.to
  /\ h.step = "place" => h.copy # 0 /\ h.number = 0 /\ h.from = h.to
  /\ h.step = "write" => h.from \in Areas
  /\ h.copy # 0 => h.card # 0 /\ h.card # h.copy

Subject(h) == IF h.copy # 0 THEN h.copy ELSE h.card

TellsPlace(O, h) ==
  /\ h.told = ShownIndex(O, h.card)
  /\ h.card \in Live => StandsAt(O, h.card, h.index)

(* The order is the column with the card it is about in it: where it was      *)
(* dropped, or under its original.                                            *)
Planned(O, h) ==
  /\ EachOnce(O)
  /\ ToSet(O) = InColumn(h.to) \cup ({Subject(h)} \ {0})
  /\ h.was = Without(O, Subject(h))
  /\ h.copy = 0 /\ h.card # 0 => TellsPlace(O, h)
  /\ h.copy # 0 => StandsUnder(O, h.copy, h.card)

Written(O, h) ==
  /\ h.number + Len(h.order) = Len(O)
  /\ \A i \in 1..Len(h.order) : h.order[i] = O[h.number + i]
  /\ \A i \in 1..h.number : O[i] \in Live => row[O[i]].sort = i - 1

HasCome(h) == h.step = "write" /\ h.copy = 0 /\ h.card \in Live => row[h.card].area = h.to

PlanHolds(h) ==
  h.step \in {"area", "write"} /\ h.alone =>
    HasCome(h) /\ \E O \in Seq(Nat) : Planned(O, h) /\ Written(O, h)

PlacingInv ==
  /\ RowsFit
  /\ placing \in [PlaceCalls -> Handler]
  /\ \A p \in PlaceCalls : HandlerFits(placing[p], lastId)
  /\ \A p \in PlaceCalls, h \in Handler : placing[p] = h => PlanHolds(h)

LEMMA NobodyPlaces ==
  ASSUME RowsFit
  PROVE  NoPlacing \in Handler /\ HandlerFits(NoPlacing, lastId) /\ NoPlacing.step = "idle"
<1>1. <<>> \in Seq(Nat)
  OBVIOUS
<1>2. NoPlacing \in Handler
  BY <1>1 DEF NoPlacing, Handler
<1>3. RowsFit => lastId \in Nat
  BY DEF RowsFit
<1> QED
  BY <1>2, <1>3 DEF NoPlacing, HandlerFits

(* A handler that is no longer alone has no plan to keep.                     *)
LEMMA Disturbed ==
  ASSUME PlacingInv, NEW q \in PlaceCalls
  PROVE  /\ Disturb(q) \in Handler /\ HandlerFits(Disturb(q), lastId)
         /\ Disturb(q).step = "idle" \/ ~Disturb(q).alone
<1>1. CASE PlacingAt(q, "idle")
  BY <1>1, NobodyPlaces DEF Disturb, PlacingInv
<1>2. CASE ~PlacingAt(q, "idle")
  <2>1. placing[q] \in Handler /\ HandlerFits(placing[q], lastId)
    BY DEF PlacingInv
  <2>2. Disturb(q) = [placing[q] EXCEPT !.alone = FALSE, !.was = <<>>, !.told = 0]
    BY <1>2 DEF Disturb
  <2>3. PICK d : d = Disturb(q)
    OBVIOUS
  <2>4. <<>> \in Seq(Nat)
    OBVIOUS
  <2>5. d \in Handler /\ ~d.alone
    <3>1. [placing[q] EXCEPT !.alone = FALSE] \in Handler
      BY <2>1 DEF Handler
    <3>2. [[placing[q] EXCEPT !.alone = FALSE] EXCEPT !.was = <<>>, !.told = 0] \in Handler
      BY <2>4, <3>1 DEF Handler
    <3>3. d = [[placing[q] EXCEPT !.alone = FALSE] EXCEPT !.was = <<>>, !.told = 0]
      BY <2>1, <2>2, <2>3 DEF Handler
    <3>4. d.alone = FALSE
      BY <2>1, <2>2, <2>3 DEF Handler
    <3> QED
      BY <3>2, <3>3, <3>4
  <2>6. /\ d.step = placing[q].step /\ d.card = placing[q].card /\ d.copy = placing[q].copy
        /\ d.to = placing[q].to /\ d.from = placing[q].from /\ d.number = placing[q].number
    BY <2>1, <2>2, <2>3 DEF Handler
  <2>7. HandlerFits(d, lastId)
    BY <2>1, <2>6 DEF HandlerFits
  <2> QED
    BY <2>3, <2>5, <2>7
<1> QED
  BY <1>1, <1>2

LEMMA StillFits ==
  ASSUME RowsFit, NEW h, HandlerFits(h, lastId), lastId' \in Nat, lastId <= lastId'
  PROVE  HandlerFits(h, lastId')
BY DEF HandlerFits, RowsFit

LEMMA NothingPlanned ==
  ASSUME NEW h, h.step \notin {"area", "write"} \/ ~h.alone
  PROVE  PlanHolds(h)'
BY DEF PlanHolds

(* A step that writes the table.                                              *)
LEMMA WriteKeeps ==
  ASSUME PlacingInv, NEW p \in PlaceCalls, NEW w \in Handler, Write(p, w), RowsFit', lastId <= lastId',
         HandlerFits(w, lastId'), PlanHolds(w)'
  PROVE  PlacingInv'
<1>1. ASSUME NEW q \in PlaceCalls, q # p
      PROVE  /\ placing'[q] \in Handler /\ HandlerFits(placing'[q], lastId')
             /\ placing'[q].step = "idle" \/ ~placing'[q].alone
  <2>1. placing'[q] = Disturb(q)
    BY <1>1 DEF Write
  <2>2. lastId' \in Nat /\ RowsFit
    BY DEF PlacingInv, RowsFit
  <2> QED
    BY <2>1, <2>2, Disturbed, StillFits
<1>2. placing'[p] = w
  BY DEF Write
<1>3. placing' \in [PlaceCalls -> Handler]
  <2>1. placing' = [q \in PlaceCalls |-> placing'[q]]
    BY DEF Write
  <2> QED
    BY <1>1, <1>2, <2>1
<1>4. \A q \in PlaceCalls : HandlerFits(placing'[q], lastId')
  BY <1>1, <1>2
<1>5. ASSUME NEW q \in PlaceCalls, NEW h \in Handler, placing'[q] = h PROVE PlanHolds(h)'
  <2>1. CASE q = p
    BY <1>2, <1>5, <2>1
  <2>2. CASE q # p
    BY <1>1, <1>5, <2>2, NothingPlanned
  <2> QED
    BY <2>1, <2>2
<1> QED
  BY <1>3, <1>4, <1>5 DEF PlacingInv

(* A step that does not.                                                      *)
LEMMA SamePlan ==
  ASSUME NEW h, row' = row, PlanHolds(h)
  PROVE  PlanHolds(h)'
BY DEF PlanHolds, HasCome, Planned, Written, TellsPlace, StandsAt, ShownIndex, ShownAbove, Shown, InColumn, Live

LEMMA SameRows ==
  ASSUME RowsFit, row' = row, lastId' = lastId
  PROVE  RowsFit'
BY DEF RowsFit, Live

LEMMA ReadKeeps ==
  ASSUME PlacingInv, NEW p \in PlaceCalls, NEW w \in Handler, Read(p, w), UNCHANGED <<row, lastId>>,
         HandlerFits(w, lastId), PlanHolds(w)
  PROVE  PlacingInv'
<1>0. RowsFit' /\ lastId' = lastId /\ row' = row
  BY SameRows DEF PlacingInv
<1>1. placing' = [placing EXCEPT ![p] = w] /\ placing \in [PlaceCalls -> Handler]
  BY DEF Read, PlacingInv
<1>2. placing' \in [PlaceCalls -> Handler]
  BY <1>1
<1>3. \A q \in PlaceCalls : HandlerFits(placing'[q], lastId')
  BY <1>0, <1>1 DEF PlacingInv
<1>4. ASSUME NEW q \in PlaceCalls, NEW h \in Handler, placing'[q] = h PROVE PlanHolds(h)'
  <2>1. PlanHolds(h)
    BY <1>1, <1>4 DEF PlacingInv
  <2> QED
    BY <1>0, <2>1, SamePlan
<1> QED
  BY <1>0, <1>2, <1>3, <1>4 DEF PlacingInv

LEMMA RequestsAside ==
  ASSUME PlacingInv, UNCHANGED <<row, lastId, placing>>
  PROVE  PlacingInv'
<1>0. RowsFit' /\ lastId' = lastId /\ row' = row /\ placing' = placing
  BY SameRows DEF PlacingInv
<1>4. ASSUME NEW q \in PlaceCalls, NEW h \in Handler, placing'[q] = h PROVE PlanHolds(h)'
  <2>1. PlanHolds(h)
    BY <1>0, <1>4 DEF PlacingInv
  <2> QED
    BY <1>0, <2>1, SamePlan
<1> QED
  BY <1>0, <1>4 DEF PlacingInv

-----------------------------------------------------------------------------
(* Each call keeps it.                                                        *)

LEMMA AskNextKeeps ==
  ASSUME PlacingInv, NEW p \in PlaceCalls, NEW a \in Areas, AskNextSort(p, a)
  PROVE  PlacingInv'
<1> DEFINE w == [NoPlacing EXCEPT !.step = "insert", !.to = a, !.number = NextCardSort(a)]
<1>1. NextCardSort(a) \in Nat /\ RowsFit
  BY NextIsNumber DEF PlacingInv
<1>2. <<>> \in Seq(Nat)
  OBVIOUS
<1>3. w \in Handler /\ w.step = "insert" /\ w.to = a /\ w.card = 0 /\ w.copy = 0
  BY <1>1, <1>2 DEF NoPlacing, Handler
<1>4. Read(p, w) /\ UNCHANGED <<row, lastId>>
  BY DEF AskNextSort
<1> HIDE DEF w
<1>5. HandlerFits(w, lastId) /\ PlanHolds(w)
  BY <1>1, <1>3 DEF HandlerFits, PlanHolds, RowsFit
<1> QED
  BY <1>3, <1>4, <1>5, ReadKeeps

LEMMA StartPutKeeps ==
  ASSUME PlacingInv, NEW p \in PlaceCalls, NEW c \in Live, NEW to \in Areas, NEW i \in Indexes,
         StartPut(p, c, to, i)
  PROVE  PlacingInv'
<1> DEFINE w == [NoPlacing EXCEPT !.step = "read", !.card = c, !.from = row[c].area, !.to = to, !.index = i]
<1>1. row[c].area \in Areas /\ c \in 1..lastId /\ c \in Nat /\ i \in Nat /\ RowsFit
  BY IndexesAssumption DEF PlacingInv, RowsFit, Row
<1>2. <<>> \in Seq(Nat)
  OBVIOUS
<1>3. /\ w \in Handler /\ w.step = "read" /\ w.to = to /\ w.card = c /\ w.copy = 0 /\ w.number = 0
      /\ w.from = row[c].area
  BY <1>1, <1>2 DEF NoPlacing, Handler
<1>4. Read(p, w) /\ UNCHANGED <<row, lastId>>
  BY DEF StartPut
<1> HIDE DEF w
<1>5. HandlerFits(w, lastId) /\ PlanHolds(w)
  BY <1>1, <1>3 DEF HandlerFits, PlanHolds, RowsFit
<1> QED
  BY <1>3, <1>4, <1>5, ReadKeeps

LEMMA StartDuplicateKeeps ==
  ASSUME PlacingInv, NEW p \in PlaceCalls, NEW c \in Live, StartDuplicate(p, c)
  PROVE  PlacingInv'
<1> DEFINE w == [NoPlacing EXCEPT !.step = "copy", !.card = c, !.to = row[c].area,
                          !.from = row[c].area, !.number = row[c].sort]
<1>1. /\ row[c].area \in Areas /\ row[c].sort \in Nat /\ c \in 1..lastId /\ c \in Nat /\ RowsFit
  BY DEF PlacingInv, RowsFit, Row
<1>2. <<>> \in Seq(Nat)
  OBVIOUS
<1>3. /\ w \in Handler /\ w.step = "copy" /\ w.card = c /\ w.copy = 0 /\ w.from = w.to /\ w.to = row[c].area
  BY <1>1, <1>2 DEF NoPlacing, Handler
<1>4. Read(p, w) /\ UNCHANGED <<row, lastId>>
  BY DEF StartDuplicate
<1> HIDE DEF w
<1>5. HandlerFits(w, lastId) /\ PlanHolds(w)
  BY <1>1, <1>3 DEF HandlerFits, PlanHolds, RowsFit
<1> QED
  BY <1>3, <1>4, <1>5, ReadKeeps

LEMMA AnswerKeeps ==
  ASSUME PlacingInv, NEW p \in PlaceCalls, Answer(p) \/ PlacingDies(p)
  PROVE  PlacingInv'
<1>1. Read(p, NoPlacing) /\ UNCHANGED <<row, lastId>>
  BY DEF Answer, PlacingDies
<1>2. NoPlacing \in Handler /\ HandlerFits(NoPlacing, lastId) /\ NoPlacing.step = "idle"
  BY NobodyPlaces DEF PlacingInv
<1>3. PlanHolds(NoPlacing)
  BY <1>2 DEF PlanHolds
<1> QED
  BY <1>1, <1>2, <1>3, ReadKeeps

(* A row more.                                                                *)
LEMMA RowsGrow ==
  ASSUME RowsFit, NEW a \in Areas, NEW s \in Nat, InsertRow(a, s), lastId' = lastId + 1
  PROVE  RowsFit' /\ lastId <= lastId'
<1>1. NewRow(a, s) \in Row
  BY DEF Row, NewRow
<1>2. row' = [c \in Live \cup {lastId + 1} |-> IF c \in Live THEN row[c] ELSE NewRow(a, s)]
  BY DEF InsertRow
<1>3. row' \in [Live \cup {lastId + 1} -> Row] /\ DOMAIN row' = Live \cup {lastId + 1}
  BY <1>1, <1>2 DEF RowsFit
<1> QED
  BY <1>3 DEF RowsFit, Live

LEMMA InsertNewKeeps ==
  ASSUME PlacingInv, NEW p \in PlaceCalls, InsertNew(p)
  PROVE  PlacingInv'
<1>1. placing[p] \in Handler /\ HandlerFits(placing[p], lastId) /\ placing[p].step = "insert" /\ RowsFit
  BY DEF PlacingInv, InsertNew, PlacingAt
<1>2. placing[p].to \in Areas /\ placing[p].number \in Nat
  BY <1>1 DEF Handler, HandlerFits
<1>3. InsertRow(placing[p].to, placing[p].number) /\ lastId' = lastId + 1 /\ Write(p, NoPlacing)
  BY DEF InsertNew
<1>4. RowsFit' /\ lastId <= lastId'
  BY <1>1, <1>2, <1>3, RowsGrow
<1>5. NoPlacing \in Handler /\ HandlerFits(NoPlacing, lastId') /\ NoPlacing.step = "idle"
  BY <1>1, <1>4, NobodyPlaces, StillFits DEF RowsFit
<1>6. PlanHolds(NoPlacing)'
  BY <1>5, NothingPlanned
<1> QED
  BY <1>3, <1>4, <1>5, <1>6, WriteKeeps

LEMMA InsertCopyKeeps ==
  ASSUME PlacingInv, NEW p \in PlaceCalls, InsertCopy(p)
  PROVE  PlacingInv'
<1>1. PICK h : h = placing[p]
  OBVIOUS
<1>2. h \in Handler /\ HandlerFits(h, lastId) /\ h.step = "copy" /\ RowsFit
  BY <1>1 DEF PlacingInv, InsertCopy, PlacingAt
<1>3. h.to \in Areas /\ h.number \in Nat /\ h.from = h.to /\ h.card \in 0..lastId /\ h.card # 0
  BY <1>2 DEF Handler, HandlerFits
<1>4. lastId + 1 \in Nat /\ lastId \in Nat
  BY <1>2 DEF RowsFit
<1>5. PICK w : w = [h EXCEPT !.step = "place", !.copy = lastId + 1, !.number = 0]
  OBVIOUS
<1>6. InsertRow(h.to, h.number) /\ lastId' = lastId + 1 /\ Write(p, w)
  BY <1>1, <1>5 DEF InsertCopy
<1>7. /\ w \in Handler /\ w.step = "place" /\ w.copy = lastId + 1 /\ w.number = 0 /\ w.from = h.from
      /\ w.to = h.to /\ w.card = h.card
  BY <1>2, <1>4, <1>5 DEF Handler
<1>8. RowsFit' /\ lastId <= lastId'
  BY <1>2, <1>3, <1>6, RowsGrow
<1>9. HandlerFits(w, lastId')
  BY <1>3, <1>4, <1>6, <1>7 DEF HandlerFits
<1>10. PlanHolds(w)'
  BY <1>7, NothingPlanned
<1> QED
  BY <1>6, <1>7, <1>8, <1>9, <1>10, WriteKeeps

(* The archive and deletions leave nobody alone.                              *)
LEMMA AllDisturbed ==
  ASSUME PlacingInv, RowsFit', lastId' = lastId, placing' = [q \in PlaceCalls |-> Disturb(q)]
  PROVE  PlacingInv'
<1>1. \A q \in PlaceCalls : /\ Disturb(q) \in Handler /\ HandlerFits(Disturb(q), lastId)
                            /\ Disturb(q).step = "idle" \/ ~Disturb(q).alone
  BY Disturbed
<1>2. placing' \in [PlaceCalls -> Handler] /\ \A q \in PlaceCalls : HandlerFits(placing'[q], lastId')
  BY <1>1
<1>3. ASSUME NEW q \in PlaceCalls, NEW h \in Handler, placing'[q] = h PROVE PlanHolds(h)'
  <2>1. h.step \notin {"area", "write"} \/ ~h.alone
    BY <1>1, <1>3
  <2> QED
    BY <2>1, NothingPlanned
<1> QED
  BY <1>2, <1>3 DEF PlacingInv

LEMMA ArchiveKeeps ==
  ASSUME PlacingInv, NEW c \in Live, NEW archived \in BOOLEAN, SetArchived(c, archived)
  PROVE  PlacingInv'
<1> DEFINE changed == [row[c] EXCEPT !.archived = archived]
<1>1. row' = [row EXCEPT ![c] = changed] /\ lastId' = lastId /\ placing' = [q \in PlaceCalls |-> Disturb(q)]
  BY DEF SetArchived
<1>2. RowsFit
  BY DEF PlacingInv
<1>3. changed \in Row
  BY <1>2 DEF RowsFit, Row
<1> HIDE DEF changed
<1>4. RowsFit'
  BY <1>1, <1>2, <1>3 DEF RowsFit, Live
<1> QED
  BY <1>1, <1>4, AllDisturbed

LEMMA DestroyKeeps ==
  ASSUME PlacingInv, NEW c \in Live, Destroy(c)
  PROVE  PlacingInv'
<1>1. row' = [d \in Live \ {c} |-> row[d]] /\ lastId' = lastId /\ placing' = [q \in PlaceCalls |-> Disturb(q)]
  BY DEF Destroy
<1>2. RowsFit
  BY DEF PlacingInv
<1>3. RowsFit'
  BY <1>1, <1>2 DEF RowsFit, Live
<1> QED
  BY <1>1, <1>3, AllDisturbed

-----------------------------------------------------------------------------
(* The plan, from its making to its last number.                              *)

LEMMA PlaceKeeps ==
  ASSUME PlacingInv, NEW p \in PlaceCalls, ReadAndPlace(p)
  PROVE  PlacingInv'
<1> DEFINE h == placing[p]
           column == ReadColumn(h.to)
           O == PlaceCard(column, h.card, h.index)
           was == Without(column, h.card)
           told == ShownIndex(O, h.card)
           w == [h EXCEPT !.step = "area", !.order = O, !.alone = TRUE, !.was = was, !.told = told]
<1>1. h \in Handler /\ HandlerFits(h, lastId) /\ h.step = "read" /\ RowsFit
  BY DEF PlacingInv, ReadAndPlace, PlacingAt
<1>2. /\ h.to \in Areas /\ h.from \in Areas /\ h.number = 0 /\ h.card \in 0..lastId /\ h.card # 0 /\ h.copy = 0
      /\ h.card \in Nat /\ h.index \in Nat
  BY <1>1 DEF Handler, HandlerFits, RowsFit
<1>3. Read(p, w) /\ UNCHANGED <<row, lastId>>
  BY DEF ReadAndPlace
<1>4. column \in Seq(Nat) /\ EachOnce(column) /\ ToSet(column) = InColumn(h.to)
  BY <1>1, ReadIs
<1> HIDE DEF column
<1>5. CardIsIn(O, column, h.card) /\ StandsAt(O, h.card, h.index)
  BY <1>2, <1>4, CardPlaced
<1>6. was \in Seq(Nat)
  BY <1>2, <1>4, TakenOut
<1>7. O \in Seq(Nat) /\ told \in Nat
  BY <1>5 DEF CardIsIn, StandsAt
<1> HIDE DEF h, O, was, told
<1>8. /\ w.step = "area" /\ w.order = O /\ w.was = was /\ w.told = told /\ w.number = h.number /\ w.from = h.from
      /\ w.to = h.to /\ w.card = h.card /\ w.copy = h.copy /\ w.index = h.index
  BY <1>1 DEF Handler
<1>9. w \in Handler
  <2>1. [h EXCEPT !.alone = TRUE] \in Handler
    BY <1>1 DEF Handler
  <2>2. [[h EXCEPT !.alone = TRUE] EXCEPT !.step = "area", !.order = O, !.was = was, !.told = told] \in Handler
    BY <1>6, <1>7, <2>1 DEF Handler
  <2>3. w = [[h EXCEPT !.alone = TRUE] EXCEPT !.step = "area", !.order = O, !.was = was, !.told = told]
    BY <1>1 DEF Handler
  <2> QED
    BY <2>2, <2>3
<1> HIDE DEF w
<1>10. HandlerFits(w, lastId)
  BY <1>1, <1>2, <1>8 DEF HandlerFits
<1>11. Planned(O, w)
  <2>1. EachOnce(O) /\ ToSet(O) = ToSet(column) \cup {h.card} /\ Without(O, h.card) = was
    BY <1>5 DEF CardIsIn, was
  <2>2. Subject(w) = h.card
    BY <1>2, <1>8 DEF Subject
  <2>3. TellsPlace(O, w)
    BY <1>5, <1>8 DEF TellsPlace, told
  <2> QED
    BY <1>2, <1>4, <1>8, <2>1, <2>2, <2>3 DEF Planned
<1>12. Written(O, w)
  BY <1>2, <1>7, <1>8 DEF Written
<1>13. PlanHolds(w)
  BY <1>7, <1>8, <1>11, <1>12 DEF PlanHolds, HasCome
<1> QED
  BY <1>3, <1>9, <1>10, <1>13, ReadKeeps

LEMMA PlaceCopyKeeps ==
  ASSUME PlacingInv, NEW p \in PlaceCalls, PlaceCopy(p)
  PROVE  PlacingInv'
<1> DEFINE h == placing[p]
           column == ReadColumn(h.to)
           O == PlaceCardAfter(column, h.copy, h.card)
           was == Without(column, h.copy)
           w == [h EXCEPT !.step = "write", !.alone = TRUE, !.order = O, !.was = was]
<1>1. h \in Handler /\ HandlerFits(h, lastId) /\ h.step = "place" /\ RowsFit
  BY DEF PlacingInv, PlaceCopy, PlacingAt
<1>2. /\ h.to \in Areas /\ h.from = h.to /\ h.number = 0 /\ h.card # 0 /\ h.copy # 0
      /\ h.card \in Nat /\ h.copy \in Nat /\ h.copy # h.card
  BY <1>1 DEF Handler, HandlerFits, RowsFit
<1>3. Read(p, w) /\ UNCHANGED <<row, lastId>>
  BY DEF PlaceCopy
<1>4. column \in Seq(Nat) /\ EachOnce(column) /\ ToSet(column) = InColumn(h.to)
  BY <1>1, ReadIs
<1> HIDE DEF column
<1>5. CardIsIn(O, column, h.copy) /\ StandsUnder(O, h.copy, h.card)
  BY <1>2, <1>4, CopyPlaced
<1>6. was \in Seq(Nat)
  BY <1>2, <1>4, TakenOut
<1>7. O \in Seq(Nat)
  BY <1>5 DEF CardIsIn
<1> HIDE DEF h, O, was
<1>8. /\ w.step = "write" /\ w.order = O /\ w.was = was /\ w.number = h.number /\ w.from = h.from
      /\ w.to = h.to /\ w.card = h.card /\ w.copy = h.copy
  BY <1>1 DEF Handler
<1>9. w \in Handler
  <2>1. [h EXCEPT !.alone = TRUE] \in Handler
    BY <1>1 DEF Handler
  <2>2. [[h EXCEPT !.alone = TRUE] EXCEPT !.step = "write", !.order = O, !.was = was] \in Handler
    BY <1>6, <1>7, <2>1 DEF Handler
  <2>3. w = [[h EXCEPT !.alone = TRUE] EXCEPT !.step = "write", !.order = O, !.was = was]
    BY <1>1 DEF Handler
  <2> QED
    BY <2>2, <2>3
<1> HIDE DEF w
<1>10. HandlerFits(w, lastId)
  BY <1>1, <1>2, <1>8 DEF HandlerFits
<1>11. Planned(O, w)
  <2>1. EachOnce(O) /\ ToSet(O) = ToSet(column) \cup {h.copy} /\ Without(O, h.copy) = was
    BY <1>5 DEF CardIsIn, was
  <2>2. Subject(w) = h.copy
    BY <1>2, <1>8 DEF Subject
  <2> QED
    BY <1>2, <1>4, <1>5, <1>8, <2>1, <2>2 DEF Planned
<1>12. Written(O, w)
  BY <1>2, <1>7, <1>8 DEF Written
<1>13. PlanHolds(w)
  BY <1>2, <1>7, <1>8, <1>11, <1>12 DEF PlanHolds, HasCome
<1> QED
  BY <1>3, <1>9, <1>10, <1>13, ReadKeeps

LEMMA RenumberKeeps ==
  ASSUME PlacingInv, NEW p \in PlaceCalls, RenumberSource(p)
  PROVE  PlacingInv'
<1> DEFINE h == placing[p]
           O == ReadColumn(h.from)
           w == [NoPlacing EXCEPT !.step = "write", !.from = h.from, !.to = h.from, !.order = O, !.was = O]
<1>1. h \in Handler /\ HandlerFits(h, lastId) /\ h.step = "write" /\ RowsFit
  BY DEF PlacingInv, RenumberSource, PlacingAt
<1>2. h.from \in Areas /\ lastId \in Nat
  BY <1>1 DEF HandlerFits, RowsFit
<1>3. Read(p, w) /\ UNCHANGED <<row, lastId>>
  BY DEF RenumberSource
<1>4. O \in Seq(Nat) /\ EachOnce(O) /\ ToSet(O) = InColumn(h.from)
  BY <1>1, ReadIs
<1> HIDE DEF h, O
<1>5. /\ w \in Handler /\ w.step = "write" /\ w.order = O /\ w.was = O /\ w.number = 0 /\ w.from = h.from
      /\ w.to = h.from /\ w.card = 0 /\ w.copy = 0
  BY <1>2, <1>4 DEF NoPlacing, Handler
<1> HIDE DEF w
<1>6. HandlerFits(w, lastId)
  BY <1>2, <1>5 DEF HandlerFits
<1>7. 0 \notin ToSet(O) /\ 0 \notin Live
  BY <1>1, <1>4 DEF InColumn, RowsFit
<1>8. Without(O, 0) = O
  BY <1>4, <1>7, ListIsSet DEF Without, Contains
<1>9. Planned(O, w)
  BY <1>4, <1>5, <1>8 DEF Planned, Subject
<1>10. Written(O, w)
  BY <1>4, <1>5 DEF Written
<1>11. PlanHolds(w)
  BY <1>4, <1>5, <1>7, <1>9, <1>10 DEF PlanHolds, HasCome
<1> QED
  BY <1>3, <1>5, <1>6, <1>11, ReadKeeps

(* A number or a column written to a card, if the card is still there.        *)
LEMMA RowsUpdated ==
  ASSUME RowsFit, NEW c, NEW changed, c \in Live => changed \in Row, Update(c, changed), lastId' = lastId
  PROVE  /\ RowsFit' /\ DOMAIN row' = Live
         /\ \A d \in Live : row'[d] = IF d = c THEN changed ELSE row[d]
<1>1. CASE c \in Live
  <2>1. row' = [row EXCEPT ![c] = changed]
    BY <1>1 DEF Update
  <2> QED
    BY <1>1, <2>1 DEF RowsFit, Live
<1>2. CASE c \notin Live
  <2>1. row' = row
    BY <1>2 DEF Update
  <2> QED
    BY <1>2, <2>1 DEF RowsFit, Live
<1> QED
  BY <1>1, <1>2

(* What the plan says of the board does not hang on columns and numbers.      *)
LEMMA StillTold ==
  ASSUME NEW O \in Seq(Nat), EachOnce(O), NEW c, NEW S, ToSet(O) \subseteq S \cup {c}, S \subseteq Live,
         \A d \in Live : row'[d].archived = row[d].archived
  PROVE  /\ ShownIndex(O, c)' = ShownIndex(O, c)
         /\ c \in Live => Shown(ToSet(O))' = Shown(ToSet(O)) /\ row'[c].archived = row[c].archived
<1>1. PICK above : above = {d \in ToSet(O) : Position(O, d) < Position(O, c)}
  OBVIOUS
<1>2. c \notin above
  <2>1. CASE c \in ToSet(O)
    <3>1. Position(O, c) \in 1..Len(O)
      BY <2>1, ListPlaces
    <3> QED
      BY <1>1, <3>1
  <2> QED
    BY <1>1, <2>1
<1>3. above \subseteq Live
  BY <1>1, <1>2
<1>4. {d \in above : ~row'[d].archived} = {d \in above : ~row[d].archived}
  BY <1>3
<1>5. ShownIndex(O, c) = Cardinality({d \in above : ~row[d].archived})
  BY <1>1 DEF ShownIndex, ShownAbove, Shown
<1>6. ShownIndex(O, c)' = Cardinality({d \in above : ~row'[d].archived})
  BY <1>1 DEF ShownIndex, ShownAbove, Shown
<1>7. ASSUME c \in Live PROVE Shown(ToSet(O))' = Shown(ToSet(O)) /\ row'[c].archived = row[c].archived
  BY <1>7 DEF Shown
<1> QED
  BY <1>4, <1>5, <1>6, <1>7

LEMMA PlanStays ==
  ASSUME RowsFit, NEW h \in Handler, NEW w \in Handler, NEW O \in Seq(Nat), Planned(O, h),
         w.card = h.card, w.copy = h.copy, w.to = h.to, w.index = h.index, w.was = h.was, w.told = h.told,
         DOMAIN row' = Live, \A d \in Live : row'[d].archived = row[d].archived,
         InColumn(h.to)' \cup ({Subject(h)} \ {0}) = InColumn(h.to) \cup ({Subject(h)} \ {0})
  PROVE  Planned(O, w)'
<1>1. Subject(w) = Subject(h)
  BY DEF Subject
<1>2. EachOnce(O) /\ w.was = Without(O, Subject(w))
  BY <1>1 DEF Planned
<1>3. ToSet(O) = InColumn(w.to)' \cup ({Subject(w)} \ {0})
  BY <1>1 DEF Planned
<1>4. ASSUME w.copy = 0, w.card # 0 PROVE TellsPlace(O, w)'
  <2>1. TellsPlace(O, h) /\ Subject(h) = h.card
    BY <1>4 DEF Planned, Subject
  <2>2. ToSet(O) \subseteq InColumn(h.to) \cup {h.card} /\ InColumn(h.to) \subseteq Live
    BY <2>1 DEF Planned, InColumn
  <2>3. PICK c : c = h.card
    OBVIOUS
  <2>4. /\ ShownIndex(O, c)' = ShownIndex(O, c)
        /\ c \in Live => Shown(ToSet(O))' = Shown(ToSet(O)) /\ row'[c].archived = row[c].archived
    BY <1>2, <2>2, <2>3, StillTold
  <2>5. PICK i : i = h.index
    OBVIOUS
  <2>6. c \in Live => StandsAt(O, c, i)
    BY <2>1, <2>3, <2>5 DEF TellsPlace
  <2>7. (c \in Live => StandsAt(O, c, i))'
    BY <2>4, <2>6 DEF StandsAt, Live
  <2>8. w.told = ShownIndex(O, c)'
    BY <2>1, <2>3, <2>4 DEF TellsPlace
  <2>9. w.card = c /\ w.index = i
    BY <2>3, <2>5
  <2> QED
    BY <2>7, <2>8, <2>9 DEF TellsPlace
<1>5. w.copy # 0 => StandsUnder(O, w.copy, w.card)
  BY DEF Planned
<1> QED
  BY <1>2, <1>3, <1>4, <1>5 DEF Planned

LEMMA AreaKeeps ==
  ASSUME PlacingInv, NEW p \in PlaceCalls, SetArea(p)
  PROVE  PlacingInv'
<1>1. PICK h : h = placing[p]
  OBVIOUS
<1>2. h \in Handler /\ HandlerFits(h, lastId) /\ h.step = "area" /\ RowsFit /\ PlanHolds(h)
  BY <1>1 DEF PlacingInv, SetArea, PlacingAt
<1>3. h.to \in Areas /\ h.from \in Areas /\ h.number = 0 /\ h.card # 0 /\ h.copy = 0
  BY <1>2 DEF HandlerFits
<1>4. PICK changed : changed = [row[h.card] EXCEPT !.area = h.to]
  OBVIOUS
<1>5. PICK w : w = [h EXCEPT !.step = "write"]
  OBVIOUS
<1>6. Update(h.card, changed) /\ Write(p, w) /\ lastId' = lastId
  BY <1>1, <1>4, <1>5 DEF SetArea
<1>7. /\ w \in Handler /\ w.step = "write" /\ w.card = h.card /\ w.copy = h.copy /\ w.to = h.to /\ w.from = h.from
      /\ w.index = h.index /\ w.was = h.was /\ w.told = h.told /\ w.number = h.number /\ w.order = h.order
  BY <1>2, <1>5 DEF Handler
<1>8. w.alone = h.alone
  BY <1>2, <1>5 DEF Handler
<1>9. h.card \in Live => /\ row[h.card] \in Row /\ changed \in Row /\ changed.area = h.to
                         /\ changed.sort = row[h.card].sort /\ changed.archived = row[h.card].archived
  BY <1>2, <1>3, <1>4 DEF RowsFit, Row
<1>10. /\ RowsFit' /\ DOMAIN row' = Live
       /\ \A d \in Live : row'[d] = IF d = h.card THEN changed ELSE row[d]
  BY <1>2, <1>6, <1>9, RowsUpdated
<1>11. \A d \in Live : /\ row'[d].archived = row[d].archived /\ row'[d].sort = row[d].sort
                        /\ row'[d].area = IF d = h.card THEN h.to ELSE row[d].area
  BY <1>9, <1>10
<1>12. HandlerFits(w, lastId')
  BY <1>2, <1>3, <1>6, <1>7 DEF HandlerFits
<1>13. ASSUME h.alone PROVE PlanHolds(w)'
  <2>1. PICK O \in Seq(Nat) : Planned(O, h) /\ Written(O, h)
    BY <1>2, <1>13 DEF PlanHolds
  <2>2. Subject(h) = h.card
    BY <1>3 DEF Subject
  <2>3. InColumn(h.to)' = {d \in Live : row'[d].area = h.to}
    BY <1>10 DEF InColumn, Live
  <2>4. InColumn(h.to)' \cup ({Subject(h)} \ {0}) = InColumn(h.to) \cup ({Subject(h)} \ {0})
    BY <1>3, <1>11, <2>2, <2>3 DEF InColumn
  <2>5. Planned(O, w)'
    BY <1>2, <1>7, <1>10, <1>11, <2>1, <2>4, PlanStays
  <2>6. Written(O, w)'
    BY <1>3, <1>7, <2>1 DEF Written
  <2>7. HasCome(w)'
    BY <1>7, <1>10, <1>11 DEF HasCome, Live
  <2> QED
    BY <2>1, <2>5, <2>6, <2>7 DEF PlanHolds
<1>14. PlanHolds(w)'
  BY <1>8, <1>13, NothingPlanned
<1> QED
  BY <1>6, <1>7, <1>10, <1>12, <1>14, WriteKeeps DEF RowsFit

LEMMA WriteOrderKeeps ==
  ASSUME PlacingInv, NEW p \in PlaceCalls, WriteOrder(p)
  PROVE  PlacingInv'
<1>1. PICK h : h = placing[p]
  OBVIOUS
<1>2. h \in Handler /\ HandlerFits(h, lastId) /\ h.step = "write" /\ RowsFit /\ PlanHolds(h)
  BY <1>1 DEF PlacingInv, WriteOrder, PlacingAt
<1>3. h.number \in Nat /\ h.order \in Seq(Nat) /\ h.order # <<>>
  BY <1>1, <1>2 DEF Handler, WriteOrder
<1>4. PICK c : c = Head(h.order)
  OBVIOUS
<1>5. PICK changed : changed = [row[c] EXCEPT !.sort = h.number]
  OBVIOUS
<1>6. PICK rest : rest = Tail(h.order)
  OBVIOUS
<1>7. PICK w : w = [h EXCEPT !.order = rest, !.number = h.number + 1]
  OBVIOUS
<1>8. Update(c, changed) /\ Write(p, w) /\ lastId' = lastId
  BY <1>1, <1>4, <1>5, <1>6, <1>7 DEF WriteOrder
<1>9. /\ rest \in Seq(Nat) /\ Len(h.order) \in Nat /\ Len(rest) = Len(h.order) - 1 /\ Len(h.order) >= 1
      /\ c = h.order[1] /\ \A i \in 1..Len(rest) : rest[i] = h.order[i + 1]
  BY <1>3, <1>4, <1>6
<1>10. /\ w \in Handler /\ w.step = "write" /\ w.card = h.card /\ w.copy = h.copy /\ w.to = h.to /\ w.from = h.from
       /\ w.index = h.index /\ w.was = h.was /\ w.told = h.told /\ w.number = h.number + 1 /\ w.order = rest
  <2>1. h.number + 1 \in Nat
    BY <1>3
  <2> QED
    BY <1>2, <1>7, <1>9, <2>1 DEF Handler
<1>11. w.alone = h.alone
  BY <1>2, <1>7 DEF Handler
<1>12. c \in Live => /\ row[c] \in Row /\ changed \in Row /\ changed.area = row[c].area
                     /\ changed.sort = h.number /\ changed.archived = row[c].archived
  BY <1>2, <1>3, <1>5 DEF RowsFit, Row
<1>13. /\ RowsFit' /\ DOMAIN row' = Live
       /\ \A d \in Live : row'[d] = IF d = c THEN changed ELSE row[d]
  BY <1>2, <1>8, <1>12, RowsUpdated
<1>14. \A d \in Live : /\ row'[d].archived = row[d].archived /\ row'[d].area = row[d].area
                        /\ row'[d].sort = IF d = c THEN h.number ELSE row[d].sort
  BY <1>12, <1>13
<1>15. HandlerFits(w, lastId')
  BY <1>2, <1>8, <1>10 DEF HandlerFits
<1>16. ASSUME h.alone PROVE PlanHolds(w)'
  <2>1. PICK O \in Seq(Nat) : Planned(O, h) /\ Written(O, h)
    BY <1>2, <1>16 DEF PlanHolds
  <2>2. InColumn(h.to)' = InColumn(h.to)
    BY <1>13, <1>14 DEF InColumn, Live
  <2>3. Planned(O, w)'
    BY <1>2, <1>10, <1>13, <1>14, <2>1, <2>2, PlanStays
  <2>4. Len(O) \in Nat /\ EachOnce(O) /\ h.number + Len(h.order) = Len(O)
    BY <2>1 DEF Planned, Written
  <2>5. c = O[h.number + 1] /\ h.number + 1 \in 1..Len(O)
    <3>1. PICK n \in Nat : n = Len(h.order) /\ n >= 1
      BY <1>9
    <3>2. PICK m \in Nat : m = h.number
      BY <1>3
    <3>3. 1 \in 1..Len(h.order) /\ m + 1 \in 1..(m + n) /\ Len(O) = m + n
      BY <2>4, <3>1, <3>2
    <3>4. h.order[1] = O[h.number + 1]
      BY <2>1, <3>3 DEF Written
    <3> QED
      BY <1>9, <3>2, <3>3, <3>4
  <2>6. w.number + Len(w.order) = Len(O)
    <3>1. PICK n \in Nat : n = Len(h.order)
      BY <1>9
    <3>2. Len(w.order) = n - 1 /\ w.number = h.number + 1 /\ h.number + n = Len(O)
      BY <1>9, <1>10, <2>4, <3>1
    <3> QED
      BY <1>3, <3>2
  <2>7. ASSUME NEW i \in 1..Len(w.order) PROVE w.order[i] = O[w.number + i]
    <3>1. i \in 1..Len(rest) /\ i + 1 \in 1..Len(h.order) /\ h.number + (i + 1) = w.number + i
      <4>1. PICK n \in Nat : n = Len(h.order)
        BY <1>9
      <4>2. Len(w.order) = n - 1 /\ Len(rest) = n - 1 /\ w.number = h.number + 1
        BY <1>9, <1>10, <4>1
      <4>3. i \in 1..(n - 1)
        BY <4>2
      <4>4. i \in 1..Len(rest) /\ i \in Nat
        BY <4>2, <4>3
      <4>5. i + 1 \in 1..Len(h.order)
        BY <4>1, <4>3
      <4>6. h.number + (i + 1) = w.number + i
        <5>1. PICK m \in Nat : m = h.number
          BY <1>3
        <5>2. w.number = m + 1
          BY <4>2, <5>1
        <5>3. m + (i + 1) = (m + 1) + i
          BY <4>4
        <5> QED
          BY <5>1, <5>2, <5>3
      <4> QED
        BY <4>4, <4>5, <4>6
    <3>2. h.order[i + 1] = O[h.number + (i + 1)]
      BY <2>1, <3>1 DEF Written
    <3> QED
      BY <1>9, <1>10, <3>1, <3>2
  <2>8. ASSUME NEW i \in 1..w.number, O[i] \in Live PROVE row'[O[i]].sort = i - 1
    <3>1. CASE i = h.number + 1
      BY <1>3, <1>14, <2>5, <2>8, <3>1
    <3>2. CASE i # h.number + 1
      <4>1. i \in 1..h.number /\ i \in 1..Len(O)
        <5>1. PICK n \in Nat : n = Len(h.order)
          BY <1>9
        <5>2. i \in 1..(h.number + 1) /\ h.number + n = Len(O)
          BY <1>10, <2>4, <5>1
        <5> QED
          BY <1>3, <3>2, <5>2
      <4>2. O[i] # c
        BY <2>4, <2>5, <3>2, <4>1, OnlyOnce
      <4>3. row[O[i]].sort = i - 1
        BY <2>1, <2>8, <4>1 DEF Written
      <4> QED
        BY <1>14, <2>8, <4>2, <4>3
    <3> QED
      BY <3>1, <3>2
  <2>9. Written(O, w)'
    BY <1>13, <2>6, <2>7, <2>8 DEF Written, Live
  <2>10. HasCome(w)'
    <3>1. HasCome(h)
      BY <1>2, <1>16 DEF PlanHolds
    <3> QED
      BY <1>2, <1>10, <1>13, <1>14, <3>1 DEF HasCome, Live
  <2> QED
    BY <2>1, <2>3, <2>9, <2>10 DEF PlanHolds
<1>17. PlanHolds(w)'
  BY <1>11, <1>16, NothingPlanned
<1> QED
  BY <1>8, <1>10, <1>13, <1>15, <1>17, WriteKeeps DEF RowsFit

LEMMA PlacingStarts ==
  PlaceInit => PlacingInv
<1> SUFFICES ASSUME PlaceInit PROVE PlacingInv
  OBVIOUS
<1>1. row \in [1..FirstCards -> [area : Areas, sort : FirstNumbers, archived : BOOLEAN]] /\ lastId = FirstCards
  BY DEF PlaceInit
<1>2. FirstNumbers \subseteq Nat /\ FirstCards \in Nat
  BY BoundsAssumption, NumbersAssumption
<1>3. [area : Areas, sort : FirstNumbers, archived : BOOLEAN] \subseteq Row
  BY <1>2 DEF Row
<1>4. RowsFit
  BY <1>1, <1>2, <1>3 DEF RowsFit, Live
<1>5. placing = [p \in PlaceCalls |-> NoPlacing]
  BY DEF PlaceInit
<1>6. NoPlacing \in Handler /\ HandlerFits(NoPlacing, lastId) /\ NoPlacing.step = "idle"
  BY <1>4, NobodyPlaces
<1> QED
  BY <1>4, <1>5, <1>6 DEF PlacingInv, PlanHolds

LEMMA PlacingStep ==
  PlacingInv /\ [PlaceNext]_placeVars => PlacingInv'
<1> SUFFICES ASSUME PlacingInv, [PlaceNext]_placeVars PROVE PlacingInv'
  OBVIOUS
<1>1. CASE UNCHANGED placeVars
  BY <1>1, RequestsAside DEF placeVars
<1>2. ASSUME NEW p \in PlaceCalls,
             \/ InsertNew(p) \/ ReadAndPlace(p) \/ SetArea(p) \/ WriteOrder(p)
             \/ RenumberSource(p) \/ Answer(p) \/ InsertCopy(p) \/ PlaceCopy(p) \/ PlacingDies(p)
      PROVE  PlacingInv'
  BY <1>2, InsertNewKeeps, PlaceKeeps, AreaKeeps, WriteOrderKeeps, RenumberKeeps, AnswerKeeps, InsertCopyKeeps, PlaceCopyKeeps
<1>3. ASSUME NEW p \in PlaceCalls,
             \/ \E a \in Areas : AskNextSort(p, a)
             \/ \E c \in Live : StartDuplicate(p, c)
             \/ \E c \in Live, to \in Areas, i \in Indexes : StartPut(p, c, to, i)
      PROVE  PlacingInv'
  BY <1>3, AskNextKeeps, StartDuplicateKeeps, StartPutKeeps
<1>4. ASSUME NEW c \in Live, Destroy(c) \/ \E archived \in BOOLEAN : SetArchived(c, archived)
      PROVE  PlacingInv'
  BY <1>4, DestroyKeeps, ArchiveKeeps
<1> QED
  BY <1>1, <1>2, <1>3, <1>4 DEF PlaceNext

(* What has been written with nobody in between reads as it was planned.      *)
LEMMA PlanReads ==
  ASSUME PlacingInv, NEW p \in PlaceCalls, Placed(p), NEW h, h = placing[p],
         \/ h.copy = 0 /\ h.card \in Live
         \/ h.copy \in InColumn(h.to)
         \/ h.card = 0
  PROVE  /\ ReadColumn(h.to) \in Seq(Nat) /\ Planned(ReadColumn(h.to), h)
         /\ ToSet(ReadColumn(h.to)) = InColumn(h.to) /\ Tidy(h.to)
<1>1. /\ h \in Handler /\ HandlerFits(h, lastId) /\ RowsFit /\ PlanHolds(h)
      /\ h.step = "write" /\ h.order = <<>> /\ h.alone
  BY DEF PlacingInv, Placed, PlacingAt
<1>2. PICK O \in Seq(Nat) : Planned(O, h) /\ Written(O, h)
  BY <1>1 DEF PlanHolds
<1>3. h.number = Len(O) /\ \A i \in 1..Len(O) : O[i] \in Live => row[O[i]].sort = i - 1
  <2>1. h.number \in Nat /\ Len(h.order) = 0
    BY <1>1 DEF Handler
  <2> QED
    BY <1>2, <2>1 DEF Written
<1>4. 0 \notin Live /\ InColumn(h.to) \subseteq Live
  BY <1>1 DEF RowsFit, InColumn
<1>5. Subject(h) \in InColumn(h.to) \/ Subject(h) = 0
  <2>1. CASE h.copy = 0 /\ h.card \in Live
    BY <1>1, <2>1 DEF Subject, PlanHolds, HasCome, InColumn
  <2>2. CASE h.copy \in InColumn(h.to)
    BY <1>4, <2>2 DEF Subject
  <2>3. CASE h.card = 0
    BY <1>1, <2>3 DEF Subject, HandlerFits
  <2> QED
    BY <2>1, <2>2, <2>3
<1>6. EachOnce(O) /\ ToSet(O) = InColumn(h.to)
  BY <1>2, <1>5 DEF Planned
<1>7. \A i \in 1..Len(O) : row[O[i]].sort = i - 1
  <2>1. \A i \in 1..Len(O) : O[i] \in Live
    BY <1>4, <1>6, ListIsSet
  <2> QED
    BY <1>3, <2>1
<1>8. ReadColumn(h.to) = O
  BY <1>1, <1>6, <1>7, ReadAgain
<1> QED
  BY <1>2, <1>6, <1>7, <1>8 DEF Tidy

LEMMA PlansLand == PlacingInv => LandsWhereAsked
<1> SUFFICES ASSUME PlacingInv PROVE LandsWhereAsked
  OBVIOUS
<1>1. DropLands
  <2> SUFFICES ASSUME NEW p \in PlaceCalls, NEW h, h = placing[p], Placed(p), h.copy = 0, h.card \in Live,
                      NEW column, column = ReadColumn(h.to)
               PROVE  /\ Without(column, h.card) = h.was
                      /\ Tidy(h.to)
                      /\ h.told = ShownIndex(column, h.card)
                      /\ ~row[h.card].archived =>
                           h.told = IF h.index >= Cardinality(Shown(ToSet(column)))
                                      THEN Cardinality(Shown(ToSet(column))) - 1 ELSE h.index
    BY DEF DropLands
  <2>1. Planned(column, h) /\ Tidy(h.to)
    BY PlanReads
  <2>2. h.card # 0
    BY DEF PlacingInv, RowsFit
  <2>3. Without(column, h.card) = h.was /\ TellsPlace(column, h)
    BY <2>1, <2>2 DEF Planned, Subject
  <2> QED
    BY <2>1, <2>3 DEF TellsPlace, StandsAt
<1>2. CopyLands
  <2> SUFFICES ASSUME NEW p \in PlaceCalls, NEW h, h = placing[p], Placed(p), h.copy \in InColumn(h.to),
                      NEW column, column = ReadColumn(h.to)
               PROVE  /\ Without(column, h.copy) = h.was
                      /\ h.card \in InColumn(h.to) =>
                           Position(column, h.copy) = Position(column, h.card) + 1
    BY DEF CopyLands
  <2>1. column \in Seq(Nat) /\ Planned(column, h) /\ ToSet(column) = InColumn(h.to)
    BY PlanReads
  <2>2. h.copy # 0
    BY DEF PlacingInv, RowsFit, InColumn
  <2>3. EachOnce(column) /\ Without(column, h.copy) = h.was /\ StandsUnder(column, h.copy, h.card)
    BY <2>1, <2>2 DEF Planned, Subject
  <2>4. ASSUME h.card \in InColumn(h.to)
        PROVE  Position(column, h.copy) = Position(column, h.card) + 1
    <3>1. PICK i \in 1..Len(column) : column[i] = h.card
      BY <2>1, <2>4, ListHas
    <3>2. i + 1 \in 1..Len(column) /\ column[i + 1] = h.copy
      BY <2>3, <3>1 DEF StandsUnder
    <3>3. Position(column, column[i]) = i
      BY <2>1, <2>3, PlaceInList
    <3>4. Position(column, column[i + 1]) = i + 1
      BY <2>1, <2>3, <3>2, PlaceInList
    <3> QED
      BY <3>1, <3>2, <3>3, <3>4
  <2> QED
    BY <2>3, <2>4
<1>3. RenumberKeepsOrder
  <2> SUFFICES ASSUME NEW p \in PlaceCalls, NEW h, h = placing[p], Placed(p), h.card = 0,
                      NEW column, column = ReadColumn(h.to)
               PROVE  column = h.was /\ Tidy(h.to)
    BY DEF RenumberKeepsOrder
  <2>1. column \in Seq(Nat) /\ Planned(column, h) /\ ToSet(column) = InColumn(h.to) /\ Tidy(h.to)
    BY PlanReads
  <2>2. h.copy = 0 /\ 0 \notin InColumn(h.to)
    BY DEF PlacingInv, HandlerFits, RowsFit, InColumn
  <2>3. h.was = Without(column, 0) /\ 0 \notin ToSet(column)
    BY <2>1, <2>2 DEF Planned, Subject
  <2>4. Without(column, 0) = column
    BY <2>1, <2>3, ListIsSet DEF Without, Contains
  <2> QED
    BY <2>1, <2>3, <2>4
<1> QED
  BY <1>1, <1>2, <1>3 DEF LandsWhereAsked

(* Whatever gaps, equal numbers and numbers of archived cards there are, a    *)
(* card nobody interferes with ends where it was dropped and where its answer *)
(* says, a copy directly under its original, and the other cards of both      *)
(* columns keep their order.                                                  *)
THEOREM CardsLandWhereAsked == PlaceSpec => []LandsWhereAsked
<1>1. PlaceInit => PlacingInv
  BY PlacingStarts
<1>2. PlacingInv /\ [PlaceNext]_placeVars => PlacingInv'
  BY PlacingStep
<1>3. PlacingInv => LandsWhereAsked
  BY PlansLand
<1> QED
  BY <1>1, <1>2, <1>3, PTL DEF PlaceSpec
=============================================================================
